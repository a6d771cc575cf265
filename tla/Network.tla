-------------------------------- MODULE Network --------------------------------
(***************************************************************************)
(* The connections between the clients and the server: how the server      *)
(* gives each a worker in one of its threads (Server/server.cpp,           *)
(* Server/serverworker.cpp), how both ends cut messages out of the bytes   *)
(* that arrive (Framing), and what becomes of a connection that ends while *)
(* bytes and events are on their way (Client/client.cpp).                  *)
(*                                                                         *)
(* A worker lives in a thread of the pool, the server in the main thread:  *)
(* what a worker says reaches the server as an event in its queue.  What a *)
(* client's socket says reaches the client in the same way.                *)
(***************************************************************************)
EXTENDS Framing, SequencesExt

CONSTANTS
  Clients,        \* each is one Client object, which connects again and again
  m_idealThreadCount,
  MaxWorkers,     \* bound: connections accepted
  MaxSent,        \* bound: messages sent over a link
  Limits          \* bounds of a behaviour: the clients there are, and the
                  \* connections they make and the messages sent, in all

Workers == 1 .. MaxWorkers
Up(w) == <<"up", w>>
Down(w) == <<"down", w>>
Links == {Up(w) : w \in Workers} \cup {Down(w) : w \in Workers}

\* A message is its link and its number there.
ASSUME MessagesAssumption == Messages = Links \X (1 .. MaxSent)
ASSUME ThreadsAssumption == m_idealThreadCount \in Nat \ {0}
ASSUME BoundsAssumption == MaxWorkers \in Nat /\ MaxSent \in Nat \ {0}
ASSUME LimitsAssumption == Limits \subseteq [clients : SUBSET Clients, workers : Nat, sent : Nat]

VARIABLES
  limits,         \* those of this behaviour
  backlog,        \* the clients whose connection the server has not taken yet
  worker,         \* the worker of each connection: "none", "connected",
                  \* "gone" when it has told so, and "deleted"
  client,         \* the client of each worker
  threadIdx,      \* the thread of each worker
  m_threadsLoad,  \* the load of each thread started
  events,         \* the queue of the server's thread
  up, down,       \* the bytes of a connection on their way, each direction
  reader,         \* the reader of each worker
  conn,           \* the connection of each client, 0 without one
  past,           \* the connection it had, whose last bytes may still be read
  received,       \* the reader of each client
  leftover,       \* whether bytes read late are in it
  spoiled,        \* the connections that began with such bytes
  posted,         \* the messages in the queue of each client
  sent, got       \* for each link, messages sent and handled

server == <<worker, client, threadIdx, m_threadsLoad>>
wires == <<up, down>>
ends == <<conn, past, received, leftover, spoiled>>
vars == <<limits, backlog, server, events, wires, reader, ends, posted, sent, got>>

Threads == 1 .. m_idealThreadCount
Nobody == "nobody"

Served == {w \in Workers : worker[w] \in {"connected", "gone"}}
LoadOf(t) == Cardinality({w \in Served : threadIdx[w] = t})

NextMessage(l) == <<l, sent[l] + 1>>
SentInAll == FoldFunction(+, 0, sent)
MaySend(l) == sent[l] < MaxSent /\ SentInAll < limits.sent
Sends(l) == sent' = [sent EXCEPT ![l] = @ + 1]
Handles(m) == got' = [got EXCEPT ![m[1]] = Append(@, m[2])]

-----------------------------------------------------------------------------
(***************************************************************************)
(* Connections come.                                                       *)
(***************************************************************************)

\* A new connection drops what was left in the socket of the last one.
connectToServer(c) ==
  /\ c \in limits.clients /\ conn[c] = 0 /\ c \notin ToSet(backlog)
  /\ Cardinality({w \in Workers : worker[w] # "none"}) + Len(backlog) < limits.workers
  /\ backlog' = Append(backlog, c)
  /\ past' = [past EXCEPT ![c] = 0]
  /\ UNCHANGED <<limits, server, events, wires, reader, conn, received, leftover, spoiled, posted, sent, got>>

\* Mutated form: a thread too many.
MayStartTooMany == Len(m_threadsLoad) <= m_idealThreadCount

MayStart == Len(m_threadsLoad) < m_idealThreadCount

\* Mutated form: always the first thread.
ChosenFirst(t) == t = 1

\* A thread is started for the worker as long as there may be more; after that
\* it goes to the first of the threads with the least load.
Chosen(t) ==
  IF MayStart THEN t = Len(m_threadsLoad) + 1
  ELSE /\ t \in DOMAIN m_threadsLoad
       /\ \A o \in DOMAIN m_threadsLoad :
            m_threadsLoad[t] < m_threadsLoad[o] \/ (m_threadsLoad[t] = m_threadsLoad[o] /\ t <= o)

Accepts(w, c, t) ==
  /\ worker' = [worker EXCEPT ![w] = "connected"]
  /\ client' = [client EXCEPT ![w] = c]
  /\ threadIdx' = [threadIdx EXCEPT ![w] = t]
  /\ conn' = [conn EXCEPT ![c] = w]
  /\ spoiled' = IF leftover[c] THEN spoiled \cup {w} ELSE spoiled

\* Mutated form: only the worker that starts a thread is counted.
CountsFirst(t) == m_threadsLoad' = IF t > Len(m_threadsLoad) THEN Append(m_threadsLoad, 1) ELSE m_threadsLoad

Counts(t) ==
  m_threadsLoad' = IF t > Len(m_threadsLoad) THEN Append(m_threadsLoad, 1)
                   ELSE [m_threadsLoad EXCEPT ![t] = @ + 1]

incomingConnection ==
  /\ backlog # <<>>
  /\ \E w \in Workers, t \in 1 .. Len(m_threadsLoad) + 1 :
       /\ worker[w] = "none" /\ \A v \in Workers : worker[v] = "none" => w <= v
       /\ Chosen(t)
       /\ Accepts(w, Head(backlog), t)
       /\ Counts(t)
  /\ backlog' = Tail(backlog)
  /\ UNCHANGED <<limits, events, wires, reader, past, received, leftover, posted, sent, got>>

\* setSocketDescriptor fails.
ConnectionRefused ==
  /\ backlog # <<>>
  /\ backlog' = Tail(backlog)
  /\ UNCHANGED <<limits, server, events, wires, reader, ends, posted, sent, got>>

-----------------------------------------------------------------------------
(***************************************************************************)
(* Messages are sent, their bytes read, and the messages handled.          *)
(***************************************************************************)

ClientSends(c) ==
  LET w == conn[c]
  IN  /\ w # 0 /\ MaySend(Up(w))
      /\ up' = [up EXCEPT ![w] = @ \o Frame(NextMessage(Up(w)))]
      /\ Sends(Up(w))
      /\ UNCHANGED <<limits, backlog, server, events, down, reader, ends, posted, got>>

\* The worker writes what the server tells it to, into a socket that may have
\* lost its connection.
ServerSends(w) ==
  /\ w \in Served /\ MaySend(Down(w))
  /\ down' = IF conn[client[w]] = w
             THEN [down EXCEPT ![w] = @ \o Frame(NextMessage(Down(w)))] ELSE down
  /\ Sends(Down(w))
  /\ UNCHANGED <<limits, backlog, server, events, up, reader, ends, posted, got>>

\* A worker reads the bytes that arrived, any piece of the stream.
WorkerReads(w) ==
  /\ worker[w] = "connected"
  /\ \E n \in 1 .. Len(up[w]) :
       LET r == onReadyRead_helper(reader[w], SubSeq(up[w], 1, n))
       IN  /\ reader' = [reader EXCEPT ![w] = Reader(r)]
           /\ up' = [up EXCEPT ![w] = SubSeq(@, n + 1, Len(@))]
           /\ events' = events \o [k \in DOMAIN r.emitted |-> [type |-> "message", from |-> w, message |-> r.emitted[k]]]
  /\ UNCHANGED <<limits, backlog, server, down, ends, posted, sent, got>>

ClientHasRead(c, w, n) ==
  LET r == onReadyRead_helper(received[c], SubSeq(down[w], 1, n))
  IN  /\ received' = [received EXCEPT ![c] = Reader(r)]
      /\ down' = [down EXCEPT ![w] = SubSeq(@, n + 1, Len(@))]
      /\ posted' = [posted EXCEPT ![c] = @ \o r.emitted]
      /\ UNCHANGED <<limits, backlog, server, events, up, reader, conn, past, spoiled, sent, got>>

ClientReads(c) ==
  /\ conn[c] # 0
  /\ \E n \in 1 .. Len(down[conn[c]]) : ClientHasRead(c, conn[c], n)
  /\ UNCHANGED leftover

\* The slot of readyRead is queued: it may run after the connection was lost
\* and the reader cleared, and read what the socket still holds.
ClientReadsLate(c) ==
  /\ past[c] # 0
  /\ \E n \in 1 .. Len(down[past[c]]) : ClientHasRead(c, past[c], n)
  /\ leftover' = [leftover EXCEPT ![c] = received'[c] # Empty]

ClientHandles(c) ==
  /\ posted[c] # <<>>
  /\ posted' = [posted EXCEPT ![c] = Tail(@)]
  /\ IF Head(posted[c]) = Garbled THEN UNCHANGED got ELSE Handles(Head(posted[c]))
  /\ UNCHANGED <<limits, backlog, server, events, wires, reader, ends, sent>>

ServerHandles ==
  /\ events # <<>> /\ Head(events).type = "message"
  /\ events' = Tail(events)
  /\ IF Head(events).message = Garbled THEN UNCHANGED got ELSE Handles(Head(events).message)
  /\ UNCHANGED <<limits, backlog, server, wires, reader, ends, posted, sent>>

-----------------------------------------------------------------------------
(***************************************************************************)
(* Connections end.                                                        *)
(***************************************************************************)

\* Mutated form: the reader is not cleared.
ClientLosesOnly(c) ==
  /\ conn' = [conn EXCEPT ![c] = 0]
  /\ past' = [past EXCEPT ![c] = conn[c]]
  /\ leftover' = [leftover EXCEPT ![c] = FALSE]
  /\ \E n \in 0 .. Len(down[conn[c]]) : down' = [down EXCEPT ![conn[c]] = SubSeq(@, 1, n)]
  /\ UNCHANGED <<limits, backlog, server, events, reader, received, spoiled, posted, sent, got>>

\* Of the bytes to the client only some arrived; the rest is lost.
ClientLoses(c) ==
  /\ conn' = [conn EXCEPT ![c] = 0]
  /\ past' = [past EXCEPT ![c] = conn[c]]
  /\ received' = [received EXCEPT ![c] = Empty]
  /\ leftover' = [leftover EXCEPT ![c] = FALSE]
  /\ \E n \in 0 .. Len(down[conn[c]]) : down' = [down EXCEPT ![conn[c]] = SubSeq(@, 1, n)]
  /\ UNCHANGED <<limits, backlog, server, events, reader, spoiled, posted, sent, got>>

\* The client writes what it has to write before it closes the connection.
disconnectFromHost(c) ==
  /\ conn[c] # 0
  /\ ClientLoses(c)
  /\ UNCHANGED up

\* The network fails.
ConnectionDrops(c) ==
  /\ conn[c] # 0
  /\ ClientLoses(c)
  /\ \E n \in 0 .. Len(up[conn[c]]) : up' = [up EXCEPT ![conn[c]] = SubSeq(@, 1, n)]

\* Mutated forms: the end is told again and again; it waits for the rest of a message.
WorkerDisconnectedAgain(w) ==
  /\ worker[w] \in {"connected", "gone"} /\ conn[client[w]] # w
  /\ up[w] = <<>> /\ Len(events) < 3
  /\ worker' = [worker EXCEPT ![w] = "gone"]
  /\ events' = Append(events, [type |-> "disconnected", from |-> w])
  /\ UNCHANGED <<limits, backlog, client, threadIdx, m_threadsLoad, wires, reader, ends, posted, sent, got>>
WorkerDisconnectedWhole(w) ==
  /\ worker[w] = "connected" /\ conn[client[w]] # w
  /\ up[w] = <<>> /\ reader[w] = Empty
  /\ worker' = [worker EXCEPT ![w] = "gone"]
  /\ events' = Append(events, [type |-> "disconnected", from |-> w])
  /\ UNCHANGED <<limits, backlog, client, threadIdx, m_threadsLoad, wires, reader, ends, posted, sent, got>>

\* The worker notices when it has read what arrived.
WorkerDisconnected(w) ==
  /\ worker[w] = "connected" /\ conn[client[w]] # w
  /\ up[w] = <<>>
  /\ worker' = [worker EXCEPT ![w] = "gone"]
  /\ events' = Append(events, [type |-> "disconnected", from |-> w])
  /\ UNCHANGED <<limits, backlog, client, threadIdx, m_threadsLoad, wires, reader, ends, posted, sent, got>>

userDisconnected ==
  LET w == Head(events).from
  IN  /\ events # <<>> /\ Head(events).type = "disconnected"
      /\ events' = Tail(events)
      /\ m_threadsLoad' = [m_threadsLoad EXCEPT ![threadIdx[w]] = @ - 1]
      /\ worker' = [worker EXCEPT ![w] = "deleted"]
      /\ UNCHANGED <<limits, backlog, client, threadIdx, wires, reader, ends, posted, sent, got>>

-----------------------------------------------------------------------------

Init ==
  /\ limits \in Limits
  /\ backlog = <<>> /\ events = <<>> /\ m_threadsLoad = <<>>
  /\ worker = [w \in Workers |-> "none"]
  /\ client = [w \in Workers |-> Nobody]
  /\ threadIdx = [w \in Workers |-> 0]
  /\ up = [w \in Workers |-> <<>>] /\ down = [w \in Workers |-> <<>>]
  /\ reader = [w \in Workers |-> Empty]
  /\ conn = [c \in Clients |-> 0] /\ past = [c \in Clients |-> 0]
  /\ received = [c \in Clients |-> Empty]
  /\ leftover = [c \in Clients |-> FALSE] /\ spoiled = {}
  /\ posted = [c \in Clients |-> <<>>]
  /\ sent = [l \in Links |-> 0] /\ got = [l \in Links |-> <<>>]

ClientNext(c) ==
  \/ connectToServer(c) \/ ClientSends(c) \/ ClientReads(c) \/ ClientReadsLate(c)
  \/ ClientHandles(c) \/ disconnectFromHost(c) \/ ConnectionDrops(c)

WorkerNext(w) == ServerSends(w) \/ WorkerReads(w) \/ WorkerDisconnected(w)

Next ==
  \/ incomingConnection \/ ConnectionRefused \/ ServerHandles \/ userDisconnected
  \/ \E c \in Clients : ClientNext(c)
  \/ \E w \in Workers : WorkerNext(w)

\* The bytes of a connection that lasts arrive, and the event loops of the
\* clients, of the threads and of the server run.
Fairness ==
  /\ WF_vars(ServerHandles \/ userDisconnected)
  /\ \A c \in Clients : WF_vars(ClientReads(c) \/ ClientHandles(c))
  /\ \A w \in Workers : WF_vars(WorkerReads(w) \/ WorkerDisconnected(w))

Spec == Init /\ [][Next]_vars /\ Fairness

-----------------------------------------------------------------------------
(***************************************************************************)
(* Properties.                                                             *)
(***************************************************************************)

Bytes == Messages \X (Nat \ {0})
Readers == [received : Seq(Bytes), expected : Nat \cup {Endless}]
Events ==
  [type : {"message"}, from : Workers, message : Messages \cup {Garbled}]
    \cup [type : {"disconnected"}, from : Workers]

\* The variables have the values the code gives them.
TypeOK ==
  /\ backlog \in Seq(Clients) /\ events \in Seq(Events)
  /\ worker \in [Workers -> {"none", "connected", "gone", "deleted"}]
  /\ client \in [Workers -> Clients \cup {Nobody}]
  /\ threadIdx \in [Workers -> {0} \cup Threads]
  /\ m_threadsLoad \in Seq(Int) /\ Len(m_threadsLoad) <= m_idealThreadCount
  /\ up \in [Workers -> Seq(Bytes)] /\ down \in [Workers -> Seq(Bytes)]
  /\ reader \in [Workers -> Readers] /\ received \in [Clients -> Readers]
  /\ conn \in [Clients -> {0} \cup Workers] /\ past \in [Clients -> {0} \cup Workers]
  /\ leftover \in [Clients -> BOOLEAN] /\ spoiled \subseteq Workers
  /\ posted \in [Clients -> Seq(Messages \cup {Garbled})]
  /\ sent \in [Links -> 0 .. MaxSent] /\ got \in [Links -> Seq(1 .. MaxSent)]

\* The load of a thread, counted by hand in two handlers, is the number of the
\* workers in it whose end the server has not handled (server.cpp:65-75, 224).
LoadsMatch == \A t \in DOMAIN m_threadsLoad : m_threadsLoad[t] = LoadOf(t)

\* A new worker goes to a thread than which no other has fewer workers, those
\* not started included (server.cpp:64-75).
PlacedOnLeast ==
  [][\A w \in Workers : worker[w] = "none" /\ worker'[w] # "none" =>
       \A t \in Threads : LoadOf(threadIdx'[w]) <= LoadOf(t)]_vars

\* The end of a worker is the last the server hears of it, and it hears of it
\* once: no event in the queue is of a worker that will have been deleted when
\* its turn comes (server.cpp:223-230).
EndIsLast ==
  \A i \in DOMAIN events :
    /\ worker[events[i].from] \in {"connected", "gone"}
    /\ events[i].type = "disconnected" =>
         /\ worker[events[i].from] = "gone"
         /\ \A j \in DOMAIN events : j > i => events[j].from # events[i].from

\* Again and again the server has forgotten every connection that ended
\* (serverworker.cpp:20-21, server.cpp:83-84).
EndsAreNoticed ==
  []<>(\A w \in Workers : worker[w] \in {"connected", "gone"} => conn[client[w]] = w)

\* A connection is a channel in each direction, unless a client begins it with
\* bytes of the last one: the messages are handled each once and in order,
\* however they are cut into pieces, and all of them while the connection lasts.
Spoiled(l) == l[1] = "down" /\ l[2] \in spoiled

LinkState(l) ==
  IF worker[l[2]] = "none" \/ Spoiled(l) THEN "new"
  ELSE IF conn[client[l[2]]] = l[2] THEN "up" ELSE "lost"

Connection ==
  INSTANCE Channel WITH state <- [l \in Links |-> LinkState(l)],
                        got <- [l \in Links |-> IF Spoiled(l) THEN <<>> ELSE got[l]]
IsChannel == Connection!Spec

\* Again and again there is nothing left to handle of what was sent over the
\* connections that last (client.cpp:42, byte_reader.h:74-100).
EverythingArrives ==
  []<>(\A l \in Links : LinkState(l) = "up" => Len(got[l]) = sent[l])
=============================================================================
