------------------------------- MODULE FileStore -------------------------------
(***************************************************************************)
(* The files of the server (Server/server.cpp): which clients have a file  *)
(* open, the symbols it holds in memory for the open files, and the copies *)
(* in the database (Server/mongo.cpp), with clients that create, open,     *)
(* edit and close files, connections that drop and a server that crashes.  *)
(*                                                                         *)
(* The server handles one event at a time: a request, a lost connection or *)
(* the timer that saves the open files.  The database calls of an event    *)
(* are steps of their own, since a crash may come between them.            *)
(*                                                                         *)
(* The symbols of a file are abstracted to the number of operations that   *)
(* made them; 0 is a file with no symbol.  The fields of the requests are  *)
(* well formed: the checks of their types are left out.                    *)
(***************************************************************************)
EXTENDS Integers, SequencesExt

CONSTANTS
  Users,      \* each has at most one connection, and so one ServerWorker
  Files,      \* "name,author"
  Author,     \* the author of each file
  Existing,   \* the files in the database at the start
  Impatient,  \* whether users ask for a file before the last answer came
  MaxAsked,   \* bound: requests of a user in their way at once
  MaxListed,  \* bound: entries in the list of a file when it is asked for
  MaxEdits,   \* bound: operations typed in all
  MaxDrops,   \* bound: connections lost
  MaxCrashes  \* bound: crashes of the server

ASSUME AuthorAssumption == Author \in [Files -> Users]
ASSUME NamesAssumption == "none" \notin Files /\ "deleted" \notin Users
ASSUME ExistingAssumption == Existing \subseteq Files
ASSUME LimitsAssumption == Impatient \in BOOLEAN /\ {MaxAsked, MaxListed, MaxEdits, MaxDrops, MaxCrashes} \subseteq Nat

VARIABLES
  files,           \* database: the files listed by their authors
  bucket,          \* database: the stored symbols, or NoFile
  symbols_list,    \* memory: the symbols of a file, for the files it holds
  changed,         \* memory: whether they changed since they were stored
  mapFileWorkers,  \* memory: who has a file open, in order, with repetitions
  shared,          \* the files whose link their author has seen
  filename,        \* the file of each ServerWorker, or NoName
  alive,           \* the users whose ServerWorker exists
  serving,         \* what the server is in the middle of
  requests,        \* from each client to the server
  answers,         \* from the server to each client
  view,            \* the window of each client: "home", "editing" or "login"
  openfile,        \* the file a client believes to have open
  typed, drops, crashes

memory == <<symbols_list, changed, mapFileWorkers>>
client == <<view, openfile>>
counts == <<typed, drops, crashes>>
vars == <<files, bucket, memory, filename, alive, serving, requests, answers, client, shared, counts>>

NoFile == -1
NoName == "none"         \* QString()
Deleted == "deleted"     \* a pointer to a ServerWorker that was deleted
Idle == [doing |-> "nothing"]

Held == DOMAIN symbols_list
Put(f, k, v) == [x \in DOMAIN f \cup {k} |-> IF x = k THEN v ELSE f[x]]

\* Who has a file open.  What the server does with a list that holds a deleted
\* worker is undefined: no step is taken from there on.
WorkersOf(f) == IF f \in DOMAIN mapFileWorkers THEN mapFileWorkers[f] ELSE <<>>

Request(type, f) == [type |-> type, file |-> f]
Send(u, m) == requests' = [requests EXCEPT ![u] = Append(@, m)]

-----------------------------------------------------------------------------
(***************************************************************************)
(* The clients.                                                            *)
(***************************************************************************)

Unanswered(u) ==
  \/ requests[u] # <<>> \/ answers[u] # <<>>
  \/ serving.doing = "create" /\ serving.user = u

MayAsk(u) ==
  /\ view[u] = "home"
  /\ Impatient \/ ~Unanswered(u)
  /\ Len(requests[u]) + Len(answers[u]) < MaxAsked
  /\ UNCHANGED <<files, bucket, memory, filename, alive, serving, answers, view, shared, counts>>

\* The name is taken for the open file before the answer.
ClientCreates(u, f) ==
  /\ MayAsk(u)
  /\ Author[f] = u
  /\ openfile' = [openfile EXCEPT ![u] = f]
  /\ Send(u, Request("new_file", f))

\* A user chooses among the files listed: the user's own, or one that the
\* author shared by its link.
ClientOpens(u, f) ==
  /\ MayAsk(u)
  /\ f \in files
  /\ Author[f] = u \/ f \in shared
  /\ Len(WorkersOf(f)) < MaxListed
  /\ Send(u, Request("file_to_open", f))
  /\ UNCHANGED openfile

ClientTypes(u) ==
  /\ view[u] = "editing"
  /\ typed < MaxEdits
  /\ typed' = typed + 1
  /\ Send(u, Request("operation", openfile[u]))
  /\ UNCHANGED <<files, bucket, memory, filename, alive, serving, answers, client,
                 shared, drops, crashes>>

ClientCloses(u) ==
  /\ view[u] = "editing"
  /\ view' = [view EXCEPT ![u] = "home"]
  /\ Send(u, Request("close", openfile[u]))
  /\ UNCHANGED <<files, bucket, memory, filename, alive, serving, answers, openfile, shared, counts>>

Heard(u) ==
  /\ answers' = [answers EXCEPT ![u] = Tail(@)]
  /\ UNCHANGED <<files, bucket, memory, filename, alive, serving, counts>>

\* A new file begins with the terminator, which its author's editor inserts.
ClientHearsNewFile(u) ==
  /\ answers[u] # <<>> /\ Head(answers[u]).type = "new_file"
  /\ Heard(u)
  /\ UNCHANGED openfile
  /\ IF Head(answers[u]).success
     THEN /\ view' = [view EXCEPT ![u] = "editing"]
          /\ Send(u, Request("operation", openfile[u]))
          /\ shared' = shared \cup {openfile[u]}
     ELSE UNCHANGED <<view, requests, shared>>

\* A file without symbols is ignored; after a failure no file is open.
ClientHearsFile(u) ==
  LET m == Head(answers[u])
  IN  /\ answers[u] # <<>> /\ m.type = "file_to_open"
      /\ Heard(u)
      /\ UNCHANGED <<requests, shared>>
      /\ IF m.success /\ m.symbols # 0
         THEN view' = [view EXCEPT ![u] = "editing"] /\ openfile' = [openfile EXCEPT ![u] = m.file]
         ELSE /\ UNCHANGED view
              /\ openfile' = IF m.success THEN openfile ELSE [openfile EXCEPT ![u] = NoName]

\* The connection is lost: the server handles what arrived before it notices.
ConnectionDrops(u) ==
  /\ view[u] # "login"
  /\ drops < MaxDrops
  /\ drops' = drops + 1
  /\ view' = [view EXCEPT ![u] = "login"]
  /\ \E n \in 0 .. Len(requests[u]) :
       requests' = [requests EXCEPT ![u] = Append(SubSeq(@, 1, n), Request("disconnected", NoName))]
  /\ answers' = [answers EXCEPT ![u] = <<>>]
  /\ UNCHANGED <<files, bucket, memory, filename, alive, serving, openfile, shared, typed, crashes>>

\* A user logs in again: a second connection of a user is refused.
ClientConnects(u) ==
  /\ view[u] = "login" /\ u \notin alive
  /\ serving = Idle
  /\ view' = [view EXCEPT ![u] = "home"]
  /\ openfile' = [openfile EXCEPT ![u] = NoName]
  /\ alive' = alive \cup {u}
  /\ filename' = [filename EXCEPT ![u] = NoName]
  /\ UNCHANGED <<files, bucket, memory, serving, requests, answers, shared, counts>>

-----------------------------------------------------------------------------
(***************************************************************************)
(* The requests of clients.                                                *)
(***************************************************************************)

Receives(u, type) ==
  /\ serving = Idle
  /\ requests[u] # <<>> /\ Head(requests[u]).type = type
  /\ requests' = [requests EXCEPT ![u] = Tail(@)]
  /\ UNCHANGED <<client, shared, counts>>

Answer(u, m) == answers' = [answers EXCEPT ![u] = IF view[u] = "login" THEN @ ELSE Append(@, m)]
NewFileAnswer(success) == [type |-> "new_file", success |-> success]

\* Mongo::newFile, a transaction on the collection of users.
newFile(f) == files' = files \cup {f}

\* Mongo::retrieveFile: no symbols when there is no such file.
retrieveFile(f) == IF bucket[f] = NoFile THEN 0 ELSE bucket[f]

storeSymbolsServerMemory(f, symbols) ==
  symbols_list' = Put(symbols_list, f, symbols) /\ changed' = Put(changed, f, FALSE)

\* createNewFile: the file is listed, then ...
createNewFile(u) ==
  LET f == Head(requests[u]).file
  IN  /\ Receives(u, "new_file")
      /\ UNCHANGED <<bucket, memory, alive>>
      /\ IF f \in files
         THEN /\ Answer(u, NewFileAnswer(FALSE))
              /\ UNCHANGED <<files, filename, serving>>
         ELSE /\ newFile(f)
              /\ filename' = [filename EXCEPT ![u] = f]
              /\ serving' = [doing |-> "create", user |-> u, file |-> f]
              /\ UNCHANGED answers

\* ... an empty file is stored, and the author is the first to have it open.
insertNewFile ==
  LET f == serving.file
      u == serving.user
  IN  /\ serving.doing = "create"
      /\ bucket[f] = NoFile
      /\ bucket' = [bucket EXCEPT ![f] = 0]
      /\ mapFileWorkers' = Put(mapFileWorkers, f, <<u>>)
      /\ IF f \in Held THEN UNCHANGED <<symbols_list, changed>>
         ELSE symbols_list' = Put(symbols_list, f, 0) /\ changed' = Put(changed, f, TRUE)
      /\ serving' = Idle
      /\ Answer(u, NewFileAnswer(TRUE))
      /\ UNCHANGED <<files, filename, alive, requests, client, shared, counts>>

\* sendFile: the client joins the list before the file is read; a file that
\* cannot be read is held in memory without symbols.
sendFile(u) ==
  LET f == Head(requests[u]).file
      read == IF f \in Held THEN symbols_list[f] ELSE retrieveFile(f)
      success == f \in Held \/ bucket[f] # NoFile
  IN  /\ Receives(u, "file_to_open")
      /\ Deleted \notin ToSet(WorkersOf(f))
      /\ filename' = [filename EXCEPT ![u] = f]
      /\ mapFileWorkers' =
           Put(mapFileWorkers, f, Append(WorkersOf(f), u))
      /\ IF f \in Held THEN UNCHANGED <<symbols_list, changed>>
         ELSE storeSymbolsServerMemory(f, read)
      /\ Answer(u, [type |-> "file_to_open", success |-> success, symbols |-> read, file |-> f])
      /\ UNCHANGED <<files, bucket, alive, serving>>

\* Mutated form: the operation is not noted as a change.
handleOperationUnmarked(u) ==
  /\ Receives(u, "operation")
  /\ filename[u] \in Held /\ Deleted \notin ToSet(WorkersOf(filename[u]))
  /\ symbols_list' = [symbols_list EXCEPT ![filename[u]] = @ + 1]
  /\ UNCHANGED <<files, bucket, changed, mapFileWorkers, filename, alive, serving, answers>>

\* An operation goes to the file of the sender's ServerWorker, whatever the
\* client has open; one for a file that is not held uses a null pointer.
handleOperation(u) ==
  /\ Receives(u, "operation")
  /\ filename[u] \in Held /\ Deleted \notin ToSet(WorkersOf(filename[u]))
  /\ symbols_list' = [symbols_list EXCEPT ![filename[u]] = @ + 1]
  /\ changed' = Put(changed, filename[u], TRUE)
  /\ UNCHANGED <<files, bucket, mapFileWorkers, filename, alive, serving, answers>>

\* The list of file f after one occurrence of user u left it.
LeftBy(u, f) ==
  LET i == CHOOSE i \in DOMAIN mapFileWorkers[f] : mapFileWorkers[f][i] = u
  IN  RemoveAt(mapFileWorkers[f], i)

\* Mutated form: the symbols leave the memory with the first client that leaves.
leaveFileFirst(u, f, after) ==
  /\ UNCHANGED <<files, bucket, symbols_list, changed>>
  /\ IF u \notin ToSet(WorkersOf(f))
     THEN UNCHANGED mapFileWorkers /\ serving' = [after EXCEPT !.left = FALSE]
     ELSE /\ mapFileWorkers' = [mapFileWorkers EXCEPT ![f] = LeftBy(u, f)]
          /\ serving' = [doing |-> "save", todo |-> Held, half |-> NoName,
                         then |-> [after EXCEPT !.forget = filename[u]]]

\* Mutated form: the symbols leave the memory without a save.
leaveFileUnsaved(u, f, after) ==
  /\ UNCHANGED <<files, bucket, symbols_list, changed>>
  /\ IF u \notin ToSet(WorkersOf(f))
     THEN UNCHANGED mapFileWorkers /\ serving' = [after EXCEPT !.left = FALSE]
     ELSE LET rest == LeftBy(u, f)
          IN  /\ mapFileWorkers' = IF rest = <<>> THEN Restrict(mapFileWorkers, DOMAIN mapFileWorkers \ {f})
                                   ELSE [mapFileWorkers EXCEPT ![f] = rest]
              /\ serving' = IF rest = <<>> THEN [after EXCEPT !.forget = filename[u]] ELSE after

\* udpateSymbolListAndCommunicateDisconnection for user u and file f: one
\* occurrence leaves the list; with the last one, everything is saved before
\* the symbols leave the memory.
leaveFile(u, f, after) ==
  LET listed == u \in ToSet(WorkersOf(f))
      rest == LeftBy(u, f)
  IN  /\ UNCHANGED <<files, bucket, symbols_list, changed>>
      /\ CASE ~listed ->
                UNCHANGED mapFileWorkers /\ serving' = [after EXCEPT !.left = FALSE]
           [] listed /\ rest # <<>> ->
                /\ filename[u] \in DOMAIN mapFileWorkers
                /\ Deleted \notin ToSet(WorkersOf(filename[u]))
                /\ mapFileWorkers' = [mapFileWorkers EXCEPT ![f] = rest]
                /\ serving' = after
           [] listed /\ rest = <<>> ->
                /\ mapFileWorkers' = Restrict(mapFileWorkers, DOMAIN mapFileWorkers \ {f})
                /\ serving' = [doing |-> "save", todo |-> Held, half |-> NoName,
                               then |-> [after EXCEPT !.forget = filename[u]]]

\* The rest of a close request or of a lost connection.
After(doing, u) == [doing |-> doing, user |-> u, left |-> TRUE, forget |-> NoName]

\* Mutated form: the client stays in the list.
closeFileListed(u) ==
  /\ Receives(u, "close")
  /\ serving' = After("closed", u)
  /\ UNCHANGED <<files, bucket, memory, filename, alive, answers>>

closeFile(u) ==
  /\ Receives(u, "close")
  /\ leaveFile(u, Head(requests[u]).file, After("closed", u))
  /\ UNCHANGED <<filename, alive, answers>>

\* Mutated form: the file of the worker is not looked at.
userDisconnectedOnly(u) ==
  /\ Receives(u, "disconnected")
  /\ serving' = After("disconnected", u)
  /\ UNCHANGED <<files, bucket, memory, filename, alive, answers>>

userDisconnected(u) ==
  /\ Receives(u, "disconnected")
  /\ UNCHANGED <<filename, alive, answers>>
  /\ IF filename[u] = NoName
     THEN serving' = After("disconnected", u) /\ UNCHANGED <<files, bucket, memory>>
     ELSE leaveFile(u, filename[u], After("disconnected", u))

\* The lists that still hold a deleted worker keep a pointer to nothing.
Dangling(u) ==
  [f \in DOMAIN mapFileWorkers |->
     [i \in DOMAIN mapFileWorkers[f] |->
        IF mapFileWorkers[f][i] = u THEN Deleted ELSE mapFileWorkers[f][i]]]

\* Mutated forms: the symbols stay; the flag stays.
ForgetsNothing(f) == UNCHANGED <<symbols_list, changed>>
ForgetsNoFlag(f) == symbols_list' = Restrict(symbols_list, Held \ {f}) /\ UNCHANGED changed

\* The symbols of a file nobody has open leave the memory.
ForgetsSymbols(f) ==
  /\ symbols_list' = Restrict(symbols_list, Held \ {f})
  /\ changed' = Restrict(changed, Held \ {f})

\* The worker's file is cleared if the client left it; a lost worker is deleted.
finishLeaving ==
  LET u == serving.user
  IN  /\ serving.doing \in {"closed", "disconnected"}
      /\ ForgetsSymbols(serving.forget)
      /\ filename' = [filename EXCEPT ![u] =
            IF serving.doing = "closed" /\ serving.left THEN NoName ELSE @]
      /\ IF serving.doing = "disconnected"
         THEN alive' = alive \ {u} /\ mapFileWorkers' = Dangling(u)
         ELSE UNCHANGED <<alive, mapFileWorkers>>
      /\ serving' = Idle
      /\ UNCHANGED <<files, bucket, requests, answers, client, shared, counts>>

-----------------------------------------------------------------------------
(***************************************************************************)
(* Saving: Server::saveFile for every file held, Mongo::saveFile for each  *)
(* that changed.                                                           *)
(***************************************************************************)

\* The timer of SAVE_INTERVAL_SEC; without any change a save does nothing.
saveTimer ==
  /\ serving = Idle
  /\ TRUE \in {changed[f] : f \in DOMAIN changed}
  /\ serving' = [doing |-> "save", todo |-> Held, half |-> NoName, then |-> Idle]
  /\ UNCHANGED <<files, bucket, memory, filename, alive, requests, answers, client, shared, counts>>

Saving(f) ==
  /\ serving.doing = "save" /\ f \in serving.todo
  /\ UNCHANGED <<files, symbols_list, mapFileWorkers, filename, alive, requests, answers,
                 client, shared, counts>>

\* Nothing to store, or no file to replace: the flag is reset all the same.
SaveSkips(f) ==
  /\ Saving(f) /\ serving.half = NoName
  /\ ~changed[f] \/ bucket[f] = NoFile
  /\ serving' = [serving EXCEPT !.todo = @ \ {f}]
  /\ changed' = Put(changed, f, FALSE)
  /\ UNCHANGED bucket

\* The old copy is deleted first ...
SaveDeletes(f) ==
  /\ Saving(f) /\ serving.half = NoName
  /\ changed[f] /\ bucket[f] # NoFile
  /\ bucket' = [bucket EXCEPT ![f] = NoFile]
  /\ serving' = [serving EXCEPT !.half = f]
  /\ UNCHANGED changed

\* ... then the new one is stored.
SaveUploads(f) ==
  /\ Saving(f) /\ serving.half = f
  /\ bucket' = [bucket EXCEPT ![f] = symbols_list[f]]
  /\ changed' = Put(changed, f, FALSE)
  /\ serving' = [serving EXCEPT !.todo = @ \ {f}, !.half = NoName]

saveDone ==
  /\ serving.doing = "save" /\ serving.todo = {}
  /\ serving' = serving.then
  /\ UNCHANGED <<files, bucket, memory, filename, alive, requests, answers, client, shared, counts>>

\* The database stays; the memory and the connections go, and clients are sent
\* back to the login window.
Crash ==
  /\ crashes < MaxCrashes
  /\ crashes' = crashes + 1
  /\ symbols_list' = <<>> /\ changed' = <<>> /\ mapFileWorkers' = <<>>
  /\ alive' = {}
  /\ filename' = [u \in Users |-> NoName]
  /\ serving' = Idle
  /\ requests' = [u \in Users |-> <<>>] /\ answers' = [u \in Users |-> <<>>]
  /\ view' = [u \in Users |-> "login"]
  /\ openfile' = [u \in Users |-> NoName]
  /\ UNCHANGED <<files, bucket, shared, typed, drops>>

Init ==
  /\ files = Existing
  /\ bucket = [f \in Files |-> IF f \in Existing THEN 1 ELSE NoFile]
  /\ symbols_list = <<>> /\ changed = <<>> /\ mapFileWorkers = <<>>
  /\ filename = [u \in Users |-> NoName]
  /\ alive = Users
  /\ serving = Idle
  /\ requests = [u \in Users |-> <<>>] /\ answers = [u \in Users |-> <<>>]
  /\ view = [u \in Users |-> "home"]
  /\ openfile = [u \in Users |-> NoName]
  /\ shared = Existing
  /\ typed = 0 /\ drops = 0 /\ crashes = 0

Client(u) ==
  \/ \E f \in Files : ClientCreates(u, f) \/ ClientOpens(u, f)
  \/ ClientTypes(u) \/ ClientCloses(u) \/ ConnectionDrops(u) \/ ClientConnects(u)
Hears(u) == ClientHearsNewFile(u) \/ ClientHearsFile(u)
Handles(u) ==
  createNewFile(u) \/ sendFile(u) \/ handleOperation(u) \/ closeFile(u) \/ userDisconnected(u)
Continues ==
  \/ insertNewFile \/ finishLeaving \/ saveDone
  \/ \E f \in Files : SaveSkips(f) \/ SaveDeletes(f) \/ SaveUploads(f)

Next == \/ \E u \in Users : Client(u) \/ Hears(u) \/ Handles(u)
        \/ Continues \/ saveTimer \/ Crash

\* The event loops of the server and of the clients run on.  The timer competes
\* with the requests, and an expired timer is served in the end: what it needs
\* is strong fairness, since the server is not idle all the time.
Fairness ==
  /\ \A u \in Users : SF_vars(Handles(u)) /\ WF_vars(Hears(u))
  /\ WF_vars(Continues)
  /\ SF_vars(saveTimer)

Spec == Init /\ [][Next]_vars /\ Fairness

-----------------------------------------------------------------------------
(***************************************************************************)
(* Properties.                                                             *)
(***************************************************************************)

\* The type invariant.
TypeOK ==
  /\ files \subseteq Files /\ shared \subseteq Files /\ alive \subseteq Users
  /\ bucket \in [Files -> Nat \cup {NoFile}]
  /\ Held \subseteq Files /\ \A f \in Held : symbols_list[f] \in Nat
  /\ DOMAIN changed = Held /\ \A f \in Held : changed[f] \in BOOLEAN
  /\ \A f \in DOMAIN mapFileWorkers : mapFileWorkers[f] \in Seq(Users \cup {Deleted})
  /\ filename \in [Users -> Files \cup {NoName}]
  /\ openfile \in [Users -> Files \cup {NoName}]
  /\ view \in [Users -> {"home", "editing", "login"}]
  /\ \A u \in Users :
       /\ \A i \in DOMAIN requests[u] : requests[u][i].file \in Files \cup {NoName}
       /\ \A i \in DOMAIN answers[u] : answers[u][i].success \in BOOLEAN
  /\ serving.doing \in {"nothing", "create", "save", "closed", "disconnected"}
  /\ typed \in 0 .. MaxEdits /\ drops \in 0 .. MaxDrops /\ crashes \in 0 .. MaxCrashes

\* What `changed' is for: symbols in memory that are not marked as changed are
\* in the database, whatever requests, timers and crashes happen between the
\* steps of a save.
UnchangedIsStored ==
  \A f \in Held : ~changed[f] /\ symbols_list[f] # 0 => bucket[f] = symbols_list[f]

\* An operation reaches the symbols of the file its sender was editing, and they
\* are in memory: handleOperation neither takes the wrong file nor uses a null
\* pointer; and insertNewFile never finds the file already stored.
OperationsReachTheirFile ==
  /\ \A u \in Users :
       LET m == Head(requests[u])
       IN  requests[u] # <<>> /\ serving = Idle /\ m.type = "operation" =>
             filename[u] = m.file /\ m.file \in Held
  /\ serving.doing = "create" => bucket[serving.file] = NoFile

\* Symbols are in memory just as long as somebody has the file open.
HeldWhileOpen == serving = Idle => Held = DOMAIN mapFileWorkers

\* Each file is one document, made by the operations on it and by nothing else,
\* though its symbols come into the memory with the first client and leave it
\* with the last, whose leaving must store what the timer did not (server.cpp:976-985,
\* 1052-1061): a refinement of Documents.  While the stored copy is replaced, the
\* document is in memory only.
Half(f) == serving.doing = "save" /\ serving.half = f
Document(f) ==
  IF f \in Held /\ (bucket[f] # NoFile \/ Half(f)) THEN symbols_list[f] ELSE bucket[f]

Store == INSTANCE Documents WITH doc <- [f \in Files |-> Document(f)], saved <- bucket
IsDocuments == Store!Spec

\* The list of a file holds no worker that was deleted, once the loss of the
\* connection was handled.
NoDeletedWorkers == \A f \in DOMAIN mapFileWorkers : Deleted \notin ToSet(mapFileWorkers[f])

\* Who is in the list of a file, and heard all answers, has the file open.
MembersEdit ==
  serving = Idle =>
    \A f \in DOMAIN mapFileWorkers : \A u \in ToSet(mapFileWorkers[f]) \cap Users :
      Unanswered(u) \/ (view[u] = "editing" /\ openfile[u] = f)

\* A file that was listed stays in the database, but while it is being stored:
\* a crash loses at most what was typed since the last save.
ListedIsStored == serving = Idle => \A f \in files : bucket[f] # NoFile

\* Operations there can be of a file, with the first one of each.
Versions == 0 .. MaxEdits + Cardinality(Files) + 1

\* What is in memory gets stored, or something newer does.
EditsAreStored ==
  \A f \in Files, v \in Versions :
    (f \in Held /\ symbols_list[f] = v) ~> (bucket[f] >= v)
=============================================================================
