--------------------------------- MODULE Collab ---------------------------------
(***************************************************************************)
(* Editors that share a document through the server: the replicas of Crdt, *)
(* the operations they exchange (Client/client.cpp, Client/editor.cpp) and *)
(* the server that keeps the symbols and relays the operations             *)
(* (Server/server.cpp).                                                    *)
(*                                                                         *)
(* Each editor is one thread that handles one event at a time, a user's    *)
(* action or a message; the server's logic is one thread as well.  TCP     *)
(* keeps the order of the messages of a connection in both directions, so  *)
(* a connection is two queues.  One document is modelled: FileStore covers *)
(* the files, their storage and who has them open.                         *)
(***************************************************************************)
EXTENDS Crdt

CONSTANTS
  Clients,     \* the editors
  Kinds,       \* what users do, among "insert", "erase", "replace", "format",
               \* "align", "open" and "close"
  Values,      \* the characters users type
  Formats,     \* character formats
  Aligns,      \* alignments of a line
  Document,    \* the symbols of the document at the start
  KeyRank,     \* the order of positions as keys of the server's QMap
  Rejoin,      \* whether who closed the document may open it again
  Scenarios    \* what users do in a behaviour, for each that is examined:
               \*   present  the editors that have the document open at the start
               \*   owner    the site that can build each position, or none
               \*   touch    the positions each user erases, formats or aligns
               \*   kinds    what each user does
               \*   noted    whether the text edit notes that a key was typed
               \*   formats, aligns  the ones users give
               \*   ops      bound: user actions in all
               \*   group    bound: symbols in one paste, erasure or change of format

NoSite == "none"

ASSUME ScenariosAssumption ==
  /\ NoSite \notin Clients
  /\ Scenarios \subseteq [present : SUBSET Clients, owner : [Positions -> Clients \cup {NoSite}],
                          touch : [Clients -> SUBSET Positions], kinds : [Clients -> SUBSET Kinds],
                          noted : SUBSET BOOLEAN, formats : SUBSET Formats, aligns : SUBSET Aligns, ops : Nat, group : Nat]
ASSUME RejoinAssumption == Rejoin \in BOOLEAN

SymbolType == [pos : Positions, val : STRING, fmt : Formats,
               align : Aligns \cup {"none"}]

\* A file is created with the terminator, every other symbol goes before it, and
\* nobody types one.
ASSUME DocumentAssumption ==
  /\ Document \subseteq SymbolType
  /\ \A s, t \in Document : s.pos = t.pos => s = t
  /\ \E s \in Document : s.val = NUL /\ \A t \in Document \ {s} : t.val # NUL /\ t.pos < s.pos
ASSUME ValuesAssumption == Values \subseteq STRING /\ NUL \notin Values

\* Symbol::positionString gives different positions different keys.
ASSUME KeyRankAssumption ==
  KeyRank \in [Positions -> Int] /\ \A p, q \in Positions : KeyRank[p] = KeyRank[q] => p = q

VARIABLES
  scenario,  \* the one of this behaviour
  rep,       \* the replica of each editor
  phase,     \* its window: "home", "opening", "loading", "editing", "gone"
  toLoad,    \* while loading: symbols still to be put in, and how many were
  up,        \* messages from each editor to the server
  down,      \* messages from the server to each editor
  sharing,   \* the editors the server has in the list of the file
  stored,    \* the symbols the server holds for the file (symbols_list)
  ops        \* user actions so far

vars == <<scenario, rep, phase, toLoad, up, down, sharing, stored, ops>>
server == <<scenario, sharing, stored>>

Operations == {"INSERT_SYMBOL", "PASTE", "DELETE_SYMBOL", "CHANGE", "ALIGN"}
Message(type, symbols) == [type |-> type, symbols |-> symbols]

\* Only the symbols that end a line have an alignment.
Symbol(pos, val, fmt, align) ==
  [pos |-> pos, val |-> val, fmt |-> fmt, align |-> IF val \in {NL, NUL} THEN align ELSE "none"]

\* A set as a sequence, ascending by key.
InOrder(S, Key(_)) ==
  [k \in 1 .. Cardinality(S) |-> CHOOSE s \in S : Cardinality({t \in S : Key(t) < Key(s)}) = k - 1]
Ascending(S) == InOrder(S, LAMBDA p : p)
SymbolsByPosition(S) == InOrder(S, LAMBDA s : s.pos)

-----------------------------------------------------------------------------
(***************************************************************************)
(* The user of editor c.  The text edit has changed when the CRDT is told. *)
(***************************************************************************)

UserActs(c, kind) ==
  /\ kind \in scenario.kinds[c]
  /\ phase[c] = "editing"
  /\ rep[c].state = "running"
  /\ ops < scenario.ops
  /\ ops' = ops + 1
  /\ UNCHANGED <<toLoad, down, server>>

Send(c, messages) == up' = [up EXCEPT ![c] = @ \o messages]

\* generatePositionBetween: any position of this site in between.
Between(c, lines, l, i) ==
  {p \in Positions : /\ scenario.owner[p] = c
                     /\ findPosBefore(lines, l, i) < p
                     /\ p < findPosAfter(lines, l, i)}

\* Typing one character, or pasting some: localInsert and localInsertGroup.
UserInserts(c) ==
  /\ UserActs(c, "insert")
  /\ \E offset \in 0 .. Len(rep[c].text), n \in 1 .. scenario.group :
     \E vals \in [1 .. n -> Values], fmt \in scenario.formats, align \in scenario.aligns :
       LET r == rep[c]
           text == SubSeq(r.text, 1, offset) \o vals \o SubSeq(r.text, offset + 1, Len(r.text))
           l == BlockNumber(text, offset)
           i == PositionInBlock(text, offset)
           typed == [r EXCEPT !.text = text]
       IN  IF IsRemoteChange(r.text, text, r.size)
           THEN rep' = [rep EXCEPT ![c] = typed] /\ UNCHANGED up
           ELSE IF ~CanInsert(r.symbols, Place(l, i))
           THEN rep' = [rep EXCEPT ![c] = Abort(r)] /\ UNCHANGED up
           ELSE \E S \in kSubset(n, Between(c, r.symbols, l, i)) :
             LET symbols == [k \in 1 .. n |-> Symbol(Ascending(S)[k], vals[k], fmt, align)]
             IN  /\ rep' = [rep EXCEPT ![c] = localInsertGroup(typed, l, i, symbols)]
                 /\ Send(c, <<Message(IF n = 1 THEN "INSERT_SYMBOL" ELSE "PASTE", symbols)>>)
  /\ UNCHANGED phase

\* Deleting a selection or a character: localErase.
UserErases(c) ==
  /\ UserActs(c, "erase")
  /\ \E n \in 1 .. scenario.group : \E offset \in 0 .. Len(rep[c].text) - n :
       LET r == rep[c]
           text == SubSeq(r.text, 1, offset) \o SubSeq(r.text, offset + n + 1, Len(r.text))
           l == BlockNumber(r.text, offset)
           i == PositionInBlock(r.text, offset)
           gone == LocalErased(r, l, i, n).gone
           typed == [r EXCEPT !.text = text]
       IN  /\ {gone[k].pos : k \in DOMAIN gone} \subseteq scenario.touch[c]
           /\ IF IsRemoteChange(r.text, text, r.size)
              THEN rep' = [rep EXCEPT ![c] = typed] /\ UNCHANGED up
              ELSE /\ rep' = [rep EXCEPT ![c] = localErase(typed, l, i, n)]
                   /\ Send(c, IF Len(gone) < n THEN <<>> ELSE <<Message("DELETE_SYMBOL", gone)>>)
  /\ UNCHANGED phase

\* Typing or pasting over a selection: the symbols are erased and the new ones
\* inserted.  When they are as many, the text edit must have noted a key or a
\* paste, or else the change is taken for one of format.  It does not note the
\* keys with Shift.
UserReplaces(c) ==
  /\ UserActs(c, "replace")
  /\ \E m, n \in 1 .. scenario.group, noted \in scenario.noted : \E offset \in 0 .. Len(rep[c].text) - m :
     \E vals \in [1 .. n -> Values], fmt \in scenario.formats, align \in scenario.aligns :
       LET r == rep[c]
           text == SubSeq(r.text, 1, offset) \o vals \o SubSeq(r.text, offset + m + 1, Len(r.text))
           l == BlockNumber(r.text, offset)
           i == PositionInBlock(r.text, offset)
           gone == LocalErased(r, l, i, m).gone
           typed == [r EXCEPT !.text = text]
           erased == localErase(typed, l, i, m)
       IN  /\ n > 1 => noted
           /\ {gone[k].pos : k \in DOMAIN gone} \subseteq scenario.touch[c]
           /\ IF (n = m /\ ~noted) \/ IsRemoteChange(r.text, text, r.size)
              THEN rep' = [rep EXCEPT ![c] = typed] /\ UNCHANGED up
              ELSE IF Len(gone) < m THEN rep' = [rep EXCEPT ![c] = erased] /\ UNCHANGED up
              ELSE IF ~CanInsert(erased.symbols, Place(l, i))
              THEN rep' = [rep EXCEPT ![c] = Abort(erased)] /\ Send(c, <<Message("DELETE_SYMBOL", gone)>>)
              ELSE \E S \in kSubset(n, Between(c, erased.symbols, l, i)) :
                LET symbols == [k \in 1 .. n |-> Symbol(Ascending(S)[k], vals[k], fmt, align)]
                IN  /\ rep' = [rep EXCEPT ![c] = localInsertGroup(erased, l, i, symbols)]
                    /\ Send(c, <<Message("DELETE_SYMBOL", gone),
                                 Message(IF n = 1 THEN "INSERT_SYMBOL" ELSE "PASTE", symbols)>>)
  /\ UNCHANGED phase

\* A new format for a selection: on_formatChange and localChangeGroup.
UserFormats(c) ==
  /\ UserActs(c, "format")
  /\ \E n \in 1 .. scenario.group, fmt \in scenario.formats : \E offset \in 0 .. Len(rep[c].text) - n :
       LET r == rep[c]
           l1 == BlockNumber(r.text, offset)
           i1 == PositionInBlock(r.text, offset)
           l2 == BlockNumber(r.text, offset + n - 1)
           i2 == PositionInBlock(r.text, offset + n - 1)
           changed == localChangeGroup(r, l1, i1, l2, i2, fmt)
           symbols == SymbolsInRange(changed.symbols, l1, i1, l2, i2)
       IN  /\ r.text[offset + 1] # NL /\ r.text[offset + n] # NL
           /\ IF ~(InLine(r.symbols, l1, i1) /\ InLine(r.symbols, l2, i2))
              THEN rep' = [rep EXCEPT ![c] = Abort(r)] /\ UNCHANGED up
              ELSE /\ {symbols[k].pos : k \in DOMAIN symbols} \subseteq scenario.touch[c]
                   /\ changed # r
                   /\ rep' = [rep EXCEPT ![c] = changed]
                   /\ Send(c, <<Message("CHANGE", symbols)>>)
  /\ UNCHANGED phase

\* A new alignment for some lines: textAlign sends one operation per line.
UserAligns(c) ==
  /\ UserActs(c, "align")
  /\ \E l1 \in 0 .. Len(rep[c].symbols) - 1, align \in scenario.aligns :
     \E l2 \in l1 .. Len(rep[c].symbols) - 1 :
       LET r == localChangeAlignment(rep[c], l1 .. l2, align)
           ends == [k \in 1 .. l2 - l1 + 1 |-> Last(r.symbols[l1 + k])]
       IN  /\ {ends[k].pos : k \in DOMAIN ends} \subseteq scenario.touch[c]
           /\ r # rep[c]
           /\ rep' = [rep EXCEPT ![c] = r]
           /\ Send(c, [k \in DOMAIN ends |-> Message("ALIGN", <<ends[k]>>)])
  /\ UNCHANGED phase

\* Editor::clear: the close request, then an empty CRDT and text edit.
UserCloses(c) ==
  /\ UserActs(c, "close")
  /\ rep' = [rep EXCEPT ![c] = NewReplica]
  /\ phase' = [phase EXCEPT ![c] = IF Rejoin THEN "home" ELSE "gone"]
  /\ Send(c, <<Message("close", <<>>)>>)

\* Choosing the document in the list of files.
UserOpens(c) ==
  /\ "open" \in scenario.kinds[c]
  /\ phase[c] = "home"
  /\ phase' = [phase EXCEPT ![c] = "opening"]
  /\ Send(c, <<Message("file_to_open", <<>>)>>)
  /\ UNCHANGED <<rep, toLoad, down, server, ops>>

-----------------------------------------------------------------------------
(***************************************************************************)
(* The server handles the next message of editor c.                        *)
(***************************************************************************)

\* The next message of editor c leaves its queue.
ServerTakes(c) == up[c] # <<>> /\ up' = [up EXCEPT ![c] = Tail(@)]

Others(c) == sharing \ {c}
Forward(c, m) == down' = [d \in Clients |-> IF d \in Others(c) THEN Append(down[d], m) ELSE down[d]]

PositionsOf(symbols) == {symbols[k].pos : k \in DOMAIN symbols}
Without(S, symbols) == {s \in S : s.pos \notin PositionsOf(symbols)}

\* Mutated form: the operation is forwarded only when it inserts.
ServerHandlesOperationInserts(c) ==
  LET m == Head(up[c])
  IN  /\ ServerTakes(c) /\ m.type \in Operations
      /\ stored' = IF m.type = "DELETE_SYMBOL" THEN Without(stored, m.symbols)
                   ELSE Without(stored, m.symbols) \cup ToSet(m.symbols)
      /\ IF m.type = "DELETE_SYMBOL" THEN UNCHANGED down ELSE Forward(c, m)
      /\ UNCHANGED <<scenario, rep, phase, toLoad, sharing, ops>>

\* An operation: the map of symbols is updated, then the other editors are
\* sent the message as it is.
ServerHandlesOperation(c) ==
  LET m == Head(up[c])
  IN  /\ ServerTakes(c) /\ m.type \in Operations
      /\ stored' = IF m.type = "DELETE_SYMBOL" THEN Without(stored, m.symbols)
                   ELSE Without(stored, m.symbols) \cup ToSet(m.symbols)
      /\ Forward(c, m)
      /\ UNCHANGED <<scenario, rep, phase, toLoad, sharing, ops>>

\* Mutated form: the editor gets the symbols and is not in the list.
ServerSendsFileOnly(c) ==
  /\ ServerTakes(c) /\ Head(up[c]).type = "file_to_open"
  /\ LET symbols == InOrder(stored, LAMBDA s : KeyRank[s.pos])
     IN  down' = [down EXCEPT ![c] = Append(@, Message("file_to_open", symbols))]
  /\ UNCHANGED <<scenario, rep, phase, toLoad, sharing, stored, ops>>

\* sendFile: the editor joins the list and is sent every symbol, in the order
\* of the map's keys.
ServerSendsFile(c) ==
  /\ ServerTakes(c) /\ Head(up[c]).type = "file_to_open"
  /\ sharing' = sharing \cup {c}
  /\ LET symbols == InOrder(stored, LAMBDA s : KeyRank[s.pos])
     IN  down' = [down EXCEPT ![c] = Append(@, Message("file_to_open", symbols))]
  /\ UNCHANGED <<scenario, rep, phase, toLoad, stored, ops>>

ServerClosesFile(c) ==
  /\ ServerTakes(c) /\ Head(up[c]).type = "close"
  /\ sharing' = sharing \ {c}
  /\ UNCHANGED <<scenario, rep, phase, toLoad, down, stored, ops>>

-----------------------------------------------------------------------------
(***************************************************************************)
(* Editor c handles the next message.  While it loads a document the       *)
(* progress dialog runs the event loop from the third symbol on, and       *)
(* messages are handled in the middle of the load.                         *)
(***************************************************************************)

CanReceive(c) ==
  /\ down[c] # <<>>
  /\ rep[c].state = "running"
  /\ phase[c] = "loading" => toLoad[c].done >= 2

TakesMessage(c) == CanReceive(c) /\ down' = [down EXCEPT ![c] = Tail(@)]

Apply(r, m) ==
  CASE m.type = "INSERT_SYMBOL" -> handleRemoteInsert(r, m.symbols[1])
    [] m.type = "PASTE" -> handleRemotePaste(r, m.symbols)
    [] m.type = "DELETE_SYMBOL" -> handleRemoteErase(r, m.symbols)
    [] m.type = "CHANGE" -> handleRemoteChange(r, m.symbols)
    [] m.type = "ALIGN" -> handleRemoteAlignChange(r, m.symbols[1])

\* The handlers of the CRDT are connected in every window of the program.  Who
\* left for good has no use for the replica, and it is not followed any further.
ReceiveOperation(c) ==
  /\ TakesMessage(c)
  /\ Head(down[c]).type \in Operations
  /\ rep' = IF phase[c] = "gone" THEN rep ELSE [rep EXCEPT ![c] = Apply(@, Head(down[c]))]
  /\ UNCHANGED <<phase, toLoad, up, server, ops>>

\* Mutated form: the count of symbols starts one too low.
ReceiveFileEarly(c) ==
  LET symbols == Head(down[c]).symbols
  IN  /\ TakesMessage(c)
      /\ Head(down[c]).type = "file_to_open"
      /\ phase' = [phase EXCEPT ![c] = IF symbols = <<>> THEN "home" ELSE "loading"]
      /\ toLoad' = [toLoad EXCEPT ![c] = [left |-> symbols, done |-> -1]]
      /\ UNCHANGED <<rep, up, server, ops>>

\* A file without symbols is not shown: the handler returns.
ReceiveFile(c) ==
  LET symbols == Head(down[c]).symbols
  IN  /\ TakesMessage(c)
      /\ Head(down[c]).type = "file_to_open"
      /\ phase' = [phase EXCEPT ![c] = IF symbols = <<>> THEN "home" ELSE "loading"]
      /\ toLoad' = [toLoad EXCEPT ![c] = [left |-> symbols, done |-> 0]]
      /\ UNCHANGED <<rep, up, server, ops>>

\* The symbol is inserted, then a line's end sets the alignment of its line.
LoadSymbol(r, s) == AlignLineEnd(handleRemoteInsert(r, s), s)

\* The loop goes from the last symbol to the first.
TakesSymbol(c) ==
  LET left == Front(toLoad[c].left)
  IN  /\ phase[c] = "loading"
      /\ rep[c].state = "running"
      /\ toLoad' = [toLoad EXCEPT ![c] =
            IF left = <<>> THEN [left |-> <<>>, done |-> 0]
            ELSE [left |-> left, done |-> @.done + 1]]

\* One round; the editor is shown after the last one.
LoadStep(c) ==
  /\ TakesSymbol(c)
  /\ rep' = [rep EXCEPT ![c] = LoadSymbol(@, Last(toLoad[c].left))]
  /\ phase' = [phase EXCEPT ![c] = IF Len(toLoad[c].left) = 1 THEN "editing" ELSE @]
  /\ UNCHANGED <<up, down, server, ops>>

\* A replica that holds the document, as a load in order of position leaves it.
Loaded(symbols) == FoldLeft(LoadSymbol, NewReplica, Reverse(SymbolsByPosition(symbols)))

Init ==
  /\ scenario \in Scenarios
  /\ rep = [c \in Clients |-> IF c \in scenario.present THEN Loaded(Document) ELSE NewReplica]
  /\ phase = [c \in Clients |-> IF c \in scenario.present THEN "editing" ELSE "home"]
  /\ toLoad = [c \in Clients |-> [left |-> <<>>, done |-> 0]]
  /\ up = [c \in Clients |-> <<>>]
  /\ down = [c \in Clients |-> <<>>]
  /\ sharing = scenario.present
  /\ stored = Document
  /\ ops = 0

User(c) == \/ UserInserts(c) \/ UserErases(c) \/ UserReplaces(c) \/ UserFormats(c)
           \/ UserAligns(c) \/ UserCloses(c) \/ UserOpens(c)
Server(c) == ServerHandlesOperation(c) \/ ServerSendsFile(c) \/ ServerClosesFile(c)
Receive(c) == ReceiveOperation(c) \/ ReceiveFile(c) \/ LoadStep(c)

Next == \E c \in Clients : User(c) \/ Server(c) \/ Receive(c)

\* The event loops of the server and of the editors keep running: a message is
\* taken from its queue in the end, and a load goes on.  Users are free to do
\* nothing.
Fairness ==
  \A c \in Clients : WF_up(ServerTakes(c)) /\ WF_down(TakesMessage(c)) /\ WF_toLoad(TakesSymbol(c))
Spec == Init /\ [][Next]_vars /\ Fairness

-----------------------------------------------------------------------------
(***************************************************************************)
(* Properties.                                                             *)
(***************************************************************************)

MessageType == [type : Operations \cup {"file_to_open", "close"}, symbols : Seq(SymbolType)]

\* The type invariant.
TypeOK ==
  /\ scenario \in Scenarios
  /\ \A c \in Clients :
       /\ rep[c].size >= -1
       /\ rep[c].symbols \in Seq(Seq(SymbolType))
       /\ rep[c].text \in Seq(STRING)
       /\ rep[c].state \in {"running", "aborted", "adrift"}
       /\ phase[c] \in {"home", "opening", "loading", "editing", "gone"}
       /\ toLoad[c].left \in Seq(SymbolType) /\ toLoad[c].done \in Nat
       /\ up[c] \in Seq(MessageType) /\ down[c] \in Seq(MessageType)
  /\ sharing \subseteq Clients
  /\ stored \subseteq SymbolType
  /\ ops \in 0 .. scenario.ops

\* The editors that show the document, or the part loaded so far.
Shows(c) == phase[c] = "editing" \/ (phase[c] = "loading" /\ toLoad[c].done > 0)

Symbols(c) == Flatten(rep[c].symbols)

\* What the binary searches rest on: whatever editors insert, erase and receive,
\* the symbols of a replica stay in order, every line but the last ends with
\* its only newline, and the last line ends with the terminator.
LinesWellFormed ==
  \A c \in Clients : Shows(c) =>
    LET lines == rep[c].symbols
        all == Symbols(c)
    IN  /\ \A k \in 2 .. Len(all) : all[k - 1].pos < all[k].pos
        /\ \A l \in DOMAIN lines :
             /\ lines[l] # <<>>
             /\ \A i \in DOMAIN lines[l] : lines[l][i].val = NL <=> l < Len(lines) /\ i = Len(lines[l])
        /\ Last(all).val = NUL

\* The text edit shows the characters of the CRDT in the same order, and size
\* is their number: on_contentsChange depends on it to tell the user's changes
\* from those of others.
TextFollows ==
  \A c \in Clients : Shows(c) =>
    /\ rep[c].size = Len(rep[c].text)
    /\ rep[c].text = [k \in 1 .. Len(Symbols(c)) - 1 |-> Symbols(c)[k].val]

\* The same, where the groups of two users cannot meet: what one of them pasted
\* may then lie between the symbols of the other, and what one typed between
\* those that another erases.
OneUserPastes ==
  \/ scenario.group <= 1
  \/ \E c \in Clients : /\ \A p \in Positions : scenario.owner[p] \in {c, NoSite}
                        /\ \A d \in Clients \ {c} : scenario.touch[d] = {}
TextFollowsApart == OneUserPastes => TextFollows

\* A change made by a remote editor is never taken for one the user made, and
\* no index runs out of range, in the editors that show the document.
RemoteStaysRemote == \A c \in Clients : Shows(c) => rep[c].state = "running"

\* The searches of an editor's lines agree with the order of positions: a symbol
\* that is there is found where it is, and a new one goes before the first
\* symbol that is not before it.
LookupsExact ==
  \A c \in Clients : Shows(c) =>
    LET lines == rep[c].symbols
        all == Symbols(c)
        Offset(l, i) == Len(Flatten(SubSeq(lines, 1, l))) + i
    IN  \A p \in Positions :
          LET found == findPosition(lines, p)
              place == findInsertPosition(lines, p)
          IN  /\ \A k \in DOMAIN all : all[k].pos = p =>
                   found.kind = "found" /\ Offset(found.line, found.index) + 1 = k
                                        /\ InLine(lines, found.line, found.index)
              /\ p < Last(all).pos =>
                   /\ InLine(lines, place.line, place.index)
                   /\ Offset(place.line, place.index) = Cardinality({k \in DOMAIN all : all[k].pos < p})

\* Nothing is on its way to the server or to an editor that shows the document.
Settled ==
  \A c \in Clients : /\ up[c] = <<>>
                     /\ phase[c] \notin {"opening", "loading"}
                     /\ phase[c] = "editing" => down[c] = <<>>

\* The editors that have the document open hold the symbols the server holds, in
\* the order of their positions.
Agreement == \A c \in Clients : phase[c] = "editing" => Symbols(c) = SymbolsByPosition(stored)

\* Strong convergence: when every operation was delivered, every editor holds
\* the same symbols, with the same formats and alignments, as the server,
\* whatever the interleaving of the users, of the relay and of the loads.
Converged == Settled => Agreement

\* Every operation is delivered in the end: once users stop, the editors settle
\* and agree for good.
EventuallyConverged == <>[](Settled /\ Agreement)

\* What the comment in handleRemoteErase promises: a symbol that is not there
\* was already deleted by another editor, and is skipped.  An erasure received
\* takes away no symbol but those it names.
EraseOnlyNamed ==
  [][\A c \in Clients :
       (ReceiveOperation(c) /\ Head(down[c]).type = "DELETE_SYMBOL") =>
          Without(ToSet(Flatten(rep[c].symbols)), Head(down[c]).symbols)
            \subseteq ToSet(Flatten(rep[c].symbols'))]_vars
=============================================================================
