-------------------------------- MODULE Presence --------------------------------
(***************************************************************************)
(* Who is shown in the editor of a file: the bar of its other users        *)
(* (Client/editor.cpp, Client/highlighter.cpp), the colour that each one   *)
(* has there (Client/colors.h) and their cursors (Client/remotecursor.cpp).*)
(* A client learns of the others from the server (Server/server.cpp): it   *)
(* is told who has a file open together with the file, and afterwards who  *)
(* comes, who goes and where the cursors are.                              *)
(*                                                                         *)
(* A client is a program that users log in on, one after the other.  A     *)
(* user has one connection at most, so connections and the workers of the  *)
(* server bear the names of their users.  The contents of the files are    *)
(* left out: every file that is asked for exists and has symbols.          *)
(***************************************************************************)
EXTENDS Integers, FiniteSets, FiniteSetsExt, SequencesExt

CONSTANTS
  Clients, Users, Files,
  NColours,   \* colours in the list: 19 in the code
  Limits      \* bounds of a behaviour: the files, logins in all and on each
              \* client, files opened in all and on each client, cursors
              \* moved and connections lost in all, and whether the events
              \* that come while a file is loaded are handled in the middle
              \* of that

ASSUME UsersAssumption == IsFiniteSet(Users)
ASSUME ColoursAssumption == NColours \in Nat
ASSUME LimitsAssumption ==
  Limits \subseteq [files : SUBSET Files, visits : Nat, logins : Nat, opened : Nat, opens : Nat, moves : Nat,
                    drops : Nat, nested : BOOLEAN]

VARIABLES
  limits,          \* those of this behaviour
  user,            \* who is logged in on a client, or Nobody
  window,          \* of a client: "login", "home", "asked" when a file was
                   \* asked for, "loading", or "editing"
  loading,         \* the file being loaded, with its users
  openfile,        \* the file a client believes to have open, or NoFile
  users,           \* Highlighter: the index of the colour of each user known
  current,         \* Colors: the last index given
  peers,           \* the users in the bar
  remote_cursors,  \* the colour of each cursor shown
  worker,          \* the users who have a worker at the server
  filename,        \* the file of each worker, or NoFile
  mapFileWorkers,  \* who has a file open, in order
  up, down,        \* messages between each user's client and the server
  logins, opens, moves, drops

editor == <<users, current, peers, remote_cursors>>
server == <<worker, filename, mapFileWorkers>>
counts == <<limits, logins, opens, moves, drops>>
vars == <<user, window, loading, openfile, editor, server, up, down, counts>>

Nobody == "nobody"
NoFile == ""

ASSUME NamesAssumption == Nobody \notin Users /\ NoFile \notin Files

\* What getColor returns, for an index and for a user it does not know.
Local == -1
White == -2
Unknown == -3

-----------------------------------------------------------------------------
(***************************************************************************)
(* The editor.                                                             *)
(***************************************************************************)

\* A user who is known already keeps the colour.
addLocal(known, u) == [v \in DOMAIN known \cup {u} |-> IF v \in DOMAIN known THEN known[v] ELSE Local]

\* The colours are never entered in the set of the busy ones: the next index
\* is always free.
getIndex(last) == last + 1

getColor(known, u) ==
  IF u \notin DOMAIN known THEN Unknown
  ELSE IF known[u] < NColours THEN known[u] ELSE White

\* A cursor that was shown before its user came takes the user's colour.
\* Mutated form: the cursor is left as it is.
RecolouredNot(cursors, known, new) == cursors
Recoloured(cursors, known, new) ==
  [u \in DOMAIN cursors |-> IF u \in new THEN getColor(known, u) ELSE cursors[u]]

PlaceOf(list, u) == CHOOSE i \in DOMAIN list : list[i] = u

\* The users of a list who are not known, those of them before one of them,
\* and everyone known once they are: the indices follow the order of the list.
New(known, list) == ToSet(list) \ DOMAIN known
Before(list, new, u) == {v \in new : PlaceOf(list, v) < PlaceOf(list, u)}
AddedTo(known, last, list) ==
  [u \in DOMAIN known \cup New(known, list) |->
     IF u \in DOMAIN known THEN known[u]
     ELSE getIndex(last + Cardinality(Before(list, New(known, list), u)))]

addUsers(c, list) ==
  LET new == New(users[c], list)
      known == AddedTo(users[c], current[c], list)
  IN  /\ users' = [users EXCEPT ![c] = known]
      /\ current' = [current EXCEPT ![c] = @ + Cardinality(new)]
      /\ peers' = [peers EXCEPT ![c] = @ \cup new]
      /\ remote_cursors' = [remote_cursors EXCEPT ![c] = Recoloured(@, known, new)]

\* Only a user in the bar is removed, with the colour and the cursor.
\* Mutated form: the highlighter keeps the user.
removeUserColoured(c, u) ==
  /\ IF u \in peers[c]
     THEN /\ peers' = [peers EXCEPT ![c] = @ \ {u}]
          /\ remote_cursors' = [remote_cursors EXCEPT ![c] = Restrict(@, DOMAIN @ \ {u})]
     ELSE UNCHANGED <<peers, remote_cursors>>
  /\ UNCHANGED <<users, current>>
\* Mutated form: the last index is given again.
removeUserIndexed(c, u) ==
  IF u \in peers[c]
  THEN /\ users' = [users EXCEPT ![c] = Restrict(@, DOMAIN @ \ {u})]
       /\ current' = [current EXCEPT ![c] = @ - 1]
       /\ peers' = [peers EXCEPT ![c] = @ \ {u}]
       /\ remote_cursors' = [remote_cursors EXCEPT ![c] = Restrict(@, DOMAIN @ \ {u})]
  ELSE UNCHANGED editor
removeUser(c, u) ==
  /\ IF u \in peers[c]
     THEN /\ users' = [users EXCEPT ![c] = Restrict(@, DOMAIN @ \ {u})]
          /\ peers' = [peers EXCEPT ![c] = @ \ {u}]
          /\ remote_cursors' = [remote_cursors EXCEPT ![c] = Restrict(@, DOMAIN @ \ {u})]
     ELSE UNCHANGED <<users, peers, remote_cursors>>
  /\ UNCHANGED current

\* A cursor that is shown moves and keeps its colour.
on_remoteCursor(c, u) ==
  /\ remote_cursors' = IF u \in DOMAIN remote_cursors[c] THEN remote_cursors
                       ELSE [remote_cursors EXCEPT ![c] =
                              [v \in DOMAIN @ \cup {u} |-> IF v = u THEN getColor(users[c], u) ELSE @[v]]]
  /\ UNCHANGED <<users, current, peers>>

NoUsers == [u \in {} |-> Local]

\* The bar, the colours and the cursors are emptied; the index goes on.
clear(c, known) ==
  /\ users' = [users EXCEPT ![c] = known]
  /\ peers' = [peers EXCEPT ![c] = {}]
  /\ remote_cursors' = [remote_cursors EXCEPT ![c] = NoUsers]
  /\ UNCHANGED current

-----------------------------------------------------------------------------
(***************************************************************************)
(* What users do.                                                          *)
(***************************************************************************)

InAll(count) == MapThenSumSet(LAMBDA c : count[c], Clients)
Asks(u, type, f) == up' = [up EXCEPT ![u] = Append(@, [type |-> type, file |-> f])]
Turns(c, w) == window' = [window EXCEPT ![c] = w]

\* The answer to a login, which the server gives to a user who has no worker,
\* makes the editor know the user.
loggedIn(c, u) ==
  /\ window[c] = "login" /\ u \notin worker
  /\ logins[c] < limits.logins /\ InAll(logins) < limits.visits
  /\ logins' = [logins EXCEPT ![c] = @ + 1]
  /\ user' = [user EXCEPT ![c] = u]
  /\ Turns(c, "home")
  /\ worker' = worker \cup {u}
  /\ users' = [users EXCEPT ![c] = addLocal(@, u)]
  /\ UNCHANGED <<loading, openfile, current, peers, remote_cursors, filename, mapFileWorkers, up, down,
                 limits, opens, moves, drops>>

openFile(c, f) ==
  /\ window[c] = "home"
  /\ f \in limits.files /\ opens[c] < limits.opens /\ InAll(opens) < limits.opened
  /\ opens' = [opens EXCEPT ![c] = @ + 1]
  /\ Turns(c, "asked")
  /\ Asks(user[c], "file_to_open", f)
  /\ UNCHANGED <<user, loading, openfile, editor, server, down, limits, logins, moves, drops>>

saveCursorPosition(c) ==
  /\ window[c] = "editing"
  /\ moves < limits.moves
  /\ moves' = moves + 1
  /\ Asks(user[c], "cursor", NoFile)
  /\ UNCHANGED <<user, window, loading, openfile, editor, server, down, limits, logins, opens, drops>>

\* The file is closed; openfile keeps its name.
exit(c) ==
  /\ window[c] = "editing"
  /\ Turns(c, "home")
  /\ clear(c, addLocal(NoUsers, user[c]))
  /\ Asks(user[c], "close", openfile[c])
  /\ UNCHANGED <<user, loading, openfile, server, down, counts>>

\* The connection ends; the editor is emptied only if it is shown.
Ends(c, n) ==
  /\ user' = [user EXCEPT ![c] = Nobody]
  /\ Turns(c, "login")
  /\ up' = [up EXCEPT ![user[c]] = Append(SubSeq(@, 1, n), [type |-> "disconnected", file |-> NoFile])]
  /\ down' = [down EXCEPT ![user[c]] = <<>>]
  /\ IF window[c] = "editing" THEN clear(c, NoUsers) ELSE UNCHANGED editor
  /\ UNCHANGED <<loading, openfile, server, limits, logins, opens, moves>>

on_logOut(c) ==
  /\ window[c] \in {"home", "asked"}
  /\ Ends(c, Len(up[user[c]]))
  /\ UNCHANGED drops

ConnectionDrops(c) ==
  /\ window[c] \in {"home", "asked", "editing"}
  /\ drops < limits.drops
  /\ drops' = drops + 1
  /\ \E n \in 0 .. Len(up[user[c]]) : Ends(c, n)

-----------------------------------------------------------------------------
(***************************************************************************)
(* The server handles a request or the end of a worker.                    *)
(***************************************************************************)

WorkersOf(f) == IF f = NoFile THEN <<>> ELSE mapFileWorkers[f]
\* The list without the first place of u (removeOne).
Without(s, u) ==
  LET i == PlaceOf(s, u)
  IN  IF u \in ToSet(s) THEN SubSeq(s, 1, i - 1) \o SubSeq(s, i + 1, Len(s)) ELSE s
Others(f, u) == ToSet(WorkersOf(f)) \ {u}

\* A message to a worker whose connection was lost is lost.
Connected == {user[c] : c \in Clients} \ {Nobody}
Tells(told, m) == [v \in Users |-> IF v \in told \cap Connected THEN Append(down[v], m) ELSE down[v]]

Requested(u, type) ==
  /\ up[u] # <<>> /\ Head(up[u]).type = type
  /\ up' = [up EXCEPT ![u] = Tail(@)]
  /\ UNCHANGED <<user, window, loading, openfile, editor, counts>>

\* The others are told of a user who comes after they are listed to the user.
sendFile(u) ==
  LET f == Head(up[u]).file
      file == [type |-> "file_to_open", file |-> f, users |-> Without(WorkersOf(f), u)]
  IN  /\ Requested(u, "file_to_open")
      /\ filename' = [filename EXCEPT ![u] = f]
      /\ mapFileWorkers' = [mapFileWorkers EXCEPT ![f] = Append(@, u)]
      /\ down' = [v \in Users |->
                    IF v = u /\ u \in Connected THEN Append(down[u], file)
                    ELSE Tells(Others(f, u), [type |-> "connection", file |-> f, user |-> u])[v]]
      /\ UNCHANGED worker

\* The worker leaves the list of the file, and the others are told.
\* Mutated form: they are told after the worker has forgotten its file.
LeavesLate(u, f) ==
  /\ IF u \in ToSet(WorkersOf(f))
     THEN mapFileWorkers' = [mapFileWorkers EXCEPT ![f] = Without(@, u)]
     ELSE UNCHANGED mapFileWorkers
  /\ UNCHANGED down
Leaves(u, f) ==
  IF u \in ToSet(WorkersOf(f))
  THEN /\ mapFileWorkers' = [mapFileWorkers EXCEPT ![f] = Without(@, u)]
       /\ down' = Tells(Others(f, u), [type |-> "disconnection", file |-> f, user |-> u])
  ELSE UNCHANGED <<mapFileWorkers, down>>

\* The client names the file; one that the worker does not have stays open.
closeFile(u) ==
  LET f == Head(up[u]).file
  IN  /\ Requested(u, "close")
      /\ Leaves(u, f)
      /\ filename' = IF u \in ToSet(WorkersOf(f)) THEN [filename EXCEPT ![u] = NoFile] ELSE filename
      /\ UNCHANGED worker

userDisconnected(u) ==
  /\ Requested(u, "disconnected")
  /\ Leaves(u, filename[u])
  /\ worker' = worker \ {u}
  /\ filename' = [filename EXCEPT ![u] = NoFile]

broadcastCursor(u) ==
  /\ Requested(u, "cursor")
  /\ down' = Tells(Others(filename[u], u), [type |-> "cursor", user |-> u])
  /\ UNCHANGED server

-----------------------------------------------------------------------------
(***************************************************************************)
(* A client handles a message.                                             *)
(***************************************************************************)

Told(c, type) ==
  /\ user[c] # Nobody
  /\ down[user[c]] # <<>> /\ Head(down[user[c]]).type = type
  /\ down' = [down EXCEPT ![user[c]] = Tail(@)]
  /\ UNCHANGED <<user, server, up, counts>>

Message(c) == Head(down[user[c]])

correctOpenedFile(c, f, list) ==
  /\ openfile' = [openfile EXCEPT ![c] = f]
  /\ addUsers(c, list)
  /\ Turns(c, "editing")

\* While it inserts the symbols, the client handles the events that come.
file_to_open(c) ==
  /\ Told(c, "file_to_open")
  /\ IF limits.nested
     THEN /\ loading' = [loading EXCEPT ![c] = Message(c)]
          /\ Turns(c, "loading")
          /\ UNCHANGED <<openfile, editor>>
     ELSE correctOpenedFile(c, Message(c).file, Message(c).users) /\ UNCHANGED loading

Loaded(c) ==
  /\ window[c] = "loading"
  /\ correctOpenedFile(c, loading[c].file, loading[c].users)
  /\ UNCHANGED <<user, loading, server, up, down, counts>>

connection(c) ==
  /\ Told(c, "connection")
  /\ IF Message(c).file = openfile[c] THEN addUsers(c, <<Message(c).user>>) ELSE UNCHANGED editor
  /\ UNCHANGED <<window, loading, openfile>>

disconnection(c) ==
  /\ Told(c, "disconnection")
  /\ IF Message(c).file = openfile[c] THEN removeUser(c, Message(c).user) ELSE UNCHANGED editor
  /\ UNCHANGED <<window, loading, openfile>>

remoteCursor(c) ==
  /\ Told(c, "cursor")
  /\ on_remoteCursor(c, Message(c).user)
  /\ UNCHANGED <<window, loading, openfile>>

-----------------------------------------------------------------------------

Init ==
  /\ limits \in Limits
  /\ user = [c \in Clients |-> Nobody]
  /\ window = [c \in Clients |-> "login"]
  /\ loading = [c \in Clients |-> [type |-> "file_to_open", file |-> NoFile, users |-> <<>>]]
  /\ openfile = [c \in Clients |-> NoFile]
  /\ users = [c \in Clients |-> NoUsers]
  /\ current = [c \in Clients |-> -1]
  /\ peers = [c \in Clients |-> {}]
  /\ remote_cursors = [c \in Clients |-> NoUsers]
  /\ worker = {}
  /\ filename = [u \in Users |-> NoFile]
  /\ mapFileWorkers = [f \in Files |-> <<>>]
  /\ up = [u \in Users |-> <<>>] /\ down = [u \in Users |-> <<>>]
  /\ logins = [c \in Clients |-> 0] /\ opens = [c \in Clients |-> 0]
  /\ moves = 0 /\ drops = 0

Acts(c) ==
  \/ \E u \in Users : loggedIn(c, u)
  \/ \E f \in Files : openFile(c, f)
  \/ saveCursorPosition(c) \/ exit(c) \/ on_logOut(c) \/ ConnectionDrops(c)

Serves(u) == sendFile(u) \/ closeFile(u) \/ userDisconnected(u) \/ broadcastCursor(u)

Hears(c) == file_to_open(c) \/ Loaded(c) \/ connection(c) \/ disconnection(c) \/ remoteCursor(c)

Next == \/ \E c \in Clients : Acts(c) \/ Hears(c)
        \/ \E u \in Users : Serves(u)

Spec == Init /\ [][Next]_vars

-----------------------------------------------------------------------------
(***************************************************************************)
(* Properties.                                                             *)
(***************************************************************************)

Requests == [type : {"file_to_open", "close", "cursor", "disconnected"}, file : Files \cup {NoFile}]
Listing == [type : {"file_to_open"}, file : Files \cup {NoFile}, users : Seq(Users)]
Notices == [type : {"connection", "disconnection"}, file : Files, user : Users]
           \cup [type : {"cursor"}, user : Users]

\* The variables have their types, those of the classes named above; an index is
\* at most the last that was given.
TypeOK ==
  /\ limits \in Limits
  /\ user \in [Clients -> Users \cup {Nobody}]
  /\ window \in [Clients -> {"login", "home", "asked", "loading", "editing"}]
  /\ loading \in [Clients -> Listing]
  /\ openfile \in [Clients -> Files \cup {NoFile}]
  /\ DOMAIN users = Clients /\ DOMAIN remote_cursors = Clients
  /\ \A c \in Clients :
       /\ DOMAIN users[c] \subseteq Users /\ \A u \in DOMAIN users[c] : users[c][u] \in Local .. current[c]
       /\ DOMAIN remote_cursors[c] \subseteq Users
       /\ \A u \in DOMAIN remote_cursors[c] : remote_cursors[c][u] \in Unknown .. NColours
  /\ current \in [Clients -> Int] /\ \A c \in Clients : current[c] >= -1
  /\ peers \in [Clients -> SUBSET Users]
  /\ worker \subseteq Users
  /\ filename \in [Users -> Files \cup {NoFile}]
  /\ mapFileWorkers \in [Files -> Seq(Users)]
  /\ up \in [Users -> Seq(Requests)]
  /\ down \in [Users -> Seq(Listing \cup Notices)]
  /\ logins \in [Clients -> Nat] /\ opens \in [Clients -> Nat] /\ moves \in Nat /\ drops \in Nat

\* The bar shows those whom the highlighter has a colour for, and no one else:
\* two lists that addUsers, removeUser, clear, exit and the login each keep.
PeersColoured ==
  \A c \in Clients : peers[c] = {u \in DOMAIN users[c] : users[c][u] # Local}

\* Two users in a bar never have the same index, however often users came and
\* went (getIndex, freeColor), so that they differ as long as the colours last.
ColoursDistinct ==
  \A c \in Clients : \A u, v \in peers[c] : users[c][u] = users[c][v] => u = v

\* The cursor of a user in the bar has the user's colour there, whichever of
\* the two came first (addUsers, on_remoteCursor).
CursorColours ==
  \A c \in Clients : \A u \in DOMAIN remote_cursors[c] \cap peers[c] :
    remote_cursors[c][u] = getColor(users[c], u)

\* Whom a message brings into the bar and whom it takes out.
Shows(m, u) ==
  \/ m.type = "file_to_open" /\ u \in ToSet(m.users)
  \/ m.type = "connection" /\ m.user = u
Hides(m, u) == m.type = "disconnection" /\ m.user = u

\* The bar after the first n messages of a queue: a user is in it whom one of
\* them brought, or who was there before, and whom no later one took out.
Shown(bar, messages, n) ==
  {u \in Users :
     \/ \E i \in 1 .. n : /\ Shows(messages[i], u)
                          /\ \A j \in i + 1 .. n : ~Hides(messages[j], u)
     \/ /\ u \in bar
        /\ \A j \in 1 .. n : ~Hides(messages[j], u)}

PeersAfter(c) == Shown(peers[c], down[user[c]], Len(down[user[c]]))

\* What the next property assumes: each client opens one file at most, in one
\* login, and loads it in one step.  Without that it fails: a notice that is
\* handled while a file is loaded or after it was closed is dropped or kept for
\* the wrong file, because openfile is set late and never reset.
Calm == limits.opens = 1 /\ limits.logins = 1 /\ ~limits.nested

\* Who edits a file will show, once the notices on their way are handled,
\* exactly the others that the server lists for it: no one who came, went or
\* lost the connection at any moment is missed and no one is left over
\* (Server::sendFile, udpateSymbolListAndCommunicateDisconnection); and the
\* cursors shown are of users in the bar (Editor::removeUser).
PeersCatchUp ==
  Calm => \A c \in Clients :
    /\ window[c] \in {"asked", "editing"} /\ user[c] \in ToSet(WorkersOf(filename[user[c]]))
         => PeersAfter(c) = Others(filename[user[c]], user[c])
    /\ window[c] = "editing" => DOMAIN remote_cursors[c] \subseteq peers[c]

\* What the comment in Client::on_byteArrayReceived says of the notice: a new
\* user is connected to the file currently open.  Otherwise the bar does not
\* change.
NoticesOfOpenFile ==
  [][\A c \in Clients :
       connection(c) /\ peers'[c] # peers[c] => window[c] = "editing"]_vars
=============================================================================
