---------------------------- MODULE PresenceProofs ----------------------------
(*****************************************************************************)
(* Proofs about the bars of the editors, for any clients, files, colours     *)
(* and bounds, and any finite set of users: the bar and the highlighter      *)
(* know the same users, no index is given twice, a cursor has the colour     *)
(* of its user, and what the messages on their way to an editor make of      *)
(* its bar is the list that the server keeps, whatever is on its way and     *)
(* in whatever order users come, go and lose their connections.              *)
(*****************************************************************************)
EXTENDS Presence, FiniteSetTheorems, TLAPS

-----------------------------------------------------------------------------
(***************************************************************************)
(* Lists.                                                                  *)
(***************************************************************************)

LEMMA TailType == ASSUME NEW S, NEW s \in Seq(S), s # <<>>
                  PROVE  Tail(s) \in Seq(S) /\ Head(s) \in S
OBVIOUS

LEMMA CutType ==
  ASSUME NEW S, NEW s \in Seq(S), NEW m \in 1 .. Len(s) + 1, NEW n \in 0 .. Len(s)
  PROVE  SubSeq(s, m, n) \in Seq(S)
OBVIOUS

LEMMA PlaceOfMember ==
  ASSUME NEW S, NEW s \in Seq(S), NEW u \in ToSet(s)
  PROVE  PlaceOf(s, u) \in 1 .. Len(s) /\ s[PlaceOf(s, u)] = u
BY DEF PlaceOf, ToSet

LEMMA MembersType == ASSUME NEW S, NEW s \in Seq(S) PROVE ToSet(s) \subseteq S
BY DEF ToSet

LEMMA WithoutType == ASSUME NEW S, NEW s \in Seq(S), NEW u PROVE Without(s, u) \in Seq(S)
<1>1. CASE u \in ToSet(s)
  <2> DEFINE i == PlaceOf(s, u)
  <2>1. i \in 1 .. Len(s)
    BY <1>1, PlaceOfMember
  <2>2. SubSeq(s, 1, i - 1) \in Seq(S)
    <3>1. 1 \in 1 .. Len(s) + 1 /\ i - 1 \in 0 .. Len(s)
      BY <2>1
    <3> QED
      BY <3>1, CutType
  <2>3. SubSeq(s, i + 1, Len(s)) \in Seq(S)
    <3>1. i + 1 \in 1 .. Len(s) + 1 /\ Len(s) \in 0 .. Len(s)
      BY <2>1
    <3> QED
      BY <3>1, CutType
  <2> QED
    BY <1>1, <2>2, <2>3 DEF Without
<1>2. CASE u \notin ToSet(s)
  BY <1>2 DEF Without
<1> QED
  BY <1>1, <1>2

-----------------------------------------------------------------------------
(***************************************************************************)
(* The indices of the users who come.                                      *)
(***************************************************************************)

\* Of two users of a list, those before the one are fewer than those before
\* the other; all are fewer than the users.
LEMMA BeforeCounts ==
  ASSUME NEW list \in Seq(Users), NEW new \in SUBSET ToSet(list),
         NEW u \in new, NEW v \in new
  PROVE  /\ IsFiniteSet(new) /\ Cardinality(new) \in Nat
         /\ Cardinality(Before(list, new, u)) \in 0 .. Cardinality(new) - 1
         /\ u # v => Cardinality(Before(list, new, u)) # Cardinality(Before(list, new, v))
<1>1. new \in SUBSET Users
  BY MembersType
<1>2. IsFiniteSet(new) /\ Cardinality(new) \in Nat
  BY <1>1, UsersAssumption, FS_Subset, FS_CardinalityType
<1> DEFINE place(w) == PlaceOf(list, w)
<1>3. \A w \in new : place(w) \in Nat /\ list[place(w)] = w
  BY PlaceOfMember
<1> HIDE DEF place
<1>4. ASSUME NEW x \in new
      PROVE  /\ Before(list, new, x) = {w \in new : place(w) < place(x)}
             /\ IsFiniteSet(Before(list, new, x))
             /\ Cardinality(Before(list, new, x)) \in Nat
             /\ Cardinality(Before(list, new, x)) < Cardinality(new)
  <2>1. Before(list, new, x) = {w \in new : place(w) < place(x)}
    BY DEF Before, place
  <2>2. Before(list, new, x) \in SUBSET new /\ x \notin Before(list, new, x)
    BY <1>3, <2>1
  <2>3. /\ IsFiniteSet(Before(list, new, x))
        /\ Cardinality(Before(list, new, x)) <= Cardinality(new)
        /\ Cardinality(new) = Cardinality(Before(list, new, x)) => new = Before(list, new, x)
    BY <1>2, <2>2, FS_Subset
  <2>4. Cardinality(Before(list, new, x)) \in Nat
    BY <2>3, FS_CardinalityType
  <2> QED
    BY <1>2, <2>1, <2>2, <2>3, <2>4
<1>5. ASSUME NEW x \in new, NEW y \in new, place(x) < place(y)
      PROVE  Cardinality(Before(list, new, x)) # Cardinality(Before(list, new, y))
  <2>1. Before(list, new, x) \in SUBSET Before(list, new, y)
    BY <1>3, <1>4, <1>5
  <2>2. x \in Before(list, new, y) /\ x \notin Before(list, new, x)
    BY <1>3, <1>4, <1>5
  <2>3. Cardinality(Before(list, new, y)) = Cardinality(Before(list, new, x))
          => Before(list, new, y) = Before(list, new, x)
    BY <1>4, <2>1, FS_Subset
  <2> QED
    BY <2>2, <2>3
<1>6. u # v => place(u) < place(v) \/ place(v) < place(u)
  BY <1>3
<1> QED
  BY <1>2, <1>4, <1>5, <1>6

-----------------------------------------------------------------------------
(***************************************************************************)
(* One editor: its highlighter, its last index, its bar and its cursors.   *)
(***************************************************************************)

EditorOK(known, last, bar, cursors) ==
  /\ last \in Int /\ last >= -1
  /\ DOMAIN known \subseteq Users
  /\ \A u \in DOMAIN known : known[u] \in Local .. last
  /\ bar = {u \in DOMAIN known : known[u] # Local}
  /\ \A u, v \in bar : known[u] = known[v] => u = v
  /\ DOMAIN cursors \subseteq Users
  /\ \A u \in DOMAIN cursors : cursors[u] \in Unknown .. NColours
  /\ \A u \in DOMAIN cursors \cap bar : cursors[u] = getColor(known, u)

EditorInv ==
  /\ DOMAIN users = Clients /\ DOMAIN remote_cursors = Clients
  /\ current \in [Clients -> Int] /\ peers \in [Clients -> SUBSET Users]
  /\ \A c \in Clients : EditorOK(users[c], current[c], peers[c], remote_cursors[c])

LEMMA ColorType ==
  ASSUME NEW known, NEW last \in Int, NEW u,
         \A v \in DOMAIN known : known[v] \in Local .. last
  PROVE  getColor(known, u) \in Unknown .. NColours
BY ColoursAssumption DEF getColor, Unknown, Local, White

\* One editor is changed at a time.
LEMMA OneEditor ==
  ASSUME EditorInv, NEW c \in Clients, NEW known, NEW last, NEW bar, NEW cursors,
         EditorOK(known, last, bar, cursors),
         users' = [users EXCEPT ![c] = known], current' = [current EXCEPT ![c] = last],
         peers' = [peers EXCEPT ![c] = bar], remote_cursors' = [remote_cursors EXCEPT ![c] = cursors]
  PROVE  EditorInv'
<1>1. DOMAIN users' = Clients /\ DOMAIN remote_cursors' = Clients
      /\ current' \in [Clients -> Int] /\ peers' \in [Clients -> SUBSET Users]
  BY DEF EditorInv, EditorOK
<1>2. ASSUME NEW d \in Clients
      PROVE  EditorOK(users'[d], current'[d], peers'[d], remote_cursors'[d])
  <2>1. CASE d = c
    <3>1. users'[d] = known /\ current'[d] = last /\ peers'[d] = bar /\ remote_cursors'[d] = cursors
      BY <2>1 DEF EditorInv
    <3> QED
      BY <3>1
  <2>2. CASE d # c
    <3>1. users'[d] = users[d] /\ current'[d] = current[d] /\ peers'[d] = peers[d]
          /\ remote_cursors'[d] = remote_cursors[d]
      BY <2>2 DEF EditorInv
    <3> QED
      BY <3>1 DEF EditorInv
  <2> QED
    BY <2>1, <2>2
<1> QED
  BY <1>1, <1>2 DEF EditorInv

LEMMA AddLocalOK ==
  ASSUME NEW known, NEW last, NEW bar, NEW cursors, EditorOK(known, last, bar, cursors), NEW u \in Users
  PROVE  EditorOK(addLocal(known, u), last, bar, cursors)
<1> DEFINE after == addLocal(known, u)
<1>1. /\ DOMAIN after = DOMAIN known \cup {u}
      /\ \A v \in DOMAIN known : after[v] = known[v]
      /\ u \notin DOMAIN known => after[u] = Local
  BY DEF addLocal
<1> HIDE DEF after
<1>2. bar = {v \in DOMAIN after : after[v] # Local} /\ bar \subseteq DOMAIN known
  BY <1>1 DEF EditorOK
<1>3. \A v \in DOMAIN after : after[v] \in Local .. last
  BY <1>1 DEF EditorOK, Local
<1>4. \A v \in bar : getColor(after, v) = getColor(known, v)
  BY <1>1, <1>2 DEF getColor
<1>5. EditorOK(after, last, bar, cursors)
  BY <1>1, <1>2, <1>3, <1>4 DEF EditorOK
<1> QED
  BY <1>5 DEF after

LEMMA NoUsersOK ==
  ASSUME NEW last \in Int, last >= -1
  PROVE  EditorOK(NoUsers, last, {}, NoUsers)
BY DEF EditorOK, NoUsers

LEMMA AddUsersOK ==
  ASSUME NEW known, NEW last, NEW bar, NEW cursors, EditorOK(known, last, bar, cursors),
         NEW list \in Seq(Users)
  PROVE  LET new == New(known, list)
             after == AddedTo(known, last, list)
         IN  EditorOK(after, last + Cardinality(new), bar \cup new, Recoloured(cursors, after, new))
<1> DEFINE new == New(known, list)
           after == AddedTo(known, last, list)
           index(u) == last + Cardinality(Before(list, new, u)) + 1
           shown == Recoloured(cursors, after, new)
<1>1. new \in SUBSET ToSet(list) /\ new \subseteq Users /\ new \cap DOMAIN known = {}
  BY MembersType DEF New
<1>2. DOMAIN after = DOMAIN known \cup new
  BY DEF AddedTo
<1>3. \A u \in DOMAIN known : after[u] = known[u]
  BY DEF AddedTo
<1>4. \A u \in new : after[u] = index(u)
  BY <1>1 DEF AddedTo, getIndex
<1>5. DOMAIN shown = DOMAIN cursors
      /\ \A u \in DOMAIN cursors : shown[u] = IF u \in new THEN getColor(after, u) ELSE cursors[u]
  BY DEF Recoloured
<1>6. IsFiniteSet(new) /\ Cardinality(new) \in Nat
  BY <1>1, UsersAssumption, FS_Subset, FS_CardinalityType
<1>7. \A u \in new : index(u) \in last + 1 .. last + Cardinality(new)
  BY <1>1, BeforeCounts DEF EditorOK
<1>8. \A u, v \in new : index(u) = index(v) => u = v
  <2> SUFFICES ASSUME NEW u \in new, NEW v \in new, index(u) = index(v) PROVE u = v
    OBVIOUS
  <2> HIDE DEF new
  <2>1. /\ Cardinality(Before(list, new, u)) \in 0 .. Cardinality(new) - 1
        /\ Cardinality(Before(list, new, v)) \in 0 .. Cardinality(new) - 1
        /\ u # v => Cardinality(Before(list, new, u)) # Cardinality(Before(list, new, v))
    BY <1>1, BeforeCounts, Zenon
  <2>2. Cardinality(Before(list, new, u)) = Cardinality(Before(list, new, v))
    BY <1>6, <2>1 DEF EditorOK
  <2> QED
    BY <2>1, <2>2
<1> HIDE DEF new, after, index, shown
<1>9. \A u \in DOMAIN after : after[u] \in Local .. last + Cardinality(new)
  BY <1>2, <1>3, <1>4, <1>6, <1>7 DEF EditorOK, Local
<1>10. bar \cup new = {u \in DOMAIN after : after[u] # Local}
  BY <1>1, <1>2, <1>3, <1>4, <1>7 DEF EditorOK, Local
<1>11. ASSUME NEW u \in bar \cup new, NEW v \in bar \cup new, after[u] = after[v] PROVE u = v
  <2>1. \A w \in bar : w \in DOMAIN known /\ after[w] = known[w] /\ known[w] \in Local .. last
    BY <1>3 DEF EditorOK
  <2>2. last \in Int
    BY DEF EditorOK
  <2>3. CASE u \in bar /\ v \in bar
    BY <1>11, <2>1, <2>3 DEF EditorOK
  <2>4. CASE u \in new /\ v \in new
    BY <1>4, <1>8, <1>11, <2>4
  <2>5. CASE u \in bar /\ v \in new
    BY <1>4, <1>6, <1>7, <1>11, <2>1, <2>2, <2>5 DEF Local
  <2>6. CASE u \in new /\ v \in bar
    BY <1>4, <1>6, <1>7, <1>11, <2>1, <2>2, <2>6 DEF Local
  <2> QED
    BY <2>3, <2>4, <2>5, <2>6
<1>12. \A u \in DOMAIN known : getColor(after, u) = getColor(known, u)
  BY <1>2, <1>3 DEF getColor
<1>13. \A u \in DOMAIN shown : shown[u] \in Unknown .. NColours
  <2>1. last + Cardinality(new) \in Int
    BY <1>6 DEF EditorOK
  <2>2. \A u : getColor(after, u) \in Unknown .. NColours
    BY <1>9, <2>1, ColorType
  <2> QED
    BY <1>5, <2>2 DEF EditorOK
<1>14. \A u \in DOMAIN shown \cap (bar \cup new) : shown[u] = getColor(after, u)
  BY <1>1, <1>5, <1>12 DEF EditorOK
<1>15. last + Cardinality(new) \in Int /\ last + Cardinality(new) >= -1
  BY <1>6 DEF EditorOK
<1>16. EditorOK(after, last + Cardinality(new), bar \cup new, shown)
  <2>1. DOMAIN after \subseteq Users /\ DOMAIN shown \subseteq Users
    BY <1>1, <1>2, <1>5 DEF EditorOK
  <2> QED
    BY <1>9, <1>10, <1>11, <1>13, <1>14, <1>15, <2>1 DEF EditorOK
<1> QED
  BY <1>16 DEF new, after, shown

LEMMA RemoveUserOK ==
  ASSUME NEW known, NEW last, NEW bar, NEW cursors, EditorOK(known, last, bar, cursors), NEW u
  PROVE  EditorOK(Restrict(known, DOMAIN known \ {u}), last, bar \ {u},
                  Restrict(cursors, DOMAIN cursors \ {u}))
<1> DEFINE after == Restrict(known, DOMAIN known \ {u})
           shown == Restrict(cursors, DOMAIN cursors \ {u})
<1>1. DOMAIN after = DOMAIN known \ {u} /\ \A v \in DOMAIN after : after[v] = known[v]
  BY DEF Restrict
<1>2. DOMAIN shown = DOMAIN cursors \ {u} /\ \A v \in DOMAIN shown : shown[v] = cursors[v]
  BY DEF Restrict
<1> HIDE DEF after, shown
<1>3. bar \ {u} = {v \in DOMAIN after : after[v] # Local}
  BY <1>1 DEF EditorOK
<1>4. \A v \in DOMAIN after : getColor(after, v) = getColor(known, v)
  BY <1>1 DEF getColor
<1>5. EditorOK(after, last, bar \ {u}, shown)
  BY <1>1, <1>2, <1>3, <1>4 DEF EditorOK
<1> QED
  BY <1>5 DEF after, shown

LEMMA CursorOK ==
  ASSUME NEW known, NEW last, NEW bar, NEW cursors, EditorOK(known, last, bar, cursors), NEW u \in Users,
         u \notin DOMAIN cursors
  PROVE  EditorOK(known, last, bar,
                  [v \in DOMAIN cursors \cup {u} |-> IF v = u THEN getColor(known, u) ELSE cursors[v]])
<1> DEFINE shown == [v \in DOMAIN cursors \cup {u} |-> IF v = u THEN getColor(known, u) ELSE cursors[v]]
<1>1. getColor(known, u) \in Unknown .. NColours
  BY ColorType DEF EditorOK
<1>2. DOMAIN shown = DOMAIN cursors \cup {u} /\ shown[u] = getColor(known, u)
      /\ \A v \in DOMAIN cursors : shown[v] = cursors[v]
  OBVIOUS
<1> HIDE DEF shown
<1>3. EditorOK(known, last, bar, shown)
  BY <1>1, <1>2 DEF EditorOK
<1> QED
  BY <1>3 DEF shown

\* What the handlers do with the editor.
LEMMA KeptInv == ASSUME EditorInv, UNCHANGED editor PROVE EditorInv'
BY DEF EditorInv, editor

LEMMA ClearInv ==
  ASSUME EditorInv, NEW c \in Clients, NEW known, clear(c, known),
         EditorOK(known, current[c], {}, NoUsers)
  PROVE  EditorInv'
<1>1. current' = [current EXCEPT ![c] = current[c]]
  BY DEF clear, EditorInv
<1> QED
  BY <1>1, OneEditor DEF clear

LEMMA AddUsersInv ==
  ASSUME EditorInv, NEW c \in Clients, NEW list \in Seq(Users), addUsers(c, list)
  PROVE  EditorInv'
<1> DEFINE new == New(users[c], list)
           known == AddedTo(users[c], current[c], list)
<1>1. EditorOK(known, current[c] + Cardinality(new), peers[c] \cup new,
               Recoloured(remote_cursors[c], known, new))
  BY AddUsersOK DEF EditorInv
<1>2. /\ users' = [users EXCEPT ![c] = known]
      /\ current' = [current EXCEPT ![c] = current[c] + Cardinality(new)]
      /\ peers' = [peers EXCEPT ![c] = peers[c] \cup new]
      /\ remote_cursors' = [remote_cursors EXCEPT ![c] = Recoloured(remote_cursors[c], known, new)]
  BY DEF addUsers
<1> HIDE DEF new, known
<1> QED
  BY <1>1, <1>2, OneEditor

LEMMA RemoveUserInv ==
  ASSUME EditorInv, NEW c \in Clients, NEW u, removeUser(c, u)
  PROVE  EditorInv'
<1>1. CASE u \notin peers[c]
  BY <1>1, KeptInv DEF removeUser, editor
<1>2. CASE u \in peers[c]
  <2> DEFINE known == Restrict(users[c], DOMAIN users[c] \ {u})
             shown == Restrict(remote_cursors[c], DOMAIN remote_cursors[c] \ {u})
  <2>1. EditorOK(known, current[c], peers[c] \ {u}, shown)
    BY RemoveUserOK DEF EditorInv
  <2>2. /\ users' = [users EXCEPT ![c] = known]
        /\ current' = [current EXCEPT ![c] = current[c]]
        /\ peers' = [peers EXCEPT ![c] = peers[c] \ {u}]
        /\ remote_cursors' = [remote_cursors EXCEPT ![c] = shown]
    BY <1>2 DEF removeUser, EditorInv
  <2> HIDE DEF known, shown
  <2> QED
    BY <2>1, <2>2, OneEditor
<1> QED
  BY <1>1, <1>2

LEMMA CursorInv ==
  ASSUME EditorInv, NEW c \in Clients, NEW u \in Users, on_remoteCursor(c, u)
  PROVE  EditorInv'
<1>1. CASE u \in DOMAIN remote_cursors[c]
  BY <1>1, KeptInv DEF on_remoteCursor, editor
<1>2. CASE u \notin DOMAIN remote_cursors[c]
  <2> DEFINE shown == [v \in DOMAIN remote_cursors[c] \cup {u} |->
                         IF v = u THEN getColor(users[c], u) ELSE remote_cursors[c][v]]
  <2>1. EditorOK(users[c], current[c], peers[c], shown)
    BY <1>2, CursorOK DEF EditorInv
  <2>2. remote_cursors' = [remote_cursors EXCEPT ![c] = shown]
    BY <1>2 DEF on_remoteCursor
  <2>3. DOMAIN users = Clients /\ DOMAIN remote_cursors' = Clients
    BY <2>2 DEF EditorInv
  <2>4. ASSUME NEW d \in Clients
        PROVE  EditorOK(users[d], current[d], peers[d], remote_cursors'[d])
    BY <2>1, <2>2 DEF EditorInv
  <2> QED
    BY <2>3, <2>4 DEF EditorInv, on_remoteCursor
<1> QED
  BY <1>1, <1>2

LEMMA LoginInv ==
  ASSUME EditorInv, NEW c \in Clients, NEW u \in Users,
         users' = [users EXCEPT ![c] = addLocal(users[c], u)],
         UNCHANGED <<current, peers, remote_cursors>>
  PROVE  EditorInv'
<1>1. EditorOK(addLocal(users[c], u), current[c], peers[c], remote_cursors[c])
  BY AddLocalOK DEF EditorInv
<1>2. ASSUME NEW d \in Clients
      PROVE  EditorOK(users'[d], current[d], peers[d], remote_cursors[d])
  BY <1>1 DEF EditorInv
<1> QED
  BY <1>2 DEF EditorInv

LEMMA ClosedOK ==
  ASSUME EditorInv, NEW c \in Clients
  PROVE  /\ EditorOK(NoUsers, current[c], {}, NoUsers)
         /\ \A u \in Users : EditorOK(addLocal(NoUsers, u), current[c], {}, NoUsers)
<1>1. EditorOK(NoUsers, current[c], {}, NoUsers)
  BY NoUsersOK DEF EditorInv, EditorOK
<1> QED
  BY <1>1, AddLocalOK

-----------------------------------------------------------------------------
(***************************************************************************)
(* The rest of the state: its types, and a client past the login has a     *)
(* user.                                                                   *)
(***************************************************************************)

RestInv ==
  /\ limits \in Limits
  /\ user \in [Clients -> Users \cup {Nobody}]
  /\ window \in [Clients -> {"login", "home", "asked", "loading", "editing"}]
  /\ loading \in [Clients -> Listing]
  /\ openfile \in [Clients -> Files \cup {NoFile}]
  /\ worker \subseteq Users
  /\ filename \in [Users -> Files \cup {NoFile}]
  /\ mapFileWorkers \in [Files -> Seq(Users)]
  /\ up \in [Users -> Seq(Requests)]
  /\ down \in [Users -> Seq(Listing \cup Notices)]
  /\ logins \in [Clients -> Nat] /\ opens \in [Clients -> Nat] /\ moves \in Nat /\ drops \in Nat
  /\ \A c \in Clients : window[c] # "login" => user[c] \in Users

Inv == RestInv /\ EditorInv

LEMMA InvImplies == Inv => TypeOK /\ PeersColoured /\ ColoursDistinct /\ CursorColours
BY DEF Inv, RestInv, EditorInv, EditorOK, TypeOK, PeersColoured, ColoursDistinct, CursorColours

LEMMA InitInv == Init => Inv
<1> SUFFICES ASSUME Init PROVE Inv
  OBVIOUS
<1>1. EditorInv
  BY NoUsersOK DEF Init, EditorInv
<1>2. RestInv
  <2>1. <<>> \in Seq(Users) /\ <<>> \in Seq(Requests) /\ <<>> \in Seq(Listing \cup Notices)
    OBVIOUS
  <2>2. [type |-> "file_to_open", file |-> NoFile, users |-> <<>>] \in Listing
    BY <2>1 DEF Listing
  <2> QED
    BY <2>1, <2>2 DEF Init, RestInv
<1> QED
  BY <1>1, <1>2 DEF Inv

\* A message put at the end of a queue.
LEMMA AsksType ==
  ASSUME RestInv, NEW u \in Users, NEW type \in {"file_to_open", "close", "cursor", "disconnected"},
         NEW f \in Files \cup {NoFile}, Asks(u, type, f)
  PROVE  up' \in [Users -> Seq(Requests)]
<1>1. [type |-> type, file |-> f] \in Requests
  BY DEF Requests
<1>2. Append(up[u], [type |-> type, file |-> f]) \in Seq(Requests)
  BY <1>1 DEF RestInv
<1> QED
  BY <1>2 DEF RestInv, Asks

LEMMA TellsType ==
  ASSUME RestInv, NEW told, NEW m \in Notices
  PROVE  Tells(told, m) \in [Users -> Seq(Listing \cup Notices)]
<1>1. \A v \in Users : Append(down[v], m) \in Seq(Listing \cup Notices)
  BY DEF RestInv
<1> QED
  BY <1>1 DEF RestInv, Tells

LEMMA NoticeType ==
  ASSUME NEW f \in Files, NEW u \in Users
  PROVE  /\ \A type \in {"connection", "disconnection"} : [type |-> type, file |-> f, user |-> u] \in Notices
         /\ [type |-> "cursor", user |-> u] \in Notices
BY DEF Notices

LEMMA RequestType ==
  ASSUME RestInv, NEW u \in Users, up[u] # <<>>
  PROVE  Head(up[u]).file \in Files \cup {NoFile} /\ Tail(up[u]) \in Seq(Requests)
<1>1. Head(up[u]) \in Requests /\ Tail(up[u]) \in Seq(Requests)
  BY TailType DEF RestInv
<1> QED
  BY <1>1 DEF Requests

LEMMA MessageType ==
  ASSUME RestInv, NEW c \in Clients, user[c] # Nobody, down[user[c]] # <<>>
  PROVE  /\ user[c] \in Users
         /\ Message(c) \in Listing \cup Notices
         /\ Tail(down[user[c]]) \in Seq(Listing \cup Notices)
<1>1. user[c] \in Users
  BY DEF RestInv
<1> QED
  BY <1>1, TailType DEF RestInv, Message

-----------------------------------------------------------------------------
(***************************************************************************)
(* Every action keeps the invariant.                                       *)
(***************************************************************************)

LEMMA loggedInInv == ASSUME Inv, NEW c \in Clients, NEW u \in Users, loggedIn(c, u) PROVE Inv'
<1>1. EditorInv'
  BY LoginInv DEF Inv, loggedIn
<1>2. RestInv'
  BY DEF Inv, RestInv, loggedIn, Turns
<1> QED
  BY <1>1, <1>2 DEF Inv

LEMMA openFileInv == ASSUME Inv, NEW c \in Clients, NEW f \in Files, openFile(c, f) PROVE Inv'
<1>1. EditorInv'
  BY KeptInv DEF Inv, openFile
<1>2. up' \in [Users -> Seq(Requests)]
  <2>1. user[c] \in Users
    BY DEF Inv, RestInv, openFile
  <2> QED
    BY <2>1, AsksType DEF Inv, openFile
<1>3. RestInv'
  BY <1>2 DEF Inv, RestInv, openFile, server, Turns
<1> QED
  BY <1>1, <1>3 DEF Inv

LEMMA saveCursorPositionInv == ASSUME Inv, NEW c \in Clients, saveCursorPosition(c) PROVE Inv'
<1>1. EditorInv'
  BY KeptInv DEF Inv, saveCursorPosition
<1>2. up' \in [Users -> Seq(Requests)]
  <2>1. user[c] \in Users
    BY DEF Inv, RestInv, saveCursorPosition
  <2> QED
    BY <2>1, AsksType DEF Inv, saveCursorPosition
<1>3. RestInv'
  BY <1>2 DEF Inv, RestInv, saveCursorPosition, server
<1> QED
  BY <1>1, <1>3 DEF Inv

LEMMA exitInv == ASSUME Inv, NEW c \in Clients, exit(c) PROVE Inv'
<1>1. user[c] \in Users /\ openfile[c] \in Files \cup {NoFile}
  BY DEF Inv, RestInv, exit
<1>2. EditorInv'
  BY <1>1, ClosedOK, ClearInv DEF Inv, exit
<1>3. up' \in [Users -> Seq(Requests)]
  BY <1>1, AsksType DEF Inv, exit
<1>4. RestInv'
  BY <1>1, <1>3 DEF Inv, RestInv, exit, server, counts, Turns
<1> QED
  BY <1>2, <1>4 DEF Inv

LEMMA EndsInv ==
  ASSUME Inv, NEW c \in Clients, window[c] # "login", NEW n \in 0 .. Len(up[user[c]]), Ends(c, n),
         drops' \in Nat
  PROVE  Inv'
<1>1. user[c] \in Users
  BY DEF Inv, RestInv
<1>2. EditorInv'
  <2>1. CASE window[c] = "editing"
    BY <2>1, ClosedOK, ClearInv DEF Inv, Ends
  <2>2. CASE window[c] # "editing"
    BY <2>2, KeptInv DEF Inv, Ends
  <2> QED
    BY <2>1, <2>2
<1>3. up' \in [Users -> Seq(Requests)]
  <2>1. up[user[c]] \in Seq(Requests) /\ up \in [Users -> Seq(Requests)]
    BY <1>1 DEF Inv, RestInv
  <2>2. SubSeq(up[user[c]], 1, n) \in Seq(Requests)
    <3>1. 1 \in 1 .. Len(up[user[c]]) + 1
      BY <2>1
    <3> QED
      BY <2>1, <3>1, CutType
  <2>3. [type |-> "disconnected", file |-> NoFile] \in Requests
    BY DEF Requests
  <2>4. Append(SubSeq(up[user[c]], 1, n), [type |-> "disconnected", file |-> NoFile]) \in Seq(Requests)
    BY <2>2, <2>3
  <2> QED
    BY <2>1, <2>4 DEF Ends
<1>4. down' \in [Users -> Seq(Listing \cup Notices)]
  BY <1>1 DEF Inv, RestInv, Ends
<1>5. RestInv'
  BY <1>3, <1>4 DEF Inv, RestInv, Ends, server, Turns
<1> QED
  BY <1>2, <1>5 DEF Inv

LEMMA on_logOutInv == ASSUME Inv, NEW c \in Clients, on_logOut(c) PROVE Inv'
<1>1. window[c] # "login" /\ drops' \in Nat /\ Ends(c, Len(up[user[c]]))
  BY DEF Inv, RestInv, on_logOut
<1>2. Len(up[user[c]]) \in 0 .. Len(up[user[c]])
  BY <1>1 DEF Inv, RestInv
<1> QED
  BY <1>1, <1>2, EndsInv

LEMMA ConnectionDropsInv == ASSUME Inv, NEW c \in Clients, ConnectionDrops(c) PROVE Inv'
<1>1. window[c] # "login" /\ drops' \in Nat
  BY DEF Inv, RestInv, ConnectionDrops
<1>2. PICK n \in 0 .. Len(up[user[c]]) : Ends(c, n)
  BY DEF ConnectionDrops
<1> QED
  BY <1>1, <1>2, EndsInv

\* The server leaves the editors alone.
LEMMA RequestedInv ==
  ASSUME Inv, NEW u \in Users, NEW type, Requested(u, type),
         worker' \subseteq Users,
         filename' \in [Users -> Files \cup {NoFile}],
         mapFileWorkers' \in [Files -> Seq(Users)],
         down' \in [Users -> Seq(Listing \cup Notices)]
  PROVE  Inv'
<1>1. EditorInv'
  BY KeptInv DEF Inv, Requested
<1>2. up' \in [Users -> Seq(Requests)]
  BY RequestType DEF Inv, RestInv, Requested
<1>3. RestInv'
  BY <1>2 DEF Inv, RestInv, Requested, counts
<1> QED
  BY <1>1, <1>3 DEF Inv

\* Only a file has others who have it open.
LEMMA OthersOfFile ==
  ASSUME Inv, NEW f \in Files \cup {NoFile}, NEW u
  PROVE  /\ WorkersOf(f) \in Seq(Users)
         /\ f \notin Files => Others(f, u) = {}
BY DEF Inv, RestInv, WorkersOf, Others, ToSet

LEMMA ToldNoOne ==
  ASSUME Inv, NEW m PROVE Tells({}, m) = down
BY DEF Inv, RestInv, Tells

LEMMA NoticesSent ==
  ASSUME Inv, NEW f \in Files \cup {NoFile}, NEW u \in Users, NEW type \in {"connection", "disconnection"}
  PROVE  Tells(Others(f, u), [type |-> type, file |-> f, user |-> u]) \in [Users -> Seq(Listing \cup Notices)]
<1>1. CASE f \in Files
  BY <1>1, NoticeType, TellsType DEF Inv
<1>2. CASE f \notin Files
  <2>1. Tells(Others(f, u), [type |-> type, file |-> f, user |-> u]) = down
    BY <1>2, OthersOfFile, ToldNoOne
  <2> QED
    BY <2>1 DEF Inv, RestInv
<1> QED
  BY <1>1, <1>2

LEMMA sendFileInv == ASSUME Inv, NEW u \in Users, sendFile(u) PROVE Inv'
<1> DEFINE f == Head(up[u]).file
           file == [type |-> "file_to_open", file |-> f, users |-> Without(WorkersOf(f), u)]
           notices == Tells(Others(f, u), [type |-> "connection", file |-> f, user |-> u])
<1>1. f \in Files \cup {NoFile}
  BY RequestType DEF Inv, sendFile, Requested
<1>2. /\ filename' = [filename EXCEPT ![u] = f]
      /\ mapFileWorkers' = [mapFileWorkers EXCEPT ![f] = Append(mapFileWorkers[f], u)]
      /\ down' = [v \in Users |-> IF v = u /\ u \in Connected THEN Append(down[u], file) ELSE notices[v]]
      /\ worker' = worker
      /\ Requested(u, "file_to_open")
  BY DEF sendFile
<1>3. notices \in [Users -> Seq(Listing \cup Notices)]
  BY <1>1, NoticesSent
<1>4. file \in Listing
  <2>1. Without(WorkersOf(f), u) \in Seq(Users)
    BY <1>1, OthersOfFile, WithoutType
  <2> QED
    BY <1>1, <2>1 DEF Listing
<1> HIDE DEF f, file, notices
<1>5. down' \in [Users -> Seq(Listing \cup Notices)]
  <2>1. Append(down[u], file) \in Seq(Listing \cup Notices)
    BY <1>4 DEF Inv, RestInv
  <2> QED
    BY <1>2, <1>3, <2>1
<1>6. mapFileWorkers' \in [Files -> Seq(Users)]
  <2>1. CASE f \in Files
    <3>1. Append(mapFileWorkers[f], u) \in Seq(Users)
      BY <2>1 DEF Inv, RestInv
    <3> QED
      BY <1>2, <2>1, <3>1 DEF Inv, RestInv
  <2>2. CASE f \notin Files
    <3>1. mapFileWorkers \in [Files -> Seq(Users)]
      BY DEF Inv, RestInv
    <3>2. mapFileWorkers' = [g \in Files |-> IF g = f THEN Append(mapFileWorkers[f], u) ELSE mapFileWorkers[g]]
      BY <1>2, <3>1, Zenon
    <3> QED
      BY <2>2, <3>1, <3>2
  <2> QED
    BY <2>1, <2>2
<1>7. filename' \in [Users -> Files \cup {NoFile}]
  BY <1>1, <1>2 DEF Inv, RestInv
<1> QED
  BY <1>2, <1>5, <1>6, <1>7, RequestedInv DEF Inv, RestInv

LEMMA LeavesType ==
  ASSUME Inv, NEW u \in Users, NEW f \in Files \cup {NoFile}, Leaves(u, f)
  PROVE  /\ mapFileWorkers' \in [Files -> Seq(Users)]
         /\ down' \in [Users -> Seq(Listing \cup Notices)]
<1>1. CASE u \in ToSet(WorkersOf(f))
  <2>1. f \in Files
    BY <1>1 DEF WorkersOf, ToSet
  <2>2. Without(mapFileWorkers[f], u) \in Seq(Users)
    BY <2>1, WithoutType DEF Inv, RestInv
  <2>3. mapFileWorkers' = [mapFileWorkers EXCEPT ![f] = Without(mapFileWorkers[f], u)]
    BY <1>1 DEF Leaves
  <2>4. mapFileWorkers' \in [Files -> Seq(Users)]
    BY <2>2, <2>3 DEF Inv, RestInv
  <2>5. down' \in [Users -> Seq(Listing \cup Notices)]
    BY <1>1, NoticesSent DEF Leaves
  <2> QED
    BY <2>4, <2>5
<1>2. CASE u \notin ToSet(WorkersOf(f))
  BY <1>2 DEF Leaves, Inv, RestInv
<1> QED
  BY <1>1, <1>2

LEMMA closeFileInv == ASSUME Inv, NEW u \in Users, closeFile(u) PROVE Inv'
<1>1. Head(up[u]).file \in Files \cup {NoFile}
  BY RequestType DEF Inv, closeFile, Requested
<1>2. Leaves(u, Head(up[u]).file) /\ Requested(u, "close") /\ worker' = worker
  BY DEF closeFile
<1>3. filename' \in [Users -> Files \cup {NoFile}]
  BY DEF Inv, RestInv, closeFile
<1> QED
  BY <1>1, <1>2, <1>3, LeavesType, RequestedInv DEF Inv, RestInv

LEMMA userDisconnectedInv == ASSUME Inv, NEW u \in Users, userDisconnected(u) PROVE Inv'
<1>1. filename[u] \in Files \cup {NoFile} /\ Leaves(u, filename[u]) /\ Requested(u, "disconnected")
  BY DEF Inv, RestInv, userDisconnected
<1>2. worker' \subseteq Users /\ filename' \in [Users -> Files \cup {NoFile}]
  BY DEF Inv, RestInv, userDisconnected
<1> QED
  BY <1>1, <1>2, LeavesType, RequestedInv

LEMMA broadcastCursorInv == ASSUME Inv, NEW u \in Users, broadcastCursor(u) PROVE Inv'
<1>1. /\ Requested(u, "cursor") /\ UNCHANGED server
      /\ down' = Tells(Others(filename[u], u), [type |-> "cursor", user |-> u])
  BY DEF broadcastCursor
<1>2. [type |-> "cursor", user |-> u] \in Notices
  BY DEF Notices
<1>3. down' \in [Users -> Seq(Listing \cup Notices)]
  BY <1>1, <1>2, TellsType DEF Inv
<1> QED
  BY <1>1, <1>3, RequestedInv DEF Inv, RestInv, server

\* A client that takes a message changes nothing but its editor and window.
LEMMA ToldInv ==
  ASSUME Inv, NEW c \in Clients, NEW type, Told(c, type), EditorInv',
         window' \in [Clients -> {"login", "home", "asked", "loading", "editing"}],
         \A d \in Clients : window'[d] # "login" => user[d] \in Users,
         loading' \in [Clients -> Listing], openfile' \in [Clients -> Files \cup {NoFile}]
  PROVE  Inv'
<1>1. down' \in [Users -> Seq(Listing \cup Notices)]
  BY MessageType DEF Inv, RestInv, Told
<1>2. RestInv'
  BY <1>1 DEF Inv, RestInv, Told, server, counts
<1> QED
  BY <1>2 DEF Inv

LEMMA correctOpenedFileInv ==
  ASSUME Inv, NEW c \in Clients, NEW m \in Listing, user[c] \in Users,
         correctOpenedFile(c, m.file, m.users)
  PROVE  /\ EditorInv'
         /\ window' \in [Clients -> {"login", "home", "asked", "loading", "editing"}]
         /\ \A d \in Clients : window'[d] # "login" => user[d] \in Users
         /\ openfile' \in [Clients -> Files \cup {NoFile}]
<1>1. m.file \in Files \cup {NoFile} /\ m.users \in Seq(Users)
  BY DEF Listing
<1>2. EditorInv'
  BY <1>1, AddUsersInv DEF Inv, correctOpenedFile
<1> QED
  BY <1>1, <1>2 DEF Inv, RestInv, correctOpenedFile, Turns

LEMMA file_to_openInv == ASSUME Inv, NEW c \in Clients, file_to_open(c) PROVE Inv'
<1>1. user[c] \in Users /\ Message(c) \in Listing /\ Told(c, "file_to_open")
  <2>1. Message(c).type = "file_to_open" /\ user[c] \in Users /\ Message(c) \in Listing \cup Notices
    BY MessageType DEF Inv, file_to_open, Told, Message
  <2>2. Message(c) \notin Notices
    BY <2>1 DEF Notices
  <2> QED
    BY <2>1, <2>2 DEF file_to_open
<1>2. CASE limits.nested
  <2>1. EditorInv'
    BY <1>2, KeptInv DEF Inv, file_to_open
  <2>2. loading' \in [Clients -> Listing]
    BY <1>1, <1>2 DEF Inv, RestInv, file_to_open
  <2>3. window' = [window EXCEPT ![c] = "loading"] /\ openfile' = openfile
    BY <1>2 DEF file_to_open, Turns
  <2>4. /\ window' \in [Clients -> {"login", "home", "asked", "loading", "editing"}]
        /\ \A d \in Clients : window'[d] # "login" => user[d] \in Users
        /\ openfile' \in [Clients -> Files \cup {NoFile}]
    BY <1>1, <2>3 DEF Inv, RestInv
  <2> QED
    BY <1>1, <2>1, <2>2, <2>4, ToldInv
<1>3. CASE ~limits.nested
  <2>1. correctOpenedFile(c, Message(c).file, Message(c).users) /\ UNCHANGED loading
    BY <1>3 DEF file_to_open
  <2>2. loading' \in [Clients -> Listing]
    BY <2>1 DEF Inv, RestInv
  <2> QED
    BY <1>1, <2>1, <2>2, correctOpenedFileInv, ToldInv
<1> QED
  BY <1>2, <1>3

LEMMA LoadedInv == ASSUME Inv, NEW c \in Clients, Loaded(c) PROVE Inv'
<1>1. user[c] \in Users /\ loading[c] \in Listing
  BY DEF Inv, RestInv, Loaded
<1>2. correctOpenedFile(c, loading[c].file, loading[c].users)
  BY DEF Loaded
<1>3. RestInv'
  BY <1>1, <1>2, correctOpenedFileInv DEF Inv, RestInv, Loaded, server, counts
<1> QED
  BY <1>1, <1>2, <1>3, correctOpenedFileInv DEF Inv

LEMMA NoticeFromHead ==
  ASSUME Inv, NEW c \in Clients, NEW type, Told(c, type),
         type \in {"connection", "disconnection", "cursor"}
  PROVE  Message(c).user \in Users
<1>1. Message(c).type = type /\ Message(c) \in Listing \cup Notices
  BY MessageType DEF Inv, Told, Message
<1>2. Message(c) \in Notices
  BY <1>1 DEF Listing
<1> QED
  BY <1>2 DEF Notices

LEMMA connectionInv == ASSUME Inv, NEW c \in Clients, connection(c) PROVE Inv'
<1>1. Told(c, "connection") /\ UNCHANGED <<window, loading, openfile>>
  BY DEF connection
<1>2. EditorInv'
  <2>1. CASE Message(c).file = openfile[c]
    <3>1. <<Message(c).user>> \in Seq(Users) /\ addUsers(c, <<Message(c).user>>)
      BY <1>1, <2>1, NoticeFromHead DEF connection
    <3> QED
      BY <3>1, AddUsersInv DEF Inv
  <2>2. CASE Message(c).file # openfile[c]
    BY <2>2, KeptInv DEF Inv, connection
  <2> QED
    BY <2>1, <2>2
<1> QED
  BY <1>1, <1>2, ToldInv DEF Inv, RestInv

LEMMA disconnectionInv == ASSUME Inv, NEW c \in Clients, disconnection(c) PROVE Inv'
<1>1. Told(c, "disconnection") /\ UNCHANGED <<window, loading, openfile>>
  BY DEF disconnection
<1>2. EditorInv'
  <2>1. CASE Message(c).file = openfile[c]
    BY <2>1, RemoveUserInv DEF Inv, disconnection
  <2>2. CASE Message(c).file # openfile[c]
    BY <2>2, KeptInv DEF Inv, disconnection
  <2> QED
    BY <2>1, <2>2
<1> QED
  BY <1>1, <1>2, ToldInv DEF Inv, RestInv

LEMMA remoteCursorInv == ASSUME Inv, NEW c \in Clients, remoteCursor(c) PROVE Inv'
<1>1. Told(c, "cursor") /\ UNCHANGED <<window, loading, openfile>> /\ on_remoteCursor(c, Message(c).user)
  BY DEF remoteCursor
<1>2. EditorInv'
  BY <1>1, NoticeFromHead, CursorInv DEF Inv
<1> QED
  BY <1>1, <1>2, ToldInv DEF Inv, RestInv

-----------------------------------------------------------------------------
(***************************************************************************)
(* The theorems.                                                           *)
(***************************************************************************)

LEMMA NextInv == ASSUME Inv, [Next]_vars PROVE Inv'
<1>1. CASE UNCHANGED vars
  BY <1>1, KeptInv DEF Inv, RestInv, vars, server, counts
<1>2. ASSUME NEW c \in Clients, Acts(c) PROVE Inv'
  BY <1>2, loggedInInv, openFileInv, saveCursorPositionInv, exitInv, on_logOutInv, ConnectionDropsInv
  DEF Acts
<1>3. ASSUME NEW c \in Clients, Hears(c) PROVE Inv'
  BY <1>3, file_to_openInv, LoadedInv, connectionInv, disconnectionInv, remoteCursorInv DEF Hears
<1>4. ASSUME NEW u \in Users, Serves(u) PROVE Inv'
  BY <1>4, sendFileInv, closeFileInv, userDisconnectedInv, broadcastCursorInv DEF Serves
<1> QED
  BY <1>1, <1>2, <1>3, <1>4 DEF Next

\* Inv holds in every state.
THEOREM Invariant == Spec => []Inv
BY InitInv, NextInv, PTL DEF Spec

\* Every variable of Presence keeps its type: messages carry files and users,
\* an index lies between -1 and the last one given.
THEOREM TypesKept == Spec => []TypeOK
BY Invariant, InvImplies, PTL

\* The bar of an editor and its highlighter know the same users, whatever
\* comes, goes, is loaded, closed or lost and in whatever order.
THEOREM PeersColouredHolds == Spec => []PeersColoured
BY Invariant, InvImplies, PTL

\* No two users in a bar have the same index, for any number of visits.
THEOREM ColoursDistinctHolds == Spec => []ColoursDistinct
BY Invariant, InvImplies, PTL

\* A cursor shown has the colour of its user in the bar.
THEOREM CursorColoursHolds == Spec => []CursorColours
BY Invariant, InvImplies, PTL

-----------------------------------------------------------------------------
(***************************************************************************)
(* The bar that the notices of a queue lead to.                            *)
(***************************************************************************)

Messages == Listing \cup Notices

\* What one message makes of a bar.
ShownBy(bar, m) == {u \in Users : Shows(m, u) \/ (u \in bar /\ ~Hides(m, u))}

LEMMA ShownNone == ASSUME NEW bar \in SUBSET Users, NEW q PROVE Shown(bar, q, 0) = bar
BY DEF Shown

LEMMA ShownNext ==
  ASSUME NEW bar, NEW q, NEW n \in Nat
  PROVE  Shown(bar, q, n + 1) = ShownBy(Shown(bar, q, n), q[n + 1])
<1> SUFFICES ASSUME NEW u \in Users
             PROVE  u \in Shown(bar, q, n + 1) <=> u \in ShownBy(Shown(bar, q, n), q[n + 1])
  BY DEF Shown, ShownBy
<1> DEFINE m == q[n + 1]
           ShownAt(i, k) == Shows(q[i], u) /\ \A j \in i + 1 .. k : ~Hides(q[j], u)
           Stays(k) == u \in bar /\ \A j \in 1 .. k : ~Hides(q[j], u)
<1>1. \A k : u \in Shown(bar, q, k) <=> (\E i \in 1 .. k : ShownAt(i, k)) \/ Stays(k)
  BY DEF Shown
<1>2. Stays(n + 1) <=> Stays(n) /\ ~Hides(m, u)
  OBVIOUS
<1>3. \A i \in 1 .. n : ShownAt(i, n + 1) <=> ShownAt(i, n) /\ ~Hides(m, u)
  OBVIOUS
<1>4. ShownAt(n + 1, n + 1) <=> Shows(m, u)
  OBVIOUS
<1>5. Shows(m, u) => ~Hides(m, u)
  BY DEF Shows, Hides
<1> HIDE DEF ShownAt, Stays, m
<1>6. (\E i \in 1 .. n + 1 : ShownAt(i, n + 1))
        <=> (\E i \in 1 .. n : ShownAt(i, n + 1)) \/ ShownAt(n + 1, n + 1)
  OBVIOUS
<1>7. u \in ShownBy(Shown(bar, q, n), q[n + 1])
        <=> Shows(m, u) \/ (u \in Shown(bar, q, n) /\ ~Hides(m, u))
  BY DEF ShownBy, m
<1> QED
  BY <1>1, <1>2, <1>3, <1>4, <1>5, <1>6, <1>7

\* Only the first n messages matter.
LEMMA ShownSame ==
  ASSUME NEW bar, NEW q, NEW r, NEW n \in Nat, \A i \in 1 .. n : q[i] = r[i]
  PROVE  Shown(bar, q, n) = Shown(bar, r, n)
<1> SUFFICES ASSUME NEW u \in Users PROVE u \in Shown(bar, q, n) <=> u \in Shown(bar, r, n)
  BY DEF Shown
<1>1. \A i \in 1 .. n : (\A j \in i + 1 .. n : ~Hides(q[j], u)) <=> (\A j \in i + 1 .. n : ~Hides(r[j], u))
  OBVIOUS
<1>2. (\A j \in 1 .. n : ~Hides(q[j], u)) <=> (\A j \in 1 .. n : ~Hides(r[j], u))
  OBVIOUS
<1> QED
  BY <1>1, <1>2 DEF Shown

\* A message that is put at the end.
LEMMA ShownAppend ==
  ASSUME NEW bar, NEW S, NEW q \in Seq(S), NEW m \in S
  PROVE  /\ \A n \in 0 .. Len(q) : Shown(bar, Append(q, m), n) = Shown(bar, q, n)
         /\ Shown(bar, Append(q, m), Len(Append(q, m))) = ShownBy(Shown(bar, q, Len(q)), m)
<1>1. ASSUME NEW n \in 0 .. Len(q) PROVE Shown(bar, Append(q, m), n) = Shown(bar, q, n)
  <2>1. n \in Nat /\ \A i \in 1 .. n : Append(q, m)[i] = q[i]
    OBVIOUS
  <2> QED
    BY <2>1, ShownSame
<1>2. /\ Len(q) \in Nat /\ Len(Append(q, m)) = Len(q) + 1 /\ Append(q, m)[Len(q) + 1] = m
      /\ Len(q) \in 0 .. Len(q)
  OBVIOUS
<1> QED
  BY <1>1, <1>2, ShownNext

\* A message that is taken from the front.
LEMMA ShownTail ==
  ASSUME NEW bar \in SUBSET Users, NEW S, NEW q \in Seq(S), q # <<>>, NEW n \in 0 .. Len(q) - 1
  PROVE  Shown(ShownBy(bar, Head(q)), Tail(q), n) = Shown(bar, q, n + 1)
<1> SUFFICES ASSUME NEW u \in Users
             PROVE  u \in Shown(ShownBy(bar, Head(q)), Tail(q), n) <=> u \in Shown(bar, q, n + 1)
  BY DEF Shown
<1> DEFINE Brought(i) == Shows(q[i], u) /\ \A j \in i + 1 .. n + 1 : ~Hides(q[j], u)
           BroughtT(i) == Shows(Tail(q)[i], u) /\ \A j \in i + 1 .. n : ~Hides(Tail(q)[j], u)
           Later == \A j \in 2 .. n + 1 : ~Hides(q[j], u)
<1>1. Len(q) \in Nat /\ Head(q) = q[1] /\ \A i \in 1 .. n : Tail(q)[i] = q[i + 1]
  OBVIOUS
<1>2. \A i \in 1 .. n : BroughtT(i) <=> Brought(i + 1)
  <2> SUFFICES ASSUME NEW i \in 1 .. n PROVE BroughtT(i) <=> Brought(i + 1)
    OBVIOUS
  <2>1. ASSUME \A j \in i + 1 .. n : ~Hides(Tail(q)[j], u), NEW j \in i + 2 .. n + 1
        PROVE  ~Hides(q[j], u)
    <3>1. j - 1 \in i + 1 .. n /\ j - 1 \in 1 .. n /\ (j - 1) + 1 = j
      OBVIOUS
    <3>2. Tail(q)[j - 1] = q[j]
      BY <1>1, <3>1
    <3> QED
      BY <2>1, <3>1, <3>2
  <2>2. ASSUME \A j \in i + 2 .. n + 1 : ~Hides(q[j], u), NEW j \in i + 1 .. n
        PROVE  ~Hides(Tail(q)[j], u)
    <3>1. j + 1 \in i + 2 .. n + 1 /\ j \in 1 .. n
      OBVIOUS
    <3> QED
      BY <1>1, <2>2, <3>1
  <2>3. i + 1 + 1 = i + 2 /\ Tail(q)[i] = q[i + 1]
    BY <1>1
  <2> QED
    BY <2>1, <2>2, <2>3
<1>3. (\A j \in 1 .. n : ~Hides(Tail(q)[j], u)) <=> Later
  <2>1. ASSUME \A j \in 1 .. n : ~Hides(Tail(q)[j], u), NEW j \in 2 .. n + 1
        PROVE  ~Hides(q[j], u)
    <3>1. j - 1 \in 1 .. n /\ (j - 1) + 1 = j
      OBVIOUS
    <3>2. Tail(q)[j - 1] = q[j]
      BY <1>1, <3>1
    <3> QED
      BY <2>1, <3>1, <3>2
  <2>2. ASSUME Later, NEW j \in 1 .. n
        PROVE  ~Hides(Tail(q)[j], u)
    <3>1. j + 1 \in 2 .. n + 1
      OBVIOUS
    <3> QED
      BY <1>1, <2>2, <3>1
  <2> QED
    BY <2>1, <2>2
<1>4. Brought(1) <=> Shows(q[1], u) /\ Later
  OBVIOUS
<1>5. (\A j \in 1 .. n + 1 : ~Hides(q[j], u)) <=> ~Hides(q[1], u) /\ Later
  OBVIOUS
<1>6. u \in Shown(bar, q, n + 1)
        <=> (\E i \in 1 .. n + 1 : Brought(i)) \/ (u \in bar /\ ~Hides(q[1], u) /\ Later)
  BY <1>5 DEF Shown
<1>7. u \in Shown(ShownBy(bar, Head(q)), Tail(q), n)
        <=> \/ \E i \in 1 .. n : BroughtT(i)
            \/ (Shows(q[1], u) \/ (u \in bar /\ ~Hides(q[1], u))) /\ Later
  BY <1>1, <1>3 DEF Shown, ShownBy
<1> HIDE DEF Brought, BroughtT, Later
<1>8. (\E i \in 1 .. n + 1 : Brought(i)) <=> Brought(1) \/ \E i \in 1 .. n : Brought(i + 1)
  <2>1. ASSUME NEW i \in 1 .. n + 1, Brought(i) PROVE Brought(1) \/ \E k \in 1 .. n : Brought(k + 1)
    <3>1. i = 1 \/ (i - 1 \in 1 .. n /\ (i - 1) + 1 = i)
      OBVIOUS
    <3> QED
      BY <2>1, <3>1
  <2>2. 1 \in 1 .. n + 1 /\ \A k \in 1 .. n : k + 1 \in 1 .. n + 1
    OBVIOUS
  <2> QED
    BY <2>1, <2>2
<1> QED
  BY <1>2, <1>4, <1>6, <1>7, <1>8

\* An editor with the messages on their way to it: w is its window, known and
\* cursors are the users that its highlighter and its cursors are of; it is
\* the editor of u for the file f, whose other users are others.
View(w, q, bar, cursors, known, u, f, others) ==
  /\ known = bar \cup {u} /\ u \notin bar
  /\ cursors \subseteq bar
  /\ w = "asked" => q # <<>> /\ q[1].type = "file_to_open"
  /\ \A i \in 1 .. Len(q) :
       /\ q[i].type = "file_to_open" => i = 1 /\ w = "asked" /\ u \notin ToSet(q[i].users)
       /\ q[i].type # "file_to_open" => q[i].user # u
       /\ q[i].type # "cursor" => q[i].file = f
       /\ q[i].type = "cursor" => q[i].user \in Shown(bar, q, i - 1)
  /\ Shown(bar, q, Len(q)) = others

\* A notice of someone else, and what it makes of the users of the file.
Changes(m, u, f, old, new) ==
  /\ m \in Notices /\ m.user # u
  /\ m.type # "cursor" => m.file = f
  /\ m.type = "cursor" => m.user \in old
  /\ new = ShownBy(old, m)

LEMMA NoticeSeen ==
  ASSUME NEW w, NEW q \in Seq(Messages), NEW bar, NEW cursors, NEW known, NEW u, NEW f, NEW old, NEW new,
         NEW m, View(w, q, bar, cursors, known, u, f, old), Changes(m, u, f, old, new)
  PROVE  View(w, Append(q, m), bar, cursors, known, u, f, new)
<1> DEFINE r == Append(q, m)
<1>1. m \in Messages /\ m.type # "file_to_open"
  BY DEF Changes, Messages, Notices
<1>2. /\ Len(q) \in Nat /\ Len(r) = Len(q) + 1 /\ r # <<>>
      /\ r[Len(q) + 1] = m /\ \A i \in 1 .. Len(q) : r[i] = q[i]
  BY <1>1
<1>3. /\ \A n \in 0 .. Len(q) : Shown(bar, r, n) = Shown(bar, q, n)
      /\ Shown(bar, r, Len(r)) = ShownBy(Shown(bar, q, Len(q)), m)
  BY <1>1, ShownAppend
<1> HIDE DEF r
<1>4. w = "asked" => r # <<>> /\ r[1].type = "file_to_open"
  <2>1. q # <<>> => 1 \in 1 .. Len(q)
    OBVIOUS
  <2> QED
    BY <1>2, <2>1 DEF View
<1>5. ASSUME NEW i \in 1 .. Len(r)
      PROVE  /\ r[i].type = "file_to_open" => i = 1 /\ w = "asked" /\ u \notin ToSet(r[i].users)
             /\ r[i].type # "file_to_open" => r[i].user # u
             /\ r[i].type # "cursor" => r[i].file = f
             /\ r[i].type = "cursor" => r[i].user \in Shown(bar, r, i - 1)
  <2>1. CASE i \in 1 .. Len(q)
    <3>1. i - 1 \in 0 .. Len(q) /\ r[i] = q[i]
      BY <1>2, <2>1
    <3>2. Shown(bar, r, i - 1) = Shown(bar, q, i - 1)
      BY <1>3, <3>1
    <3> QED
      BY <2>1, <3>1, <3>2 DEF View
  <2>2. CASE i = Len(q) + 1
    <3>1. i - 1 = Len(q) /\ i - 1 \in 0 .. Len(q) /\ r[i] = m
      BY <1>2, <2>2
    <3>2. Shown(bar, r, i - 1) = old
      BY <1>3, <3>1 DEF View
    <3> QED
      BY <1>1, <3>1, <3>2 DEF Changes
  <2> QED
    BY <1>2, <2>1, <2>2
<1>6. Shown(bar, r, Len(r)) = new
  BY <1>3 DEF View, Changes
<1>7. View(w, r, bar, cursors, known, u, f, new)
  BY <1>4, <1>5, <1>6 DEF View
<1> QED
  BY <1>7 DEF r

\* The editor handles the first message: its bar is the one that the message
\* leads to, and its cursors are of users there.
LEMMA HeadSeen ==
  ASSUME NEW w, NEW q \in Seq(Messages), NEW bar \in SUBSET Users, NEW cursors, NEW known, NEW u, NEW f,
         NEW others, View(w, q, bar, cursors, known, u, f, others), q # <<>>,
         NEW bar2, NEW cursors2, bar2 = ShownBy(bar, Head(q)), cursors2 \subseteq bar2
  PROVE  View("editing", Tail(q), bar2, cursors2, bar2 \cup {u}, u, f, others)
<1> DEFINE r == Tail(q)
<1>1. /\ r \in Seq(Messages) /\ Len(q) \in Nat \ {0} /\ Len(r) = Len(q) - 1 /\ Head(q) = q[1]
      /\ \A i \in 1 .. Len(r) : r[i] = q[i + 1]
  OBVIOUS
<1>2. \A n \in 0 .. Len(r) : Shown(bar2, r, n) = Shown(bar, q, n + 1)
  BY <1>1, ShownTail
<1> HIDE DEF r
<1>3. u \notin bar2
  <2>1. 1 \in 1 .. Len(q)
    BY <1>1
  <2> QED
    BY <1>1, <2>1 DEF View, ShownBy, Shows, Hides
<1>4. ASSUME NEW i \in 1 .. Len(r)
      PROVE  /\ r[i].type # "file_to_open"
             /\ r[i].user # u
             /\ r[i].type # "cursor" => r[i].file = f
             /\ r[i].type = "cursor" => r[i].user \in Shown(bar2, r, i - 1)
  <2>1. i + 1 \in 1 .. Len(q) /\ i + 1 # 1 /\ r[i] = q[i + 1] /\ i - 1 \in 0 .. Len(r)
        /\ (i + 1) - 1 = (i - 1) + 1
    BY <1>1
  <2>2. Shown(bar2, r, i - 1) = Shown(bar, q, (i + 1) - 1)
    BY <1>2, <2>1
  <2> QED
    BY <2>1, <2>2 DEF View
<1>5. Shown(bar2, r, Len(r)) = others
  <2>1. Len(r) \in 0 .. Len(r) /\ Len(r) + 1 = Len(q)
    BY <1>1
  <2> QED
    BY <1>2, <2>1 DEF View
<1>6. View("editing", r, bar2, cursors2, bar2 \cup {u}, u, f, others)
  BY <1>3, <1>4, <1>5 DEF View
<1> QED
  BY <1>6 DEF r

\* The answer that brings a file.
LEMMA ListingSeen ==
  ASSUME NEW m \in Listing, NEW u, NEW f, m.file = f, u \notin ToSet(m.users), ToSet(m.users) \subseteq Users
  PROVE  View("asked", <<m>>, {}, {}, {u}, u, f, ToSet(m.users))
<1>1. m.type = "file_to_open"
  BY DEF Listing
<1>2. Len(<<m>>) = 1 /\ <<m>>[1] = m /\ <<m>> # <<>>
  OBVIOUS
<1>3. Shown({}, <<m>>, 1) = ToSet(m.users)
  BY <1>1, <1>2 DEF Shown, Shows, Hides
<1> QED
  BY <1>1, <1>2, <1>3 DEF View

-----------------------------------------------------------------------------
(***************************************************************************)
(* The lists of the server.                                                *)
(***************************************************************************)

LEMMA WithoutMembers ==
  ASSUME NEW S, NEW s \in Seq(S), IsInjective(s), NEW u
  PROVE  ToSet(Without(s, u)) = ToSet(s) \ {u} /\ IsInjective(Without(s, u))
<1> DEFINE r == Without(s, u)
<1>1. CASE u \notin ToSet(s)
  BY <1>1 DEF Without
<1>2. CASE u \in ToSet(s)
  <2> DEFINE k == PlaceOf(s, u)
  <2>1. k \in 1 .. Len(s) /\ s[k] = u
    BY <1>2, PlaceOfMember
  <2>2. /\ Len(s) \in Nat /\ Len(r) = Len(s) - 1
        /\ \A i \in 1 .. Len(s) - 1 : r[i] = IF i < k THEN s[i] ELSE s[i + 1]
    <3>1. r = SubSeq(s, 1, k - 1) \o SubSeq(s, k + 1, Len(s))
      BY <1>2 DEF Without
    <3> HIDE DEF k, r
    <3> DEFINE a == SubSeq(s, 1, k - 1)
               b == SubSeq(s, k + 1, Len(s))
    <3>2. a \in Seq(S) /\ Len(a) = k - 1 /\ \A i \in 1 .. k - 1 : a[i] = s[i]
      BY <2>1
    <3>3. b \in Seq(S) /\ Len(b) = Len(s) - k /\ \A i \in 1 .. Len(s) - k : b[i] = s[k + i]
      BY <2>1
    <3>4. r = a \o b
      BY <3>1
    <3> HIDE DEF a, b
    <3>5. /\ Len(r) = Len(a) + Len(b)
          /\ \A i \in 1 .. Len(a) + Len(b) : r[i] = IF i <= Len(a) THEN a[i] ELSE b[i - Len(a)]
      <4>1. a \in Seq(S) /\ b \in Seq(S)
        BY <3>2, <3>3
      <4>2. /\ Len(a \o b) = Len(a) + Len(b)
            /\ \A i \in 1 .. Len(a) + Len(b) : (a \o b)[i] = IF i <= Len(a) THEN a[i] ELSE b[i - Len(a)]
        BY <4>1
      <4> QED
        BY <3>4, <4>2
    <3>6. ASSUME NEW i \in 1 .. Len(s) - 1 PROVE r[i] = IF i < k THEN s[i] ELSE s[i + 1]
      <4>1. CASE i < k
        BY <2>1, <3>2, <3>3, <3>5, <4>1
      <4>2. CASE i >= k
        <5>1. i - (k - 1) \in 1 .. Len(s) - k /\ k + (i - (k - 1)) = i + 1
          BY <2>1, <4>2
        <5> QED
          BY <2>1, <3>2, <3>3, <3>5, <4>2, <5>1
      <4> QED
        BY <2>1, <4>1, <4>2
    <3> QED
      BY <2>1, <3>2, <3>3, <3>5, <3>6
  <2>3. r \in Seq(S)
    BY WithoutType
  <2> HIDE DEF r, k
  <2>4. \A i, j \in 1 .. Len(s) : s[i] = s[j] => i = j
    BY DEF IsInjective
  <2>5. ASSUME NEW i \in 1 .. Len(r), NEW j \in 1 .. Len(r), r[i] = r[j] PROVE i = j
    BY <2>1, <2>2, <2>4, <2>5
  <2>6. IsInjective(r)
    BY <2>3, <2>5 DEF IsInjective
  <2>7. ASSUME NEW v \in ToSet(r) PROVE v \in ToSet(s) /\ v # u
    <3>1. PICK i \in 1 .. Len(r) : r[i] = v
      BY <2>3 DEF ToSet
    <3>2. i \in 1 .. Len(s) /\ i + 1 \in 1 .. Len(s) /\ v = IF i < k THEN s[i] ELSE s[i + 1]
      BY <2>2, <3>1
    <3>3. i < k => s[i] # u
      BY <2>1, <2>4, <3>2
    <3>4. ~(i < k) => s[i + 1] # u
      BY <2>1, <2>4, <3>1, <3>2
    <3>5. s[i] \in ToSet(s) /\ s[i + 1] \in ToSet(s)
      BY <3>2 DEF ToSet
    <3> QED
      BY <3>2, <3>3, <3>4, <3>5
  <2>8. ASSUME NEW v \in ToSet(s), v # u PROVE v \in ToSet(r)
    <3>1. PICK i \in 1 .. Len(s) : s[i] = v
      BY DEF ToSet
    <3>2. i # k
      BY <2>1, <2>8, <3>1
    <3>3. CASE i < k
      <4>1. i \in 1 .. Len(r) /\ r[i] = v
        BY <2>1, <2>2, <3>1, <3>3
      <4> QED
        BY <2>3, <4>1 DEF ToSet
    <3>4. CASE i > k
      <4>1. i - 1 \in 1 .. Len(s) - 1 /\ ~(i - 1 < k) /\ (i - 1) + 1 = i
        BY <2>1, <2>2, <3>4
      <4>2. i - 1 \in 1 .. Len(r) /\ r[i - 1] = v
        BY <2>2, <3>1, <4>1
      <4> QED
        BY <2>3, <4>2 DEF ToSet
    <3> QED
      BY <2>1, <3>2, <3>3, <3>4
  <2>9. ToSet(r) = ToSet(s) \ {u} /\ IsInjective(r)
    BY <2>6, <2>7, <2>8
  <2> QED
    BY <2>9 DEF r
<1> QED
  BY <1>1, <1>2

LEMMA AppendMembers ==
  ASSUME NEW S, NEW s \in Seq(S), NEW u \in S
  PROVE  /\ ToSet(Append(s, u)) = ToSet(s) \cup {u}
         /\ IsInjective(s) /\ u \notin ToSet(s) => IsInjective(Append(s, u))
<1> DEFINE r == Append(s, u)
<1>1. /\ r \in Seq(S) /\ Len(s) \in Nat /\ Len(r) = Len(s) + 1 /\ r[Len(s) + 1] = u
      /\ \A i \in 1 .. Len(s) : r[i] = s[i]
  OBVIOUS
<1> HIDE DEF r
<1>2. ToSet(r) = ToSet(s) \cup {u}
  <2>1. ASSUME NEW v \in ToSet(r) PROVE v \in ToSet(s) \cup {u}
    BY <1>1 DEF ToSet
  <2>2. ASSUME NEW v \in ToSet(s) \cup {u} PROVE v \in ToSet(r)
    BY <1>1 DEF ToSet
  <2> QED
    BY <2>1, <2>2
<1>3. ASSUME IsInjective(s), u \notin ToSet(s) PROVE IsInjective(r)
  <2>1. \A i, j \in 1 .. Len(s) : s[i] = s[j] => i = j
    BY <1>3 DEF IsInjective
  <2>2. \A i \in 1 .. Len(s) : s[i] # u
    BY <1>3 DEF ToSet
  <2> QED
    BY <1>1, <2>1, <2>2 DEF IsInjective
<1>4. ToSet(r) = ToSet(s) \cup {u} /\ (IsInjective(s) /\ u \notin ToSet(s) => IsInjective(r))
  BY <1>2, <1>3
<1> QED
  BY <1>4 DEF r

-----------------------------------------------------------------------------
(***************************************************************************)
(* The requests of a user on their way: a file is asked for first, and     *)
(* nothing but the end of the connection comes after that or after a file  *)
(* is closed.                                                              *)
(***************************************************************************)

Orderly(r, f) ==
  \A i \in 1 .. Len(r) :
    /\ r[i].type = "file_to_open" => i = 1 /\ f = NoFile /\ r[i].file \in Files
    /\ r[i].type = "close" => r[i].file = f
    /\ r[i].type = "disconnected" => i = Len(r)
    /\ r[i].type \in {"file_to_open", "close"} => \A j \in i + 1 .. Len(r) : r[j].type = "disconnected"

LEMMA TailPlaces ==
  ASSUME NEW S, NEW s \in Seq(S), s # <<>>
  PROVE  /\ Len(s) \in Nat \ {0} /\ Len(Tail(s)) = Len(s) - 1 /\ Head(s) = s[1] /\ 1 \in 1 .. Len(s)
         /\ \A i \in 1 .. Len(Tail(s)) : i + 1 \in 1 .. Len(s) /\ Tail(s)[i] = s[i + 1]
         /\ Len(s) = 1 => Tail(s) = <<>>
OBVIOUS

LEMMA OrderlyHead ==
  ASSUME NEW r \in Seq(Requests), r # <<>>, NEW f, Orderly(r, f)
  PROVE  /\ Head(r).type = "disconnected" => Tail(r) = <<>>
         /\ Head(r).type = "file_to_open" => f = NoFile /\ Head(r).file \in Files
         /\ Head(r).type = "close" => Head(r).file = f
<1>1. Head(r) = r[1] /\ 1 \in 1 .. Len(r) /\ (Len(r) = 1 => Tail(r) = <<>>)
  BY TailPlaces
<1> QED
  BY <1>1 DEF Orderly

LEMMA OrderlyTail ==
  ASSUME NEW r \in Seq(Requests), r # <<>>, NEW f, Orderly(r, f),
         NEW g, Head(r).type \in {"file_to_open", "close"} \/ g = f
  PROVE  Orderly(Tail(r), g)
<1> DEFINE t == Tail(r)
<1>1. /\ Len(r) \in Nat \ {0} /\ Len(t) = Len(r) - 1 /\ Head(r) = r[1] /\ 1 \in 1 .. Len(r)
      /\ \A i \in 1 .. Len(t) : t[i] = r[i + 1]
  BY TailPlaces
<1> HIDE DEF t
<1>2. ASSUME NEW i \in 1 .. Len(t)
      PROVE  /\ t[i].type = "file_to_open" => i = 1 /\ g = NoFile /\ t[i].file \in Files
             /\ t[i].type = "close" => t[i].file = g
             /\ t[i].type = "disconnected" => i = Len(t)
             /\ t[i].type \in {"file_to_open", "close"} =>
                  \A j \in i + 1 .. Len(t) : t[j].type = "disconnected"
  <2>1. i + 1 \in 1 .. Len(r) /\ i + 1 \in 2 .. Len(r) /\ t[i] = r[i + 1]
    BY <1>1
  <2>2. Head(r).type \in {"file_to_open", "close"} => t[i].type = "disconnected"
    BY <1>1, <2>1 DEF Orderly
  <2>3. t[i].type # "file_to_open"
    BY <2>1 DEF Orderly
  <2>4. t[i].type = "close" => t[i].file = g
    BY <2>1, <2>2 DEF Orderly
  <2>5. t[i].type = "disconnected" => i = Len(t)
    BY <1>1, <2>1 DEF Orderly
  <2>6. ASSUME t[i].type = "close", NEW j \in i + 1 .. Len(t) PROVE t[j].type = "disconnected"
    <3>1. j + 1 \in (i + 1) + 1 .. Len(r) /\ j \in 1 .. Len(t)
      BY <1>1
    <3> QED
      BY <1>1, <2>1, <2>6, <3>1 DEF Orderly
  <2> QED
    BY <2>3, <2>4, <2>5, <2>6
<1>3. Orderly(t, g)
  BY <1>2 DEF Orderly
<1> QED
  BY <1>3 DEF t

\* A request put after cursors alone.
LEMMA OrderlyAppend ==
  ASSUME NEW r \in Seq(Requests), \A i \in 1 .. Len(r) : r[i].type = "cursor",
         NEW m \in Requests, NEW f,
         m.type = "file_to_open" => r = <<>> /\ f = NoFile /\ m.file \in Files,
         m.type = "close" => m.file = f, m.type # "disconnected"
  PROVE  Orderly(Append(r, m), f)
<1> DEFINE t == Append(r, m)
<1>1. /\ Len(r) \in Nat /\ Len(t) = Len(r) + 1 /\ t[Len(r) + 1] = m
      /\ \A i \in 1 .. Len(r) : t[i] = r[i]
      /\ r = <<>> => Len(r) = 0
  OBVIOUS
<1> HIDE DEF t
<1>2. ASSUME NEW i \in 1 .. Len(t)
      PROVE  /\ t[i].type = "file_to_open" => i = 1 /\ f = NoFile /\ t[i].file \in Files
             /\ t[i].type = "close" => t[i].file = f
             /\ t[i].type = "disconnected" => i = Len(t)
             /\ t[i].type \in {"file_to_open", "close"} =>
                  \A j \in i + 1 .. Len(t) : t[j].type = "disconnected"
  <2>1. CASE i \in 1 .. Len(r)
    BY <1>1, <2>1
  <2>2. CASE i = Len(r) + 1
    BY <1>1, <2>2
  <2> QED
    BY <1>1, <2>1, <2>2
<1>3. Orderly(t, f)
  BY <1>2 DEF Orderly
<1> QED
  BY <1>3 DEF t

\* The end of a connection comes after the requests that reached the server.
LEMMA OrderlyEnds ==
  ASSUME NEW r \in Seq(Requests), NEW f, Orderly(r, f), \A i \in 1 .. Len(r) : r[i].type # "disconnected", NEW n \in 0 .. Len(r),
         NEW m \in Requests, m.type = "disconnected"
  PROVE  Orderly(Append(SubSeq(r, 1, n), m), f)
<1> DEFINE t == Append(SubSeq(r, 1, n), m)
<1>1. SubSeq(r, 1, n) \in Seq(Requests) /\ Len(SubSeq(r, 1, n)) = n
      /\ \A i \in 1 .. n : SubSeq(r, 1, n)[i] = r[i]
  OBVIOUS
<1>2. /\ Len(r) \in Nat /\ n \in Nat /\ Len(t) = n + 1 /\ t[n + 1] = m
      /\ \A i \in 1 .. n : t[i] = r[i] /\ i \in 1 .. Len(r)
  BY <1>1
<1> HIDE DEF t
<1>3. ASSUME NEW i \in 1 .. Len(t)
      PROVE  /\ t[i].type = "file_to_open" => i = 1 /\ f = NoFile /\ t[i].file \in Files
             /\ t[i].type = "close" => t[i].file = f
             /\ t[i].type = "disconnected" => i = Len(t)
             /\ t[i].type \in {"file_to_open", "close"} =>
                  \A j \in i + 1 .. Len(t) : t[j].type = "disconnected"
  <2>1. CASE i \in 1 .. n
    <3>1. t[i] = r[i] /\ i \in 1 .. Len(r)
      BY <1>2, <2>1
    <3>2. ASSUME t[i].type \in {"file_to_open", "close"}, NEW j \in i + 1 .. Len(t)
          PROVE  t[j].type = "disconnected"
      <4>1. CASE j \in 1 .. n
        BY <1>2, <3>1, <3>2, <4>1 DEF Orderly
      <4>2. CASE j = n + 1
        BY <1>2, <4>2
      <4> QED
        BY <1>2, <2>1, <4>1, <4>2
    <3> QED
      BY <3>1, <3>2 DEF Orderly
  <2>2. CASE i = n + 1
    BY <1>2, <2>2
  <2> QED
    BY <1>2, <2>1, <2>2
<1>4. Orderly(t, f)
  BY <1>3 DEF Orderly
<1> QED
  BY <1>4 DEF t

-----------------------------------------------------------------------------
(***************************************************************************)
(* The invariant behind PeersCatchUp.                                      *)
(***************************************************************************)

Alone(c, known) == DOMAIN users[c] = known /\ peers[c] = {} /\ DOMAIN remote_cursors[c] = {}

ViewOf(c, u) ==
  View(window[c], down[u], peers[c], DOMAIN remote_cursors[c], DOMAIN users[c], u, filename[u],
       Others(filename[u], u))

AtLogin(c) == logins[c] = 0 => opens[c] = 0 /\ Alone(c, {})

\* A user who has opened no file yet has sent and been told nothing.
AtHome(c, u) ==
  /\ \A i \in 1 .. Len(up[u]) : up[u][i].type # "file_to_open"
  /\ \A i \in 1 .. Len(down[u]) : down[u][i].type # "file_to_open"
  /\ opens[c] = 0 => up[u] = <<>> /\ down[u] = <<>> /\ filename[u] = NoFile /\ Alone(c, {u})

\* The request for the file is on its way, or its answer.
Waiting(c, u) ==
  \/ /\ filename[u] = NoFile /\ Len(up[u]) = 1 /\ up[u][1].type = "file_to_open"
     /\ down[u] = <<>> /\ Alone(c, {u})
  \/ up[u] = <<>> /\ filename[u] # NoFile /\ ViewOf(c, u)

Editing(c, u) ==
  /\ filename[u] = openfile[c] /\ filename[u] # NoFile
  /\ \A i \in 1 .. Len(up[u]) : up[u][i].type = "cursor"
  /\ ViewOf(c, u)

ClientOK(c, u) ==
  /\ window[c] = "login" <=> u = Nobody
  /\ window[c] # "loading"
  /\ opens[c] <= 1
  /\ window[c] = "login" => AtLogin(c)
  /\ window[c] # "login" => logins[c] = 1
  /\ window[c] = "home" => AtHome(c, u)
  /\ window[c] \in {"asked", "editing"} => opens[c] = 1
  /\ window[c] = "asked" => Waiting(c, u)
  /\ window[c] = "editing" => Editing(c, u)

\* Only the requests of a worker are on their way, and the messages to a user
\* who is connected.
ServerOK(u) ==
  /\ u \notin worker => up[u] = <<>> /\ filename[u] = NoFile /\ u \notin Connected
  /\ u \notin Connected => down[u] = <<>>
  /\ u \in Connected => \A i \in 1 .. Len(up[u]) : up[u][i].type # "disconnected"
  /\ Orderly(up[u], filename[u])

ListsOK ==
  /\ \A f \in Files : IsInjective(mapFileWorkers[f])
  /\ \A f \in Files, u \in Users : u \in ToSet(mapFileWorkers[f]) <=> filename[u] = f

OneEach == \A c, d \in Clients : user[c] = user[d] /\ user[c] # Nobody => c = d

CalmInv ==
  /\ Calm
  /\ OneEach
  /\ \A c \in Clients, u \in Users \cup {Nobody} : user[c] = u => ClientOK(c, u)
  /\ \A u \in Users : ServerOK(u)
  /\ ListsOK

LEMMA CalmImplies == ASSUME Inv, CalmInv PROVE PeersCatchUp
<1> SUFFICES ASSUME NEW c \in Clients
             PROVE  /\ window[c] \in {"asked", "editing"} /\ user[c] \in ToSet(WorkersOf(filename[user[c]]))
                         => PeersAfter(c) = Others(filename[user[c]], user[c])
                    /\ window[c] = "editing" => DOMAIN remote_cursors[c] \subseteq peers[c]
  BY DEF PeersCatchUp
<1> DEFINE u == user[c]
<1>1. u \in Users \cup {Nobody}
  BY DEF Inv, RestInv
<1>2. ClientOK(c, u)
  BY <1>1 DEF CalmInv
<1>3. ASSUME window[c] \in {"asked", "editing"}, filename[u] # NoFile
      PROVE  PeersAfter(c) = Others(filename[u], u) /\ DOMAIN remote_cursors[c] \subseteq peers[c]
  <2>1. ViewOf(c, u)
    BY <1>2, <1>3 DEF ClientOK, Waiting, Editing
  <2> QED
    BY <2>1 DEF ViewOf, View, PeersAfter
<1>4. filename[u] = NoFile => ToSet(WorkersOf(filename[u])) = {}
  BY DEF WorkersOf, ToSet
<1>5. window[c] = "editing" => filename[u] # NoFile
  BY <1>2 DEF ClientOK, Editing
<1> QED
  BY <1>3, <1>4, <1>5

LEMMA InitCalm == ASSUME Init, Calm PROVE CalmInv
<1>1. OneEach
  BY DEF Init, OneEach
<1>2. ASSUME NEW c \in Clients, NEW u \in Users \cup {Nobody}, user[c] = u PROVE ClientOK(c, u)
  BY <1>2, NamesAssumption DEF Init, ClientOK, AtLogin, Alone, NoUsers
<1>3. ASSUME NEW u \in Users PROVE ServerOK(u)
  BY NamesAssumption DEF Init, ServerOK, Orderly, Connected
<1>4. ListsOK
  BY NamesAssumption DEF Init, ListsOK, IsInjective, ToSet
<1> QED
  BY <1>1, <1>2, <1>3, <1>4 DEF CalmInv

\* What the steps of others leave alone.
SameClient(c) ==
  /\ window'[c] = window[c] /\ openfile'[c] = openfile[c]
  /\ logins'[c] = logins[c] /\ opens'[c] = opens[c]
  /\ users'[c] = users[c] /\ peers'[c] = peers[c] /\ remote_cursors'[c] = remote_cursors[c]

LEMMA ClientKept ==
  ASSUME NEW c \in Clients, NEW u, ClientOK(c, u), SameClient(c),
         u # Nobody => /\ up'[u] = up[u] /\ down'[u] = down[u] /\ filename'[u] = filename[u]
                       /\ Others(filename[u], u)' = Others(filename[u], u)
  PROVE  ClientOK(c, u)'
<1>1. ASSUME NEW known PROVE Alone(c, known)' <=> Alone(c, known)
  BY DEF SameClient, Alone
<1>2. CASE window[c] = "login"
  BY <1>1, <1>2 DEF ClientOK, SameClient, AtLogin, Waiting, Editing
<1>3. CASE window[c] # "login"
  <2>1. /\ up'[u] = up[u] /\ down'[u] = down[u] /\ filename'[u] = filename[u]
        /\ Others(filename[u], u)' = Others(filename[u], u)
    BY <1>3 DEF ClientOK
  <2>2. ViewOf(c, u)' <=> ViewOf(c, u)
    BY <2>1 DEF ViewOf, SameClient
  <2>3. AtHome(c, u)' <=> AtHome(c, u)
    BY <1>1, <2>1 DEF AtHome, SameClient
  <2>4. Waiting(c, u)' <=> Waiting(c, u)
    BY <1>1, <2>1, <2>2 DEF Waiting
  <2>5. Editing(c, u)' <=> Editing(c, u)
    BY <2>1, <2>2 DEF Editing, SameClient
  <2> QED
    BY <1>3, <2>3, <2>4, <2>5 DEF ClientOK, SameClient
<1> QED
  BY <1>2, <1>3

\* A client is told something about its file.
LEMMA ClientTold ==
  ASSUME Inv, NEW c \in Clients, NEW u \in Users, ClientOK(c, u), SameClient(c), u \in Connected,
         NEW f \in Files, filename[u] = f, NEW m \in Notices, m.user # u, m.type # "cursor" => m.file = f,
         m.type = "cursor" => m.user \in Others(f, u),
         up'[u] = up[u], filename'[u] = f, down'[u] = Append(down[u], m),
         Others(f, u)' = ShownBy(Others(f, u), m)
  PROVE  ClientOK(c, u)'
<1>1. f # NoFile /\ u # Nobody
  BY NamesAssumption
<1>2. down[u] \in Seq(Messages)
  BY DEF Inv, RestInv, Messages
<1>3. ASSUME ViewOf(c, u) PROVE ViewOf(c, u)'
  <2>1. Changes(m, u, f, Others(f, u), Others(f, u)')
    BY DEF Changes
  <2>2. View(window[c], Append(down[u], m), peers[c], DOMAIN remote_cursors[c], DOMAIN users[c], u, f, Others(f, u)')
    BY <1>2, <1>3, <2>1, NoticeSeen DEF ViewOf
  <2> QED
    BY <2>2 DEF ViewOf, SameClient
<1>4. CASE window[c] = "home"
  <2>1. m.type # "file_to_open" /\ m \in Messages
    BY DEF Notices, Messages
  <2>2. \A i \in 1 .. Len(down'[u]) : down'[u][i] = m \/ (i \in 1 .. Len(down[u]) /\ down'[u][i] = down[u][i])
    BY <1>2, <2>1
  <2>3. AtHome(c, u)'
    BY <1>1, <1>4, <2>1, <2>2 DEF ClientOK, AtHome, SameClient
  <2> QED
    BY <1>1, <1>4, <2>3 DEF ClientOK, SameClient
<1>5. CASE window[c] = "asked"
  <2>1. up[u] = <<>> /\ ViewOf(c, u)
    BY <1>1, <1>5 DEF ClientOK, Waiting
  <2>2. Waiting(c, u)'
    BY <1>1, <1>3, <2>1 DEF Waiting
  <2> QED
    BY <1>1, <1>5, <2>2 DEF ClientOK, SameClient
<1>6. CASE window[c] = "editing"
  <2>1. Editing(c, u)'
    BY <1>1, <1>3, <1>6 DEF ClientOK, Editing, SameClient
  <2> QED
    BY <1>1, <1>6, <2>1 DEF ClientOK, SameClient
<1>7. window[c] \in {"home", "asked", "editing"}
  BY <1>1 DEF ClientOK, Inv, RestInv
<1> QED
  BY <1>4, <1>5, <1>6, <1>7

-----------------------------------------------------------------------------
(***************************************************************************)
(* What users do.                                                          *)
(***************************************************************************)

\* Who is connected has one client.
LEMMA ConnectedClient ==
  ASSUME Inv, NEW u \in Users
  PROVE  u \in Connected <=> \E c \in Clients : user[c] = u
BY NamesAssumption DEF Connected

LEMMA SameConnected == ASSUME user' = user PROVE Connected' = Connected
BY DEF Connected

\* A step of one client, who stays on it.
LEMMA ClientStep ==
  ASSUME Inv, CalmInv, NEW c \in Clients, NEW u \in Users, user[c] = u,
         user' = user, limits' = limits, UNCHANGED server,
         \A d \in Clients \ {c} : SameClient(d),
         \A v \in Users \ {u} : up'[v] = up[v] /\ down'[v] = down[v],
         ClientOK(c, u)', Orderly(up'[u], filename[u]),
         \A i \in 1 .. Len(up'[u]) : up'[u][i].type # "disconnected"
  PROVE  CalmInv'
<1>1. u \in Connected /\ Connected' = Connected
  BY ConnectedClient, SameConnected
<1>3. ASSUME NEW d \in Clients, NEW v \in Users \cup {Nobody}, user'[d] = v PROVE ClientOK(d, v)'
  <2>1. CASE d = c
    BY <1>3, <2>1
  <2>2. CASE d # c
    <3>1. v # Nobody => v # u
      BY <1>3, <2>2 DEF CalmInv, OneEach
    <3>2. ClientOK(d, v)
      BY <1>3 DEF CalmInv
    <3>3. v # Nobody => /\ up'[v] = up[v] /\ down'[v] = down[v] /\ filename'[v] = filename[v]
                        /\ Others(filename[v], v)' = Others(filename[v], v)
      BY <3>1 DEF server, Others, WorkersOf
    <3> QED
      BY <2>2, <3>2, <3>3, ClientKept
  <2> QED
    BY <2>1, <2>2
<1>4. ASSUME NEW v \in Users PROVE ServerOK(v)'
  <2>1. CASE v = u
    <3>1. ServerOK(u)
      BY DEF CalmInv
    <3> QED
      BY <1>1, <2>1, <3>1 DEF ServerOK, server
  <2>2. CASE v # u
    <3>1. ServerOK(v) /\ up'[v] = up[v] /\ down'[v] = down[v] /\ filename' = filename /\ worker' = worker
      BY <2>2 DEF CalmInv, server
    <3> QED
      BY <1>1, <3>1 DEF ServerOK
  <2> QED
    BY <2>1, <2>2
<1>5. ListsOK'
  BY DEF CalmInv, ListsOK, server
<1>6. Calm' /\ OneEach'
  BY DEF CalmInv, Calm, OneEach
<1> QED
  BY <1>3, <1>4, <1>5, <1>6 DEF CalmInv

LEMMA loggedInCalm ==
  ASSUME Inv, CalmInv, NEW c \in Clients, NEW u \in Users, loggedIn(c, u) PROVE CalmInv'
<1>1. u \notin worker /\ window[c] = "login" /\ user' = [user EXCEPT ![c] = u] /\ user \in [Clients -> Users \cup {Nobody}]
      /\ UNCHANGED <<limits, filename, mapFileWorkers, up, down>> /\ worker' = worker \cup {u}
  BY DEF loggedIn, Inv, RestInv
<1>2. u \notin Connected /\ up[u] = <<>> /\ down[u] = <<>> /\ filename[u] = NoFile
  BY <1>1 DEF CalmInv, ServerOK
<1>3. user[c] = Nobody /\ ClientOK(c, Nobody)
  BY <1>1 DEF CalmInv, ClientOK, Inv, RestInv
<1>4. OneEach'
  BY <1>1, <1>2, ConnectedClient DEF CalmInv, OneEach
<1>5. Connected' = Connected \cup {u}
  BY <1>1, <1>3, NamesAssumption DEF Connected
<1>7. ASSUME NEW d \in Clients, NEW v \in Users \cup {Nobody}, user'[d] = v PROVE ClientOK(d, v)'
  <2>1. CASE d = c
    <3>1. v = u /\ u # Nobody
      BY <1>1, <1>7, <2>1, NamesAssumption
    <3>2. logins[c] = 0 /\ logins'[c] = 1 /\ opens'[c] = opens[c] /\ window'[c] = "home"
      BY DEF loggedIn, Turns, CalmInv, Calm, Inv, RestInv
    <3>3. opens[c] = 0 /\ Alone(c, {})
      BY <1>1, <1>3, <3>2 DEF ClientOK, AtLogin
    <3>4. Alone(c, {u})'
      <4>1. users'[c] = addLocal(users[c], u) /\ peers' = peers /\ remote_cursors' = remote_cursors
        BY DEF loggedIn, Inv, EditorInv
      <4>2. DOMAIN users'[c] = DOMAIN users[c] \cup {u}
        BY <4>1 DEF addLocal
      <4> QED
        BY <3>3, <4>1, <4>2 DEF Alone
    <3>5. AtHome(c, u)'
      BY <1>1, <1>2, <3>4 DEF AtHome
    <3> QED
      BY <2>1, <3>1, <3>2, <3>3, <3>5 DEF ClientOK
  <2>2. CASE d # c
    <3>1. user[d] = v /\ SameClient(d)
      BY <1>1, <1>7, <2>2 DEF loggedIn, SameClient, Turns, Inv, RestInv, EditorInv
    <3>2. ClientOK(d, v)
      BY <3>1 DEF CalmInv
    <3>3. Others(filename[v], v)' = Others(filename[v], v)
      BY <1>1 DEF Others, WorkersOf
    <3> QED
      BY <1>1, <3>1, <3>2, <3>3, ClientKept
  <2> QED
    BY <2>1, <2>2
<1>8. ASSUME NEW v \in Users PROVE ServerOK(v)'
  <2>1. ServerOK(v)
    BY DEF CalmInv
  <2>2. v = u => \A i \in 1 .. Len(up[u]) : FALSE
    BY <1>2
  <2> QED
    BY <1>1, <1>2, <1>5, <2>1, <2>2 DEF ServerOK
<1>9. ListsOK' /\ Calm'
  BY <1>1 DEF CalmInv, ListsOK, Calm
<1> QED
  BY <1>4, <1>7, <1>8, <1>9 DEF CalmInv

\* A client that is past the login.
LEMMA ClientIn ==
  ASSUME Inv, CalmInv, NEW c \in Clients, window[c] # "login"
  PROVE  /\ user[c] \in Users /\ user[c] # Nobody /\ user[c] \in Connected
         /\ ClientOK(c, user[c]) /\ ServerOK(user[c])
         /\ up[user[c]] \in Seq(Requests) /\ down[user[c]] \in Seq(Messages)
<1>1. user[c] \in Users
  BY DEF Inv, RestInv
<1>2. user[c] # Nobody /\ user[c] \in Connected
  BY <1>1, NamesAssumption, ConnectedClient
<1> QED
  BY <1>1, <1>2 DEF CalmInv, Inv, RestInv, Messages

LEMMA openFileCalm ==
  ASSUME Inv, CalmInv, NEW c \in Clients, NEW f \in Files, openFile(c, f) PROVE CalmInv'
<1> DEFINE m == [type |-> "file_to_open", file |-> f]
<1>1. window[c] = "home" /\ opens[c] < 1
  BY DEF openFile, CalmInv, Calm
<1>2. PICK u \in Users : /\ user[c] = u /\ u # Nobody /\ u \in Connected
                         /\ ClientOK(c, u) /\ ServerOK(u)
                         /\ up[u] \in Seq(Requests) /\ down[u] \in Seq(Messages)
  BY <1>1, ClientIn
<1>3. opens[c] = 0 /\ up[u] = <<>> /\ down[u] = <<>> /\ filename[u] = NoFile /\ Alone(c, {u})
  BY <1>1, <1>2 DEF ClientOK, AtHome, Inv, RestInv
<1>4. up' = [up EXCEPT ![u] = Append(up[u], m)] /\ window' = [window EXCEPT ![c] = "asked"]
      /\ opens' = [opens EXCEPT ![c] = opens[c] + 1]
      /\ UNCHANGED <<user, openfile, editor, server, down, limits, logins>>
  BY <1>2 DEF openFile, Asks, Turns
<1>5. up'[u] = <<m>> /\ \A v \in Users \ {u} : up'[v] = up[v]
  BY <1>2, <1>3, <1>4 DEF Inv, RestInv
<1>6. window'[c] = "asked" /\ opens'[c] = 1 /\ logins'[c] = logins[c] /\ filename'[u] = NoFile /\ down'[u] = <<>>
  BY <1>3, <1>4 DEF Inv, RestInv, server
<1>7. Alone(c, {u})'
  BY <1>3, <1>4 DEF Alone, editor
<1>8. m \in Requests /\ m.type = "file_to_open" /\ m.file = f /\ Len(<<m>>) = 1 /\ <<m>>[1] = m
  BY DEF Requests
<1> HIDE DEF m
<1>9. \A d \in Clients \ {c} : SameClient(d)
  BY <1>4 DEF SameClient, editor, Inv, RestInv
<1>10. Orderly(<<m>>, NoFile)
  BY <1>8 DEF Orderly
<1>12. Waiting(c, u)'
  BY <1>5, <1>6, <1>7, <1>8 DEF Waiting
<1>13. ClientOK(c, u)'
  BY <1>1, <1>2, <1>6, <1>12 DEF ClientOK
<1>14. \A i \in 1 .. Len(up'[u]) : up'[u][i].type # "disconnected"
  BY <1>5, <1>8
<1>15. Orderly(up'[u], filename[u])
  BY <1>3, <1>5, <1>10
<1>16. user' = user /\ limits' = limits /\ UNCHANGED server /\ down' = down
  BY <1>4
<1> QED
  BY <1>2, <1>5, <1>9, <1>13, <1>14, <1>15, <1>16, ClientStep

LEMMA saveCursorPositionCalm ==
  ASSUME Inv, CalmInv, NEW c \in Clients, saveCursorPosition(c) PROVE CalmInv'
<1> DEFINE m == [type |-> "cursor", file |-> NoFile]
<1>1. window[c] = "editing"
  BY DEF saveCursorPosition
<1>2. PICK u \in Users : /\ user[c] = u /\ u # Nobody /\ u \in Connected
                         /\ ClientOK(c, u) /\ ServerOK(u)
                         /\ up[u] \in Seq(Requests) /\ down[u] \in Seq(Messages)
  BY <1>1, ClientIn
<1>3. Editing(c, u)
  BY <1>1, <1>2 DEF ClientOK
<1>4. up' = [up EXCEPT ![u] = Append(up[u], m)]
      /\ UNCHANGED <<user, window, openfile, editor, server, down, limits, logins, opens>>
  BY <1>2 DEF saveCursorPosition, Asks
<1>5. m \in Requests /\ m.type = "cursor"
  BY DEF Requests
<1> HIDE DEF m
<1>7. up'[u] = Append(up[u], m) /\ \A v \in Users \ {u} : up'[v] = up[v]
  BY <1>2, <1>4 DEF Inv, RestInv
<1>8. \A i \in 1 .. Len(up'[u]) : up'[u][i].type = "cursor"
  <2>1. \A i \in 1 .. Len(up'[u]) : up'[u][i] = m \/ (i \in 1 .. Len(up[u]) /\ up'[u][i] = up[u][i])
    BY <1>2, <1>5, <1>7
  <2> QED
    BY <1>3, <1>5, <2>1 DEF Editing
<1>9. Orderly(up'[u], filename[u])
  BY <1>2, <1>3, <1>5, <1>7, OrderlyAppend DEF Editing
<1>10. \A d \in Clients : SameClient(d)
  BY <1>4 DEF SameClient, editor
<1>11. ViewOf(c, u)'
  BY <1>3, <1>4 DEF Editing, ViewOf, editor, server, Others, WorkersOf
<1>12. ClientOK(c, u)'
  <2>1. Editing(c, u)'
    BY <1>3, <1>4, <1>8, <1>11 DEF Editing, server
  <2> QED
    BY <1>1, <1>2, <1>4, <2>1 DEF ClientOK
<1>13. \A i \in 1 .. Len(up'[u]) : up'[u][i].type # "disconnected"
  BY <1>8
<1>14. user' = user /\ limits' = limits /\ UNCHANGED server /\ down' = down
  BY <1>4
<1> QED
  BY <1>2, <1>7, <1>9, <1>10, <1>12, <1>13, <1>14, ClientStep

LEMMA exitCalm == ASSUME Inv, CalmInv, NEW c \in Clients, exit(c) PROVE CalmInv'
<1> DEFINE m == [type |-> "close", file |-> openfile[c]]
<1>1. window[c] = "editing"
  BY DEF exit
<1>2. PICK u \in Users : /\ user[c] = u /\ u # Nobody /\ u \in Connected
                         /\ ClientOK(c, u) /\ ServerOK(u)
                         /\ up[u] \in Seq(Requests) /\ down[u] \in Seq(Messages)
  BY <1>1, ClientIn
<1>3. Editing(c, u)
  BY <1>1, <1>2 DEF ClientOK
<1>4. up' = [up EXCEPT ![u] = Append(up[u], m)] /\ window' = [window EXCEPT ![c] = "home"]
      /\ UNCHANGED <<user, openfile, server, down, limits, logins, opens>>
      /\ clear(c, addLocal(NoUsers, u))
  BY <1>2 DEF exit, Asks, Turns, counts
<1>5. m \in Requests /\ m.type = "close" /\ m.file = filename[u]
  BY <1>3 DEF Requests, Editing, Inv, RestInv
<1> HIDE DEF m
<1>7. up'[u] = Append(up[u], m) /\ \A v \in Users \ {u} : up'[v] = up[v]
  BY <1>2, <1>4 DEF Inv, RestInv
<1>8. \A i \in 1 .. Len(up'[u]) : up'[u][i].type \in {"cursor", "close"}
  <2>1. \A i \in 1 .. Len(up'[u]) : up'[u][i] = m \/ (i \in 1 .. Len(up[u]) /\ up'[u][i] = up[u][i])
    BY <1>2, <1>5, <1>7
  <2> QED
    BY <1>3, <1>5, <2>1 DEF Editing
<1>9. Orderly(up'[u], filename[u])
  BY <1>2, <1>3, <1>5, <1>7, OrderlyAppend DEF Editing
<1>10. \A d \in Clients \ {c} : SameClient(d)
  BY <1>4 DEF SameClient, clear, Inv, RestInv, EditorInv
<1>11. \A i \in 1 .. Len(down'[u]) : down'[u][i].type # "file_to_open"
  BY <1>1, <1>3, <1>4 DEF Editing, ViewOf, View
<1>12. ClientOK(c, u)'
  <2>1. opens'[c] = 1 /\ logins'[c] = 1 /\ window'[c] = "home"
    BY <1>1, <1>2, <1>4 DEF ClientOK, Inv, RestInv
  <2>2. AtHome(c, u)'
    BY <1>8, <1>11, <2>1 DEF AtHome
  <2> QED
    BY <1>2, <2>1, <2>2 DEF ClientOK
<1>13. \A i \in 1 .. Len(up'[u]) : up'[u][i].type # "disconnected"
  BY <1>8
<1>14. user' = user /\ limits' = limits /\ UNCHANGED server /\ down' = down
  BY <1>4
<1> QED
  BY <1>2, <1>7, <1>9, <1>10, <1>12, <1>13, <1>14, ClientStep

\* The connection ends: no client has the user, who is told nothing more.
LEMMA EndsCalm ==
  ASSUME Inv, CalmInv, NEW c \in Clients, window[c] # "login", NEW n \in 0 .. Len(up[user[c]]), Ends(c, n)
  PROVE  CalmInv'
<1> DEFINE m == [type |-> "disconnected", file |-> NoFile]
<1>1. PICK u \in Users : /\ user[c] = u /\ u # Nobody /\ u \in Connected
                         /\ ClientOK(c, u) /\ ServerOK(u)
                         /\ up[u] \in Seq(Requests) /\ down[u] \in Seq(Messages)
  BY ClientIn
<1>2. /\ up' = [up EXCEPT ![u] = Append(SubSeq(up[u], 1, n), m)]
      /\ down' = [down EXCEPT ![u] = <<>>]
      /\ user' = [user EXCEPT ![c] = Nobody] /\ window' = [window EXCEPT ![c] = "login"]
      /\ UNCHANGED <<openfile, server, limits, logins, opens>>
  BY <1>1 DEF Ends, Turns
<1>3. m \in Requests /\ m.type = "disconnected"
  BY DEF Requests
<1>4. user[c] = u /\ n \in 0 .. Len(up[u])
  BY <1>1
<1> HIDE DEF m
<1>5. /\ up'[u] = Append(SubSeq(up[u], 1, n), m) /\ down'[u] = <<>>
      /\ \A v \in Users \ {u} : up'[v] = up[v] /\ down'[v] = down[v]
  BY <1>1, <1>2 DEF Inv, RestInv
<1>6. \A d \in Clients : user'[d] = IF d = c THEN Nobody ELSE user[d]
  BY <1>2 DEF Inv, RestInv
<1>7. OneEach'
  BY <1>6 DEF CalmInv, OneEach
<1>8. Connected' = Connected \ {u}
  <2>1. \A d \in Clients \ {c} : user[d] # u
    BY <1>1, <1>4 DEF CalmInv, OneEach
  <2> QED
    BY <1>1, <1>4, <1>6, <2>1 DEF Connected
<1>9. ASSUME NEW d \in Clients, NEW v \in Users \cup {Nobody}, user'[d] = v PROVE ClientOK(d, v)'
  <2>1. CASE d = c
    <3>1. v = Nobody /\ window'[c] = "login" /\ opens'[c] = opens[c] /\ logins'[c] = 1 /\ opens[c] <= 1
      BY <1>1, <1>2, <1>6, <1>9, <2>1 DEF ClientOK, Inv, RestInv
    <3> QED
      BY <2>1, <3>1 DEF ClientOK, AtLogin
  <2>2. CASE d # c
    <3>1. user[d] = v /\ v # u
      BY <1>1, <1>4, <1>6, <1>9, <2>2 DEF CalmInv, OneEach
    <3>2. ClientOK(d, v)
      BY <3>1 DEF CalmInv
    <3>3. SameClient(d)
      BY <1>2, <2>2 DEF Ends, SameClient, clear, editor, Inv, RestInv, EditorInv
    <3>4. v # Nobody => /\ up'[v] = up[v] /\ down'[v] = down[v] /\ filename'[v] = filename[v]
                        /\ Others(filename[v], v)' = Others(filename[v], v)
      BY <1>2, <1>5, <3>1 DEF server, Others, WorkersOf
    <3> QED
      BY <3>2, <3>3, <3>4, ClientKept
  <2> QED
    BY <2>1, <2>2
<1>10. ASSUME NEW v \in Users PROVE ServerOK(v)'
  <2>1. ServerOK(v) /\ filename' = filename /\ worker' = worker
    BY <1>2 DEF CalmInv, server
  <2>2. CASE v = u
    <3>1. u \in worker
      BY <1>1 DEF ServerOK
    <3>2. Orderly(up'[u], filename[u])
      BY <1>1, <1>3, <1>4, <1>5, OrderlyEnds DEF ServerOK
    <3> QED
      BY <1>5, <1>8, <2>1, <2>2, <3>1, <3>2 DEF ServerOK
  <2>3. CASE v # u
    BY <1>5, <1>8, <2>1, <2>3 DEF ServerOK
  <2> QED
    BY <2>2, <2>3
<1>11. ListsOK' /\ Calm'
  BY <1>2 DEF CalmInv, ListsOK, Calm, server
<1> QED
  BY <1>7, <1>9, <1>10, <1>11 DEF CalmInv

LEMMA on_logOutCalm == ASSUME Inv, CalmInv, NEW c \in Clients, on_logOut(c) PROVE CalmInv'
<1>1. window[c] # "login" /\ Ends(c, Len(up[user[c]]))
  BY DEF on_logOut
<1>2. Len(up[user[c]]) \in 0 .. Len(up[user[c]])
  BY <1>1 DEF Inv, RestInv
<1> QED
  BY <1>1, <1>2, EndsCalm

LEMMA ConnectionDropsCalm == ASSUME Inv, CalmInv, NEW c \in Clients, ConnectionDrops(c) PROVE CalmInv'
<1>1. window[c] # "login"
  BY DEF ConnectionDrops
<1>2. PICK n \in 0 .. Len(up[user[c]]) : Ends(c, n)
  BY DEF ConnectionDrops
<1> QED
  BY <1>1, <1>2, EndsCalm

-----------------------------------------------------------------------------
(***************************************************************************)
(* A client handles a message.                                             *)
(***************************************************************************)

\* The client c of u takes the first message.
Takes(c, u) ==
  /\ user[c] = u /\ window[c] \in {"home", "asked", "editing"} /\ opens[c] = 1
  /\ window[c] \in {"asked", "editing"} => filename[u] # NoFile /\ ViewOf(c, u)
  /\ down[u] \in Seq(Messages) /\ down[u] # <<>>
  /\ down' = [down EXCEPT ![u] = Tail(down[u])]
  /\ UNCHANGED <<user, server, up, counts>>

LEMMA ToldTakes ==
  ASSUME Inv, CalmInv, NEW c \in Clients, NEW type, Told(c, type)
  PROVE  \E u \in Users : /\ Takes(c, u) /\ Message(c) = Head(down[u]) /\ Message(c).type = type
                          /\ type = "file_to_open" <=> window[c] = "asked"
<1>1. user[c] # Nobody /\ down[user[c]] # <<>> /\ Message(c).type = type
  BY DEF Told, Message
<1>2. window[c] # "login"
  <2>1. user[c] \in Users /\ ClientOK(c, user[c])
    BY <1>1 DEF CalmInv, Inv, RestInv
  <2> QED
    BY <1>1, <2>1 DEF ClientOK
<1>3. PICK u \in Users : /\ user[c] = u /\ u # Nobody /\ ClientOK(c, u) /\ down[u] \in Seq(Messages)
  BY <1>2, ClientIn
<1>4. down[u] # <<>> /\ Head(down[u]) = down[u][1] /\ 1 \in 1 .. Len(down[u])
  BY <1>1, <1>3
<1>5. window[c] \in {"home", "asked", "editing"}
  BY <1>2, <1>3 DEF ClientOK, Inv, RestInv
<1>6. opens[c] = 1
  BY <1>3, <1>4, <1>5 DEF ClientOK, AtHome, Inv, RestInv
<1>7. window[c] \in {"asked", "editing"} => filename[u] # NoFile /\ ViewOf(c, u)
  BY <1>3, <1>4, <1>5 DEF ClientOK, Waiting, Editing
<1>8. Message(c) = Head(down[u])
  BY <1>3 DEF Message
<1>9. type = "file_to_open" <=> window[c] = "asked"
  <2>1. window[c] = "home" => type # "file_to_open"
    BY <1>1, <1>3, <1>4, <1>8 DEF ClientOK, AtHome
  <2>2. window[c] \in {"asked", "editing"} => (type = "file_to_open" <=> window[c] = "asked")
    BY <1>1, <1>4, <1>7, <1>8 DEF ViewOf, View
  <2> QED
    BY <1>5, <2>1, <2>2
<1>10. Takes(c, u)
  BY <1>3, <1>4, <1>5, <1>6, <1>7 DEF Told, Takes
<1> QED
  BY <1>1, <1>8, <1>9, <1>10

\* What the message does to the editor.
LEMMA TakesStep ==
  ASSUME Inv, CalmInv, NEW c \in Clients, NEW u \in Users, Takes(c, u),
         \A d \in Clients \ {c} : SameClient(d),
         window[c] = "home" => window'[c] = "home",
         window[c] # "home" =>
           /\ window'[c] = "editing" /\ openfile'[c] = filename[u]
           /\ peers'[c] = ShownBy(peers[c], Head(down[u]))
           /\ DOMAIN users'[c] = peers'[c] \cup {u}
           /\ DOMAIN remote_cursors'[c] \subseteq peers'[c]
  PROVE  CalmInv'
<1>1. /\ user[c] = u /\ window[c] # "login" /\ opens[c] = 1
      /\ down[u] \in Seq(Messages) /\ down[u] # <<>>
      /\ UNCHANGED <<user, server, up, counts>>
  BY DEF Takes
<1>2. down'[u] = Tail(down[u]) /\ \A v \in Users \ {u} : down'[v] = down[v]
  BY DEF Takes, Inv, RestInv
<1>3. u # Nobody /\ ClientOK(c, u) /\ ServerOK(u) /\ u \in Connected
  BY <1>1, ClientIn
<1>4. opens'[c] = 1 /\ logins'[c] = 1 /\ filename' = filename /\ up' = up
  BY <1>1, <1>3 DEF ClientOK, counts, server
<1>5. ClientOK(c, u)'
  <2>1. CASE window[c] = "home"
    <3>1. \A i \in 1 .. Len(Tail(down[u])) : i + 1 \in 1 .. Len(down[u]) /\ Tail(down[u])[i] = down[u][i + 1]
      BY <1>1
    <3>2. AtHome(c, u)'
      BY <1>2, <1>3, <1>4, <2>1, <3>1 DEF ClientOK, AtHome
    <3> QED
      BY <1>3, <1>4, <2>1, <3>2 DEF ClientOK
  <2>2. CASE window[c] # "home"
    <3>1. window[c] \in {"asked", "editing"} /\ filename[u] # NoFile /\ ViewOf(c, u)
      BY <2>2 DEF Takes
    <3>2. View(window[c], down[u], peers[c], DOMAIN remote_cursors[c], DOMAIN users[c], u, filename[u],
               Others(filename[u], u))
      BY <3>1 DEF ViewOf
    <3>3. peers[c] \in SUBSET Users
      BY DEF Inv, EditorInv
    <3>4. View("editing", Tail(down[u]), peers'[c], DOMAIN remote_cursors'[c], peers'[c] \cup {u}, u, filename[u],
               Others(filename[u], u))
      BY <1>1, <2>2, <3>2, <3>3, HeadSeen
    <3>5. ViewOf(c, u)'
      BY <1>1, <1>2, <2>2, <3>4 DEF ViewOf, server, Others, WorkersOf
    <3>6. \A i \in 1 .. Len(up[u]) : up[u][i].type = "cursor"
      <4>1. up[u] = <<>> => \A i \in 1 .. Len(up[u]) : FALSE
        OBVIOUS
      <4> QED
        BY <1>3, <3>1, <4>1 DEF ClientOK, Waiting, Editing
    <3>7. Editing(c, u)'
      BY <1>4, <2>2, <3>1, <3>5, <3>6 DEF Editing
    <3> QED
      BY <1>3, <1>4, <2>2, <3>7 DEF ClientOK
  <2> QED
    BY <2>1, <2>2
<1>6. Orderly(up'[u], filename[u]) /\ \A i \in 1 .. Len(up'[u]) : up'[u][i].type # "disconnected"
  BY <1>3, <1>4 DEF ServerOK
<1>7. user' = user /\ limits' = limits /\ UNCHANGED server /\ \A v \in Users : up'[v] = up[v]
  BY <1>1 DEF counts
<1> QED
  BY <1>1, <1>2, <1>5, <1>6, <1>7, ClientStep

\* The users of a list come into the bar.
LEMMA AddUsersSeen ==
  ASSUME Inv, NEW c \in Clients, NEW u, NEW list \in Seq(Users), addUsers(c, list), u \notin ToSet(list),
         DOMAIN users[c] = peers[c] \cup {u}, DOMAIN remote_cursors[c] \subseteq peers[c]
  PROVE  /\ peers'[c] = peers[c] \cup ToSet(list)
         /\ DOMAIN users'[c] = peers'[c] \cup {u}
         /\ DOMAIN remote_cursors'[c] \subseteq peers'[c]
<1> DEFINE new == New(users[c], list)
           known == AddedTo(users[c], current[c], list)
<1>1. /\ users'[c] = known /\ peers'[c] = peers[c] \cup new
      /\ remote_cursors'[c] = Recoloured(remote_cursors[c], known, new)
  BY DEF addUsers, Inv, EditorInv
<1>2. DOMAIN known = DOMAIN users[c] \cup new
  BY DEF AddedTo
<1>3. DOMAIN remote_cursors'[c] = DOMAIN remote_cursors[c]
  BY <1>1 DEF Recoloured
<1>4. new = ToSet(list) \ DOMAIN users[c]
  BY DEF New
<1> HIDE DEF new, known
<1> QED
  BY <1>1, <1>2, <1>3, <1>4

LEMMA OneListed == ASSUME NEW u PROVE ToSet(<<u>>) = {u}
<1>1. Len(<<u>>) = 1 /\ <<u>>[1] = u
  OBVIOUS
<1>2. DOMAIN <<u>> = {1}
  OBVIOUS
<1> QED
  BY <1>1, <1>2 DEF ToSet

LEMMA file_to_openCalm == ASSUME Inv, CalmInv, NEW c \in Clients, file_to_open(c) PROVE CalmInv'
<1>1. Told(c, "file_to_open") /\ correctOpenedFile(c, Message(c).file, Message(c).users)
  BY DEF file_to_open, CalmInv, Calm
<1>2. PICK u \in Users : /\ Takes(c, u) /\ Message(c) = Head(down[u]) /\ Message(c).type = "file_to_open"
                        /\ window[c] = "asked"
  BY <1>1, ToldTakes
<1> DEFINE m == Head(down[u])
<1>3. down[u] \in Seq(Messages) /\ down[u] # <<>> /\ m = down[u][1] /\ 1 \in 1 .. Len(down[u])
  BY <1>2 DEF Takes
<1>4. ViewOf(c, u)
  BY <1>2 DEF Takes
<1> HIDE DEF m
<1>5. m.file = filename[u] /\ u \notin ToSet(m.users) /\ DOMAIN users[c] = peers[c] \cup {u}
      /\ DOMAIN remote_cursors[c] \subseteq peers[c]
  BY <1>2, <1>3, <1>4 DEF ViewOf, View, m
<1>6. m \in Messages /\ m.type = "file_to_open"
  BY <1>2, <1>3 DEF m
<1>7. m.users \in Seq(Users) /\ ToSet(m.users) \subseteq Users
  <2>1. m \in Listing
    BY <1>6 DEF Messages, Notices
  <2> QED
    BY <2>1, MembersType DEF Listing
<1>8. addUsers(c, m.users) /\ openfile' = [openfile EXCEPT ![c] = m.file]
      /\ window' = [window EXCEPT ![c] = "editing"]
  BY <1>1, <1>2 DEF correctOpenedFile, Turns, m
<1>9. /\ peers'[c] = peers[c] \cup ToSet(m.users) /\ DOMAIN users'[c] = peers'[c] \cup {u}
      /\ DOMAIN remote_cursors'[c] \subseteq peers'[c]
  BY <1>5, <1>7, <1>8, AddUsersSeen
<1>10. peers[c] \cup ToSet(m.users) = ShownBy(peers[c], m)
  <2>1. peers[c] \subseteq Users
    BY DEF Inv, EditorInv
  <2> QED
    BY <1>6, <1>7, <2>1 DEF ShownBy, Shows, Hides
<1>11. \A d \in Clients \ {c} : SameClient(d)
  BY <1>2, <1>8 DEF SameClient, addUsers, Takes, counts, Inv, RestInv, EditorInv
<1>12. window'[c] = "editing" /\ openfile'[c] = filename[u]
  BY <1>5, <1>8 DEF Inv, RestInv
<1> QED
  BY <1>2, <1>9, <1>10, <1>11, <1>12, TakesStep DEF m

\* A notice is about the file that is edited.
LEMMA NoticeTaken ==
  ASSUME Inv, CalmInv, NEW c \in Clients, NEW type \in {"connection", "disconnection", "cursor"}, Told(c, type),
         UNCHANGED <<window, loading, openfile>>
  PROVE  \E u \in Users :
           /\ Takes(c, u) /\ Message(c) = Head(down[u]) /\ Message(c).type = type
           /\ Message(c).user \in Users
           /\ window'[c] = window[c]
           /\ window[c] # "home" =>
                /\ window[c] = "editing" /\ openfile'[c] = filename[u] /\ Message(c).user # u
                /\ type # "cursor" => Message(c).file = openfile[c]
                /\ type = "cursor" => Message(c).user \in peers[c]
                /\ DOMAIN users[c] = peers[c] \cup {u} /\ DOMAIN remote_cursors[c] \subseteq peers[c]
<1>1. PICK u \in Users : /\ Takes(c, u) /\ Message(c) = Head(down[u]) /\ Message(c).type = type
                        /\ window[c] # "asked"
  BY ToldTakes
<1>2. Message(c).user \in Users
  BY NoticeFromHead
<1>3. ASSUME window[c] # "home"
      PROVE  /\ window[c] = "editing" /\ openfile'[c] = filename[u] /\ Message(c).user # u
             /\ type # "cursor" => Message(c).file = openfile[c]
             /\ type = "cursor" => Message(c).user \in peers[c]
             /\ DOMAIN users[c] = peers[c] \cup {u} /\ DOMAIN remote_cursors[c] \subseteq peers[c]
  <2>1. window[c] = "editing" /\ ViewOf(c, u) /\ user[c] = u
    BY <1>1, <1>3 DEF Takes
  <2>2. openfile[c] = filename[u]
    <3>1. ClientOK(c, u)
      BY <2>1 DEF CalmInv
    <3> QED
      BY <2>1, <3>1 DEF ClientOK, Editing
  <2>3. Message(c) = down[u][1] /\ 1 \in 1 .. Len(down[u])
    BY <1>1 DEF Takes
  <2>4. Shown(peers[c], down[u], 1 - 1) = peers[c]
    BY ShownNone DEF Inv, EditorInv
  <2>5. type # "file_to_open"
    OBVIOUS
  <2> QED
    BY <1>1, <2>1, <2>2, <2>3, <2>4, <2>5 DEF ViewOf, View
<1> QED
  BY <1>1, <1>2, <1>3

LEMMA connectionCalm == ASSUME Inv, CalmInv, NEW c \in Clients, connection(c) PROVE CalmInv'
<1>1. Told(c, "connection") /\ UNCHANGED <<window, loading, openfile>>
  BY DEF connection
<1>2. PICK u \in Users :
        /\ Takes(c, u) /\ Message(c) = Head(down[u]) /\ Message(c).type = "connection"
        /\ Message(c).user \in Users
        /\ window'[c] = window[c]
        /\ window[c] # "home" =>
             /\ window[c] = "editing" /\ openfile'[c] = filename[u] /\ Message(c).user # u
             /\ Message(c).file = openfile[c]
             /\ DOMAIN users[c] = peers[c] \cup {u} /\ DOMAIN remote_cursors[c] \subseteq peers[c]
  BY <1>1, NoticeTaken
<1> DEFINE v == Message(c).user
<1>3. ASSUME window[c] # "home"
      PROVE  /\ window'[c] = "editing" /\ openfile'[c] = filename[u]
             /\ peers'[c] = ShownBy(peers[c], Head(down[u]))
             /\ DOMAIN users'[c] = peers'[c] \cup {u}
             /\ DOMAIN remote_cursors'[c] \subseteq peers'[c]
  <2>1. addUsers(c, <<v>>)
    BY <1>2, <1>3 DEF connection
  <2>2. v \in Users /\ v # u
    BY <1>2, <1>3
  <2> HIDE DEF v
  <2>3. <<v>> \in Seq(Users) /\ ToSet(<<v>>) = {v}
    BY <2>2, OneListed
  <2>4. u \notin ToSet(<<v>>) /\ DOMAIN users[c] = peers[c] \cup {u} /\ DOMAIN remote_cursors[c] \subseteq peers[c]
    BY <1>2, <1>3, <2>2, <2>3
  <2>6. /\ peers'[c] = peers[c] \cup ToSet(<<v>>) /\ DOMAIN users'[c] = peers'[c] \cup {u}
        /\ DOMAIN remote_cursors'[c] \subseteq peers'[c]
    BY <2>1, <2>3, <2>4, AddUsersSeen
  <2>5. peers[c] \cup {v} = ShownBy(peers[c], Message(c))
    <3>1. peers[c] \subseteq Users
      BY DEF Inv, EditorInv
    <3> QED
      BY <1>2, <3>1 DEF ShownBy, Shows, Hides, v
  <2> QED
    BY <1>2, <1>3, <2>3, <2>5, <2>6
<1>4. \A d \in Clients \ {c} : SameClient(d)
  BY <1>1, <1>2 DEF SameClient, connection, addUsers, editor, Takes, counts, Inv, RestInv, EditorInv
<1>5. window[c] = "home" => window'[c] = "home"
  BY <1>2
<1> QED
  BY <1>2, <1>3, <1>4, <1>5, TakesStep

LEMMA DisconnectionShown ==
  ASSUME Inv, NEW c \in Clients, NEW m, m.type = "disconnection"
  PROVE  ShownBy(peers[c], m) = peers[c] \ {m.user}
<1>1. peers[c] \subseteq Users
  BY DEF Inv, EditorInv
<1> QED
  BY <1>1 DEF ShownBy, Shows, Hides

LEMMA disconnectionCalm == ASSUME Inv, CalmInv, NEW c \in Clients, disconnection(c) PROVE CalmInv'
<1>1. Told(c, "disconnection") /\ UNCHANGED <<window, loading, openfile>>
  BY DEF disconnection
<1>2. PICK u \in Users :
        /\ Takes(c, u) /\ Message(c) = Head(down[u]) /\ Message(c).type = "disconnection"
        /\ Message(c).user \in Users
        /\ window'[c] = window[c]
        /\ window[c] # "home" =>
             /\ window[c] = "editing" /\ openfile'[c] = filename[u] /\ Message(c).user # u
             /\ Message(c).file = openfile[c]
             /\ DOMAIN users[c] = peers[c] \cup {u} /\ DOMAIN remote_cursors[c] \subseteq peers[c]
  BY <1>1, NoticeTaken
<1> DEFINE v == Message(c).user
<1>3. ASSUME window[c] # "home"
      PROVE  /\ window'[c] = "editing" /\ openfile'[c] = filename[u]
             /\ peers'[c] = ShownBy(peers[c], Head(down[u]))
             /\ DOMAIN users'[c] = peers'[c] \cup {u}
             /\ DOMAIN remote_cursors'[c] \subseteq peers'[c]
  <2>1. removeUser(c, v)
    BY <1>2, <1>3 DEF disconnection
  <2>2. v \in Users /\ v # u
    BY <1>2, <1>3
  <2> HIDE DEF v
  <2>3. CASE v \in peers[c]
    <3>1. /\ users'[c] = Restrict(users[c], DOMAIN users[c] \ {v}) /\ peers'[c] = peers[c] \ {v}
          /\ remote_cursors'[c] = Restrict(remote_cursors[c], DOMAIN remote_cursors[c] \ {v})
      BY <2>1, <2>3 DEF removeUser, Inv, EditorInv
    <3>2. DOMAIN users'[c] = DOMAIN users[c] \ {v} /\ DOMAIN remote_cursors'[c] = DOMAIN remote_cursors[c] \ {v}
      BY <3>1 DEF Restrict
    <3> QED
      BY <1>2, <1>3, <2>2, <3>1, <3>2, DisconnectionShown DEF v
  <2>4. CASE v \notin peers[c]
    <3>1. users' = users /\ peers' = peers /\ remote_cursors' = remote_cursors
      BY <2>1, <2>4 DEF removeUser
    <3> QED
      BY <1>2, <1>3, <2>4, <3>1, DisconnectionShown DEF v
  <2> QED
    BY <2>3, <2>4
<1>4. \A d \in Clients \ {c} : SameClient(d)
  BY <1>1, <1>2 DEF SameClient, disconnection, removeUser, editor, Takes, counts, Inv, RestInv, EditorInv
<1>5. window[c] = "home" => window'[c] = "home"
  BY <1>2
<1> QED
  BY <1>2, <1>3, <1>4, <1>5, TakesStep

LEMMA remoteCursorCalm == ASSUME Inv, CalmInv, NEW c \in Clients, remoteCursor(c) PROVE CalmInv'
<1>1. Told(c, "cursor") /\ UNCHANGED <<window, loading, openfile>> /\ on_remoteCursor(c, Message(c).user)
  BY DEF remoteCursor
<1>2. PICK u \in Users :
        /\ Takes(c, u) /\ Message(c) = Head(down[u]) /\ Message(c).type = "cursor"
        /\ Message(c).user \in Users
        /\ window'[c] = window[c]
        /\ window[c] # "home" =>
             /\ window[c] = "editing" /\ openfile'[c] = filename[u] /\ Message(c).user # u
             /\ Message(c).user \in peers[c]
             /\ DOMAIN users[c] = peers[c] \cup {u} /\ DOMAIN remote_cursors[c] \subseteq peers[c]
  BY <1>1, NoticeTaken
<1> DEFINE v == Message(c).user
<1>3. ASSUME window[c] # "home"
      PROVE  /\ window'[c] = "editing" /\ openfile'[c] = filename[u]
             /\ peers'[c] = ShownBy(peers[c], Head(down[u]))
             /\ DOMAIN users'[c] = peers'[c] \cup {u}
             /\ DOMAIN remote_cursors'[c] \subseteq peers'[c]
  <2>1. users' = users /\ peers' = peers /\ DOMAIN remote_cursors'[c] \subseteq DOMAIN remote_cursors[c] \cup {v}
    BY <1>1 DEF on_remoteCursor, Inv, EditorInv
  <2>2. peers[c] = ShownBy(peers[c], Message(c))
    <3>1. peers[c] \subseteq Users
      BY DEF Inv, EditorInv
    <3> QED
      BY <1>2, <3>1 DEF ShownBy, Shows, Hides
  <2> QED
    BY <1>2, <1>3, <2>1, <2>2
<1>4. \A d \in Clients \ {c} : SameClient(d)
  BY <1>1, <1>2 DEF SameClient, on_remoteCursor, Takes, counts, Inv, RestInv, EditorInv
<1>5. window[c] = "home" => window'[c] = "home"
  BY <1>2
<1> QED
  BY <1>2, <1>3, <1>4, <1>5, TakesStep

-----------------------------------------------------------------------------
(***************************************************************************)
(* The server handles a request or the end of a worker.                    *)
(***************************************************************************)

\* What the step of the worker of u does to another user v: nothing, or v is
\* told the change m of the users of the file f that v has.
Spared(v) == down'[v] = down[v] /\ Others(filename[v], v)' = Others(filename[v], v)
Reached(v, u, f, m) ==
  /\ v \in Connected /\ f \in Files /\ filename[v] = f
  /\ m \in Notices /\ m.user = u
  /\ m.type # "cursor" => m.file = f
  /\ m.type = "cursor" => u \in Others(f, v)
  /\ down'[v] = Append(down[v], m)
  /\ Others(f, v)' = ShownBy(Others(f, v), m)
Missed(v) == v \notin Connected /\ down'[v] = down[v]

LEMMA ServerStep ==
  ASSUME Inv, CalmInv, NEW u \in Users, NEW type, Requested(u, type), NEW f, NEW m,
         \A v \in Users \ {u} : filename'[v] = filename[v] /\ (v \in worker' <=> v \in worker),
         \A v \in Users \ {u} : Spared(v) \/ Reached(v, u, f, m) \/ Missed(v),
         \A c \in Clients : user[c] = u => ClientOK(c, u)',
         ServerOK(u)', ListsOK'
  PROVE  CalmInv'
<1>1. /\ UNCHANGED <<user, window, openfile, editor, counts>>
      /\ \A v \in Users \ {u} : up'[v] = up[v]
  BY DEF Requested, Inv, RestInv
<1>2. Connected' = Connected
  BY <1>1, SameConnected
<1>3. ASSUME NEW c \in Clients, NEW v \in Users \cup {Nobody}, user'[c] = v PROVE ClientOK(c, v)'
  <2>1. user[c] = v /\ SameClient(c)
    BY <1>1, <1>3 DEF SameClient, editor, counts
  <2>2. ClientOK(c, v)
    BY <2>1 DEF CalmInv
  <2>3. CASE v = u
    BY <2>1, <2>3
  <2>4. CASE v = Nobody
    BY <2>1, <2>2, <2>4, ClientKept
  <2>5. CASE v \in Users \ {u}
    <3>1. v \in Connected
      BY <2>1, <2>5, ConnectedClient
    <3>2. up'[v] = up[v] /\ filename'[v] = filename[v] /\ (Spared(v) \/ Reached(v, u, f, m))
      BY <1>1, <2>5, <3>1 DEF Missed
    <3>3. CASE Spared(v)
      BY <2>1, <2>2, <3>2, <3>3, ClientKept DEF Spared
    <3>4. CASE Reached(v, u, f, m)
      <4>1. /\ f \in Files /\ filename[v] = f /\ m \in Notices /\ m.user # v
            /\ m.type # "cursor" => m.file = f
            /\ m.type = "cursor" => m.user \in Others(f, v)
            /\ down'[v] = Append(down[v], m) /\ Others(f, v)' = ShownBy(Others(f, v), m)
        BY <2>5, <3>4 DEF Reached
      <4> QED
        BY <2>1, <2>2, <2>5, <3>1, <3>2, <4>1, ClientTold
    <3> QED
      BY <3>2, <3>3, <3>4
  <2> QED
    BY <2>3, <2>4, <2>5
<1>4. ASSUME NEW v \in Users PROVE ServerOK(v)'
  <2>1. CASE v # u
    <3>1. ServerOK(v) /\ up'[v] = up[v] /\ filename'[v] = filename[v] /\ (v \in worker' <=> v \in worker)
      BY <1>1, <2>1 DEF CalmInv
    <3>2. v \notin Connected => down'[v] = down[v]
      BY <2>1 DEF Spared, Reached, Missed
    <3> QED
      BY <1>2, <3>1, <3>2 DEF ServerOK
  <2> QED
    BY <2>1
<1>5. Calm' /\ OneEach'
  BY <1>1 DEF CalmInv, Calm, OneEach, counts
<1> QED
  BY <1>3, <1>4, <1>5 DEF CalmInv

\* The request that is served.
LEMMA Served ==
  ASSUME Inv, CalmInv, NEW u \in Users, NEW type, Requested(u, type)
  PROVE  /\ ServerOK(u) /\ u \in worker
         /\ up[u] \in Seq(Requests) /\ up[u] # <<>> /\ Head(up[u]).type = type /\ Head(up[u]) = up[u][1]
         /\ up'[u] = Tail(up[u]) /\ Orderly(up[u], filename[u])
         /\ 1 \in 1 .. Len(up[u])
         /\ \A i \in 1 .. Len(up'[u]) : i + 1 \in 1 .. Len(up[u]) /\ up'[u][i] = up[u][i + 1]
         /\ u \in Connected => \A i \in 1 .. Len(up'[u]) : up'[u][i].type # "disconnected"
         /\ UNCHANGED <<user, window, openfile, editor, counts>>
         /\ Connected' = Connected
<1>1. up[u] # <<>> /\ Head(up[u]).type = type /\ up' = [up EXCEPT ![u] = Tail(up[u])]
      /\ UNCHANGED <<user, window, openfile, editor, counts>>
  BY DEF Requested
<1>2. up[u] \in Seq(Requests) /\ up'[u] = Tail(up[u]) /\ ServerOK(u)
  BY <1>1 DEF CalmInv, Inv, RestInv
<1>3. /\ Head(up[u]) = up[u][1] /\ 1 \in 1 .. Len(up[u])
      /\ \A i \in 1 .. Len(up'[u]) : i + 1 \in 1 .. Len(up[u]) /\ up'[u][i] = up[u][i + 1]
  BY <1>1, <1>2, TailPlaces
<1>4. Connected' = Connected
  BY <1>1, SameConnected
<1> QED
  BY <1>1, <1>2, <1>3, <1>4 DEF ServerOK

\* Who is listed for a file.
LEMMA ListedOthers ==
  ASSUME Inv, CalmInv, NEW f \in Files, NEW v \in Users
  PROVE  /\ f # NoFile /\ WorkersOf(f) = mapFileWorkers[f] /\ mapFileWorkers[f] \in Seq(Users)
         /\ IsInjective(mapFileWorkers[f])
         /\ v \in ToSet(WorkersOf(f)) <=> filename[v] = f
         /\ Others(f, v) = ToSet(mapFileWorkers[f]) \ {v}
         /\ ToSet(mapFileWorkers[f]) \subseteq Users
<1>1. f # NoFile
  BY NamesAssumption
<1>2. mapFileWorkers[f] \in Seq(Users)
  BY DEF Inv, RestInv
<1> QED
  BY <1>1, <1>2, MembersType DEF CalmInv, ListsOK, WorkersOf, Others

LEMMA NoticeReaches ==
  ASSUME Inv, CalmInv, NEW u \in Users, NEW f \in Files, NEW m \in Notices, m.user = u,
         m.type # "cursor" => m.file = f, m.type = "cursor" => filename[u] = f,
         NEW v \in Users \ {u}, filename'[v] = filename[v],
         down'[v] = Tells(Others(f, u), m)[v],
         \A g \in Files \ {f} : mapFileWorkers'[g] = mapFileWorkers[g],
         ToSet(mapFileWorkers'[f]) \ {v} = ShownBy(Others(f, v), m)
  PROVE  Spared(v) \/ Reached(v, u, f, m) \/ Missed(v)
<1>1. /\ f # NoFile
      /\ v \in Others(f, u) <=> filename[v] = f
      /\ m.type = "cursor" => u \in Others(f, v)
  <2>1. v \in Others(f, u) <=> filename[v] = f
    BY ListedOthers
  <2>2. m.type = "cursor" => u \in Others(f, v)
    BY ListedOthers
  <2> QED
    BY <2>1, <2>2, NamesAssumption
<1>2. Others(f, v)' = ShownBy(Others(f, v), m)
  BY <1>1 DEF Others, WorkersOf
<1>3. CASE filename[v] = f /\ v \in Connected
  <2>1. down'[v] = Append(down[v], m)
    BY <1>1, <1>3 DEF Tells
  <2> QED
    BY <1>1, <1>2, <1>3, <2>1 DEF Reached
<1>4. CASE v \notin Connected
  BY <1>4 DEF Tells, Missed
<1>5. CASE filename[v] # f
  <2>1. down'[v] = down[v]
    BY <1>1, <1>5 DEF Tells
  <2>2. filename[v] = NoFile \/ filename[v] \in Files \ {f}
    BY <1>5 DEF Inv, RestInv
  <2>3. Others(filename[v], v)' = Others(filename[v], v)
    BY <2>2 DEF Others, WorkersOf
  <2> QED
    BY <2>1, <2>3 DEF Spared
<1> QED
  BY <1>3, <1>4, <1>5

LEMMA sendFileCalm == ASSUME Inv, CalmInv, NEW u \in Users, sendFile(u) PROVE CalmInv'
<1>1. Requested(u, "file_to_open")
  BY DEF sendFile
<1>2. PICK f \in Files : Head(up[u]).file = f /\ filename[u] = NoFile
  BY <1>1, Served, OrderlyHead
<1> DEFINE file == [type |-> "file_to_open", file |-> f, users |-> Without(WorkersOf(f), u)]
           m == [type |-> "connection", file |-> f, user |-> u]
           list == mapFileWorkers[f]
<1>3. /\ filename' = [filename EXCEPT ![u] = f] /\ worker' = worker
      /\ mapFileWorkers' = [mapFileWorkers EXCEPT ![f] = Append(list, u)]
      /\ down' = [v \in Users |-> IF v = u /\ u \in Connected THEN Append(down[u], file)
                                ELSE Tells(Others(f, u), m)[v]]
  BY <1>2 DEF sendFile
<1>4. /\ list \in Seq(Users) /\ IsInjective(list) /\ f # NoFile /\ u \notin ToSet(list)
      /\ ToSet(list) \subseteq Users /\ Without(WorkersOf(f), u) = list
  BY <1>2, ListedOthers DEF Without
<1>5. m \in Notices /\ m.user = u /\ m.type = "connection" /\ m.file = f
  BY DEF Notices
<1>6. file \in Listing /\ file.file = f /\ file.users = list
  BY <1>4 DEF Listing
<1>7. /\ mapFileWorkers'[f] = Append(list, u) /\ \A g \in Files \ {f} : mapFileWorkers'[g] = mapFileWorkers[g]
      /\ filename'[u] = f /\ \A v \in Users \ {u} : filename'[v] = filename[v]
  BY <1>3 DEF Inv, RestInv
<1>8. /\ down'[u] = IF u \in Connected THEN Append(down[u], file) ELSE down[u]
      /\ \A v \in Users \ {u} : down'[v] = Tells(Others(f, u), m)[v]
  BY <1>3 DEF Tells, Others
<1> HIDE DEF file, m
<1>9. ToSet(mapFileWorkers'[f]) = ToSet(list) \cup {u} /\ IsInjective(mapFileWorkers'[f])
  BY <1>4, <1>7, AppendMembers
<1>10. ListsOK'
  <2>1. ASSUME NEW g \in Files PROVE IsInjective(mapFileWorkers'[g])
    BY <1>7, <1>9 DEF CalmInv, ListsOK
  <2>2. ASSUME NEW g \in Files, NEW v \in Users PROVE v \in ToSet(mapFileWorkers'[g]) <=> filename'[v] = g
    <3>1. v \in ToSet(mapFileWorkers[g]) <=> filename[v] = g
      BY DEF CalmInv, ListsOK
    <3>2. g # NoFile
      BY NamesAssumption
    <3> QED
      BY <1>2, <1>7, <1>9, <3>1, <3>2
  <2> QED
    BY <2>1, <2>2 DEF ListsOK
<1>11. ASSUME NEW v \in Users \ {u} PROVE Spared(v) \/ Reached(v, u, f, m) \/ Missed(v)
  <2>1. ToSet(mapFileWorkers'[f]) \ {v} = ShownBy(Others(f, v), m)
    <3>1. Others(f, v) = ToSet(list) \ {v}
      BY ListedOthers
    <3> QED
      BY <1>4, <1>5, <1>9, <3>1 DEF ShownBy, Shows, Hides
  <2>2. m.type # "cursor"
    BY <1>5
  <2> QED
    BY <1>5, <1>7, <1>8, <2>1, <2>2, NoticeReaches
<1>12. Orderly(up'[u], f)
  BY <1>1, Served, OrderlyTail
<1>13. ServerOK(u)'
  BY <1>1, <1>3, <1>7, <1>8, <1>12, Served DEF ServerOK
<1>14. ASSUME NEW c \in Clients, user[c] = u PROVE ClientOK(c, u)'
  <2>1. ClientOK(c, u)
    BY <1>14 DEF CalmInv
  <2>2. u # Nobody /\ u \in Connected
    BY <1>14, NamesAssumption, ConnectedClient
  <2>3. up[u][1].type = "file_to_open" /\ 1 \in 1 .. Len(up[u]) /\ up[u] # <<>>
    BY <1>1, Served
  <2>4. window[c] = "asked"
    BY <2>1, <2>2, <2>3 DEF ClientOK, AtHome, Editing, Inv, RestInv
  <2>5. Len(up[u]) = 1 /\ down[u] = <<>> /\ Alone(c, {u})
    BY <1>2, <2>1, <2>3, <2>4 DEF ClientOK, Waiting
  <2>6. up'[u] = <<>>
    <3>1. up[u] \in Seq(Requests) /\ up[u] # <<>> /\ up'[u] = Tail(up[u])
      BY <1>1, Served
    <3> QED
      BY <2>5, <3>1, TailPlaces
  <2>7. down'[u] = <<file>>
    BY <1>8, <2>2, <2>5
  <2>8. Others(f, u)' = ToSet(list)
    BY <1>4, <1>9 DEF Others, WorkersOf
  <2>9. View("asked", <<file>>, {}, {}, {u}, u, f, ToSet(list))
    BY <1>4, <1>6, ListingSeen
  <2>10. UNCHANGED <<window, editor, counts>>
    BY <1>1, Served
  <2>11. ViewOf(c, u)'
    BY <1>7, <2>4, <2>5, <2>7, <2>8, <2>9, <2>10 DEF ViewOf, Alone, editor
  <2>12. Waiting(c, u)'
    BY <1>4, <1>7, <2>6, <2>11 DEF Waiting
  <2> QED
    BY <2>1, <2>2, <2>4, <2>10, <2>12 DEF ClientOK, counts
<1> QED
  BY <1>1, <1>3, <1>7, <1>10, <1>11, <1>13, <1>14, ServerStep

\* A worker leaves the list of its file.
LEMMA LeavesReaches ==
  ASSUME Inv, CalmInv, NEW u \in Users, NEW f, filename[u] = f, Leaves(u, f),
         filename' = [filename EXCEPT ![u] = NoFile]
  PROVE  /\ ListsOK'
         /\ down'[u] = down[u]
         /\ filename'[u] = NoFile /\ \A v \in Users \ {u} : filename'[v] = filename[v]
         /\ \A v \in Users \ {u} :
              Spared(v) \/ Reached(v, u, f, [type |-> "disconnection", file |-> f, user |-> u]) \/ Missed(v)
<1>1. f \in Files \cup {NoFile} /\ filename'[u] = NoFile /\ \A v \in Users \ {u} : filename'[v] = filename[v]
  BY DEF Inv, RestInv
<1>2. CASE f = NoFile
  <2>1. mapFileWorkers' = mapFileWorkers /\ down' = down
    BY <1>2 DEF Leaves, WorkersOf, ToSet
  <2>2. filename' = filename
    BY <1>2 DEF Inv, RestInv
  <2>3. \A v \in Users : Spared(v)
    BY <2>1, <2>2 DEF Spared, Others, WorkersOf
  <2> QED
    BY <1>1, <2>1, <2>2, <2>3 DEF CalmInv, ListsOK
<1>3. CASE f \in Files
  <2> DEFINE m == [type |-> "disconnection", file |-> f, user |-> u]
             list == mapFileWorkers[f]
  <2>1. /\ list \in Seq(Users) /\ IsInjective(list) /\ f # NoFile /\ ToSet(list) \subseteq Users
        /\ u \in ToSet(WorkersOf(f))
    BY <1>3, ListedOthers
  <2>2. mapFileWorkers' = [mapFileWorkers EXCEPT ![f] = Without(list, u)] /\ down' = Tells(Others(f, u), m)
    BY <2>1 DEF Leaves
  <2>3. m \in Notices /\ m.user = u /\ m.type = "disconnection" /\ m.file = f
    BY <1>3 DEF Notices
  <2> HIDE DEF m
  <2>4. mapFileWorkers'[f] = Without(list, u) /\ \A g \in Files \ {f} : mapFileWorkers'[g] = mapFileWorkers[g]
    BY <1>3, <2>2 DEF Inv, RestInv
  <2>5. ToSet(mapFileWorkers'[f]) = ToSet(list) \ {u} /\ IsInjective(mapFileWorkers'[f])
    BY <2>1, <2>4, WithoutMembers
  <2>6. down'[u] = down[u]
    BY <2>2 DEF Tells, Others
  <2>7. ASSUME NEW v \in Users \ {u} PROVE Spared(v) \/ Reached(v, u, f, m) \/ Missed(v)
    <3>1. ToSet(mapFileWorkers'[f]) \ {v} = ShownBy(Others(f, v), m)
      <4>1. Others(f, v) = ToSet(list) \ {v}
        BY <1>3, ListedOthers
      <4> QED
        BY <2>1, <2>3, <2>5, <4>1 DEF ShownBy, Shows, Hides
    <3>2. m.type # "cursor" /\ down'[v] = Tells(Others(f, u), m)[v]
      BY <2>2, <2>3
    <3> QED
      BY <1>1, <1>3, <2>3, <2>4, <3>1, <3>2, NoticeReaches
  <2>8. ListsOK'
    <3>1. ASSUME NEW g \in Files PROVE IsInjective(mapFileWorkers'[g])
      BY <2>4, <2>5 DEF CalmInv, ListsOK
    <3>2. ASSUME NEW g \in Files, NEW v \in Users PROVE v \in ToSet(mapFileWorkers'[g]) <=> filename'[v] = g
      <4>1. v \in ToSet(mapFileWorkers[g]) <=> filename[v] = g
        BY DEF CalmInv, ListsOK
      <4>2. g # NoFile
        BY NamesAssumption
      <4> QED
        BY <1>1, <2>4, <2>5, <4>1, <4>2
    <3> QED
      BY <3>1, <3>2 DEF ListsOK
  <2> QED
    BY <1>1, <2>6, <2>7, <2>8 DEF m
<1> QED
  BY <1>1, <1>2, <1>3

LEMMA closeFileCalm == ASSUME Inv, CalmInv, NEW u \in Users, closeFile(u) PROVE CalmInv'
<1>1. Requested(u, "close") /\ worker' = worker
  BY DEF closeFile
<1>2. PICK f : Head(up[u]).file = f /\ filename[u] = f
  BY <1>1, Served, OrderlyHead
<1>3. Leaves(u, f)
  BY <1>2 DEF closeFile
<1>4. filename' = [filename EXCEPT ![u] = NoFile]
  <2>1. f \in Files => u \in ToSet(WorkersOf(f))
    BY <1>2, ListedOthers
  <2>2. f \in Files \cup {NoFile} /\ filename \in [Users -> Files \cup {NoFile}]
    BY <1>2 DEF Inv, RestInv
  <2>3. CASE f = NoFile
    <3>1. filename' = filename
      BY <1>2, <2>3 DEF closeFile, WorkersOf, ToSet
    <3> QED
      BY <1>2, <2>2, <2>3, <3>1
  <2>4. CASE f \in Files
    BY <1>2, <2>1, <2>4 DEF closeFile
  <2> QED
    BY <2>2, <2>3, <2>4
<1> DEFINE m == [type |-> "disconnection", file |-> f, user |-> u]
<1>5. /\ ListsOK' /\ down'[u] = down[u]
      /\ filename'[u] = NoFile /\ \A v \in Users \ {u} : filename'[v] = filename[v]
      /\ \A v \in Users \ {u} : Spared(v) \/ Reached(v, u, f, m) \/ Missed(v)
  BY <1>2, <1>3, <1>4, LeavesReaches
<1> HIDE DEF m
<1>6. Orderly(up'[u], NoFile)
  BY <1>1, <1>2, Served, OrderlyTail
<1>7. ServerOK(u)'
  BY <1>1, <1>5, <1>6, Served DEF ServerOK
<1>8. ASSUME NEW c \in Clients, user[c] = u PROVE ClientOK(c, u)'
  <2>1. ClientOK(c, u) /\ u # Nobody
    BY <1>8, NamesAssumption DEF CalmInv
  <2>2. /\ up[u][1].type = "close" /\ 1 \in 1 .. Len(up[u]) /\ up[u] # <<>>
        /\ \A i \in 1 .. Len(up'[u]) : i + 1 \in 1 .. Len(up[u]) /\ up'[u][i] = up[u][i + 1]
        /\ UNCHANGED <<window, counts>>
    BY <1>1, Served
  <2>3. window[c] = "home" /\ opens[c] # 0
    BY <2>1, <2>2 DEF ClientOK, AtHome, Waiting, Editing, Inv, RestInv
  <2>4. AtHome(c, u)'
    BY <1>5, <2>1, <2>2, <2>3 DEF ClientOK, AtHome, counts
  <2> QED
    BY <2>1, <2>2, <2>3, <2>4 DEF ClientOK, counts
<1> QED
  BY <1>1, <1>5, <1>7, <1>8, ServerStep

LEMMA userDisconnectedCalm == ASSUME Inv, CalmInv, NEW u \in Users, userDisconnected(u) PROVE CalmInv'
<1>1. /\ Requested(u, "disconnected") /\ worker' = worker \ {u} /\ Leaves(u, filename[u])
      /\ filename' = [filename EXCEPT ![u] = NoFile]
  BY DEF userDisconnected
<1>2. up'[u] = <<>>
  BY <1>1, Served, OrderlyHead
<1>3. u \notin Connected
  BY <1>1, Served DEF ServerOK
<1> DEFINE m == [type |-> "disconnection", file |-> filename[u], user |-> u]
<1>4. /\ ListsOK' /\ down'[u] = down[u]
      /\ filename'[u] = NoFile /\ \A v \in Users \ {u} : filename'[v] = filename[v]
      /\ \A v \in Users \ {u} : Spared(v) \/ Reached(v, u, filename[u], m) \/ Missed(v)
  BY <1>1, LeavesReaches
<1> HIDE DEF m
<1>5. ServerOK(u)'
  <2>1. down[u] = <<>> /\ Connected' = Connected
    BY <1>1, <1>3, Served DEF ServerOK
  <2>2. \A i \in 1 .. Len(up'[u]) : FALSE
    BY <1>2
  <2> QED
    BY <1>1, <1>2, <1>3, <1>4, <2>1, <2>2 DEF ServerOK, Orderly
<1>6. \A c \in Clients : user[c] # u
  BY <1>3, ConnectedClient
<1>7. \A v \in Users \ {u} : v \in worker' <=> v \in worker
  BY <1>1
<1> QED
  BY <1>1, <1>4, <1>5, <1>6, <1>7, ServerStep

LEMMA broadcastCursorCalm == ASSUME Inv, CalmInv, NEW u \in Users, broadcastCursor(u) PROVE CalmInv'
<1>1. Requested(u, "cursor") /\ UNCHANGED server
  BY DEF broadcastCursor
<1>2. PICK f \in Files \cup {NoFile} : filename[u] = f
  BY DEF Inv, RestInv
<1> DEFINE m == [type |-> "cursor", user |-> u]
<1>3. down' = Tells(Others(f, u), m) /\ m \in Notices /\ m.user = u /\ m.type = "cursor"
  BY <1>2 DEF broadcastCursor, Notices
<1> HIDE DEF m
<1>4. down'[u] = down[u]
  BY <1>3 DEF Tells, Others
<1>5. ASSUME NEW v \in Users \ {u} PROVE Spared(v) \/ Reached(v, u, f, m) \/ Missed(v)
  <2>1. CASE f = NoFile
    <3>1. down'[v] = down[v]
      BY <1>3, <2>1 DEF Tells, Others, WorkersOf, ToSet
    <3> QED
      BY <1>1, <3>1 DEF Spared, server, Others, WorkersOf
  <2>2. CASE f \in Files
    <3>1. /\ Others(f, v) = ToSet(mapFileWorkers[f]) \ {v} /\ ToSet(mapFileWorkers[f]) \subseteq Users
          /\ mapFileWorkers' = mapFileWorkers /\ filename' = filename
      BY <1>1, <2>2, ListedOthers DEF server
    <3>2. ToSet(mapFileWorkers'[f]) \ {v} = ShownBy(Others(f, v), m)
      BY <1>3, <3>1 DEF ShownBy, Shows, Hides
    <3>3. down'[v] = Tells(Others(f, u), m)[v]
      BY <1>3
    <3> QED
      BY <1>2, <1>3, <2>2, <3>1, <3>2, <3>3, NoticeReaches
  <2> QED
    BY <2>1, <2>2
<1>6. filename' = filename /\ worker' = worker /\ ListsOK'
  BY <1>1 DEF server, CalmInv, ListsOK
<1>7. ServerOK(u)'
  <2>1. Orderly(up'[u], filename[u])
    BY <1>1, Served, OrderlyTail
  <2> QED
    BY <1>1, <1>4, <1>6, <2>1, Served DEF ServerOK
<1>8. ASSUME NEW c \in Clients, user[c] = u PROVE ClientOK(c, u)'
  <2>1. ClientOK(c, u) /\ u # Nobody
    BY <1>8, NamesAssumption DEF CalmInv
  <2>2. /\ up[u][1].type = "cursor" /\ 1 \in 1 .. Len(up[u]) /\ up[u] # <<>>
        /\ \A i \in 1 .. Len(up'[u]) : i + 1 \in 1 .. Len(up[u]) /\ up'[u][i] = up[u][i + 1]
        /\ UNCHANGED <<window, openfile, editor, counts>>
    BY <1>1, Served
  <2>3. CASE window[c] = "home"
    <3>1. AtHome(c, u)'
      BY <1>4, <2>1, <2>2, <2>3 DEF ClientOK, AtHome, counts
    <3> QED
      BY <2>1, <2>2, <2>3, <3>1 DEF ClientOK, counts
  <2>4. CASE window[c] = "editing"
    <3>1. Editing(c, u)
      BY <2>1, <2>4 DEF ClientOK
    <3>2. ViewOf(c, u)'
      BY <1>1, <1>4, <2>2, <3>1 DEF Editing, ViewOf, server, editor, Others, WorkersOf
    <3>3. Editing(c, u)'
      BY <1>6, <2>2, <3>1, <3>2 DEF Editing
    <3> QED
      BY <2>1, <2>2, <2>4, <3>3 DEF ClientOK, counts
  <2>5. window[c] \in {"home", "editing"}
    BY <2>1, <2>2 DEF ClientOK, Waiting, Inv, RestInv
  <2> QED
    BY <2>3, <2>4, <2>5
<1> QED
  BY <1>1, <1>5, <1>6, <1>7, <1>8, ServerStep

LEMMA NextCalm == ASSUME Inv, CalmInv, [Next]_vars PROVE CalmInv'
<1>1. CASE UNCHANGED vars
  <2>1. Connected' = Connected
    BY <1>1, SameConnected DEF vars
  <2>2. ASSUME NEW c \in Clients, NEW u \in Users \cup {Nobody}, user'[c] = u PROVE ClientOK(c, u)'
    <3>1. ClientOK(c, u) /\ SameClient(c)
      BY <1>1, <2>2 DEF CalmInv, SameClient, vars, editor, counts
    <3>2. Others(filename[u], u)' = Others(filename[u], u)
      BY <1>1 DEF vars, server, Others, WorkersOf
    <3> QED
      BY <1>1, <3>1, <3>2, ClientKept DEF vars, server
  <2>3. ASSUME NEW u \in Users PROVE ServerOK(u)'
    BY <1>1, <2>1 DEF CalmInv, ServerOK, vars, server
  <2> QED
    BY <1>1, <2>2, <2>3 DEF CalmInv, Calm, OneEach, ListsOK, vars, counts, server
<1>2. ASSUME NEW c \in Clients, Acts(c) PROVE CalmInv'
  BY <1>2, loggedInCalm, openFileCalm, saveCursorPositionCalm, exitCalm, on_logOutCalm, ConnectionDropsCalm
  DEF Acts
<1>3. ASSUME NEW c \in Clients, Hears(c) PROVE CalmInv'
  <2>1. ~Loaded(c)
    <3>1. user[c] \in Users \cup {Nobody}
      BY DEF Inv, RestInv
    <3>2. ClientOK(c, user[c])
      BY <3>1 DEF CalmInv
    <3> QED
      BY <3>2 DEF ClientOK, Loaded
  <2> QED
    BY <1>3, <2>1, file_to_openCalm, connectionCalm, disconnectionCalm, remoteCursorCalm DEF Hears
<1>4. ASSUME NEW u \in Users, Serves(u) PROVE CalmInv'
  BY <1>4, sendFileCalm, closeFileCalm, userDisconnectedCalm, broadcastCursorCalm DEF Serves
<1> QED
  BY <1>1, <1>2, <1>3, <1>4 DEF Next

\* A step keeps the bounds of the behaviour, and with them Calm.
LEMMA NextLimits == ASSUME [Next]_vars PROVE limits' = limits
<1>1. \A c \in Clients : Acts(c) => limits' = limits
  BY DEF Acts, loggedIn, openFile, saveCursorPosition, exit, on_logOut, ConnectionDrops, Ends, counts
<1>2. \A c \in Clients : Hears(c) => limits' = limits
  BY DEF Hears, file_to_open, Loaded, connection, disconnection, remoteCursor, Told, counts
<1>3. \A u \in Users : Serves(u) => limits' = limits
  BY DEF Serves, sendFile, closeFile, userDisconnected, broadcastCursor, Requested, counts
<1> QED
  BY <1>1, <1>2, <1>3 DEF Next, vars, counts

\* Where each client opens one file at most, in one login, and loads it in one
\* step, an editor shows, once the notices on their way are handled, exactly
\* the others whom the server lists for the file, and the cursors of no one else.
THEOREM PeersCatchUpHolds == Spec => []PeersCatchUp
<1> DEFINE CInv == Calm => CalmInv
<1>1. Init => CInv
  BY InitCalm
<1>2. Inv /\ CInv /\ [Next]_vars => CInv'
  <2> SUFFICES ASSUME Inv, CInv, [Next]_vars, Calm' PROVE CalmInv'
    OBVIOUS
  <2>1. Calm
    BY NextLimits DEF Calm
  <2> QED
    BY <2>1, NextCalm
<1>3. Inv /\ CInv => PeersCatchUp
  BY CalmImplies DEF PeersCatchUp
<1> QED
  BY <1>1, <1>2, <1>3, Invariant, PTL DEF Spec

===============================================================================
