---------------------------- MODULE FileStoreProofs ----------------------------
(*****************************************************************************)
(* Proofs about the files of the server and the lists of those who have      *)
(* one open, for any users, files and bounds, with connections that drop     *)
(* and a server that crashes, as long as users wait for an answer before     *)
(* they ask again. For the lists every file that is sent has symbols: the    *)
(* client ignores one without, but the server has it in the list, and from   *)
(* there on the two disagree.                                                *)
(*****************************************************************************)
EXTENDS FileStore, TLAPS

-----------------------------------------------------------------------------
(***************************************************************************)
(* The invariant.                                                          *)
(***************************************************************************)

Names == Files \cup {NoName}
RequestSet ==
  [type : {"new_file", "file_to_open", "operation", "close", "disconnected"}, file : Names]
AnswerSet ==
  [type : {"new_file"}, success : BOOLEAN]
  \cup [type : {"file_to_open"}, success : BOOLEAN, symbols : Nat, file : Files]
Leavings == [doing : {"closed", "disconnected"}, user : Users, left : BOOLEAN, forget : Names]
Rests == {Idle} \cup Leavings
Creations == [doing : {"create"}, user : Users, file : Files]
Saves == [doing : {"save"}, todo : SUBSET Files, half : Names, then : Rests]

MemoryTypes ==
  /\ Held \subseteq Files /\ \A f \in Held : symbols_list[f] \in Nat
  /\ DOMAIN changed = Held /\ \A f \in Held : changed[f] \in BOOLEAN
  /\ DOMAIN mapFileWorkers \subseteq Files
  /\ \A f \in DOMAIN mapFileWorkers : mapFileWorkers[f] \in Seq(Users \cup {Deleted})

Types ==
  /\ files \subseteq Files /\ shared \subseteq Files /\ alive \subseteq Users
  /\ bucket \in [Files -> Nat \cup {NoFile}]
  /\ MemoryTypes
  /\ filename \in [Users -> Names] /\ openfile \in [Users -> Names]
  /\ view \in [Users -> {"home", "editing", "login"}]
  /\ requests \in [Users -> Seq(RequestSet)]
  /\ answers \in [Users -> Seq(AnswerSet)]
  /\ serving \in Rests \cup Creations \cup Saves
  /\ typed \in 0 .. MaxEdits /\ drops \in 0 .. MaxDrops /\ crashes \in 0 .. MaxCrashes

\* What the server does when it is done with saving.
Rest == IF serving.doing = "save" THEN serving.then ELSE serving
Leaving(u) == Rest.doing \in {"closed", "disconnected"} /\ Rest.user = u
Creating(u) == serving.doing = "create" /\ serving.user = u
Stored(f) == bucket[f] # NoFile \/ Half(f)

\* A file that user u may send operations for.
Open(u) ==
  /\ filename[u] \in DOMAIN mapFileWorkers
  /\ u \in ToSet(mapFileWorkers[filename[u]])
  /\ Stored(filename[u])

\* What memory and database have to do with each other.
StoreInv ==
  /\ \A f \in Files : bucket[f] # NoFile => f \in files
  /\ \A f \in Held : symbols_list[f] # 0 => Stored(f)
  /\ UnchangedIsStored
  /\ serving.doing = "create" => bucket[serving.file] = NoFile /\ serving.file \in files
  /\ serving.doing = "save" =>
       /\ serving.todo \subseteq Held
       /\ \A f \in Held \ serving.todo : ~changed[f]
       /\ serving.half # NoName => serving.half \in serving.todo \cap files
  /\ serving.doing \in {"closed", "disconnected"} /\ serving.forget \in Held => ~changed[serving.forget]
  /\ IF Rest.doing \in {"closed", "disconnected"}
     THEN Held \ {Rest.forget} = DOMAIN mapFileWorkers
     ELSE Held = DOMAIN mapFileWorkers

\* The requests of user u on their way.
RequestsInv(u) ==
  \A i \in DOMAIN requests[u] :
    LET m == requests[u][i]
    IN  /\ m.type \in {"new_file", "file_to_open"} =>
             /\ i = 1 /\ m.file \in Files
             /\ answers[u] = <<>> /\ ~Creating(u)
             /\ m.type = "new_file" /\ view[u] = "home" => openfile[u] = m.file
        /\ m.type \in {"operation", "close"} =>
             m.file = filename[u] /\ Open(u) /\ ~Leaving(u) /\ ~Creating(u)
        /\ m.type # "operation" =>
             /\ view[u] # "editing"
             /\ \A j \in DOMAIN requests[u] : j > i => requests[u][j].type = "disconnected"
        /\ m.type = "disconnected" => i = Len(requests[u]) /\ view[u] = "login"

\* The client of user u.
ClientInv(u) ==
  /\ u \notin alive => view[u] = "login" /\ requests[u] = <<>>
  /\ view[u] = "login" => answers[u] = <<>>
  /\ view[u] = "editing" =>
       openfile[u] = filename[u] /\ Open(u) /\ answers[u] = <<>> /\ ~Creating(u) /\ ~Leaving(u)
  /\ answers[u] # <<>> =>
       LET m == Head(answers[u])
       IN  /\ Len(answers[u]) = 1 /\ requests[u] = <<>> /\ ~Creating(u) /\ ~Leaving(u)
           /\ m.success /\ m.type = "new_file" => openfile[u] = filename[u] /\ Open(u)
           /\ m.success /\ m.type = "file_to_open" /\ m.symbols # 0 => m.file = filename[u] /\ Open(u)
  /\ Creating(u) => /\ filename[u] = serving.file
                    /\ view[u] = "home" => openfile[u] = serving.file
  /\ Rest.doing = "disconnected" /\ Rest.user = u => requests[u] = <<>> /\ view[u] = "login"

Inv == Types /\ StoreInv /\ \A u \in Users : RequestsInv(u) /\ ClientInv(u)

UsersInv == \A u \in Users : RequestsInv(u) /\ ClientInv(u)

LEMMA TailType == ASSUME NEW S, NEW s \in Seq(S), s # <<>>
                  PROVE  /\ Tail(s) \in Seq(S) /\ Head(s) \in S /\ Head(s) = s[1]
                         /\ Len(Tail(s)) = Len(s) - 1
                         /\ \A i \in DOMAIN Tail(s) : i + 1 \in DOMAIN s /\ Tail(s)[i] = s[i + 1]
OBVIOUS

LEMMA EmptyType == ASSUME NEW S, NEW s \in Seq(S), Len(s) = 0 PROVE s = <<>>
OBVIOUS

LEMMA CutType ==
  ASSUME NEW S, NEW s \in Seq(S), NEW m \in 1 .. Len(s) + 1, NEW n \in 0 .. Len(s)
  PROVE  SubSeq(s, m, n) \in Seq(S)
OBVIOUS

LEMMA AppendType ==
  ASSUME NEW S, NEW s \in Seq(S), NEW e \in S
  PROVE  /\ Append(s, e) \in Seq(S) /\ Len(Append(s, e)) = Len(s) + 1
         /\ \A i \in DOMAIN s : Append(s, e)[i] = s[i]
         /\ DOMAIN Append(s, e) = DOMAIN s \cup {Len(s) + 1} /\ Append(s, e)[Len(s) + 1] = e
         /\ ToSet(Append(s, e)) = ToSet(s) \cup {e}
BY DEF ToSet

-----------------------------------------------------------------------------
(***************************************************************************)
(* What is left alone stays right.                                         *)
(***************************************************************************)

LEMMA StoreKept ==
  ASSUME StoreInv, UNCHANGED <<files, bucket, memory, serving>> PROVE StoreInv'
BY DEF StoreInv, memory, Held, Stored, Half, Rest, UnchangedIsStored

LEMMA OpenKept ==
  ASSUME NEW u, Open(u), filename'[u] = filename[u], UNCHANGED <<bucket, mapFileWorkers, serving>>
  PROVE  Open(u)'
BY DEF Open, Stored, Half

\* A user with whom nothing happens.
LEMMA UserKept ==
  ASSUME NEW u, RequestsInv(u), ClientInv(u),
         requests'[u] = requests[u], answers'[u] = answers[u], view'[u] = view[u],
         openfile'[u] = openfile[u], filename'[u] = filename[u], u \in alive <=> u \in alive',
         Open(u) => Open(u)',
         Creating(u)' => Creating(u) /\ serving'.file = serving.file,
         Leaving(u)' => Leaving(u) /\ Rest'.doing = Rest.doing
  PROVE  RequestsInv(u)' /\ ClientInv(u)'
<1>1. RequestsInv(u)'
  BY DEF RequestsInv
<1>2. ClientInv(u)'
  <2>1. Rest'.doing = "disconnected" /\ Rest'.user = u => Rest.doing = "disconnected" /\ Rest.user = u
    BY DEF Leaving
  <2> QED
    BY <2>1 DEF ClientInv
<1> QED
  BY <1>1, <1>2

\* Users who do nothing while another one does something at home.
LEMMA OthersKept ==
  ASSUME UsersInv, NEW u \in Users, NEW v \in Users, u # v,
         UNCHANGED <<bucket, mapFileWorkers, serving>>,
         requests'[v] = requests[v], answers'[v] = answers[v], view'[v] = view[v],
         openfile'[v] = openfile[v], filename'[v] = filename[v], v \in alive <=> v \in alive'
  PROVE  RequestsInv(v)' /\ ClientInv(v)'
<1>1. /\ Open(v) => Open(v)'
      /\ Creating(v)' => Creating(v) /\ serving'.file = serving.file
      /\ Leaving(v)' => Leaving(v) /\ Rest'.doing = Rest.doing
  BY OpenKept DEF Creating, Leaving, Rest
<1> QED
  BY <1>1, UserKept DEF UsersInv

-----------------------------------------------------------------------------
(***************************************************************************)
(* What users do.                                                          *)
(***************************************************************************)

LEMMA RequestType ==
  ASSUME NEW type \in {"new_file", "file_to_open", "operation", "close", "disconnected"}, NEW f \in Names
  PROVE  /\ Request(type, f) \in RequestSet
         /\ Request(type, f).type = type /\ Request(type, f).file = f
BY DEF Request, RequestSet

LEMMA SendType ==
  ASSUME Types, NEW u \in Users, NEW m \in RequestSet, Send(u, m)
  PROVE  /\ requests' \in [Users -> Seq(RequestSet)]
         /\ requests'[u] = Append(requests[u], m)
         /\ \A v \in Users \ {u} : requests'[v] = requests[v]
BY AppendType DEF Types, Send

\* A user at home who waits for nothing asks for a file.
LEMMA AsksInv ==
  ASSUME Inv, ~Impatient, NEW u \in Users, MayAsk(u),
         NEW type \in {"new_file", "file_to_open"}, NEW f \in Files, Send(u, Request(type, f)),
         openfile' = IF type = "new_file" THEN [openfile EXCEPT ![u] = f] ELSE openfile
  PROVE  Inv'
<1> DEFINE m == Request(type, f)
<1>1. /\ m \in RequestSet /\ m.type = type /\ m.file = f
  BY RequestType DEF Names
<1>2. /\ requests' \in [Users -> Seq(RequestSet)]
      /\ requests'[u] = Append(requests[u], m)
      /\ \A v \in Users \ {u} : requests'[v] = requests[v]
  BY <1>1, SendType DEF Inv
<1>3. /\ view[u] = "home" /\ requests[u] = <<>> /\ answers[u] = <<>> /\ ~Creating(u)
      /\ UNCHANGED <<files, bucket, memory, filename, alive, serving, answers, view, shared, counts>>
  BY DEF MayAsk, Unanswered, Creating
<1>4. requests'[u] = <<m>>
  BY <1>2, <1>3
<1> HIDE DEF m
<1>5. openfile' \in [Users -> Names] /\ \A v \in Users \ {u} : openfile'[v] = openfile[v]
      /\ type = "new_file" => openfile'[u] = f
  BY DEF Inv, Types, Names
<1>6. Types'
  BY <1>2, <1>3, <1>5 DEF Inv, Types, MemoryTypes, memory, counts, Held
<1>7. StoreInv'
  BY <1>3, StoreKept DEF Inv
<1>8. RequestsInv(u)'
  BY <1>1, <1>3, <1>4, <1>5 DEF RequestsInv, Creating
<1>9. ClientInv(u)'
  <2>1. u \in alive /\ ~(Rest.doing = "disconnected" /\ Rest.user = u)
    BY <1>3 DEF Inv, ClientInv
  <2> QED
    BY <1>3, <2>1 DEF ClientInv, Rest, Creating
<1>10. ASSUME NEW v \in Users, v # u PROVE RequestsInv(v)' /\ ClientInv(v)'
  BY <1>2, <1>3, <1>5, <1>10, OthersKept DEF Inv, UsersInv, memory
<1> QED
  BY <1>6, <1>7, <1>8, <1>9, <1>10 DEF Inv

LEMMA ClientCreatesInv ==
  ASSUME Inv, ~Impatient, NEW u \in Users, NEW f \in Files, ClientCreates(u, f) PROVE Inv'
BY AsksInv DEF ClientCreates

LEMMA ClientOpensInv ==
  ASSUME Inv, ~Impatient, NEW u \in Users, NEW f \in Files, ClientOpens(u, f) PROVE Inv'
BY AsksInv DEF ClientOpens

\* The user of an open file sends something about it.
LEMMA EditsInv ==
  ASSUME Inv, NEW u \in Users, view[u] = "editing",
         NEW type \in {"operation", "close"}, Send(u, Request(type, openfile[u])),
         view' = IF type = "close" THEN [view EXCEPT ![u] = "home"] ELSE view,
         UNCHANGED <<files, bucket, memory, filename, alive, serving, answers, openfile, shared, drops, crashes>>,
         typed' \in 0 .. MaxEdits
  PROVE  Inv'
<1> DEFINE m == Request(type, openfile[u])
<1>1. m \in RequestSet /\ m.type = type /\ m.file = openfile[u]
  BY RequestType DEF Inv, Types
<1>2. /\ requests' \in [Users -> Seq(RequestSet)]
      /\ requests'[u] = Append(requests[u], m)
      /\ \A v \in Users \ {u} : requests'[v] = requests[v]
  BY <1>1, SendType DEF Inv
<1> HIDE DEF m
<1>3. /\ openfile[u] = filename[u] /\ Open(u) /\ answers[u] = <<>> /\ ~Creating(u) /\ ~Leaving(u)
      /\ u \in alive
  BY DEF Inv, ClientInv
<1>4. Open(u)' /\ ~Creating(u)' /\ ~Leaving(u)'
  BY <1>3, OpenKept DEF Creating, Leaving, Rest, memory
<1>5. \A i \in DOMAIN requests[u] : requests[u][i].type = "operation"
                                    /\ requests[u][i].file = filename[u]
  BY DEF Inv, RequestsInv
<1>6. /\ view' \in [Users -> {"home", "editing", "login"}]
      /\ view'[u] = IF type = "close" THEN "home" ELSE "editing"
      /\ \A v \in Users \ {u} : view'[v] = view[v]
  BY DEF Inv, Types
<1>7. Types'
  BY <1>2, <1>6 DEF Inv, Types, MemoryTypes, memory, Held
<1>8. StoreInv'
  BY StoreKept DEF Inv
<1>9. RequestsInv(u)'
  <2>1. /\ \A i \in DOMAIN requests[u] : requests'[u][i] = requests[u][i]
        /\ DOMAIN requests'[u] = DOMAIN requests[u] \cup {Len(requests[u]) + 1}
        /\ requests'[u][Len(requests[u]) + 1] = m /\ Len(requests[u]) \in Nat
        /\ DOMAIN requests[u] = 1 .. Len(requests[u])
    BY <1>1, <1>2, AppendType DEF Inv, Types
  <2>2. ASSUME NEW i \in DOMAIN requests'[u]
        PROVE  /\ requests'[u][i].type \in {"operation", "close"} /\ requests'[u][i].file = filename'[u]
               /\ requests'[u][i].type # "operation" => type = "close" /\ i = Len(requests[u]) + 1
    BY <1>1, <1>3, <1>5, <2>1
  <2>3. \A i, j \in DOMAIN requests'[u] : i = Len(requests[u]) + 1 => ~(j > i)
    BY <2>1
  <2> QED
    BY <1>4, <1>6, <2>2, <2>3 DEF RequestsInv
<1>10. ClientInv(u)'
  <2>1. ~(Rest'.doing = "disconnected" /\ Rest'.user = u)
    BY <1>4 DEF Leaving
  <2> QED
    BY <1>3, <1>4, <1>6, <2>1 DEF ClientInv
<1>11. ASSUME NEW v \in Users, v # u PROVE RequestsInv(v)' /\ ClientInv(v)'
  BY <1>2, <1>6, <1>11, OthersKept DEF Inv, UsersInv, memory
<1> QED
  BY <1>7, <1>8, <1>9, <1>10, <1>11 DEF Inv

LEMMA ClientTypesInv == ASSUME Inv, NEW u \in Users, ClientTypes(u) PROVE Inv'
<1>1. typed' \in 0 .. MaxEdits
  BY LimitsAssumption DEF Inv, Types, ClientTypes
<1> QED
  BY <1>1, EditsInv DEF ClientTypes, client

LEMMA ClientClosesInv == ASSUME Inv, NEW u \in Users, ClientCloses(u) PROVE Inv'
<1>1. typed' \in 0 .. MaxEdits
  BY DEF Inv, Types, ClientCloses, counts
<1> QED
  BY <1>1, EditsInv DEF ClientCloses, counts

LEMMA ConnectionDropsInv == ASSUME Inv, NEW u \in Users, ConnectionDrops(u) PROVE Inv'
<1> DEFINE m == Request("disconnected", NoName)
<1>1. PICK n \in 0 .. Len(requests[u]) : requests' = [requests EXCEPT ![u] = Append(SubSeq(requests[u], 1, n), m)]
  BY DEF ConnectionDrops
<1> DEFINE kept == SubSeq(requests[u], 1, n)
<1>2. m \in RequestSet /\ m.type = "disconnected"
  BY RequestType DEF Names
<1>3. requests[u] \in Seq(RequestSet) /\ requests \in [Users -> Seq(RequestSet)]
  BY DEF Inv, Types
<1>4. kept \in Seq(RequestSet) /\ Len(kept) = n /\ \A i \in 1 .. n : kept[i] = requests[u][i]
  BY <1>1, <1>3
<1>5. /\ Append(kept, m) \in Seq(RequestSet)
      /\ DOMAIN Append(kept, m) = 1 .. n + 1 /\ Append(kept, m)[n + 1] = m
      /\ \A i \in 1 .. n : Append(kept, m)[i] = requests[u][i]
  BY <1>2, <1>4, AppendType
<1> HIDE DEF m, kept
<1>6. /\ requests' \in [Users -> Seq(RequestSet)] /\ requests'[u] = Append(kept, m)
      /\ \A v \in Users \ {u} : requests'[v] = requests[v]
  BY <1>1, <1>3, <1>5 DEF kept, m
<1>7. /\ view' = [view EXCEPT ![u] = "login"] /\ answers' = [answers EXCEPT ![u] = <<>>] /\ view[u] # "login"
      /\ UNCHANGED <<files, bucket, memory, filename, alive, serving, openfile, shared, typed, crashes>>
  BY DEF ConnectionDrops
<1>8. /\ view' \in [Users -> {"home", "editing", "login"}] /\ answers' \in [Users -> Seq(AnswerSet)]
      /\ view'[u] = "login" /\ answers'[u] = <<>>
      /\ \A v \in Users \ {u} : view'[v] = view[v] /\ answers'[v] = answers[v]
  BY <1>7 DEF Inv, Types
<1>9. drops' \in 0 .. MaxDrops
  BY LimitsAssumption DEF Inv, Types, ConnectionDrops
<1>10. Types'
  BY <1>6, <1>7, <1>8, <1>9 DEF Inv, Types, MemoryTypes, memory, Held
<1>11. StoreInv'
  BY <1>7, StoreKept DEF Inv
<1>12. /\ Open(u) => Open(u)'
       /\ Creating(u)' <=> Creating(u)
       /\ Leaving(u)' <=> Leaving(u)
  BY <1>7, OpenKept DEF Creating, Leaving, Rest, memory
<1>13. RequestsInv(u)'
  <2>1. n \in Nat /\ n <= Len(requests[u]) /\ DOMAIN requests[u] = 1 .. Len(requests[u]) /\ Len(requests[u]) \in Nat
    BY <1>1, <1>3
  <2>2. ASSUME NEW i \in DOMAIN requests'[u]
        PROVE  \/ i = n + 1 /\ requests'[u][i].type = "disconnected"
               \/ i \in 1 .. n /\ i \in DOMAIN requests[u] /\ requests'[u][i] = requests[u][i]
                  /\ requests[u][i].type # "disconnected"
    <3>1. CASE i = n + 1
      BY <1>2, <1>5, <1>6, <3>1
    <3>2. CASE i \in 1 .. n
      BY <1>5, <1>6, <1>7, <2>1, <3>2 DEF Inv, RequestsInv
    <3> QED
      BY <1>5, <1>6, <2>1, <3>1, <3>2
  <2>3. \A i, j \in DOMAIN requests'[u] : i \in 1 .. n /\ requests[u][i].type # "operation" /\ j > i
          => requests'[u][j].type = "disconnected"
    BY <2>1, <2>2 DEF Inv, RequestsInv
  <2>4. \A i \in DOMAIN requests'[u] : i = n + 1 => i = Len(requests'[u]) /\ \A j \in DOMAIN requests'[u] : ~(j > i)
    BY <1>5, <1>6, <2>1
  <2> QED
    BY <1>5, <1>6, <1>7, <1>8, <1>12, <2>2, <2>3, <2>4 DEF Inv, RequestsInv
<1>14. ClientInv(u)'
  <2>1. ~(Rest'.doing = "disconnected" /\ Rest'.user = u)
    BY <1>7 DEF Inv, ClientInv, Rest
  <2>2. Creating(u) => filename[u] = serving.file
    BY DEF Inv, ClientInv
  <2>3. u \in alive
    BY <1>7 DEF Inv, ClientInv
  <2> QED
    BY <1>7, <1>8, <1>12, <2>1, <2>2, <2>3 DEF ClientInv
<1>15. ASSUME NEW v \in Users, v # u PROVE RequestsInv(v)' /\ ClientInv(v)'
  BY <1>6, <1>7, <1>8, <1>15, OthersKept DEF Inv, UsersInv, memory
<1> QED
  BY <1>10, <1>11, <1>13, <1>14, <1>15 DEF Inv

LEMMA ClientConnectsInv == ASSUME Inv, NEW u \in Users, ClientConnects(u) PROVE Inv'
<1>1. /\ view[u] = "login" /\ u \notin alive /\ serving = Idle
      /\ requests[u] = <<>> /\ answers[u] = <<>>
  BY DEF Inv, ClientInv, ClientConnects
<1>2. Types'
  BY DEF Inv, Types, MemoryTypes, memory, counts, Held, ClientConnects, Names
<1>3. StoreInv'
  BY StoreKept DEF Inv, ClientConnects
<1>4. ~Creating(u)' /\ ~Leaving(u)' /\ ~(Rest'.doing = "disconnected")
  BY <1>1 DEF Creating, Leaving, Rest, Idle, ClientConnects
<1>5. view'[u] = "home" /\ requests'[u] = <<>> /\ answers'[u] = <<>> /\ u \in alive'
  BY <1>1 DEF Inv, Types, ClientConnects
<1>6. RequestsInv(u)' /\ ClientInv(u)'
  BY <1>4, <1>5 DEF RequestsInv, ClientInv
<1>7. ASSUME NEW v \in Users, v # u PROVE RequestsInv(v)' /\ ClientInv(v)'
  <2>1. requests'[v] = requests[v] /\ answers'[v] = answers[v] /\ view'[v] = view[v]
        /\ openfile'[v] = openfile[v] /\ filename'[v] = filename[v] /\ (v \in alive <=> v \in alive')
    BY <1>7 DEF Inv, Types, ClientConnects
  <2> QED
    BY <1>7, <2>1, OthersKept DEF Inv, UsersInv, memory, ClientConnects
<1> QED
  BY <1>2, <1>3, <1>6, <1>7 DEF Inv

\* An answer is taken: it was the only one, and nothing was sent since.
LEMMA HeardInv ==
  ASSUME Inv, NEW u \in Users, answers[u] # <<>>, Heard(u)
  PROVE  /\ answers' \in [Users -> Seq(AnswerSet)] /\ answers'[u] = <<>>
         /\ \A v \in Users \ {u} : answers'[v] = answers[v]
         /\ Head(answers[u]) \in AnswerSet
         /\ requests[u] = <<>> /\ view[u] = "home" /\ u \in alive
         /\ ~Creating(u)' /\ ~Leaving(u)'
         /\ Open(u) => Open(u)'
         /\ UNCHANGED <<files, bucket, memory, filename, alive, serving, counts>>
<1>1. answers[u] \in Seq(AnswerSet) /\ answers \in [Users -> Seq(AnswerSet)] /\ Len(answers[u]) = 1
  BY DEF Inv, Types, ClientInv
<1>2. Head(answers[u]) \in AnswerSet /\ Tail(answers[u]) = <<>>
  <2>1. Head(answers[u]) \in AnswerSet /\ Tail(answers[u]) \in Seq(AnswerSet) /\ Len(Tail(answers[u])) = 0
    BY <1>1, TailType
  <2> QED
    BY <2>1, EmptyType
<1>3. view[u] \in {"home", "editing", "login"}
  BY DEF Inv, Types
<1>4. requests[u] = <<>> /\ view[u] = "home" /\ u \in alive /\ ~Creating(u) /\ ~Leaving(u)
  BY <1>3 DEF Inv, ClientInv
<1>5. UNCHANGED <<files, bucket, memory, filename, alive, serving, counts>>
  BY DEF Heard
<1>6. ~Creating(u)' /\ ~Leaving(u)' /\ (Open(u) => Open(u)')
  BY <1>4, <1>5, OpenKept DEF Creating, Leaving, Rest, memory
<1> QED
  BY <1>1, <1>2, <1>4, <1>5, <1>6 DEF Heard

LEMMA ClientHearsNewFileInv == ASSUME Inv, NEW u \in Users, ClientHearsNewFile(u) PROVE Inv'
<1> DEFINE a == Head(answers[u])
           m == Request("operation", openfile[u])
<1>1. /\ answers' \in [Users -> Seq(AnswerSet)] /\ answers'[u] = <<>>
      /\ \A v \in Users \ {u} : answers'[v] = answers[v]
      /\ requests[u] = <<>> /\ view[u] = "home" /\ u \in alive
      /\ ~Creating(u)' /\ ~Leaving(u)'
      /\ Open(u) => Open(u)'
      /\ UNCHANGED <<files, bucket, memory, filename, alive, serving, counts>>
  BY HeardInv DEF ClientHearsNewFile
<1>2. a.type = "new_file" /\ answers[u] # <<>> /\ UNCHANGED openfile
  BY DEF ClientHearsNewFile
<1>3. CASE a.success
  <2>1. openfile[u] = filename[u] /\ Open(u)
    BY <1>2, <1>3 DEF Inv, ClientInv
  <2>2. openfile[u] \in Files
    BY <2>1 DEF Inv, Types, MemoryTypes, Open
  <2>3. m \in RequestSet /\ m.type = "operation" /\ m.file = openfile[u]
    BY <2>2, RequestType DEF Names
  <2>4. view' = [view EXCEPT ![u] = "editing"] /\ shared' = shared \cup {openfile[u]} /\ Send(u, m)
    BY <1>3 DEF ClientHearsNewFile
  <2>5. /\ requests' \in [Users -> Seq(RequestSet)]
        /\ requests'[u] = <<m>>
        /\ \A v \in Users \ {u} : requests'[v] = requests[v]
    BY <1>1, <2>3, <2>4, SendType DEF Inv
  <2>6. /\ view' \in [Users -> {"home", "editing", "login"}] /\ view'[u] = "editing"
        /\ \A v \in Users \ {u} : view'[v] = view[v]
    BY <2>4 DEF Inv, Types
  <2> HIDE DEF a, m
  <2>7. Types'
    BY <1>1, <1>2, <2>2, <2>4, <2>5, <2>6 DEF Inv, Types, MemoryTypes, memory, counts, Held
  <2>8. StoreInv'
    BY <1>1, StoreKept DEF Inv
  <2>9. RequestsInv(u)'
    BY <1>1, <1>2, <2>1, <2>3, <2>5 DEF RequestsInv
  <2>10. ClientInv(u)'
    <3>1. ~(Rest'.doing = "disconnected" /\ Rest'.user = u)
      BY <1>1 DEF Leaving
    <3> QED
      BY <1>1, <1>2, <2>1, <2>6, <3>1 DEF ClientInv
  <2>11. ASSUME NEW v \in Users, v # u PROVE RequestsInv(v)' /\ ClientInv(v)'
    BY <1>1, <1>2, <2>5, <2>6, <2>11, OthersKept DEF Inv, UsersInv, memory
  <2> QED
    BY <2>7, <2>8, <2>9, <2>10, <2>11 DEF Inv
<1>4. CASE ~a.success
  <2>1. UNCHANGED <<view, requests, shared>>
    BY <1>4 DEF ClientHearsNewFile
  <2> HIDE DEF a, m
  <2>2. Types'
    BY <1>1, <1>2, <2>1 DEF Inv, Types, MemoryTypes, memory, counts, Held
  <2>3. StoreInv'
    BY <1>1, StoreKept DEF Inv
  <2>4. RequestsInv(u)' /\ ClientInv(u)'
    <3>1. ~(Rest'.doing = "disconnected" /\ Rest'.user = u)
      BY <1>1 DEF Leaving
    <3> QED
      BY <1>1, <2>1, <3>1 DEF RequestsInv, ClientInv
  <2>5. ASSUME NEW v \in Users, v # u PROVE RequestsInv(v)' /\ ClientInv(v)'
    BY <1>1, <1>2, <2>1, <2>5, OthersKept DEF Inv, UsersInv, memory
  <2> QED
    BY <2>2, <2>3, <2>4, <2>5 DEF Inv
<1> QED
  BY <1>3, <1>4

LEMMA ClientHearsFileInv == ASSUME Inv, NEW u \in Users, ClientHearsFile(u) PROVE Inv'
<1> DEFINE a == Head(answers[u])
<1>1. /\ answers' \in [Users -> Seq(AnswerSet)] /\ answers'[u] = <<>>
      /\ \A v \in Users \ {u} : answers'[v] = answers[v]
      /\ a \in AnswerSet
      /\ requests[u] = <<>> /\ view[u] = "home" /\ u \in alive
      /\ ~Creating(u)' /\ ~Leaving(u)'
      /\ Open(u) => Open(u)'
      /\ UNCHANGED <<files, bucket, memory, filename, alive, serving, counts>>
  BY HeardInv DEF ClientHearsFile
<1>2. a.type = "file_to_open" /\ answers[u] # <<>> /\ UNCHANGED <<requests, shared>>
  BY DEF ClientHearsFile
<1>3. a.file \in Files
  BY <1>1, <1>2 DEF AnswerSet
<1>4. /\ view' \in [Users -> {"home", "editing", "login"}] /\ openfile' \in [Users -> Names]
      /\ \A v \in Users \ {u} : view'[v] = view[v] /\ openfile'[v] = openfile[v]
      /\ view'[u] # "login"
      /\ view'[u] = "editing" => openfile'[u] = filename[u] /\ Open(u)
  <2>1. CASE a.success /\ a.symbols # 0
    <3>1. view' = [view EXCEPT ![u] = "editing"] /\ openfile' = [openfile EXCEPT ![u] = a.file]
      BY <2>1 DEF ClientHearsFile
    <3>2. a.file = filename[u] /\ Open(u)
      BY <1>2, <2>1 DEF Inv, ClientInv
    <3> QED
      BY <1>3, <3>1, <3>2 DEF Inv, Types, Names
  <2>2. CASE ~(a.success /\ a.symbols # 0)
    <3>1. view' = view /\ openfile' = IF a.success THEN openfile ELSE [openfile EXCEPT ![u] = NoName]
      BY <2>2 DEF ClientHearsFile
    <3> QED
      BY <1>1, <3>1 DEF Inv, Types, Names
  <2> QED
    BY <2>1, <2>2
<1> HIDE DEF a
<1>5. Types'
  BY <1>1, <1>2, <1>4 DEF Inv, Types, MemoryTypes, memory, counts, Held
<1>6. StoreInv'
  BY <1>1, StoreKept DEF Inv
<1>7. RequestsInv(u)' /\ ClientInv(u)'
  <2>1. ~(Rest'.doing = "disconnected" /\ Rest'.user = u)
    BY <1>1 DEF Leaving
  <2> QED
    BY <1>1, <1>2, <1>4, <2>1 DEF RequestsInv, ClientInv
<1>8. ASSUME NEW v \in Users, v # u PROVE RequestsInv(v)' /\ ClientInv(v)'
  BY <1>1, <1>2, <1>4, <1>8, OthersKept DEF Inv, UsersInv, memory
<1> QED
  BY <1>5, <1>6, <1>7, <1>8 DEF Inv

-----------------------------------------------------------------------------
(***************************************************************************)
(* Requests.                                                               *)
(***************************************************************************)

\* A request is taken: what is left are requests that came after it.
LEMMA TakenInv ==
  ASSUME Inv, NEW u \in Users, NEW type, Receives(u, type)
  PROVE  /\ serving = Idle /\ requests[u] # <<>> /\ requests[u][1] = Head(requests[u])
         /\ Head(requests[u]) \in RequestSet /\ Head(requests[u]).type = type
         /\ 1 \in DOMAIN requests[u] /\ u \in alive
         /\ requests' \in [Users -> Seq(RequestSet)]
         /\ requests'[u] \in Seq(RequestSet) /\ Len(requests'[u]) = Len(requests[u]) - 1
         /\ \A i \in DOMAIN requests'[u] : i + 1 \in DOMAIN requests[u] /\ requests'[u][i] = requests[u][i + 1]
         /\ \A v \in Users \ {u} : requests'[v] = requests[v]
         /\ UNCHANGED <<client, shared, counts>>
<1>1. requests \in [Users -> Seq(RequestSet)] /\ requests[u] \in Seq(RequestSet)
  BY DEF Inv, Types
<1>2. /\ serving = Idle /\ requests[u] # <<>> /\ Head(requests[u]).type = type
      /\ requests' = [requests EXCEPT ![u] = Tail(requests[u])]
      /\ UNCHANGED <<client, shared, counts>>
  BY DEF Receives
<1>3. requests'[u] = Tail(requests[u]) /\ \A v \in Users \ {u} : requests'[v] = requests[v]
  BY <1>1, <1>2
<1>4. 1 \in DOMAIN requests[u]
  BY <1>1, <1>2
<1>5. u \in alive
  BY <1>2 DEF Inv, ClientInv
<1>6. /\ Tail(requests[u]) \in Seq(RequestSet) /\ Head(requests[u]) \in RequestSet
      /\ Head(requests[u]) = requests[u][1] /\ Len(Tail(requests[u])) = Len(requests[u]) - 1
      /\ \A i \in DOMAIN Tail(requests[u]) :
           i + 1 \in DOMAIN requests[u] /\ Tail(requests[u])[i] = requests[u][i + 1]
  BY <1>1, <1>2, TailType
<1>7. requests' \in [Users -> Seq(RequestSet)]
  BY <1>1, <1>2, <1>6
<1> QED
  BY <1>2, <1>3, <1>4, <1>5, <1>6, <1>7

\* Nothing but the end of the connection comes after a request that is no
\* operation.
LEMMA LastRequest ==
  ASSUME Inv, NEW u \in Users, NEW type, Receives(u, type), type # "operation"
  PROVE  /\ \A i \in DOMAIN requests'[u] : requests'[u][i].type = "disconnected"
         /\ requests'[u] # <<>> => view[u] = "login"
         /\ RequestsInv(u)'
         /\ view[u] # "editing"
<1>1. /\ requests[u][1].type = type /\ 1 \in DOMAIN requests[u]
      /\ requests'[u] \in Seq(RequestSet) /\ Len(requests'[u]) = Len(requests[u]) - 1
      /\ \A i \in DOMAIN requests'[u] : i + 1 \in DOMAIN requests[u] /\ requests'[u][i] = requests[u][i + 1]
      /\ view'[u] = view[u] /\ requests[u] \in Seq(RequestSet)
  BY TakenInv DEF client, Inv, Types
<1>2. view[u] # "editing"
  BY <1>1 DEF Inv, RequestsInv
<1>3. ASSUME NEW i \in DOMAIN requests'[u]
      PROVE  requests'[u][i].type = "disconnected" /\ view[u] = "login" /\ i = Len(requests'[u])
  <2>1. i + 1 \in DOMAIN requests[u] /\ i + 1 > 1 /\ requests'[u][i] = requests[u][i + 1]
    BY <1>1
  <2>2. requests[u][i + 1].type = "disconnected"
    BY <1>1, <2>1 DEF Inv, RequestsInv
  <2>3. view[u] = "login" /\ i + 1 = Len(requests[u])
    BY <2>1, <2>2 DEF Inv, RequestsInv
  <2> QED
    BY <1>1, <2>1, <2>2, <2>3
<1>4. requests'[u] # <<>> => view[u] = "login"
  <2>1. requests'[u] # <<>> => 1 \in DOMAIN requests'[u]
    BY <1>1
  <2> QED
    BY <1>3, <2>1
<1>5. RequestsInv(u)'
  <2>1. \A i, j \in DOMAIN requests'[u] : requests'[u][j].type = "disconnected"
    BY <1>3
  <2> QED
    BY <1>1, <1>2, <1>3, <2>1 DEF RequestsInv
<1> QED
  BY <1>2, <1>3, <1>4, <1>5

LEMMA AnswerType ==
  ASSUME Inv, NEW u \in Users, NEW m \in AnswerSet, Answer(u, m)
  PROVE  /\ answers' \in [Users -> Seq(AnswerSet)]
         /\ answers'[u] = IF view[u] = "login" THEN answers[u] ELSE Append(answers[u], m)
         /\ \A v \in Users \ {u} : answers'[v] = answers[v]
BY DEF Inv, Types, Answer

\* The user of a request that is answered at once, and was the only one.
LEMMA AnsweredInv ==
  ASSUME Inv, NEW u \in Users,
         NEW m \in AnswerSet, Answer(u, m), answers[u] = <<>>, view[u] # "editing", view' = view,
         u \notin alive' => view[u] = "login" /\ requests'[u] = <<>>,
         ~Creating(u)', ~Leaving(u)',
         view[u] = "home" => requests'[u] = <<>>,
         view[u] = "home" /\ m.success /\ m.type = "new_file" => openfile'[u] = filename'[u] /\ Open(u)',
         view[u] = "home" /\ m.success /\ m.type = "file_to_open" /\ m.symbols # 0
           => m.file = filename'[u] /\ Open(u)'
  PROVE  ClientInv(u)'
<1>1. view[u] \in {"home", "login"}
  BY DEF Inv, Types
<1>2. ~(Rest'.doing = "disconnected" /\ Rest'.user = u)
  BY DEF Leaving
<1>3. CASE view[u] = "login"
  <2>1. answers'[u] = <<>>
    BY <1>3, AnswerType
  <2> QED
    BY <1>2, <1>3, <2>1 DEF ClientInv
<1>4. CASE view[u] = "home"
  <2>1. answers'[u] = <<m>>
    <3>1. answers'[u] = Append(<<>>, m)
      BY <1>4, AnswerType
    <3> QED
      BY <3>1
  <2>2. Head(answers'[u]) = m /\ Len(answers'[u]) = 1 /\ answers'[u] # <<>>
    BY <2>1
  <2> QED
    BY <1>2, <1>4, <2>2 DEF ClientInv
<1> QED
  BY <1>1, <1>3, <1>4

LEMMA createNewFileInv == ASSUME Inv, NEW u \in Users, createNewFile(u) PROVE Inv'
<1> DEFINE f == Head(requests[u]).file
<1>1. Receives(u, "new_file") /\ UNCHANGED <<bucket, memory, alive>>
  BY DEF createNewFile
<1>2. /\ serving = Idle /\ requests[u][1] = Head(requests[u]) /\ Head(requests[u]).type = "new_file"
      /\ 1 \in DOMAIN requests[u] /\ u \in alive
      /\ requests' \in [Users -> Seq(RequestSet)]
      /\ \A v \in Users \ {u} : requests'[v] = requests[v]
      /\ UNCHANGED <<client, shared, counts>>
  BY <1>1, TakenInv
<1>3. /\ f \in Files /\ answers[u] = <<>> /\ ~Creating(u) /\ ~Leaving(u)
      /\ view[u] = "home" => openfile[u] = f
  BY <1>2 DEF Inv, RequestsInv, Leaving, Rest, Idle
<1>4. /\ RequestsInv(u)' /\ view[u] # "editing"
      /\ requests'[u] # <<>> => view[u] = "login"
  BY <1>1, LastRequest
<1>5. CASE f \in files
  <2>1. Answer(u, NewFileAnswer(FALSE)) /\ UNCHANGED <<files, filename, serving>>
    BY <1>5 DEF createNewFile
  <2>2. NewFileAnswer(FALSE) \in AnswerSet /\ NewFileAnswer(FALSE).success = FALSE
    BY DEF AnswerSet, NewFileAnswer
  <2>3. answers' \in [Users -> Seq(AnswerSet)] /\ \A v \in Users \ {u} : answers'[v] = answers[v]
    BY <2>1, <2>2, AnswerType
  <2> HIDE DEF f
  <2>4. Types'
    BY <1>1, <1>2, <2>1, <2>3 DEF Inv, Types, MemoryTypes, memory, counts, client, Held
  <2>5. StoreInv'
    BY <1>1, <2>1, StoreKept DEF Inv
  <2>6. ClientInv(u)'
    <3>1. ~Creating(u)' /\ ~Leaving(u)'
      BY <1>3, <2>1 DEF Creating, Leaving, Rest
    <3> QED
      BY <1>1, <1>2, <1>3, <1>4, <2>1, <2>2, <3>1, AnsweredInv DEF client
  <2>7. ASSUME NEW v \in Users, v # u PROVE RequestsInv(v)' /\ ClientInv(v)'
    BY <1>1, <1>2, <2>1, <2>3, <2>7, OthersKept DEF Inv, UsersInv, memory, client
  <2> QED
    BY <1>4, <2>4, <2>5, <2>6, <2>7 DEF Inv
<1>6. CASE f \notin files
  <2>1. /\ files' = files \cup {f} /\ filename' = [filename EXCEPT ![u] = f]
        /\ serving' = [doing |-> "create", user |-> u, file |-> f] /\ UNCHANGED answers
    BY <1>6 DEF createNewFile, newFile
  <2> HIDE DEF f
  <2>2. serving' \in Creations
    BY <1>3, <2>1 DEF Creations
  <2>3. filename' \in [Users -> Names] /\ filename'[u] = f /\ \A v \in Users \ {u} : filename'[v] = filename[v]
    BY <1>3, <2>1 DEF Inv, Types, Names
  <2>4. Types'
    BY <1>1, <1>2, <1>3, <2>1, <2>2, <2>3 DEF Inv, Types, MemoryTypes, memory, counts, client, Held
  <2>5. bucket[f] = NoFile
    BY <1>3, <1>6 DEF Inv, StoreInv
  <2>6. StoreInv'
    BY <1>1, <1>2, <2>1, <2>5
    DEF Inv, StoreInv, memory, Held, Stored, Half, Rest, UnchangedIsStored, Idle
  <2>7. Rest' = serving' /\ Rest = Idle
    BY <1>2, <2>1 DEF Rest, Idle
  <2>8. ClientInv(u)'
    BY <1>1, <1>2, <1>3, <1>4, <2>1, <2>3, <2>7 DEF ClientInv, Creating, client
  <2>9. ASSUME NEW v \in Users, v # u PROVE RequestsInv(v)' /\ ClientInv(v)'
    <3>1. Open(v) => Open(v)'
      BY <1>1, <1>2, <2>1, <2>3, <2>9 DEF Open, Stored, Half, memory, Idle
    <3>2. ~Creating(v)' /\ ~Leaving(v)'
      BY <2>1, <2>7, <2>9 DEF Creating, Leaving
    <3> QED
      BY <1>1, <1>2, <2>1, <2>3, <2>9, <3>1, <3>2, UserKept DEF Inv, client
  <2> QED
    BY <1>4, <2>4, <2>6, <2>8, <2>9 DEF Inv
<1> QED
  BY <1>5, <1>6

LEMMA ServingType ==
  ASSUME Types
  PROVE  /\ serving.doing = "create" => serving.user \in Users /\ serving.file \in Files
         /\ serving.doing \in {"closed", "disconnected"} => serving \in Leavings
         /\ serving.doing = "save" => serving \in Saves
         /\ serving.doing = "nothing" => serving = Idle
BY DEF Types, Rests, Idle, Leavings, Creations, Saves

LEMMA insertNewFileOf ==
  ASSUME Inv, NEW u \in Users, NEW f \in Files, serving.user = u, serving.file = f, insertNewFile
  PROVE  Inv'
<1> DEFINE list == <<u>>
<1>1. serving.doing = "create" /\ u \in Users /\ f \in Files /\ bucket[f] = NoFile
  BY ServingType DEF Inv, insertNewFile
<1>2. /\ bucket' = [bucket EXCEPT ![f] = 0]
      /\ mapFileWorkers' = Put(mapFileWorkers, f, list)
      /\ f \in Held => symbols_list' = symbols_list /\ changed' = changed
      /\ f \notin Held => symbols_list' = Put(symbols_list, f, 0) /\ changed' = Put(changed, f, TRUE)
      /\ serving' = Idle
      /\ Answer(u, NewFileAnswer(TRUE))
      /\ UNCHANGED <<files, filename, alive, requests, client, shared, counts>>
  BY DEF insertNewFile
<1>3. /\ Creating(u) /\ answers[u] = <<>> /\ filename[u] = f
      /\ view[u] = "home" => openfile[u] = f
      /\ view[u] # "editing"
  BY <1>1 DEF Inv, ClientInv, Creating
<1>4. ASSUME NEW i \in DOMAIN requests[u] PROVE requests[u][i].type = "disconnected" /\ view[u] = "login"
  <2>1. requests[u][i] \in RequestSet
    BY <1>1 DEF Inv, Types
  <2>2. requests[u][i].type \notin {"new_file", "file_to_open", "operation", "close"}
    BY <1>1, <1>3 DEF Inv, RequestsInv
  <2>3. requests[u][i].type = "disconnected"
    BY <2>1, <2>2 DEF RequestSet
  <2> QED
    BY <1>1, <2>3 DEF Inv, RequestsInv
<1>5. f \in files /\ Rest = serving /\ Held = DOMAIN mapFileWorkers
      /\ \A g \in Held : symbols_list[g] # 0 => bucket[g] # NoFile
  BY <1>1 DEF Inv, StoreInv, Rest, Stored, Half
<1>6. NewFileAnswer(TRUE) \in AnswerSet /\ NewFileAnswer(TRUE).type = "new_file"
  BY DEF AnswerSet, NewFileAnswer
<1>7. answers' \in [Users -> Seq(AnswerSet)] /\ \A v \in Users \ {u} : answers'[v] = answers[v]
  BY <1>1, <1>2, <1>6, AnswerType
<1>7a. list \in Seq(Users \cup {Deleted}) /\ u \in ToSet(list)
  BY DEF ToSet
<1> HIDE DEF list
<1>8. /\ DOMAIN mapFileWorkers' = DOMAIN mapFileWorkers \cup {f} /\ mapFileWorkers'[f] = list
      /\ \A g \in DOMAIN mapFileWorkers \ {f} : mapFileWorkers'[g] = mapFileWorkers[g]
  BY <1>2 DEF Put
<1>9. /\ DOMAIN symbols_list' = Held \cup {f} /\ DOMAIN changed' = DOMAIN changed \cup {f}
      /\ \A g \in Held : symbols_list'[g] = symbols_list[g] /\ changed'[g] = changed[g]
      /\ f \notin Held => symbols_list'[f] = 0 /\ changed'[f] = TRUE
  <2>1. CASE f \in Held
    BY <1>2, <2>1 DEF Inv, Types, MemoryTypes, Held
  <2>2. CASE f \notin Held
    <3>1. DOMAIN changed = Held
      BY DEF Inv, Types, MemoryTypes
    <3>2. symbols_list' = Put(symbols_list, f, 0) /\ changed' = Put(changed, f, TRUE)
      BY <1>2, <2>2
    <3>3. /\ DOMAIN symbols_list' = Held \cup {f} /\ symbols_list'[f] = 0
          /\ \A g \in Held : g # f => symbols_list'[g] = symbols_list[g]
      BY <3>2 DEF Held, Put
    <3>4. /\ DOMAIN changed' = Held \cup {f} /\ changed'[f] = TRUE
          /\ \A g \in Held : g # f => changed'[g] = changed[g]
      BY <3>1, <3>2 DEF Put
    <3> QED
      BY <2>2, <3>1, <3>3, <3>4
  <2> QED
    BY <2>1, <2>2
<1>10. /\ bucket' \in [Files -> Nat \cup {NoFile}] /\ bucket'[f] = 0
       /\ \A g \in Files \ {f} : bucket'[g] = bucket[g]
  BY <1>1, <1>2 DEF Inv, Types
<1>11. MemoryTypes'
  <2>1. DOMAIN symbols_list' \subseteq Files /\ \A g \in DOMAIN symbols_list' : symbols_list'[g] \in Nat
    BY <1>1, <1>9 DEF Inv, Types, MemoryTypes, Held
  <2>2. DOMAIN changed' = DOMAIN symbols_list' /\ \A g \in DOMAIN symbols_list' : changed'[g] \in BOOLEAN
    BY <1>9, Zenon DEF Inv, Types, MemoryTypes, Held
  <2>3. DOMAIN mapFileWorkers' \subseteq Files
        /\ \A g \in DOMAIN mapFileWorkers' : mapFileWorkers'[g] \in Seq(Users \cup {Deleted})
    BY <1>1, <1>7a, <1>8 DEF Inv, Types, MemoryTypes
  <2> QED
    BY <2>1, <2>2, <2>3 DEF MemoryTypes, Held
<1>12. Types'
  BY <1>2, <1>7, <1>10, <1>11 DEF Inv, Types, counts, client, Rests
<1>13. Rest' = Idle /\ serving' = Idle /\ Idle.doing = "nothing"
  BY <1>2 DEF Rest, Idle
<1>14. StoreInv'
  <2>1. \A g \in Files : bucket'[g] # NoFile => g \in files'
    BY <1>2, <1>5, <1>10 DEF Inv, StoreInv
  <2>2. \A g \in DOMAIN symbols_list' : symbols_list'[g] # 0 => bucket'[g] # NoFile
    <3>1. \A g \in Held \ {f} : symbols_list'[g] = symbols_list[g] /\ bucket'[g] = bucket[g]
      BY <1>9, <1>10 DEF Inv, Types, MemoryTypes
    <3>2. 0 # NoFile
      BY DEF NoFile
    <3> QED
      BY <1>5, <1>9, <1>10, <3>1, <3>2
  <2>3. UnchangedIsStored'
    BY <1>1, <1>5, <1>9, <1>10 DEF Inv, StoreInv, Types, MemoryTypes, UnchangedIsStored, Held
  <2>4. DOMAIN symbols_list' = DOMAIN mapFileWorkers'
    BY <1>5, <1>8, <1>9
  <2> QED
    BY <1>13, <2>1, <2>2, <2>3, <2>4 DEF StoreInv, Held, Stored
<1>15. /\ Open(u)' /\ ~Creating(u)' /\ ~Leaving(u)'
  BY <1>2, <1>3, <1>7a, <1>8, <1>10, <1>13 DEF Open, Stored, Creating, Leaving, NoFile
<1>16. RequestsInv(u)'
  <2>1. \A i, j \in DOMAIN requests[u] : requests[u][i].type = "disconnected" /\ view[u] = "login"
                                         /\ i = Len(requests[u]) /\ ~(j > i)
    BY <1>1, <1>4 DEF Inv, RequestsInv, Types
  <2> QED
    BY <1>2, <1>3, <1>4, <2>1 DEF RequestsInv, client
<1>17. ClientInv(u)'
  <2>1. u \notin alive => view[u] = "login" /\ requests[u] = <<>>
    BY DEF Inv, ClientInv
  <2>2. view[u] = "home" => requests[u] = <<>>
    <3>1. requests[u] # <<>> => 1 \in DOMAIN requests[u]
      BY DEF Inv, Types
    <3> QED
      BY <1>4, <3>1
  <2>3. UNCHANGED <<view, openfile, filename, alive, requests>>
    BY <1>2 DEF client
  <2>4. NewFileAnswer(TRUE).type # "file_to_open"
    BY <1>6
  <2> QED
    BY <1>2, <1>3, <1>6, <1>15, <2>1, <2>2, <2>3, <2>4, AnsweredInv
<1>18. ASSUME NEW v \in Users, v # u PROVE RequestsInv(v)' /\ ClientInv(v)'
  <2>1. Open(v) => Open(v)'
    <3> SUFFICES ASSUME Open(v) PROVE Open(v)'
      OBVIOUS
    <3>1. filename[v] # f /\ bucket[filename[v]] # NoFile /\ filename[v] \in Files
      BY <1>1 DEF Open, Stored, Half, Inv, Types, MemoryTypes
    <3>2. mapFileWorkers'[filename[v]] = mapFileWorkers[filename[v]] /\ bucket'[filename[v]] = bucket[filename[v]]
      BY <1>8, <1>10, <3>1 DEF Open
    <3> QED
      BY <1>2, <1>8, <3>1, <3>2 DEF Open, Stored
  <2>2. ~Creating(v)' /\ ~Leaving(v)'
    BY <1>13 DEF Creating, Leaving
  <2>3. requests'[v] = requests[v] /\ answers'[v] = answers[v] /\ view'[v] = view[v]
        /\ openfile'[v] = openfile[v] /\ filename'[v] = filename[v] /\ (v \in alive <=> v \in alive')
    BY <1>2, <1>7, <1>18 DEF client
  <2> QED
    BY <2>1, <2>2, <2>3, UserKept DEF Inv
<1> QED
  BY <1>12, <1>14, <1>16, <1>17, <1>18 DEF Inv

LEMMA insertNewFileInv == ASSUME Inv, insertNewFile PROVE Inv'
<1>1. serving.user \in Users /\ serving.file \in Files
  BY ServingType DEF Inv, insertNewFile
<1> QED
  BY <1>1, insertNewFileOf

LEMMA sendFileOf ==
  ASSUME Inv, NEW u \in Users, NEW f, Head(requests[u]).file = f, sendFile(u) PROVE Inv'
<1> DEFINE read == IF f \in Held THEN symbols_list[f] ELSE retrieveFile(f)
           list == Append(WorkersOf(f), u)
           success == f \in Held \/ bucket[f] # NoFile
           answer == [type |-> "file_to_open", success |-> success, symbols |-> read, file |-> f]
<1>1. Receives(u, "file_to_open") /\ UNCHANGED <<files, bucket, alive, serving>>
  BY DEF sendFile
<1>2. /\ serving = Idle /\ requests[u][1] = Head(requests[u]) /\ Head(requests[u]).type = "file_to_open"
      /\ 1 \in DOMAIN requests[u] /\ u \in alive
      /\ requests' \in [Users -> Seq(RequestSet)]
      /\ \A v \in Users \ {u} : requests'[v] = requests[v]
      /\ UNCHANGED <<client, shared, counts>>
  BY <1>1, TakenInv
<1>3. f \in Files /\ answers[u] = <<>>
  BY <1>2 DEF Inv, RequestsInv
<1>4. /\ RequestsInv(u)' /\ view[u] # "editing"
      /\ requests'[u] # <<>> => view[u] = "login"
  BY <1>1, LastRequest
<1>5. /\ filename' = [filename EXCEPT ![u] = f]
      /\ mapFileWorkers' = Put(mapFileWorkers, f, list)
      /\ f \in Held => symbols_list' = symbols_list /\ changed' = changed
      /\ f \notin Held => symbols_list' = Put(symbols_list, f, read) /\ changed' = Put(changed, f, FALSE)
      /\ Answer(u, answer)
  BY DEF sendFile, storeSymbolsServerMemory
<1>6. /\ Held = DOMAIN mapFileWorkers /\ Held \subseteq Files /\ DOMAIN changed = Held
      /\ \A g \in Held : symbols_list[g] \in Nat /\ changed[g] \in BOOLEAN
      /\ \A g \in Held : symbols_list[g] # 0 => bucket[g] # NoFile
  BY <1>2 DEF Inv, StoreInv, Types, MemoryTypes, Rest, Idle, Stored, Half
<1>7. WorkersOf(f) \in Seq(Users \cup {Deleted})
  BY DEF WorkersOf, Inv, Types, MemoryTypes
<1>8. list \in Seq(Users \cup {Deleted}) /\ ToSet(list) = ToSet(WorkersOf(f)) \cup {u}
  BY <1>7, AppendType
<1>9. read \in Nat /\ (read # 0 => bucket[f] # NoFile) /\ (f \notin Held /\ read # 0 => bucket[f] = read)
  BY <1>3, <1>6 DEF retrieveFile, Inv, Types
<1>10. answer \in AnswerSet /\ answer.type = "file_to_open" /\ answer.symbols = read /\ answer.file = f
  BY <1>3, <1>9 DEF AnswerSet
<1> HIDE DEF read, list, success, answer
<1>11. answers' \in [Users -> Seq(AnswerSet)] /\ \A v \in Users \ {u} : answers'[v] = answers[v]
  BY <1>5, <1>10, AnswerType
<1>12. /\ DOMAIN mapFileWorkers' = DOMAIN mapFileWorkers \cup {f} /\ mapFileWorkers'[f] = list
       /\ \A g \in DOMAIN mapFileWorkers \ {f} : mapFileWorkers'[g] = mapFileWorkers[g]
  BY <1>5 DEF Put
<1>13. /\ DOMAIN symbols_list' = Held \cup {f}
       /\ \A g \in Held : symbols_list'[g] = symbols_list[g]
       /\ f \notin Held => symbols_list'[f] = read
  BY <1>5 DEF Put, Held
<1>14. /\ DOMAIN changed' = Held \cup {f}
       /\ \A g \in Held : changed'[g] = changed[g]
       /\ f \notin Held => changed'[f] = FALSE
  BY <1>5, <1>6 DEF Put
<1>15. filename' \in [Users -> Names] /\ filename'[u] = f /\ \A v \in Users \ {u} : filename'[v] = filename[v]
  BY <1>3, <1>5 DEF Inv, Types, Names
<1>16. MemoryTypes'
  <2>1. DOMAIN symbols_list' \subseteq Files /\ \A g \in DOMAIN symbols_list' : symbols_list'[g] \in Nat
    BY <1>3, <1>6, <1>9, <1>13
  <2>2. DOMAIN changed' = DOMAIN symbols_list' /\ \A g \in DOMAIN symbols_list' : changed'[g] \in BOOLEAN
    BY <1>6, <1>13, <1>14, Zenon
  <2>3. DOMAIN mapFileWorkers' \subseteq Files
        /\ \A g \in DOMAIN mapFileWorkers' : mapFileWorkers'[g] \in Seq(Users \cup {Deleted})
    BY <1>3, <1>8, <1>12 DEF Inv, Types, MemoryTypes
  <2> QED
    BY <2>1, <2>2, <2>3 DEF MemoryTypes, Held
<1>17. Types'
  BY <1>1, <1>2, <1>11, <1>15, <1>16 DEF Inv, Types, counts, client
<1>18. Rest' = Idle /\ serving' = Idle /\ Idle.doing = "nothing"
  BY <1>1, <1>2 DEF Rest, Idle
<1>19. StoreInv'
  <2>1. \A g \in Files : bucket'[g] # NoFile => g \in files'
    BY <1>1 DEF Inv, StoreInv
  <2>2. \A g \in DOMAIN symbols_list' : symbols_list'[g] # 0 => bucket'[g] # NoFile
    BY <1>1, <1>6, <1>9, <1>13
  <2>3. UnchangedIsStored'
    <3>1. ASSUME NEW g \in DOMAIN symbols_list', ~changed'[g], symbols_list'[g] # 0
          PROVE  bucket'[g] = symbols_list'[g]
      <4>1. CASE g \in Held
        BY <1>1, <1>13, <1>14, <3>1, <4>1 DEF Inv, StoreInv, UnchangedIsStored
      <4>2. CASE g \notin Held
        BY <1>1, <1>9, <1>13, <3>1, <4>2
      <4> QED
        BY <4>1, <4>2
    <3> QED
      BY <3>1 DEF UnchangedIsStored, Held
  <2>4. DOMAIN symbols_list' = DOMAIN mapFileWorkers'
    BY <1>6, <1>12, <1>13
  <2> QED
    BY <1>18, <2>1, <2>2, <2>3, <2>4 DEF StoreInv, Held, Stored
<1>20. ClientInv(u)'
  <2>1. ~Creating(u)' /\ ~Leaving(u)'
    BY <1>18 DEF Creating, Leaving
  <2>2. read # 0 => Open(u)'
    BY <1>1, <1>8, <1>9, <1>12, <1>15 DEF Open, Stored
  <2>3. UNCHANGED <<view, alive>>
    BY <1>1, <1>2 DEF client
  <2>4. answer.type # "new_file"
    BY <1>10
  <2>5. view[u] = "home" => requests'[u] = <<>>
    BY <1>4
  <2> QED
    BY <1>2, <1>3, <1>4, <1>5, <1>10, <1>15, <2>1, <2>2, <2>3, <2>4, <2>5, AnsweredInv
<1>21. ASSUME NEW v \in Users, v # u PROVE RequestsInv(v)' /\ ClientInv(v)'
  <2>1. Open(v) => Open(v)'
    <3> SUFFICES ASSUME Open(v) PROVE Open(v)'
      OBVIOUS
    <3>1. filename'[v] = filename[v] /\ filename[v] \in DOMAIN mapFileWorkers'
          /\ bucket'[filename[v]] # NoFile
      BY <1>1, <1>2, <1>12, <1>15, <1>21 DEF Open, Stored, Half, Idle
    <3>2. v \in ToSet(mapFileWorkers'[filename[v]])
      BY <1>8, <1>12 DEF Open, WorkersOf
    <3> QED
      BY <3>1, <3>2 DEF Open, Stored
  <2>2. ~Creating(v)' /\ ~Leaving(v)'
    BY <1>18 DEF Creating, Leaving
  <2>3. requests'[v] = requests[v] /\ answers'[v] = answers[v] /\ view'[v] = view[v]
        /\ openfile'[v] = openfile[v] /\ filename'[v] = filename[v] /\ (v \in alive <=> v \in alive')
    BY <1>1, <1>2, <1>11, <1>15, <1>21 DEF client
  <2> QED
    BY <2>1, <2>2, <2>3, UserKept DEF Inv
<1> QED
  BY <1>4, <1>17, <1>19, <1>20, <1>21 DEF Inv

LEMMA sendFileInv == ASSUME Inv, NEW u \in Users, sendFile(u) PROVE Inv'
BY sendFileOf

LEMMA handleOperationOf ==
  ASSUME Inv, NEW u \in Users, NEW f, filename[u] = f, handleOperation(u) PROVE Inv'
<1>1. /\ Receives(u, "operation") /\ f \in Held
      /\ symbols_list' = [symbols_list EXCEPT ![f] = symbols_list[f] + 1]
      /\ changed' = Put(changed, f, TRUE)
      /\ UNCHANGED <<files, bucket, mapFileWorkers, filename, alive, serving, answers>>
  BY DEF handleOperation
<1>2. /\ serving = Idle /\ requests[u][1] = Head(requests[u]) /\ Head(requests[u]).type = "operation"
      /\ 1 \in DOMAIN requests[u] /\ u \in alive
      /\ requests' \in [Users -> Seq(RequestSet)]
      /\ requests'[u] \in Seq(RequestSet) /\ Len(requests'[u]) = Len(requests[u]) - 1
      /\ \A i \in DOMAIN requests'[u] : i + 1 \in DOMAIN requests[u] /\ requests'[u][i] = requests[u][i + 1]
      /\ \A v \in Users \ {u} : requests'[v] = requests[v]
      /\ UNCHANGED <<client, shared, counts>>
  BY <1>1, TakenInv
<1>3. Open(u) /\ bucket[f] # NoFile /\ ~Creating(u) /\ ~Leaving(u)
  BY <1>2 DEF Inv, RequestsInv, Open, Stored, Half, Idle
<1>4. /\ DOMAIN symbols_list' = Held /\ symbols_list'[f] = symbols_list[f] + 1
      /\ \A g \in Held \ {f} : symbols_list'[g] = symbols_list[g]
  BY <1>1 DEF Held
<1>5. /\ DOMAIN changed = Held /\ DOMAIN changed' = Held /\ changed'[f] = TRUE
      /\ \A g \in Held \ {f} : changed'[g] = changed[g]
  BY <1>1 DEF Put, Inv, Types, MemoryTypes
<1>6. MemoryTypes'
  <2>1. \A g \in Held : symbols_list'[g] \in Nat
    <3>1. \A g \in Held : symbols_list[g] \in Nat
      BY DEF Inv, Types, MemoryTypes
    <3>2. symbols_list'[f] \in Nat
      BY <1>1, <1>4, <3>1
    <3> QED
      BY <1>4, <3>1, <3>2
  <2>2. \A g \in Held : changed'[g] \in BOOLEAN
    BY <1>5, Zenon DEF Inv, Types, MemoryTypes
  <2> QED
    BY <1>1, <1>4, <1>5, <2>1, <2>2 DEF Inv, Types, MemoryTypes, Held
<1>7. Types'
  BY <1>1, <1>2, <1>6 DEF Inv, Types, counts, client
<1>8. Rest' = Idle /\ Rest = Idle /\ serving' = Idle /\ Idle.doing = "nothing"
  BY <1>1, <1>2 DEF Rest, Idle
<1>9. StoreInv'
  <2>1. \A g \in Held : symbols_list'[g] # 0 => bucket'[g] # NoFile
    BY <1>1, <1>2, <1>3, <1>4 DEF Inv, StoreInv, Stored, Half, Idle
  <2>2. UnchangedIsStored'
    <3>1. ASSUME NEW g \in Held, ~changed'[g], symbols_list'[g] # 0
          PROVE  bucket'[g] = symbols_list'[g]
      <4>1. g # f /\ ~changed[g]
        BY <1>5, <3>1
      <4> QED
        BY <1>1, <1>4, <3>1, <4>1 DEF Inv, StoreInv, UnchangedIsStored
    <3> QED
      BY <1>4, <3>1 DEF UnchangedIsStored, Held
  <2>3. \A g \in Files : bucket'[g] # NoFile => g \in files'
    BY <1>1 DEF Inv, StoreInv
  <2>4. DOMAIN symbols_list' = DOMAIN mapFileWorkers'
    BY <1>1, <1>4, <1>8 DEF Inv, StoreInv
  <2> QED
    BY <1>4, <1>8, <2>1, <2>2, <2>3, <2>4 DEF StoreInv, Held, Stored
<1>10. ASSUME NEW v \in Users
       PROVE  (Open(v) => Open(v)') /\ (Creating(v)' <=> Creating(v)) /\ (Leaving(v)' <=> Leaving(v))
  BY <1>1, <1>8, OpenKept DEF Creating, Leaving
<1>11. RequestsInv(u)'
  <2>1. ASSUME NEW i \in DOMAIN requests'[u]
        PROVE  /\ i + 1 \in DOMAIN requests[u] /\ i + 1 # 1 /\ requests'[u][i] = requests[u][i + 1]
               /\ i + 1 = Len(requests[u]) => i = Len(requests'[u])
    BY <1>2 DEF Inv, Types
  <2>2. \A i, j \in DOMAIN requests'[u] : j > i => j + 1 > i + 1
    BY <1>2
  <2>3. RequestsInv(u)
    BY DEF Inv
  <2>4. ASSUME NEW i \in DOMAIN requests'[u]
        PROVE  LET m == requests'[u][i]
               IN  /\ m.type \notin {"new_file", "file_to_open"}
                   /\ m.type \in {"operation", "close"} => m.file = filename[u]
                   /\ m.type # "operation" =>
                        /\ view[u] # "editing"
                        /\ \A j \in DOMAIN requests'[u] : j > i => requests'[u][j].type = "disconnected"
                   /\ m.type = "disconnected" => i = Len(requests'[u]) /\ view[u] = "login"
    <3>1. i + 1 \in DOMAIN requests[u] /\ i + 1 # 1 /\ requests'[u][i] = requests[u][i + 1]
      BY <2>1
    <3>2. ASSUME requests'[u][i].type # "operation", NEW j \in DOMAIN requests'[u], j > i
          PROVE  requests'[u][j].type = "disconnected"
      <4>1. j + 1 \in DOMAIN requests[u] /\ j + 1 > i + 1 /\ requests'[u][j] = requests[u][j + 1]
        BY <2>1, <2>2, <3>2
      <4> QED
        BY <2>3, <3>1, <3>2, <4>1 DEF RequestsInv
    <3> QED
      BY <2>1, <2>3, <3>1, <3>2 DEF RequestsInv
  <2>5. view'[u] = view[u] /\ filename'[u] = filename[u] /\ Open(u)' /\ ~Leaving(u)' /\ ~Creating(u)'
    BY <1>1, <1>2, <1>3, <1>10 DEF client
  <2> QED
    BY <2>4, <2>5 DEF RequestsInv
<1>12. ClientInv(u)'
  <2>1. answers[u] = <<>>
    BY <1>2 DEF Inv, ClientInv
  <2>2. ~(Rest'.doing = "disconnected" /\ Rest'.user = u)
    BY <1>8
  <2> QED
    BY <1>1, <1>2, <1>3, <1>10, <2>1, <2>2 DEF Inv, ClientInv, client
<1>13. ASSUME NEW v \in Users, v # u PROVE RequestsInv(v)' /\ ClientInv(v)'
  BY <1>1, <1>2, <1>10, <1>13, <1>8, UserKept DEF Inv, client
<1> QED
  BY <1>7, <1>9, <1>11, <1>12, <1>13 DEF Inv

LEMMA handleOperationInv == ASSUME Inv, NEW u \in Users, handleOperation(u) PROVE Inv'
BY handleOperationOf

-----------------------------------------------------------------------------
(***************************************************************************)
(* Leaving a file.                                                         *)
(***************************************************************************)

LEMMA RemoveAtType ==
  ASSUME NEW S, NEW s \in Seq(S), NEW i \in 1 .. Len(s)
  PROVE  /\ RemoveAt(s, i) \in Seq(S)
         /\ \A k \in 1 .. Len(s) : k # i => s[k] \in ToSet(RemoveAt(s, i))
<1> DEFINE a == SubSeq(s, 1, i - 1)
           b == SubSeq(s, i + 1, Len(s))
<1>1. /\ 1 \in 1 .. Len(s) + 1 /\ i - 1 \in 0 .. Len(s)
      /\ i + 1 \in 1 .. Len(s) + 1 /\ Len(s) \in 0 .. Len(s)
  OBVIOUS
<1>2. a \in Seq(S) /\ b \in Seq(S)
  BY <1>1, CutType
<1>3. Len(a) = i - 1 /\ \A k \in 1 .. i - 1 : a[k] = s[k]
  BY <1>1
<1>4. Len(b) = Len(s) - i /\ \A k \in 1 .. Len(s) - i : b[k] = s[k + i]
  BY <1>1
<1>5. RemoveAt(s, i) = a \o b
  BY DEF RemoveAt
<1> HIDE DEF a, b
<1>6. a \o b \in Seq(S) /\ Len(a \o b) = Len(s) - 1
  <2>1. a \o b \in Seq(S) /\ Len(a \o b) = Len(a) + Len(b)
    BY <1>2
  <2> QED
    BY <1>3, <1>4, <2>1
<1>7. ASSUME NEW k \in 1 .. Len(s), k # i PROVE s[k] \in ToSet(a \o b)
  <2>1. CASE k < i
    <3>1. k \in 1 .. Len(a) /\ k \in 1 .. Len(a \o b)
      BY <1>3, <1>6, <2>1
    <3>2. (a \o b)[k] = s[k]
      BY <1>2, <1>3, <2>1, <3>1
    <3> QED
      BY <1>6, <3>1, <3>2 DEF ToSet
  <2>2. CASE k > i
    <3>1. k - 1 \in 1 .. Len(a \o b) /\ k - 1 > Len(a) /\ k - 1 - Len(a) = k - i /\ k - i \in 1 .. Len(s) - i
      BY <1>3, <1>6, <2>2
    <3>2. (a \o b)[k - 1] = b[k - i]
      BY <1>2, <1>3, <1>4, <3>1
    <3>3. b[k - i] = s[k]
      <4>1. (k - i) + i = k
        OBVIOUS
      <4> QED
        BY <1>4, <3>1, <4>1
    <3>4. s[k] = (a \o b)[k - 1] /\ k - 1 \in DOMAIN (a \o b)
      BY <1>6, <3>1, <3>2, <3>3
    <3> QED
      BY <3>4 DEF ToSet
  <2> QED
    BY <1>7, <2>1, <2>2
<1> QED
  BY <1>5, <1>6, <1>7

LEMMA LeftByType ==
  ASSUME Types, NEW u \in Users, NEW f \in DOMAIN mapFileWorkers, u \in ToSet(mapFileWorkers[f])
  PROVE  /\ LeftBy(u, f) \in Seq(Users \cup {Deleted})
         /\ \A v \in ToSet(mapFileWorkers[f]) : v # u => v \in ToSet(LeftBy(u, f))
<1> DEFINE list == mapFileWorkers[f]
           i == CHOOSE i \in DOMAIN list : list[i] = u
<1>1. list \in Seq(Users \cup {Deleted})
  BY DEF Types, MemoryTypes
<1>2. i \in 1 .. Len(list) /\ list[i] = u
  BY <1>1 DEF ToSet
<1>3. LeftBy(u, f) = RemoveAt(list, i)
  BY DEF LeftBy
<1> HIDE DEF list, i
<1>4. \A v \in ToSet(list) : v # u => \E k \in 1 .. Len(list) : k # i /\ list[k] = v
  BY <1>1, <1>2 DEF ToSet
<1>5. LeftBy(u, f) \in Seq(Users \cup {Deleted})
      /\ \A v \in ToSet(list) : v # u => v \in ToSet(LeftBy(u, f))
  BY <1>1, <1>2, <1>3, <1>4, RemoveAtType
<1> QED
  BY <1>5 DEF list

\* A user leaves a file, and the server goes on with `serving'.
LEMMA LeftInv ==
  ASSUME Inv, NEW u \in Users, NEW type \in {"close", "disconnected"}, Receives(u, type),
         NEW a \in Leavings, a.user = u, a.doing = IF type = "close" THEN "closed" ELSE "disconnected",
         UNCHANGED <<files, bucket, symbols_list, changed, filename, alive, answers>>,
         DOMAIN mapFileWorkers' \subseteq Files,
         \A g \in DOMAIN mapFileWorkers' : mapFileWorkers'[g] \in Seq(Users \cup {Deleted}),
         \A g \in DOMAIN mapFileWorkers : \A v \in Users \ {u} :
           v \in ToSet(mapFileWorkers[g]) => g \in DOMAIN mapFileWorkers' /\ v \in ToSet(mapFileWorkers'[g]),
         Held \ {a.forget} = DOMAIN mapFileWorkers',
         \/ serving' = a /\ a.forget = NoName
         \/ serving' = [doing |-> "save", todo |-> Held, half |-> NoName, then |-> a]
  PROVE  Inv'
<1>1. /\ serving = Idle /\ requests[u][1] = Head(requests[u]) /\ Head(requests[u]).type = type
      /\ 1 \in DOMAIN requests[u] /\ u \in alive
      /\ requests' \in [Users -> Seq(RequestSet)]
      /\ requests'[u] \in Seq(RequestSet) /\ Len(requests'[u]) = Len(requests[u]) - 1
      /\ \A v \in Users \ {u} : requests'[v] = requests[v]
      /\ UNCHANGED <<client, shared, counts>>
  BY TakenInv
<1>2. /\ \A i \in DOMAIN requests'[u] : requests'[u][i].type = "disconnected"
      /\ requests'[u] # <<>> => view[u] = "login"
      /\ RequestsInv(u)' /\ view[u] # "editing"
  BY LastRequest
<1>3. Held \subseteq Files
  BY DEF Inv, Types, MemoryTypes
<1>4. /\ Rest' = a /\ serving'.doing # "create" /\ serving'.doing # "nothing" /\ a.doing \in {"closed", "disconnected"}
      /\ serving' \in Rests \cup Saves
  <2>1. CASE serving' = a /\ a.forget = NoName
    BY <2>1 DEF Rest, Leavings, Rests
  <2>2. CASE serving' = [doing |-> "save", todo |-> Held, half |-> NoName, then |-> a]
    BY <1>3, <2>2 DEF Rest, Leavings, Rests, Saves, Names
  <2> QED
    BY <2>1, <2>2
<1>5. Types'
  <2>1. MemoryTypes'
    BY DEF Inv, Types, MemoryTypes, Held
  <2> QED
    BY <1>1, <1>4, <2>1 DEF Inv, Types, counts, client
<1>6. StoreInv'
  <2>1. /\ \A f \in Files : bucket'[f] # NoFile => f \in files'
        /\ \A f \in Held : symbols_list'[f] # 0 => bucket'[f] # NoFile
        /\ UnchangedIsStored'
    BY <1>1 DEF Inv, StoreInv, Stored, Half, Idle, UnchangedIsStored, Held
  <2>2. serving'.doing = "save" => serving'.todo = Held /\ serving'.half = NoName
    BY DEF Leavings
  <2>3. serving'.doing \in {"closed", "disconnected"} => serving'.forget \notin Held
    BY <1>3, NamesAssumption DEF NoName
  <2>4. DOMAIN symbols_list' = Held
    BY DEF Held
  <2> QED
    BY <1>4, <2>1, <2>2, <2>3, <2>4 DEF StoreInv, Stored, Held
<1>7. answers[u] = <<>>
  BY <1>1 DEF Inv, ClientInv
<1>8. ClientInv(u)'
  <2>1. type = "disconnected" => view[u] = "login" /\ requests'[u] = <<>>
    <3>1. RequestsInv(u) /\ requests[u][1].type = type
      BY <1>1 DEF Inv
    <3>2. type = "disconnected" => view[u] = "login" /\ 1 = Len(requests[u])
      BY <1>1, <3>1 DEF RequestsInv
    <3>3. type = "disconnected" => Len(requests'[u]) = 0
      BY <1>1, <3>2
    <3> QED
      BY <1>1, <3>2, <3>3, EmptyType
  <2>2. ~Creating(u)'
    BY <1>4 DEF Creating
  <2>3. Rest'.doing = "disconnected" => type = "disconnected"
    BY <1>4
  <2> QED
    BY <1>1, <1>2, <1>7, <2>1, <2>2, <2>3 DEF ClientInv, client
<1>9. ASSUME NEW v \in Users, v # u PROVE RequestsInv(v)' /\ ClientInv(v)'
  <2>1. Open(v) => Open(v)'
    BY <1>1, <1>9 DEF Open, Stored, Half, Idle
  <2>2. ~Creating(v)' /\ ~Leaving(v)'
    BY <1>4, <1>9 DEF Creating, Leaving
  <2>3. requests'[v] = requests[v] /\ answers'[v] = answers[v] /\ view'[v] = view[v]
        /\ openfile'[v] = openfile[v] /\ filename'[v] = filename[v] /\ (v \in alive <=> v \in alive')
    BY <1>1, <1>9 DEF client
  <2> QED
    BY <2>1, <2>2, <2>3, UserKept DEF Inv
<1> QED
  BY <1>2, <1>5, <1>6, <1>8, <1>9 DEF Inv

LEMMA AfterType ==
  ASSUME NEW u \in Users, NEW doing \in {"closed", "disconnected"}
  PROVE  /\ After(doing, u) \in Leavings /\ After(doing, u).forget = NoName
         /\ After(doing, u).doing = doing /\ After(doing, u).user = u
BY DEF After, Leavings, Names

LEMMA leaveFileInv ==
  ASSUME Inv, NEW u \in Users, NEW type \in {"close", "disconnected"}, Receives(u, type),
         NEW f, filename[u] = f,
         NEW doing, doing = IF type = "close" THEN "closed" ELSE "disconnected",
         leaveFile(u, f, After(doing, u)), UNCHANGED <<filename, alive, answers>>
  PROVE  Inv'
<1>1. serving = Idle
  BY DEF Receives
<1>2. Held = DOMAIN mapFileWorkers /\ Held \subseteq Files /\ NoName \notin Files
  BY <1>1, NamesAssumption DEF Inv, StoreInv, Rest, Idle, Types, MemoryTypes, NoName
<1>3. f \in Names /\ doing \in {"closed", "disconnected"}
  BY DEF Inv, Types
<1>4. UNCHANGED <<files, bucket, symbols_list, changed>>
  BY DEF leaveFile
<1>5. \A g \in DOMAIN mapFileWorkers : mapFileWorkers[g] \in Seq(Users \cup {Deleted})
  BY DEF Inv, Types, MemoryTypes
<1> DEFINE rest == LeftBy(u, f)
<1>6. CASE u \notin ToSet(WorkersOf(f))
  <2> DEFINE a == [After(doing, u) EXCEPT !.left = FALSE]
  <2>1. a \in Leavings /\ a.user = u /\ a.doing = doing /\ a.forget = NoName
    BY <1>3 DEF After, Leavings, Names
  <2>2. mapFileWorkers' = mapFileWorkers /\ serving' = a
    BY <1>6 DEF leaveFile
  <2>3. Held \ {NoName} = DOMAIN mapFileWorkers
    BY <1>2
  <2> HIDE DEF a
  <2> QED
    BY <1>2, <1>4, <1>5, <2>1, <2>2, <2>3, LeftInv
<1>7. CASE u \in ToSet(WorkersOf(f))
  <2>1. f \in DOMAIN mapFileWorkers /\ WorkersOf(f) = mapFileWorkers[f]
    BY <1>7 DEF WorkersOf, ToSet
  <2>2. /\ rest \in Seq(Users \cup {Deleted})
        /\ \A v \in ToSet(mapFileWorkers[f]) : v # u => v \in ToSet(rest)
    BY <1>7, <2>1, LeftByType DEF Inv
  <2>3. CASE rest # <<>>
    <3> DEFINE a == After(doing, u)
    <3>1. a \in Leavings /\ a.user = u /\ a.doing = doing /\ a.forget = NoName
      BY <1>3, AfterType
    <3>2. mapFileWorkers' = [mapFileWorkers EXCEPT ![f] = rest] /\ serving' = a
      BY <1>7, <2>3 DEF leaveFile
    <3> HIDE DEF a, rest
    <3>3. /\ DOMAIN mapFileWorkers' = DOMAIN mapFileWorkers
          /\ \A g \in DOMAIN mapFileWorkers : mapFileWorkers'[g] = IF g = f THEN rest ELSE mapFileWorkers[g]
      BY <3>2
    <3>4. Held \ {NoName} = DOMAIN mapFileWorkers'
      BY <1>2, <3>3
    <3>5. \A g \in DOMAIN mapFileWorkers' : mapFileWorkers'[g] \in Seq(Users \cup {Deleted})
      BY <1>5, <2>2, <3>3
    <3>6. \A g \in DOMAIN mapFileWorkers : \A v \in Users \ {u} :
            v \in ToSet(mapFileWorkers[g]) => g \in DOMAIN mapFileWorkers' /\ v \in ToSet(mapFileWorkers'[g])
      BY <2>2, <3>3
    <3>7. DOMAIN mapFileWorkers' \subseteq Files
      BY <1>2, <3>3
    <3> QED
      BY <1>4, <3>1, <3>2, <3>4, <3>5, <3>6, <3>7, LeftInv
  <2>4. CASE rest = <<>>
    <3> DEFINE a == [After(doing, u) EXCEPT !.forget = f]
    <3>1. a \in Leavings /\ a.user = u /\ a.doing = doing /\ a.forget = f
      BY <1>3 DEF After, Leavings
    <3>2. /\ mapFileWorkers' = Restrict(mapFileWorkers, DOMAIN mapFileWorkers \ {f})
          /\ serving' = [doing |-> "save", todo |-> Held, half |-> NoName, then |-> a]
      BY <1>7, <2>4 DEF leaveFile
    <3> HIDE DEF a, rest
    <3>3. /\ DOMAIN mapFileWorkers' = DOMAIN mapFileWorkers \ {f}
          /\ \A g \in DOMAIN mapFileWorkers' : mapFileWorkers'[g] = mapFileWorkers[g]
      BY <3>2 DEF Restrict
    <3>4. Held \ {f} = DOMAIN mapFileWorkers'
      BY <1>2, <3>3
    <3>5. \A v \in Users \ {u} : v \notin ToSet(mapFileWorkers[f])
      BY <2>2, <2>4 DEF ToSet
    <3>6. \A g \in DOMAIN mapFileWorkers : \A v \in Users \ {u} :
            v \in ToSet(mapFileWorkers[g]) => g \in DOMAIN mapFileWorkers' /\ v \in ToSet(mapFileWorkers'[g])
      BY <3>3, <3>5
    <3>7. DOMAIN mapFileWorkers' \subseteq Files
          /\ \A g \in DOMAIN mapFileWorkers' : mapFileWorkers'[g] \in Seq(Users \cup {Deleted})
      BY <1>2, <1>5, <3>3
    <3> QED
      BY <1>4, <3>1, <3>2, <3>4, <3>6, <3>7, LeftInv
  <2> QED
    BY <2>3, <2>4
<1> QED
  BY <1>6, <1>7

LEMMA closeFileInv == ASSUME Inv, NEW u \in Users, closeFile(u) PROVE Inv'
<1>1. Receives(u, "close") /\ leaveFile(u, Head(requests[u]).file, After("closed", u))
      /\ UNCHANGED <<filename, alive, answers>>
  BY DEF closeFile
<1>2. Head(requests[u]).file = filename[u]
  <2>1. requests[u][1] = Head(requests[u]) /\ Head(requests[u]).type = "close" /\ 1 \in DOMAIN requests[u]
    BY <1>1, TakenInv
  <2> QED
    BY <2>1 DEF Inv, RequestsInv
<1> QED
  BY <1>1, <1>2, leaveFileInv

LEMMA userDisconnectedInv == ASSUME Inv, NEW u \in Users, userDisconnected(u) PROVE Inv'
<1>1. Receives(u, "disconnected") /\ UNCHANGED <<filename, alive, answers>>
  BY DEF userDisconnected
<1>2. CASE filename[u] = NoName
  <2>1. serving' = After("disconnected", u) /\ UNCHANGED <<files, bucket, memory>>
    BY <1>2 DEF userDisconnected
  <2>2. /\ After("disconnected", u) \in Leavings /\ After("disconnected", u).user = u
        /\ After("disconnected", u).doing = "disconnected" /\ After("disconnected", u).forget = NoName
    BY AfterType DEF Names
  <2>3. Held \ {NoName} = DOMAIN mapFileWorkers'
    BY <1>1, <2>1, NamesAssumption
    DEF Inv, StoreInv, Rest, Idle, Types, MemoryTypes, NoName, Receives, memory
  <2>4. DOMAIN mapFileWorkers' \subseteq Files
        /\ \A g \in DOMAIN mapFileWorkers' : mapFileWorkers'[g] \in Seq(Users \cup {Deleted})
    BY <2>1 DEF Inv, Types, MemoryTypes, memory
  <2> QED
    BY <1>1, <2>1, <2>2, <2>3, <2>4, LeftInv DEF memory
<1>3. CASE filename[u] # NoName
  <2>1. leaveFile(u, filename[u], After("disconnected", u))
    BY <1>3 DEF userDisconnected
  <2> QED
    BY <1>1, <2>1, leaveFileInv
<1> QED
  BY <1>2, <1>3

\* The worker's file and the lists after a user has left.
LEMMA finishLeavingOf ==
  ASSUME Inv, NEW u \in Users, NEW a \in Leavings, serving = a, a.user = u, finishLeaving
  PROVE  Inv'
<1> DEFINE f == a.forget
<1>1. a.doing \in {"closed", "disconnected"} /\ a.left \in BOOLEAN /\ f \in Names
  BY DEF Leavings
<1>2. Rest = a /\ Leaving(u)
  BY <1>1 DEF Rest, Leaving
<1>3. /\ symbols_list' = Restrict(symbols_list, Held \ {f}) /\ changed' = Restrict(changed, Held \ {f})
      /\ filename' = [filename EXCEPT ![u] = IF a.doing = "closed" /\ a.left THEN NoName ELSE filename[u]]
      /\ serving' = Idle
      /\ UNCHANGED <<files, bucket, requests, answers, client, shared, counts>>
  BY DEF finishLeaving, ForgetsSymbols
<1>4. /\ a.doing = "disconnected" => alive' = alive \ {u} /\ mapFileWorkers' = Dangling(u)
      /\ a.doing # "disconnected" => alive' = alive /\ mapFileWorkers' = mapFileWorkers
  BY DEF finishLeaving
<1>5. /\ Held \ {f} = DOMAIN mapFileWorkers /\ DOMAIN changed = Held /\ Held \subseteq Files
      /\ f \in Held => ~changed[f]
  BY <1>1, <1>2 DEF Inv, StoreInv, Types, MemoryTypes
<1> HIDE DEF f
<1>6. /\ DOMAIN symbols_list' = Held \ {f} /\ DOMAIN changed' = Held \ {f}
      /\ \A g \in Held \ {f} : symbols_list'[g] = symbols_list[g] /\ changed'[g] = changed[g]
  BY <1>3, <1>5 DEF Restrict, Held
<1>7. /\ DOMAIN mapFileWorkers' = DOMAIN mapFileWorkers
      /\ \A g \in DOMAIN mapFileWorkers : mapFileWorkers'[g] \in Seq(Users \cup {Deleted})
      /\ \A g \in DOMAIN mapFileWorkers : \A v \in Users \ {u} :
           v \in ToSet(mapFileWorkers[g]) => v \in ToSet(mapFileWorkers'[g])
  <2>1. \A g \in DOMAIN mapFileWorkers : mapFileWorkers[g] \in Seq(Users \cup {Deleted})
    BY DEF Inv, Types, MemoryTypes
  <2>2. CASE a.doing = "disconnected"
    <3> DEFINE after(list) == [i \in DOMAIN list |-> IF list[i] = u THEN Deleted ELSE list[i]]
    <3>1. mapFileWorkers' = [g \in DOMAIN mapFileWorkers |-> after(mapFileWorkers[g])]
      BY <1>4, <2>2 DEF Dangling
    <3>2. ASSUME NEW list \in Seq(Users \cup {Deleted})
          PROVE  /\ after(list) \in Seq(Users \cup {Deleted})
                 /\ \A v \in Users \ {u} : v \in ToSet(list) => v \in ToSet(after(list))
      <4>1. after(list) \in [1 .. Len(list) -> Users \cup {Deleted}] /\ Len(list) \in Nat
        OBVIOUS
      <4>2. after(list) \in Seq(Users \cup {Deleted})
        BY <4>1
      <4>3. ASSUME NEW v \in Users \ {u}, v \in ToSet(list) PROVE v \in ToSet(after(list))
        <5>1. PICK i \in DOMAIN list : list[i] = v
          BY <4>3 DEF ToSet
        <5>2. i \in DOMAIN after(list) /\ after(list)[i] = v
          BY <5>1
        <5> QED
          BY <5>2 DEF ToSet
      <4> QED
        BY <4>2, <4>3
    <3> HIDE DEF after
    <3> QED
      BY <2>1, <3>1, <3>2
  <2>3. CASE a.doing # "disconnected"
    BY <1>4, <2>1, <2>3
  <2> QED
    BY <2>2, <2>3
<1>8. /\ filename' \in [Users -> Names] /\ alive' \subseteq Users
      /\ \A v \in Users \ {u} : filename'[v] = filename[v] /\ (v \in alive' <=> v \in alive)
      /\ a.doing = "disconnected" => filename'[u] = filename[u]
  BY <1>3, <1>4 DEF Inv, Types, Names
<1>9. MemoryTypes'
  <2>1. \A g \in Held \ {f} : symbols_list'[g] \in Nat
    BY <1>6 DEF Inv, Types, MemoryTypes
  <2>2. \A g \in Held \ {f} : changed'[g] \in BOOLEAN
    BY <1>6, Zenon DEF Inv, Types, MemoryTypes
  <2> QED
    BY <1>5, <1>6, <1>7, <2>1, <2>2 DEF MemoryTypes, Held
<1>10. Types'
  BY <1>3, <1>8, <1>9 DEF Inv, Types, counts, client, Rests
<1>11. Rest' = Idle /\ serving' = Idle /\ Idle.doing = "nothing"
  BY <1>3 DEF Rest, Idle
<1>12. StoreInv'
  <2>1. \A g \in Files : bucket'[g] # NoFile => g \in files'
    BY <1>3 DEF Inv, StoreInv
  <2>2. \A g \in Held \ {f} : symbols_list'[g] # 0 => bucket'[g] # NoFile
    BY <1>1, <1>3, <1>6 DEF Inv, StoreInv, Stored, Half
  <2>3. UnchangedIsStored'
    BY <1>3, <1>6 DEF Inv, StoreInv, UnchangedIsStored, Held
  <2> QED
    BY <1>5, <1>6, <1>7, <1>11, <2>1, <2>2, <2>3 DEF StoreInv, Held, Stored
<1>13. ~Creating(u)' /\ \A v \in Users : ~Leaving(v)' /\ ~Creating(v)'
  BY <1>11 DEF Creating, Leaving
<1>14. RequestsInv(u)'
  <2>1. RequestsInv(u) /\ \A i \in DOMAIN requests[u] : requests[u][i].type \notin {"operation", "close"}
    BY <1>2 DEF Inv, RequestsInv
  <2> QED
    BY <1>3, <1>13, <2>1 DEF RequestsInv, client
<1>15. ClientInv(u)'
  <2>1. view[u] # "editing" /\ answers[u] = <<>>
    BY <1>2 DEF Inv, ClientInv
  <2>2. a.doing = "disconnected" => requests[u] = <<>> /\ view[u] = "login"
    BY <1>2 DEF Inv, ClientInv
  <2>3. u \notin alive => view[u] = "login" /\ requests[u] = <<>>
    BY DEF Inv, ClientInv
  <2> QED
    BY <1>3, <1>4, <1>11, <1>13, <2>1, <2>2, <2>3 DEF ClientInv, client
<1>16. ASSUME NEW v \in Users, v # u PROVE RequestsInv(v)' /\ ClientInv(v)'
  <2>1. Open(v) => Open(v)'
    BY <1>1, <1>3, <1>7, <1>8, <1>16 DEF Open, Stored, Half
  <2>2. requests'[v] = requests[v] /\ answers'[v] = answers[v] /\ view'[v] = view[v]
        /\ openfile'[v] = openfile[v] /\ filename'[v] = filename[v] /\ (v \in alive <=> v \in alive')
    BY <1>3, <1>8, <1>16 DEF client
  <2> QED
    BY <1>13, <2>1, <2>2, UserKept DEF Inv
<1> QED
  BY <1>10, <1>12, <1>14, <1>15, <1>16 DEF Inv

LEMMA finishLeavingInv == ASSUME Inv, finishLeaving PROVE Inv'
<1>1. serving \in Leavings
  BY ServingType DEF Inv, finishLeaving
<1>2. serving.user \in Users
  BY <1>1 DEF Leavings
<1> QED
  BY <1>1, <1>2, finishLeavingOf

-----------------------------------------------------------------------------
(***************************************************************************)
(* Saving.                                                                 *)
(***************************************************************************)

\* Users notice nothing of a save.
LEMMA SavingInv ==
  ASSUME Inv, Rest' = Rest, serving'.doing # "create",
         \A g \in Files : Stored(g) => Stored(g)',
         UNCHANGED <<mapFileWorkers, filename, alive, requests, answers, client>>
  PROVE  UsersInv'
<1> SUFFICES ASSUME NEW u \in Users PROVE RequestsInv(u)' /\ ClientInv(u)'
  BY DEF UsersInv
<1>1. Open(u) => Open(u)'
  BY DEF Open, Inv, Types, MemoryTypes
<1>2. ~Creating(u)' /\ (Leaving(u)' => Leaving(u) /\ Rest'.doing = Rest.doing)
  BY DEF Creating, Leaving
<1> QED
  BY <1>1, <1>2, UserKept DEF Inv, client

LEMMA saveTimerInv == ASSUME Inv, saveTimer PROVE Inv'
<1>1. /\ serving = Idle /\ serving' = [doing |-> "save", todo |-> Held, half |-> NoName, then |-> Idle]
      /\ UNCHANGED <<files, bucket, memory, filename, alive, requests, answers, client, shared, counts>>
  BY DEF saveTimer
<1>2. Held \subseteq Files
  BY DEF Inv, Types, MemoryTypes
<1>3. Rest' = Rest /\ Rest = Idle
  BY <1>1 DEF Rest, Idle
<1>4. serving' \in Saves
  BY <1>1, <1>2 DEF Saves, Rests, Names
<1>5. Types'
  BY <1>1, <1>4 DEF Inv, Types, MemoryTypes, memory, counts, client, Held
<1>6. \A g : Stored(g) => bucket[g] # NoFile
  BY <1>1 DEF Stored, Half, Idle
<1>7. StoreInv'
  BY <1>1, <1>3, <1>6 DEF Inv, StoreInv, memory, Held, UnchangedIsStored, Stored, Idle
<1>8. UsersInv'
  BY <1>1, <1>3, <1>6, SavingInv DEF Stored, memory
<1> QED
  BY <1>5, <1>7, <1>8 DEF Inv, UsersInv

LEMMA saveDoneInv == ASSUME Inv, saveDone PROVE Inv'
<1>1. /\ serving.doing = "save" /\ serving.todo = {} /\ serving' = serving.then
      /\ UNCHANGED <<files, bucket, memory, filename, alive, requests, answers, client, shared, counts>>
  BY DEF saveDone
<1>2. serving \in Saves /\ serving' \in Rests
  BY <1>1, ServingType DEF Inv, Saves
<1>3. serving'.doing \in {"nothing", "closed", "disconnected"}
  BY <1>2 DEF Rests, Idle, Leavings
<1>4. Rest' = Rest
  BY <1>1, <1>3 DEF Rest
<1>5. Types'
  BY <1>1, <1>2 DEF Inv, Types, MemoryTypes, memory, counts, client, Held
<1>6. serving.half = NoName /\ \A g \in Held : ~changed[g]
  BY <1>1 DEF Inv, StoreInv
<1>7. \A g \in Files : Stored(g) => bucket[g] # NoFile
  BY <1>6, NamesAssumption DEF Stored, Half, NoName
<1>8. StoreInv'
  <2>1. \A g \in Held : symbols_list[g] # 0 => bucket[g] # NoFile
    BY <1>7 DEF Inv, StoreInv, Types, MemoryTypes
  <2> QED
    BY <1>1, <1>3, <1>4, <1>6, <2>1 DEF Inv, StoreInv, memory, Held, UnchangedIsStored, Stored
<1>9. UsersInv'
  BY <1>1, <1>3, <1>4, <1>7, SavingInv DEF Stored, memory
<1> QED
  BY <1>5, <1>8, <1>9 DEF Inv, UsersInv

LEMMA SavingType ==
  ASSUME Inv, NEW f, Saving(f)
  PROVE  /\ serving \in Saves /\ serving.doing = "save" /\ f \in serving.todo /\ f \in Held /\ f \in Files
         /\ DOMAIN changed = Held
         /\ UNCHANGED <<files, symbols_list, mapFileWorkers, filename, alive, requests, answers,
                        client, shared, counts>>
BY ServingType DEF Inv, Saving, Saves, Types, MemoryTypes, StoreInv

\* The flag of the file is reset.
LEMMA FlagReset ==
  ASSUME NEW f, f \in DOMAIN changed, changed' = Put(changed, f, FALSE)
  PROVE  DOMAIN changed' = DOMAIN changed /\ changed'[f] = FALSE
         /\ \A g \in DOMAIN changed \ {f} : changed'[g] = changed[g]
BY DEF Put

LEMMA FlagTypes ==
  ASSUME Inv, NEW f \in Held, changed' = Put(changed, f, FALSE), UNCHANGED <<symbols_list, mapFileWorkers>>
  PROVE  MemoryTypes'
<1>1. DOMAIN changed = Held /\ \A g \in Held : changed[g] \in BOOLEAN
  BY DEF Inv, Types, MemoryTypes
<1>2. DOMAIN changed' = Held /\ \A g \in Held : changed'[g] \in BOOLEAN
  BY <1>1, FlagReset, Zenon
<1> QED
  BY <1>2 DEF Inv, Types, MemoryTypes, Held

LEMMA SaveSkipsInv == ASSUME Inv, NEW f \in Files, SaveSkips(f) PROVE Inv'
<1>1. /\ serving \in Saves /\ serving.doing = "save" /\ f \in serving.todo /\ f \in Held
      /\ DOMAIN changed = Held
      /\ UNCHANGED <<files, symbols_list, mapFileWorkers, filename, alive, requests, answers,
                     client, shared, counts>>
  BY SavingType DEF SaveSkips
<1>2. /\ serving.half = NoName /\ (~changed[f] \/ bucket[f] = NoFile)
      /\ serving' = [serving EXCEPT !.todo = serving.todo \ {f}]
      /\ changed' = Put(changed, f, FALSE) /\ UNCHANGED bucket
  BY DEF SaveSkips
<1>3. /\ serving' \in Saves /\ serving'.doing = "save" /\ serving'.todo = serving.todo \ {f}
      /\ serving'.half = NoName /\ serving'.then = serving.then
  BY <1>1, <1>2 DEF Saves
<1>4. /\ DOMAIN changed' = Held /\ changed'[f] = FALSE
      /\ \A g \in Held \ {f} : changed'[g] = changed[g]
  BY <1>1, <1>2, FlagReset
<1>5. Types'
  <2>1. MemoryTypes'
    BY <1>1, <1>2, FlagTypes
  <2> QED
    BY <1>1, <1>2, <1>3, <2>1 DEF Inv, Types, counts, client
<1>6. Rest' = Rest
  BY <1>1, <1>3 DEF Rest
<1>7. \A g : (Stored(g) => Stored(g)') /\ (Half(g)' <=> Half(g))
  BY <1>1, <1>2, <1>3 DEF Stored, Half
<1>8. StoreInv'
  <2>1. symbols_list[f] # 0 => bucket[f] # NoFile
    BY <1>1, <1>2, NamesAssumption DEF Inv, StoreInv, Stored, Half, NoName
  <2>2. UnchangedIsStored'
    <3>1. ASSUME NEW g \in Held, ~changed'[g], symbols_list[g] # 0 PROVE bucket[g] = symbols_list[g]
      <4>1. ~changed[g]
        BY <1>2, <1>4, <2>1, <3>1
      <4> QED
        BY <3>1, <4>1 DEF Inv, StoreInv, UnchangedIsStored
    <3> QED
      BY <1>1, <1>2, <3>1 DEF UnchangedIsStored, Held
  <2>3. serving'.todo \subseteq Held /\ \A g \in Held \ serving'.todo : ~changed'[g]
    BY <1>1, <1>3, <1>4 DEF Inv, StoreInv
  <2>4. \A g \in Held : symbols_list[g] # 0 => Stored(g)'
    BY <1>7 DEF Inv, StoreInv
  <2> QED
    BY <1>1, <1>2, <1>3, <1>6, <2>2, <2>3, <2>4 DEF Inv, StoreInv, Held
<1>9. UsersInv'
  BY <1>1, <1>3, <1>6, <1>7, SavingInv
<1> QED
  BY <1>5, <1>8, <1>9 DEF Inv, UsersInv

LEMMA SaveDeletesInv == ASSUME Inv, NEW f \in Files, SaveDeletes(f) PROVE Inv'
<1>1. /\ serving \in Saves /\ serving.doing = "save" /\ f \in serving.todo /\ f \in Held
      /\ DOMAIN changed = Held
      /\ UNCHANGED <<files, symbols_list, mapFileWorkers, filename, alive, requests, answers,
                     client, shared, counts>>
  BY SavingType DEF SaveDeletes
<1>2. /\ serving.half = NoName /\ changed[f] /\ bucket[f] # NoFile
      /\ serving' = [serving EXCEPT !.half = f]
      /\ bucket' = [bucket EXCEPT ![f] = NoFile] /\ UNCHANGED changed
  BY DEF SaveDeletes
<1>3. /\ serving' \in Saves /\ serving'.doing = "save" /\ serving'.todo = serving.todo
      /\ serving'.half = f /\ serving'.then = serving.then
  BY <1>1, <1>2 DEF Saves, Names
<1>4. /\ bucket' \in [Files -> Nat \cup {NoFile}] /\ bucket'[f] = NoFile
      /\ \A g \in Files \ {f} : bucket'[g] = bucket[g]
  BY <1>2 DEF Inv, Types
<1>5. Types'
  BY <1>1, <1>2, <1>3, <1>4 DEF Inv, Types, MemoryTypes, counts, client, Held
<1>6. Rest' = Rest
  BY <1>1, <1>3 DEF Rest
<1>7. \A g \in Files : Stored(g) => Stored(g)'
  BY <1>2, <1>3, <1>4, NamesAssumption DEF Stored, Half, NoName
<1>8. StoreInv'
  <2>1. UnchangedIsStored'
    BY <1>1, <1>2, <1>4 DEF Inv, StoreInv, Types, MemoryTypes, UnchangedIsStored, Held
  <2>2. \A g \in Files : bucket'[g] # NoFile => g \in files
    BY <1>4 DEF Inv, StoreInv
  <2>3. \A g \in Held : symbols_list[g] # 0 => Stored(g)'
    BY <1>7 DEF Inv, StoreInv, Types, MemoryTypes
  <2>4. f \in files
    BY <1>2 DEF Inv, StoreInv
  <2> QED
    BY <1>1, <1>2, <1>3, <1>6, <2>1, <2>2, <2>3, <2>4 DEF Inv, StoreInv, Held
<1>9. UsersInv'
  BY <1>1, <1>3, <1>6, <1>7, SavingInv
<1> QED
  BY <1>5, <1>8, <1>9 DEF Inv, UsersInv

LEMMA SaveUploadsInv == ASSUME Inv, NEW f \in Files, SaveUploads(f) PROVE Inv'
<1>1. /\ serving \in Saves /\ serving.doing = "save" /\ f \in serving.todo /\ f \in Held
      /\ DOMAIN changed = Held
      /\ UNCHANGED <<files, symbols_list, mapFileWorkers, filename, alive, requests, answers,
                     client, shared, counts>>
  BY SavingType DEF SaveUploads
<1>2. /\ serving.half = f
      /\ serving' = [serving EXCEPT !.todo = serving.todo \ {f}, !.half = NoName]
      /\ bucket' = [bucket EXCEPT ![f] = symbols_list[f]] /\ changed' = Put(changed, f, FALSE)
  BY DEF SaveUploads
<1>3. /\ serving' \in Saves /\ serving'.doing = "save" /\ serving'.todo = serving.todo \ {f}
      /\ serving'.half = NoName /\ serving'.then = serving.then
  BY <1>1, <1>2 DEF Saves, Names
<1>4. symbols_list[f] \in Nat
  BY <1>1 DEF Inv, Types, MemoryTypes
<1>5. /\ bucket' \in [Files -> Nat \cup {NoFile}] /\ bucket'[f] = symbols_list[f]
      /\ \A g \in Files \ {f} : bucket'[g] = bucket[g]
      /\ bucket'[f] # NoFile
  BY <1>2, <1>4 DEF Inv, Types, NoFile
<1>6. /\ DOMAIN changed' = Held /\ changed'[f] = FALSE
      /\ \A g \in Held \ {f} : changed'[g] = changed[g]
  BY <1>1, <1>2, FlagReset
<1>7. Types'
  <2>1. MemoryTypes'
    BY <1>1, <1>2, FlagTypes
  <2> QED
    BY <1>1, <1>3, <1>5, <2>1 DEF Inv, Types, counts, client
<1>8. Rest' = Rest
  BY <1>1, <1>3 DEF Rest
<1>9. \A g \in Files : Stored(g) => Stored(g)'
  BY <1>2, <1>5 DEF Stored, Half
<1>10. StoreInv'
  <2>1. UnchangedIsStored'
    <3>1. ASSUME NEW g \in Held, ~changed'[g], symbols_list[g] # 0 PROVE bucket'[g] = symbols_list[g]
      <4>1. g # f => ~changed[g] /\ g \in Files /\ bucket'[g] = bucket[g]
        BY <1>5, <1>6, <3>1 DEF Inv, Types, MemoryTypes
      <4> QED
        BY <1>5, <3>1, <4>1 DEF Inv, StoreInv, UnchangedIsStored
    <3> QED
      BY <1>1, <3>1 DEF UnchangedIsStored, Held
  <2>2. \A g \in Files : bucket'[g] # NoFile => g \in files
    BY <1>1, <1>2, <1>5, NamesAssumption DEF Inv, StoreInv, NoName
  <2>3. \A g \in Held : symbols_list[g] # 0 => Stored(g)'
    BY <1>9 DEF Inv, StoreInv, Types, MemoryTypes
  <2>4. serving'.todo \subseteq Held /\ \A g \in Held \ serving'.todo : ~changed'[g]
    BY <1>1, <1>3, <1>6 DEF Inv, StoreInv
  <2> QED
    BY <1>1, <1>3, <1>8, <2>1, <2>2, <2>3, <2>4 DEF Inv, StoreInv, Held
<1>11. UsersInv'
  BY <1>1, <1>3, <1>8, <1>9, SavingInv
<1> QED
  BY <1>7, <1>10, <1>11 DEF Inv, UsersInv

-----------------------------------------------------------------------------
(***************************************************************************)
(* Crashes, and the theorems.                                              *)
(***************************************************************************)

LEMMA EmptyFunction == DOMAIN <<>> = {}
OBVIOUS

\* Nothing in memory and nobody connected.
LEMMA CrashInv == ASSUME Inv, Crash PROVE Inv'
<1>1. /\ symbols_list' = <<>> /\ changed' = <<>> /\ mapFileWorkers' = <<>>
      /\ alive' = {} /\ filename' = [u \in Users |-> NoName] /\ serving' = Idle
      /\ requests' = [u \in Users |-> <<>>] /\ answers' = [u \in Users |-> <<>>]
      /\ view' = [u \in Users |-> "login"] /\ openfile' = [u \in Users |-> NoName]
      /\ UNCHANGED <<files, bucket, shared, typed, drops>>
  BY DEF Crash
<1>2. crashes' \in 0 .. MaxCrashes
  BY LimitsAssumption DEF Inv, Types, Crash
<1>3. MemoryTypes'
  BY <1>1, EmptyFunction DEF MemoryTypes, Held
<1>4. <<>> \in Seq(RequestSet) /\ <<>> \in Seq(AnswerSet)
  OBVIOUS
<1>5. Types'
  BY <1>1, <1>2, <1>3, <1>4 DEF Inv, Types, Names, Rests
<1>6. Rest' = Idle /\ serving' = Idle /\ Idle.doing = "nothing"
  BY <1>1 DEF Rest, Idle
<1>7. StoreInv'
  BY <1>1, <1>6, EmptyFunction DEF Inv, StoreInv, Held, UnchangedIsStored
<1>8. ASSUME NEW u \in Users PROVE RequestsInv(u)' /\ ClientInv(u)'
  <2>1. /\ requests'[u] = <<>> /\ answers'[u] = <<>> /\ view'[u] = "login" /\ ~Creating(u)'
        /\ Rest'.doing # "disconnected"
    BY <1>1, <1>6 DEF Creating
  <2> QED
    BY <2>1, EmptyFunction DEF RequestsInv, ClientInv
<1> QED
  BY <1>5, <1>7, <1>8 DEF Inv

LEMMA InitInv == Init => Inv
<1> SUFFICES ASSUME Init PROVE Inv
  OBVIOUS
<1>1. MemoryTypes
  BY EmptyFunction DEF Init, MemoryTypes, Held
<1>2. <<>> \in Seq(RequestSet) /\ <<>> \in Seq(AnswerSet)
  OBVIOUS
<1>3. Types
  BY <1>1, <1>2, ExistingAssumption, LimitsAssumption DEF Init, Types, Names, Rests, NoFile
<1>4. Rest = Idle /\ serving = Idle /\ Idle.doing = "nothing"
  BY DEF Init, Rest, Idle
<1>5. StoreInv
  BY <1>4, ExistingAssumption, EmptyFunction DEF Init, StoreInv, Held, UnchangedIsStored, NoFile
<1>6. ASSUME NEW u \in Users PROVE RequestsInv(u) /\ ClientInv(u)
  <2>1. /\ requests[u] = <<>> /\ answers[u] = <<>> /\ view[u] = "home" /\ ~Creating(u) /\ u \in alive
        /\ Rest.doing # "disconnected"
    BY <1>4 DEF Init, Creating
  <2> QED
    BY <2>1, EmptyFunction DEF RequestsInv, ClientInv
<1> QED
  BY <1>3, <1>5, <1>6 DEF Inv

LEMMA StutterInv == ASSUME Inv, UNCHANGED vars PROVE Inv'
<1>1. Types'
  BY DEF Inv, Types, MemoryTypes, Held, vars, memory, client, counts
<1>2. StoreInv'
  BY StoreKept DEF Inv, vars
<1>3. ASSUME NEW u \in Users PROVE RequestsInv(u)' /\ ClientInv(u)'
  <2>1. Open(u) => Open(u)'
    BY OpenKept DEF vars, memory
  <2>2. (Creating(u)' <=> Creating(u)) /\ (Leaving(u)' <=> Leaving(u)) /\ Rest' = Rest /\ serving' = serving
    BY DEF Creating, Leaving, Rest, vars
  <2> QED
    BY <2>1, <2>2, UserKept DEF Inv, vars, client
<1> QED
  BY <1>1, <1>2, <1>3 DEF Inv

LEMMA NextInv == ASSUME ~Impatient, Inv, [Next]_vars PROVE Inv'
<1>1. ASSUME NEW u \in Users, Client(u) PROVE Inv'
  BY <1>1, ClientCreatesInv, ClientOpensInv, ClientTypesInv, ClientClosesInv, ConnectionDropsInv, ClientConnectsInv
  DEF Client
<1>2. ASSUME NEW u \in Users, Hears(u) PROVE Inv'
  BY <1>2, ClientHearsNewFileInv, ClientHearsFileInv DEF Hears
<1>3. ASSUME NEW u \in Users, Handles(u) PROVE Inv'
  BY <1>3, createNewFileInv, sendFileInv, handleOperationInv, closeFileInv, userDisconnectedInv DEF Handles
<1>4. CASE Continues
  BY <1>4, insertNewFileInv, finishLeavingInv, saveDoneInv, SaveSkipsInv, SaveDeletesInv, SaveUploadsInv
  DEF Continues
<1> QED
  BY <1>1, <1>2, <1>3, <1>4, saveTimerInv, CrashInv, StutterInv DEF Next

LEMMA InvImplies == Inv => TypeOK /\ UnchangedIsStored /\ OperationsReachTheirFile /\ HeldWhileOpen
<1> SUFFICES ASSUME Inv PROVE TypeOK /\ UnchangedIsStored /\ OperationsReachTheirFile /\ HeldWhileOpen
  OBVIOUS
<1>1. HeldWhileOpen
  BY DEF Inv, StoreInv, HeldWhileOpen, Rest, Idle
<1>2. ASSUME NEW u \in Users, requests[u] # <<>>, serving = Idle, Head(requests[u]).type = "operation"
      PROVE  filename[u] = Head(requests[u]).file /\ Head(requests[u]).file \in Held
  <2>1. 1 \in DOMAIN requests[u] /\ Head(requests[u]) = requests[u][1]
    BY <1>2 DEF Inv, Types
  <2> QED
    BY <1>1, <1>2, <2>1 DEF Inv, RequestsInv, Open, HeldWhileOpen
<1>3. OperationsReachTheirFile
  BY <1>2 DEF OperationsReachTheirFile, Inv, StoreInv
<1>4. TypeOK
  <2>1. serving.doing \in {"nothing", "create", "save", "closed", "disconnected"}
    BY DEF Inv, Types, Rests, Idle, Leavings, Creations, Saves
  <2>2. ASSUME NEW u \in Users
        PROVE  /\ \A i \in DOMAIN requests[u] : requests[u][i].file \in Files \cup {NoName}
               /\ \A i \in DOMAIN answers[u] : answers[u][i].success \in BOOLEAN
    <3>1. /\ \A i \in DOMAIN requests[u] : requests[u][i] \in RequestSet
          /\ \A i \in DOMAIN answers[u] : answers[u][i] \in AnswerSet
      BY DEF Inv, Types
    <3>2. \A m \in RequestSet : m.file \in Files \cup {NoName}
      BY DEF RequestSet, Names
    <3>3. \A m \in AnswerSet : m.success \in BOOLEAN
      BY DEF AnswerSet
    <3> QED
      BY <3>1, <3>2, <3>3
  <2> QED
    BY <2>1, <2>2 DEF Inv, Types, MemoryTypes, TypeOK, Names
<1> QED
  BY <1>1, <1>3, <1>4 DEF Inv, StoreInv

\* Memory, database and clients agree as Inv says, as long as users wait for an
\* answer before they ask again.
THEOREM Invariant == ASSUME ~Impatient PROVE Spec => []Inv
BY InitInv, NextInv, PTL DEF Spec

\* The variables of FileStore have their types.
THEOREM TypesKept == ASSUME ~Impatient PROVE Spec => []TypeOK
BY Invariant, InvImplies, PTL

\* Symbols in memory that are not marked as changed are in the database, at
\* every step of a save and after every crash.
THEOREM UnchangedIsStoredHolds == ASSUME ~Impatient PROVE Spec => []UnchangedIsStored
BY Invariant, InvImplies, PTL

\* An operation meets the symbols of the file its sender edits, in memory; a
\* file is never created twice.
THEOREM OperationsReachTheirFileHolds == ASSUME ~Impatient PROVE Spec => []OperationsReachTheirFile
BY Invariant, InvImplies, PTL

\* Between two requests the server holds the files somebody has open, and no
\* others.
THEOREM HeldWhileOpenHolds == ASSUME ~Impatient PROVE Spec => []HeldWhileOpen
BY Invariant, InvImplies, PTL

-----------------------------------------------------------------------------
(***************************************************************************)
(* The refinement: each file is a document of Documents.                   *)
(***************************************************************************)

\* A stored copy that was not changed since is the one in memory, also when it
\* has no symbols.
CopyInv == \A f \in Held : ~changed[f] /\ bucket[f] # NoFile => bucket[f] = symbols_list[f]

\* Nothing happens to the documents.
LEMMA SameDocuments ==
  ASSUME CopyInv, UNCHANGED <<bucket, symbols_list>>,
         \A f \in Files : Half(f)' <=> Half(f),
         \A f \in Held : ~changed'[f] => ~changed[f] \/ bucket[f] = NoFile
  PROVE  CopyInv' /\ UNCHANGED Store!vars
<1>1. CopyInv'
  BY DEF CopyInv, Held
<1>2. \A f \in Files : Document(f)' = Document(f)
  BY DEF Document, Held
<1> QED
  BY <1>1, <1>2 DEF Store!vars

\* All documents are stored, but for the one that is just being saved.
LEMMA AllSaved == ASSUME Inv, \A f \in Files : ~Half(f) PROVE Store!AllSaved
BY DEF Store!AllSaved, Document

\* A user leaves a list, and the server goes on or begins to save.
LEMMA leaveFileServing ==
  ASSUME NEW u, NEW f, NEW doing \in {"closed", "disconnected"}, leaveFile(u, f, After(doing, u))
  PROVE  serving'.doing # "save" \/ serving'.half = NoName
<1>1. CASE u \notin ToSet(WorkersOf(f))
  <2>1. serving' = [After(doing, u) EXCEPT !.left = FALSE]
    BY <1>1 DEF leaveFile
  <2> QED
    BY <2>1 DEF After
<1>2. CASE u \in ToSet(WorkersOf(f)) /\ LeftBy(u, f) # <<>>
  <2>1. serving' = After(doing, u)
    BY <1>2 DEF leaveFile
  <2> QED
    BY <2>1 DEF After
<1>3. CASE u \in ToSet(WorkersOf(f)) /\ LeftBy(u, f) = <<>>
  <2> DEFINE a == [After(doing, u) EXCEPT !.forget = filename[u]]
  <2>1. serving' = [doing |-> "save", todo |-> Held, half |-> NoName, then |-> a]
    BY <1>3 DEF leaveFile
  <2> HIDE DEF a
  <2> QED
    BY <2>1
<1> QED
  BY <1>1, <1>2, <1>3

\* What users do, and what the server does about lists and flags only.
LEMMA AsideDocuments ==
  ASSUME Inv, CopyInv, [Next]_vars,
         ~insertNewFile, ~finishLeaving, ~Crash,
         \A u \in Users : ~sendFile(u) /\ ~handleOperation(u),
         \A f \in Files : ~SaveDeletes(f) /\ ~SaveUploads(f)
  PROVE  CopyInv' /\ UNCHANGED Store!vars
<1> USE DEF Half
<1>1. CASE UNCHANGED <<bucket, memory, serving>>
  BY <1>1, SameDocuments DEF memory
<1>2. ASSUME NEW u \in Users, Client(u) \/ Hears(u) PROVE UNCHANGED <<bucket, memory, serving>>
  BY <1>2 DEF Client, Hears, ClientCreates, ClientOpens, MayAsk, ClientTypes, ClientCloses, ConnectionDrops,
              ClientConnects, ClientHearsNewFile, ClientHearsFile, Heard
<1>3. ASSUME NEW u \in Users, createNewFile(u) PROVE CopyInv' /\ UNCHANGED Store!vars
  <2>1. serving = Idle /\ UNCHANGED <<bucket, memory>>
    BY <1>3 DEF createNewFile, Receives
  <2>2. CASE Head(requests[u]).file \in files
    BY <1>3, <2>1, <2>2, SameDocuments DEF createNewFile, memory
  <2>3. CASE Head(requests[u]).file \notin files
    <3>1. serving'.doing = "create"
      BY <1>3, <2>3 DEF createNewFile
    <3> QED
      BY <2>1, <3>1, SameDocuments DEF memory, Idle
  <2> QED
    BY <2>2, <2>3
<1>4. ASSUME NEW u \in Users, closeFile(u) \/ userDisconnected(u) PROVE CopyInv' /\ UNCHANGED Store!vars
  <2>1. serving = Idle /\ UNCHANGED <<bucket, symbols_list, changed>>
    BY <1>4 DEF closeFile, userDisconnected, leaveFile, Receives, memory
  <2>2. serving'.doing # "save" \/ serving'.half = NoName
    <3>1. CASE closeFile(u)
      BY <3>1, leaveFileServing DEF closeFile
    <3>2. CASE userDisconnected(u) /\ filename[u] # NoName
      BY <3>2, leaveFileServing DEF userDisconnected
    <3>3. CASE userDisconnected(u) /\ filename[u] = NoName
      BY <3>3 DEF userDisconnected, After
    <3> QED
      BY <1>4, <3>1, <3>2, <3>3
  <2>3. NoName \notin Files
    BY NamesAssumption DEF NoName
  <2> QED
    BY <2>1, <2>2, <2>3, SameDocuments DEF Idle
<1>5. CASE saveTimer
  <2>1. NoName \notin Files
    BY NamesAssumption DEF NoName
  <2> QED
    BY <1>5, <2>1, SameDocuments DEF saveTimer, Idle, memory
<1>6. CASE saveDone
  <2>1. \A f \in Files : ~Half(f)
    BY <1>6, NamesAssumption DEF saveDone, Inv, StoreInv, NoName
  <2>2. serving'.doing # "save"
    BY <1>6, ServingType DEF saveDone, Inv, Saves, Rests, Idle, Leavings
  <2> QED
    BY <1>6, <2>1, <2>2, SameDocuments DEF saveDone, memory
<1>7. ASSUME NEW f \in Files, SaveSkips(f) PROVE CopyInv' /\ UNCHANGED Store!vars
  <2>1. /\ serving' = [serving EXCEPT !.todo = serving.todo \ {f}]
        /\ changed' = Put(changed, f, FALSE) /\ UNCHANGED <<bucket, symbols_list>>
        /\ ~changed[f] \/ bucket[f] = NoFile
        /\ serving.doing = "save"
    BY <1>7 DEF SaveSkips, Saving
  <2>2. serving \in Saves /\ DOMAIN changed = Held
    BY <2>1, ServingType DEF Inv, Types, MemoryTypes
  <2>3. serving'.half = serving.half /\ serving'.doing = serving.doing
    BY <2>1, <2>2 DEF Saves
  <2>4. \A g \in Held : g # f => changed'[g] = changed[g]
    BY <2>1, <2>2 DEF Put
  <2> QED
    BY <2>1, <2>3, <2>4, SameDocuments
<1>8. CASE UNCHANGED vars
  BY <1>1, <1>8 DEF vars
<1> QED
  BY <1>1, <1>2, <1>3, <1>4, <1>5, <1>6, <1>7, <1>8 DEF Next, Handles, Continues

\* A document that is not in memory is the stored one.
LEMMA StoredDocument ==
  ASSUME CopyInv, NEW f \in Files, f \in Held => ~changed[f] /\ ~Half(f)
  PROVE  Document(f) = bucket[f]
BY DEF CopyInv, Document

\* The first client of a file reads the symbols that are stored.
LEMMA sendFileDocuments ==
  ASSUME Inv, CopyInv, NEW u \in Users, sendFile(u)
  PROVE  CopyInv' /\ UNCHANGED Store!vars
<1> DEFINE f == Head(requests[u]).file
           read == IF f \in Held THEN symbols_list[f] ELSE retrieveFile(f)
<1>1. /\ UNCHANGED <<bucket, serving>> /\ serving = Idle
      /\ f \in Held => UNCHANGED <<symbols_list, changed>>
      /\ f \notin Held => symbols_list' = Put(symbols_list, f, read) /\ changed' = Put(changed, f, FALSE)
  BY DEF sendFile, Receives, storeSymbolsServerMemory
<1>2. DOMAIN changed = Held /\ \A g : ~Half(g) /\ ~Half(g)'
  BY <1>1 DEF Inv, Types, MemoryTypes, Half, Idle
<1>3. CASE f \in Held
  BY <1>1, <1>2, <1>3, SameDocuments
<1>4. CASE f \notin Held
  <2>1. bucket[f] # NoFile => read = bucket[f]
    BY <1>4 DEF retrieveFile
  <2> HIDE DEF f, read
  <2>2. /\ DOMAIN symbols_list' = Held \cup {f} /\ symbols_list'[f] = read
        /\ \A g \in Held : symbols_list'[g] = symbols_list[g]
    BY <1>1, <1>4 DEF Put, Held
  <2>3. \A g \in Held : changed'[g] = changed[g]
    BY <1>1, <1>2, <1>4 DEF Put
  <2>4. CopyInv'
    BY <1>1, <2>1, <2>2, <2>3 DEF CopyInv, Held
  <2>5. ASSUME NEW g \in Files PROVE Document(g)' = Document(g)
    BY <1>1, <1>2, <1>4, <2>1, <2>2 DEF Document, Held
  <2> QED
    BY <1>1, <2>4, <2>5 DEF Store!vars
<1> QED
  BY <1>3, <1>4

\* An operation changes the one document its sender edits.
LEMMA handleOperationDocumentsOf ==
  ASSUME Inv, CopyInv, NEW u \in Users, NEW f, filename[u] = f, handleOperation(u)
  PROVE  CopyInv' /\ Store!Next
<1>1. /\ f \in Held /\ symbols_list' = [symbols_list EXCEPT ![f] = symbols_list[f] + 1]
      /\ changed' = Put(changed, f, TRUE)
      /\ UNCHANGED <<bucket, serving>>
      /\ Receives(u, "operation")
  BY DEF handleOperation
<1>2. /\ serving = Idle /\ requests[u][1] = Head(requests[u]) /\ Head(requests[u]).type = "operation"
      /\ 1 \in DOMAIN requests[u]
  BY <1>1, TakenInv
<1>3. f \in Files /\ bucket[f] # NoFile /\ \A g : ~Half(g) /\ ~Half(g)'
  BY <1>1, <1>2 DEF Inv, RequestsInv, Open, Stored, Half, Idle, Types, MemoryTypes
<1>4. DOMAIN symbols_list' = Held /\ symbols_list'[f] = symbols_list[f] + 1
      /\ \A g \in Held \ {f} : symbols_list'[g] = symbols_list[g]
  BY <1>1 DEF Held
<1>5. DOMAIN changed = Held /\ changed'[f] = TRUE /\ \A g \in Held \ {f} : changed'[g] = changed[g]
  BY <1>1 DEF Put, Inv, Types, MemoryTypes
<1>6. CopyInv'
  BY <1>1, <1>4, <1>5 DEF CopyInv, Held
<1>7. /\ Document(f) = symbols_list[f] /\ Document(f)' = symbols_list[f] + 1
      /\ \A g \in Files \ {f} : Document(g)' = Document(g)
  BY <1>1, <1>3, <1>4 DEF Document, Held
<1>8. Document(f) # NoFile
  BY <1>1, <1>7 DEF Inv, Types, MemoryTypes, NoFile
<1>9. Store!Edits(f)
  BY <1>1, <1>3, <1>7, <1>8, AllSaved DEF Store!Edits
<1> QED
  BY <1>3, <1>6, <1>9 DEF Store!Next

LEMMA handleOperationDocuments ==
  ASSUME Inv, CopyInv, NEW u \in Users, handleOperation(u)
  PROVE  CopyInv' /\ Store!Next
BY handleOperationDocumentsOf

\* A new file is a document without operations.
LEMMA insertNewFileDocumentsOf ==
  ASSUME Inv, CopyInv, NEW f, serving.file = f, insertNewFile
  PROVE  CopyInv' /\ Store!Next
<1>1. /\ serving.doing = "create" /\ bucket[f] = NoFile /\ bucket' = [bucket EXCEPT ![f] = 0]
      /\ f \in Held => UNCHANGED <<symbols_list, changed>>
      /\ f \notin Held => symbols_list' = Put(symbols_list, f, 0) /\ changed' = Put(changed, f, TRUE)
      /\ serving' = Idle
  BY DEF insertNewFile
<1>2. f \in Files /\ \A g : ~Half(g) /\ ~Half(g)'
  BY <1>1, ServingType DEF Inv, Half, Idle
<1>3. /\ bucket'[f] = 0 /\ \A g \in Files \ {f} : bucket'[g] = bucket[g]
      /\ DOMAIN changed = Held
      /\ f \in Held => symbols_list[f] = 0
  BY <1>1, <1>2 DEF Inv, Types, MemoryTypes, StoreInv, Stored
<1>4. /\ DOMAIN symbols_list' = Held \cup {f} /\ symbols_list'[f] = 0
      /\ \A g \in Held : symbols_list'[g] = symbols_list[g] /\ changed'[g] = changed[g]
  <2>1. CASE f \in Held
    BY <1>1, <1>3, <2>1 DEF Held
  <2>2. CASE f \notin Held
    <3>1. DOMAIN symbols_list' = Held \cup {f} /\ symbols_list'[f] = 0
          /\ \A g \in Held : symbols_list'[g] = symbols_list[g]
      BY <1>1, <2>2 DEF Put, Held
    <3>2. \A g \in Held : changed'[g] = changed[g]
      BY <1>1, <1>3, <2>2 DEF Put
    <3> QED
      BY <3>1, <3>2
  <2> QED
    BY <2>1, <2>2
<1>5. Held \subseteq Files
  BY DEF Inv, Types, MemoryTypes
<1>6. CopyInv'
  BY <1>3, <1>4, <1>5 DEF CopyInv, Held
<1>7. Document(f) = NoFile /\ Document(f)' = 0 /\ \A g \in Files \ {f} : Document(g)' = Document(g)
  BY <1>1, <1>2, <1>3, <1>4 DEF Document, Held, NoFile
<1>8. Store!Creates(f)
  BY <1>1, <1>2, <1>7, AllSaved DEF Store!Creates
<1> QED
  BY <1>2, <1>6, <1>8 DEF Store!Next

LEMMA insertNewFileDocuments == ASSUME Inv, CopyInv, insertNewFile PROVE CopyInv' /\ Store!Next
BY insertNewFileDocumentsOf

\* Symbols that leave the memory are stored.
LEMMA finishLeavingDocuments ==
  ASSUME Inv, CopyInv, finishLeaving
  PROVE  CopyInv' /\ UNCHANGED Store!vars
<1> DEFINE f == serving.forget
<1>1. /\ serving.doing \in {"closed", "disconnected"} /\ serving' = Idle /\ UNCHANGED bucket
      /\ symbols_list' = Restrict(symbols_list, Held \ {f}) /\ changed' = Restrict(changed, Held \ {f})
  BY DEF finishLeaving, ForgetsSymbols
<1>2. \A g : ~Half(g) /\ ~Half(g)'
  BY <1>1 DEF Half, Idle
<1>3. /\ DOMAIN symbols_list' = Held \ {f}
      /\ \A g \in Held \ {f} : symbols_list'[g] = symbols_list[g] /\ changed'[g] = changed[g]
  BY <1>1 DEF Restrict
<1>4. f \in Held => ~changed[f]
  BY <1>1 DEF Inv, StoreInv
<1>5. CopyInv'
  BY <1>1, <1>3 DEF CopyInv, Held
<1>6. ASSUME NEW g \in Files PROVE Document(g)' = Document(g)
  <2>1. CASE g = f
    BY <1>1, <1>2, <1>3, <1>4, <2>1, StoredDocument DEF Document, Held
  <2>2. CASE g # f
    BY <1>1, <1>2, <1>3, <2>2 DEF Document, Held
  <2> QED
    BY <2>1, <2>2
<1> QED
  BY <1>1, <1>5, <1>6 DEF Store!vars

\* While its copy is replaced, a document is the symbols in memory.
LEMMA SaveDocuments ==
  ASSUME Inv, CopyInv, NEW f \in Files, SaveDeletes(f) \/ SaveUploads(f)
  PROVE  CopyInv' /\ Store!Next
<1>1. serving.doing = "save" /\ f \in serving.todo /\ serving.todo \subseteq Held /\ serving \in Saves
      /\ UNCHANGED symbols_list
  BY ServingType DEF SaveDeletes, SaveUploads, Saving, Inv, StoreInv
<1>2. f \in Held /\ symbols_list[f] \in Nat /\ bucket \in [Files -> Nat \cup {NoFile}] /\ NoName \notin Files
      /\ DOMAIN changed = Held
  BY <1>1, NamesAssumption DEF Inv, Types, MemoryTypes, NoName
<1>3. CASE SaveDeletes(f)
  <2>1. /\ serving.half = NoName /\ bucket[f] # NoFile
        /\ bucket' = [bucket EXCEPT ![f] = NoFile] /\ UNCHANGED changed
        /\ serving' = [serving EXCEPT !.half = f]
    BY <1>3 DEF SaveDeletes
  <2>2. /\ \A g \in Files : ~Half(g)
        /\ \A g \in Files : Half(g)' <=> g = f
    BY <1>1, <1>2, <2>1 DEF Half, Saves
  <2>3. bucket'[f] = NoFile /\ \A g \in Files \ {f} : bucket'[g] = bucket[g]
    BY <1>2, <2>1
  <2>4. CopyInv'
    BY <1>1, <2>1, <2>3 DEF CopyInv, Held, Inv, Types, MemoryTypes
  <2>5. /\ Document(f) = symbols_list[f]
        /\ \A g \in Files : Document(g)' = Document(g)
    BY <1>1, <1>2, <2>1, <2>2, <2>3 DEF Document, Held
  <2>6. Document(f) # NoFile
    BY <1>2, <2>5 DEF NoFile
  <2>7. Store!Deletes(f)
    BY <2>1, <2>2, <2>5, <2>6, AllSaved DEF Store!Deletes
  <2> QED
    BY <2>4, <2>7 DEF Store!Next
<1>4. CASE SaveUploads(f)
  <2>1. /\ serving.half = f /\ bucket' = [bucket EXCEPT ![f] = symbols_list[f]]
        /\ changed' = Put(changed, f, FALSE)
        /\ serving' = [serving EXCEPT !.todo = serving.todo \ {f}, !.half = NoName]
    BY <1>4 DEF SaveUploads
  <2>2. /\ Half(f) /\ \A g \in Files \ {f} : ~Half(g)
        /\ \A g \in Files : ~Half(g)'
    BY <1>1, <1>2, <2>1 DEF Half, Saves
  <2>3. bucket'[f] = symbols_list[f] /\ \A g \in Files \ {f} : bucket'[g] = bucket[g]
    BY <1>2, <2>1
  <2>4. \A g \in Held \ {f} : changed'[g] = changed[g]
    BY <1>2, <2>1 DEF Put
  <2>5. CopyInv'
    BY <1>1, <2>3, <2>4 DEF CopyInv, Held, Inv, Types, MemoryTypes
  <2>6. /\ Document(f) = symbols_list[f]
        /\ \A g \in Files : Document(g)' = Document(g)
    BY <1>1, <1>2, <2>1, <2>2, <2>3 DEF Document, Held
  <2>7. Document(f) # NoFile
    BY <1>2, <2>6 DEF NoFile
  <2>8. Store!Stores(f)
    BY <2>1, <2>6, <2>7 DEF Store!Stores
  <2> QED
    BY <2>5, <2>8 DEF Store!Next
<1> QED
  BY <1>3, <1>4

\* A crash leaves what is stored.
LEMMA CrashDocuments == ASSUME Inv, Crash PROVE CopyInv' /\ Store!Next
<1>1. DOMAIN symbols_list' = {} /\ UNCHANGED bucket
  BY DEF Crash
<1>2. \A f \in Files : Document(f)' = bucket[f]
  BY <1>1 DEF Document, Held
<1>3. CopyInv'
  BY <1>1 DEF CopyInv, Held
<1>4. bucket = [f \in Files |-> bucket[f]]
  BY DEF Inv, Types
<1> QED
  BY <1>1, <1>2, <1>3, <1>4 DEF Store!Next, Store!Crash
LEMMA NextDocuments == ASSUME Inv, CopyInv, [Next]_vars PROVE CopyInv' /\ [Store!Next]_Store!vars
<1>1. CASE \E u \in Users : sendFile(u)
  BY <1>1, sendFileDocuments
<1>2. CASE \E u \in Users : handleOperation(u)
  BY <1>2, handleOperationDocuments
<1>3. CASE insertNewFile
  BY <1>3, insertNewFileDocuments
<1>4. CASE finishLeaving
  BY <1>4, finishLeavingDocuments
<1>5. CASE \E f \in Files : SaveDeletes(f) \/ SaveUploads(f)
  BY <1>5, SaveDocuments
<1>6. CASE Crash
  BY <1>6, CrashDocuments
<1> QED
  BY <1>1, <1>2, <1>3, <1>4, <1>5, <1>6, AsideDocuments

LEMMA InitDocuments == Init => CopyInv /\ Store!Init
BY ExistingAssumption DEF Init, CopyInv, Held, Store!Init, Document

\* Each file is a document, in the sense of Documents, as long as users wait for
\* an answer before they ask again: the initial states are initial states of
\* documents, and every step is one of them or changes nothing.
THEOREM IsDocumentsHolds == ASSUME ~Impatient PROVE Spec => IsDocuments
<1>1. ASSUME Inv, CopyInv, [Next]_vars PROVE CopyInv' /\ [Store!Next]_Store!vars
  BY <1>1, NextDocuments
<1> QED
  BY Invariant, InitDocuments, <1>1, PTL DEF Spec, IsDocuments, Store!Spec

-----------------------------------------------------------------------------
(***************************************************************************)
(* The invariant.                                                          *)
(***************************************************************************)

\* A file that was asked for is found, and has symbols.
FilesFound ==
  \A u \in Users : \A i \in DOMAIN answers[u] :
    answers[u][i].type = "file_to_open" => answers[u][i].success /\ answers[u][i].symbols # 0

Listed(u, f) == f \in DOMAIN mapFileWorkers /\ u \in ToSet(mapFileWorkers[f])
Waits(u, types) == \E i \in DOMAIN requests[u] : requests[u][i].type \in types
Asks == {"new_file", "file_to_open"}
EndsSession(u) == Rest.doing = "disconnected" /\ Rest.user = u

\* An answer after which the client has the file open.
Opens(m) == m.success /\ (m.type = "file_to_open" => m.symbols # 0)

\* The lists hold clients that are connected, each one once.
ListsInv ==
  \A f \in DOMAIN mapFileWorkers : mapFileWorkers[f] \in Seq(Users) /\ IsInjective(mapFileWorkers[f])

\* Who is in a list is in no other one, asks for nothing, and edits the file
\* unless the answer or the request to close it are on their way.
MemberInv(u) ==
  \A f \in Files : Listed(u, f) =>
    /\ filename[u] = f /\ u \in alive /\ ~Leaving(u) /\ ~Creating(u)
    /\ ~Waits(u, Asks)
    /\ view[u] = "home" => Waits(u, {"close"}) \/ answers[u] # <<>>
    /\ answers[u] # <<>> => Opens(Head(answers[u]))

\* The server gets to know of each connection that was lost.
SessionInv(u) ==
  /\ view[u] = "login" /\ u \in alive => Waits(u, {"disconnected"}) \/ EndsSession(u)
  /\ Creating(u) => u \in alive

MembersInv == ListsInv /\ \A u \in Users : MemberInv(u) /\ SessionInv(u)

-----------------------------------------------------------------------------
(***************************************************************************)
(* What is left alone stays right.                                         *)
(***************************************************************************)

\* A user with whom nothing happens.
LEMMA MemberKept ==
  ASSUME NEW u \in Users, MemberInv(u), SessionInv(u),
         requests'[u] = requests[u], answers'[u] = answers[u], view'[u] = view[u],
         filename'[u] = filename[u], u \in alive <=> u \in alive',
         \A f \in Files : Listed(u, f)' => Listed(u, f),
         Creating(u)' => Creating(u), Leaving(u)' => Leaving(u), EndsSession(u) => EndsSession(u)'
  PROVE  MemberInv(u)' /\ SessionInv(u)'
<1>1. \A types : Waits(u, types)' <=> Waits(u, types)
  BY DEF Waits
<1>2. MemberInv(u)'
  BY <1>1 DEF MemberInv
<1>3. SessionInv(u)'
  BY <1>1 DEF SessionInv
<1> QED
  BY <1>2, <1>3

\* One user does something at home, the server nothing.
LEMMA ClientStep ==
  ASSUME MembersInv, NEW u \in Users, UNCHANGED <<mapFileWorkers, serving>>,
         \A v \in Users \ {u} : /\ requests'[v] = requests[v] /\ answers'[v] = answers[v]
                                /\ view'[v] = view[v] /\ filename'[v] = filename[v]
                                /\ v \in alive <=> v \in alive',
         MemberInv(u)' /\ SessionInv(u)'
  PROVE  MembersInv'
<1>1. ListsInv'
  BY DEF MembersInv, ListsInv
<1>2. ASSUME NEW v \in Users, v # u PROVE MemberInv(v)' /\ SessionInv(v)'
  <2>1. /\ \A f \in Files : Listed(v, f)' => Listed(v, f)
        /\ Creating(v)' => Creating(v)
        /\ Leaving(v)' => Leaving(v)
        /\ EndsSession(v) => EndsSession(v)'
    BY DEF Listed, Creating, Leaving, EndsSession, Rest
  <2>2. MemberInv(v) /\ SessionInv(v)
    BY DEF MembersInv
  <2> QED
    BY <1>2, <2>1, <2>2, MemberKept
<1> QED
  BY <1>1, <1>2 DEF MembersInv

LEMMA SameServer ==
  ASSUME NEW u, UNCHANGED <<mapFileWorkers, serving>>
  PROVE  /\ \A f : Listed(u, f)' <=> Listed(u, f)
         /\ Creating(u)' <=> Creating(u)
         /\ Leaving(u)' <=> Leaving(u)
         /\ EndsSession(u)' <=> EndsSession(u)
BY DEF Listed, Creating, Leaving, EndsSession, Rest

\* Who asks, or is asked for, is in no list.
LEMMA NotListed ==
  ASSUME MembersInv, Inv, NEW u \in Users,
         Waits(u, Asks) \/ Creating(u) \/ Leaving(u) \/ u \notin alive \/ filename[u] = NoName
  PROVE  \A f : ~Listed(u, f)
<1>1. \A f : Listed(u, f) => f \in Files
  BY DEF Listed, Inv, Types, MemoryTypes
<1>2. NoName \notin Files
  BY NamesAssumption DEF NoName
<1> QED
  BY <1>1, <1>2 DEF MembersInv, MemberInv

-----------------------------------------------------------------------------
(***************************************************************************)
(* What users do.                                                          *)
(***************************************************************************)

LEMMA SentWaits ==
  ASSUME Types, NEW u \in Users, NEW m \in RequestSet, Send(u, m)
  PROVE  \A types : Waits(u, types)' <=> Waits(u, types) \/ m.type \in types
<1>1. requests[u] \in Seq(RequestSet) /\ requests'[u] = Append(requests[u], m)
  BY SendType DEF Types
<1>2. /\ \A i \in DOMAIN requests[u] : requests'[u][i] = requests[u][i]
      /\ DOMAIN requests'[u] = DOMAIN requests[u] \cup {Len(requests[u]) + 1}
      /\ requests'[u][Len(requests[u]) + 1] = m
  BY <1>1, AppendType
<1> QED
  BY <1>2 DEF Waits

\* A user at home who waits for nothing is in no list.
LEMMA AsksMembers ==
  ASSUME Inv, MembersInv, ~Impatient, NEW u \in Users, MayAsk(u), NEW m \in RequestSet, Send(u, m)
  PROVE  MembersInv'
<1>1. /\ view[u] = "home" /\ requests[u] = <<>> /\ answers[u] = <<>> /\ ~Creating(u)
      /\ UNCHANGED <<mapFileWorkers, filename, alive, serving, answers, view>>
  BY DEF MayAsk, Unanswered, Creating, memory
<1>2. \A f \in Files : ~Listed(u, f)
  BY <1>1, EmptyFunction DEF MembersInv, MemberInv, Waits
<1>3. \A v \in Users \ {u} : requests'[v] = requests[v]
  BY SendType DEF Inv
<1>4. MemberInv(u)' /\ SessionInv(u)'
  BY <1>1, <1>2, SameServer DEF MemberInv, SessionInv
<1> QED
  BY <1>1, <1>3, <1>4, ClientStep

LEMMA ClientAsksMembers ==
  ASSUME Inv, MembersInv, ~Impatient, NEW u \in Users, NEW f \in Files,
         ClientCreates(u, f) \/ ClientOpens(u, f)
  PROVE  MembersInv'
<1>1. Request("new_file", f) \in RequestSet /\ Request("file_to_open", f) \in RequestSet
  BY RequestType DEF Names
<1> QED
  BY <1>1, AsksMembers DEF ClientCreates, ClientOpens

\* The user of an open file sends something about it.
LEMMA EditsMembers ==
  ASSUME Inv, MembersInv, NEW u \in Users, view[u] = "editing",
         NEW type \in {"operation", "close"}, Send(u, Request(type, openfile[u])),
         view' = IF type = "close" THEN [view EXCEPT ![u] = "home"] ELSE view,
         UNCHANGED <<mapFileWorkers, filename, alive, serving, answers>>
  PROVE  MembersInv'
<1> DEFINE m == Request(type, openfile[u])
<1>1. m \in RequestSet /\ m.type = type
  BY RequestType DEF Inv, Types
<1>2. \A types : Waits(u, types)' <=> Waits(u, types) \/ m.type \in types
  BY <1>1, SentWaits DEF Inv
<1>3. \A v \in Users \ {u} : requests'[v] = requests[v]
  BY <1>1, SendType DEF Inv
<1> HIDE DEF m
<1>4. /\ view'[u] = IF type = "close" THEN "home" ELSE "editing"
      /\ \A v \in Users \ {u} : view'[v] = view[v]
  BY DEF Inv, Types
<1>5. answers[u] = <<>> /\ ~Creating(u)
  BY DEF Inv, ClientInv
<1>6. MemberInv(u)'
  BY <1>1, <1>2, <1>4, <1>5, SameServer DEF MembersInv, MemberInv, Asks
<1>7. SessionInv(u)'
  BY <1>4, <1>5, SameServer DEF SessionInv
<1> QED
  BY <1>3, <1>4, <1>6, <1>7, ClientStep

LEMMA ClientEditsMembers ==
  ASSUME Inv, MembersInv, NEW u \in Users, ClientTypes(u) \/ ClientCloses(u) PROVE MembersInv'
<1>1. CASE ClientTypes(u)
  BY <1>1, EditsMembers DEF ClientTypes, client, memory
<1>2. CASE ClientCloses(u)
  BY <1>2, EditsMembers DEF ClientCloses, memory
<1> QED
  BY <1>1, <1>2

LEMMA ConnectionDropsMembers ==
  ASSUME Inv, MembersInv, NEW u \in Users, ConnectionDrops(u) PROVE MembersInv'
<1> DEFINE m == Request("disconnected", NoName)
<1>1. PICK n \in 0 .. Len(requests[u]) : requests' = [requests EXCEPT ![u] = Append(SubSeq(requests[u], 1, n), m)]
  BY DEF ConnectionDrops
<1> DEFINE kept == SubSeq(requests[u], 1, n)
<1>2. m \in RequestSet /\ m.type = "disconnected"
  BY RequestType DEF Names
<1>3. requests[u] \in Seq(RequestSet) /\ requests \in [Users -> Seq(RequestSet)]
  BY DEF Inv, Types
<1>4. kept \in Seq(RequestSet) /\ Len(kept) = n /\ \A i \in 1 .. n : kept[i] = requests[u][i]
  BY <1>1, <1>3
<1>5. /\ DOMAIN Append(kept, m) = 1 .. n + 1 /\ Append(kept, m)[n + 1] = m
      /\ \A i \in 1 .. n : Append(kept, m)[i] = requests[u][i]
  BY <1>2, <1>4, AppendType
<1>6. requests'[u] = Append(kept, m) /\ \A v \in Users \ {u} : requests'[v] = requests[v]
  BY <1>1, <1>3
<1> HIDE DEF m, kept
<1>7. /\ UNCHANGED <<mapFileWorkers, serving, filename, alive>>
      /\ view'[u] = "login" /\ answers'[u] = <<>>
      /\ \A v \in Users \ {u} : view'[v] = view[v] /\ answers'[v] = answers[v]
  BY DEF ConnectionDrops, Inv, Types, memory
<1>8. Waits(u, Asks)' => Waits(u, Asks)
  <2>1. \A i \in 1 .. n : i \in DOMAIN requests[u]
    BY <1>1, <1>3
  <2>2. \A i \in 1 .. n + 1 : i \in 1 .. n \/ i = n + 1
    BY <1>1, <1>3
  <2>3. m.type \notin Asks
    BY <1>2 DEF Asks
  <2> QED
    BY <1>5, <1>6, <2>1, <2>2, <2>3 DEF Waits
<1>9. Waits(u, {"disconnected"})'
  <2>1. n + 1 \in DOMAIN requests'[u]
    BY <1>1, <1>3, <1>5, <1>6
  <2> QED
    BY <1>2, <1>5, <1>6, <2>1 DEF Waits
<1>10. MemberInv(u)'
  BY <1>7, <1>8, SameServer DEF MembersInv, MemberInv
<1>11. SessionInv(u)'
  BY <1>7, <1>9, SameServer DEF MembersInv, SessionInv
<1> QED
  BY <1>6, <1>7, <1>10, <1>11, ClientStep

LEMMA ClientConnectsMembers ==
  ASSUME Inv, MembersInv, NEW u \in Users, ClientConnects(u) PROVE MembersInv'
<1>1. /\ u \notin alive /\ serving = Idle /\ alive' = alive \cup {u}
      /\ UNCHANGED <<mapFileWorkers, serving, requests, answers>>
      /\ view'[u] = "home"
      /\ \A v \in Users \ {u} : view'[v] = view[v] /\ filename'[v] = filename[v]
  BY DEF ClientConnects, Inv, Types, memory
<1>2. \A f : ~Listed(u, f)
  BY <1>1, NotListed
<1>3. MemberInv(u)' /\ SessionInv(u)'
  BY <1>1, <1>2, SameServer DEF MemberInv, SessionInv, Creating, Idle
<1> QED
  BY <1>1, <1>3, ClientStep

\* The answer of a member opens the file.
LEMMA HearsMembers ==
  ASSUME Inv, MembersInv, NEW u \in Users, answers[u] # <<>>, Heard(u),
         \A v \in Users \ {u} : requests'[v] = requests[v] /\ view'[v] = view[v],
         view'[u] \in {"home", "editing"}, Opens(Head(answers[u])) => view'[u] = "editing",
         ~Waits(u, Asks)'
  PROVE  MembersInv'
<1>1. /\ answers'[u] = <<>> /\ \A v \in Users \ {u} : answers'[v] = answers[v]
      /\ ~Creating(u)' /\ ~Leaving(u)'
      /\ UNCHANGED <<mapFileWorkers, filename, alive, serving>>
  BY HeardInv DEF memory
<1>2. MemberInv(u)'
  BY <1>1, SameServer DEF MembersInv, MemberInv
<1>3. SessionInv(u)'
  BY <1>1 DEF SessionInv
<1> QED
  BY <1>1, <1>2, <1>3, ClientStep

LEMMA ClientHearsMembers ==
  ASSUME Inv, MembersInv, NEW u \in Users, Hears(u) PROVE MembersInv'
<1>1. answers[u] # <<>> /\ Heard(u)
  BY DEF Hears, ClientHearsNewFile, ClientHearsFile
<1>2. requests[u] = <<>> /\ view[u] = "home" /\ view \in [Users -> {"home", "editing", "login"}]
  BY <1>1, HeardInv DEF Inv, Types
<1>3. ~Waits(u, Asks)
  BY <1>2, EmptyFunction DEF Waits
<1> DEFINE op == Request("operation", openfile[u])
<1>4. op \in RequestSet /\ op.type \notin Asks
  BY RequestType DEF Inv, Types, Asks
<1> HIDE DEF op
<1>5. CASE ClientHearsNewFile(u)
  <2>1. CASE Head(answers[u]).success
    <3>1. view' = [view EXCEPT ![u] = "editing"] /\ Send(u, op)
      BY <1>5, <2>1 DEF ClientHearsNewFile, op
    <3>2. ~Waits(u, Asks)' /\ \A v \in Users \ {u} : requests'[v] = requests[v]
      BY <1>3, <1>4, <3>1, SentWaits, SendType DEF Inv
    <3> QED
      BY <1>1, <1>2, <3>1, <3>2, HearsMembers
  <2>2. CASE ~Head(answers[u]).success
    <3>1. UNCHANGED <<view, requests>>
      BY <1>5, <2>2 DEF ClientHearsNewFile
    <3> QED
      BY <1>1, <1>2, <1>3, <2>2, <3>1, HearsMembers DEF Opens, Waits
  <2> QED
    BY <2>1, <2>2
<1>6. CASE ClientHearsFile(u)
  <2> DEFINE m == Head(answers[u])
  <2>1. /\ m.type = "file_to_open" /\ requests' = requests
        /\ IF m.success /\ m.symbols # 0 THEN view' = [view EXCEPT ![u] = "editing"] ELSE view' = view
    BY <1>6 DEF ClientHearsFile
  <2>2. ~Waits(u, Asks)'
    BY <1>3, <2>1 DEF Waits
  <2> QED
    BY <1>1, <1>2, <2>1, <2>2, HearsMembers DEF Opens
<1> QED
  BY <1>5, <1>6 DEF Hears

-----------------------------------------------------------------------------
(***************************************************************************)
(* What the server does with a request.                                    *)
(***************************************************************************)

LEMMA TakenWaits ==
  ASSUME Inv, NEW u \in Users, NEW type, Receives(u, type)
  PROVE  /\ \A types : Waits(u, types)' => Waits(u, types)
         /\ \A types : Waits(u, types) /\ type \notin types => Waits(u, types)'
<1>1. /\ requests[u] \in Seq(RequestSet) /\ requests[u][1].type = type /\ requests[u] # <<>>
      /\ requests'[u] \in Seq(RequestSet) /\ Len(requests'[u]) = Len(requests[u]) - 1
      /\ \A i \in DOMAIN requests'[u] : i + 1 \in DOMAIN requests[u] /\ requests'[u][i] = requests[u][i + 1]
  BY TakenInv DEF Inv, Types
<1>2. ASSUME NEW i \in DOMAIN requests[u], requests[u][i].type # type
      PROVE  i - 1 \in DOMAIN requests'[u] /\ requests'[u][i - 1] = requests[u][i]
  <2>1. i # 1 /\ i \in 1 .. Len(requests[u]) /\ Len(requests[u]) \in Nat
    BY <1>1, <1>2
  <2>2. i - 1 \in DOMAIN requests'[u] /\ (i - 1) + 1 = i
    BY <1>1, <2>1
  <2> QED
    BY <1>1, <2>2
<1> QED
  BY <1>1, <1>2 DEF Waits

\* The other users, when the server is done with a request at once.
LEMMA OthersMembers ==
  ASSUME MembersInv, NEW u \in Users, serving \in {Idle} \/ serving.doing = "create",
         ListsInv', MemberInv(u)' /\ SessionInv(u)',
         \A v \in Users \ {u} : /\ requests'[v] = requests[v] /\ answers'[v] = answers[v]
                                /\ view'[v] = view[v] /\ filename'[v] = filename[v]
                                /\ v \in alive <=> v \in alive'
                                /\ \A f \in Files : Listed(v, f)' => Listed(v, f)
                                /\ ~Creating(v)' /\ ~Leaving(v)'
  PROVE  MembersInv'
<1>1. ASSUME NEW v \in Users, v # u PROVE MemberInv(v)' /\ SessionInv(v)'
  <2>1. ~EndsSession(v)
    BY DEF EndsSession, Rest, Idle
  <2>2. MemberInv(v) /\ SessionInv(v)
    BY DEF MembersInv
  <2> QED
    BY <1>1, <2>1, <2>2, MemberKept
<1> QED
  BY <1>1 DEF MembersInv

\* One who sends a request is not yet known to be gone.
LEMMA SessionGoesOn ==
  ASSUME Inv, MembersInv, NEW u \in Users, NEW type, Receives(u, type), type # "disconnected"
  PROVE  view[u] = "login" => Waits(u, {"disconnected"})'
<1>1. u \in alive /\ serving = Idle
  BY TakenInv
<1>2. ~EndsSession(u)
  BY <1>1 DEF EndsSession, Rest, Idle
<1> QED
  BY <1>1, <1>2, TakenWaits DEF MembersInv, SessionInv

LEMMA createNewFileMembers ==
  ASSUME Inv, MembersInv, NEW u \in Users, createNewFile(u) PROVE MembersInv'
<1> DEFINE f == Head(requests[u]).file
<1>1. Receives(u, "new_file") /\ UNCHANGED <<mapFileWorkers, alive>>
  BY DEF createNewFile, memory
<1>2. /\ serving = Idle /\ u \in alive /\ 1 \in DOMAIN requests[u] /\ requests[u][1].type = "new_file"
      /\ \A v \in Users \ {u} : requests'[v] = requests[v]
      /\ view' = view
  BY <1>1, TakenInv DEF client
<1>3. \A g : ~Listed(u, g)
  BY <1>2, NotListed DEF Waits, Asks
<1>4. view[u] = "login" => Waits(u, {"disconnected"})'
  BY <1>1, SessionGoesOn
<1>5. MemberInv(u)' /\ SessionInv(u)'
  BY <1>1, <1>2, <1>3, <1>4 DEF MemberInv, SessionInv, Listed
<1>6. \A v \in Users \ {u} : answers'[v] = answers[v] /\ filename'[v] = filename[v]
  BY DEF createNewFile, Answer, Inv, Types
<1>7. serving' = Idle \/ serving' = [doing |-> "create", user |-> u, file |-> f]
  BY <1>2 DEF createNewFile
<1> HIDE DEF f
<1>8. \A v \in Users \ {u} : ~Creating(v)' /\ ~Leaving(v)'
  BY <1>7 DEF Creating, Leaving, Rest, Idle
<1>9. ListsInv' /\ \A v, g : Listed(v, g)' => Listed(v, g)
  BY <1>1 DEF MembersInv, ListsInv, Listed
<1> QED
  BY <1>1, <1>2, <1>5, <1>6, <1>8, <1>9, OthersMembers

\* A user enters a list, and is in no other one.
LEMMA EntersList ==
  ASSUME MembersInv, NEW u \in Users, NEW f \in Files, NEW list \in Seq(Users), IsInjective(list),
         \A g : ~Listed(u, g), \A v \in ToSet(list) : v = u \/ Listed(v, f),
         mapFileWorkers' = Put(mapFileWorkers, f, list)
  PROVE  /\ ListsInv'
         /\ \A g : Listed(u, g)' => g = f
         /\ \A v \in Users \ {u} : \A g \in Files : Listed(v, g)' => Listed(v, g)
<1>1. /\ DOMAIN mapFileWorkers' = DOMAIN mapFileWorkers \cup {f} /\ mapFileWorkers'[f] = list
      /\ \A g \in DOMAIN mapFileWorkers \ {f} : mapFileWorkers'[g] = mapFileWorkers[g]
  BY DEF Put
<1>2. ListsInv'
  BY <1>1 DEF MembersInv, ListsInv
<1> QED
  BY <1>1, <1>2 DEF Listed

LEMMA insertNewFileMembersOf ==
  ASSUME Inv, MembersInv, NEW u \in Users, NEW f \in Files, serving.user = u, serving.file = f,
         insertNewFile
  PROVE  MembersInv'
<1>1. /\ serving.doing = "create" /\ mapFileWorkers' = Put(mapFileWorkers, f, <<u>>)
      /\ serving' = Idle /\ Answer(u, NewFileAnswer(TRUE))
      /\ UNCHANGED <<filename, alive, requests, view>>
  BY DEF insertNewFile, client
<1>3. Creating(u)
  BY <1>1 DEF Creating
<1>4. NewFileAnswer(TRUE) \in AnswerSet /\ Opens(NewFileAnswer(TRUE))
  BY DEF NewFileAnswer, AnswerSet, Opens
<1>5. \A g : ~Listed(u, g)
  BY <1>3, NotListed
<1>6. /\ ListsInv'
      /\ \A g : Listed(u, g)' => g = f
      /\ \A v \in Users \ {u} : \A g \in Files : Listed(v, g)' => Listed(v, g)
  <2> DEFINE list == <<u>>
  <2>1. list \in Seq(Users) /\ IsInjective(list) /\ \A v \in ToSet(list) : v = u
    BY DEF IsInjective, ToSet
  <2>2. mapFileWorkers' = Put(mapFileWorkers, f, list)
    BY <1>1
  <2> HIDE DEF list
  <2> QED
    BY <1>5, <2>1, <2>2, EntersList
<1>7. answers[u] = <<>> /\ filename[u] = f /\ view[u] # "editing" /\ ~Waits(u, Asks)
  BY <1>3 DEF Inv, ClientInv, RequestsInv, Waits, Asks
<1>8. /\ view[u] = "home" => answers'[u] # <<>> /\ Opens(Head(answers'[u]))
      /\ view[u] = "login" => answers'[u] = <<>>
      /\ \A v \in Users \ {u} : answers'[v] = answers[v]
  <2> DEFINE m == NewFileAnswer(TRUE)
  <2>1. /\ answers'[u] = IF view[u] = "login" THEN <<>> ELSE Append(<<>>, m)
        /\ \A v \in Users \ {u} : answers'[v] = answers[v]
    BY <1>1, <1>4, <1>7, AnswerType
  <2>2. Append(<<>>, m) # <<>> /\ Head(Append(<<>>, m)) = m
    OBVIOUS
  <2> HIDE DEF m
  <2>3. Opens(m)
    BY <1>4 DEF m
  <2> QED
    BY <2>1, <2>2, <2>3
<1>9. view[u] \in {"home", "login"}
  BY <1>7 DEF Inv, Types
<1>10. \A v : ~Creating(v)' /\ ~Leaving(v)'
  BY <1>1 DEF Creating, Leaving, Rest, Idle
<1>11. u \in alive /\ (view[u] = "login" => Waits(u, {"disconnected"}))
  BY <1>1, <1>3 DEF MembersInv, SessionInv, EndsSession, Rest
<1>12. MemberInv(u)'
  BY <1>1, <1>6, <1>7, <1>8, <1>9, <1>10, <1>11 DEF MemberInv, Waits
<1>13. SessionInv(u)'
  BY <1>1, <1>10, <1>11 DEF SessionInv, Waits
<1> QED
  BY <1>1, <1>6, <1>8, <1>10, <1>12, <1>13, OthersMembers

LEMMA insertNewFileMembers == ASSUME Inv, MembersInv, insertNewFile PROVE MembersInv'
<1>1. serving.user \in Users /\ serving.file \in Files
  BY ServingType DEF insertNewFile, Inv
<1> QED
  BY <1>1, insertNewFileMembersOf

LEMMA AppendOnce ==
  ASSUME NEW S, NEW s \in Seq(S), NEW e \in S, IsInjective(s), e \notin ToSet(s)
  PROVE  IsInjective(Append(s, e))
<1>1. /\ \A i \in DOMAIN s : Append(s, e)[i] = s[i]
      /\ DOMAIN Append(s, e) = DOMAIN s \cup {Len(s) + 1} /\ Append(s, e)[Len(s) + 1] = e
  BY AppendType
<1>2. \A i \in DOMAIN s : s[i] # e
  BY DEF ToSet
<1> QED
  BY <1>1, <1>2 DEF IsInjective

LEMMA sendFileMembers ==
  ASSUME Inv, MembersInv, FilesFound', NEW u \in Users, sendFile(u) PROVE MembersInv'
<1> DEFINE f == Head(requests[u]).file
           read == IF f \in Held THEN symbols_list[f] ELSE retrieveFile(f)
           found == f \in Held \/ bucket[f] # NoFile
           list == Append(WorkersOf(f), u)
           answer == [type |-> "file_to_open", success |-> found, symbols |-> read, file |-> f]
<1>1. /\ Receives(u, "file_to_open") /\ UNCHANGED <<alive, serving>>
      /\ filename' = [filename EXCEPT ![u] = f]
      /\ mapFileWorkers' = Put(mapFileWorkers, f, list)
      /\ Answer(u, answer)
  BY DEF sendFile
<1>2. /\ serving = Idle /\ u \in alive /\ 1 \in DOMAIN requests[u]
      /\ requests[u][1] = Head(requests[u]) /\ Head(requests[u]).type = "file_to_open"
      /\ \A v \in Users \ {u} : requests'[v] = requests[v]
      /\ view' = view
  BY <1>1, TakenInv DEF client
<1>3. f \in Files /\ answers[u] = <<>>
  BY <1>2 DEF Inv, RequestsInv
<1>4. answer.type = "file_to_open" /\ (answer.success /\ answer.symbols # 0 => Opens(answer))
  BY DEF Opens
<1>5. /\ answers'[u] = IF view[u] = "login" THEN <<>> ELSE <<answer>>
      /\ \A v \in Users \ {u} : answers'[v] = answers[v]
  BY <1>1, <1>3 DEF Answer, Inv, Types
<1> HIDE DEF read, found, answer
<1>6. \A g : ~Listed(u, g)
  BY <1>2, NotListed DEF Waits, Asks
<1>7. WorkersOf(f) \in Seq(Users) /\ IsInjective(WorkersOf(f))
  BY EmptyFunction DEF WorkersOf, MembersInv, ListsInv, IsInjective
<1>8. u \notin ToSet(WorkersOf(f)) /\ \A v \in ToSet(WorkersOf(f)) : Listed(v, f)
  BY <1>6, EmptyFunction DEF WorkersOf, Listed, ToSet
<1>9. list \in Seq(Users) /\ IsInjective(list) /\ \A v \in ToSet(list) : v = u \/ Listed(v, f)
  BY <1>7, <1>8, AppendOnce, AppendType
<1> HIDE DEF f, list
<1>10. /\ ListsInv'
       /\ \A g : Listed(u, g)' => g = f
       /\ \A v \in Users \ {u} : \A g \in Files : Listed(v, g)' => Listed(v, g)
  BY <1>1, <1>3, <1>6, <1>9, EntersList
<1>11. \A v : ~Creating(v)' /\ ~Leaving(v)'
  BY <1>1, <1>2 DEF Creating, Leaving, Rest, Idle
<1>12. view[u] # "editing" /\ view[u] \in {"home", "editing", "login"}
  BY <1>1, LastRequest DEF Inv, Types
<1>13. filename'[u] = f /\ \A v \in Users \ {u} : filename'[v] = filename[v]
  BY <1>1 DEF Inv, Types
<1>14. ~Waits(u, Asks)'
  BY <1>1, LastRequest DEF Waits, Asks
<1>15. view[u] = "home" => answers'[u] # <<>> /\ Opens(Head(answers'[u]))
  <2>1. view[u] = "home" => answers'[u] = <<answer>> /\ answers'[u][1] = answer /\ 1 \in DOMAIN answers'[u]
    BY <1>5
  <2> QED
    BY <1>4, <2>1 DEF FilesFound
<1>16. MemberInv(u)'
  BY <1>1, <1>2, <1>5, <1>10, <1>11, <1>12, <1>13, <1>14, <1>15 DEF MemberInv
<1>17. SessionInv(u)'
  <2>1. view[u] = "login" => Waits(u, {"disconnected"})'
    BY <1>1, SessionGoesOn
  <2> QED
    BY <1>2, <1>11, <2>1 DEF SessionInv
<1> QED
  BY <1>1, <1>2, <1>5, <1>10, <1>11, <1>13, <1>16, <1>17, OthersMembers

LEMMA handleOperationMembers ==
  ASSUME Inv, MembersInv, NEW u \in Users, handleOperation(u) PROVE MembersInv'
<1>1. Receives(u, "operation") /\ UNCHANGED <<mapFileWorkers, filename, alive, serving, answers>>
  BY DEF handleOperation
<1>2. view' = view /\ \A v \in Users \ {u} : requests'[v] = requests[v]
  BY <1>1, TakenInv DEF client
<1>3. /\ \A types : Waits(u, types)' => Waits(u, types)
      /\ Waits(u, {"close"}) => Waits(u, {"close"})'
      /\ Waits(u, {"disconnected"}) => Waits(u, {"disconnected"})'
  BY <1>1, TakenWaits
<1>4. MemberInv(u)'
  BY <1>1, <1>2, <1>3, SameServer DEF MembersInv, MemberInv
<1>5. SessionInv(u)'
  BY <1>1, <1>2, <1>3, SameServer DEF MembersInv, SessionInv
<1> QED
  BY <1>1, <1>2, <1>4, <1>5, ClientStep

-----------------------------------------------------------------------------
(***************************************************************************)
(* Leaving a file.                                                         *)
(***************************************************************************)

LEMMA ConcatType ==
  ASSUME NEW S, NEW s \in Seq(S), NEW t \in Seq(S)
  PROVE  s \o t \in Seq(S) /\ Len(s \o t) = Len(s) + Len(t)
OBVIOUS

\* What one occurrence leaves behind, where there was no other.
LEMMA RemoveOnce ==
  ASSUME NEW S, NEW s \in Seq(S), NEW i \in 1 .. Len(s), IsInjective(s)
  PROVE  LET r == RemoveAt(s, i)
         IN  r \in Seq(S) /\ IsInjective(r) /\ \A e \in ToSet(r) : e \in ToSet(s) /\ e # s[i]
<1> DEFINE a == SubSeq(s, 1, i - 1)
           b == SubSeq(s, i + 1, Len(s))
           r == a \o b
<1>1. a \in Seq(S) /\ Len(a) = i - 1 /\ \A k \in 1 .. i - 1 : a[k] = s[k]
  <2>1. 1 \in 1 .. Len(s) + 1 /\ i - 1 \in 0 .. Len(s)
    OBVIOUS
  <2> QED
    BY <2>1, CutType
<1>2. b \in Seq(S) /\ Len(b) = Len(s) - i /\ \A k \in 1 .. Len(s) - i : b[k] = s[k + i]
  <2>1. i + 1 \in 1 .. Len(s) + 1 /\ Len(s) \in 0 .. Len(s)
    OBVIOUS
  <2> QED
    BY <2>1, CutType
<1>3. RemoveAt(s, i) = r
  BY DEF RemoveAt
<1> HIDE DEF a, b
<1>4. r \in Seq(S) /\ Len(r) = Len(s) - 1
  <2>1. r \in Seq(S) /\ Len(r) = Len(a) + Len(b)
    BY <1>1, <1>2, ConcatType
  <2> QED
    BY <1>1, <1>2, <2>1
<1> DEFINE From(k) == IF k < i THEN k ELSE k + 1
<1>5. ASSUME NEW k \in 1 .. Len(s) - 1
      PROVE  r[k] = s[From(k)] /\ From(k) \in 1 .. Len(s) /\ From(k) # i
  <2>1. CASE k < i
    <3>1. k \in 1 .. Len(a) /\ r[k] = a[k]
      BY <1>1, <1>2, <2>1
    <3> QED
      BY <1>1, <2>1, <3>1
  <2>2. CASE ~(k < i)
    <3>1. k > Len(a) /\ k \in 1 .. Len(a) + Len(b) /\ k - Len(a) = k + 1 - i /\ k + 1 - i \in 1 .. Len(s) - i
      BY <1>1, <1>2, <2>2
    <3>2. r[k] = b[k + 1 - i]
      BY <1>1, <1>2, <3>1
    <3>3. (k + 1 - i) + i = k + 1
      OBVIOUS
    <3>4. b[k + 1 - i] = s[k + 1]
      BY <1>2, <3>1, <3>3
    <3> QED
      BY <2>2, <3>2, <3>4
  <2> QED
    BY <2>1, <2>2
<1>6. DOMAIN r = 1 .. Len(s) - 1 /\ DOMAIN s = 1 .. Len(s)
  BY <1>4
<1> HIDE DEF r
<1>7. ASSUME NEW j \in 1 .. Len(s) - 1, NEW k \in 1 .. Len(s) - 1, r[j] = r[k] PROVE j = k
  <2>1. From(j) = From(k)
    BY <1>5, <1>6, <1>7 DEF IsInjective
  <2> QED
    BY <2>1
<1>8. IsInjective(r)
  BY <1>6, <1>7 DEF IsInjective
<1>9. ASSUME NEW e \in ToSet(r) PROVE e \in ToSet(s) /\ e # s[i]
  <2>1. PICK k \in 1 .. Len(s) - 1 : e = r[k]
    BY <1>6 DEF ToSet
  <2>2. e = s[From(k)] /\ From(k) \in 1 .. Len(s) /\ From(k) # i
    BY <1>5, <2>1
  <2> QED
    BY <1>6, <2>2 DEF ToSet, IsInjective
<1> QED
  BY <1>3, <1>4, <1>8, <1>9

LEMMA LeftByMembers ==
  ASSUME MembersInv, NEW u, NEW f, Listed(u, f)
  PROVE  /\ LeftBy(u, f) \in Seq(Users) /\ IsInjective(LeftBy(u, f))
         /\ \A v \in ToSet(LeftBy(u, f)) : Listed(v, f) /\ v # u
<1> DEFINE list == mapFileWorkers[f]
           i == CHOOSE i \in DOMAIN list : list[i] = u
<1>1. list \in Seq(Users) /\ IsInjective(list) /\ u \in ToSet(list) /\ f \in DOMAIN mapFileWorkers
  BY DEF MembersInv, ListsInv, Listed
<1>2. i \in 1 .. Len(list) /\ list[i] = u
  BY <1>1 DEF ToSet
<1>3. LeftBy(u, f) = RemoveAt(list, i)
  BY DEF LeftBy
<1>4. \A v \in ToSet(list) : Listed(v, f)
  BY <1>1 DEF Listed
<1> HIDE DEF list, i
<1> QED
  BY <1>1, <1>2, <1>3, <1>4, RemoveOnce

\* A user leaves the list of a file, and the server goes on or begins to save.
LEMMA leaveFileLists ==
  ASSUME MembersInv, NEW u \in Users, NEW f, NEW doing \in {"closed", "disconnected"},
         leaveFile(u, f, After(doing, u))
  PROVE  /\ ListsInv' /\ ~Listed(u, f)' /\ \A v, g : Listed(v, g)' => Listed(v, g)
         /\ Rest'.doing = doing /\ Rest'.user = u /\ serving'.doing # "create"
<1> DEFINE rest == LeftBy(u, f)
<1>1. u \in ToSet(WorkersOf(f)) <=> Listed(u, f)
  BY EmptyFunction DEF WorkersOf, Listed, ToSet
<1>2. CASE ~Listed(u, f)
  <2>1. mapFileWorkers' = mapFileWorkers /\ serving' = [After(doing, u) EXCEPT !.left = FALSE]
    BY <1>1, <1>2 DEF leaveFile
  <2>2. ListsInv' /\ \A v, g : Listed(v, g)' => Listed(v, g)
    BY <2>1 DEF MembersInv, ListsInv, Listed
  <2> QED
    BY <1>2, <2>1, <2>2 DEF After, Rest
<1>3. CASE Listed(u, f) /\ rest # <<>>
  <2>1. mapFileWorkers' = [mapFileWorkers EXCEPT ![f] = rest] /\ serving' = After(doing, u)
    BY <1>1, <1>3 DEF leaveFile
  <2>2. rest \in Seq(Users) /\ IsInjective(rest) /\ \A v \in ToSet(rest) : Listed(v, f) /\ v # u
    BY <1>3, LeftByMembers
  <2> HIDE DEF rest
  <2>3. f \in DOMAIN mapFileWorkers
    BY <1>3 DEF Listed
  <2>4. ListsInv'
    BY <2>1, <2>2 DEF MembersInv, ListsInv
  <2>5. ~Listed(u, f)' /\ \A v, g : Listed(v, g)' => Listed(v, g)
    BY <2>1, <2>2, <2>3 DEF Listed
  <2> QED
    BY <2>1, <2>4, <2>5 DEF After, Rest
<1>4. CASE Listed(u, f) /\ rest = <<>>
  <2> DEFINE a == [After(doing, u) EXCEPT !.forget = filename[u]]
  <2>1. /\ mapFileWorkers' = Restrict(mapFileWorkers, DOMAIN mapFileWorkers \ {f})
        /\ serving' = [doing |-> "save", todo |-> Held, half |-> NoName, then |-> a]
    BY <1>1, <1>4 DEF leaveFile
  <2>2. a.doing = doing /\ a.user = u
    BY DEF After
  <2> HIDE DEF a
  <2>3. /\ DOMAIN mapFileWorkers' = DOMAIN mapFileWorkers \ {f}
        /\ \A g \in DOMAIN mapFileWorkers' : mapFileWorkers'[g] = mapFileWorkers[g]
    BY <2>1 DEF Restrict
  <2>4. ListsInv' /\ ~Listed(u, f)' /\ \A v, g : Listed(v, g)' => Listed(v, g)
    BY <2>3 DEF MembersInv, ListsInv, Listed
  <2> QED
    BY <2>1, <2>2, <2>4 DEF Rest
<1> QED
  BY <1>2, <1>3, <1>4

\* A user leaves the only list that may hold the user.
LEMMA LeavesMembers ==
  ASSUME Inv, MembersInv, NEW u \in Users, NEW type \in {"close", "disconnected"}, Receives(u, type),
         UNCHANGED <<filename, alive, answers>>,
         ListsInv', ~Listed(u, filename[u])', \A v, g : Listed(v, g)' => Listed(v, g),
         Rest'.doing = IF type = "close" THEN "closed" ELSE "disconnected",
         Rest'.user = u, serving'.doing # "create"
  PROVE  MembersInv'
<1>1. serving = Idle /\ view' = view /\ \A v \in Users \ {u} : requests'[v] = requests[v]
  BY TakenInv DEF client
<1>2. \A g \in Files : ~Listed(u, g)'
  BY DEF MembersInv, MemberInv
<1>3. MemberInv(u)'
  BY <1>2 DEF MemberInv
<1>4. type = "close" => (view[u] = "login" => Waits(u, {"disconnected"})')
  BY SessionGoesOn
<1>5. SessionInv(u)'
  BY <1>1, <1>4 DEF SessionInv, EndsSession, Creating
<1>6. \A v \in Users \ {u} : ~Creating(v)' /\ ~Leaving(v)'
  BY DEF Creating, Leaving
<1> QED
  BY <1>1, <1>3, <1>5, <1>6, OthersMembers

LEMMA closeFileMembers == ASSUME Inv, MembersInv, NEW u \in Users, closeFile(u) PROVE MembersInv'
<1> DEFINE f == Head(requests[u]).file
<1>1. Receives(u, "close") /\ leaveFile(u, f, After("closed", u)) /\ UNCHANGED <<filename, alive, answers>>
  BY DEF closeFile
<1>2. f = filename[u]
  <2>1. requests[u][1] = Head(requests[u]) /\ Head(requests[u]).type = "close" /\ 1 \in DOMAIN requests[u]
    BY <1>1, TakenInv
  <2> QED
    BY <2>1 DEF Inv, RequestsInv
<1> HIDE DEF f
<1>3. /\ ListsInv' /\ ~Listed(u, filename[u])' /\ \A v, g : Listed(v, g)' => Listed(v, g)
      /\ Rest'.doing = "closed" /\ Rest'.user = u /\ serving'.doing # "create"
  BY <1>1, <1>2, leaveFileLists DEF Listed
<1> QED
  BY <1>1, <1>3, LeavesMembers

LEMMA userDisconnectedMembers ==
  ASSUME Inv, MembersInv, NEW u \in Users, userDisconnected(u) PROVE MembersInv'
<1>1. Receives(u, "disconnected") /\ UNCHANGED <<filename, alive, answers>>
  BY DEF userDisconnected
<1>2. /\ ListsInv' /\ ~Listed(u, filename[u])' /\ \A v, g : Listed(v, g)' => Listed(v, g)
      /\ Rest'.doing = "disconnected" /\ Rest'.user = u /\ serving'.doing # "create"
  <2>1. CASE filename[u] = NoName
    <3>1. serving' = After("disconnected", u) /\ mapFileWorkers' = mapFileWorkers
      BY <2>1 DEF userDisconnected, memory
    <3>2. \A g : ~Listed(u, g)
      BY <2>1, NotListed
    <3> QED
      BY <1>1, <3>1, <3>2 DEF MembersInv, ListsInv, Listed, After, Rest
  <2>2. CASE filename[u] # NoName
    <3>1. leaveFile(u, filename[u], After("disconnected", u))
      BY <2>2 DEF userDisconnected
    <3> QED
      BY <1>1, <3>1, leaveFileLists DEF Listed
  <2> QED
    BY <2>1, <2>2
<1> QED
  BY <1>1, <1>2, LeavesMembers

\* Nobody in a list is deleted.
LEMMA finishLeavingMembersOf ==
  ASSUME Inv, MembersInv, NEW u \in Users, serving.user = u, finishLeaving PROVE MembersInv'
<1>1. /\ serving.doing \in {"closed", "disconnected"} /\ serving' = Idle
      /\ serving.doing = "disconnected" => alive' = alive \ {u} /\ mapFileWorkers' = Dangling(u)
      /\ serving.doing # "disconnected" => alive' = alive /\ mapFileWorkers' = mapFileWorkers
      /\ UNCHANGED <<requests, answers, view>>
      /\ \A v \in Users \ {u} : filename'[v] = filename[v]
  BY DEF finishLeaving, client, Inv, Types
<1>2. Leaving(u) /\ \A v : EndsSession(v) <=> v = u /\ serving.doing = "disconnected"
  BY <1>1 DEF Leaving, EndsSession, Rest
<1>3. \A g : ~Listed(u, g)
  BY <1>2, NotListed
<1>4. /\ DOMAIN mapFileWorkers' = DOMAIN mapFileWorkers
      /\ \A g \in DOMAIN mapFileWorkers : mapFileWorkers'[g] = mapFileWorkers[g]
  <2>1. ASSUME NEW g \in DOMAIN mapFileWorkers PROVE Dangling(u)[g] = mapFileWorkers[g]
    <3>1. mapFileWorkers[g] = [i \in DOMAIN mapFileWorkers[g] |-> mapFileWorkers[g][i]]
      BY DEF MembersInv, ListsInv
    <3>2. \A i \in DOMAIN mapFileWorkers[g] : mapFileWorkers[g][i] # u
      BY <1>3 DEF Listed, ToSet
    <3> QED
      BY <3>1, <3>2 DEF Dangling
  <2>2. DOMAIN Dangling(u) = DOMAIN mapFileWorkers
    BY DEF Dangling
  <2> QED
    BY <1>1, <2>1, <2>2
<1>5. ListsInv' /\ \A v, g : Listed(v, g)' <=> Listed(v, g)
  BY <1>4 DEF MembersInv, ListsInv, Listed
<1>6. \A v : ~Creating(v)' /\ ~Leaving(v)'
  BY <1>1 DEF Creating, Leaving, Rest, Idle
<1>7. MemberInv(u)'
  BY <1>3, <1>5 DEF MemberInv
<1>8. SessionInv(u)'
  BY <1>1, <1>2, <1>6 DEF MembersInv, SessionInv, Waits
<1>9. ASSUME NEW v \in Users, v # u PROVE MemberInv(v)' /\ SessionInv(v)'
  <2>1. /\ ~EndsSession(v) /\ filename'[v] = filename[v] /\ requests'[v] = requests[v]
        /\ answers'[v] = answers[v] /\ view'[v] = view[v] /\ (v \in alive <=> v \in alive')
    BY <1>1, <1>2, <1>9
  <2>2. MemberInv(v) /\ SessionInv(v)
    BY DEF MembersInv
  <2> QED
    BY <1>5, <1>6, <2>1, <2>2, MemberKept
<1> QED
  BY <1>5, <1>7, <1>8, <1>9 DEF MembersInv

LEMMA finishLeavingMembers == ASSUME Inv, MembersInv, finishLeaving PROVE MembersInv'
<1>1. serving \in Leavings
  BY ServingType DEF Inv, finishLeaving
<1>2. serving.user \in Users
  BY <1>1 DEF Leavings
<1> QED
  BY <1>2, finishLeavingMembersOf

-----------------------------------------------------------------------------
(***************************************************************************)
(* Saving, and the server as a whole.                                      *)
(***************************************************************************)

\* The lists stay as they are in a save.
LEMMA SavingMembers ==
  ASSUME MembersInv, Rest' = Rest, serving'.doing # "create",
         UNCHANGED <<mapFileWorkers, filename, alive, requests, answers, view>>
  PROVE  MembersInv'
<1>1. ListsInv'
  BY DEF MembersInv, ListsInv
<1>2. ASSUME NEW u \in Users PROVE MemberInv(u)' /\ SessionInv(u)'
  <2>1. /\ \A f \in Files : Listed(u, f)' => Listed(u, f)
        /\ ~Creating(u)'
        /\ Leaving(u)' => Leaving(u)
        /\ EndsSession(u) => EndsSession(u)'
    BY DEF Listed, Creating, Leaving, EndsSession
  <2>2. MemberInv(u) /\ SessionInv(u)
    BY DEF MembersInv
  <2> QED
    BY <2>1, <2>2, MemberKept
<1> QED
  BY <1>1, <1>2 DEF MembersInv

LEMMA SaveMembers ==
  ASSUME Inv, MembersInv,
         saveTimer \/ saveDone \/ \E f \in Files : SaveSkips(f) \/ SaveDeletes(f) \/ SaveUploads(f)
  PROVE  MembersInv'
<1>1. UNCHANGED <<mapFileWorkers, filename, alive, requests, answers, view>>
  BY DEF saveTimer, saveDone, SaveSkips, SaveDeletes, SaveUploads, Saving, memory, client
<1>2. Rest' = Rest /\ serving'.doing # "create"
  <2>1. CASE saveTimer
    BY <2>1 DEF saveTimer, Rest, Idle
  <2>2. CASE saveDone
    <3>1. serving.doing = "save" /\ serving' = serving.then
      BY <2>2 DEF saveDone
    <3>2. serving' \in Rests
      BY <3>1, ServingType DEF Inv, Saves
    <3>3. serving'.doing \in {"nothing", "closed", "disconnected"}
      BY <3>2 DEF Rests, Idle, Leavings
    <3> QED
      BY <3>1, <3>3 DEF Rest
  <2>3. CASE \E f \in Files : SaveSkips(f) \/ SaveDeletes(f) \/ SaveUploads(f)
    <3>1. PICK f \in Files : SaveSkips(f) \/ SaveDeletes(f) \/ SaveUploads(f)
      BY <2>3
    <3>2. serving.doing = "save" /\ serving \in Saves
      BY <3>1, ServingType DEF SaveSkips, SaveDeletes, SaveUploads, Saving, Inv
    <3>3. \/ serving' = [serving EXCEPT !.todo = serving.todo \ {f}]
          \/ serving' = [serving EXCEPT !.half = f]
          \/ serving' = [serving EXCEPT !.todo = serving.todo \ {f}, !.half = NoName]
      BY <3>1 DEF SaveSkips, SaveDeletes, SaveUploads
    <3>4. serving'.doing = "save" /\ serving'.then = serving.then
      BY <3>2, <3>3 DEF Saves
    <3> QED
      BY <3>2, <3>4 DEF Rest
  <2> QED
    BY <2>1, <2>2, <2>3
<1> QED
  BY <1>1, <1>2, SavingMembers

LEMMA CrashMembers == ASSUME Crash PROVE MembersInv'
<1>1. /\ mapFileWorkers' = <<>> /\ alive' = {} /\ serving' = Idle
  BY DEF Crash
<1>2. ListsInv' /\ \A u, f : ~Listed(u, f)'
  BY <1>1, EmptyFunction DEF ListsInv, Listed
<1>3. \A u \in Users : ~Creating(u)'
  BY <1>1 DEF Creating, Idle
<1> QED
  BY <1>1, <1>2, <1>3 DEF MembersInv, MemberInv, SessionInv

LEMMA InitMembers == Init => MembersInv
<1> SUFFICES ASSUME Init PROVE MembersInv
  OBVIOUS
<1>1. ListsInv /\ \A u, f : ~Listed(u, f)
  BY EmptyFunction DEF Init, ListsInv, Listed
<1>2. \A u \in Users : ~Creating(u) /\ view[u] = "home"
  BY DEF Init, Creating, Idle
<1> QED
  BY <1>1, <1>2 DEF MembersInv, MemberInv, SessionInv

LEMMA NextMembers ==
  ASSUME ~Impatient, Inv, MembersInv, FilesFound', [Next]_vars PROVE MembersInv'
<1>1. ASSUME NEW u \in Users, Client(u) PROVE MembersInv'
  BY <1>1, ClientAsksMembers, ClientEditsMembers, ConnectionDropsMembers, ClientConnectsMembers DEF Client
<1>2. ASSUME NEW u \in Users, Hears(u) PROVE MembersInv'
  BY <1>2, ClientHearsMembers
<1>3. ASSUME NEW u \in Users, Handles(u) PROVE MembersInv'
  BY <1>3, createNewFileMembers, sendFileMembers, handleOperationMembers, closeFileMembers,
     userDisconnectedMembers DEF Handles
<1>4. CASE Continues
  BY <1>4, insertNewFileMembers, finishLeavingMembers, SaveMembers DEF Continues
<1>5. CASE UNCHANGED vars
  <2>1. /\ UNCHANGED <<mapFileWorkers, serving>>
        /\ UNCHANGED <<filename, alive, requests, answers, view>>
    BY <1>5 DEF vars, memory, client
  <2>2. ASSUME NEW u \in Users PROVE MemberInv(u)' /\ SessionInv(u)'
    BY <2>1, SameServer, MemberKept DEF MembersInv
  <2>3. ListsInv'
    BY <2>1 DEF MembersInv, ListsInv
  <2> QED
    BY <2>2, <2>3 DEF MembersInv
<1> QED
  BY <1>1, <1>2, <1>3, <1>4, <1>5, SaveMembers, CrashMembers DEF Next

LEMMA MembersImply == ASSUME Inv, MembersInv PROVE NoDeletedWorkers /\ MembersEdit
<1>1. NoDeletedWorkers
  <2>1. ASSUME NEW f \in DOMAIN mapFileWorkers PROVE Deleted \notin ToSet(mapFileWorkers[f])
    <3>1. \A i \in DOMAIN mapFileWorkers[f] : mapFileWorkers[f][i] \in Users
      BY DEF MembersInv, ListsInv
    <3>2. Deleted \notin Users
      BY NamesAssumption DEF Deleted
    <3> QED
      BY <3>1, <3>2 DEF ToSet
  <2> QED
    BY <2>1 DEF NoDeletedWorkers
<1>2. ASSUME serving = Idle, NEW f \in DOMAIN mapFileWorkers, NEW u \in Users,
             u \in ToSet(mapFileWorkers[f])
      PROVE  Unanswered(u) \/ (view[u] = "editing" /\ openfile[u] = f)
  <2>1. f \in Files /\ Listed(u, f)
    BY <1>2 DEF Listed, Inv, Types, MemoryTypes
  <2>2. filename[u] = f /\ u \in alive /\ MemberInv(u) /\ SessionInv(u)
    BY <2>1 DEF MembersInv, MemberInv
  <2>3. \A types : Waits(u, types) => requests[u] # <<>>
    BY EmptyFunction DEF Waits
  <2>4. CASE view[u] = "editing"
    BY <2>2, <2>4 DEF Inv, ClientInv
  <2>5. CASE view[u] = "home"
    BY <2>1, <2>3, <2>5 DEF MembersInv, MemberInv, Unanswered
  <2>6. CASE view[u] = "login"
    BY <1>2, <2>2, <2>3, <2>6 DEF SessionInv, EndsSession, Rest, Idle, Unanswered
  <2>7. view[u] \in {"home", "editing", "login"}
    BY DEF Inv, Types
  <2> QED
    BY <2>4, <2>5, <2>6, <2>7
<1> QED
  BY <1>1, <1>2 DEF MembersEdit

\* The lists are right as MembersInv says, with files that are created, lost
\* connections and crashes, as long as no client is sent an empty file.
THEOREM MembersKept == ASSUME ~Impatient PROVE Spec /\ []FilesFound => []MembersInv
<1>1. ASSUME Inv, MembersInv, FilesFound', [Next]_vars PROVE MembersInv'
  BY <1>1, NextMembers
<1> QED
  BY <1>1, Invariant, InitMembers, PTL DEF Spec

\* No list holds a worker that was deleted, as long as no client is sent an
\* empty file.
THEOREM NoDeletedWorkersHolds == ASSUME ~Impatient PROVE Spec /\ []FilesFound => []NoDeletedWorkers
BY Invariant, MembersKept, MembersImply, PTL

\* Who is in the list of a file, and heard all answers, edits it, as long as no
\* client is sent an empty file.
THEOREM MembersEditHolds == ASSUME ~Impatient PROVE Spec /\ []FilesFound => []MembersEdit
BY Invariant, MembersKept, MembersImply, PTL

-----------------------------------------------------------------------------
(***************************************************************************)
(* When no client is sent an empty file: all files were there from the     *)
(* start, and the server does not crash between the two steps of a save.   *)
(***************************************************************************)

SymbolsInv ==
  /\ files = Files /\ serving.doing # "create"
  /\ \A f \in Held : symbols_list[f] # 0
  /\ \A f \in Files : bucket[f] # 0 /\ Stored(f)

FoundInv == SymbolsInv /\ FilesFound

LEMMA SymbolsKept ==
  ASSUME SymbolsInv, UNCHANGED <<files, bucket, symbols_list>>, serving'.doing # "create",
         \A f \in Files : Half(f) => Half(f)'
  PROVE  SymbolsInv'
BY DEF SymbolsInv, Held, Stored

LEMMA AnswersKept ==
  ASSUME FilesFound, NEW u \in Users, \A v \in Users \ {u} : answers'[v] = answers[v],
         answers'[u] \in {answers[u], <<>>}
  PROVE  FilesFound'
BY EmptyFunction DEF FilesFound

\* The answer to one who waited for it.
LEMMA AnsweredFound ==
  ASSUME Inv, FilesFound, NEW u \in Users, NEW m, Answer(u, m), answers[u] = <<>>,
         m.type = "file_to_open" => m.success /\ m.symbols # 0
  PROVE  FilesFound'
<1>1. /\ answers'[u] \in {<<>>, <<m>>}
      /\ \A v \in Users \ {u} : answers'[v] = answers[v]
  BY DEF Inv, Types, Answer
<1>2. \A i \in DOMAIN answers'[u] : answers'[u][i] = m
  BY <1>1, EmptyFunction
<1> QED
  BY <1>1, <1>2 DEF FilesFound

LEMMA ClientFound == ASSUME Inv, FoundInv, NEW u \in Users, Client(u) \/ Hears(u) PROVE FoundInv'
<1>1. UNCHANGED <<files, bucket, symbols_list, serving>>
  BY DEF Client, Hears, ClientCreates, ClientOpens, MayAsk, ClientTypes, ClientCloses,
         ConnectionDrops, ClientConnects, ClientHearsNewFile, ClientHearsFile, Heard, memory
<1>2. SymbolsInv'
  BY <1>1, SymbolsKept DEF FoundInv, SymbolsInv, Half
<1>3. CASE Hears(u)
  <2>1. answers[u] # <<>> /\ Heard(u)
    BY <1>3 DEF Hears, ClientHearsNewFile, ClientHearsFile
  <2> QED
    BY <1>2, <2>1, HeardInv, AnswersKept DEF FoundInv
<1>4. CASE ConnectionDrops(u)
  <2>1. answers'[u] = <<>> /\ \A v \in Users \ {u} : answers'[v] = answers[v]
    BY <1>4 DEF ConnectionDrops, Inv, Types
  <2> QED
    BY <1>2, <2>1, AnswersKept DEF FoundInv
<1>5. CASE Client(u) /\ ~ConnectionDrops(u)
  <2>1. answers' = answers
    BY <1>5 DEF Client, ClientCreates, ClientOpens, MayAsk, ClientTypes, ClientCloses, ClientConnects
  <2> QED
    BY <1>2, <2>1, AnswersKept DEF FoundInv
<1> QED
  BY <1>3, <1>4, <1>5

\* Nothing is being saved: every file is in the database, with symbols.
LEMMA IdleFound ==
  ASSUME Inv, FoundInv, serving.doing # "save"
  PROVE  \A f \in Files : bucket[f] \in Nat \ {0} /\ bucket[f] # NoFile /\ ~Half(f)
BY DEF FoundInv, SymbolsInv, Stored, Half, Inv, Types

LEMMA createNewFileFound ==
  ASSUME Inv, FoundInv, NEW u \in Users, createNewFile(u) PROVE FoundInv'
<1> DEFINE f == Head(requests[u]).file
<1>1. Receives(u, "new_file") /\ UNCHANGED <<bucket, symbols_list>>
  BY DEF createNewFile, memory
<1>2. f \in Files /\ answers[u] = <<>>
  <2>1. requests[u][1] = Head(requests[u]) /\ Head(requests[u]).type = "new_file" /\ 1 \in DOMAIN requests[u]
    BY <1>1, TakenInv
  <2> QED
    BY <2>1 DEF Inv, RequestsInv
<1>3. Answer(u, NewFileAnswer(FALSE)) /\ UNCHANGED <<files, serving>>
  BY <1>2 DEF createNewFile, FoundInv, SymbolsInv
<1>4. SymbolsInv'
  BY <1>1, <1>3, SymbolsKept DEF FoundInv, SymbolsInv, Half
<1>5. FilesFound'
  <2>1. NewFileAnswer(FALSE).type = "new_file"
    BY DEF NewFileAnswer
  <2> QED
    BY <1>2, <1>3, <2>1, AnsweredFound DEF FoundInv
<1> QED
  BY <1>4, <1>5 DEF FoundInv

LEMMA sendFileFound == ASSUME Inv, FoundInv, NEW u \in Users, sendFile(u) PROVE FoundInv'
<1> DEFINE f == Head(requests[u]).file
           read == IF f \in Held THEN symbols_list[f] ELSE retrieveFile(f)
           found == f \in Held \/ bucket[f] # NoFile
           answer == [type |-> "file_to_open", success |-> found, symbols |-> read, file |-> f]
<1>1. /\ Receives(u, "file_to_open") /\ UNCHANGED <<files, bucket, serving>>
      /\ IF f \in Held THEN symbols_list' = symbols_list ELSE symbols_list' = Put(symbols_list, f, read)
      /\ Answer(u, answer)
  BY DEF sendFile, storeSymbolsServerMemory
<1>2. serving = Idle /\ f \in Files /\ answers[u] = <<>>
  <2>1. requests[u][1] = Head(requests[u]) /\ Head(requests[u]).type = "file_to_open" /\ 1 \in DOMAIN requests[u]
    BY <1>1, TakenInv
  <2> QED
    BY <1>1, <2>1 DEF Inv, RequestsInv, Receives
<1>3. bucket[f] # 0 /\ bucket[f] # NoFile
  BY <1>2, IdleFound DEF Idle
<1>4. found = TRUE /\ read # 0
  BY <1>2, <1>3 DEF retrieveFile, FoundInv, SymbolsInv
<1>5. answer.type = "file_to_open" => answer.success /\ answer.symbols # 0
  BY <1>4
<1> HIDE DEF f, read, found, answer
<1>6. \A g \in DOMAIN symbols_list' : symbols_list'[g] # 0
  BY <1>1, <1>4 DEF Put, Held, FoundInv, SymbolsInv
<1>7. SymbolsInv'
  BY <1>1, <1>6 DEF FoundInv, SymbolsInv, Held, Stored, Half
<1> QED
  BY <1>1, <1>2, <1>5, <1>7, AnsweredFound DEF FoundInv

LEMMA handleOperationFound ==
  ASSUME Inv, FoundInv, NEW u \in Users, handleOperation(u) PROVE FoundInv'
<1>1. /\ symbols_list' = [symbols_list EXCEPT ![filename[u]] = symbols_list[filename[u]] + 1]
      /\ UNCHANGED <<files, bucket, serving, answers>>
  BY DEF handleOperation
<1>2. \A g \in Held : symbols_list[g] \in Nat
  BY DEF Inv, Types, MemoryTypes
<1>3. \A g \in DOMAIN symbols_list' : symbols_list'[g] # 0
  BY <1>1, <1>2 DEF Held, FoundInv, SymbolsInv
<1>4. SymbolsInv'
  BY <1>1, <1>3 DEF FoundInv, SymbolsInv, Held, Stored, Half
<1> QED
  BY <1>1, <1>4 DEF FoundInv, FilesFound

LEMMA leaveFileNext ==
  ASSUME NEW u, NEW f, NEW doing \in {"closed", "disconnected"}, leaveFile(u, f, After(doing, u))
  PROVE  serving'.doing # "create"
<1> DEFINE a == [After(doing, u) EXCEPT !.left = FALSE]
           b == After(doing, u)
           c == [doing |-> "save", todo |-> Held, half |-> NoName,
                 then |-> [After(doing, u) EXCEPT !.forget = filename[u]]]
<1>1. serving' \in {a, b, c}
  BY DEF leaveFile
<1>2. a.doing # "create" /\ b.doing # "create" /\ c.doing # "create"
  BY DEF After
<1> QED
  BY <1>1, <1>2

LEMMA leavesFound ==
  ASSUME Inv, FoundInv, NEW u \in Users, closeFile(u) \/ userDisconnected(u) PROVE FoundInv'
<1>1. serving = Idle /\ UNCHANGED <<files, bucket, symbols_list, answers>>
  BY DEF closeFile, userDisconnected, leaveFile, Receives, memory
<1>2. serving'.doing # "create"
  <2>1. \/ \E f : leaveFile(u, f, After("closed", u)) \/ leaveFile(u, f, After("disconnected", u))
        \/ serving' = After("disconnected", u)
    BY DEF closeFile, userDisconnected
  <2> QED
    BY <2>1, leaveFileNext DEF After
<1>3. SymbolsInv'
  BY <1>1, <1>2, SymbolsKept DEF FoundInv, Half, Idle
<1> QED
  BY <1>1, <1>3 DEF FoundInv, FilesFound

LEMMA finishLeavingFound == ASSUME Inv, FoundInv, finishLeaving PROVE FoundInv'
<1>1. /\ symbols_list' = Restrict(symbols_list, Held \ {serving.forget})
      /\ serving.doing # "save" /\ serving' = Idle
      /\ UNCHANGED <<files, bucket, answers>>
  BY DEF finishLeaving, ForgetsSymbols
<1>2. \A f \in Files : bucket[f] # 0 /\ bucket[f] # NoFile
  BY <1>1, IdleFound
<1>3. \A f \in DOMAIN symbols_list' : symbols_list'[f] # 0
  BY <1>1 DEF Restrict, Held, FoundInv, SymbolsInv
<1>4. SymbolsInv'
  BY <1>1, <1>2, <1>3 DEF FoundInv, SymbolsInv, Held, Stored, Idle
<1> QED
  BY <1>1, <1>4 DEF FoundInv, FilesFound

LEMMA SaveFound ==
  ASSUME Inv, FoundInv,
         saveTimer \/ saveDone \/ \E f \in Files : SaveSkips(f) \/ SaveDeletes(f) \/ SaveUploads(f)
  PROVE  FoundInv'
<1>1. UNCHANGED <<files, symbols_list, answers>>
  BY DEF saveTimer, saveDone, SaveSkips, SaveDeletes, SaveUploads, Saving, memory
<1>2. CASE saveTimer
  <2>1. bucket' = bucket /\ serving.doing # "save" /\ serving'.doing # "create"
    BY <1>2 DEF saveTimer, Idle
  <2> QED
    BY <1>1, <2>1, SymbolsKept DEF FoundInv, FilesFound, Half
<1>3. CASE saveDone
  <2>1. serving.doing = "save" /\ serving.todo = {} /\ serving' = serving.then /\ bucket' = bucket
    BY <1>3 DEF saveDone
  <2>2. \A f \in Files : ~Half(f)
    BY <2>1, NamesAssumption DEF Half, Inv, StoreInv, NoName
  <2>3. serving' \in Rests
    BY <2>1, ServingType DEF Inv, Saves
  <2>4. serving'.doing # "create"
    BY <2>3 DEF Rests, Idle, Leavings
  <2> QED
    BY <1>1, <2>1, <2>2, <2>4, SymbolsKept DEF FoundInv, FilesFound
<1>4. ASSUME NEW f \in Files, SaveSkips(f) \/ SaveDeletes(f) \/ SaveUploads(f) PROVE FoundInv'
  <2>1. serving.doing = "save" /\ serving \in Saves /\ f \in Held
    BY <1>4, SavingType DEF SaveSkips, SaveDeletes, SaveUploads
  <2>2. \A g \in Held : symbols_list[g] # 0 /\ symbols_list[g] \in Nat
    BY DEF FoundInv, SymbolsInv, Inv, Types, MemoryTypes
  <2>3. NoFile # 0 /\ bucket \in [Files -> Nat \cup {NoFile}] /\ NoName \notin Files
    BY NamesAssumption DEF NoFile, NoName, Inv, Types
  <2>4. CASE SaveSkips(f)
    <3>1. serving' = [serving EXCEPT !.todo = serving.todo \ {f}] /\ bucket' = bucket
      BY <2>4 DEF SaveSkips
    <3>2. serving'.doing = "save" /\ serving'.half = serving.half
      BY <2>1, <3>1 DEF Saves
    <3> QED
      BY <1>1, <2>1, <3>1, <3>2, SymbolsKept DEF FoundInv, FilesFound, Half
  <2>5. CASE SaveDeletes(f)
    <3>1. /\ serving.half = NoName /\ serving' = [serving EXCEPT !.half = f]
          /\ bucket' = [bucket EXCEPT ![f] = NoFile]
      BY <2>5 DEF SaveDeletes
    <3>2. serving'.doing = "save" /\ serving'.half = f
      BY <2>1, <3>1 DEF Saves
    <3>3. \A g \in Files : bucket'[g] # 0 /\ Stored(g)'
      BY <2>3, <3>1, <3>2 DEF FoundInv, SymbolsInv, Stored, Half
    <3> QED
      BY <1>1, <3>2, <3>3 DEF FoundInv, SymbolsInv, FilesFound, Held
  <2>6. CASE SaveUploads(f)
    <3>1. /\ serving.half = f /\ serving' = [serving EXCEPT !.todo = serving.todo \ {f}, !.half = NoName]
          /\ bucket' = [bucket EXCEPT ![f] = symbols_list[f]]
      BY <2>6 DEF SaveUploads
    <3>2. serving'.doing = "save"
      BY <2>1, <3>1 DEF Saves
    <3>3. symbols_list[f] # 0 /\ symbols_list[f] # NoFile
      BY <2>1, <2>2 DEF NoFile
    <3>4. \A g \in Files : bucket'[g] # 0 /\ bucket'[g] # NoFile
      BY <2>3, <3>1, <3>3 DEF FoundInv, SymbolsInv, Stored, Half
    <3> QED
      BY <1>1, <3>2, <3>4 DEF FoundInv, SymbolsInv, FilesFound, Held, Stored
  <2> QED
    BY <1>4, <2>4, <2>5, <2>6
<1> QED
  BY <1>2, <1>3, <1>4

LEMMA NextFound == ASSUME MaxCrashes = 0, Inv, FoundInv, [Next]_vars PROVE FoundInv'
<1>1. ~Crash /\ ~insertNewFile
  <2>1. crashes \in 0 .. MaxCrashes /\ serving.doing # "create"
    BY DEF Inv, Types, FoundInv, SymbolsInv
  <2>2. ~Crash
    BY <2>1 DEF Crash
  <2>3. ~insertNewFile
    BY <2>1 DEF insertNewFile
  <2> QED
    BY <2>2, <2>3
<1>2. CASE UNCHANGED vars
  BY <1>2, SymbolsKept DEF FoundInv, SymbolsInv, FilesFound, Half, vars, memory
<1> QED
  BY <1>1, <1>2, ClientFound, createNewFileFound, sendFileFound, handleOperationFound, leavesFound,
     finishLeavingFound, SaveFound DEF Next, Handles, Continues

LEMMA InitFound == ASSUME Existing = Files PROVE Init => FoundInv
<1> SUFFICES ASSUME Init PROVE FoundInv
  OBVIOUS
<1>1. Held = {} /\ \A u \in Users : DOMAIN answers[u] = {}
  BY EmptyFunction DEF Init, Held
<1>2. \A f \in Files : bucket[f] = 1
  BY DEF Init
<1> QED
  BY <1>1, <1>2 DEF Init, FoundInv, SymbolsInv, FilesFound, Idle, Stored, NoFile

\* Every file that is asked for has symbols, where all files were stored at the
\* start and the server does not crash: the condition of the theorems above.
THEOREM FilesFoundHolds ==
  ASSUME ~Impatient, Existing = Files, MaxCrashes = 0 PROVE Spec => []FilesFound
<1>1. ASSUME Inv, FoundInv, [Next]_vars PROVE FoundInv'
  BY <1>1, NextFound
<1>2. FoundInv => FilesFound
  BY DEF FoundInv
<1> QED
  BY <1>1, <1>2, Invariant, InitFound, PTL DEF Spec
===============================================================================
