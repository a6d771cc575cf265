------------------------------ MODULE CrdtProofs ------------------------------
(***************************************************************************)
(* What the operations of Crdt do to a replica, for every document and     *)
(* every operation.  A replica is in order (Good) when its lines are in    *)
(* shape, its symbols sorted and ended by the terminator, its text the     *)
(* characters of its symbols and its size their number.  The binary        *)
(* searches are exact in such a replica, and each handler, of the user's   *)
(* changes and of the operations of others, makes of it another replica in *)
(* order that holds the symbols the operation says.                        *)
(***************************************************************************)
EXTENDS Collab, FiniteSetTheorems, TLAPS

Inserts == INSTANCE FoldProofs WITH Op <- InsertRemote

\* Induction up to a number, for a set: the induction theorems of the library
\* take an operator.
LEMMA UpTo ==
  ASSUME NEW n \in Nat, NEW T, 0 \in T, \A k \in 0 .. n - 1 : k \in T => k + 1 \in T
  PROVE  0 .. n \subseteq T
<1> DEFINE Missing == {k \in 0 .. n : k \notin T}
           Less == {p \in Nat \X Nat : p[1] < p[2]}
<1>1. SUFFICES ASSUME Missing # {} PROVE FALSE
  BY <1>1, SMT
<1>2. IsWellFoundedOn(Less, Nat)
  BY NatLessThanWellFounded DEF OpToRel
<1>3. Missing \subseteq Nat
  OBVIOUS
<1>4. PICK m \in Missing : \A k \in Missing : ~ (<<k, m>> \in Less)
  <2> HIDE DEF Missing, Less
  <2> QED BY <1>1, <1>2, <1>3, WFMin
<1>5. m \in 0 .. n /\ m \notin T /\ m # 0
  BY <1>4
<1>6. m - 1 \notin T
  BY <1>5
<1>7. m - 1 \in Missing
  BY <1>5, <1>6
<1>8. <<m - 1, m>> \in Less
  BY <1>5
<1> QED
  BY <1>4, <1>7, <1>8

\* The same as one fact, which the proofs about folds ask for.
LEMMA Counting ==
  \A n \in Nat : \A T : (0 \in T /\ \A k \in 0 .. n - 1 : k \in T => k + 1 \in T) => 0 .. n \subseteq T
BY UpTo

-----------------------------------------------------------------------------
(***************************************************************************)
(* Sequences.                                                              *)
(***************************************************************************)

\* Sequences of the same elements are the same.
LEMMA Same ==
  ASSUME NEW T, NEW s \in Seq(T), NEW t \in Seq(T), Len(s) = Len(t),
         \A k \in 1 .. Len(s) : s[k] = t[k]
  PROVE  s = t
OBVIOUS

\* Two sequences, one after the other.
LEMMA Both ==
  ASSUME NEW T, NEW s \in Seq(T), NEW t \in Seq(T)
  PROVE  /\ s \o t \in Seq(T) /\ Len(s \o t) = Len(s) + Len(t)
         /\ \A k \in 1 .. Len(s) : (s \o t)[k] = s[k]
         /\ \A k \in 1 .. Len(t) : (s \o t)[Len(s) + k] = t[k]
OBVIOUS

\* The empty sequence before or after another.
LEMMA NoneBefore == ASSUME NEW T, NEW s \in Seq(T) PROVE <<>> \o s = s /\ s \o <<>> = s /\ <<>> \in Seq(T)
<1>1. <<>> \in Seq(T) /\ Len(<<>>) = 0
  OBVIOUS
<1>2. <<>> \o s = s
  <2>1. <<>> \o s \in Seq(T) /\ Len(<<>> \o s) = Len(s) /\ \A k \in 1 .. Len(s) : (<<>> \o s)[k] = s[k]
    BY <1>1
  <2> QED BY <2>1, Same
<1>3. s \o <<>> = s
  <2>1. s \o <<>> \in Seq(T) /\ Len(s \o <<>>) = Len(s) /\ \A k \in 1 .. Len(s) : (s \o <<>>)[k] = s[k]
    BY <1>1
  <2> QED BY <2>1, Same
<1> QED BY <1>1, <1>2, <1>3

\* Concatenation is associative.
LEMMA Regroup ==
  ASSUME NEW T, NEW s \in Seq(T), NEW t \in Seq(T), NEW u \in Seq(T)
  PROVE  (s \o t) \o u = s \o (t \o u)
OBVIOUS

\* One more element at the end.
LEMMA OneMore ==
  ASSUME NEW T, NEW s \in Seq(T), NEW x \in T
  PROVE  /\ Append(s, x) = s \o <<x>> /\ <<x>> \in Seq(T) /\ Append(s, x) \in Seq(T)
         /\ Len(Append(s, x)) = Len(s) + 1 /\ Append(s, x)[Len(s) + 1] = x
         /\ \A k \in 1 .. Len(s) : Append(s, x)[k] = s[k]
<1>1. <<x>> \in Seq(T) /\ Len(<<x>>) = 1 /\ <<x>>[1] = x
  OBVIOUS
<1>2. /\ Append(s, x) \in Seq(T) /\ Len(Append(s, x)) = Len(s) + 1 /\ Append(s, x)[Len(s) + 1] = x
      /\ \A k \in 1 .. Len(s) : Append(s, x)[k] = s[k]
  OBVIOUS
<1>3. /\ s \o <<x>> \in Seq(T) /\ Len(s \o <<x>>) = Len(s) + 1 /\ (s \o <<x>>)[Len(s) + 1] = x
      /\ \A k \in 1 .. Len(s) : (s \o <<x>>)[k] = s[k]
  BY <1>1, Both
<1>4. \A k \in 1 .. Len(s) + 1 : Append(s, x)[k] = (s \o <<x>>)[k]
  <2> TAKE k \in 1 .. Len(s) + 1
  <2>1. k = Len(s) + 1 \/ k \in 1 .. Len(s)
    OBVIOUS
  <2> QED BY <1>2, <1>3, <2>1, Zenon
<1>5. Append(s, x) = s \o <<x>>
  BY <1>2, <1>3, <1>4, Same
<1> QED BY <1>1, <1>2, <1>5

\* A sequence cut in two.
LEMMA Cut ==
  ASSUME NEW T, NEW s \in Seq(T), NEW n \in 0 .. Len(s)
  PROVE  LET first == SubSeq(s, 1, n)
             rest == SubSeq(s, n + 1, Len(s))
         IN  /\ first \in Seq(T) /\ Len(first) = n /\ \A i \in 1 .. n : first[i] = s[i]
             /\ rest \in Seq(T) /\ Len(rest) = Len(s) - n
             /\ \A i \in 1 .. Len(s) - n : rest[i] = s[n + i]
             /\ first \o rest = s
<1> DEFINE first == SubSeq(s, 1, n)
           rest == SubSeq(s, n + 1, Len(s))
<1>1. first \in Seq(T) /\ Len(first) = n /\ \A i \in 1 .. n : first[i] = s[i]
  OBVIOUS
<1>2. rest \in Seq(T) /\ Len(rest) = Len(s) - n
  <2>1. n \in Nat /\ Len(s) \in Nat /\ n <= Len(s) /\ n + 1 \in Nat
    OBVIOUS
  <2>2. Len(rest) = Len(s) - n
    BY <2>1
  <2>3. rest \in Seq(T)
    BY <2>1
  <2> QED
    BY <2>2, <2>3
<1>3. \A i \in 1 .. Len(s) - n : rest[i] = s[n + i]
  OBVIOUS
<1> HIDE DEF first, rest
<1>4. first \o rest = s
  <2>1. /\ first \o rest \in Seq(T) /\ Len(first \o rest) = Len(s)
        /\ \A i \in 1 .. n : (first \o rest)[i] = s[i]
        /\ \A i \in 1 .. Len(s) - n : (first \o rest)[n + i] = s[n + i]
    BY <1>1, <1>2, <1>3, Both
  <2>2. \A i \in 1 .. Len(s) : (first \o rest)[i] = s[i]
    <3> TAKE i \in 1 .. Len(s)
    <3>1. i \in 1 .. n \/ (i - n \in 1 .. Len(s) - n /\ n + (i - n) = i)
      OBVIOUS
    <3> QED BY <2>1, <3>1
  <2> QED BY <2>1, <2>2, Same
<1> QED
  BY <1>1, <1>2, <1>3, <1>4 DEF first, rest

\* One more element of the first part.
LEMMA CutNext ==
  ASSUME NEW T, NEW s \in Seq(T), NEW n \in 1 .. Len(s)
  PROVE  SubSeq(s, 1, n) = Append(SubSeq(s, 1, n - 1), s[n]) /\ s[n] \in T
<1> DEFINE a == SubSeq(s, 1, n)
           b == SubSeq(s, 1, n - 1)
<1>0. n \in 0 .. Len(s) /\ n - 1 \in 0 .. Len(s) /\ s[n] \in T
  OBVIOUS
<1>1. a \in Seq(T) /\ Len(a) = n /\ \A i \in 1 .. n : a[i] = s[i]
  BY <1>0, Cut
<1>2. b \in Seq(T) /\ Len(b) = n - 1 /\ \A i \in 1 .. n - 1 : b[i] = s[i]
  BY <1>0, Cut
<1> HIDE DEF a, b
<1>3. /\ Append(b, s[n]) \in Seq(T) /\ Len(Append(b, s[n])) = n /\ Append(b, s[n])[n] = s[n]
      /\ \A i \in 1 .. n - 1 : Append(b, s[n])[i] = s[i]
  BY <1>0, <1>2, OneMore
<1>4. \A i \in 1 .. n : Append(b, s[n])[i] = a[i]
  <2> TAKE i \in 1 .. n
  <2>1. i = n \/ i \in 1 .. n - 1
    OBVIOUS
  <2> QED BY <1>1, <1>3, <2>1
<1>5. a = Append(b, s[n])
  BY <1>1, <1>3, <1>4, Same
<1> QED BY <1>0, <1>5 DEF a, b

-----------------------------------------------------------------------------
(***************************************************************************)
(* The symbols of lines, one after the other.                              *)
(***************************************************************************)

\* The function that flattens lines exists.
LEMMA FlatExists ==
  ASSUME NEW T, NEW lines \in Seq(Seq(T)), Len(lines) > 0
  PROVE  \E g : g = [i \in 1 .. Len(lines) |-> IF i = 1 THEN lines[i] ELSE g[i - 1] \o lines[i]]
<1> DEFINE n == Len(lines)
           Done == {k \in 0 .. n : \E g : g = [i \in 1 .. k |-> IF i = 1 THEN lines[i] ELSE g[i - 1] \o lines[i]]}
<1>1. 0 \in Done
  <2> DEFINE g == [i \in 1 .. 0 |-> lines]
  <2>1. \A i \in 1 .. 0 : FALSE
    OBVIOUS
  <2>2. g = [i \in 1 .. 0 |-> IF i = 1 THEN lines[i] ELSE g[i - 1] \o lines[i]]
    BY <2>1, Zenon
  <2>3. 0 \in 0 .. n
    OBVIOUS
  <2> QED BY <2>2, <2>3, Zenon
<1>2. ASSUME NEW k \in 0 .. n - 1, k \in Done PROVE k + 1 \in Done
  <2>1. PICK g : g = [i \in 1 .. k |-> IF i = 1 THEN lines[i] ELSE g[i - 1] \o lines[i]]
    BY <1>2
  <2> DEFINE B(i) == IF i = 1 THEN lines[i] ELSE g[i - 1] \o lines[i]
             h == [i \in 1 .. k + 1 |-> B(i)]
  <2>2. \A i \in 1 .. k : g[i] = B(i)
    <3>1. g = [i \in 1 .. k |-> B(i)]
      BY <2>1, Zenon
    <3> HIDE DEF B
    <3> QED BY <3>1, Zenon
  <2>3. ASSUME NEW i \in 1 .. k + 1 PROVE h[i] = IF i = 1 THEN lines[i] ELSE h[i - 1] \o lines[i]
    <3>1. CASE i = 1
      BY <3>1, Zenon
    <3>2. CASE i # 1
      <4>1. i - 1 \in 1 .. k /\ i - 1 \in 1 .. k + 1
        BY <3>2
      <4>2. h[i - 1] = B(i - 1) /\ h[i] = B(i)
        <5> HIDE DEF B
        <5> QED BY <4>1, Zenon
      <4>3. h[i - 1] = g[i - 1]
        <5> HIDE DEF B, h
        <5> QED BY <4>1, <4>2, <2>2, Zenon
      <4> HIDE DEF h
      <4> QED BY <3>2, <4>2, <4>3, Zenon
    <3> QED BY <3>1, <3>2
  <2>4. h = [i \in 1 .. k + 1 |-> IF i = 1 THEN lines[i] ELSE h[i - 1] \o lines[i]]
    <3>1. h = [i \in 1 .. k + 1 |-> h[i]]
      BY Zenon
    <3> HIDE DEF h
    <3> QED BY <2>3, <3>1, Zenon
  <2>5. k + 1 \in 0 .. n
    OBVIOUS
  <2> QED BY <2>4, <2>5, Zenon
<1>3. 0 .. n \subseteq Done
  <2>1. n \in Nat
    OBVIOUS
  <2> HIDE DEF Done, n
  <2> QED BY <1>1, <1>2, <2>1, UpTo
<1>4. n \in Done
  <2>1. n \in 0 .. n
    OBVIOUS
  <2> HIDE DEF Done, n
  <2> QED BY <1>3, <2>1
<1> QED BY <1>4, Zenon

\* The symbols of the first lines.
LEMMA FlatSteps ==
  ASSUME NEW T, NEW lines \in Seq(Seq(T))
  PROVE  \E f \in [0 .. Len(lines) -> Seq(T)] :
            /\ f[0] = <<>> /\ f[Len(lines)] = Flatten(lines)
            /\ \A k \in 1 .. Len(lines) : f[k] = f[k - 1] \o lines[k]
<1>1. CASE Len(lines) = 0
  <2> DEFINE f == [k \in 0 .. 0 |-> <<>>]
  <2>1. lines = <<>>
    BY <1>1
  <2>2. Flatten(lines) = <<>>
    BY <2>1, <1>1, Zenon DEF Flatten, FlattenSeq
  <2>3. f \in [0 .. Len(lines) -> Seq(T)] /\ f[0] = <<>>
    BY <1>1
  <2>4. \A k \in 1 .. Len(lines) : FALSE
    BY <1>1
  <2> HIDE DEF f
  <2> QED BY <1>1, <2>2, <2>3, <2>4, Zenon
<1>2. CASE Len(lines) # 0
  <2> DEFINE n == Len(lines)
             g == CHOOSE h : h = [i \in 1 .. n |-> IF i = 1 THEN lines[i] ELSE h[i - 1] \o lines[i]]
             f == [k \in 0 .. n |-> IF k = 0 THEN <<>> ELSE g[k]]
  <2>0. n \in Nat /\ n > 0 /\ n # 0
    BY <1>2
  <2>1. \E h : h = [i \in 1 .. n |-> IF i = 1 THEN lines[i] ELSE h[i - 1] \o lines[i]]
    BY <2>0, FlatExists
  <2>2. g = [i \in 1 .. n |-> IF i = 1 THEN lines[i] ELSE g[i - 1] \o lines[i]]
    BY <2>1, Zenon
  <2>3. Flatten(lines) = g[n]
    BY <2>0, Zenon DEF Flatten, FlattenSeq
  <2> HIDE DEF g
  <2>4. \A i \in 1 .. n : g[i] = IF i = 1 THEN lines[i] ELSE g[i - 1] \o lines[i]
    <3> DEFINE B(i) == IF i = 1 THEN lines[i] ELSE g[i - 1] \o lines[i]
    <3>1. g = [i \in 1 .. n |-> B(i)]
      BY <2>2, Zenon
    <3>2. \A i \in 1 .. n : g[i] = B(i)
      <4> HIDE DEF B
      <4> QED BY <3>1, Zenon
    <3> QED BY <3>2, Zenon
  <2>5. f[0] = <<>>
    BY <2>0
  <2>6. \A k \in 1 .. n : k \in 0 .. n /\ k # 0 /\ f[k] = g[k]
    BY <2>0
  <2>7. f[n] = Flatten(lines)
    <3>1. n \in 1 .. n
      BY <2>0
    <3> QED BY <2>3, <2>6, <3>1, Zenon
  <2>8. \A k \in 1 .. n : lines[k] \in Seq(T)
    OBVIOUS
  <2>9. \A k \in 1 .. n : f[k] = f[k - 1] \o lines[k]
    <3> TAKE k \in 1 .. n
    <3>1. CASE k = 1
      <4>1. f[k] = lines[k] /\ k - 1 = 0
        <5>1. f[k] = g[k] /\ g[k] = lines[k]
          BY <2>6, <2>4, <3>1, Zenon
        <5> QED BY <5>1, <3>1
      <4>2. <<>> \o lines[k] = lines[k]
        BY <2>8, NoneBefore
      <4> HIDE DEF f
      <4> QED BY <2>5, <4>1, <4>2, Zenon
    <3>2. CASE k # 1
      <4>1. k - 1 \in 1 .. n
        BY <3>2
      <4> HIDE DEF f
      <4> QED BY <2>6, <2>4, <3>2, <4>1, Zenon
    <3> QED BY <3>1, <3>2
  <2> DEFINE Done == {k \in 0 .. n : f[k] \in Seq(T)}
  <2>10. f = [k \in 0 .. n |-> f[k]]
    BY Zenon
  <2> HIDE DEF f
  <2>11. 0 \in Done
    <3>1. <<>> \in Seq(T) /\ 0 \in 0 .. n
      BY <2>0
    <3> QED BY <3>1, <2>5
  <2>12. \A k \in 0 .. n - 1 : k \in Done => k + 1 \in Done
    <3> TAKE k \in 0 .. n - 1
    <3> HAVE k \in Done
    <3>1. k + 1 \in 1 .. n /\ (k + 1) - 1 = k /\ k + 1 \in 0 .. n
      OBVIOUS
    <3>2. f[k + 1] = f[k] \o lines[k + 1] /\ f[k] \in Seq(T) /\ lines[k + 1] \in Seq(T)
      BY <2>9, <2>8, <3>1
    <3>3. f[k + 1] \in Seq(T)
      BY <3>2, Both, Zenon
    <3> QED BY <3>1, <3>3
  <2>13. 0 .. n \subseteq Done
    <3> HIDE DEF Done, n
    <3> QED BY <2>0, <2>11, <2>12, UpTo
  <2>14. f \in [0 .. n -> Seq(T)]
    <3>1. \A k \in 0 .. n : f[k] \in Seq(T)
      BY <2>13
    <3> HIDE DEF n
    <3> QED BY <2>10, <3>1, Zenon
  <2> QED BY <2>5, <2>7, <2>9, <2>14
<1> QED BY <1>1, <1>2

\* One more line.
LEMMA FlatAppend ==
  ASSUME NEW T, NEW lines \in Seq(Seq(T)), NEW x \in Seq(T)
  PROVE  Flatten(Append(lines, x)) = Flatten(lines) \o x /\ Flatten(lines) \in Seq(T)
<1> DEFINE n == Len(lines)
           more == Append(lines, x)
<1>1. /\ more \in Seq(Seq(T)) /\ Len(more) = n + 1 /\ more[n + 1] = x /\ n \in Nat
      /\ \A k \in 1 .. n : more[k] = lines[k]
  OBVIOUS
<1>2. PICK f \in [0 .. n -> Seq(T)] : f[0] = <<>> /\ f[n] = Flatten(lines) /\ \A k \in 1 .. n : f[k] = f[k - 1] \o lines[k]
  BY FlatSteps
<1> HIDE DEF more
<1>3. PICK g \in [0 .. n + 1 -> Seq(T)] :
        g[0] = <<>> /\ g[n + 1] = Flatten(more) /\ \A k \in 1 .. n + 1 : g[k] = g[k - 1] \o more[k]
  <2> HIDE DEF n
  <2>1. PICK g \in [0 .. Len(more) -> Seq(T)] :
        g[0] = <<>> /\ g[Len(more)] = Flatten(more) /\ \A k \in 1 .. Len(more) : g[k] = g[k - 1] \o more[k]
    BY <1>1, FlatSteps
  <2> QED BY <2>1, <1>1
<1> HIDE DEF n
<1> DEFINE Done == {k \in 0 .. n : f[k] = g[k]}
<1>4. 0 \in Done
  BY <1>1, <1>2, <1>3
<1>5. \A k \in 0 .. n - 1 : k \in Done => k + 1 \in Done
  <2> TAKE k \in 0 .. n - 1
  <2> HAVE k \in Done
  <2>1. k + 1 \in 1 .. n /\ k + 1 \in 1 .. n + 1 /\ (k + 1) - 1 = k /\ k + 1 \in 0 .. n
    BY <1>1
  <2>2. f[k + 1] = f[k] \o lines[k + 1]
    BY <1>2, <2>1
  <2>3. g[k + 1] = g[k] \o more[k + 1]
    BY <1>3, <2>1
  <2>4. more[k + 1] = lines[k + 1]
    BY <1>1, <2>1
  <2> QED BY <2>1, <2>2, <2>3, <2>4
<1>6. 0 .. n \subseteq Done
  <2> HIDE DEF Done
  <2> QED BY <1>1, <1>4, <1>5, UpTo
<1>7. n \in Done /\ n + 1 \in 1 .. n + 1 /\ (n + 1) - 1 = n
  BY <1>1, <1>6
<1>8. g[n + 1] = g[n] \o more[n + 1]
  BY <1>3, <1>7
<1>9. Flatten(lines) \in Seq(T)
  <2>1. n \in 0 .. n
    BY <1>1
  <2> QED BY <1>2, <2>1
<1> QED
  BY <1>1, <1>2, <1>3, <1>7, <1>8, <1>9 DEF more

\* How many symbols the first lines have.
Upto(lines, k) == Flatten(SubSeq(lines, 1, k))
Start(lines, k) == Len(Upto(lines, k))

\* The symbols of no line, of one line and of two.
LEMMA FlatOne ==
  ASSUME NEW T, NEW x \in Seq(T), NEW y \in Seq(T)
  PROVE  Flatten(<<>>) = <<>> /\ Flatten(<<x>>) = x /\ Flatten(<<x, y>>) = x \o y
<1>1. <<>> \in Seq(Seq(T)) /\ Len(<<>>) = 0
  OBVIOUS
<1>2. Flatten(<<>>) = <<>>
  BY <1>1, Zenon DEF Flatten, FlattenSeq
<1>3. Append(<<>>, x) = <<x>> /\ Append(<<x>>, y) = <<x, y>> /\ <<x>> \in Seq(Seq(T))
  <2>1. PICK U : U = Seq(T)
    OBVIOUS
  <2>2. x \in U /\ y \in U
    BY <2>1
  <2>3. <<x>> \in Seq(U) /\ <<>> \in Seq(U) /\ <<x, y>> \in Seq(U) /\ Len(<<x>>) = 1
    BY <2>2
  <2>4. Append(<<>>, x) = <<x>>
    <3>1. Append(<<>>, x) \in Seq(U) /\ Len(Append(<<>>, x)) = 1 /\ Append(<<>>, x)[1] = x
      BY <2>2, <2>3
    <3>2. \A k \in 1 .. 1 : Append(<<>>, x)[k] = <<x>>[k]
      BY <3>1
    <3> QED BY <2>3, <3>1, <3>2, Same
  <2>5. Append(<<x>>, y) = <<x, y>>
    <3>1. Append(<<x>>, y) \in Seq(U) /\ Len(Append(<<x>>, y)) = 2 /\ Append(<<x>>, y)[1] = x /\ Append(<<x>>, y)[2] = y
      BY <2>2, <2>3
    <3>2. \A k \in 1 .. 2 : Append(<<x>>, y)[k] = <<x, y>>[k]
      <4> TAKE k \in 1 .. 2
      <4>1. k = 1 \/ k = 2
        OBVIOUS
      <4> QED BY <3>1, <4>1
    <3>3. Len(<<x, y>>) = 2
      OBVIOUS
    <3> QED BY <2>3, <3>1, <3>2, <3>3, Same
  <2> QED BY <2>1, <2>3, <2>4, <2>5
<1>4. Flatten(Append(<<>>, x)) = <<>> \o x
  BY <1>1, <1>2, FlatAppend
<1>5. Flatten(<<x>>) = x
  <2>1. <<>> \o x = x
    BY NoneBefore
  <2> QED BY <1>3, <1>4, <2>1, Zenon
<1>6. Flatten(Append(<<x>>, y)) = Flatten(<<x>>) \o y
  BY <1>3, FlatAppend, Zenon
<1> QED BY <1>2, <1>3, <1>5, <1>6, Zenon

\* Where the lines start, line after line.
LEMMA Starts ==
  ASSUME NEW T, NEW lines \in Seq(Seq(T))
  PROVE  /\ Upto(lines, 0) = <<>> /\ Upto(lines, Len(lines)) = Flatten(lines)
         /\ \A k \in 0 .. Len(lines) : Upto(lines, k) \in Seq(T) /\ Start(lines, k) \in Nat
         /\ \A k \in 1 .. Len(lines) : Upto(lines, k) = Upto(lines, k - 1) \o lines[k]
         /\ \A k \in 1 .. Len(lines) : Start(lines, k) = Start(lines, k - 1) + Len(lines[k])
         /\ Start(lines, 0) = 0 /\ Start(lines, Len(lines)) = Len(Flatten(lines))
<1> DEFINE n == Len(lines)
<1>1. \A k \in 0 .. n : SubSeq(lines, 1, k) \in Seq(Seq(T))
  BY Cut
<1>2. \A k \in 0 .. n : Upto(lines, k) \in Seq(T)
  <2> TAKE k \in 0 .. n
  <2>1. <<>> \in Seq(T) /\ SubSeq(lines, 1, k) \in Seq(Seq(T))
    BY <1>1
  <2> QED BY <2>1, FlatAppend DEF Upto
<1>3. Upto(lines, 0) = <<>>
  <2>1. SubSeq(lines, 1, 0) = <<>>
    OBVIOUS
  <2>2. <<>> \in Seq(T)
    OBVIOUS
  <2> QED BY <2>1, <2>2, FlatOne, Zenon DEF Upto
<1>4. Upto(lines, n) = Flatten(lines)
  <2>1. SubSeq(lines, 1, n) = lines
    <3>1. n \in 0 .. n
      OBVIOUS
    <3>2. SubSeq(lines, 1, n) \in Seq(Seq(T)) /\ Len(SubSeq(lines, 1, n)) = n /\ \A k \in 1 .. n : SubSeq(lines, 1, n)[k] = lines[k]
      BY <3>1, Cut
    <3> QED BY <3>2, Same
  <2> QED BY <2>1, Zenon DEF Upto
<1>5. ASSUME NEW k \in 1 .. n
      PROVE  /\ Upto(lines, k) = Upto(lines, k - 1) \o lines[k] /\ lines[k] \in Seq(T)
             /\ Start(lines, k) = Start(lines, k - 1) + Len(lines[k])
  <2>1. SubSeq(lines, 1, k) = Append(SubSeq(lines, 1, k - 1), lines[k]) /\ lines[k] \in Seq(T) /\ k - 1 \in 0 .. n
    BY CutNext
  <2>2. SubSeq(lines, 1, k - 1) \in Seq(Seq(T))
    BY <1>1, <2>1
  <2>3. Flatten(Append(SubSeq(lines, 1, k - 1), lines[k])) = Flatten(SubSeq(lines, 1, k - 1)) \o lines[k]
    BY <2>1, <2>2, FlatAppend, Zenon
  <2>4. Upto(lines, k) = Upto(lines, k - 1) \o lines[k]
    BY <2>1, <2>3, Zenon DEF Upto
  <2>5. Len(Upto(lines, k - 1) \o lines[k]) = Len(Upto(lines, k - 1)) + Len(lines[k])
    BY <2>1, <1>2, Both
  <2> QED BY <2>1, <2>4, <2>5 DEF Start
<1>6. \A k \in 0 .. n : Start(lines, k) \in Nat
  BY <1>2 DEF Start
<1> QED
  BY <1>2, <1>3, <1>4, <1>5, <1>6 DEF Start

\* An element appended to the second of two sequences.
LEMMA AppendLast ==
  ASSUME NEW T, NEW a \in Seq(T), NEW c \in Seq(T), NEW x \in T
  PROVE  a \o Append(c, x) = Append(a \o c, x)
<1>1. Append(c, x) = c \o <<x>> /\ <<x>> \in Seq(T)
  BY OneMore
<1>2. a \o c \in Seq(T)
  BY Both
<1>3. Append(a \o c, x) = (a \o c) \o <<x>>
  BY <1>2, OneMore
<1>4. (a \o c) \o <<x>> = a \o (c \o <<x>>)
  BY <1>1, Regroup
<1> QED BY <1>1, <1>3, <1>4, Zenon

\* Lines in two parts, and one more in the second.
LEMMA FlatConcatNext ==
  ASSUME NEW T, NEW a \in Seq(Seq(T)), NEW c \in Seq(Seq(T)), NEW x \in Seq(T),
         Flatten(a \o c) = Flatten(a) \o Flatten(c)
  PROVE  Flatten(a \o Append(c, x)) = Flatten(a) \o Flatten(Append(c, x))
<1>1. a \o Append(c, x) = Append(a \o c, x)
  BY AppendLast
<1>2. a \o c \in Seq(Seq(T))
  BY Both
<1>3. Flatten(Append(a \o c, x)) = Flatten(a \o c) \o x
  BY <1>2, FlatAppend
<1>4. Flatten(Append(c, x)) = Flatten(c) \o x /\ Flatten(c) \in Seq(T) /\ Flatten(a) \in Seq(T)
  BY FlatAppend
<1>5. \A p, q, y \in Seq(T) : (p \o q) \o y = p \o (q \o y)
  BY Regroup
<1>6. PICK p \in Seq(T) : p = Flatten(a)
  BY <1>4
<1>7. PICK q \in Seq(T) : q = Flatten(c)
  BY <1>4
<1>8. (p \o q) \o x = p \o (q \o x)
  BY Regroup
<1> QED BY <1>1, <1>3, <1>4, <1>6, <1>7, <1>8, Zenon

\* The symbols of lines in two parts.
LEMMA FlatConcat ==
  ASSUME NEW T, NEW a \in Seq(Seq(T)), NEW b \in Seq(Seq(T))
  PROVE  Flatten(a \o b) = Flatten(a) \o Flatten(b) /\ Flatten(a) \in Seq(T) /\ Flatten(b) \in Seq(T)
<1> DEFINE n == Len(b)
           Done == {k \in 0 .. n : Flatten(a \o SubSeq(b, 1, k)) = Flatten(a) \o Upto(b, k)}
<1>1. n \in Nat
  OBVIOUS
<1>2. Flatten(a) \in Seq(T) /\ Flatten(b) \in Seq(T)
  <2>1. <<>> \in Seq(T)
    OBVIOUS
  <2> QED BY <2>1, FlatAppend
<1>3. 0 \in Done
  <2>1. SubSeq(b, 1, 0) = <<>> /\ 0 \in 0 .. n
    OBVIOUS
  <2>2. a \o <<>> = a
    BY NoneBefore
  <2>3. Flatten(a) \o <<>> = Flatten(a)
    BY <1>2, NoneBefore
  <2>4. Upto(b, 0) = <<>>
    BY Starts
  <2> HIDE DEF n
  <2> QED BY <2>1, <2>2, <2>3, <2>4, Zenon
<1>4. \A k \in 0 .. n - 1 : k \in Done => k + 1 \in Done
  <2> TAKE k \in 0 .. n - 1
  <2> HAVE k \in Done
  <2>1. k \in 0 .. n /\ k + 1 \in 1 .. n /\ k + 1 \in 0 .. n /\ (k + 1) - 1 = k
    OBVIOUS
  <2> DEFINE c == SubSeq(b, 1, k)
             x == b[k + 1]
  <2>2. SubSeq(b, 1, k + 1) = Append(c, x) /\ x \in Seq(T)
    BY <2>1, CutNext
  <2>3. c \in Seq(Seq(T))
    BY <2>1, Cut
  <2> HIDE DEF c, x
  <2>5. Flatten(a \o c) = Flatten(a) \o Flatten(c)
    BY DEF c, Upto
  <2>6. Flatten(a \o Append(c, x)) = Flatten(a) \o Flatten(Append(c, x))
    <3> HIDE DEF n, Done
    <3> QED BY <2>2, <2>3, <2>5, FlatConcatNext
  <2>9. Flatten(a \o SubSeq(b, 1, k + 1)) = Flatten(a) \o Upto(b, k + 1)
    BY <2>2, <2>6, Zenon DEF Upto
  <2> QED BY <2>1, <2>9
<1>5. 0 .. n \subseteq Done
  <2> HIDE DEF Done, n
  <2> QED BY <1>1, <1>3, <1>4, UpTo
<1>6. n \in Done
  <2>1. n \in 0 .. n
    BY <1>1
  <2> HIDE DEF Done, n
  <2> QED BY <1>5, <2>1
<1>7. SubSeq(b, 1, n) = b /\ Upto(b, n) = Flatten(b)
  <2>1. n \in 0 .. n
    OBVIOUS
  <2>2. SubSeq(b, 1, n) \in Seq(Seq(T)) /\ Len(SubSeq(b, 1, n)) = n /\ \A k \in 1 .. n : SubSeq(b, 1, n)[k] = b[k]
    BY <2>1, Cut
  <2>3. SubSeq(b, 1, n) = b
    BY <2>2, Same
  <2> QED BY <2>3 DEF Upto
<1> QED
  BY <1>2, <1>6, <1>7

\* The symbol at a place of the lines.
LEMMA FlatIndex ==
  ASSUME NEW T, NEW lines \in Seq(Seq(T)), NEW l \in 1 .. Len(lines), NEW i \in 1 .. Len(lines[l])
  PROVE  /\ Start(lines, l - 1) + i \in 1 .. Len(Flatten(lines))
         /\ Flatten(lines)[Start(lines, l - 1) + i] = lines[l][i]
         /\ lines[l] \in Seq(T) /\ lines[l][i] \in T
<1> DEFINE a == SubSeq(lines, 1, l)
           b == SubSeq(lines, l + 1, Len(lines))
           before == Upto(lines, l - 1)
           x == lines[l]
<1>1. /\ l \in 0 .. Len(lines) /\ l - 1 \in 0 .. Len(lines) /\ x \in Seq(T)
      /\ i \in Nat /\ i >= 1 /\ i <= Len(x) /\ Len(x) \in Nat /\ x[i] \in T
  OBVIOUS
<1>2. a \in Seq(Seq(T)) /\ b \in Seq(Seq(T)) /\ a \o b = lines
  BY <1>1, Cut
<1>3. Flatten(a) = before \o x /\ before \in Seq(T) /\ Start(lines, l - 1) = Len(before)
  <2>1. Upto(lines, l) = Upto(lines, l - 1) \o lines[l] /\ Upto(lines, l - 1) \in Seq(T)
    BY <1>1, Starts
  <2> QED BY <2>1 DEF Upto, Start
<1> HIDE DEF a, b, before, x
<1>4. Flatten(lines) = Flatten(a) \o Flatten(b) /\ Flatten(a) \in Seq(T) /\ Flatten(b) \in Seq(T)
  BY <1>2, FlatConcat
<1>5. /\ Len(before \o x) = Len(before) + Len(x) /\ Len(before) \in Nat
      /\ \A k \in 1 .. Len(x) : (before \o x)[Len(before) + k] = x[k]
  BY <1>1, <1>3, Both
<1>6. /\ Len(Flatten(lines)) = Len(Flatten(a)) + Len(Flatten(b)) /\ Len(Flatten(a)) \in Nat /\ Len(Flatten(b)) \in Nat
      /\ \A k \in 1 .. Len(Flatten(a)) : Flatten(lines)[k] = Flatten(a)[k]
  BY <1>4, Both
<1>7. Len(before) + i \in 1 .. Len(Flatten(a)) /\ Flatten(a)[Len(before) + i] = x[i]
  <2>1. i \in 1 .. Len(x)
    BY <1>1
  <2>2. Len(Flatten(a)) = Len(before) + Len(x)
    BY <1>3, <1>5
  <2>3. Len(before) + i \in 1 .. Len(Flatten(a))
    BY <1>1, <1>5, <2>2
  <2> QED BY <1>3, <1>5, <2>1, <2>3, Zenon
<1>8. Len(before) + i \in 1 .. Len(Flatten(lines))
  BY <1>6, <1>7
<1> QED
  BY <1>1, <1>3, <1>6, <1>7, <1>8 DEF x

\* Every symbol is at a place of the lines.
LEMMA FlatCovers ==
  ASSUME NEW T, NEW lines \in Seq(Seq(T)), NEW j \in 1 .. Len(Flatten(lines))
  PROVE  \E l \in 1 .. Len(lines) : \E i \in 1 .. Len(lines[l]) : j = Start(lines, l - 1) + i
<1> DEFINE n == Len(lines)
           Done == {k \in 0 .. n : j <= Start(lines, k) =>
                      \E l \in 1 .. n : \E i \in 1 .. Len(lines[l]) : j = Start(lines, l - 1) + i}
<1>0. n \in Nat /\ \A k \in 1 .. n : lines[k] \in Seq(T) /\ Len(lines[k]) \in Nat
  OBVIOUS
<1>1. /\ \A k \in 0 .. n : Start(lines, k) \in Nat
      /\ \A k \in 1 .. n : Start(lines, k) = Start(lines, k - 1) + Len(lines[k])
      /\ Start(lines, 0) = 0 /\ Start(lines, n) = Len(Flatten(lines))
  BY Starts
<1>2. 0 \in Done
  BY <1>0, <1>1
<1>3. \A k \in 0 .. n - 1 : k \in Done => k + 1 \in Done
  <2> TAKE k \in 0 .. n - 1
  <2> HAVE k \in Done
  <2>1. k + 1 \in 1 .. n /\ (k + 1) - 1 = k /\ k \in 0 .. n /\ k + 1 \in 0 .. n
    OBVIOUS
  <2>2. CASE j <= Start(lines, k)
    BY <2>1, <2>2
  <2>3. CASE j > Start(lines, k) /\ j <= Start(lines, k + 1)
    <3>1. Start(lines, k + 1) = Start(lines, k) + Len(lines[k + 1]) /\ Start(lines, k) \in Nat /\ Len(lines[k + 1]) \in Nat
      BY <1>0, <1>1, <2>1
    <3>2. j - Start(lines, k) \in 1 .. Len(lines[k + 1])
      BY <2>3, <3>1
    <3>3. j = Start(lines, (k + 1) - 1) + (j - Start(lines, k))
      BY <2>1, <3>1
    <3>4. \E i \in 1 .. Len(lines[k + 1]) : j = Start(lines, (k + 1) - 1) + i
      BY <3>2, <3>3
    <3> QED BY <2>1, <3>4
  <2>4. CASE j > Start(lines, k + 1)
    <3>1. Start(lines, k + 1) \in Nat /\ j \in Nat
      BY <1>1, <2>1
    <3>2. ~ (j <= Start(lines, k + 1))
      BY <2>4, <3>1
    <3> QED BY <2>1, <3>2
  <2>5. Start(lines, k) \in Nat /\ Start(lines, k + 1) \in Nat
    BY <1>1, <2>1
  <2> HIDE DEF Done
  <2> QED BY <2>2, <2>3, <2>4, <2>5
<1>4. 0 .. n \subseteq Done
  <2> HIDE DEF Done, n
  <2> QED BY <1>0, <1>2, <1>3, UpTo
<1>5. n \in Done
  <2>1. n \in 0 .. n
    BY <1>0
  <2> HIDE DEF Done, n
  <2> QED BY <1>4, <2>1
<1>6. j <= Start(lines, n)
  BY <1>1
<1> QED BY <1>5, <1>6

-----------------------------------------------------------------------------
(***************************************************************************)
(* The binary search.                                                      *)
(***************************************************************************)

Rounds(keys, p, n, g) ==
  g = [k \in 0 .. n |-> IF k = 0 THEN <<0, Len(keys) - 1>> ELSE Half(keys, p, g[k - 1])]

\* The rounds of a binary search exist.
LEMMA RoundsExist ==
  ASSUME NEW keys, NEW p, NEW n \in Nat
  PROVE  \E g : Rounds(keys, p, n, g)
<1> DEFINE x == <<0, Len(keys) - 1>>
           Done == {k \in 0 .. n : \E g : Rounds(keys, p, k, g)}
<1>1. 0 \in Done
  <2> DEFINE g == [k \in 0 .. 0 |-> x]
  <2>1. \A k \in 0 .. 0 : k = 0
    OBVIOUS
  <2> HIDE DEF x
  <2>2. g = [k \in 0 .. 0 |-> IF k = 0 THEN x ELSE Half(keys, p, g[k - 1])]
    BY <2>1, Zenon
  <2>3. 0 \in 0 .. n
    OBVIOUS
  <2>4. Rounds(keys, p, 0, g)
    BY <2>2, Zenon DEF Rounds, x
  <2> QED BY <2>3, <2>4, Zenon
<1>2. ASSUME NEW k \in 0 .. n - 1, k \in Done PROVE k + 1 \in Done
  <2>1. PICK g : Rounds(keys, p, k, g)
    BY <1>2
  <2> DEFINE B(i) == IF i = 0 THEN x ELSE Half(keys, p, g[i - 1])
             h == [i \in 0 .. k + 1 |-> B(i)]
  <2>2. \A i \in 0 .. k : g[i] = B(i)
    <3>1. g = [i \in 0 .. k |-> B(i)]
      BY <2>1, Zenon DEF Rounds
    <3> HIDE DEF B
    <3> QED BY <3>1, Zenon
  <2>3. ASSUME NEW i \in 0 .. k + 1 PROVE h[i] = IF i = 0 THEN x ELSE Half(keys, p, h[i - 1])
    <3>1. CASE i = 0
      BY <3>1, Zenon
    <3>2. CASE i # 0
      <4>1. i - 1 \in 0 .. k /\ i - 1 \in 0 .. k + 1
        BY <3>2
      <4>2. h[i - 1] = B(i - 1) /\ h[i] = B(i)
        <5> HIDE DEF B
        <5> QED BY <4>1, Zenon
      <4>3. h[i - 1] = g[i - 1]
        <5> HIDE DEF B, h
        <5> QED BY <4>1, <4>2, <2>2, Zenon
      <4> HIDE DEF h
      <4> QED BY <3>2, <4>2, <4>3, Zenon
    <3> QED BY <3>1, <3>2
  <2>4. h = [i \in 0 .. k + 1 |-> IF i = 0 THEN x ELSE Half(keys, p, h[i - 1])]
    <3>1. h = [i \in 0 .. k + 1 |-> h[i]]
      BY Zenon
    <3> HIDE DEF h
    <3> QED BY <2>3, <3>1, Zenon
  <2>5. k + 1 \in 0 .. n
    OBVIOUS
  <2>6. Rounds(keys, p, k + 1, h)
    BY <2>4, Zenon DEF Rounds
  <2> QED BY <2>5, <2>6, Zenon
<1>3. 0 .. n \subseteq Done
  <2> HIDE DEF Done
  <2> QED BY <1>1, <1>2, UpTo
<1>4. n \in Done
  <2>1. n \in 0 .. n
    OBVIOUS
  <2> HIDE DEF Done
  <2> QED BY <1>3, <2>1
<1> QED BY <1>4, Zenon

MostRounds(keys) == IF Len(keys) <= 2 THEN 0 ELSE Len(keys) - 2

\* The search is what its last round leaves.
LEMMA NarrowRounds ==
  ASSUME NEW keys, NEW p, Len(keys) \in Nat
  PROVE  \E f : /\ f[0] = <<0, Len(keys) - 1>> /\ f[MostRounds(keys)] = Narrow(keys, p)
                /\ \A k \in 1 .. Len(keys) : f[k] = Half(keys, p, f[k - 1])
<1> DEFINE n == Len(keys)
           x == <<0, Len(keys) - 1>>
           f == CHOOSE g : Rounds(keys, p, n, g)
           B(k) == IF k = 0 THEN x ELSE Half(keys, p, f[k - 1])
<1>1. Rounds(keys, p, n, f)
  <2>1. \E g : Rounds(keys, p, n, g)
    BY RoundsExist
  <2> QED BY <2>1, Zenon
<1>2. Narrow(keys, p) = f[MostRounds(keys)]
  BY Zenon DEF Narrow, Rounds, MostRounds
<1>3. f = [k \in 0 .. n |-> B(k)]
  BY <1>1, Zenon DEF Rounds
<1> HIDE DEF f
<1>4. \A k \in 0 .. n : f[k] = B(k)
  <2> HIDE DEF B
  <2> QED BY <1>3, Zenon
<1>5. f[0] = x
  <2>1. 0 \in 0 .. n
    OBVIOUS
  <2> QED BY <1>4, <2>1, Zenon
<1>6. \A k \in 1 .. n : f[k] = Half(keys, p, f[k - 1])
  <2> TAKE k \in 1 .. n
  <2>1. k \in 0 .. n /\ k # 0
    OBVIOUS
  <2> QED BY <1>4, <2>1, Zenon
<1> QED BY <1>2, <1>5, <1>6, Zenon

Rising(keys) == \A i, j \in 1 .. Len(keys) : i < j => keys[i] < keys[j]

\* The window around a place: what is before it is before p, what is after it
\* is not.
Narrowed(keys, p, lo, hi) ==
  /\ lo \in Nat /\ hi \in Nat /\ lo <= hi /\ hi < Len(keys)
  /\ lo = 0 \/ keys[lo + 1] <= p
  /\ hi = Len(keys) - 1 \/ p <= keys[hi + 1]

\* A round keeps the window, and makes it smaller unless it is small already.
LEMMA HalfWindow ==
  ASSUME NEW keys \in Seq(Int), NEW p \in Int, NEW lo, NEW hi, Narrowed(keys, p, lo, hi)
  PROVE  \E a, b : /\ Half(keys, p, <<lo, hi>>) = <<a, b>> /\ Narrowed(keys, p, a, b)
                   /\ b - a <= 1 \/ b - a < hi - lo
<1> DEFINE mid == lo + (hi - lo) \div 2
           w == <<lo, hi>>
<1>1. w[1] = lo /\ w[2] = hi
  OBVIOUS
<1>2. Half(keys, p, w) = IF lo + 1 >= hi THEN w
                         ELSE IF p = keys[mid + 1] THEN <<mid, mid>>
                         ELSE IF p < keys[mid + 1] THEN <<lo, mid>> ELSE <<mid, hi>>
  BY <1>1, Zenon DEF Half
<1>3. CASE lo + 1 >= hi
  <2>1. Half(keys, p, w) = <<lo, hi>> /\ hi - lo <= 1
    BY <1>2, <1>3 DEF Narrowed
  <2> QED BY <2>1
<1>4. CASE lo + 1 < hi
  <2>0. lo \in Nat /\ hi \in Nat /\ hi < Len(keys) /\ ~(lo + 1 >= hi) /\ Len(keys) \in Nat
    BY <1>4 DEF Narrowed
  <2>1. mid \in Nat /\ lo < mid /\ mid < hi
    BY <1>4, <2>0
  <2> HIDE DEF mid
  <2>2. mid + 1 \in 1 .. Len(keys) /\ keys[mid + 1] \in Int
    BY <2>0, <2>1
  <2>3. CASE p = keys[mid + 1]
    <3>1. Half(keys, p, w) = <<mid, mid>>
      BY <1>2, <2>0, <2>3
    <3>2. Narrowed(keys, p, mid, mid) /\ mid - mid <= 1
      BY <2>0, <2>1, <2>2, <2>3 DEF Narrowed
    <3> QED BY <3>1, <3>2
  <2>4. CASE p < keys[mid + 1]
    <3>1. Half(keys, p, w) = <<lo, mid>>
      BY <1>2, <2>0, <2>2, <2>4
    <3>2. Narrowed(keys, p, lo, mid) /\ mid - lo < hi - lo
      BY <2>0, <2>1, <2>2, <2>4 DEF Narrowed
    <3> QED BY <3>1, <3>2
  <2>5. CASE p > keys[mid + 1]
    <3>1. Half(keys, p, w) = <<mid, hi>>
      BY <1>2, <2>0, <2>2, <2>5
    <3>2. Narrowed(keys, p, mid, hi) /\ hi - mid < hi - lo
      BY <2>0, <2>1, <2>2, <2>5 DEF Narrowed
    <3> QED BY <3>1, <3>2
  <2>6. p = keys[mid + 1] \/ p < keys[mid + 1] \/ p > keys[mid + 1]
    BY <2>2
  <2> QED BY <2>3, <2>4, <2>5, <2>6, Zenon
<1>5. lo \in Nat /\ hi \in Nat
  BY DEF Narrowed
<1> QED BY <1>3, <1>4, <1>5

\* The search ends with a window of one or two elements.
LEMMA NarrowWindow ==
  ASSUME NEW keys \in Seq(Int), NEW p \in Int, Len(keys) > 0
  PROVE  \E lo, hi : Narrow(keys, p) = <<lo, hi>> /\ Narrowed(keys, p, lo, hi) /\ hi <= lo + 1
<1> DEFINE n == Len(keys)
<1>0. n \in Nat /\ n > 0
  OBVIOUS
<1>1. PICK f : /\ f[0] = <<0, n - 1>> /\ f[MostRounds(keys)] = Narrow(keys, p)
               /\ \A k \in 1 .. n : f[k] = Half(keys, p, f[k - 1])
  BY <1>0, NarrowRounds, Zenon
<1> DEFINE Done == {k \in 0 .. n : \E lo, hi : /\ f[k] = <<lo, hi>> /\ Narrowed(keys, p, lo, hi)
                                               /\ hi - lo <= 1 \/ hi - lo <= (n - 1) - k}
<1>2. 0 \in Done
  <2>1. Narrowed(keys, p, 0, n - 1) /\ (n - 1) - 0 <= (n - 1) - 0
    BY <1>0 DEF Narrowed
  <2>2. 0 \in 0 .. n
    BY <1>0
  <2> HIDE DEF n
  <2> QED BY <1>1, <2>1, <2>2
<1>3. ASSUME NEW k \in 0 .. n - 1, k \in Done PROVE k + 1 \in Done
  <2>1. PICK lo, hi : f[k] = <<lo, hi>> /\ Narrowed(keys, p, lo, hi) /\ (hi - lo <= 1 \/ hi - lo <= (n - 1) - k)
    BY <1>3
  <2>2. PICK a, b : /\ Half(keys, p, <<lo, hi>>) = <<a, b>> /\ Narrowed(keys, p, a, b)
                    /\ b - a <= 1 \/ b - a < hi - lo
    BY <2>1, HalfWindow
  <2>3. k + 1 \in 1 .. n /\ k + 1 \in 0 .. n /\ (k + 1) - 1 = k
    BY <1>0
  <2>4. f[k + 1] = <<a, b>>
    BY <1>1, <2>1, <2>2, <2>3, Zenon
  <2>5. a \in Nat /\ b \in Nat /\ lo \in Nat /\ hi \in Nat
    BY <2>1, <2>2 DEF Narrowed
  <2>6. b - a <= 1 \/ b - a <= (n - 1) - (k + 1)
    BY <1>0, <2>1, <2>2, <2>5
  <2> HIDE DEF n
  <2> QED BY <2>2, <2>3, <2>4, <2>6
<1>4. 0 .. n \subseteq Done
  <2> HIDE DEF Done, n
  <2> QED BY <1>0, <1>2, <1>3, UpTo
<1> DEFINE m == MostRounds(keys)
<1>5. m \in 0 .. n /\ m \in Nat /\ (n - 1) - m <= 1
  BY <1>0 DEF MostRounds
<1>6. PICK lo, hi : f[m] = <<lo, hi>> /\ Narrowed(keys, p, lo, hi) /\ (hi - lo <= 1 \/ hi - lo <= (n - 1) - m)
  <2>1. m \in Done
    <3> HIDE DEF Done, n, m
    <3> QED BY <1>4, <1>5
  <2> QED BY <2>1
<1>7. hi <= lo + 1
  <2>1. lo \in Nat /\ hi \in Nat
    BY <1>6 DEF Narrowed
  <2> HIDE DEF n, m
  <2> QED BY <1>0, <1>5, <1>6, <2>1
<1>8. f[m] = Narrow(keys, p)
  BY <1>1
<1> HIDE DEF n, m
<1> QED BY <1>6, <1>7, <1>8

\* r elements of the keys are before p.
FirstNotBefore(keys, p, r) ==
  r \in 0 .. Len(keys) - 1 /\ p <= keys[r + 1] /\ \A j \in 1 .. r : keys[j] < p

\* The place among the keys that the window tells.
LEMMA NarrowPlace ==
  ASSUME NEW keys \in Seq(Int), NEW p \in Int, Len(keys) > 0, Rising(keys), p <= keys[Len(keys)]
  PROVE  LET w == Narrow(keys, p)
         IN  /\ FirstNotBefore(keys, p, IF p <= keys[w[1] + 1] THEN w[1] ELSE w[2])
             /\ p >= keys[1] => FirstNotBefore(keys, p, IF p = keys[w[1] + 1] THEN w[1] ELSE w[2])
             /\ (p >= keys[1] /\ p # keys[w[1] + 1] /\ \E j \in 1 .. Len(keys) : keys[j] = p) => p = keys[w[2] + 1]
             /\ w[1] + 1 \in 1 .. Len(keys)
<1>1. PICK lo, hi : Narrow(keys, p) = <<lo, hi>> /\ Narrowed(keys, p, lo, hi) /\ hi <= lo + 1
  BY NarrowWindow
<1> DEFINE n == Len(keys)
<1>2. n \in Nat /\ n > 0 /\ lo \in Nat /\ hi \in Nat /\ lo <= hi /\ hi < n /\ hi <= lo + 1 /\ n \in 1 .. n
  BY <1>1 DEF Narrowed
<1>3. \A i \in 1 .. n : keys[i] \in Int
  OBVIOUS
<1>4. lo + 1 \in 1 .. n /\ hi + 1 \in 1 .. n /\ 1 \in 1 .. n
  BY <1>2
<1>5. lo = 0 \/ keys[lo + 1] <= p
  BY <1>1 DEF Narrowed
<1>6. p <= keys[hi + 1]
  <2>1. hi = n - 1 \/ p <= keys[hi + 1]
    BY <1>1 DEF Narrowed
  <2>2. hi = n - 1 => hi + 1 = n
    BY <1>2
  <2> QED BY <2>1, <2>2
<1>7. \A i, j \in 1 .. n : i < j => keys[i] < keys[j]
  BY DEF Rising
<1> HIDE DEF n
<1>8. \A i, j \in 1 .. n : i <= j => keys[i] <= keys[j]
  <2> TAKE i, j \in 1 .. n
  <2> HAVE i <= j
  <2>1. i = j \/ i < j
    BY <1>2
  <2> QED BY <1>3, <1>7, <2>1
<1>9. CASE p <= keys[lo + 1]
  <2>1. \A j \in 1 .. lo : keys[j] < p
    <3> TAKE j \in 1 .. lo
    <3>1. j \in 1 .. n /\ j < lo + 1 /\ lo # 0
      BY <1>2
    <3>2. keys[j] < keys[lo + 1] /\ keys[lo + 1] <= p
      BY <1>4, <1>5, <1>7, <3>1
    <3> QED BY <1>3, <1>4, <3>1, <3>2
  <2>2. FirstNotBefore(keys, p, lo)
    BY <1>2, <1>9, <2>1 DEF FirstNotBefore, n
  <2>3. p >= keys[1] => p = keys[lo + 1]
    <3>1. CASE lo = 0
      BY <1>3, <1>4, <1>9, <3>1
    <3>2. CASE lo # 0
      BY <1>3, <1>4, <1>5, <1>9, <3>2
    <3> QED BY <3>1, <3>2
  <2> QED BY <1>1, <1>4, <1>9, <2>2, <2>3 DEF n
<1>10. CASE ~(p <= keys[lo + 1])
  <2>1. p > keys[lo + 1]
    BY <1>3, <1>4, <1>10
  <2>2. hi = lo + 1
    <3>1. hi # lo
      BY <1>6, <1>10
    <3> QED BY <1>2, <3>1
  <2>3. \A j \in 1 .. hi : keys[j] < p
    <3> TAKE j \in 1 .. hi
    <3>1. j \in 1 .. n /\ j <= lo + 1
      BY <1>2, <2>2
    <3>2. keys[j] <= keys[lo + 1]
      BY <1>4, <1>8, <3>1
    <3> QED BY <1>3, <1>4, <2>1, <3>1, <3>2
  <2>4. FirstNotBefore(keys, p, hi)
    BY <1>2, <1>6, <2>3 DEF FirstNotBefore, n
  <2>5. p # keys[lo + 1]
    BY <1>3, <1>4, <2>1
  <2>6. ASSUME NEW j \in 1 .. n, keys[j] = p PROVE p = keys[hi + 1]
    <3>1. ~(j <= hi)
      BY <1>2, <1>3, <2>3, <2>6
    <3>2. hi + 1 <= j
      BY <1>2, <3>1
    <3>3. keys[hi + 1] <= keys[j]
      BY <1>4, <1>8, <3>2
    <3> QED BY <1>3, <1>4, <1>6, <2>6, <3>3
  <2> QED BY <1>1, <1>4, <1>10, <2>4, <2>5, <2>6 DEF n
<1> QED BY <1>9, <1>10

\* Lines as an editor that shows a document has them.
Shape(lines) ==
  /\ lines \in Seq(Seq(SymbolType)) /\ Len(lines) > 0
  /\ \A l \in 1 .. Len(lines) : Len(lines[l]) > 0
  /\ \A l \in 1 .. Len(lines) : \A i \in 1 .. Len(lines[l]) :
       lines[l][i].val = NL <=> (l < Len(lines) /\ i = Len(lines[l]))

Sorted(F) == \A j, k \in 1 .. Len(F) : j < k => F[j].pos < F[k].pos

\* The fields of a symbol.
LEMMA SymbolFields ==
  ASSUME NEW s \in SymbolType
  PROVE  s.pos \in Int /\ s.pos \in Positions /\ s.val \in STRING /\ s.fmt \in Formats /\ s.align \in Aligns \cup {"none"}
<1>1. s.pos \in Positions /\ s.val \in STRING /\ s.fmt \in Formats /\ s.align \in Aligns \cup {"none"}
  BY DEF SymbolType
<1>2. Positions \subseteq Int
  BY MaxPosAssumption DEF Positions
<1> QED BY <1>1, <1>2

\* A line of some lines.
LEMMA LineIn ==
  ASSUME NEW lines \in Seq(Seq(SymbolType)), NEW l \in 1 .. Len(lines)
  PROVE  lines[l] \in Seq(SymbolType) /\ Len(lines[l]) \in Nat /\ DOMAIN lines[l] = 1 .. Len(lines[l])
OBVIOUS

\* Every line has a symbol: the starts of the lines increase.
LEMMA StartsRise ==
  ASSUME NEW lines, Shape(lines), NEW k \in 0 .. Len(lines), NEW l \in 0 .. Len(lines), k < l
  PROVE  Start(lines, k) < Start(lines, l)
<1> DEFINE n == Len(lines)
           Done == {d \in 0 .. n - k : d > 0 => Start(lines, k) < Start(lines, k + d)}
<1>0. lines \in Seq(Seq(SymbolType)) /\ n \in Nat /\ k \in Nat
  BY DEF Shape
<1>1. /\ \A j \in 0 .. n : Start(lines, j) \in Nat
      /\ \A j \in 1 .. n : Start(lines, j) = Start(lines, j - 1) + Len(lines[j])
  BY <1>0, Starts
<1>2. \A j \in 1 .. n : Len(lines[j]) \in Nat /\ Len(lines[j]) > 0
  BY <1>0, LineIn DEF Shape
<1> HIDE DEF n
<1>a. k \in 0 .. n /\ l \in 0 .. n
  BY DEF n
<1>3. 0 \in Done
  BY <1>0, <1>a
<1>4. ASSUME NEW d \in 0 .. (n - k) - 1, d \in Done PROVE d + 1 \in Done
  <2>1. d + 1 \in 0 .. n - k /\ k + d \in 0 .. n /\ k + (d + 1) \in 1 .. n /\ (k + (d + 1)) - 1 = k + d
    BY <1>0, <1>a
  <2>2. Start(lines, k + (d + 1)) = Start(lines, k + d) + Len(lines[k + (d + 1)])
    BY <1>1, <2>1
  <2>3. d > 0 => Start(lines, k) < Start(lines, k + d)
    BY <1>4
  <2>4. d = 0 => Start(lines, k) = Start(lines, k + d)
    BY <1>0
  <2>5. Start(lines, k) \in Nat /\ Start(lines, k + d) \in Nat /\ Len(lines[k + (d + 1)]) \in Nat /\ Len(lines[k + (d + 1)]) > 0
    BY <1>1, <1>2, <1>a, <2>1
  <2>6. Start(lines, k) < Start(lines, k + (d + 1))
    BY <2>2, <2>3, <2>4, <2>5
  <2> QED BY <2>1, <2>6
<1>5. 0 .. n - k \subseteq Done
  <2>1. n - k \in Nat
    BY <1>0, <1>a
  <2> HIDE DEF Done
  <2> QED BY <1>3, <1>4, <2>1, UpTo
<1>6. l - k \in 0 .. n - k /\ l - k > 0 /\ k + (l - k) = l
  BY <1>0, <1>a
<1>7. l - k \in Done
  <2> HIDE DEF Done
  <2> QED BY <1>5, <1>6
<1> QED BY <1>6, <1>7

\* The keys of the searches in terms of the symbols of all lines.
LEMMA Keys ==
  ASSUME NEW lines, Shape(lines)
  PROVE  LET F == Flatten(lines)
         IN  /\ F \in Seq(SymbolType) /\ Len(F) > 0 /\ Len(F) \in Nat
             /\ \A k \in 1 .. Len(F) : F[k] \in SymbolType /\ F[k].pos \in Int
             /\ LineKeys(lines) \in Seq(Int) /\ Len(LineKeys(lines)) = Len(lines)
             /\ \A l \in 1 .. Len(lines) :
                  /\ Start(lines, l) \in 1 .. Len(F)
                  /\ LineKeys(lines)[l] = F[Start(lines, l)].pos
                  /\ IndexKeys(lines[l]) \in Seq(Int) /\ Len(IndexKeys(lines[l])) = Len(lines[l])
                  /\ \A i \in 1 .. Len(lines[l]) :
                       /\ Start(lines, l - 1) + i \in 1 .. Len(F)
                       /\ IndexKeys(lines[l])[i] = F[Start(lines, l - 1) + i].pos
                       /\ lines[l][i] = F[Start(lines, l - 1) + i]
<1> DEFINE F == Flatten(lines)
           n == Len(lines)
<1>0. lines \in Seq(Seq(SymbolType)) /\ n \in Nat /\ n > 0 /\ \A l \in 1 .. n : Len(lines[l]) > 0
  BY DEF Shape
<1>1. F \in Seq(SymbolType)
  <2>1. <<>> \in Seq(SymbolType)
    OBVIOUS
  <2> QED BY <1>0, <2>1, FlatAppend
<1>2. \A l \in 1 .. n : lines[l] \in Seq(SymbolType) /\ Len(lines[l]) \in Nat /\ DOMAIN lines[l] = 1 .. Len(lines[l])
  BY <1>0, LineIn
<1>3. /\ \A k \in 1 .. n : Start(lines, k) = Start(lines, k - 1) + Len(lines[k])
      /\ \A k \in 0 .. n : Start(lines, k) \in Nat
      /\ Start(lines, n) = Len(F)
  BY <1>0, Starts
<1>4. ASSUME NEW l \in 1 .. n, NEW i \in 1 .. Len(lines[l])
      PROVE  /\ Start(lines, l - 1) + i \in 1 .. Len(F) /\ lines[l][i] = F[Start(lines, l - 1) + i]
             /\ lines[l][i] \in SymbolType /\ lines[l][i].pos \in Int
  <2>1. Start(lines, l - 1) + i \in 1 .. Len(F) /\ lines[l][i] = F[Start(lines, l - 1) + i] /\ lines[l][i] \in SymbolType
    BY <1>0, FlatIndex
  <2> QED BY <2>1, SymbolFields
<1>5. \A k \in 1 .. Len(F) : F[k] \in SymbolType /\ F[k].pos \in Int
  <2> TAKE k \in 1 .. Len(F)
  <2>1. F[k] \in SymbolType
    BY <1>1
  <2> QED BY <2>1, SymbolFields
<1>6. ASSUME NEW l \in 1 .. n
      PROVE  /\ Start(lines, l) \in 1 .. Len(F) /\ Last(lines[l]).pos = F[Start(lines, l)].pos /\ Last(lines[l]).pos \in Int
  <2>1. Len(lines[l]) \in 1 .. Len(lines[l])
    BY <1>0, <1>2
  <2>2. Start(lines, l) = Start(lines, l - 1) + Len(lines[l])
    BY <1>3
  <2>3. Last(lines[l]) = lines[l][Len(lines[l])]
    BY DEF Last
  <2> QED BY <2>1, <2>2, <2>3, <1>4
<1>7. Len(F) > 0 /\ Len(F) \in Nat
  <2>1. n \in 1 .. n
    BY <1>0
  <2>2. Start(lines, n) \in 1 .. Len(F)
    BY <2>1, <1>6
  <2> QED BY <2>2, <1>1
<1>8. /\ LineKeys(lines) \in Seq(Int) /\ Len(LineKeys(lines)) = n
      /\ \A l \in 1 .. n : LineKeys(lines)[l] = Last(lines[l]).pos
  <2>1. LineKeys(lines) = [l \in 1 .. n |-> Last(lines[l]).pos]
    BY <1>0 DEF LineKeys
  <2>2. \A l \in 1 .. n : Last(lines[l]).pos \in Int
    BY <1>6
  <2> HIDE DEF n
  <2> QED BY <1>0, <2>1, <2>2
<1>9. ASSUME NEW l \in 1 .. n
      PROVE  /\ IndexKeys(lines[l]) \in Seq(Int) /\ Len(IndexKeys(lines[l])) = Len(lines[l])
             /\ \A i \in 1 .. Len(lines[l]) : IndexKeys(lines[l])[i] = lines[l][i].pos
  <2> DEFINE x == lines[l]
             m == Len(x)
  <2>1. IndexKeys(x) = [i \in 1 .. m |-> x[i].pos] /\ m \in Nat
    BY <1>2 DEF IndexKeys
  <2>2. \A i \in 1 .. m : x[i].pos \in Int
    BY <1>4
  <2> HIDE DEF x, m
  <2>3. IndexKeys(x) \in Seq(Int) /\ Len(IndexKeys(x)) = m /\ \A i \in 1 .. m : IndexKeys(x)[i] = x[i].pos
    BY <2>1, <2>2
  <2> QED BY <2>3 DEF x, m
<1>10. \A l \in 1 .. n : \A i \in 1 .. Len(lines[l]) :
          /\ Start(lines, l - 1) + i \in 1 .. Len(F) /\ lines[l][i] = F[Start(lines, l - 1) + i]
          /\ IndexKeys(lines[l])[i] = F[Start(lines, l - 1) + i].pos
  BY <1>4, <1>9
<1>11. \A l \in 1 .. n : Start(lines, l) \in 1 .. Len(F) /\ LineKeys(lines)[l] = F[Start(lines, l)].pos
  BY <1>6, <1>8
<1> HIDE DEF F, n
<1>12. \A l \in 1 .. n : IndexKeys(lines[l]) \in Seq(Int) /\ Len(IndexKeys(lines[l])) = Len(lines[l])
  BY <1>9
<1> QED BY <1>1, <1>5, <1>7, <1>8, <1>10, <1>11, <1>12 DEF F, n

\* The key of a symbol of a line is its position.
LEMMA KeyIn ==
  ASSUME NEW lines, Shape(lines), NEW l \in Nat, l + 1 \in 1 .. Len(lines), NEW i \in 1 .. Len(lines[l + 1])
  PROVE  IndexKeys(lines[l + 1])[i] = Flatten(lines)[Start(lines, l) + i].pos
<1>1. (l + 1) - 1 = l
  OBVIOUS
<1> QED BY <1>1, Keys

\* The place of an index of the symbols in the lines.
AtPlace(lines, at, o) ==
  /\ at.kind = "found" /\ at.line \in Nat /\ at.index \in Nat
  /\ at.line + 1 \in 1 .. Len(lines) /\ at.index + 1 \in 1 .. Len(lines[at.line + 1])
  /\ Start(lines, at.line) + at.index = o

\* o symbols are before p.
Before(F, p, o) ==
  /\ o \in 0 .. Len(F) - 1 /\ p <= F[o + 1].pos
  /\ o = 0 \/ F[o].pos < p

\* There is one place for a position at most.
LEMMA BeforeUnique ==
  ASSUME NEW F \in Seq(SymbolType), Sorted(F), NEW p \in Int, NEW a, NEW b, Before(F, p, a), Before(F, p, b)
  PROVE  a = b
<1>1. a \in Nat /\ b \in Nat /\ a < Len(F) /\ b < Len(F) /\ Len(F) \in Nat
  BY DEF Before
<1>2. ASSUME NEW x, NEW y, Before(F, p, x), Before(F, p, y), x \in Nat, y \in Nat, x < y, y < Len(F) PROVE FALSE
  <2>1. x + 1 \in 1 .. Len(F) /\ y \in 1 .. Len(F) /\ y # 0
    BY <1>1, <1>2
  <2>2. p <= F[x + 1].pos /\ F[y].pos < p
    BY <1>2, <2>1 DEF Before
  <2>3. F[x + 1].pos \in Int /\ F[y].pos \in Int
    BY <2>1, SymbolFields
  <2>4. x + 1 = y \/ x + 1 < y
    BY <1>2
  <2>5. F[x + 1].pos <= F[y].pos
    BY <2>1, <2>3, <2>4 DEF Sorted
  <2> QED BY <2>2, <2>3, <2>5
<1>3. a < b \/ a = b \/ b < a
  BY <1>1
<1> QED BY <1>1, <1>2, <1>3

\* There is a place for a position that is not after the last.
LEMMA BeforeExists ==
  ASSUME NEW F \in Seq(SymbolType), NEW p \in Int, Len(F) > 0, p <= F[Len(F)].pos
  PROVE  \E o : Before(F, p, o)
<1> DEFINE n == Len(F)
           Done == {k \in 0 .. n : (k > 0 /\ p <= F[k].pos) => \E o : Before(F, p, o)}
<1>0. n \in Nat /\ n > 0 /\ \A k \in 1 .. n : F[k].pos \in Int
  BY SymbolFields
<1>1. 0 \in Done
  BY <1>0
<1>2. ASSUME NEW k \in 0 .. n - 1, k \in Done PROVE k + 1 \in Done
  <2>1. k + 1 \in 0 .. n /\ k \in 0 .. Len(F) - 1 /\ k \in 0 .. n
    BY <1>0
  <2>2. CASE k > 0 /\ p <= F[k].pos
    <3>1. \E o : Before(F, p, o)
      BY <1>2, <2>2
    <3> HIDE DEF n
    <3> QED BY <2>1, <3>1
  <2>3. CASE k = 0 \/ F[k].pos < p
    <3>1. p <= F[k + 1].pos => Before(F, p, k)
      BY <2>1, <2>3 DEF Before
    <3> HIDE DEF n
    <3> QED BY <2>1, <3>1
  <2>4. k = 0 \/ (k \in 1 .. n /\ k > 0)
    BY <1>0
  <2>5. (k > 0 /\ p <= F[k].pos) \/ k = 0 \/ F[k].pos < p
    BY <1>0, <2>4
  <2> QED BY <2>2, <2>3, <2>5
<1>3. 0 .. n \subseteq Done
  <2> HIDE DEF Done, n
  <2> QED BY <1>0, <1>1, <1>2, UpTo
<1>4. n \in Done
  <2>1. n \in 0 .. n
    BY <1>0
  <2> HIDE DEF Done, n
  <2> QED BY <1>3, <2>1
<1> QED BY <1>0, <1>4

\* The search for the line.
LEMMA SearchedLine ==
  ASSUME NEW lines, Shape(lines), Sorted(Flatten(lines)), NEW p \in Int,
         p <= Flatten(lines)[Len(Flatten(lines))].pos
  PROVE  FirstNotBefore(LineKeys(lines), p, SearchLine(lines, p))
<1> DEFINE F == Flatten(lines)
           n == Len(lines)
           keys == LineKeys(lines)
<1>1. /\ keys \in Seq(Int) /\ Len(keys) = n
      /\ \A l \in 1 .. n : Start(lines, l) \in 1 .. Len(F) /\ keys[l] = F[Start(lines, l)].pos
  BY Keys
<1>2. n \in Nat /\ n > 0 /\ lines \in Seq(Seq(SymbolType))
  BY DEF Shape
<1>3. Start(lines, n) = Len(F)
  BY <1>2, Starts
<1> HIDE DEF keys, F
<1>4. Rising(keys)
  <2> SUFFICES ASSUME NEW i \in 1 .. n, NEW j \in 1 .. n, i < j PROVE keys[i] < keys[j]
    BY <1>1 DEF Rising
  <2>1. Start(lines, i) < Start(lines, j)
    BY StartsRise
  <2>2. \A a, b \in 1 .. Len(F) : a < b => F[a].pos < F[b].pos
    BY DEF Sorted, F
  <2> QED BY <1>1, <2>1, <2>2
<1>5. p <= keys[Len(keys)]
  <2>1. n \in 1 .. n
    BY <1>2
  <2> QED BY <1>1, <1>3, <2>1 DEF F
<1>6. LET w == Narrow(keys, p) IN FirstNotBefore(keys, p, IF p <= keys[w[1] + 1] THEN w[1] ELSE w[2])
  BY <1>1, <1>2, <1>4, <1>5, NarrowPlace
<1> QED BY <1>6 DEF SearchLine, keys

\* The search in a line.
LEMMA SearchedIndex ==
  ASSUME NEW lines, NEW line \in Seq(SymbolType), NEW p \in Int, Len(line) > 0,
         Rising(IndexKeys(line)), p <= IndexKeys(line)[Len(line)],
         IndexKeys(line) \in Seq(Int), Len(IndexKeys(line)) = Len(line)
  PROVE  /\ FirstNotBefore(IndexKeys(line), p, findInsertIndexInLine(lines, line, p))
         /\ (\E j \in 1 .. Len(line) : IndexKeys(line)[j] = p) =>
              FirstNotBefore(IndexKeys(line), p, findIndexInLine(lines, line, p))
<1> DEFINE keys == IndexKeys(line)
           w == Narrow(keys, p)
           m == Len(line)
<1>1. /\ p >= keys[1] => FirstNotBefore(keys, p, IF p = keys[w[1] + 1] THEN w[1] ELSE w[2])
      /\ (p >= keys[1] /\ p # keys[w[1] + 1] /\ \E j \in 1 .. m : keys[j] = p) => p = keys[w[2] + 1]
  BY NarrowPlace
<1>2. line # <<>> /\ m \in Nat /\ m > 0 /\ Last(keys) = keys[m]
  BY DEF Last
<1>3. keys[1] \in Int /\ keys[m] \in Int
  BY <1>2
<1>4. ~(p > Last(keys))
  BY <1>2, <1>3
<1>5. findInsertIndexInLine(lines, line, p) =
        IF p < keys[1] THEN 0 ELSE IF p = keys[w[1] + 1] THEN w[1] ELSE w[2]
  BY <1>2, <1>4, Zenon DEF findInsertIndexInLine
<1>6. findIndexInLine(lines, line, p) =
        IF p < keys[1] THEN 0 ELSE IF p = keys[w[1] + 1] THEN w[1] ELSE IF p = keys[w[2] + 1] THEN w[2] ELSE 0
  BY <1>2, <1>4, Zenon DEF findIndexInLine
<1>7. p < keys[1] => FirstNotBefore(keys, p, 0)
  BY <1>2, <1>3 DEF FirstNotBefore
<1>8. (p < keys[1] /\ ~(p >= keys[1])) \/ (~(p < keys[1]) /\ p >= keys[1])
  BY <1>3
<1> HIDE DEF keys, w, m
<1>9. FirstNotBefore(keys, p, findInsertIndexInLine(lines, line, p))
  BY <1>1, <1>5, <1>7, <1>8, Zenon
<1>10. (\E j \in 1 .. m : keys[j] = p) => FirstNotBefore(keys, p, findIndexInLine(lines, line, p))
  BY <1>1, <1>6, <1>7, <1>8, Zenon
<1> QED BY <1>9, <1>10 DEF keys, m
\* The place that the two searches tell together.
LEMMA PlaceOf ==
  ASSUME NEW lines, Shape(lines), NEW p \in Int, NEW l, FirstNotBefore(LineKeys(lines), p, l),
         NEW i, FirstNotBefore(IndexKeys(lines[l + 1]), p, i)
  PROVE  /\ Before(Flatten(lines), p, Start(lines, l) + i)
         /\ AtPlace(lines, Place(l, i), Start(lines, l) + i)
<1> DEFINE F == Flatten(lines)
           n == Len(lines)
           keys == IndexKeys(lines[l + 1])
<1>1. /\ \A k \in 1 .. Len(F) : F[k].pos \in Int
      /\ LineKeys(lines) \in Seq(Int) /\ Len(LineKeys(lines)) = n
      /\ \A k \in 1 .. n :
           /\ Start(lines, k) \in 1 .. Len(F)
           /\ LineKeys(lines)[k] = F[Start(lines, k)].pos
           /\ IndexKeys(lines[k]) \in Seq(Int) /\ Len(IndexKeys(lines[k])) = Len(lines[k])
           /\ \A j \in 1 .. Len(lines[k]) :
                /\ Start(lines, k - 1) + j \in 1 .. Len(F)
                /\ IndexKeys(lines[k])[j] = F[Start(lines, k - 1) + j].pos
  BY Keys
<1>2. n \in Nat /\ n > 0 /\ lines \in Seq(Seq(SymbolType))
  BY DEF Shape
<1>3. /\ l \in 0 .. n - 1 /\ l \in 0 .. n /\ l \in Nat /\ l + 1 \in 1 .. n /\ (l + 1) - 1 = l
      /\ \A j \in 1 .. l : LineKeys(lines)[j] < p
  BY <1>1, <1>2 DEF FirstNotBefore
<1>4. i \in 0 .. Len(keys) - 1 /\ p <= keys[i + 1] /\ \A j \in 1 .. i : keys[j] < p
  BY DEF FirstNotBefore
<1>5. /\ keys \in Seq(Int) /\ Len(keys) = Len(lines[l + 1])
      /\ \A j \in 1 .. Len(lines[l + 1]) : Start(lines, l) + j \in 1 .. Len(F) /\ keys[j] = F[Start(lines, l) + j].pos
  BY <1>1, <1>3
<1>6. Start(lines, l) \in Nat /\ Start(lines, 0) = 0
  BY <1>2, <1>3, Starts
<1> HIDE DEF keys
<1>7. i \in Nat /\ i + 1 \in 1 .. Len(lines[l + 1])
  BY <1>4, <1>5
<1>8. Start(lines, l) + (i + 1) \in 1 .. Len(F) /\ p <= F[Start(lines, l) + (i + 1)].pos
  BY <1>4, <1>5, <1>7
<1>9. Start(lines, l) + i \in 0 .. Len(F) - 1 /\ Start(lines, l) + (i + 1) = (Start(lines, l) + i) + 1
  <2> HIDE DEF F
  <2> QED BY <1>6, <1>7, <1>8
<1>10. Start(lines, l) + i = 0 \/ F[Start(lines, l) + i].pos < p
  <2>1. CASE i # 0
    <3>1. i \in 1 .. i /\ i \in 1 .. Len(lines[l + 1])
      BY <1>7, <2>1
    <3> QED BY <1>4, <1>5, <3>1
  <2>2. CASE i = 0 /\ l # 0
    <3>1. l \in 1 .. l /\ l \in 1 .. n
      BY <1>3, <2>2
    <3>2. F[Start(lines, l)].pos < p
      BY <1>1, <1>3, <3>1
    <3>3. Start(lines, l) + i = Start(lines, l)
      BY <1>6, <2>2
    <3> QED BY <3>2, <3>3
  <2>3. CASE i = 0 /\ l = 0
    BY <1>6, <2>3
  <2> QED BY <2>1, <2>2, <2>3
<1>11. Before(F, p, Start(lines, l) + i)
  <2> HIDE DEF F
  <2>1. F[(Start(lines, l) + i) + 1].pos = F[Start(lines, l) + (i + 1)].pos
    BY <1>9
  <2> QED BY <1>8, <1>9, <1>10, <2>1 DEF Before
<1>12. AtPlace(lines, Place(l, i), Start(lines, l) + i)
  BY <1>3, <1>7 DEF AtPlace, Place
<1> QED BY <1>11, <1>12

\* The keys of a line rise.
LEMMA LineRises ==
  ASSUME NEW lines, Shape(lines), Sorted(Flatten(lines)), NEW l \in 1 .. Len(lines)
  PROVE  Rising(IndexKeys(lines[l]))
<1> DEFINE F == Flatten(lines)
<1>1. /\ Len(IndexKeys(lines[l])) = Len(lines[l])
      /\ \A i \in 1 .. Len(lines[l]) : /\ Start(lines, l - 1) + i \in 1 .. Len(F)
                                        /\ IndexKeys(lines[l])[i] = F[Start(lines, l - 1) + i].pos
  BY Keys
<1>2. Start(lines, l - 1) \in Nat
  <2>1. lines \in Seq(Seq(SymbolType)) /\ l - 1 \in 0 .. Len(lines)
    BY DEF Shape
  <2> QED BY <2>1, Starts
<1> SUFFICES ASSUME NEW i \in 1 .. Len(lines[l]), NEW j \in 1 .. Len(lines[l]), i < j
             PROVE  IndexKeys(lines[l])[i] < IndexKeys(lines[l])[j]
  BY <1>1 DEF Rising
<1>3. \A a, b \in 1 .. Len(F) : a < b => F[a].pos < F[b].pos
  BY DEF Sorted
<1>4. Start(lines, l - 1) + i < Start(lines, l - 1) + j
  BY <1>2
<1> HIDE DEF F
<1> QED BY <1>1, <1>3, <1>4

\* The first and the last symbol.
LEMMA FirstAndLast ==
  ASSUME NEW lines, Shape(lines), Sorted(Flatten(lines))
  PROVE  LET F == Flatten(lines)
         IN  /\ lines # <<>> /\ lines # << <<>> >> /\ Last(lines) # <<>>
             /\ At(lines, 0, 0) = F[1] /\ AtPlace(lines, Place(0, 0), 0)
             /\ Last(Last(lines)) = F[Len(F)] /\ 1 \in 1 .. Len(F) /\ Len(F) \in 1 .. Len(F)
             /\ \A j \in 1 .. Len(F) : F[1].pos <= F[j].pos /\ F[j].pos <= F[Len(F)].pos
<1> DEFINE F == Flatten(lines)
           n == Len(lines)
           m == Len(lines[n])
<1>1. /\ F \in Seq(SymbolType) /\ Len(F) > 0 /\ Len(F) \in Nat /\ \A k \in 1 .. Len(F) : F[k].pos \in Int
      /\ \A l \in 1 .. n : \A i \in 1 .. Len(lines[l]) :
           Start(lines, l - 1) + i \in 1 .. Len(F) /\ lines[l][i] = F[Start(lines, l - 1) + i]
  BY Keys
<1>2. lines \in Seq(Seq(SymbolType)) /\ n \in Nat /\ n > 0 /\ \A l \in 1 .. n : Len(lines[l]) > 0
  BY DEF Shape
<1>3. /\ Start(lines, 0) = 0 /\ Start(lines, n) = Len(F) /\ Start(lines, n) = Start(lines, n - 1) + Len(lines[n])
      /\ Start(lines, n - 1) \in Nat
  <2>1. n \in 1 .. n /\ n - 1 \in 0 .. n
    BY <1>2
  <2> QED BY <1>2, <2>1, Starts
<1>4. 1 \in 1 .. n /\ n \in 1 .. n /\ Len(lines[1]) \in Nat /\ m \in Nat
  BY <1>2, LineIn
<1>5. 1 \in 1 .. Len(lines[1]) /\ m \in 1 .. m /\ lines[1] # <<>> /\ lines[n] # <<>>
  BY <1>2, <1>4
<1>6. Last(lines) = lines[n] /\ Last(lines[n]) = lines[n][m]
  BY DEF Last
<1>7. At(lines, 0, 0) = F[1]
  <2>1. lines[1][1] = F[Start(lines, 1 - 1) + 1]
    BY <1>1, <1>4, <1>5
  <2>2. Start(lines, 1 - 1) + 1 = 1
    BY <1>3
  <2> HIDE DEF F
  <2> QED BY <2>1, <2>2 DEF At
<1>8. Last(Last(lines)) = F[Len(F)]
  <2>1. lines[n][m] = F[Start(lines, n - 1) + m]
    BY <1>1, <1>4, <1>5
  <2>2. Start(lines, n - 1) + m = Len(F)
    BY <1>3
  <2> HIDE DEF F
  <2> QED BY <2>1, <2>2, <1>6
<1>9. AtPlace(lines, Place(0, 0), 0)
  BY <1>3, <1>4, <1>5 DEF AtPlace, Place
<1>10. lines # << <<>> >>
  <2>1. lines = << <<>> >> => lines[1] = <<>>
    OBVIOUS
  <2> QED BY <2>1, <1>5
<1>11. lines # <<>>
  BY <1>2
<1>12. 1 \in 1 .. Len(F) /\ Len(F) \in 1 .. Len(F)
  BY <1>1
<1>13. ASSUME NEW j \in 1 .. Len(F) PROVE F[1].pos <= F[j].pos /\ F[j].pos <= F[Len(F)].pos
  <2>1. 1 < j \/ 1 = j
    OBVIOUS
  <2>2. j < Len(F) \/ j = Len(F)
    OBVIOUS
  <2>3. \A a, b \in 1 .. Len(F) : a < b => F[a].pos < F[b].pos
    BY DEF Sorted
  <2> HIDE DEF F
  <2>4. F[1].pos \in Int /\ F[j].pos \in Int /\ F[Len(F)].pos \in Int
    BY <1>1, <1>12
  <2>5. F[1].pos <= F[j].pos
    BY <2>1, <2>3, <2>4, <1>12
  <2>6. F[j].pos <= F[Len(F)].pos
    BY <2>2, <2>3, <2>4, <1>12
  <2> QED BY <2>5, <2>6
<1> QED BY <1>5, <1>6, <1>7, <1>8, <1>9, <1>10, <1>11, <1>12, <1>13

\* Where a new symbol goes: before the first symbol that is not before it.
LEMMA InsertPlace ==
  ASSUME NEW lines, Shape(lines), Sorted(Flatten(lines)), NEW p \in Int, NEW o, Before(Flatten(lines), p, o)
  PROVE  AtPlace(lines, findInsertPosition(lines, p), o)
<1> DEFINE F == Flatten(lines)
           l == SearchLine(lines, p)
           i == findInsertIndexInLine(lines, lines[l + 1], p)
<1>1. F \in Seq(SymbolType) /\ \A k \in 1 .. Len(F) : F[k].pos \in Int
  BY Keys
<1>2. /\ lines # <<>> /\ lines # << <<>> >> /\ Last(lines) # <<>>
      /\ At(lines, 0, 0) = F[1] /\ AtPlace(lines, Place(0, 0), 0)
      /\ Last(Last(lines)) = F[Len(F)] /\ 1 \in 1 .. Len(F) /\ Len(F) \in 1 .. Len(F)
      /\ \A j \in 1 .. Len(F) : F[1].pos <= F[j].pos /\ F[j].pos <= F[Len(F)].pos
  BY FirstAndLast
<1>3. o \in 0 .. Len(F) - 1 /\ o + 1 \in 1 .. Len(F) /\ p <= F[o + 1].pos /\ (o = 0 \/ (o \in 1 .. Len(F) /\ F[o].pos < p))
  BY <1>1 DEF Before
<1> HIDE DEF F
<1>4. CASE p <= At(lines, 0, 0).pos
  <2>1. findInsertPosition(lines, p) = Place(0, 0)
    BY <1>2, <1>4, Zenon DEF findInsertPosition
  <2>2. o = 0
    <3>1. o # 0 => F[o].pos < p /\ F[o].pos \in Int /\ F[1].pos \in Int /\ F[1].pos <= F[o].pos /\ p <= F[1].pos
      BY <1>1, <1>2, <1>3, <1>4
    <3> QED BY <3>1
  <2> QED BY <1>2, <2>1, <2>2
<1>5. CASE ~(p <= At(lines, 0, 0).pos)
  <2>1. p <= F[Len(F)].pos
    <3>1. F[o + 1].pos <= F[Len(F)].pos /\ F[o + 1].pos \in Int /\ F[Len(F)].pos \in Int
      BY <1>1, <1>2, <1>3
    <3> QED BY <1>3, <3>1
  <2>2. ~(p > Last(Last(lines)).pos)
    BY <1>1, <1>2, <2>1
  <2>3. findInsertPosition(lines, p) = Place(l, i)
    BY <1>2, <1>5, <2>2, Zenon DEF findInsertPosition
  <2>4. FirstNotBefore(LineKeys(lines), p, l)
    BY <2>1, SearchedLine DEF F
  <2>5. Len(LineKeys(lines)) = Len(lines) /\ Len(lines) \in Nat
    BY Keys DEF Shape
  <2>6. l + 1 \in 1 .. Len(lines) /\ l \in Nat /\ (l + 1) - 1 = l /\ p <= LineKeys(lines)[l + 1]
    BY <2>4, <2>5 DEF FirstNotBefore
  <2> HIDE DEF l
  <2> DEFINE line == lines[l + 1]
  <2>7. /\ IndexKeys(line) \in Seq(Int) /\ Len(IndexKeys(line)) = Len(line) /\ Rising(IndexKeys(line))
        /\ line \in Seq(SymbolType) /\ Len(line) > 0
    <3>1. lines \in Seq(Seq(SymbolType)) /\ Len(line) > 0
      BY <2>6 DEF Shape
    <3> QED BY <2>6, <3>1, Keys, LineRises, LineIn
  <2>8. p <= IndexKeys(line)[Len(line)]
    <3>1. lines \in Seq(Seq(SymbolType)) /\ Len(line) \in Nat
      BY <2>7 DEF Shape
    <3>2. Len(line) \in 1 .. Len(line)
      BY <2>7, <3>1
    <3>3. IndexKeys(line)[Len(line)] = F[Start(lines, l) + Len(line)].pos
      BY <2>6, <3>2, KeyIn DEF F
    <3>4. Start(lines, l + 1) = Start(lines, l) + Len(line)
      BY <2>6, <3>1, Starts
    <3>5. LineKeys(lines)[l + 1] = F[Start(lines, l + 1)].pos
      BY <2>6, Keys DEF F
    <3> QED BY <2>6, <3>3, <3>4, <3>5
  <2>9. FirstNotBefore(IndexKeys(line), p, findInsertIndexInLine(lines, line, p))
    <3> HIDE DEF line
    <3> QED BY <2>7, <2>8, SearchedIndex
  <2>10. Before(F, p, Start(lines, l) + i) /\ AtPlace(lines, Place(l, i), Start(lines, l) + i)
    <3> HIDE DEF i
    <3> QED BY <2>4, <2>9, PlaceOf DEF i, line, F
  <2>11. Start(lines, l) + i = o
    <3>1. Before(F, p, o) /\ Sorted(F)
      BY DEF F
    <3> HIDE DEF i
    <3> QED BY <1>1, <2>10, <3>1, BeforeUnique
  <2> HIDE DEF i
  <2> QED BY <2>3, <2>10, <2>11
<1> QED BY <1>4, <1>5

\* A symbol that is there is found where it is.
LEMMA FoundPlace ==
  ASSUME NEW lines, Shape(lines), Sorted(Flatten(lines)), NEW k \in 1 .. Len(Flatten(lines)),
         NEW p, p = Flatten(lines)[k].pos
  PROVE  AtPlace(lines, findPosition(lines, p), k - 1)
<1> DEFINE F == Flatten(lines)
           l == SearchLine(lines, p)
           i == findIndexInLine(lines, lines[l + 1], p)
<1>1. F \in Seq(SymbolType) /\ \A j \in 1 .. Len(F) : F[j].pos \in Int
  BY Keys
<1>2. /\ lines # <<>> /\ lines # << <<>> >> /\ Last(lines) # <<>>
      /\ At(lines, 0, 0) = F[1]
      /\ Last(Last(lines)) = F[Len(F)] /\ 1 \in 1 .. Len(F) /\ Len(F) \in 1 .. Len(F)
      /\ \A j \in 1 .. Len(F) : F[1].pos <= F[j].pos /\ F[j].pos <= F[Len(F)].pos
  BY FirstAndLast
<1>3. k \in 1 .. Len(F) /\ p = F[k].pos /\ p \in Int
  BY <1>1
<1>4. Before(F, p, k - 1)
  <2>1. k - 1 \in 0 .. Len(F) - 1 /\ (k - 1) + 1 = k
    BY <1>3
  <2>2. k - 1 = 0 \/ (k - 1 \in 1 .. Len(F) /\ k - 1 < k)
    BY <1>3
  <2>3. \A a, b \in 1 .. Len(F) : a < b => F[a].pos < F[b].pos
    BY DEF Sorted
  <2>4. p <= F[(k - 1) + 1].pos
    BY <1>3, <2>1
  <2>5. k - 1 = 0 \/ F[k - 1].pos < p
    BY <1>3, <2>2, <2>3
  <2> HIDE DEF F
  <2> QED BY <2>1, <2>4, <2>5 DEF Before
<1>s. Sorted(F)
  OBVIOUS
<1> HIDE DEF F
<1>5. ~(p < At(lines, 0, 0).pos) /\ ~(p > Last(Last(lines)).pos) /\ p <= F[Len(F)].pos
  <2>1. F[1].pos <= p /\ p <= F[Len(F)].pos /\ F[1].pos \in Int /\ F[Len(F)].pos \in Int
    BY <1>1, <1>2, <1>3
  <2> QED BY <1>2, <1>3, <2>1
<1>6. findPosition(lines, p) = Place(l, i)
  BY <1>2, <1>5, Zenon DEF findPosition
<1>7. FirstNotBefore(LineKeys(lines), p, l)
  BY <1>3, <1>5, SearchedLine DEF F
<1>8. Len(LineKeys(lines)) = Len(lines) /\ Len(lines) \in Nat
  BY Keys DEF Shape
<1>9. l + 1 \in 1 .. Len(lines) /\ l \in Nat /\ (l + 1) - 1 = l /\ p <= LineKeys(lines)[l + 1]
  BY <1>7, <1>8 DEF FirstNotBefore
<1> HIDE DEF l
<1> DEFINE line == lines[l + 1]
<1>10. /\ IndexKeys(line) \in Seq(Int) /\ Len(IndexKeys(line)) = Len(line) /\ Rising(IndexKeys(line))
       /\ line \in Seq(SymbolType) /\ Len(line) > 0
  <2>1. lines \in Seq(Seq(SymbolType)) /\ Len(line) > 0
    BY <1>9 DEF Shape
  <2> QED BY <1>9, <2>1, Keys, LineRises, LineIn
<1>11. p <= IndexKeys(line)[Len(line)]
  <2>1. lines \in Seq(Seq(SymbolType)) /\ Len(line) \in Nat
    BY <1>10 DEF Shape
  <2>2. Len(line) \in 1 .. Len(line)
    BY <1>10, <2>1
  <2>3. IndexKeys(line)[Len(line)] = F[Start(lines, l) + Len(line)].pos
    BY <1>9, <2>2, KeyIn DEF F
  <2>4. Start(lines, l + 1) = Start(lines, l) + Len(line)
    BY <1>9, <2>1, Starts
  <2>5. LineKeys(lines)[l + 1] = F[Start(lines, l + 1)].pos
    BY <1>9, Keys DEF F
  <2> QED BY <1>9, <2>3, <2>4, <2>5
<1>12. \E j \in 1 .. Len(line) : IndexKeys(line)[j] = p
  <2> DEFINE j == findInsertIndexInLine(lines, line, p)
  <2>1. FirstNotBefore(IndexKeys(line), p, j)
    <3> HIDE DEF line
    <3> QED BY <1>3, <1>10, <1>11, SearchedIndex
  <2> HIDE DEF j
  <2>2. Before(F, p, Start(lines, l) + j) /\ AtPlace(lines, Place(l, j), Start(lines, l) + j)
    BY <1>3, <1>7, <2>1, PlaceOf DEF line, F
  <2>3. Start(lines, l) + j = k - 1
    BY <1>1, <1>3, <1>4, <1>s, <2>2, BeforeUnique
  <2>4. j + 1 \in 1 .. Len(line) /\ j \in Nat
    BY <2>2 DEF AtPlace, Place
  <2>5. IndexKeys(line)[j + 1] = F[Start(lines, l) + (j + 1)].pos
    BY <1>9, <2>4, KeyIn DEF F
  <2>6. Start(lines, l) + (j + 1) = k
    <3>1. Start(lines, l) \in Nat
      <4>1. lines \in Seq(Seq(SymbolType)) /\ l \in 0 .. Len(lines)
        BY <1>9 DEF Shape
      <4> QED BY <4>1, Starts
    <3> QED BY <1>3, <2>3, <2>4, <3>1
  <2> QED BY <1>3, <2>4, <2>5, <2>6
<1>13. FirstNotBefore(IndexKeys(line), p, findIndexInLine(lines, line, p))
  <2> HIDE DEF line
  <2> QED BY <1>3, <1>10, <1>11, <1>12, SearchedIndex
<1>14. Before(F, p, Start(lines, l) + i) /\ AtPlace(lines, Place(l, i), Start(lines, l) + i)
  <2> HIDE DEF i
  <2> QED BY <1>3, <1>7, <1>13, PlaceOf DEF i, line, F
<1>15. Start(lines, l) + i = k - 1
  <2> HIDE DEF i
  <2> QED BY <1>1, <1>3, <1>4, <1>s, <1>14, BeforeUnique
<1> HIDE DEF i
<1> QED BY <1>6, <1>14, <1>15

-----------------------------------------------------------------------------
(***************************************************************************)
(* Sequences that grow, shrink and change at a place.                      *)
(***************************************************************************)

GrownBy(F, o, S, G) ==
  /\ Len(G) = Len(F) + Len(S)
  /\ \A k \in 1 .. o : G[k] = F[k]
  /\ \A k \in 1 .. Len(S) : G[o + k] = S[k]
  /\ \A k \in o + 1 .. Len(F) : G[k + Len(S)] = F[k]

ShrunkBy(F, o, n, G) ==
  /\ Len(G) = Len(F) - n
  /\ \A k \in 1 .. o : G[k] = F[k]
  /\ \A k \in o + 1 .. Len(F) - n : G[k] = F[k + n]

\* Three sequences, one after the other.
LEMMA Three ==
  ASSUME NEW T, NEW a \in Seq(T), NEW b \in Seq(T), NEW c \in Seq(T)
  PROVE  /\ a \o (b \o c) \in Seq(T) /\ Len(a \o (b \o c)) = Len(a) + Len(b) + Len(c)
         /\ \A k \in 1 .. Len(a) : (a \o (b \o c))[k] = a[k]
         /\ \A k \in 1 .. Len(b) : (a \o (b \o c))[Len(a) + k] = b[k]
         /\ \A k \in 1 .. Len(c) : (a \o (b \o c))[Len(a) + Len(b) + k] = c[k]
         /\ a \o (b \o c) = (a \o b) \o c
<1> DEFINE d == b \o c
           e == a \o d
<1>1. /\ d \in Seq(T) /\ Len(d) = Len(b) + Len(c) /\ \A k \in 1 .. Len(b) : d[k] = b[k]
      /\ \A k \in 1 .. Len(c) : d[Len(b) + k] = c[k]
  BY Both
<1>2. a \o d = (a \o b) \o c
  BY Regroup
<1> HIDE DEF d
<1>3. /\ e \in Seq(T) /\ Len(e) = Len(a) + Len(d) /\ \A k \in 1 .. Len(a) : e[k] = a[k]
      /\ \A k \in 1 .. Len(d) : e[Len(a) + k] = d[k]
  <2>1. d \in Seq(T)
    BY <1>1
  <2> QED BY <2>1, Both
<1> HIDE DEF e
<1>4. Len(a) \in Nat /\ Len(b) \in Nat /\ Len(c) \in Nat
  OBVIOUS
<1>5. ASSUME NEW k \in 1 .. Len(b) PROVE e[Len(a) + k] = b[k]
  <2>1. k \in 1 .. Len(d)
    BY <1>1, <1>4
  <2> QED BY <1>1, <1>3, <2>1
<1>6. ASSUME NEW k \in 1 .. Len(c) PROVE e[Len(a) + Len(b) + k] = c[k]
  <2>1. Len(b) + k \in 1 .. Len(d) /\ Len(a) + (Len(b) + k) = Len(a) + Len(b) + k
    BY <1>1, <1>4
  <2>2. e[Len(a) + (Len(b) + k)] = d[Len(b) + k]
    BY <1>3, <2>1
  <2> QED BY <1>1, <2>1, <2>2
<1>7. Len(e) = Len(a) + Len(b) + Len(c)
  BY <1>1, <1>3, <1>4
<1> QED BY <1>2, <1>3, <1>5, <1>6, <1>7 DEF d, e

Threefold(T, a, b, c) ==
  /\ a \o (b \o c) \in Seq(T) /\ Len(a \o (b \o c)) = Len(a) + Len(b) + Len(c)
  /\ \A k \in 1 .. Len(a) : (a \o (b \o c))[k] = a[k]
  /\ \A k \in 1 .. Len(b) : (a \o (b \o c))[Len(a) + k] = b[k]
  /\ \A k \in 1 .. Len(c) : (a \o (b \o c))[Len(a) + Len(b) + k] = c[k]
  /\ a \o (b \o c) = (a \o b) \o c

\* The same, as one fact.
LEMMA ThreeParts ==
  ASSUME NEW T, NEW a \in Seq(T), NEW b \in Seq(T), NEW c \in Seq(T)
  PROVE  Threefold(T, a, b, c)
BY Three DEF Threefold

\* A sequence with another put in.
LEMMA PutIn ==
  ASSUME NEW T, NEW F \in Seq(T), NEW S \in Seq(T), NEW o \in 0 .. Len(F)
  PROVE  LET G == SubSeq(F, 1, o) \o S \o SubSeq(F, o + 1, Len(F))
         IN  G \in Seq(T) /\ GrownBy(F, o, S, G)
<1> DEFINE a == SubSeq(F, 1, o)
           b == SubSeq(F, o + 1, Len(F))
           G == (a \o S) \o b
<1>1. a \in Seq(T) /\ Len(a) = o /\ \A k \in 1 .. o : a[k] = F[k]
  BY Cut
<1>2. b \in Seq(T) /\ Len(b) = Len(F) - o /\ \A k \in 1 .. Len(F) - o : b[k] = F[o + k]
  BY Cut
<1> HIDE DEF a, b
<1>3. /\ G \in Seq(T) /\ Len(G) = Len(a) + Len(S) + Len(b)
      /\ \A k \in 1 .. Len(a) : G[k] = a[k]
      /\ \A k \in 1 .. Len(S) : G[Len(a) + k] = S[k]
      /\ \A k \in 1 .. Len(b) : G[Len(a) + Len(S) + k] = b[k]
  <2>1. a \in Seq(T) /\ b \in Seq(T)
    BY <1>1, <1>2
  <2>2. (a \o S) \o b = a \o (S \o b)
    BY <2>1, Three
  <2> DEFINE H == a \o (S \o b)
  <2>3. /\ H \in Seq(T) /\ Len(H) = Len(a) + Len(S) + Len(b)
        /\ \A k \in 1 .. Len(a) : H[k] = a[k]
        /\ \A k \in 1 .. Len(S) : H[Len(a) + k] = S[k]
        /\ \A k \in 1 .. Len(b) : H[Len(a) + Len(S) + k] = b[k]
    BY <2>1, Three
  <2>4. G = H
    BY <2>2
  <2> HIDE DEF G, H
  <2> QED BY <2>3, <2>4
<1> HIDE DEF G
<1>4. o \in Nat /\ Len(F) \in Nat /\ Len(S) \in Nat /\ o <= Len(F)
  OBVIOUS
<1>5. ASSUME NEW k \in o + 1 .. Len(F) PROVE G[k + Len(S)] = F[k]
  <2>1. k - o \in 1 .. Len(b) /\ Len(a) + Len(S) + (k - o) = k + Len(S) /\ o + (k - o) = k /\ k - o \in 1 .. Len(F) - o
    BY <1>1, <1>2, <1>4
  <2>2. G[k + Len(S)] = b[k - o]
    BY <1>3, <2>1
  <2> QED BY <1>2, <2>1, <2>2
<1>6. Len(G) = Len(F) + Len(S)
  BY <1>1, <1>2, <1>3, <1>4
<1>7. GrownBy(F, o, S, G)
  BY <1>1, <1>3, <1>5, <1>6 DEF GrownBy
<1> QED BY <1>3, <1>7 DEF G, a, b

\* A sequence with a part taken out.
LEMMA TakenOut ==
  ASSUME NEW T, NEW F \in Seq(T), NEW o \in Nat, NEW n \in Nat, o + n <= Len(F)
  PROVE  LET G == SubSeq(F, 1, o) \o SubSeq(F, o + n + 1, Len(F))
         IN  G \in Seq(T) /\ ShrunkBy(F, o, n, G)
<1> DEFINE a == SubSeq(F, 1, o)
           b == SubSeq(F, o + n + 1, Len(F))
           G == a \o b
<1>0. o \in 0 .. Len(F) /\ o + n \in 0 .. Len(F) /\ Len(F) \in Nat
  OBVIOUS
<1>1. a \in Seq(T) /\ Len(a) = o /\ \A k \in 1 .. o : a[k] = F[k]
  BY <1>0, Cut
<1>2. b \in Seq(T) /\ Len(b) = Len(F) - (o + n) /\ \A k \in 1 .. Len(F) - (o + n) : b[k] = F[o + n + k]
  BY <1>0, Cut
<1> HIDE DEF a, b
<1>3. /\ G \in Seq(T) /\ Len(G) = Len(a) + Len(b)
      /\ \A k \in 1 .. Len(a) : G[k] = a[k]
      /\ \A k \in 1 .. Len(b) : G[Len(a) + k] = b[k]
  BY <1>1, <1>2, Both
<1> HIDE DEF G
<1>4. ASSUME NEW k \in o + 1 .. Len(F) - n PROVE G[k] = F[k + n]
  <2>1. k - o \in 1 .. Len(b) /\ Len(a) + (k - o) = k /\ o + n + (k - o) = k + n
    BY <1>0, <1>1, <1>2
  <2> QED BY <1>2, <1>3, <2>1
<1>5. Len(G) = Len(F) - n
  BY <1>0, <1>1, <1>2, <1>3
<1>6. ShrunkBy(F, o, n, G)
  BY <1>1, <1>3, <1>4, <1>5 DEF ShrunkBy
<1> QED BY <1>3, <1>6 DEF G, a, b

\* What happens to a part happens to the whole.
LEMMA GrownInside ==
  ASSUME NEW T, NEW P \in Seq(T), NEW x \in Seq(T), NEW R \in Seq(T), NEW S \in Seq(T), NEW y \in Seq(T),
         NEW o \in 0 .. Len(x), GrownBy(x, o, S, y)
  PROVE  GrownBy(P \o (x \o R), Len(P) + o, S, P \o (y \o R))
<1> DEFINE F == P \o (x \o R)
           G == P \o (y \o R)
           p == Len(P)
           m == Len(S)
<1>1. /\ Len(F) = p + Len(x) + Len(R)
      /\ \A k \in 1 .. p : F[k] = P[k]
      /\ \A k \in 1 .. Len(x) : F[p + k] = x[k]
      /\ \A k \in 1 .. Len(R) : F[p + Len(x) + k] = R[k]
  BY Three
<1>2. /\ Len(G) = p + Len(y) + Len(R)
      /\ \A k \in 1 .. p : G[k] = P[k]
      /\ \A k \in 1 .. Len(y) : G[p + k] = y[k]
      /\ \A k \in 1 .. Len(R) : G[p + Len(y) + k] = R[k]
  BY Three
<1>3. /\ Len(y) = Len(x) + m
      /\ \A k \in 1 .. o : y[k] = x[k]
      /\ \A k \in 1 .. m : y[o + k] = S[k]
      /\ \A k \in o + 1 .. Len(x) : y[k + m] = x[k]
  BY DEF GrownBy
<1>4. p \in Nat /\ m \in Nat /\ o \in Nat /\ Len(x) \in Nat /\ Len(R) \in Nat /\ o <= Len(x)
  OBVIOUS
<1> HIDE DEF F, G, p, m
<1>5. Len(G) = Len(F) + m
  BY <1>1, <1>2, <1>3, <1>4
<1>6. ASSUME NEW k \in 1 .. p + o PROVE G[k] = F[k]
  <2>1. CASE k \in 1 .. p
    BY <1>1, <1>2, <2>1
  <2>2. CASE k > p
    <3>1. k - p \in 1 .. o /\ k - p \in 1 .. Len(x) /\ k - p \in 1 .. Len(y) /\ p + (k - p) = k
      BY <1>3, <1>4, <2>2
    <3>2. G[p + (k - p)] = y[k - p] /\ F[p + (k - p)] = x[k - p]
      BY <1>1, <1>2, <3>1
    <3> QED BY <1>3, <3>1, <3>2
  <2> QED BY <1>4, <2>1, <2>2
<1>7. ASSUME NEW k \in 1 .. m PROVE G[p + o + k] = S[k]
  <2>1. o + k \in 1 .. Len(y) /\ p + (o + k) = p + o + k
    BY <1>3, <1>4
  <2>2. G[p + (o + k)] = y[o + k]
    BY <1>2, <2>1
  <2> QED BY <1>3, <2>1, <2>2
<1>8. ASSUME NEW k \in p + o + 1 .. Len(F) PROVE G[k + m] = F[k]
  <2>1. CASE k <= p + Len(x)
    <3>1. /\ k - p \in o + 1 .. Len(x) /\ k - p \in 1 .. Len(x) /\ p + (k - p) = k
          /\ (k - p) + m \in 1 .. Len(y) /\ p + ((k - p) + m) = k + m
      BY <1>3, <1>4, <2>1
    <3>2. G[p + ((k - p) + m)] = y[(k - p) + m] /\ F[p + (k - p)] = x[k - p]
      BY <1>1, <1>2, <3>1
    <3> QED BY <1>3, <3>1, <3>2
  <2>2. CASE k > p + Len(x)
    <3>1. /\ k - (p + Len(x)) \in 1 .. Len(R) /\ p + Len(x) + (k - (p + Len(x))) = k
          /\ p + Len(y) + (k - (p + Len(x))) = k + m
      BY <1>1, <1>3, <1>4, <2>2
    <3>2. G[p + Len(y) + (k - (p + Len(x)))] = R[k - (p + Len(x))] /\ F[p + Len(x) + (k - (p + Len(x)))] = R[k - (p + Len(x))]
      BY <1>1, <1>2, <3>1
    <3> QED BY <3>1, <3>2
  <2> QED BY <1>4, <2>1, <2>2
<1>9. GrownBy(F, p + o, S, G)
  BY <1>5, <1>6, <1>7, <1>8 DEF GrownBy, m
<1> QED BY <1>9 DEF F, G, p

\* A part taken out of a part is taken out of the whole.
LEMMA ShrunkInside ==
  ASSUME NEW T, NEW P \in Seq(T), NEW x \in Seq(T), NEW R \in Seq(T), NEW y \in Seq(T),
         NEW o \in Nat, NEW n \in Nat, o + n <= Len(x), ShrunkBy(x, o, n, y)
  PROVE  ShrunkBy(P \o (x \o R), Len(P) + o, n, P \o (y \o R))
<1> DEFINE F == P \o (x \o R)
           G == P \o (y \o R)
           p == Len(P)
<1>1. /\ Len(F) = p + Len(x) + Len(R)
      /\ \A k \in 1 .. p : F[k] = P[k]
      /\ \A k \in 1 .. Len(x) : F[p + k] = x[k]
      /\ \A k \in 1 .. Len(R) : F[p + Len(x) + k] = R[k]
  BY Three, SMTT(30)
<1>2. /\ Len(G) = p + Len(y) + Len(R)
      /\ \A k \in 1 .. p : G[k] = P[k]
      /\ \A k \in 1 .. Len(y) : G[p + k] = y[k]
      /\ \A k \in 1 .. Len(R) : G[p + Len(y) + k] = R[k]
  BY Three, SMTT(30)
<1>3. /\ Len(y) = Len(x) - n
      /\ \A k \in 1 .. o : y[k] = x[k]
      /\ \A k \in o + 1 .. Len(x) - n : y[k] = x[k + n]
  BY DEF ShrunkBy
<1>4. p \in Nat /\ Len(x) \in Nat /\ Len(y) \in Nat /\ Len(R) \in Nat
  OBVIOUS
<1> HIDE DEF F, G, p
<1>5. Len(G) = Len(F) - n
  BY <1>1, <1>2, <1>3, <1>4
<1>6. ASSUME NEW k \in 1 .. p + o PROVE G[k] = F[k]
  <2>1. CASE k \in 1 .. p
    BY <1>1, <1>2, <2>1
  <2>2. CASE k > p
    <3>1. k - p \in 1 .. o /\ k - p \in 1 .. Len(x) /\ k - p \in 1 .. Len(y) /\ p + (k - p) = k
      BY <1>3, <1>4, <2>2
    <3>2. G[p + (k - p)] = y[k - p] /\ F[p + (k - p)] = x[k - p]
      BY <1>1, <1>2, <3>1
    <3> QED BY <1>3, <3>1, <3>2
  <2> QED BY <1>4, <2>1, <2>2
<1>7. ASSUME NEW k \in p + o + 1 .. Len(F) - n PROVE G[k] = F[k + n]
  <2>1. CASE k <= p + Len(y)
    <3>1. /\ k - p \in o + 1 .. Len(x) - n /\ k - p \in 1 .. Len(y) /\ p + (k - p) = k
          /\ (k - p) + n \in 1 .. Len(x) /\ p + ((k - p) + n) = k + n
      BY <1>3, <1>4, <2>1
    <3>2. G[p + (k - p)] = y[k - p] /\ F[p + ((k - p) + n)] = x[(k - p) + n]
      BY <1>1, <1>2, <3>1
    <3> QED BY <1>3, <3>1, <3>2
  <2>2. CASE k > p + Len(y)
    <3>1. /\ k - (p + Len(y)) \in 1 .. Len(R) /\ p + Len(y) + (k - (p + Len(y))) = k
          /\ p + Len(x) + (k - (p + Len(y))) = k + n
      BY <1>1, <1>3, <1>4, <2>2
    <3>2. G[p + Len(y) + (k - (p + Len(y)))] = R[k - (p + Len(y))] /\ F[p + Len(x) + (k - (p + Len(y)))] = R[k - (p + Len(y))]
      BY <1>1, <1>2, <3>1
    <3> QED BY <3>1, <3>2
  <2> QED BY <1>4, <2>1, <2>2
<1>8. ShrunkBy(F, p + o, n, G)
  BY <1>5, <1>6, <1>7 DEF ShrunkBy
<1> QED BY <1>8 DEF F, G, p

\* Sequences that begin the same have the same prefix.
LEMMA SamePrefix ==
  ASSUME NEW T, NEW s \in Seq(T), NEW t \in Seq(T), NEW n \in Nat, n <= Len(s), n <= Len(t),
         \A k \in 1 .. n : s[k] = t[k]
  PROVE  SubSeq(s, 1, n) = SubSeq(t, 1, n)
<1>1. n \in 0 .. Len(s) /\ n \in 0 .. Len(t)
  OBVIOUS
<1>2. SubSeq(s, 1, n) \in Seq(T) /\ Len(SubSeq(s, 1, n)) = n /\ \A k \in 1 .. n : SubSeq(s, 1, n)[k] = s[k]
  BY <1>1, Cut
<1>3. SubSeq(t, 1, n) \in Seq(T) /\ Len(SubSeq(t, 1, n)) = n /\ \A k \in 1 .. n : SubSeq(t, 1, n)[k] = t[k]
  BY <1>1, Cut
<1>4. \A k \in 1 .. n : SubSeq(s, 1, n)[k] = SubSeq(t, 1, n)[k]
  BY <1>2, <1>3, Zenon
<1> QED BY <1>2, <1>3, <1>4, Same, Zenon

\* Sequences that end the same have the same suffix.
LEMMA SameSuffix ==
  ASSUME NEW T, NEW s \in Seq(T), NEW t \in Seq(T), NEW a \in 0 .. Len(s), NEW b \in 0 .. Len(t),
         Len(s) - a = Len(t) - b, \A k \in 1 .. Len(s) - a : s[a + k] = t[b + k]
  PROVE  SubSeq(s, a + 1, Len(s)) = SubSeq(t, b + 1, Len(t))
<1> DEFINE x == SubSeq(s, a + 1, Len(s))
           y == SubSeq(t, b + 1, Len(t))
           n == Len(s) - a
<1>2. x \in Seq(T) /\ Len(x) = n /\ \A k \in 1 .. n : x[k] = s[a + k]
  BY Cut
<1>3. y \in Seq(T) /\ Len(y) = n /\ \A k \in 1 .. n : y[k] = t[b + k]
  BY Cut
<1> HIDE DEF x, y
<1>4. \A k \in 1 .. n : x[k] = y[k]
  BY <1>2, <1>3, Zenon
<1>5. x = y
  BY <1>2, <1>3, <1>4, Same, Zenon
<1> QED BY <1>5 DEF x, y

\* The symbols after a line.
Rest(lines, l) == Flatten(SubSeq(lines, l + 2, Len(lines)))

\* The symbols of lines are a sequence.
LEMMA FlatIn == ASSUME NEW T, NEW lines \in Seq(Seq(T)) PROVE Flatten(lines) \in Seq(T)
<1>1. <<>> \in Seq(T)
  OBVIOUS
<1> QED BY <1>1, FlatAppend

\* The symbols before a line, of the line, and after it.
LEMMA FlatAt ==
  ASSUME NEW T, NEW lines \in Seq(Seq(T)), NEW l \in Nat, l + 1 \in 1 .. Len(lines)
  PROVE  /\ Flatten(lines) = Upto(lines, l) \o (lines[l + 1] \o Rest(lines, l))
         /\ Upto(lines, l) \in Seq(T) /\ Rest(lines, l) \in Seq(T) /\ lines[l + 1] \in Seq(T)
         /\ Start(lines, l) = Len(Upto(lines, l))
<1> DEFINE a == SubSeq(lines, 1, l + 1)
           b == SubSeq(lines, (l + 1) + 1, Len(lines))
<1>1. l + 1 \in 0 .. Len(lines) /\ l \in 0 .. Len(lines) /\ (l + 1) - 1 = l /\ lines[l + 1] \in Seq(T) /\ (l + 1) + 1 = l + 2
  OBVIOUS
<1>2. a \in Seq(Seq(T)) /\ b \in Seq(Seq(T)) /\ a \o b = lines
  BY <1>1, Cut
<1>3. Flatten(a) = Upto(lines, l) \o lines[l + 1] /\ Upto(lines, l) \in Seq(T)
  <2>1. Upto(lines, l + 1) = Upto(lines, l) \o lines[l + 1] /\ Upto(lines, l) \in Seq(T)
    BY <1>1, Starts
  <2> QED BY <2>1 DEF Upto
<1>4. Rest(lines, l) = Flatten(b)
  BY <1>1 DEF Rest
<1> HIDE DEF a, b
<1>5. Flatten(lines) = Flatten(a) \o Flatten(b) /\ Flatten(b) \in Seq(T)
  BY <1>2, FlatConcat
<1>6. \A p, q, r \in Seq(T) : p \o (q \o r) = (p \o q) \o r
  BY Three
<1>7. Upto(lines, l) \o (lines[l + 1] \o Rest(lines, l)) = (Upto(lines, l) \o lines[l + 1]) \o Rest(lines, l)
  <2>1. PICK p \in Seq(T) : p = Upto(lines, l)
    BY <1>3
  <2>2. PICK q \in Seq(T) : q = lines[l + 1]
    BY <1>1
  <2>3. PICK r \in Seq(T) : r = Rest(lines, l)
    BY <1>4, <1>5
  <2>4. p \o (q \o r) = (p \o q) \o r
    BY Three
  <2> QED BY <2>1, <2>2, <2>3, <2>4, Zenon
<1> QED BY <1>1, <1>3, <1>4, <1>5, <1>7, Zenon DEF Start

\* Lines that agree up to one of them have the same symbols up to it.
LEMMA UptoSame ==
  ASSUME NEW T, NEW s \in Seq(Seq(T)), NEW t \in Seq(Seq(T)), NEW n \in Nat, n <= Len(s), n <= Len(t),
         \A k \in 1 .. n : s[k] = t[k]
  PROVE  Upto(s, n) = Upto(t, n) /\ Start(s, n) = Start(t, n)
<1>1. SubSeq(s, 1, n) = SubSeq(t, 1, n)
  BY SamePrefix
<1> QED BY <1>1, Zenon DEF Upto, Start

\* Setting one line.
LEMMA LineSet ==
  ASSUME NEW T, NEW lines \in Seq(Seq(T)), NEW l \in Nat, l + 1 \in 1 .. Len(lines), NEW y \in Seq(T)
  PROVE  LET new == SetLine(lines, l, y)
         IN  /\ new \in Seq(Seq(T)) /\ Len(new) = Len(lines) /\ new[l + 1] = y
             /\ \A j \in 1 .. Len(lines) : j # l + 1 => new[j] = lines[j]
             /\ Flatten(new) = Upto(lines, l) \o (y \o Rest(lines, l))
             /\ Start(new, l) = Start(lines, l)
<1> DEFINE new == SetLine(lines, l, y)
<1>1. /\ new \in Seq(Seq(T)) /\ Len(new) = Len(lines) /\ new[l + 1] = y
      /\ \A j \in 1 .. Len(lines) : j # l + 1 => new[j] = lines[j]
  BY DEF SetLine
<1> HIDE DEF new
<1>2. Upto(new, l) = Upto(lines, l) /\ Start(new, l) = Start(lines, l)
  <2>1. l <= Len(new) /\ l <= Len(lines) /\ \A k \in 1 .. l : new[k] = lines[k]
    BY <1>1
  <2> QED BY <1>1, <2>1, UptoSame
<1>3. Rest(new, l) = Rest(lines, l)
  <2>1. l + 1 \in 0 .. Len(lines) /\ (l + 1) + 1 = l + 2 /\ l + 1 \in 0 .. Len(new)
    BY <1>1
  <2>2. \A k \in 1 .. Len(new) - (l + 1) : new[(l + 1) + k] = lines[(l + 1) + k]
    <3> TAKE k \in 1 .. Len(new) - (l + 1)
    <3>1. (l + 1) + k \in 1 .. Len(lines) /\ (l + 1) + k # l + 1
      BY <1>1
    <3> QED BY <1>1, <3>1
  <2>3. SubSeq(new, (l + 1) + 1, Len(new)) = SubSeq(lines, (l + 1) + 1, Len(lines))
    BY <1>1, <2>1, <2>2, SameSuffix
  <2> QED BY <2>1, <2>3 DEF Rest
<1>4. Flatten(new) = Upto(new, l) \o (new[l + 1] \o Rest(new, l))
  BY <1>1, FlatAt
<1> QED BY <1>1, <1>2, <1>3, <1>4 DEF new

SetTo(T, lines, l, y, new) ==
  /\ new \in Seq(Seq(T)) /\ Len(new) = Len(lines) /\ new[l + 1] = y
  /\ \A j \in 1 .. Len(lines) : j # l + 1 => new[j] = lines[j]
  /\ Flatten(new) = Upto(lines, l) \o (y \o Rest(lines, l))
  /\ Start(new, l) = Start(lines, l)

\* The same, as one fact.
LEMMA LineIsSet ==
  ASSUME NEW T, NEW lines \in Seq(Seq(T)), NEW l \in Nat, l + 1 \in 1 .. Len(lines), NEW y \in Seq(T)
  PROVE  SetTo(T, lines, l, y, SetLine(lines, l, y))
BY LineSet DEF SetTo

\* A line split in two.
SplitTo(T, lines, l, h, t, new) ==
  /\ new \in Seq(Seq(T)) /\ Len(new) = Len(lines) + 1 /\ new[l + 1] = h /\ new[l + 2] = t
  /\ \A j \in 1 .. l : new[j] = lines[j]
  /\ \A j \in l + 2 .. Len(lines) : new[j + 1] = lines[j]
  /\ Flatten(new) = Upto(lines, l) \o ((h \o t) \o Rest(lines, l))
  /\ Start(new, l) = Start(lines, l)

\* The lines after a line was split.
LEMMA LineIsSplit ==
  ASSUME NEW T, NEW lines \in Seq(Seq(T)), NEW l \in Nat, l + 1 \in 1 .. Len(lines),
         NEW h \in Seq(T), NEW t \in Seq(T)
  PROVE  SplitTo(T, lines, l, h, t, SubSeq(lines, 1, l) \o <<h, t>> \o SubSeq(lines, l + 2, Len(lines)))
<1> DEFINE a == SubSeq(lines, 1, l)
           b == SubSeq(lines, (l + 1) + 1, Len(lines))
           m == <<h, t>>
           new == a \o m \o b
           H == a \o (m \o b)
<1>0. l + 1 \in 0 .. Len(lines) /\ l \in 0 .. Len(lines) /\ (l + 1) + 1 = l + 2 /\ Len(lines) \in Nat
  OBVIOUS
<1>1. a \in Seq(Seq(T)) /\ Len(a) = l /\ \A k \in 1 .. l : a[k] = lines[k]
  BY <1>0, Cut
<1>2. b \in Seq(Seq(T)) /\ Len(b) = Len(lines) - (l + 1) /\ \A k \in 1 .. Len(lines) - (l + 1) : b[k] = lines[(l + 1) + k]
  BY <1>0, Cut
<1>3. m \in Seq(Seq(T)) /\ Len(m) = 2 /\ m[1] = h /\ m[2] = t
  OBVIOUS
<1>4. Flatten(m) = h \o t
  BY FlatOne
<1>a. Flatten(a) = Upto(lines, l) /\ Flatten(b) = Rest(lines, l)
  BY <1>0 DEF Upto, Rest
<1> HIDE DEF a, b, m
<1>5. /\ H \in Seq(Seq(T)) /\ Len(H) = Len(a) + Len(m) + Len(b)
      /\ \A k \in 1 .. Len(a) : H[k] = a[k]
      /\ \A k \in 1 .. Len(m) : H[Len(a) + k] = m[k]
      /\ \A k \in 1 .. Len(b) : H[Len(a) + Len(m) + k] = b[k]
      /\ H = new
  <2>1. a \in Seq(Seq(T)) /\ m \in Seq(Seq(T)) /\ b \in Seq(Seq(T))
    BY <1>1, <1>2, <1>3
  <2>2. Threefold(Seq(T), a, m, b)
    BY <2>1, ThreeParts, Zenon
  <2>3. /\ H \in Seq(Seq(T)) /\ Len(H) = Len(a) + Len(m) + Len(b)
        /\ \A k \in 1 .. Len(a) : H[k] = a[k]
        /\ \A k \in 1 .. Len(m) : H[Len(a) + k] = m[k]
        /\ \A k \in 1 .. Len(b) : H[Len(a) + Len(m) + k] = b[k]
    BY <2>2, Zenon DEF Threefold
  <2>4. H = new
    BY <2>2, Zenon DEF Threefold
  <2> QED BY <2>3, <2>4, Zenon
<1>6. Flatten(H) = Upto(lines, l) \o ((h \o t) \o Rest(lines, l))
  <2>1. m \o b \in Seq(Seq(T))
    BY <1>2, <1>3, Both
  <2>2. Flatten(H) = Flatten(a) \o Flatten(m \o b)
    BY <1>1, <2>1, FlatConcat
  <2>3. Flatten(m \o b) = Flatten(m) \o Flatten(b)
    BY <1>2, <1>3, FlatConcat
  <2> QED BY <1>4, <1>a, <2>2, <2>3, Zenon
<1> HIDE DEF H
<1>7. H[l + 1] = h /\ H[l + 2] = t
  <2>1. 1 \in 1 .. Len(m) /\ 2 \in 1 .. Len(m)
    BY <1>3
  <2>2. H[Len(a) + 1] = m[1] /\ H[Len(a) + 2] = m[2]
    BY <1>5, <2>1
  <2> QED BY <1>1, <1>3, <2>2
<1>8. ASSUME NEW j \in l + 2 .. Len(lines) PROVE H[j + 1] = lines[j]
  <2>1. j - (l + 1) \in 1 .. Len(b) /\ Len(a) + Len(m) + (j - (l + 1)) = j + 1 /\ (l + 1) + (j - (l + 1)) = j
    BY <1>0, <1>1, <1>2, <1>3
  <2>2. H[j + 1] = b[j - (l + 1)]
    BY <1>5, <2>1
  <2> QED BY <1>2, <2>1, <2>2
<1>9. Len(H) = Len(lines) + 1
  BY <1>0, <1>1, <1>2, <1>3, <1>5
<1>10. \A j \in 1 .. l : H[j] = lines[j]
  BY <1>1, <1>5
<1>11. Start(H, l) = Start(lines, l)
  <2>1. l <= Len(H) /\ l <= Len(lines)
    BY <1>0, <1>9
  <2> QED BY <1>5, <1>10, <2>1, UptoSame
<1>12. new = SubSeq(lines, 1, l) \o <<h, t>> \o SubSeq(lines, l + 2, Len(lines))
  BY <1>0 DEF a, b, m
<1> HIDE DEF new
<1>13. SplitTo(T, lines, l, h, t, new)
  BY <1>5, <1>6, <1>7, <1>8, <1>9, <1>10, <1>11, Zenon DEF SplitTo
<1> QED BY <1>12, <1>13, Zenon

\* A line set, and the next one taken away.
JoinTo(T, lines, l, x, R, new) ==
  /\ new \in Seq(Seq(T)) /\ Len(new) = Len(lines) - 1 /\ new[l + 1] = x \o lines[l + 2]
  /\ \A j \in 1 .. l : new[j] = lines[j]
  /\ \A j \in l + 2 .. Len(lines) - 1 : new[j] = lines[j + 1]
  /\ R \in Seq(T) /\ Flatten(new) = Upto(lines, l) \o (x \o R)
  /\ Flatten(lines) = Upto(lines, l) \o (lines[l + 1] \o R)
  /\ Start(new, l) = Start(lines, l)

\* The lines after a line was joined with the next.
LEMMA LineIsJoined ==
  ASSUME NEW T, NEW lines \in Seq(Seq(T)), NEW l \in Nat, l + 1 \in 1 .. Len(lines), l + 1 < Len(lines), NEW x \in Seq(T)
  PROVE  JoinTo(T, lines, l, x, lines[l + 2] \o Rest(lines, l + 1),
                RemoveAt(SetLine(lines, l, x \o lines[l + 2]), l + 2))
<1> DEFINE z == lines[l + 2]
           y == x \o z
           mid == SetLine(lines, l, y)
           new == RemoveAt(mid, l + 2)
           R2 == Rest(lines, l + 1)
<1>0. /\ l + 1 \in Nat /\ (l + 1) + 1 = l + 2 /\ l + 2 \in 1 .. Len(lines) /\ z \in Seq(T) /\ Len(lines) \in Nat
      /\ (l + 2) - 1 = l + 1 /\ (l + 1) + 1 + 1 = l + 3 /\ (l + 1) + 2 = l + 3 /\ (l + 2) + 1 = l + 3
  OBVIOUS
<1>1. y \in Seq(T)
  BY <1>0, Both
<1> HIDE DEF y, z
<1>2. /\ mid \in Seq(Seq(T)) /\ Len(mid) = Len(lines) /\ mid[l + 1] = y
      /\ \A j \in 1 .. Len(lines) : j # l + 1 => mid[j] = lines[j]
  <2> HIDE DEF new, R2
  <2>1. y \in Seq(T) /\ l \in Nat /\ l + 1 \in 1 .. Len(lines)
    BY <1>1
  <2>2. SetTo(T, lines, l, y, mid)
    BY <2>1, LineIsSet, Zenon
  <2> QED BY <2>2, Zenon DEF SetTo
<1> HIDE DEF mid
<1>3. new \in Seq(Seq(T)) /\ ShrunkBy(mid, l + 1, 1, new)
  <2>1. (l + 1) + 1 <= Len(mid)
    BY <1>0, <1>2
  <2>2. LET G == SubSeq(mid, 1, l + 1) \o SubSeq(mid, (l + 1) + 1 + 1, Len(mid)) IN G \in Seq(Seq(T)) /\ ShrunkBy(mid, l + 1, 1, G)
    BY <1>0, <1>2, <2>1, TakenOut
  <2>3. new = SubSeq(mid, 1, l + 1) \o SubSeq(mid, (l + 1) + 1 + 1, Len(mid))
    BY <1>0 DEF RemoveAt
  <2> QED BY <2>2, <2>3
<1> HIDE DEF new
<1>4. /\ Len(new) = Len(lines) - 1
      /\ \A k \in 1 .. l + 1 : new[k] = mid[k]
      /\ \A k \in (l + 1) + 1 .. Len(lines) - 1 : new[k] = mid[k + 1]
  BY <1>2, <1>3 DEF ShrunkBy
<1>5. new[l + 1] = y
  BY <1>2, <1>4
<1>6. \A j \in 1 .. l : new[j] = lines[j]
  <2> TAKE j \in 1 .. l
  <2>1. j \in 1 .. l + 1 /\ j \in 1 .. Len(lines) /\ j # l + 1
    BY <1>0
  <2> QED BY <1>2, <1>4, <2>1
<1>7. \A j \in l + 2 .. Len(lines) - 1 : new[j] = lines[j + 1]
  <2> TAKE j \in l + 2 .. Len(lines) - 1
  <2>1. j \in (l + 1) + 1 .. Len(lines) - 1 /\ j + 1 \in 1 .. Len(lines) /\ j + 1 # l + 1
    BY <1>0
  <2> QED BY <1>2, <1>4, <2>1
<1>8. Upto(new, l) = Upto(lines, l) /\ Start(new, l) = Start(lines, l)
  <2>1. l <= Len(new) /\ l <= Len(lines)
    BY <1>0, <1>4
  <2> QED BY <1>3, <1>6, <2>1, UptoSame
<1>9. Rest(new, l) = R2
  <2>1. l + 1 \in 0 .. Len(new) /\ l + 2 \in 0 .. Len(lines) /\ Len(new) - (l + 1) = Len(lines) - (l + 2)
    BY <1>0, <1>4
  <2>2. \A k \in 1 .. Len(new) - (l + 1) : new[(l + 1) + k] = lines[(l + 2) + k]
    <3> TAKE k \in 1 .. Len(new) - (l + 1)
    <3>1. (l + 1) + k \in l + 2 .. Len(lines) - 1 /\ ((l + 1) + k) + 1 = (l + 2) + k
      BY <1>0, <1>4
    <3> QED BY <1>7, <3>1
  <2>3. SubSeq(new, (l + 1) + 1, Len(new)) = SubSeq(lines, (l + 2) + 1, Len(lines))
    BY <1>3, <2>1, <2>2, SameSuffix
  <2>4. SubSeq(new, l + 2, Len(new)) = SubSeq(lines, (l + 1) + 2, Len(lines))
    BY <1>0, <2>3
  <2> QED BY <2>4, Zenon DEF Rest
<1>10. Flatten(new) = Upto(new, l) \o (new[l + 1] \o Rest(new, l))
  <2>1. l + 1 \in 1 .. Len(new)
    BY <1>0, <1>4
  <2> QED BY <1>3, <2>1, FlatAt
<1>11. /\ Flatten(lines) = Upto(lines, l) \o (lines[l + 1] \o Rest(lines, l))
       /\ Upto(lines, l) \in Seq(T) /\ Rest(lines, l) \in Seq(T) /\ lines[l + 1] \in Seq(T)
  BY FlatAt
<1>12. Rest(lines, l) = z \o R2 /\ R2 \in Seq(T)
  <2> DEFINE b == SubSeq(lines, l + 2, Len(lines))
             c == SubSeq(lines, l + 3, Len(lines))
  <2>1. b \in Seq(Seq(T)) /\ Len(b) = Len(lines) - (l + 1) /\ \A k \in 1 .. Len(lines) - (l + 1) : b[k] = lines[(l + 1) + k]
    <3>1. l + 1 \in 0 .. Len(lines)
      BY <1>0
    <3>2. LET r == SubSeq(lines, (l + 1) + 1, Len(lines))
          IN  r \in Seq(Seq(T)) /\ Len(r) = Len(lines) - (l + 1) /\ \A k \in 1 .. Len(lines) - (l + 1) : r[k] = lines[(l + 1) + k]
      BY <3>1, Cut
    <3> QED BY <1>0, <3>2
  <2>2. c \in Seq(Seq(T)) /\ Len(c) = Len(lines) - (l + 2) /\ \A k \in 1 .. Len(lines) - (l + 2) : c[k] = lines[(l + 2) + k]
    <3>1. l + 2 \in 0 .. Len(lines)
      BY <1>0
    <3>2. LET r == SubSeq(lines, (l + 2) + 1, Len(lines))
          IN  r \in Seq(Seq(T)) /\ Len(r) = Len(lines) - (l + 2) /\ \A k \in 1 .. Len(lines) - (l + 2) : r[k] = lines[(l + 2) + k]
      BY <3>1, Cut
    <3> QED BY <1>0, <3>2
  <2>3. Rest(lines, l) = Flatten(b) /\ R2 = Flatten(c)
    BY <1>0 DEF Rest
  <2> HIDE DEF b, c, R2
  <2>4. <<z>> \in Seq(Seq(T)) /\ Len(<<z>>) = 1 /\ <<z>>[1] = z
    BY <1>0
  <2> DEFINE d == <<z>> \o c
  <2>5. d \in Seq(Seq(T)) /\ Len(d) = 1 + Len(c) /\ d[1] = z /\ \A k \in 1 .. Len(c) : d[1 + k] = c[k]
    <3>1. /\ d \in Seq(Seq(T)) /\ Len(d) = Len(<<z>>) + Len(c) /\ \A k \in 1 .. Len(<<z>>) : d[k] = <<z>>[k]
          /\ \A k \in 1 .. Len(c) : d[Len(<<z>>) + k] = c[k]
      BY <2>2, <2>4, Both
    <3>2. 1 \in 1 .. Len(<<z>>)
      BY <2>4
    <3>3. d[1] = z
      BY <2>4, <3>1, <3>2, Zenon
    <3> QED BY <2>4, <3>1, <3>3, Zenon
  <2>6. Flatten(d) = z \o Flatten(c)
    <3>1. Flatten(d) = Flatten(<<z>>) \o Flatten(c)
      BY <2>2, <2>4, FlatConcat
    <3>2. Flatten(<<z>>) = z
      BY <1>0, FlatOne
    <3> QED BY <3>1, <3>2
  <2> HIDE DEF d
  <2>7. \A k \in 1 .. Len(b) : b[k] = d[k]
    <3> TAKE k \in 1 .. Len(b)
    <3>1. CASE k = 1
      <4>1. b[1] = lines[(l + 1) + 1]
        BY <2>1, <3>1
      <4> QED BY <1>0, <2>5, <3>1, <4>1 DEF z
    <3>2. CASE k # 1
      <4>1. k - 1 \in 1 .. Len(c) /\ 1 + (k - 1) = k /\ (l + 2) + (k - 1) = (l + 1) + k /\ k \in 1 .. Len(lines) - (l + 1)
        BY <1>0, <2>1, <2>2, <3>2
      <4>2. d[k] = c[k - 1]
        BY <2>5, <4>1
      <4>3. c[k - 1] = lines[(l + 1) + k]
        BY <2>2, <4>1
      <4> QED BY <2>1, <4>1, <4>2, <4>3
    <3> QED BY <3>1, <3>2
  <2>8. b = d
    <3>1. Len(b) = Len(d)
      BY <1>0, <2>1, <2>2, <2>5
    <3> QED BY <2>1, <2>5, <2>7, <3>1, Same
  <2>9. Flatten(c) \in Seq(T)
    BY <2>2, FlatIn
  <2> QED BY <2>3, <2>6, <2>8, <2>9
<1>13. (x \o z) \o R2 = x \o (z \o R2) /\ z \o R2 \in Seq(T)
  <2>1. PICK q \in Seq(T) : q = z
    BY <1>0
  <2>2. PICK r \in Seq(T) : r = R2
    BY <1>12
  <2>3. q \o r \in Seq(T)
    BY Both
  <2>4. (x \o q) \o r = x \o (q \o r)
    BY Three
  <2> QED BY <2>1, <2>2, <2>3, <2>4, Zenon
<1>14. Flatten(new) = Upto(lines, l) \o (x \o (z \o R2))
  BY <1>5, <1>8, <1>9, <1>10, <1>13, Zenon DEF y
<1>15. Flatten(lines) = Upto(lines, l) \o (lines[l + 1] \o (z \o R2))
  BY <1>11, <1>12, Zenon
<1>16. JoinTo(T, lines, l, x, z \o R2, new)
  <2> HIDE DEF R2
  <2>1. new[l + 1] = x \o lines[l + 2]
    BY <1>5, Zenon DEF y, z
  <2>2. Len(new) = Len(lines) - 1 /\ new \in Seq(Seq(T)) /\ z \o R2 \in Seq(T)
    BY <1>3, <1>4, <1>13, Zenon
  <2> QED BY <2>1, <2>2, <1>6, <1>7, <1>8, <1>14, <1>15, Zenon DEF JoinTo
<1> QED BY <1>16, Zenon DEF new, mid, y, z, R2

\* What insertChar makes of the lines: the symbol is in its place, and the next
\* place is the one after it.
Inserted(lines, s, l, i, new) ==
  /\ Shape(new)
  /\ GrownBy(Flatten(lines), Start(lines, l) + i, <<s>>, Flatten(new))
  /\ s.val = NL => AtPlace(new, Place(l + 1, 0), Start(lines, l) + i + 1)
  /\ s.val # NL => AtPlace(new, Place(l, i + 1), Start(lines, l) + i + 1)

\* insertChar puts a symbol in its place.
LEMMA InsertedChar ==
  ASSUME NEW lines, Shape(lines), NEW s \in SymbolType, NEW l \in Nat, NEW i \in Nat,
         l + 1 \in 1 .. Len(lines), i + 1 \in 1 .. Len(lines[l + 1])
  PROVE  Inserted(lines, s, l, i, insertChar(lines, s, l, i))
<1> DEFINE n == Len(lines)
           line == lines[l + 1]
           head == SubSeq(line, 1, i)
           tail == SubSeq(line, i + 1, Len(line))
           P == Upto(lines, l)
           R == Rest(lines, l)
           new == insertChar(lines, s, l, i)
           F == Flatten(lines)
<1>0. /\ lines \in Seq(Seq(SymbolType)) /\ n \in Nat /\ n > 0 /\ \A j \in 1 .. n : Len(lines[j]) > 0
      /\ \A j \in 1 .. n : \A k \in 1 .. Len(lines[j]) : lines[j][k].val = NL <=> (j < n /\ k = Len(lines[j]))
  BY DEF Shape
<1>1. line \in Seq(SymbolType) /\ Len(line) \in Nat /\ i \in 0 .. Len(line) /\ l + 1 \in 1 .. n /\ l + 1 <= n /\ i + 1 <= Len(line)
  BY <1>0, LineIn
<1>2. /\ F = P \o (line \o R) /\ P \in Seq(SymbolType) /\ R \in Seq(SymbolType)
      /\ Start(lines, l) = Len(P) /\ Len(P) \in Nat
  <2>1. /\ F = P \o (line \o R) /\ P \in Seq(SymbolType) /\ R \in Seq(SymbolType)
        /\ Start(lines, l) = Len(P)
    BY <1>0, FlatAt
  <2> QED BY <2>1
<1>3. /\ head \in Seq(SymbolType) /\ Len(head) = i /\ \A k \in 1 .. i : head[k] = line[k]
      /\ tail \in Seq(SymbolType) /\ Len(tail) = Len(line) - i /\ \A k \in 1 .. Len(line) - i : tail[k] = line[i + k]
  BY <1>1, Cut
<1>4. <<s>> \in Seq(SymbolType) /\ Len(<<s>>) = 1 /\ <<s>>[1] = s
  OBVIOUS
<1> DEFINE y == head \o <<s>> \o tail
<1>5. y \in Seq(SymbolType) /\ GrownBy(line, i, <<s>>, y)
  BY <1>1, <1>4, PutIn
<1>6. /\ Len(y) = Len(line) + 1 /\ \A k \in 1 .. i : y[k] = line[k]
      /\ y[i + 1] = s /\ \A k \in i + 1 .. Len(line) : y[k + 1] = line[k]
  <2> HIDE DEF y
  <2>1. 1 \in 1 .. Len(<<s>>)
    BY <1>4
  <2>2. y[i + 1] = s
    BY <1>4, <1>5, <2>1 DEF GrownBy
  <2> QED BY <1>4, <1>5, <2>2 DEF GrownBy
<1>7. GrownBy(P \o (line \o R), Len(P) + i, <<s>>, P \o (y \o R))
  <2> HIDE DEF y, line, P, R
  <2> QED BY <1>1, <1>2, <1>4, <1>5, GrownInside
<1>8. CASE s.val # NL
  <2>1. new = SetLine(lines, l, y)
    BY <1>8, Zenon DEF insertChar
  <2> HIDE DEF y
  <2>2. SetTo(SymbolType, lines, l, y, new)
    BY <1>0, <1>1, <1>5, <2>1, LineIsSet
  <2> HIDE DEF new
  <2>3. /\ new \in Seq(Seq(SymbolType)) /\ Len(new) = n /\ new[l + 1] = y
        /\ \A j \in 1 .. n : j # l + 1 => new[j] = lines[j]
        /\ Flatten(new) = P \o (y \o R)
        /\ Start(new, l) = Start(lines, l)
    BY <2>2 DEF SetTo
  <2>4. ASSUME NEW k \in 1 .. Len(y) PROVE y[k].val = NL <=> (l + 1 < n /\ k = Len(y))
    <3>1. CASE k <= i
      <4>1. k \in 1 .. i /\ k \in 1 .. Len(line) /\ k # Len(line) /\ k # Len(y)
        BY <1>1, <1>6, <3>1
      <4> QED BY <1>0, <1>1, <1>6, <4>1
    <3>2. CASE k = i + 1
      BY <1>1, <1>6, <1>8, <3>2
    <3>3. CASE k > i + 1
      <4>1. k - 1 \in i + 1 .. Len(line) /\ k - 1 \in 1 .. Len(line) /\ (k - 1) + 1 = k
        BY <1>1, <1>6, <3>3
      <4>2. y[k] = line[k - 1]
        BY <1>6, <4>1
      <4>3. line[k - 1].val = NL <=> (l + 1 < n /\ k - 1 = Len(line))
        BY <1>0, <1>1, <4>1
      <4> QED BY <1>1, <1>6, <4>2, <4>3
    <3> QED BY <1>1, <3>1, <3>2, <3>3
  <2>5. Shape(new)
    <3>0. Len(y) > 0
      BY <1>1, <1>6
    <3>1. \A j \in 1 .. n : Len(new[j]) > 0
      <4> TAKE j \in 1 .. n
      <4> HIDE DEF n, line
      <4> QED BY <1>0, <2>3, <3>0, Zenon
    <3>2. \A j \in 1 .. n : \A k \in 1 .. Len(new[j]) : new[j][k].val = NL <=> (j < n /\ k = Len(new[j]))
      <4> TAKE j \in 1 .. n
      <4>1. CASE j = l + 1
        BY <2>3, <2>4, <4>1
      <4>2. CASE j # l + 1
        <5>1. new[j] = lines[j]
          BY <2>3, <4>2
        <5> QED BY <1>0, <5>1
      <4> QED BY <4>1, <4>2
    <3> QED BY <1>0, <2>3, <3>1, <3>2 DEF Shape
  <2>6. AtPlace(new, Place(l, i + 1), Start(lines, l) + i + 1)
    <3>1. (i + 1) + 1 \in 1 .. Len(new[l + 1]) /\ l + 1 \in 1 .. Len(new)
      BY <1>1, <1>6, <2>3
    <3>2. Start(new, l) + (i + 1) = Start(lines, l) + i + 1
      BY <1>2, <2>3
    <3> QED BY <3>1, <3>2 DEF AtPlace, Place
  <2>7. GrownBy(F, Start(lines, l) + i, <<s>>, Flatten(new))
    BY <1>2, <1>7, <2>3
  <2> QED BY <1>8, <2>5, <2>6, <2>7 DEF Inserted, new, F
<1>9. CASE s.val = NL
  <2> DEFINE h == Append(head, s)
  <2>1. new = SubSeq(lines, 1, l) \o <<h, tail>> \o SubSeq(lines, l + 2, Len(lines))
    BY <1>9, Zenon DEF insertChar
  <2>2. /\ h = head \o <<s>> /\ h \in Seq(SymbolType) /\ Len(h) = i + 1 /\ h[i + 1] = s /\ \A k \in 1 .. i : h[k] = head[k]
    <3> HIDE DEF head
    <3> QED BY <1>3, OneMore
  <2>3. h \o tail = y
    BY <2>2, Zenon
  <2> HIDE DEF h, tail, y, head, line, new
  <2>4. /\ new \in Seq(Seq(SymbolType)) /\ Len(new) = n + 1 /\ new[l + 1] = h /\ new[l + 2] = tail
        /\ \A j \in 1 .. l : new[j] = lines[j]
        /\ \A j \in l + 2 .. n : new[j + 1] = lines[j]
        /\ Flatten(new) = P \o ((h \o tail) \o R)
        /\ Start(new, l) = Start(lines, l)
    <3>1. SplitTo(SymbolType, lines, l, h, tail, new)
      <4>1. h \in Seq(SymbolType) /\ tail \in Seq(SymbolType) /\ lines \in Seq(Seq(SymbolType))
        BY <1>0, <1>3, <2>2
      <4> QED BY <2>1, <4>1, LineIsSplit, Zenon
    <3> QED BY <3>1, Zenon DEF SplitTo
  <2>5. ASSUME NEW k \in 1 .. Len(h) PROVE h[k].val = NL <=> k = Len(h)
    <3>1. CASE k <= i
      <4>1. k \in 1 .. i /\ k \in 1 .. Len(line) /\ k # Len(line) /\ k # Len(h)
        BY <1>1, <2>2, <3>1
      <4>2. h[k] = line[k]
        BY <1>3, <2>2, <4>1
      <4>3. line[k].val = NL <=> (l + 1 < n /\ k = Len(line))
        BY <1>0, <1>1, <4>1 DEF line
      <4> QED BY <4>1, <4>2, <4>3
    <3>2. CASE k = i + 1
      BY <1>9, <2>2, <3>2
    <3> QED BY <2>2, <3>1, <3>2
  <2>6. ASSUME NEW k \in 1 .. Len(tail) PROVE tail[k].val = NL <=> (l + 2 < n + 1 /\ k = Len(tail))
    <3>1. i + k \in 1 .. Len(line) /\ k \in 1 .. Len(line) - i
      BY <1>1, <1>3
    <3>2. tail[k] = line[i + k]
      BY <1>3, <3>1
    <3>3. line[i + k].val = NL <=> (l + 1 < n /\ i + k = Len(line))
      BY <1>0, <1>1, <3>1 DEF line
    <3> QED BY <1>0, <1>1, <1>3, <3>2, <3>3
  <2>7. Shape(new)
    <3>1. ASSUME NEW j \in 1 .. n + 1
          PROVE  Len(new[j]) > 0 /\ \A k \in 1 .. Len(new[j]) : new[j][k].val = NL <=> (j < n + 1 /\ k = Len(new[j]))
      <4>1. CASE j <= l
        <5>1. j \in 1 .. l /\ j \in 1 .. n /\ j < n /\ j < n + 1
          BY <1>0, <1>1, <4>1
        <5>2. new[j] = lines[j]
          BY <2>4, <5>1
        <5> QED BY <1>0, <5>1, <5>2
      <4>2. CASE j = l + 1
        <5>1. j < n + 1
          BY <1>0, <1>1, <4>2
        <5>2. new[j] = h
          BY <2>4, <4>2, Zenon
        <5>3. Len(h) > 0
          <6>1. Len(h) = i + 1
            BY <2>2, Zenon
          <6> QED BY <6>1
        <5> QED BY <2>5, <5>1, <5>2, <5>3
      <4>3. CASE j = l + 2
        <5>1. Len(tail) > 0
          BY <1>1, <1>3
        <5> QED BY <2>4, <2>6, <4>3, <5>1
      <4>4. CASE j > l + 2
        <5>1. j - 1 \in l + 2 .. n /\ j - 1 \in 1 .. n /\ (j - 1) + 1 = j
          BY <1>0, <4>4
        <5>2. new[j] = lines[j - 1]
          BY <2>4, <5>1
        <5>3. Len(lines[j - 1]) > 0 /\ \A k \in 1 .. Len(lines[j - 1]) : lines[j - 1][k].val = NL <=> (j - 1 < n /\ k = Len(lines[j - 1]))
          BY <1>0, <5>1
        <5>4. j - 1 < n <=> j < n + 1
          BY <1>0
        <5> QED BY <5>2, <5>3, <5>4
      <4> QED BY <4>1, <4>2, <4>3, <4>4
    <3> HIDE DEF n
    <3> QED BY <1>0, <2>4, <3>1 DEF Shape
  <2>8. AtPlace(new, Place(l + 1, 0), Start(lines, l) + i + 1)
    <3>1. Start(new, l + 1) = Start(new, l) + Len(new[l + 1])
      <4>1. l + 1 \in 1 .. Len(new) /\ (l + 1) - 1 = l
        BY <1>0, <1>1, <2>4
      <4> QED BY <2>4, <4>1, Starts
    <3>2. Start(new, l + 1) + 0 = Start(lines, l) + i + 1
      <4>1. Len(new[l + 1]) = i + 1 /\ Start(new, l) = Start(lines, l) /\ Start(lines, l) \in Nat
        BY <1>2, <2>2, <2>4, Zenon
      <4> QED BY <3>1, <4>1
    <3>3. (l + 1) + 1 \in 1 .. Len(new) /\ 0 + 1 \in 1 .. Len(new[(l + 1) + 1])
      <4>1. (l + 1) + 1 = l + 2
        OBVIOUS
      <4> QED BY <1>0, <1>1, <1>3, <2>4, <4>1
    <3> QED BY <3>2, <3>3 DEF AtPlace, Place
  <2>9. GrownBy(F, Start(lines, l) + i, <<s>>, Flatten(new))
    BY <1>2, <1>7, <2>3, <2>4
  <2> QED BY <1>9, <2>7, <2>8, <2>9 DEF Inserted, new, F
<1> QED BY <1>8, <1>9

\* What is left when a symbol goes that is not the last one: the place is the one
\* of the symbol that was after it.
Erased(lines, l, i, new) ==
  /\ Shape(new)
  /\ ShrunkBy(Flatten(lines), Start(lines, l) + i, 1, Flatten(new))
  /\ AtPlace(new, Place(l, i), Start(lines, l) + i)

\* Erasing a symbol leaves the others.
LEMMA ErasedSymbol ==
  ASSUME NEW lines, Shape(lines), NEW l \in Nat, NEW i \in Nat,
         l + 1 \in 1 .. Len(lines), i + 1 \in 1 .. Len(lines[l + 1]),
         l + 1 < Len(lines) \/ i + 1 < Len(lines[l + 1])
  PROVE  Erased(lines, l, i, EraseSymbol(lines, l, i, lines[l + 1][i + 1].val = NL))
<1> DEFINE n == Len(lines)
           line == lines[l + 1]
           nl == line[i + 1].val = NL
           x == RemoveAt(line, i + 1)
           P == Upto(lines, l)
           new == EraseSymbol(lines, l, i, nl)
           F == Flatten(lines)
<1>0. /\ lines \in Seq(Seq(SymbolType)) /\ n \in Nat /\ n > 0 /\ \A j \in 1 .. n : Len(lines[j]) > 0
      /\ \A j \in 1 .. n : \A k \in 1 .. Len(lines[j]) : lines[j][k].val = NL <=> (j < n /\ k = Len(lines[j]))
  BY DEF Shape
<1>1. line \in Seq(SymbolType) /\ Len(line) \in Nat /\ i \in 0 .. Len(line) /\ l + 1 \in 1 .. n /\ l + 1 <= n /\ i + 1 <= Len(line)
  BY <1>0, LineIn
<1>2. /\ F = P \o (line \o Rest(lines, l)) /\ P \in Seq(SymbolType) /\ Rest(lines, l) \in Seq(SymbolType)
      /\ Start(lines, l) = Len(P) /\ Len(P) \in Nat
  <2>1. /\ F = P \o (line \o Rest(lines, l)) /\ P \in Seq(SymbolType) /\ Rest(lines, l) \in Seq(SymbolType)
        /\ Start(lines, l) = Len(P)
    BY <1>0, FlatAt
  <2> QED BY <2>1
<1>3. x \in Seq(SymbolType) /\ ShrunkBy(line, i, 1, x)
  <2>1. LET G == SubSeq(line, 1, i) \o SubSeq(line, i + 1 + 1, Len(line)) IN G \in Seq(SymbolType) /\ ShrunkBy(line, i, 1, G)
    <3> HIDE DEF line
    <3> QED BY <1>1, TakenOut
  <2>2. x = SubSeq(line, 1, i) \o SubSeq(line, i + 1 + 1, Len(line))
    <3>1. (i + 1) - 1 = i
      OBVIOUS
    <3> HIDE DEF line
    <3> QED BY <3>1, Zenon DEF RemoveAt
  <2> QED BY <2>1, <2>2
<1>4. /\ Len(x) = Len(line) - 1 /\ \A k \in 1 .. i : x[k] = line[k]
      /\ \A k \in i + 1 .. Len(line) - 1 : x[k] = line[k + 1]
  BY <1>3 DEF ShrunkBy
<1> HIDE DEF x
<1>l. nl <=> (l + 1 < n /\ i + 1 = Len(line))
  BY <1>0, <1>1
<1>5. CASE nl
  <2> DEFINE z == lines[l + 2]
             R == z \o Rest(lines, l + 1)
  <2>0. l + 1 < n /\ i + 1 = Len(line) /\ l + 2 \in 1 .. n
    BY <1>5, <1>l, <1>0
  <2>1. new = RemoveAt(SetLine(lines, l, x \o lines[l + 2]), l + 2)
    <3>1. nl /\ l + 1 < Len(lines)
      BY <1>5, <2>0
    <3> HIDE DEF nl
    <3> QED BY <3>1, Zenon DEF EraseSymbol, x, line, new
  <2> HIDE DEF nl, new
  <2>2. /\ new \in Seq(Seq(SymbolType)) /\ Len(new) = n - 1 /\ new[l + 1] = x \o z
        /\ \A j \in 1 .. l : new[j] = lines[j]
        /\ \A j \in l + 2 .. n - 1 : new[j] = lines[j + 1]
        /\ R \in Seq(SymbolType) /\ Flatten(new) = P \o (x \o R)
        /\ F = P \o (line \o R)
        /\ Start(new, l) = Start(lines, l)
    <3>1. JoinTo(SymbolType, lines, l, x, z \o Rest(lines, l + 1), new)
      <4>1. l + 1 < Len(lines) /\ lines \in Seq(Seq(SymbolType)) /\ x \in Seq(SymbolType)
        BY <1>0, <1>3, <2>0
      <4>2. l + 1 \in 1 .. Len(lines)
        OBVIOUS
      <4> HIDE DEF n, line, P
      <4> QED BY <2>1, <4>1, <4>2, LineIsJoined, Zenon
    <3> QED BY <3>1, Zenon DEF JoinTo
  <2>3. ShrunkBy(P \o (line \o R), Len(P) + i, 1, P \o (x \o R))
    <3> HIDE DEF R, P, line
    <3> QED BY <1>1, <1>2, <1>3, <2>2, ShrunkInside
  <2>z. z \in Seq(SymbolType) /\ Len(z) \in Nat /\ Len(z) > 0
    BY <1>0, <2>0, LineIn
  <2> HIDE DEF R
  <2>4. /\ Len(x \o z) = Len(x) + Len(z) /\ \A k \in 1 .. Len(x) : (x \o z)[k] = x[k]
        /\ \A k \in 1 .. Len(z) : (x \o z)[Len(x) + k] = z[k]
    <3> HIDE DEF z
    <3> QED BY <1>3, <2>z, Both
  <2>l. Len(new) = n - 1
    BY <2>2, Zenon
  <2>s. Len(new[l + 1]) = i + Len(z) /\ Len(x) = i
    <3>1. Len(new[l + 1]) = Len(x) + Len(z) /\ Len(x) = Len(line) - 1
      BY <1>4, <2>2, <2>4, Zenon
    <3> HIDE DEF z, line
    <3> QED BY <1>1, <2>0, <2>z, <3>1
  <2>5. ASSUME NEW k \in 1 .. Len(new[l + 1]) PROVE new[l + 1][k].val = NL <=> (l + 1 < n - 1 /\ k = Len(new[l + 1]))
    <3>1. CASE k <= Len(x)
      <4>1. k \in 1 .. Len(x) /\ k \in 1 .. i /\ k \in 1 .. Len(line) /\ k # Len(line)
        BY <1>1, <1>4, <2>0, <3>1
      <4>2. new[l + 1][k] = line[k]
        BY <1>4, <2>2, <2>4, <4>1
      <4>3. ~(line[k].val = NL)
        BY <1>0, <1>1, <4>1
      <4>4. k # Len(new[l + 1])
        BY <2>s, <2>z, <4>1
      <4> QED BY <4>2, <4>3, <4>4
    <3>2. CASE k > Len(x)
      <4>1. k - Len(x) \in 1 .. Len(z) /\ Len(x) + (k - Len(x)) = k
        BY <2>s, <2>z, <3>2
      <4>2. new[l + 1][k] = z[k - Len(x)]
        BY <2>2, <2>4, <4>1
      <4>3. z[k - Len(x)].val = NL <=> (l + 2 < n /\ k - Len(x) = Len(z))
        BY <1>0, <2>0, <4>1
      <4>4. (l + 2 < n <=> l + 1 < n - 1) /\ (k - Len(x) = Len(z) <=> k = Len(new[l + 1]))
        BY <1>0, <2>s, <2>z
      <4> QED BY <4>2, <4>3, <4>4
    <3>3. Len(x) \in Nat
      BY <1>3
    <3> QED BY <3>1, <3>2, <3>3
  <2>6. Shape(new)
    <3>1. ASSUME NEW j \in 1 .. n - 1
          PROVE  Len(new[j]) > 0 /\ \A k \in 1 .. Len(new[j]) : new[j][k].val = NL <=> (j < n - 1 /\ k = Len(new[j]))
      <4>1. CASE j <= l
        <5>1. j \in 1 .. l /\ j \in 1 .. n /\ j < n /\ j < n - 1
          BY <1>0, <1>1, <2>0, <4>1
        <5>2. new[j] = lines[j]
          BY <2>2, <5>1
        <5> QED BY <1>0, <5>1, <5>2
      <4>2. CASE j = l + 1
        <5>1. Len(new[l + 1]) > 0
          BY <2>s, <2>z
        <5> QED BY <2>5, <4>2, <5>1
      <4>3. CASE j >= l + 2
        <5>1. j \in l + 2 .. n - 1 /\ j + 1 \in 1 .. n
          BY <1>0, <4>3
        <5>2. new[j] = lines[j + 1]
          BY <2>2, <5>1
        <5>3. Len(lines[j + 1]) > 0 /\ \A k \in 1 .. Len(lines[j + 1]) : lines[j + 1][k].val = NL <=> (j + 1 < n /\ k = Len(lines[j + 1]))
          BY <1>0, <5>1
        <5>4. j + 1 < n <=> j < n - 1
          BY <1>0
        <5> QED BY <5>2, <5>3, <5>4
      <4> QED BY <4>1, <4>2, <4>3
    <3>2. n - 1 > 0
      BY <1>0, <2>0
    <3> HIDE DEF n
    <3> QED BY <2>2, <3>1, <3>2 DEF Shape
  <2>7. AtPlace(new, Place(l, i), Start(lines, l) + i)
    <3>1. i + 1 \in 1 .. Len(new[l + 1]) /\ l + 1 \in 1 .. Len(new)
      BY <1>0, <1>1, <2>0, <2>s, <2>z, <2>l
    <3> QED BY <2>2, <3>1 DEF AtPlace, Place
  <2>8. ShrunkBy(F, Start(lines, l) + i, 1, Flatten(new))
    BY <1>2, <2>2, <2>3
  <2> QED BY <2>6, <2>7, <2>8 DEF Erased, new, F, nl, line
<1>6. CASE ~nl
  <2>1. new = SetLine(lines, l, x)
    <3> HIDE DEF nl
    <3> QED BY <1>6, Zenon DEF EraseSymbol, x, line, new
  <2>2. SetTo(SymbolType, lines, l, x, new)
    <3> HIDE DEF new
    <3> QED BY <1>0, <1>1, <1>3, <2>1, LineIsSet
  <2> HIDE DEF new
  <2>3. /\ new \in Seq(Seq(SymbolType)) /\ Len(new) = n /\ new[l + 1] = x
        /\ \A j \in 1 .. n : j # l + 1 => new[j] = lines[j]
        /\ Flatten(new) = P \o (x \o Rest(lines, l))
        /\ Start(new, l) = Start(lines, l)
    BY <2>2 DEF SetTo
  <2>4. i + 1 < Len(line)
    <3>1. i + 1 # Len(line)
      BY <1>6, <1>l, <1>0, <1>1
    <3> QED BY <1>1, <3>1
  <2>5. ShrunkBy(F, Start(lines, l) + i, 1, Flatten(new))
    <3>1. ShrunkBy(P \o (line \o Rest(lines, l)), Len(P) + i, 1, P \o (x \o Rest(lines, l)))
      <4>1. i + 1 <= Len(line)
        BY <1>1
      <4> HIDE DEF P, line
      <4> QED BY <4>1, <1>1, <1>2, <1>3, ShrunkInside
    <3> QED BY <1>2, <2>3, <3>1
  <2>6. ASSUME NEW k \in 1 .. Len(x) PROVE x[k].val = NL <=> (l + 1 < n /\ k = Len(x))
    <3>1. CASE k <= i
      <4>1. k \in 1 .. i /\ k \in 1 .. Len(line) /\ k # Len(line) /\ k # Len(x)
        BY <1>1, <1>4, <2>4, <3>1
      <4> QED BY <1>0, <1>1, <1>4, <4>1
    <3>2. CASE k > i
      <4>1. k \in i + 1 .. Len(line) - 1 /\ k + 1 \in 1 .. Len(line)
        BY <1>1, <1>4, <3>2
      <4>2. x[k] = line[k + 1]
        BY <1>4, <4>1
      <4>3. line[k + 1].val = NL <=> (l + 1 < n /\ k + 1 = Len(line))
        BY <1>0, <1>1, <4>1
      <4> QED BY <1>1, <1>4, <4>2, <4>3
    <3> QED BY <3>1, <3>2
  <2>7. Shape(new)
    <3>0. Len(x) > 0
      BY <1>1, <1>4, <2>4
    <3>1. \A j \in 1 .. n : Len(new[j]) > 0
      <4> TAKE j \in 1 .. n
      <4> HIDE DEF n, line
      <4> QED BY <1>0, <2>3, <3>0, Zenon
    <3>2. \A j \in 1 .. n : \A k \in 1 .. Len(new[j]) : new[j][k].val = NL <=> (j < n /\ k = Len(new[j]))
      <4> TAKE j \in 1 .. n
      <4>1. CASE j = l + 1
        BY <2>3, <2>6, <4>1
      <4>2. CASE j # l + 1
        <5>1. new[j] = lines[j]
          BY <2>3, <4>2
        <5> QED BY <1>0, <5>1
      <4> QED BY <4>1, <4>2
    <3> QED BY <1>0, <2>3, <3>1, <3>2 DEF Shape
  <2>8. AtPlace(new, Place(l, i), Start(lines, l) + i)
    <3>1. i + 1 \in 1 .. Len(new[l + 1]) /\ l + 1 \in 1 .. Len(new)
      BY <1>1, <1>4, <2>3, <2>4
    <3> QED BY <2>3, <3>1 DEF AtPlace, Place
  <2> QED BY <2>5, <2>7, <2>8 DEF Erased, new, F, nl, line
<1> QED BY <1>5, <1>6

\* The newlines among the first n characters; a text that spells the symbols.
Ends(text, n) == {i \in 1 .. n : text[i] = NL}
Spells(text, F, n) == n \in Nat /\ n <= Len(text) /\ \A k \in 1 .. n : text[k] = F[k].val

\* A newline is the last symbol of a line that is not the last.
LEMMA EndsAt ==
  ASSUME NEW lines, Shape(lines), NEW l \in 1 .. Len(lines), NEW i \in 1 .. Len(lines[l])
  PROVE  Flatten(lines)[Start(lines, l - 1) + i].val = NL <=> (l < Len(lines) /\ i = Len(lines[l]))
<1>1. lines[l][i] = Flatten(lines)[Start(lines, l - 1) + i]
  BY Keys
<1> QED BY <1>1 DEF Shape

\* A text has finitely many newlines.
LEMMA FiniteEnds == ASSUME NEW text, NEW n \in Nat PROVE IsFiniteSet(Ends(text, n))
<1>1. IsFiniteSet(1 .. n)
  BY FS_Interval
<1>2. Ends(text, n) \in SUBSET (1 .. n)
  BY DEF Ends
<1> QED BY <1>1, <1>2, FS_Subset

\* As many lines end in a text as come before the line the text ends in.
LEMMA EndsUpTo ==
  ASSUME NEW lines, Shape(lines), NEW text,
         NEW l \in Nat, l < Len(lines), NEW n \in Nat, Start(lines, l) <= n, n < Start(lines, l + 1),
         Spells(text, Flatten(lines), n)
  PROVE  Cardinality(Ends(text, n)) = l
<1> DEFINE F == Flatten(lines)
           Counted(k) == \A m \in Nat : (Start(lines, k) <= m /\ m < Start(lines, k + 1) /\ Spells(text, F, m))
                                          => Cardinality(Ends(text, m)) = k
           Done == {k \in Nat : k < Len(lines) => Counted(k)}
<1>0. /\ lines \in Seq(Seq(SymbolType)) /\ Len(lines) \in Nat /\ Len(lines) > 0
      /\ \A k \in 0 .. Len(lines) : Start(lines, k) \in Nat
      /\ \A k \in 1 .. Len(lines) : Start(lines, k) = Start(lines, k - 1) + Len(lines[k]) /\ Len(lines[k]) \in Nat /\ Len(lines[k]) > 0
      /\ Start(lines, 0) = 0
  <2>1. lines \in Seq(Seq(SymbolType)) /\ Len(lines) \in Nat /\ Len(lines) > 0 /\ \A k \in 1 .. Len(lines) : Len(lines[k]) > 0
    BY DEF Shape
  <2> QED BY <2>1, Starts, LineIn
<1>a. ASSUME NEW k \in Nat, k < Len(lines), NEW m \in Nat, Start(lines, k) <= m, m < Start(lines, k + 1), Spells(text, F, m),
             NEW j \in Start(lines, k) + 1 .. m
      PROVE  text[j] # NL
  <2>1. k + 1 \in 1 .. Len(lines) /\ (k + 1) - 1 = k /\ Start(lines, k) \in Nat /\ k \in 0 .. Len(lines)
    BY <1>0, <1>a
  <2>2. j - Start(lines, k) \in 1 .. Len(lines[k + 1]) /\ j - Start(lines, k) # Len(lines[k + 1]) /\ Start(lines, k) + (j - Start(lines, k)) = j
    <3>1. Start(lines, k + 1) = Start(lines, k) + Len(lines[k + 1]) /\ Len(lines[k + 1]) \in Nat
      BY <1>0, <2>1
    <3> HIDE DEF F
    <3> QED BY <1>a, <2>1, <3>1
  <2>3. F[j].val # NL
    BY <2>1, <2>2, EndsAt, Zenon
  <2>4. text[j] = F[j].val
    BY <1>a, <2>1 DEF Spells
  <2> QED BY <2>3, <2>4
<1>1. 0 \in Done
  <2> SUFFICES ASSUME 0 < Len(lines), NEW m \in Nat, Start(lines, 0) <= m, m < Start(lines, 0 + 1), Spells(text, F, m)
               PROVE  Cardinality(Ends(text, m)) = 0
    OBVIOUS
  <2>1. \A j \in 0 + 1 .. m : text[j] # NL
    BY <1>0, <1>a
  <2>2. Ends(text, m) = {}
    BY <2>1 DEF Ends
  <2> QED BY <2>2, FS_EmptySet
<1>2. ASSUME NEW k \in Done PROVE k + 1 \in Done
  <2> SUFFICES ASSUME k + 1 < Len(lines), NEW m \in Nat, Start(lines, k + 1) <= m, m < Start(lines, k + 1 + 1), Spells(text, F, m)
               PROVE  Cardinality(Ends(text, m)) = k + 1
    OBVIOUS
  <2> DEFINE e == Start(lines, k + 1)
  <2>1. k \in Nat /\ k < Len(lines) /\ Counted(k) /\ k + 1 \in 1 .. Len(lines) /\ k \in 0 .. Len(lines) /\ (k + 1) - 1 = k
    BY <1>0
  <2>2. e \in Nat /\ Start(lines, k) \in Nat /\ e = Start(lines, k) + Len(lines[k + 1]) /\ Len(lines[k + 1]) \in Nat /\ Len(lines[k + 1]) > 0
    BY <1>0, <2>1
  <2>3. e - 1 \in Nat /\ Start(lines, k) <= e - 1 /\ e - 1 < Start(lines, k + 1)
    BY <2>2
  <2>4. Spells(text, F, e - 1)
    BY <2>2, <2>3 DEF Spells
  <2>5. Cardinality(Ends(text, e - 1)) = k
    BY <2>1, <2>3, <2>4
  <2>6. text[e] = NL
    <3>1. Len(lines[k + 1]) \in 1 .. Len(lines[k + 1])
      BY <2>2
    <3>2. F[e].val = NL
      BY <2>1, <2>2, <3>1, EndsAt
    <3>3. e \in 1 .. m
      BY <2>2
    <3> QED BY <3>2, <3>3 DEF Spells
  <2>7. \A j \in e + 1 .. m : text[j] # NL
    <3> k + 1 \in Nat
      BY <2>1
    <3> QED BY <1>a
  <2>8. Ends(text, m) = Ends(text, e - 1) \cup {e} /\ e \notin Ends(text, e - 1)
    <3> HIDE DEF e
    <3>1. e \in Nat /\ e <= m /\ e > 0
      BY <2>2 DEF e
    <3> QED BY <2>6, <2>7, <3>1 DEF Ends
  <2>9. IsFiniteSet(Ends(text, e - 1))
    BY <2>3, FiniteEnds
  <2>10. Cardinality(Ends(text, e - 1) \cup {e}) = Cardinality(Ends(text, e - 1)) + 1
    <3> HIDE DEF e
    <3> QED BY <2>8, <2>9, FS_AddElement
  <2> HIDE DEF e
  <2> QED BY <2>5, <2>8, <2>10
<1>3. 0 .. l \subseteq Done
  <2> HIDE DEF Done
  <2> QED BY <1>1, <1>2, UpTo
<1>4. l \in Done
  BY <1>3
<1> QED BY <1>4

\* A line of the text starts where the line of the symbols does.
LEMMA LineStart ==
  ASSUME NEW lines, Shape(lines), NEW text \in Seq(STRING), NEW l \in Nat, l < Len(lines),
         Spells(text, Flatten(lines), Start(lines, l))
  PROVE  BlockStart(text, l) = Start(lines, l)
<1> DEFINE ends == {i \in DOMAIN text : text[i] = NL}
           B(i) == Cardinality({j \in ends : j <= i})
           e == Start(lines, l)
<1>0. /\ lines \in Seq(Seq(SymbolType)) /\ Len(lines) \in Nat /\ e \in Nat /\ Start(lines, 0) = 0 /\ e <= Len(text) /\ e < Start(lines, l + 1)
  <2>1. lines \in Seq(Seq(SymbolType)) /\ Len(lines) \in Nat /\ l \in 0 .. Len(lines) /\ l + 1 \in 0 .. Len(lines) /\ l < l + 1
    BY DEF Shape
  <2> QED BY <2>1, Starts, StartsRise DEF Spells
<1>1. ASSUME NEW i \in ends PROVE {j \in ends : j <= i} = Ends(text, i) /\ i \in Ends(text, i) /\ i \in Nat /\ IsFiniteSet(Ends(text, i))
  <2>1. i \in 1 .. Len(text) /\ DOMAIN text = 1 .. Len(text) /\ i \in Nat
    OBVIOUS
  <2>2. {j \in ends : j <= i} = Ends(text, i) /\ i \in Ends(text, i)
    BY <2>1 DEF Ends
  <2> QED BY <2>1, <2>2, FiniteEnds
<1>b. BlockStart(text, l) = IF \E i \in ends : B(i) = l THEN CHOOSE i \in ends : B(i) = l ELSE 0
  BY DEF BlockStart
<1>2. CASE l = 0
  <2>1. ASSUME NEW i \in ends, B(i) = 0 PROVE FALSE
    BY <1>1, <2>1, FS_EmptySet
  <2> QED BY <1>0, <1>2, <1>b, <2>1
<1>3. CASE l # 0
  <2>0. l \in 1 .. Len(lines) /\ (l - 1) \in Nat
    BY <1>0, <1>3
  <2>1. e \in ends
    <3>1. e = Start(lines, l - 1) + Len(lines[l]) /\ Len(lines[l]) \in 1 .. Len(lines[l]) /\ Start(lines, l - 1) \in Nat /\ Len(lines[l]) \in Nat
      <4>1. Len(lines[l]) > 0 /\ Len(lines[l]) \in Nat
        BY <1>0, <2>0, LineIn DEF Shape
      <4>2. l - 1 \in 0 .. Len(lines)
        BY <1>0, <2>0
      <4>3. e = Start(lines, l - 1) + Len(lines[l]) /\ Start(lines, l - 1) \in Nat
        BY <1>0, <2>0, <4>2, Starts
      <4> QED BY <4>1, <4>3
    <3>2. Flatten(lines)[e].val = NL
      BY <2>0, <3>1, EndsAt
    <3>3. e \in 1 .. e
      BY <3>1
    <3> QED BY <1>0, <3>2, <3>3 DEF Spells
  <2>2. B(e) = l
    <3>1. Cardinality(Ends(text, e)) = l
      <4>1. e \in Nat /\ Start(lines, l) <= e /\ e < Start(lines, l + 1) /\ Spells(text, Flatten(lines), e)
        BY <1>0
      <4> HIDE DEF e
      <4> QED BY <4>1, EndsUpTo
    <3> QED BY <1>1, <2>1, <3>1
  <2>3. ASSUME NEW i \in ends, B(i) = l PROVE i = e
    <3>0. Cardinality(Ends(text, i)) = Cardinality(Ends(text, e)) /\ i \in Nat /\ e \in Nat
      BY <1>1, <2>1, <2>2, <2>3
    <3>1. CASE i < e
      <4>1. Ends(text, i) \in SUBSET Ends(text, e) /\ e \notin Ends(text, i) /\ e \in Ends(text, e)
        <5> HIDE DEF e
        <5> QED BY <1>1, <2>1, <3>0, <3>1 DEF Ends
      <4> QED BY <1>1, <2>1, <3>0, <4>1, FS_Subset
    <3>2. CASE i > e
      <4>1. Ends(text, e) \in SUBSET Ends(text, i) /\ i \notin Ends(text, e) /\ i \in Ends(text, i)
        <5> HIDE DEF e
        <5> QED BY <1>1, <2>1, <3>0, <3>2 DEF Ends
      <4> QED BY <1>1, <2>1, <3>0, <4>1, FS_Subset
    <3> QED BY <3>0, <3>1, <3>2
  <2> HIDE DEF ends, B, e
  <2> QED BY <1>b, <2>1, <2>2, <2>3 DEF e
<1> QED BY <1>2, <1>3

\* The place of an offset of the text is the place of the symbol it stands for.
LEMMA TextPlace ==
  ASSUME NEW lines, Shape(lines), NEW text \in Seq(STRING), NEW o \in Nat,
         o + 1 \in 1 .. Len(Flatten(lines)), Spells(text, Flatten(lines), o)
  PROVE  AtPlace(lines, Place(BlockNumber(text, o), PositionInBlock(text, o)), o)
<1>0. lines \in Seq(Seq(SymbolType)) /\ Len(lines) \in Nat
  BY DEF Shape
<1>1. PICK m \in 1 .. Len(lines) : \E i \in 1 .. Len(lines[m]) : o + 1 = Start(lines, m - 1) + i
  BY <1>0, FlatCovers
<1>2. PICK i \in 1 .. Len(lines[m]) : o + 1 = Start(lines, m - 1) + i
  BY <1>1
<1> DEFINE l == m - 1
<1>3. /\ l \in Nat /\ l < Len(lines) /\ l + 1 = m /\ Start(lines, l) \in Nat /\ Len(lines[m]) \in Nat
      /\ Start(lines, l + 1) = Start(lines, l) + Len(lines[m])
  <2>1. m - 1 \in 0 .. Len(lines)
    BY <1>0
  <2>2. Start(lines, m - 1) \in Nat /\ Start(lines, m) = Start(lines, m - 1) + Len(lines[m])
    BY <1>0, <2>1, Starts
  <2>3. Len(lines[m]) \in Nat
    BY <1>0, LineIn
  <2> QED BY <1>0, <2>2, <2>3
<1> HIDE DEF l
<1>4. Start(lines, l) <= o /\ o < Start(lines, l + 1) /\ o - Start(lines, l) = i - 1 /\ i - 1 \in Nat /\ (i - 1) + 1 = i
  BY <1>2, <1>3 DEF l
<1>5. BlockNumber(text, o) = l
  <2>1. Cardinality(Ends(text, o)) = l
    BY <1>3, <1>4, EndsUpTo
  <2> QED BY <2>1 DEF BlockNumber, Ends
<1>6. BlockStart(text, l) = Start(lines, l)
  <2>1. Spells(text, Flatten(lines), Start(lines, l))
    BY <1>3, <1>4 DEF Spells
  <2> QED BY <1>3, <2>1, LineStart
<1>7. PositionInBlock(text, o) = i - 1
  BY <1>4, <1>5, <1>6 DEF PositionInBlock
<1>8. Start(lines, l) + (i - 1) = o
  BY <1>3, <1>4
<1>9. l + 1 \in 1 .. Len(lines) /\ i \in 1 .. Len(lines[l + 1])
  BY <1>3
<1> QED BY <1>3, <1>4, <1>5, <1>7, <1>8, <1>9 DEF AtPlace, Place

Replica == [symbols : Seq(Seq(SymbolType)), size : Int, text : Seq(STRING),
            state : {"running", "aborted", "adrift"}]

\* The lines of a replica, the text it shows, and both together.
Ended(F) == \A k \in 1 .. Len(F) : F[k].val = NUL <=> k = Len(F)
Ordered(lines) == Shape(lines) /\ Sorted(Flatten(lines)) /\ Ended(Flatten(lines))
Follows(text, F) ==
  /\ text \in Seq(STRING) /\ Len(text) = Len(F) - 1
  /\ \A k \in 1 .. Len(F) - 1 : text[k] = F[k].val
Good(r) ==
  /\ r \in Replica /\ r.state = "running" /\ Ordered(r.symbols)
  /\ r.size = Len(Flatten(r.symbols)) - 1 /\ Follows(r.text, Flatten(r.symbols))

\* Where a symbol at p goes: after the first o symbols, before the next one.
Gap(F, o, p) ==
  /\ o \in 0 .. Len(F) - 1 /\ p < F[o + 1].pos
  /\ o = 0 \/ F[o].pos < p

\* A gap is a place.
LEMMA GapBefore == ASSUME NEW F \in Seq(SymbolType), NEW o, NEW p \in Int, Gap(F, o, p) PROVE Before(F, p, o)
<1>1. o + 1 \in 1 .. Len(F) /\ F[o + 1].pos \in Int
  <2>1. o + 1 \in 1 .. Len(F)
    BY DEF Gap
  <2>2. F[o + 1] \in SymbolType
    BY <2>1
  <2> QED BY <2>1, <2>2, SymbolFields
<1> QED BY <1>1 DEF Gap, Before

\* Some symbols that may go into a gap together.
Batch(F, o, S) ==
  /\ S \in Seq(SymbolType) /\ Sorted(S)
  /\ \A k \in 1 .. Len(S) : Gap(F, o, S[k].pos) /\ S[k].val # NUL

\* The lines when some of the symbols S are in the gap.
Grown(F, o, S, k, lines) ==
  /\ Shape(lines)
  /\ Len(Flatten(lines)) = Len(F) + k
  /\ \A j \in 1 .. o : Flatten(lines)[j] = F[j]
  /\ \A j \in 1 .. k : Flatten(lines)[o + j] = S[j]
  /\ \A j \in o + 1 .. Len(F) : Flatten(lines)[j + k] = F[j]

\* None of a batch is in at first.
LEMMA GrownFirst ==
  ASSUME NEW lines, Shape(lines), NEW o \in 0 .. Len(Flatten(lines)), NEW S
  PROVE  Grown(Flatten(lines), o, S, 0, lines)
<1>1. Len(Flatten(lines)) \in Nat
  BY FlatIn DEF Shape
<1> QED BY <1>1 DEF Grown

\* The symbols of lines in shape.
LEMMA ShapeFlat == ASSUME NEW lines, Shape(lines) PROVE Flatten(lines) \in Seq(SymbolType) /\ Len(Flatten(lines)) \in Nat
<1>1. Flatten(lines) \in Seq(SymbolType)
  BY FlatIn DEF Shape
<1> QED BY <1>1

\* Less than less is less.
LEMMA LessTwice == ASSUME NEW x \in Int, NEW y \in Int, NEW z \in Int, x < y, y < z PROVE x < z
OBVIOUS

\* The text so far is in order: what is in is in its place.
LEMMA GrownOrdered ==
  ASSUME NEW F \in Seq(SymbolType), Sorted(F), Ended(F), NEW o, NEW S, Batch(F, o, S), NEW k \in 0 .. Len(S), o \in 0 .. Len(F) - 1,
         NEW lines, Grown(F, o, S, k, lines)
  PROVE  Ordered(lines)
<1> DEFINE G == Flatten(lines)
<1>0. G \in Seq(SymbolType) /\ Len(G) = Len(F) + k /\ k \in Nat /\ o \in Nat /\ o < Len(F) /\ Len(F) \in Nat /\ S \in Seq(SymbolType)
      /\ Len(S) \in Nat /\ Shape(lines)
  BY ShapeFlat DEF Grown, Batch
<1>1. /\ \A j \in 1 .. o : G[j] = F[j]
      /\ \A j \in 1 .. k : G[o + j] = S[j]
      /\ \A j \in o + 1 .. Len(F) : G[j + k] = F[j]
  BY DEF Grown
<1> HIDE DEF G
<1>2. \A j \in 1 .. Len(F) : F[j].pos \in Int
  BY SymbolFields
<1>3. \A j \in 1 .. Len(S) : S[j].pos \in Int /\ S[j].val # NUL /\ S[j].pos < F[o + 1].pos /\ (o = 0 \/ F[o].pos < S[j].pos)
  BY <1>0, SymbolFields DEF Batch, Gap
<1>4. \A i, j \in 1 .. Len(F) : i < j => F[i].pos < F[j].pos
  BY DEF Sorted
<1>5. \A i, j \in 1 .. Len(S) : i < j => S[i].pos < S[j].pos
  BY DEF Sorted, Batch
<1>a. ASSUME NEW i \in o + k + 1 .. Len(G) PROVE i - k \in o + 1 .. Len(F) /\ i - k \in 1 .. Len(F) /\ G[i] = F[i - k]
  <2>1. i - k \in o + 1 .. Len(F) /\ i - k \in 1 .. Len(F) /\ (i - k) + k = i
    BY <1>0
  <2> QED BY <1>1, <2>1
<1>b. ASSUME NEW i \in o + 1 .. o + k PROVE i - o \in 1 .. k /\ i - o \in 1 .. Len(S) /\ G[i] = S[i - o]
  <2>1. i - o \in 1 .. k /\ i - o \in 1 .. Len(S) /\ o + (i - o) = i
    BY <1>0
  <2> QED BY <1>1, <2>1
<1>c. ASSUME NEW i \in 1 .. o PROVE i \in 1 .. Len(F) /\ G[i] = F[i]
  BY <1>0, <1>1
<1>6. ASSUME NEW i \in 1 .. Len(G), NEW j \in 1 .. Len(G), i < j PROVE G[i].pos < G[j].pos
  <2>1. CASE j <= o
    <3>1. i \in 1 .. o /\ j \in 1 .. o
      BY <1>0, <1>6, <2>1
    <3> QED BY <1>4, <1>6, <1>c, <3>1
  <2>2. CASE i <= o /\ j > o /\ j <= o + k
    <3>1. i \in 1 .. o /\ j \in o + 1 .. o + k /\ o \in 1 .. Len(F)
      BY <1>0, <2>2
    <3>2. F[o].pos < S[j - o].pos /\ S[j - o].pos \in Int /\ (i < o => F[i].pos < F[o].pos) /\ F[i].pos \in Int /\ F[o].pos \in Int
      BY <1>0, <1>2, <1>3, <1>4, <1>b, <1>c, <3>1
    <3>3. G[i] = F[i] /\ G[j] = S[j - o]
      BY <1>b, <1>c, <3>1, Zenon
    <3>4. F[i].pos < S[j - o].pos
      <4>1. CASE i < o
        <5>1. S[j - o].pos \in Int /\ F[i].pos \in Int /\ F[o].pos \in Int /\ F[i].pos < F[o].pos /\ F[o].pos < S[j - o].pos
          BY <3>2, <4>1, Zenon
        <5> HIDE DEF G
        <5> QED BY <5>1, LessTwice
      <4>2. CASE i = o
        BY <3>2, <4>2, Zenon
      <4> QED BY <1>0, <3>1, <4>1, <4>2
    <3> QED BY <3>3, <3>4, Zenon
  <2>3. CASE i <= o /\ j > o + k
    <3>1. i \in 1 .. o /\ j \in o + k + 1 .. Len(G) /\ i < j - k
      BY <1>0, <2>3
    <3> QED BY <1>4, <1>a, <1>c, <3>1
  <2>4. CASE i > o /\ j <= o + k
    <3>1. i \in o + 1 .. o + k /\ j \in o + 1 .. o + k /\ i - o < j - o
      BY <1>0, <1>6, <2>4
    <3> QED BY <1>5, <1>b, <3>1
  <2>5. CASE i > o /\ i <= o + k /\ j > o + k
    <3>1. i \in o + 1 .. o + k /\ j \in o + k + 1 .. Len(G) /\ o + 1 \in 1 .. Len(F) /\ (o + 1 = j - k \/ o + 1 < j - k)
      BY <1>0, <2>5
    <3>2. S[i - o].pos < F[o + 1].pos /\ S[i - o].pos \in Int /\ (o + 1 < j - k => F[o + 1].pos < F[j - k].pos) /\ F[o + 1].pos \in Int /\ F[j - k].pos \in Int
      BY <1>2, <1>3, <1>4, <1>a, <1>b, <3>1
    <3>3. G[i] = S[i - o] /\ G[j] = F[j - k]
      BY <1>a, <1>b, <3>1, Zenon
    <3>4. S[i - o].pos < F[j - k].pos
      <4>1. CASE o + 1 < j - k
        <5>1. S[i - o].pos \in Int /\ F[o + 1].pos \in Int /\ F[j - k].pos \in Int
              /\ S[i - o].pos < F[o + 1].pos /\ F[o + 1].pos < F[j - k].pos
          BY <3>2, <4>1, Zenon
        <5> QED BY <5>1, LessTwice
      <4>2. CASE o + 1 = j - k
        BY <3>2, <4>2, Zenon
      <4> QED BY <3>1, <4>1, <4>2
    <3> QED BY <3>3, <3>4, Zenon
  <2>6. CASE i > o + k
    <3>1. i \in o + k + 1 .. Len(G) /\ j \in o + k + 1 .. Len(G) /\ i - k < j - k
      BY <1>0, <1>6, <2>6
    <3> QED BY <1>4, <1>a, <3>1
  <2> QED BY <1>0, <1>6, <2>1, <2>2, <2>3, <2>4, <2>5, <2>6
<1>7. ASSUME NEW i \in 1 .. Len(G) PROVE G[i].val = NUL <=> i = Len(G)
  <2>1. CASE i <= o
    <3>1. i \in 1 .. o /\ i # Len(G) /\ i # Len(F)
      BY <1>0, <2>1
    <3> QED BY <1>c, <3>1 DEF Ended
  <2>2. CASE i > o /\ i <= o + k
    <3>1. i \in o + 1 .. o + k /\ i # Len(G)
      BY <1>0, <2>2
    <3> QED BY <1>3, <1>b, <3>1
  <2>3. CASE i > o + k
    <3>1. i \in o + k + 1 .. Len(G) /\ (i - k = Len(F) <=> i = Len(G))
      BY <1>0, <2>3
    <3> QED BY <1>a, <3>1 DEF Ended
  <2> QED BY <1>0, <2>1, <2>2, <2>3
<1> QED BY <1>0, <1>6, <1>7 DEF Ordered, Sorted, Ended, G

\* The next symbol of the batch goes right after those that are in.
LEMMA GapMoves ==
  ASSUME NEW F \in Seq(SymbolType), NEW o, NEW S, Batch(F, o, S), NEW k \in 0 .. Len(S), k < Len(S), o \in 0 .. Len(F) - 1,
         NEW lines, Grown(F, o, S, k, lines)
  PROVE  Gap(Flatten(lines), o + k, S[k + 1].pos)
<1> DEFINE G == Flatten(lines)
<1>0. Len(G) = Len(F) + k /\ k \in Nat /\ o \in Nat /\ o < Len(F) /\ Len(F) \in Nat /\ S \in Seq(SymbolType) /\ Len(S) \in Nat
  BY DEF Grown, Batch
<1>1. o + k \in 0 .. Len(G) - 1 /\ k + 1 \in 1 .. Len(S) /\ o + 1 \in o + 1 .. Len(F) /\ (o + 1) + k = (o + k) + 1
  BY <1>0
<1>2. G[(o + k) + 1] = F[o + 1]
  BY <1>1 DEF Grown
<1>3. S[k + 1].pos < F[o + 1].pos /\ (o = 0 \/ F[o].pos < S[k + 1].pos)
  BY <1>1 DEF Batch, Gap
<1>4. CASE k = 0
  <2>1. o # 0 => G[o] = F[o]
    BY <1>0 DEF Grown
  <2>2. o + k = o
    BY <1>0, <1>4
  <2> QED BY <1>1, <1>2, <1>3, <2>1, <2>2 DEF Gap
<1>5. CASE k # 0
  <2>1. k \in 1 .. k /\ k \in 1 .. Len(S) /\ k < k + 1
    BY <1>0, <1>5
  <2>2. G[o + k] = S[k]
    BY <2>1 DEF Grown
  <2>3. S[k].pos < S[k + 1].pos
    BY <1>1, <2>1 DEF Batch, Sorted
  <2> QED BY <1>1, <1>2, <1>3, <2>2, <2>3 DEF Gap
<1> QED BY <1>4, <1>5

\* One more symbol of a batch.
LEMMA GrowNext ==
  ASSUME NEW F \in Seq(SymbolType), NEW o, NEW S, S \in Seq(SymbolType), NEW k \in 0 .. Len(S), k < Len(S), o \in 0 .. Len(F) - 1,
         NEW lines, Grown(F, o, S, k, lines), NEW l, NEW i, AtPlace(lines, Place(l, i), o + k)
  PROVE  /\ Grown(F, o, S, k + 1, insertChar(lines, S[k + 1], l, i))
         /\ S[k + 1].val = NL => AtPlace(insertChar(lines, S[k + 1], l, i), Place(l + 1, 0), o + (k + 1))
         /\ S[k + 1].val # NL => AtPlace(insertChar(lines, S[k + 1], l, i), Place(l, i + 1), o + (k + 1))
<1> DEFINE s == S[k + 1]
           new == insertChar(lines, s, l, i)
           G == Flatten(lines)
           H == Flatten(new)
<1>0. Shape(lines) /\ Len(G) = Len(F) + k /\ k \in Nat /\ o \in Nat /\ o < Len(F) /\ Len(F) \in Nat /\ s \in SymbolType
  BY DEF Grown
<1>1. /\ l \in Nat /\ i \in Nat /\ l + 1 \in 1 .. Len(lines) /\ i + 1 \in 1 .. Len(lines[l + 1])
      /\ Start(lines, l) + i = o + k
  BY DEF AtPlace, Place
<1>2. Inserted(lines, s, l, i, new)
  <2> HIDE DEF s
  <2> QED BY <1>0, <1>1, InsertedChar
<1> HIDE DEF new, s
<1>3. /\ Shape(new)
      /\ GrownBy(G, o + k, <<s>>, H)
      /\ s.val = NL => AtPlace(new, Place(l + 1, 0), o + (k + 1))
      /\ s.val # NL => AtPlace(new, Place(l, i + 1), o + (k + 1))
  <2>1. (o + k) + 1 = o + (k + 1)
    BY <1>0
  <2> QED BY <1>1, <1>2, <2>1, Zenon DEF Inserted
<1>4. /\ Len(H) = Len(G) + 1
      /\ \A j \in 1 .. o + k : H[j] = G[j]
      /\ H[(o + k) + 1] = s
      /\ \A j \in (o + k) + 1 .. Len(G) : H[j + 1] = G[j]
  <2>1. Len(<<s>>) = 1 /\ <<s>>[1] = s /\ 1 \in 1 .. Len(<<s>>)
    OBVIOUS
  <2>2. H[(o + k) + 1] = s
    BY <1>3, <2>1, Zenon DEF GrownBy
  <2> QED BY <1>3, <2>1, <2>2 DEF GrownBy
<1> HIDE DEF H
<1>g. /\ \A j \in 1 .. o : G[j] = F[j]
      /\ \A j \in 1 .. k : G[o + j] = S[j]
      /\ \A j \in o + 1 .. Len(F) : G[j + k] = F[j]
  BY DEF Grown
<1> HIDE DEF G
<1>5. \A j \in 1 .. o : H[j] = F[j]
  <2> TAKE j \in 1 .. o
  <2>1. j \in 1 .. o + k
    BY <1>0
  <2> QED BY <1>4, <1>g, <2>1
<1>6. \A j \in 1 .. k + 1 : H[o + j] = S[j]
  <2> TAKE j \in 1 .. k + 1
  <2>1. CASE j = k + 1
    <3>1. o + j = (o + k) + 1
      BY <1>0, <2>1
    <3> QED BY <1>4, <2>1, <3>1 DEF s
  <2>2. CASE j # k + 1
    <3>1. j \in 1 .. k /\ o + j \in 1 .. o + k
      BY <1>0, <2>2
    <3> QED BY <1>4, <1>g, <3>1
  <2> QED BY <2>1, <2>2
<1>7. \A j \in o + 1 .. Len(F) : H[j + (k + 1)] = F[j]
  <2> TAKE j \in o + 1 .. Len(F)
  <2>1. j + k \in (o + k) + 1 .. Len(G) /\ (j + k) + 1 = j + (k + 1)
    BY <1>0
  <2> QED BY <1>4, <1>g, <2>1
<1>8. Len(H) = Len(F) + (k + 1)
  BY <1>0, <1>4
<1>9. Grown(F, o, S, k + 1, new)
  BY <1>3, <1>5, <1>6, <1>7, <1>8 DEF Grown, H
<1> QED BY <1>3, <1>9 DEF new, s

\* The next of some numbers.
LEMMA Within == ASSUME NEW a \in Nat, NEW n \in Nat, a + 1 \in 1 .. n PROVE a < n /\ a <= n
OBVIOUS

\* A replica with other lines.
Becomes(r, lines, n, q) == q \in Replica /\ q.symbols = lines /\ q.size = n /\ q.text = r.text /\ q.state = r.state

\* A replica given other lines and another size.
LEMMA ReplicaSet ==
  ASSUME NEW r \in Replica, NEW lines \in Seq(Seq(SymbolType)), NEW n \in Int
  PROVE  Becomes(r, lines, n, [r EXCEPT !.symbols = lines, !.size = n])
BY DEF Replica, Becomes

\* A replica given another text.
LEMMA ReplicaText ==
  ASSUME NEW r \in Replica, NEW text \in Seq(STRING)
  PROVE  LET q == [r EXCEPT !.text = text]
         IN  q \in Replica /\ q.symbols = r.symbols /\ q.size = r.size /\ q.text = text /\ q.state = r.state
BY DEF Replica

\* The symbols of the lines when the batch is in.
LEMMA GrownContent ==
  ASSUME NEW F \in Seq(SymbolType), NEW S \in Seq(SymbolType), NEW o \in 0 .. Len(F), NEW lines, Grown(F, o, S, Len(S), lines)
  PROVE  ToSet(Flatten(lines)) = ToSet(F) \cup ToSet(S)
<1> DEFINE G == Flatten(lines)
           k == Len(S)
<1>0. G \in Seq(SymbolType) /\ Len(G) = Len(F) + k /\ k \in Nat /\ o \in Nat /\ o <= Len(F) /\ Len(F) \in Nat
  BY ShapeFlat DEF Grown
<1>1. /\ \A j \in 1 .. o : G[j] = F[j]
      /\ \A j \in 1 .. k : G[o + j] = S[j]
      /\ \A j \in o + 1 .. Len(F) : G[j + k] = F[j]
  BY DEF Grown
<1>2. DOMAIN G = 1 .. Len(G) /\ DOMAIN F = 1 .. Len(F) /\ DOMAIN S = 1 .. k
  BY <1>0
<1> HIDE DEF G, k
<1>3. ASSUME NEW i \in 1 .. Len(G) PROVE (\E j \in 1 .. Len(F) : G[i] = F[j]) \/ (\E j \in 1 .. k : G[i] = S[j])
  <2>1. CASE i <= o
    <3>1. i \in 1 .. o /\ i \in 1 .. Len(F)
      BY <1>0, <2>1
    <3> QED BY <1>1, <3>1
  <2>2. CASE i > o /\ i <= o + k
    <3>1. i - o \in 1 .. k /\ o + (i - o) = i
      BY <1>0, <2>2
    <3>2. G[o + (i - o)] = S[i - o]
      BY <1>1, <3>1
    <3> QED BY <3>1, <3>2
  <2>3. CASE i > o + k
    <3>1. i - k \in o + 1 .. Len(F) /\ (i - k) + k = i /\ i - k \in 1 .. Len(F)
      BY <1>0, <2>3
    <3>2. G[(i - k) + k] = F[i - k]
      BY <1>1, <3>1
    <3> QED BY <3>1, <3>2
  <2> QED BY <1>0, <2>1, <2>2, <2>3
<1>4. ASSUME NEW j \in 1 .. Len(F) PROVE \E i \in 1 .. Len(G) : G[i] = F[j]
  <2>1. CASE j <= o
    <3>1. j \in 1 .. o /\ j \in 1 .. Len(G)
      BY <1>0, <2>1
    <3> QED BY <1>1, <3>1
  <2>2. CASE j > o
    <3>1. j + k \in 1 .. Len(G) /\ j \in o + 1 .. Len(F)
      BY <1>0, <2>2
    <3> QED BY <1>1, <3>1
  <2> QED BY <1>0, <2>1, <2>2
<1>5. ASSUME NEW j \in 1 .. k PROVE \E i \in 1 .. Len(G) : G[i] = S[j]
  <2>1. o + j \in 1 .. Len(G)
    BY <1>0
  <2> QED BY <1>1, <2>1
<1>6. ToSet(G) = {G[i] : i \in 1 .. Len(G)} /\ ToSet(F) = {F[i] : i \in 1 .. Len(F)} /\ ToSet(S) = {S[i] : i \in 1 .. k}
  BY <1>2 DEF ToSet
<1> DEFINE A == {G[i] : i \in 1 .. Len(G)}
           B == {F[i] : i \in 1 .. Len(F)}
           C == {S[i] : i \in 1 .. k}
<1>7. ASSUME NEW x \in A PROVE x \in B \cup C
  <2>1. PICK i \in 1 .. Len(G) : x = G[i]
    OBVIOUS
  <2>2. CASE \E j \in 1 .. Len(F) : G[i] = F[j]
    BY <2>1, <2>2
  <2>3. CASE \E j \in 1 .. k : G[i] = S[j]
    BY <2>1, <2>3
  <2> QED BY <1>3, <2>2, <2>3
<1>8. ASSUME NEW x \in B PROVE x \in A
  <2>1. PICK j \in 1 .. Len(F) : x = F[j]
    OBVIOUS
  <2> QED BY <1>4, <2>1
<1>9. ASSUME NEW x \in C PROVE x \in A
  <2>1. PICK j \in 1 .. k : x = S[j]
    OBVIOUS
  <2> QED BY <1>5, <2>1
<1>10. A = B \cup C
  <2> HIDE DEF A, B, C
  <2> QED BY <1>7, <1>8, <1>9
<1> QED BY <1>6, <1>10, Zenon DEF G, k

\* The text with the characters of the batch follows the lines with its symbols.
LEMMA FollowsGrown ==
  ASSUME NEW F \in Seq(SymbolType), NEW S \in Seq(SymbolType), NEW o \in 0 .. Len(F) - 1, NEW lines, Grown(F, o, S, Len(S), lines),
         NEW text, Follows(text, F), NEW chars, Len(chars) = Len(S), \A k \in 1 .. Len(S) : chars[k] = S[k].val,
         NEW new \in Seq(STRING), GrownBy(text, o, chars, new)
  PROVE  Follows(new, Flatten(lines))
<1> DEFINE G == Flatten(lines)
           n == Len(S)
<1>0. G \in Seq(SymbolType) /\ Len(G) = Len(F) + n /\ n \in Nat /\ o \in Nat /\ o < Len(F) /\ Len(F) \in Nat
      /\ Len(text) = Len(F) - 1
  BY ShapeFlat DEF Grown, Follows
<1>1. /\ \A j \in 1 .. o : G[j] = F[j]
      /\ \A j \in 1 .. n : G[o + j] = S[j]
      /\ \A j \in o + 1 .. Len(F) : G[j + n] = F[j]
  BY DEF Grown
<1>2. /\ Len(new) = Len(text) + n
      /\ \A j \in 1 .. o : new[j] = text[j]
      /\ \A j \in 1 .. n : new[o + j] = chars[j]
      /\ \A j \in o + 1 .. Len(text) : new[j + n] = text[j]
  BY DEF GrownBy
<1>3. \A j \in 1 .. Len(F) - 1 : text[j] = F[j].val
  BY DEF Follows
<1> HIDE DEF G, n
<1>4. ASSUME NEW i \in 1 .. Len(G) - 1 PROVE new[i] = G[i].val
  <2>1. CASE i <= o
    <3>1. i \in 1 .. o /\ i \in 1 .. Len(F) - 1
      BY <1>0, <2>1
    <3> QED BY <1>1, <1>2, <1>3, <3>1
  <2>2. CASE i > o /\ i <= o + n
    <3>1. i - o \in 1 .. n /\ o + (i - o) = i
      BY <1>0, <2>2
    <3>2. G[o + (i - o)] = S[i - o] /\ new[o + (i - o)] = chars[i - o] /\ chars[i - o] = S[i - o].val
      BY <1>1, <1>2, <3>1 DEF n
    <3> QED BY <3>1, <3>2
  <2>3. CASE i > o + n
    <3>1. i - n \in o + 1 .. Len(F) /\ (i - n) + n = i /\ i - n \in 1 .. Len(F) - 1 /\ i - n \in o + 1 .. Len(text)
      BY <1>0, <2>3
    <3>2. G[(i - n) + n] = F[i - n] /\ new[(i - n) + n] = text[i - n]
      BY <1>1, <1>2, <3>1
    <3> QED BY <1>3, <3>1, <3>2
  <2> QED BY <1>0, <2>1, <2>2, <2>3
<1>5. Len(new) = Len(G) - 1
  BY <1>0, <1>2
<1> QED BY <1>4, <1>5 DEF Follows, G

\* The offset of a place in the text.
LEMMA PlaceOffset ==
  ASSUME NEW lines, Shape(lines), NEW text, Follows(text, Flatten(lines)), NEW at, NEW o, AtPlace(lines, at, o), o < Len(Flatten(lines))
  PROVE  BlockStart(text, at.line) + at.index = o
<1> DEFINE F == Flatten(lines)
<1>1. at.line \in Nat /\ at.line + 1 \in 1 .. Len(lines) /\ Start(lines, at.line) + at.index = o /\ at.index \in Nat
  BY DEF AtPlace
<1>2. lines \in Seq(Seq(SymbolType)) /\ Len(lines) \in Nat /\ F \in Seq(SymbolType) /\ Len(F) \in Nat
  BY ShapeFlat DEF Shape
<1>3. Start(lines, at.line) \in Nat /\ at.line < Len(lines)
  <2>1. at.line \in 0 .. Len(lines) /\ at.line < Len(lines)
    BY <1>1, <1>2
  <2> QED BY <1>2, <2>1, Starts
<1>4. Spells(text, F, Start(lines, at.line))
  <2>1. Start(lines, at.line) <= Len(F) - 1
    BY <1>1, <1>2, <1>3
  <2> QED BY <1>2, <1>3, <2>1 DEF Spells, Follows
<1>5. BlockStart(text, at.line) = Start(lines, at.line)
  BY <1>1, <1>3, <1>4, LineStart DEF Follows
<1> QED BY <1>1, <1>5

\* The text edit shows what a remote editor inserted.
Shown(r, o, chars, q) ==
  \E new \in Seq(STRING) : GrownBy(r.text, o, chars, new) /\ q = [r EXCEPT !.text = new]

\* What on_insertGroup does to a replica in order.
LEMMA InsertShown ==
  ASSUME NEW r \in Replica, r.state = "running", NEW lines, Shape(lines), Follows(r.text, Flatten(lines)),
         NEW at, NEW o \in Nat, AtPlace(lines, at, o), o < Len(Flatten(lines)), NEW chars \in Seq(STRING), Len(chars) > 0,
         r.size = Len(Flatten(lines)) - 1 + Len(chars)
  PROVE  Shown(r, o, chars, on_insertGroup(r, at.line, at.index, chars))
<1> DEFINE F == Flatten(lines)
           new == SubSeq(r.text, 1, o) \o chars \o SubSeq(r.text, o + 1, Len(r.text))
<1>1. r.text \in Seq(STRING) /\ Len(r.text) = Len(F) - 1 /\ Len(F) \in Nat
  BY ShapeFlat DEF Follows
<1>2. BlockStart(r.text, at.line) + at.index = o
  BY PlaceOffset
<1>3. o \in 0 .. Len(r.text) /\ o <= Len(r.text)
  BY <1>1
<1>4. new \in Seq(STRING) /\ GrownBy(r.text, o, chars, new)
  BY <1>1, <1>3, PutIn
<1>5. Len(new) = Len(r.text) + Len(chars)
  BY <1>4 DEF GrownBy
<1> HIDE DEF new
<1>6. IsRemoteChange(r.text, new, r.size)
  <2>1. Len(new) > Len(r.text) /\ Len(new) <= r.size
    BY <1>1, <1>5
  <2> QED BY <2>1 DEF IsRemoteChange
<1>7. on_insertGroup(r, at.line, at.index, chars) = ShowRemote(r, new)
  <2>1. ~(o > Len(r.text))
    BY <1>1, <1>3
  <2> QED BY <1>2, <2>1, Zenon DEF on_insertGroup, new
<1> QED BY <1>4, <1>6, <1>7 DEF ShowRemote, Shown

-----------------------------------------------------------------------------
\* The lines after the symbols of a paste, one by one.
RemoteGrown(r, o, S, k, q) ==
  /\ q \in Replica /\ q.state = "running" /\ q.text = r.text /\ q.size = r.size + k
  /\ Grown(Flatten(r.symbols), o, S, k, q.symbols)

\* One more symbol of a paste.
LEMMA InsertRemoteNext ==
  ASSUME NEW r \in Replica, Ordered(r.symbols), NEW o, o \in 0 .. Len(Flatten(r.symbols)) - 1,
         NEW S, Batch(Flatten(r.symbols), o, S), NEW k \in 0 .. Len(S), k < Len(S), NEW q, RemoteGrown(r, o, S, k, q)
  PROVE  RemoteGrown(r, o, S, k + 1, InsertRemote(q, S[k + 1]))
<1> DEFINE F == Flatten(r.symbols)
           G == Flatten(q.symbols)
           s == S[k + 1]
           at == findInsertPosition(q.symbols, s.pos)
<1>0. F \in Seq(SymbolType) /\ Sorted(F) /\ Ended(F) /\ Len(F) \in Nat /\ S \in Seq(SymbolType) /\ o \in 0 .. Len(F) - 1 /\ Batch(F, o, S)
  BY ShapeFlat DEF Ordered, Batch
<1>1. Grown(F, o, S, k, q.symbols) /\ q \in Replica /\ q.state = "running" /\ q.text = r.text /\ q.size = r.size + k
  BY DEF RemoteGrown
<1>s. s \in SymbolType /\ s.pos \in Int
  <2>1. k + 1 \in 1 .. Len(S)
    BY <1>0
  <2>2. s \in SymbolType
    BY <1>0, <2>1
  <2> QED BY <2>2, SymbolFields
<1> HIDE DEF F
<1>2. Ordered(q.symbols)
  BY <1>0, <1>1, GrownOrdered
<1>3. Gap(G, o + k, s.pos)
  BY <1>0, <1>1, GapMoves
<1>4. Before(G, s.pos, o + k)
  <2>1. G \in Seq(SymbolType)
    BY <1>2, ShapeFlat DEF Ordered
  <2> HIDE DEF G, s
  <2> QED BY <1>3, <1>s, <2>1, GapBefore
<1>5. AtPlace(q.symbols, at, o + k)
  <2> HIDE DEF s
  <2> QED BY <1>2, <1>4, <1>s, InsertPlace DEF Ordered
<1> HIDE DEF at
<1>6. at.kind = "found" /\ CanInsert(q.symbols, at) /\ AtPlace(q.symbols, Place(at.line, at.index), o + k)
  <2>1. at.kind = "found" /\ at.line \in Nat /\ at.index \in Nat /\ at.line + 1 \in 1 .. Len(q.symbols) /\ at.index + 1 \in 1 .. Len(q.symbols[at.line + 1])
        /\ Start(q.symbols, at.line) + at.index = o + k
    BY <1>5 DEF AtPlace
  <2>2. at.line < Len(q.symbols) /\ at.index <= Len(q.symbols[at.line + 1])
    <3>1. q.symbols \in Seq(Seq(SymbolType)) /\ Len(q.symbols) \in Nat
      BY <1>2 DEF Ordered, Shape
    <3>2. Len(q.symbols[at.line + 1]) \in Nat
      BY <2>1, <3>1, LineIn
    <3> QED BY <2>1, <3>1, <3>2, Within
  <2> QED BY <2>1, <2>2 DEF AtPlace, CanInsert, Place
<1> DEFINE new == insertChar(q.symbols, s, at.line, at.index)
<1>7. Grown(F, o, S, k + 1, new)
  BY <1>0, <1>1, <1>6, GrowNext
<1>8. InsertRemote(q, s) = [q EXCEPT !.symbols = new, !.size = q.size + 1]
  BY <1>1, <1>6, Zenon DEF InsertRemote, at
<1> HIDE DEF new, s
<1>9. new \in Seq(Seq(SymbolType)) /\ q.size + 1 \in Int /\ q.size + 1 = r.size + (k + 1)
  <2>1. r.size \in Int /\ q.size \in Int /\ k \in Int
    BY <1>1 DEF Replica
  <2>2. new \in Seq(Seq(SymbolType))
    BY <1>7 DEF Grown, Shape
  <2>3. q.size = r.size + k
    BY <1>1
  <2> QED BY <2>1, <2>2, <2>3
<1>10. Becomes(q, new, q.size + 1, InsertRemote(q, s))
  <2>1. q \in Replica /\ new \in Seq(Seq(SymbolType)) /\ q.size + 1 \in Int
    BY <1>1, <1>9
  <2>2. Becomes(q, new, q.size + 1, [q EXCEPT !.symbols = new, !.size = q.size + 1])
    BY <2>1, ReplicaSet, Zenon
  <2> QED BY <1>8, <2>2, Zenon
<1>11. RemoteGrown(r, o, S, k + 1, InsertRemote(q, s))
  <2>1. q.size + 1 = r.size + (k + 1)
    BY <1>9
  <2> QED BY <1>1, <1>7, <2>1, <1>10, Zenon DEF RemoteGrown, Becomes, F
<1> QED BY <1>11 DEF s

\* All symbols of a paste.
LEMMA InsertedAll ==
  ASSUME NEW r, Good(r), NEW o, o \in 0 .. Len(Flatten(r.symbols)) - 1,
         NEW S, Batch(Flatten(r.symbols), o, S)
  PROVE  RemoteGrown(r, o, S, Len(S), FoldLeft(InsertRemote, r, S))
<1>0. r \in Replica /\ Ordered(r.symbols) /\ S \in Seq(SymbolType) /\ Len(S) \in Nat /\ DOMAIN S = 1 .. Len(S) /\ r.state = "running" /\ r.size \in Int
  BY DEF Good, Batch, Replica
<1>f. PICK f : Inserts!Steps(r, S, f)
  BY <1>0, Counting, Inserts!FoldedSteps DEF Inserts!CanCount
<1>1. /\ DOMAIN f = 0 .. Len(S) /\ f[0] = r /\ f[Len(S)] = Inserts!Folded(r, S)
      /\ \A k \in 1 .. Len(S) : f[k] = InsertRemote(f[k - 1], S[k])
  BY <1>f, Zenon DEF Inserts!Steps
<1>2. Inserts!Folded(r, S) = FoldLeft(InsertRemote, r, S)
  BY DEF Inserts!Folded, FoldLeft, MapThenFoldSet, Max, Inserts!MapThenFoldSet, Inserts!Greatest
<1> DEFINE Done == {k \in Nat : k <= Len(S) => RemoteGrown(r, o, S, k, f[k])}
<1>3. 0 \in Done
  <2>1. Grown(Flatten(r.symbols), o, S, 0, r.symbols)
    <3>1. o \in 0 .. Len(Flatten(r.symbols))
      BY <1>0, ShapeFlat DEF Ordered
    <3> QED BY <1>0, <3>1, GrownFirst DEF Ordered
  <2>2. r.size = r.size + 0
    BY <1>0
  <2> QED BY <1>0, <1>1, <2>1, <2>2 DEF RemoteGrown
<1>4. ASSUME NEW k \in Done PROVE k + 1 \in Done
  <2> SUFFICES ASSUME k + 1 <= Len(S) PROVE RemoteGrown(r, o, S, k + 1, f[k + 1])
    OBVIOUS
  <2>1. k \in 0 .. Len(S) /\ k < Len(S) /\ RemoteGrown(r, o, S, k, f[k]) /\ k + 1 \in 1 .. Len(S) /\ (k + 1) - 1 = k
    BY <1>0
  <2>2. f[k + 1] = InsertRemote(f[k], S[k + 1])
    BY <1>1, <2>1
  <2> QED BY <1>0, <2>1, <2>2, InsertRemoteNext
<1>5. 0 .. Len(S) \subseteq Done
  <2> HIDE DEF Done
  <2> QED BY <1>0, <1>3, <1>4, UpTo
<1>6. Len(S) \in Done
  <2>1. Len(S) \in 0 .. Len(S)
    BY <1>0
  <2> HIDE DEF Done
  <2> QED BY <1>5, <2>1
<1> QED BY <1>0, <1>1, <1>2, <1>6

Chars == INSTANCE FoldProofs WITH Op <- AppendChar
LineEnds == INSTANCE FoldProofs WITH Op <- AlignLineEnd

\* A good replica that holds the symbols X.
Holds(q, X) == Good(q) /\ ToSet(Flatten(q.symbols)) = X

\* A paste, once the text edit shows it, leaves a replica in order.
LEMMA InsertedShown ==
  ASSUME NEW r, Good(r), NEW o, o \in 0 .. Len(Flatten(r.symbols)) - 1,
         NEW S, Batch(Flatten(r.symbols), o, S), Len(S) > 0, NEW q, RemoteGrown(r, o, S, Len(S), q),
         NEW at, at = findInsertPosition(r.symbols, S[1].pos),
         NEW chars \in Seq(STRING), Len(chars) = Len(S), \A k \in 1 .. Len(S) : chars[k] = S[k].val
  PROVE  Holds(on_insertGroup(q, at.line, at.index, chars), ToSet(Flatten(r.symbols)) \cup ToSet(S))
<1> DEFINE F == Flatten(r.symbols)
           G == Flatten(q.symbols)
<1>0. /\ F \in Seq(SymbolType) /\ Sorted(F) /\ Ended(F) /\ Len(F) \in Nat /\ S \in Seq(SymbolType) /\ Len(S) \in Nat /\ o \in Nat /\ o < Len(F)
      /\ Shape(r.symbols) /\ r \in Replica /\ Follows(r.text, F) /\ r.size = Len(F) - 1 /\ o \in 0 .. Len(F)
  BY ShapeFlat DEF Ordered, Batch, Good
<1>1. q \in Replica /\ q.state = "running" /\ q.text = r.text /\ q.size = r.size + Len(S) /\ Grown(F, o, S, Len(S), q.symbols)
  BY DEF RemoteGrown
<1>2. AtPlace(r.symbols, at, o)
  <2>1. 1 \in 1 .. Len(S)
    BY <1>0
  <2>2. S[1] \in SymbolType /\ Gap(F, o, S[1].pos)
    BY <1>0, <2>1 DEF Batch
  <2>3. S[1].pos \in Int
    BY <2>2, SymbolFields
  <2>4. Before(F, S[1].pos, o)
    <3> HIDE DEF F
    <3> QED BY <1>0, <2>2, <2>3, GapBefore
  <2> QED BY <1>0, <2>3, <2>4, InsertPlace
<1> HIDE DEF F
<1>3. PICK new \in Seq(STRING) : /\ GrownBy(q.text, o, chars, new)
                                 /\ on_insertGroup(q, at.line, at.index, chars) = [q EXCEPT !.text = new]
  <2>1. Follows(q.text, F) /\ q.size = Len(F) - 1 + Len(chars) /\ Len(chars) > 0
    BY <1>0, <1>1
  <2>2. Shown(q, o, chars, on_insertGroup(q, at.line, at.index, chars))
    <3>1. /\ q \in Replica /\ q.state = "running" /\ Shape(r.symbols) /\ Follows(q.text, Flatten(r.symbols)) /\ o \in Nat
          /\ o < Len(Flatten(r.symbols)) /\ q.size = Len(Flatten(r.symbols)) - 1 + Len(chars)
      BY <1>0, <1>1, <2>1 DEF F
    <3> QED BY <1>2, <2>1, <3>1, InsertShown, Zenon
  <2> QED BY <2>2, Zenon DEF Shown
<1>4. Follows(new, G)
  <2>1. GrownBy(r.text, o, chars, new)
    BY <1>1, <1>3
  <2>2. o \in 0 .. Len(F) - 1
    BY <1>0
  <2> QED BY <1>0, <1>1, <2>1, <2>2, FollowsGrown
<1>5. Ordered(q.symbols)
  <2>1. Len(S) \in 0 .. Len(S) /\ o \in 0 .. Len(F) - 1
    BY <1>0
  <2> QED BY <1>0, <1>1, <2>1, GrownOrdered DEF F
<1>6. ToSet(G) = ToSet(F) \cup ToSet(S)
  BY <1>0, <1>1, GrownContent
<1> DEFINE p == [q EXCEPT !.text = new]
<1>7. p \in Replica /\ p.symbols = q.symbols /\ p.size = q.size /\ p.text = new /\ p.state = q.state
  BY <1>1, ReplicaText
<1>8. q.size = Len(G) - 1
  BY <1>0, <1>1 DEF Grown
<1> HIDE DEF p, G
<1>9. Good(p)
  BY <1>1, <1>4, <1>5, <1>7, <1>8, Zenon DEF Good, G
<1> QED BY <1>3, <1>6, <1>7, <1>9, Zenon DEF Holds, F, G, p

\* A symbol of another editor, where it belongs.
LEMMA SymbolInserted ==
  ASSUME NEW r, Good(r), NEW s \in SymbolType, s.val # NUL, NEW o, o \in 0 .. Len(Flatten(r.symbols)) - 1, Gap(Flatten(r.symbols), o, s.pos)
  PROVE  Holds(handleRemoteInsert(r, s), ToSet(Flatten(r.symbols)) \cup {s})
<1> DEFINE F == Flatten(r.symbols)
           S == <<s>>
<1>1. S \in Seq(SymbolType) /\ Len(S) = 1 /\ S[1] = s /\ \A k \in 1 .. Len(S) : S[k] = s
  OBVIOUS
<1>s. ToSet(S) = {s}
  BY DEF ToSet
<1> HIDE DEF S
<1>2. Batch(F, o, S)
  <2>1. Sorted(S)
    BY <1>1 DEF Sorted
  <2> QED BY <1>1, <2>1 DEF Batch
<1>3. r \in Replica /\ Ordered(r.symbols) /\ r.state = "running" /\ r.size \in Int /\ Shape(r.symbols)
  BY DEF Good, Replica, Ordered
<1>4. RemoteGrown(r, o, S, 0, r)
  <2>1. Grown(F, o, S, 0, r.symbols)
    <3>1. o \in 0 .. Len(F)
      BY <1>3, ShapeFlat
    <3> QED BY <1>3, <3>1, GrownFirst
  <2>2. r.size = r.size + 0
    BY <1>3
  <2> QED BY <1>3, <2>1, <2>2 DEF RemoteGrown
<1>5. RemoteGrown(r, o, S, 1, InsertRemote(r, s))
  <2>1. 0 \in 0 .. Len(S) /\ 0 < Len(S) /\ 0 + 1 = 1
    BY <1>1
  <2>2. RemoteGrown(r, o, S, 0 + 1, InsertRemote(r, S[0 + 1]))
    BY <1>2, <1>3, <1>4, <2>1, InsertRemoteNext
  <2> QED BY <1>1, <2>2
<1> DEFINE at == findInsertPosition(r.symbols, s.pos)
           chars == <<s.val>>
<1>6. chars \in Seq(STRING) /\ Len(chars) = 1 /\ chars[1] = s.val
  <2>1. s.val \in STRING
    BY SymbolFields
  <2> QED BY <2>1
<1>7. handleRemoteInsert(r, s) = on_insertGroup(InsertRemote(r, s), at.line, at.index, chars)
  BY Zenon DEF handleRemoteInsert
<1> HIDE DEF at, chars
<1>8. Len(S) > 0 /\ Len(chars) = Len(S) /\ \A k \in 1 .. Len(S) : chars[k] = S[k].val
  BY <1>1, <1>6
<1>9. at = findInsertPosition(r.symbols, S[1].pos)
  BY <1>1 DEF at
<1>10. Holds(on_insertGroup(InsertRemote(r, s), at.line, at.index, chars), ToSet(F) \cup ToSet(S))
  BY <1>1, <1>2, <1>5, <1>6, <1>8, <1>9, InsertedShown
<1> QED BY <1>7, <1>10, <1>s

\* A symbol that ends a line is the last one of its line.
LEMMA LineEnd ==
  ASSUME NEW lines, Ordered(lines), NEW k \in 1 .. Len(Flatten(lines)), NEW at, AtPlace(lines, at, k - 1)
  PROVE  /\ lines[at.line + 1][at.index + 1] = Flatten(lines)[k]
         /\ Flatten(lines)[k].val \in {NL, NUL} => at.index + 1 = Len(lines[at.line + 1])
<1> DEFINE F == Flatten(lines)
           l == at.line
           i == at.index
<1>0. /\ l \in Nat /\ i \in Nat /\ l + 1 \in 1 .. Len(lines) /\ i + 1 \in 1 .. Len(lines[l + 1]) /\ Start(lines, l) + i = k - 1
  BY DEF AtPlace
<1>1. lines \in Seq(Seq(SymbolType)) /\ Len(lines) \in Nat /\ Shape(lines) /\ F \in Seq(SymbolType) /\ Len(F) \in Nat
  BY ShapeFlat DEF Ordered, Shape
<1> HIDE DEF l, i
<1>2. Start(lines, l) \in Nat /\ Start(lines, l + 1) = Start(lines, l) + Len(lines[l + 1]) /\ Start(lines, Len(lines)) = Len(F)
  <2>1. l \in 0 .. Len(lines) /\ (l + 1) - 1 = l
    BY <1>0, <1>1
  <2> QED BY <1>0, <1>1, <2>1, Starts
<1>3. Start(lines, l) + (i + 1) = k /\ (l + 1) - 1 = l
  BY <1>0, <1>2
<1>4. lines[l + 1][i + 1] = F[k]
  BY <1>0, <1>1, <1>3, FlatIndex
<1>5. ASSUME F[k].val = NL PROVE i + 1 = Len(lines[l + 1])
  BY <1>0, <1>4, <1>5, <1>1 DEF Shape
<1>6. ASSUME F[k].val = NUL PROVE i + 1 = Len(lines[l + 1])
  <2>1. k = Len(F)
    BY <1>6 DEF Ordered, Ended
  <2>2. l + 1 = Len(lines)
    <3>1. SUFFICES ASSUME l + 1 < Len(lines) PROVE FALSE
      BY <1>0, <1>1
    <3>2. Start(lines, l + 1) < Start(lines, Len(lines))
      <4>1. l + 1 \in 0 .. Len(lines) /\ Len(lines) \in 0 .. Len(lines)
        BY <1>0, <1>1
      <4> QED BY <1>1, <3>1, <4>1, StartsRise
    <3>3. Len(lines[l + 1]) \in Nat
      BY <1>0, <1>1, LineIn
    <3> QED BY <1>0, <1>2, <1>3, <2>1, <3>2, <3>3
  <2>3. Start(lines, l) + Len(lines[l + 1]) = Start(lines, l) + (i + 1)
    BY <1>2, <1>3, <2>1, <2>2
  <2>4. Len(lines[l + 1]) \in Nat
    BY <1>0, <1>1, LineIn
  <2> QED BY <1>0, <1>2, <2>3, <2>4
<1> QED BY <1>4, <1>5, <1>6 DEF l, i

\* Lines start one after the other.
LEMMA StartsClimb ==
  ASSUME NEW lines, Shape(lines), NEW k \in 0 .. Len(lines), NEW l \in 0 .. Len(lines), k <= l
  PROVE  Start(lines, k) <= Start(lines, l)
<1>0. lines \in Seq(Seq(SymbolType)) /\ Len(lines) \in Nat
  BY DEF Shape
<1>1. Start(lines, k) \in Nat /\ k \in Nat /\ l \in Nat /\ Len(lines) \in Nat
  <2>1. \A c \in 0 .. Len(lines) : Start(lines, c) \in Nat
    BY <1>0, Starts
  <2> QED BY <1>0, <2>1
<1>2. CASE k < l
  <2>1. Start(lines, k) < Start(lines, l)
    BY <1>2, StartsRise
  <2>2. Start(lines, l) \in Nat
    BY <1>0, Starts
  <2> QED BY <1>1, <2>1, <2>2
<1>3. CASE k = l
  BY <1>1, <1>3
<1> QED BY <1>1, <1>2, <1>3

\* Sums: a place before a line.
LEMMA LeftOf ==
  ASSUME NEW p \in Nat, NEW q \in Nat, NEW u \in Nat, NEW i \in Nat, NEW n \in Nat, NEW b \in Nat, i + 1 <= n, b >= 1, q = p + n, q <= u
  PROVE  p + i + 1 # u + b
OBVIOUS

\* Sums: a place after a line.
LEMMA RightOf ==
  ASSUME NEW p \in Nat, NEW q \in Nat, NEW u \in Nat, NEW i \in Nat, NEW n \in Nat, NEW b \in Nat, b <= n, q = u + n, q <= p
  PROVE  p + i + 1 # u + b
OBVIOUS

\* One symbol in the place of another.
Swapped(F, k, s, G) == Len(G) = Len(F) /\ G[k] = s /\ \A j \in 1 .. Len(F) : j # k => G[j] = F[j]

\* A symbol overwritten in its place.
LEMMA SymbolSet ==
  ASSUME NEW lines, Ordered(lines), NEW k \in 1 .. Len(Flatten(lines)), NEW at, AtPlace(lines, at, k - 1),
         NEW s \in SymbolType, s.pos = Flatten(lines)[k].pos, s.val = Flatten(lines)[k].val
  PROVE  LET new == SetLine(lines, at.line, [lines[at.line + 1] EXCEPT ![at.index + 1] = s])
         IN  Ordered(new) /\ Swapped(Flatten(lines), k, s, Flatten(new))
<1> DEFINE F == Flatten(lines)
           l == at.line
           i == at.index
           line == lines[l + 1]
           y == [line EXCEPT ![i + 1] = s]
           new == SetLine(lines, l, y)
           G == Flatten(new)
<1>0. /\ l \in Nat /\ i \in Nat /\ l + 1 \in 1 .. Len(lines) /\ i + 1 \in 1 .. Len(line) /\ Start(lines, l) + i = k - 1
  BY DEF AtPlace
<1>1. /\ lines \in Seq(Seq(SymbolType)) /\ Len(lines) \in Nat /\ Len(lines) > 0 /\ Shape(lines) /\ F \in Seq(SymbolType) /\ Len(F) \in Nat /\ Sorted(F) /\ Ended(F)
      /\ \A a \in 1 .. Len(lines) : Len(lines[a]) > 0
      /\ \A a \in 1 .. Len(lines) : \A b \in 1 .. Len(lines[a]) : lines[a][b].val = NL <=> (a < Len(lines) /\ b = Len(lines[a]))
  BY ShapeFlat DEF Ordered, Shape
<1> HIDE DEF l, i
<1>2. line \in Seq(SymbolType) /\ Len(line) \in Nat /\ DOMAIN line = 1 .. Len(line) /\ line[i + 1] = F[k]
  BY <1>0, <1>1, LineIn, LineEnd DEF l, i
<1> HIDE DEF line
<1>3. y \in Seq(SymbolType) /\ Len(y) = Len(line) /\ y[i + 1] = s /\ \A b \in 1 .. Len(line) : b # i + 1 => y[b] = line[b]
  BY <1>0, <1>2
<1> HIDE DEF y
<1>4. SetTo(SymbolType, lines, l, y, new)
  BY <1>0, <1>1, <1>3, LineIsSet, Zenon
<1> HIDE DEF new
<1>5. /\ new \in Seq(Seq(SymbolType)) /\ Len(new) = Len(lines) /\ new[l + 1] = y
      /\ \A j \in 1 .. Len(lines) : j # l + 1 => new[j] = lines[j]
  BY <1>4, Zenon DEF SetTo
<1>6. ASSUME NEW a \in 1 .. Len(lines)
      PROVE  Len(new[a]) = Len(lines[a]) /\ \A b \in 1 .. Len(lines[a]) : new[a][b].val = lines[a][b].val
  <2>1. CASE a = l + 1
    BY <1>2, <1>3, <1>5, <2>1 DEF line
  <2>2. CASE a # l + 1
    BY <1>5, <2>2
  <2> QED BY <2>1, <2>2
<1>7. Shape(new)
  <2>1. \A a \in 1 .. Len(new) : Len(new[a]) > 0
    BY <1>1, <1>5, <1>6
  <2>2. ASSUME NEW a \in 1 .. Len(new), NEW b \in 1 .. Len(new[a]) PROVE new[a][b].val = NL <=> (a < Len(new) /\ b = Len(new[a]))
    <3>1. Len(new) = Len(lines)
      BY <1>5
    <3>2. a \in 1 .. Len(lines)
      BY <3>1
    <3>3. Len(new[a]) = Len(lines[a])
      BY <1>6, <3>2
    <3>4. b \in 1 .. Len(lines[a])
      BY <3>3
    <3>5. new[a][b].val = lines[a][b].val
      BY <1>6, <3>2, <3>4
    <3>6. lines[a][b].val = NL <=> (a < Len(lines) /\ b = Len(lines[a]))
      BY <1>1, <3>2, <3>4
    <3> QED BY <3>1, <3>3, <3>5, <3>6
  <2> QED BY <1>1, <1>5, <2>1, <2>2 DEF Shape
<1>8. G \in Seq(SymbolType) /\ Len(G) = Len(F) /\ \A a \in 0 .. Len(lines) : Start(new, a) = Start(lines, a)
  <2> DEFINE Done == {a \in Nat : a <= Len(lines) => Start(new, a) = Start(lines, a)}
  <2>1. /\ Start(new, 0) = 0 /\ Start(lines, 0) = 0
        /\ \A a \in 1 .. Len(lines) : Start(lines, a) = Start(lines, a - 1) + Len(lines[a])
        /\ \A a \in 1 .. Len(lines) : Start(new, a) = Start(new, a - 1) + Len(new[a])
        /\ Start(lines, Len(lines)) = Len(F) /\ Start(new, Len(lines)) = Len(G)
    BY <1>1, <1>5, Starts
  <2>2. 0 \in Done
    BY <2>1
  <2>3. ASSUME NEW a \in Done PROVE a + 1 \in Done
    <3>1. SUFFICES ASSUME a + 1 <= Len(lines) PROVE Start(new, a + 1) = Start(lines, a + 1)
      BY <3>1
    <3>2. a + 1 \in 1 .. Len(lines) /\ (a + 1) - 1 = a /\ Start(new, a) = Start(lines, a)
      BY <1>1, <3>1
    <3> QED BY <1>6, <2>1, <3>2
  <2>4. 0 .. Len(lines) \subseteq Done
    <3> HIDE DEF Done
    <3> QED BY <1>1, <2>2, <2>3, UpTo
  <2>5. \A a \in 0 .. Len(lines) : Start(new, a) = Start(lines, a)
    BY <1>1, <2>4
  <2>6. Len(lines) \in 0 .. Len(lines)
    BY <1>1
  <2>7. G \in Seq(SymbolType)
    BY <1>7, ShapeFlat
  <2> HIDE DEF G, F
  <2> QED BY <2>1, <2>5, <2>6, <2>7
<1>9. ASSUME NEW j \in 1 .. Len(F) PROVE G[j] = IF j = k THEN s ELSE F[j]
  <2>1. PICK a \in 1 .. Len(lines) : \E b \in 1 .. Len(lines[a]) : j = Start(lines, a - 1) + b
    BY <1>1, FlatCovers
  <2>2. PICK b \in 1 .. Len(lines[a]) : j = Start(lines, a - 1) + b
    BY <2>1
  <2>3. F[j] = lines[a][b]
    BY <1>1, <2>2, FlatIndex
  <2>4. G[j] = new[a][b]
    <3>1. a \in 1 .. Len(new) /\ b \in 1 .. Len(new[a]) /\ Start(new, a - 1) = Start(lines, a - 1)
      <4>1. a - 1 \in 0 .. Len(lines)
        BY <1>1
      <4> QED BY <1>5, <1>6, <1>8, <4>1
    <3> QED BY <1>5, <2>2, <3>1, FlatIndex
  <2>s. \A c \in 0 .. Len(lines) : Start(lines, c) \in Nat
    BY <1>1, Starts
  <2>5. CASE a = l + 1
    <3>1. b = i + 1 <=> j = k
      <4>1. a - 1 = l /\ Start(lines, l) \in Nat
        <5>1. a - 1 = l /\ l \in 0 .. Len(lines)
          BY <1>0, <1>1, <2>5
        <5> QED BY <5>1, <2>s
      <4> QED BY <1>0, <2>2, <4>1
    <3>2. CASE b = i + 1
      BY <1>3, <1>5, <2>4, <2>5, <3>1, <3>2
    <3>3. CASE b # i + 1
      <4>1. new[a][b] = line[b] /\ lines[a][b] = line[b]
        BY <1>3, <1>5, <2>5, <3>3 DEF line
      <4> QED BY <2>3, <2>4, <3>1, <3>3, <4>1
    <3> QED BY <3>2, <3>3
  <2>6. CASE a # l + 1
    <3>1. G[j] = F[j]
      BY <1>5, <2>3, <2>4, <2>6
    <3>2. j = k => s = F[j]
      <4>1. SUFFICES ASSUME j = k PROVE FALSE
        BY <4>1
      <4>2. /\ Start(lines, l + 1) = Start(lines, l) + Len(lines[l + 1]) /\ Start(lines, a) = Start(lines, a - 1) + Len(lines[a])
            /\ Start(lines, l) \in Nat /\ Start(lines, a - 1) \in Nat /\ l \in 0 .. Len(lines) /\ a - 1 \in 0 .. Len(lines) /\ a \in 0 .. Len(lines) /\ l + 1 \in 0 .. Len(lines)
        <5>1. l \in 0 .. Len(lines) /\ a - 1 \in 0 .. Len(lines) /\ a \in 0 .. Len(lines) /\ l + 1 \in 0 .. Len(lines) /\ (l + 1) - 1 = l
          BY <1>0, <1>1
        <5> QED BY <1>0, <1>1, <2>s, <5>1, Starts
      <4>n. j \in Nat /\ k \in Nat /\ b \in Nat /\ b >= 1 /\ b <= Len(lines[a])
        <5>1. Len(lines[a]) \in Nat
          BY <1>1, LineIn
        <5> QED BY <1>1, <4>1, <5>1
      <4>3. CASE l + 1 <= a - 1
        <5>1. Start(lines, l + 1) <= Start(lines, a - 1)
          BY <1>1, <4>2, <4>3, StartsClimb
        <5>2. k = Start(lines, l) + i + 1 /\ i + 1 <= Len(lines[l + 1]) /\ i \in Nat /\ Len(lines[l + 1]) \in Nat
          BY <1>0, <1>2, <4>2 DEF line
        <5> HIDE DEF F
        <5>3. Start(lines, l) + i + 1 # Start(lines, a - 1) + b
          <6>1. Start(lines, l + 1) \in Nat
            BY <2>s, <4>2
          <6>2. i \in Nat /\ Len(lines[l + 1]) \in Nat /\ i + 1 <= Len(lines[l + 1]) /\ b \in Nat /\ b >= 1
            BY <4>n, <5>2
          <6>3. Start(lines, l) \in Nat /\ Start(lines, a - 1) \in Nat /\ Start(lines, l + 1) = Start(lines, l) + Len(lines[l + 1])
            BY <4>2
          <6> QED BY <5>1, <6>1, <6>2, <6>3, LeftOf
        <5> QED BY <2>2, <4>1, <5>2, <5>3
      <4>4. CASE a <= l
        <5>1. Start(lines, a) <= Start(lines, l)
          BY <1>1, <4>2, <4>4, StartsClimb
        <5>2. Len(lines[a]) \in Nat
          BY <1>1, LineIn
        <5>3. k = Start(lines, l) + i + 1 /\ i \in Nat
          BY <1>0, <1>2, <4>2 DEF line
        <5> HIDE DEF F
        <5>4. Start(lines, l) + i + 1 # Start(lines, a - 1) + b
          <6>1. Start(lines, a) \in Nat
            BY <2>s, <4>2
          <6> QED BY <4>2, <4>n, <5>1, <5>2, <5>3, <6>1, RightOf, Zenon
        <5> QED BY <2>2, <4>1, <5>3, <5>4
      <4> QED BY <1>0, <2>6, <4>3, <4>4
    <3> QED BY <3>1, <3>2
  <2> QED BY <2>5, <2>6
<1>10. Swapped(F, k, s, G)
  <2>1. k \in 1 .. Len(F)
    OBVIOUS
  <2> HIDE DEF F, G
  <2> QED BY <1>8, <1>9, <2>1 DEF Swapped
<1>11. \A j \in 1 .. Len(F) : G[j].pos = F[j].pos /\ G[j].val = F[j].val
  BY <1>9
<1>12. Ordered(new)
  <2> HIDE DEF F, G
  <2>1. Sorted(G)
    BY <1>1, <1>8, <1>11 DEF Sorted
  <2>2. Ended(G)
    BY <1>1, <1>8, <1>11 DEF Ended
  <2> QED BY <1>7, <2>1, <2>2 DEF Ordered, G
<1> QED BY <1>10, <1>12 DEF new, y, line, l, i

\* A symbol that is there has an index.
LEMMA InContent ==
  ASSUME NEW T, NEW F \in Seq(T), NEW x \in ToSet(F)
  PROVE  \E k \in 1 .. Len(F) : x = F[k]
<1>1. DOMAIN F = 1 .. Len(F)
  OBVIOUS
<1> QED BY <1>1 DEF ToSet

\* The alignment that a symbol of the line itself brings is there already.
LEMMA LineEndKept ==
  ASSUME NEW r, Good(r), NEW s \in ToSet(Flatten(r.symbols))
  PROVE  AlignLineEnd(r, s) = r
<1> DEFINE lines == r.symbols
           F == Flatten(lines)
           at == findPosition(lines, s.pos)
           line == lines[at.line + 1]
<1>0. Ordered(lines) /\ Shape(lines) /\ Sorted(F) /\ r \in Replica /\ F \in Seq(SymbolType) /\ lines \in Seq(Seq(SymbolType)) /\ r.state = "running"
  BY ShapeFlat DEF Good, Ordered, Shape
<1>1. PICK k \in 1 .. Len(F) : s = F[k]
  BY <1>0, InContent
<1>2. AtPlace(lines, at, k - 1)
  BY <1>0, <1>1, FoundPlace
<1> HIDE DEF at
<1>3. at.kind = "found" /\ at.line \in Nat /\ at.line + 1 \in 1 .. Len(lines)
  BY <1>2 DEF AtPlace
<1>4. SUFFICES ASSUME s.val \in {NL, NUL} PROVE handleRemoteAlignChange(r, s) = r
  BY <1>4, Zenon DEF AlignLineEnd
<1>5. line[Len(line)] = s
  BY <1>0, <1>1, <1>2, <1>4, LineEnd
<1>6. line \in Seq(SymbolType) /\ Len(line) \in 1 .. Len(line)
  <2>1. Len(line) > 0
    BY <1>0, <1>3 DEF Shape
  <2> QED BY <1>0, <1>3, <2>1, LineIn
<1> HIDE DEF line
<1>7. [line EXCEPT ![Len(line)].align = s.align] = line
  <2>1. s \in SymbolType
    BY <1>0, <1>1
  <2>2. [s EXCEPT !.align = s.align] = s
    BY <2>1 DEF SymbolType
  <2>3. [line EXCEPT ![Len(line)] = s] = line
    BY <1>5, <1>6
  <2> QED BY <1>5, <2>2, <2>3
<1>8. SetLine(lines, at.line, line) = lines
  BY <1>0, <1>3 DEF SetLine, line
<1>9. [r EXCEPT !.symbols = lines] = r
  BY <1>0 DEF Replica
<1>10. handleRemoteAlignChange(r, s) =
         [r EXCEPT !.symbols = SetLine(r.symbols, at.line, [line EXCEPT ![Len(line)].align = s.align])]
  <2>1. at.kind # "absent" /\ at.kind # "abort"
    BY <1>3
  <2> QED BY <1>0, <2>1, Zenon DEF handleRemoteAlignChange, at, line
<1> QED BY <1>7, <1>8, <1>9, <1>10

\* So do the alignments of all lines that are there.
LEMMA LineEndsKept ==
  ASSUME NEW r, Good(r), NEW S \in Seq(SymbolType), ToSet(S) \subseteq ToSet(Flatten(r.symbols))
  PROVE  FoldLeft(AlignLineEnd, r, S) = r
<1>0. Len(S) \in Nat /\ DOMAIN S = 1 .. Len(S)
  OBVIOUS
<1>f. PICK f : LineEnds!Steps(r, S, f)
  BY <1>0, Counting, LineEnds!FoldedSteps DEF LineEnds!CanCount
<1>1. /\ DOMAIN f = 0 .. Len(S) /\ f[0] = r /\ f[Len(S)] = LineEnds!Folded(r, S)
      /\ \A k \in 1 .. Len(S) : f[k] = AlignLineEnd(f[k - 1], S[k])
  BY <1>f, Zenon DEF LineEnds!Steps
<1>2. LineEnds!Folded(r, S) = FoldLeft(AlignLineEnd, r, S)
  BY DEF LineEnds!Folded, FoldLeft, MapThenFoldSet, Max, LineEnds!MapThenFoldSet, LineEnds!Greatest
<1> DEFINE Done == {k \in Nat : k <= Len(S) => f[k] = r}
<1>3. 0 \in Done
  BY <1>1
<1>4. ASSUME NEW k \in Done PROVE k + 1 \in Done
  <2> SUFFICES ASSUME k + 1 <= Len(S) PROVE f[k + 1] = r
    OBVIOUS
  <2>1. k + 1 \in 1 .. Len(S) /\ (k + 1) - 1 = k /\ f[k] = r
    BY <1>0
  <2>2. S[k + 1] \in ToSet(Flatten(r.symbols))
    BY <1>0, <2>1 DEF ToSet
  <2>3. AlignLineEnd(r, S[k + 1]) = r
    BY <2>2, LineEndKept
  <2> QED BY <1>1, <2>1, <2>3
<1>5. 0 .. Len(S) \subseteq Done
  <2> HIDE DEF Done
  <2> QED BY <1>0, <1>3, <1>4, UpTo
<1>6. Len(S) \in Done
  <2>1. Len(S) \in 0 .. Len(S)
    BY <1>0
  <2> HIDE DEF Done
  <2> QED BY <1>5, <2>1
<1> QED BY <1>0, <1>1, <1>2, <1>6

\* The characters of symbols that are not the terminator.
LEMMA CharsOf ==
  ASSUME NEW S \in Seq(SymbolType), \A k \in 1 .. Len(S) : S[k].val # NUL
  PROVE  LET chars == FoldLeft(AppendChar, <<>>, S)
         IN  chars \in Seq(STRING) /\ Len(chars) = Len(S) /\ \A k \in 1 .. Len(S) : chars[k] = S[k].val
<1>0. Len(S) \in Nat /\ DOMAIN S = 1 .. Len(S)
  OBVIOUS
<1>f. PICK f : Chars!Steps(<<>>, S, f)
  BY <1>0, Counting, Chars!FoldedSteps DEF Chars!CanCount
<1>1. /\ DOMAIN f = 0 .. Len(S) /\ f[0] = <<>> /\ f[Len(S)] = Chars!Folded(<<>>, S)
      /\ \A k \in 1 .. Len(S) : f[k] = AppendChar(f[k - 1], S[k])
  BY <1>f, Zenon DEF Chars!Steps
<1>2. Chars!Folded(<<>>, S) = FoldLeft(AppendChar, <<>>, S)
  BY DEF Chars!Folded, FoldLeft, MapThenFoldSet, Max, Chars!MapThenFoldSet, Chars!Greatest
<1> DEFINE Spelt(k) == f[k] \in Seq(STRING) /\ Len(f[k]) = k /\ \A j \in 1 .. k : f[k][j] = S[j].val
           Done == {k \in Nat : k <= Len(S) => Spelt(k)}
<1>3. 0 \in Done
  <2>1. f[0] \in Seq(STRING) /\ Len(f[0]) = 0
    BY <1>1
  <2> QED BY <2>1
<1>4. ASSUME NEW k \in Done PROVE k + 1 \in Done
  <2> SUFFICES ASSUME k + 1 <= Len(S) PROVE Spelt(k + 1)
    OBVIOUS
  <2>1. k + 1 \in 1 .. Len(S) /\ (k + 1) - 1 = k /\ Spelt(k) /\ k \in Nat
    BY <1>0
  <2>2. f[k + 1] = Append(f[k], S[k + 1].val) /\ S[k + 1].val \in STRING
    <3>1. S[k + 1] \in SymbolType /\ S[k + 1].val # NUL
      BY <2>1
    <3>2. S[k + 1].val \in STRING
      BY <3>1, SymbolFields
    <3> QED BY <1>1, <2>1, <3>1, <3>2 DEF AppendChar
  <2>3. /\ Append(f[k], S[k + 1].val) \in Seq(STRING) /\ Len(Append(f[k], S[k + 1].val)) = Len(f[k]) + 1
        /\ Append(f[k], S[k + 1].val)[Len(f[k]) + 1] = S[k + 1].val
        /\ \A j \in 1 .. Len(f[k]) : Append(f[k], S[k + 1].val)[j] = f[k][j]
    BY <2>1, <2>2, OneMore
  <2>4. f[k + 1] \in Seq(STRING) /\ Len(f[k + 1]) = k + 1 /\ f[k + 1][k + 1] = S[k + 1].val
    BY <2>1, <2>2, <2>3
  <2>5. \A j \in 1 .. k : f[k + 1][j] = S[j].val
    BY <2>1, <2>2, <2>3
  <2>6. \A j \in 1 .. k + 1 : j \in 1 .. k \/ j = k + 1
    BY <2>1
  <2> QED BY <2>4, <2>5, <2>6
<1>5. 0 .. Len(S) \subseteq Done
  <2> HIDE DEF Done
  <2> QED BY <1>0, <1>3, <1>4, UpTo
<1>6. Len(S) \in Done
  <2>1. Len(S) \in 0 .. Len(S)
    BY <1>0
  <2> HIDE DEF Done
  <2> QED BY <1>5, <2>1
<1>7. Spelt(Len(S))
  BY <1>0, <1>6
<1> QED BY <1>1, <1>2, <1>7

\* What another editor pasted, where it belongs.
LEMMA BatchPasted ==
  ASSUME NEW r, Good(r), NEW o, o \in 0 .. Len(Flatten(r.symbols)) - 1, NEW S, Batch(Flatten(r.symbols), o, S), Len(S) > 0
  PROVE  Holds(handleRemotePaste(r, S), ToSet(Flatten(r.symbols)) \cup ToSet(S))
<1> DEFINE at == findInsertPosition(r.symbols, S[1].pos)
           inserted == FoldLeft(InsertRemote, r, S)
           chars == FoldLeft(AppendChar, <<>>, S)
           shown == on_insertGroup(inserted, at.line, at.index, chars)
           X == ToSet(Flatten(r.symbols)) \cup ToSet(S)
<1>1. RemoteGrown(r, o, S, Len(S), inserted)
  BY InsertedAll
<1>2. chars \in Seq(STRING) /\ Len(chars) = Len(S) /\ \A k \in 1 .. Len(S) : chars[k] = S[k].val
  <2>1. S \in Seq(SymbolType) /\ \A k \in 1 .. Len(S) : S[k].val # NUL
    BY DEF Batch
  <2> QED BY <2>1, CharsOf
<1> HIDE DEF inserted, chars
<1>3. Holds(shown, X)
  BY <1>1, <1>2, InsertedShown
<1> HIDE DEF shown
<1>4. FoldLeft(AlignLineEnd, shown, S) = shown
  <2>1. Good(shown) /\ ToSet(S) \subseteq ToSet(Flatten(shown.symbols)) /\ S \in Seq(SymbolType)
    BY <1>3 DEF Holds, Batch
  <2> QED BY <2>1, LineEndsKept
<1>5. handleRemotePaste(r, S) = FoldLeft(AlignLineEnd, shown, S)
  BY Zenon DEF handleRemotePaste, shown, inserted, chars
<1> QED BY <1>3, <1>4, <1>5

\* The first symbol of a load is the terminator, and every other goes before it.
LEMMA LoadFirst ==
  ASSUME NEW s \in SymbolType, s.val = NUL
  PROVE  Holds(LoadSymbol(NewReplica, s), {s})
<1> DEFINE q == InsertRemote(NewReplica, s)
<1>1. findInsertPosition(NewReplica.symbols, s.pos) = Place(0, 0)
  BY DEF findInsertPosition, NewReplica
<1>2. CanInsert(NewReplica.symbols, Place(0, 0))
  BY DEF CanInsert, Place, NewReplica
<1>3. insertChar(NewReplica.symbols, s, 0, 0) = << <<s>> >>
  <2>1. s.val # NL
    BY DEF NL, NUL
  <2>2. <<>> \o <<s>> \o <<>> = <<s>>
    OBVIOUS
  <2>3. SubSeq(<<>>, 1, 0) = <<>> /\ SubSeq(<<>>, 0 + 1, Len(<<>>)) = <<>>
    OBVIOUS
  <2>4. [ << <<>> >> EXCEPT ![0 + 1] = <<s>>] = << <<s>> >>
    OBVIOUS
  <2>5. NewReplica.symbols = << <<>> >> /\ << <<>> >>[0 + 1] = <<>>
    BY DEF NewReplica
  <2> QED BY <2>1, <2>2, <2>3, <2>4, <2>5 DEF insertChar, SetLine
<1>4. Becomes(NewReplica, << <<s>> >>, 0, q)
  <2>1. Place(0, 0).line = 0 /\ Place(0, 0).index = 0
    BY DEF Place
  <2>2. q = [NewReplica EXCEPT !.symbols = << <<s>> >>, !.size = NewReplica.size + 1]
    <3>1. NewReplica.state = "running"
      BY DEF NewReplica
    <3> QED BY <1>1, <1>2, <1>3, <2>1, <3>1, Zenon DEF InsertRemote
  <2>3. NewReplica.size + 1 = 0
    BY DEF NewReplica
  <2>4. NewReplica \in Replica
    <3>1. << <<>> >> \in Seq(Seq(SymbolType)) /\ <<>> \in Seq(STRING) /\ -1 \in Int
      OBVIOUS
    <3> QED BY <3>1 DEF Replica, NewReplica
  <2>5. << <<s>> >> \in Seq(Seq(SymbolType)) /\ 0 \in Int
    OBVIOUS
  <2>6. q = [NewReplica EXCEPT !.symbols = << <<s>> >>, !.size = 0]
    BY <2>2, <2>3, Zenon
  <2> HIDE DEF q
  <2> QED BY <2>4, <2>5, <2>6, ReplicaSet, Zenon
<1>5. handleRemoteInsert(NewReplica, s) = q
  BY Zenon DEF handleRemoteInsert
<1> HIDE DEF q
<1>7. q \in Replica /\ q.state = "running" /\ q.size = 0 /\ q.text = <<>> /\ q.symbols = << <<s>> >>
  <2>1. NewReplica.state = "running" /\ NewReplica.text = <<>>
    BY DEF NewReplica
  <2> QED BY <1>4, <2>1, Zenon DEF Becomes
<1>6. /\ Flatten(q.symbols) = <<s>> /\ q.symbols \in Seq(Seq(SymbolType)) /\ Len(q.symbols) = 1 /\ q.symbols[1] = <<s>> /\ <<s>> \in Seq(SymbolType)
      /\ Len(<<s>>) = 1 /\ <<s>>[1] = s
  <2>1. <<s>> \in Seq(SymbolType)
    OBVIOUS
  <2>2. Flatten(<< <<s>> >>) = <<s>>
    BY <2>1, FlatOne, Zenon
  <2>4. << <<s>> >> \in Seq(Seq(SymbolType)) /\ Len(<< <<s>> >>) = 1 /\ << <<s>> >>[1] = <<s>>
    BY <2>1
  <2>5. Len(<<s>>) = 1 /\ <<s>>[1] = s
    OBVIOUS
  <2> QED BY <1>7, <2>1, <2>2, <2>4, <2>5, Zenon
<1>8. Good(q)
  <2>1. Shape(q.symbols)
    <3>1. s.val # NL
      BY DEF NL, NUL
    <3> QED BY <1>6, <3>1 DEF Shape
  <2>2. Sorted(<<s>>) /\ Ended(<<s>>)
    BY <1>6 DEF Sorted, Ended
  <2>3. Follows(<<>>, <<s>>)
    BY <1>6 DEF Follows
  <2>4. 0 = Len(<<s>>) - 1
    BY <1>6
  <2> QED BY <1>6, <1>7, <2>1, <2>2, <2>3, <2>4 DEF Good, Ordered
<1>9. ToSet(Flatten(q.symbols)) = {s}
  BY <1>6 DEF ToSet
<1>10. LoadSymbol(NewReplica, s) = q
  <2>1. AlignLineEnd(q, s) = q
    BY <1>8, <1>9, LineEndKept
  <2> QED BY <1>5, <2>1, Zenon DEF LoadSymbol
<1> QED BY <1>8, <1>9, <1>10 DEF Holds

\* Every symbol after the first goes before those that are there.
LEMMA LoadNext ==
  ASSUME NEW r, Good(r), NEW s \in SymbolType, s.val # NUL, NEW o, o \in 0 .. Len(Flatten(r.symbols)) - 1, Gap(Flatten(r.symbols), o, s.pos)
  PROVE  Holds(LoadSymbol(r, s), ToSet(Flatten(r.symbols)) \cup {s})
<1>1. Holds(handleRemoteInsert(r, s), ToSet(Flatten(r.symbols)) \cup {s})
  BY SymbolInserted
<1> DEFINE q == handleRemoteInsert(r, s)
<1> HIDE DEF q
<1>2. Holds(q, ToSet(Flatten(r.symbols)) \cup {s})
  BY <1>1 DEF q
<1>3. AlignLineEnd(q, s) = q
  BY <1>2, LineEndKept DEF Holds
<1> QED BY <1>2, <1>3, Zenon DEF LoadSymbol, q

Erasures == INSTANCE FoldProofs WITH Op <- EraseRound

\* The lines without k symbols after the first o.
Shrunk(F, o, k, lines) == Shape(lines) /\ ShrunkBy(F, o, k, Flatten(lines))

\* None of an erasure is gone at first.
LEMMA ShrunkFirst == ASSUME NEW lines, Shape(lines), NEW o \in Nat PROVE Shrunk(Flatten(lines), o, 0, lines)
<1>1. Len(Flatten(lines)) \in Nat
  BY ShapeFlat
<1> QED BY <1>1 DEF Shrunk, ShrunkBy

\* Lines stay in order while symbols go.
LEMMA ShrunkOrdered ==
  ASSUME NEW F \in Seq(SymbolType), Sorted(F), Ended(F), NEW o \in Nat, NEW n \in Nat, o + n < Len(F), NEW lines, Shrunk(F, o, n, lines)
  PROVE  Ordered(lines)
<1> DEFINE G == Flatten(lines)
<1>0. G \in Seq(SymbolType) /\ Len(G) = Len(F) - n /\ Len(F) \in Nat /\ Shape(lines)
  BY ShapeFlat DEF Shrunk, ShrunkBy
<1>1. /\ \A k \in 1 .. o : G[k] = F[k]
      /\ \A k \in o + 1 .. Len(F) - n : G[k] = F[k + n]
  BY DEF Shrunk, ShrunkBy
<1> HIDE DEF G
<1> DEFINE at(i) == IF i <= o THEN i ELSE i + n
<1>2. ASSUME NEW i \in 1 .. Len(G) PROVE at(i) \in 1 .. Len(F) /\ G[i] = F[at(i)] /\ (i = Len(G) <=> at(i) = Len(F))
  <2>1. CASE i <= o
    <3>1. i \in 1 .. o /\ i \in 1 .. Len(F) /\ i # Len(G) /\ i # Len(F)
      BY <1>0, <2>1
    <3> QED BY <1>1, <2>1, <3>1
  <2>2. CASE i > o
    <3>1. i \in o + 1 .. Len(F) - n /\ i + n \in 1 .. Len(F) /\ (i = Len(G) <=> i + n = Len(F)) /\ ~(i <= o)
      BY <1>0, <2>2
    <3> QED BY <1>1, <3>1
  <2> QED BY <1>0, <2>1, <2>2
<1>3. ASSUME NEW i \in 1 .. Len(G), NEW j \in 1 .. Len(G), i < j PROVE at(i) < at(j)
  BY <1>0, <1>3
<1> HIDE DEF at
<1>4. Sorted(G)
  BY <1>2, <1>3 DEF Sorted
<1>5. Ended(G)
  BY <1>2 DEF Ended
<1> QED BY <1>0, <1>4, <1>5 DEF Ordered, G

\* A symbol that is not the last of all is not alone in the last line.
LEMMA NotAlone ==
  ASSUME NEW lines, Shape(lines), NEW at, NEW o \in Nat, AtPlace(lines, at, o), o + 1 < Len(Flatten(lines))
  PROVE  /\ at.line + 1 < Len(lines) \/ at.index + 1 < Len(lines[at.line + 1])
         /\ (at.index = 0 /\ Len(lines[at.line + 1]) = 1) =>
               (lines[at.line + 1][at.index + 1].val = NL /\ at.line + 1 < Len(lines))
<1> DEFINE l == at.line
           i == at.index
           G == Flatten(lines)
<1>0. /\ l \in Nat /\ i \in Nat /\ l + 1 \in 1 .. Len(lines) /\ i + 1 \in 1 .. Len(lines[l + 1]) /\ Start(lines, l) + i = o
      /\ lines \in Seq(Seq(SymbolType)) /\ Len(lines) \in Nat
  BY DEF AtPlace, Shape
<1>1. Len(G) \in Nat /\ Len(lines[l + 1]) \in Nat
  <2>1. Len(G) \in Nat
    BY ShapeFlat
  <2>2. Len(lines[l + 1]) \in Nat
    BY <1>0, LineIn
  <2> QED BY <2>1, <2>2
<1>2. l + 1 < Len(lines) \/ i + 1 < Len(lines[l + 1])
  <2>1. SUFFICES ASSUME l + 1 = Len(lines) PROVE i + 1 < Len(lines[l + 1])
    BY <1>0, <1>1, <2>1
  <2>2. Start(lines, l) + Len(lines[l + 1]) = Len(G) /\ Start(lines, l) \in Nat
    <3>1. l \in 0 .. Len(lines) /\ (l + 1) - 1 = l
      <4> HIDE DEF l, i, G
      <4> QED BY <1>0
    <3> QED BY <1>0, <1>1, <2>1, <3>1, Starts DEF G
  <2> HIDE DEF G, l, i
  <2>3. i + 1 <= Len(lines[l + 1]) /\ Start(lines, l) + i + 1 < Len(G)
    BY <1>0, <2>2 DEF G
  <2> QED BY <1>0, <1>1, <2>2, <2>3
<1>3. ASSUME i = 0, Len(lines[l + 1]) = 1 PROVE lines[l + 1][i + 1].val = NL /\ l + 1 < Len(lines)
  <2>1. l + 1 < Len(lines)
    BY <1>2, <1>3
  <2>2. i + 1 = Len(lines[l + 1])
    BY <1>3
  <2> QED BY <1>0, <2>1, <2>2 DEF Shape
<1> QED BY <1>2, <1>3

\* One more symbol of an erasure.
LEMMA EraseNext ==
  ASSUME NEW F \in Seq(SymbolType), NEW o \in Nat, NEW k \in Nat, (o + k) + 1 < Len(F), NEW lines, Shrunk(F, o, k, lines), Ordered(lines),
         NEW at, AtPlace(lines, at, o)
  PROVE  LET s == F[(o + k) + 1]
             new == EraseSymbol(lines, at.line, at.index, s.val = NL)
         IN  /\ lines[at.line + 1][at.index + 1] = s
             /\ Shrunk(F, o, k + 1, new) /\ AtPlace(new, Place(at.line, at.index), o)
<1> DEFINE l == at.line
           i == at.index
           G == Flatten(lines)
           s == F[(o + k) + 1]
           new == EraseSymbol(lines, l, i, s.val = NL)
           H == Flatten(new)
<1>0. /\ l \in Nat /\ i \in Nat /\ l + 1 \in 1 .. Len(lines) /\ i + 1 \in 1 .. Len(lines[l + 1]) /\ Start(lines, l) + i = o
  BY DEF AtPlace
<1>1. G \in Seq(SymbolType) /\ Len(G) = Len(F) - k /\ Len(F) \in Nat /\ Shape(lines)
  <2>1. Shape(lines) /\ ShrunkBy(F, o, k, G)
    BY DEF Shrunk
  <2>2. Len(G) = Len(F) - k
    BY <2>1 DEF ShrunkBy
  <2>3. G \in Seq(SymbolType)
    BY <2>1, ShapeFlat
  <2> HIDE DEF G
  <2>4. Len(F) \in Nat
    OBVIOUS
  <2> QED BY <2>1, <2>2, <2>3, <2>4
<1>2. /\ \A j \in 1 .. o : G[j] = F[j]
      /\ \A j \in o + 1 .. Len(F) - k : G[j] = F[j + k]
  BY DEF Shrunk, ShrunkBy
<1> HIDE DEF G
<1>3. o + 1 \in 1 .. Len(G) /\ o + 1 \in o + 1 .. Len(F) - k /\ (o + 1) + k = (o + k) + 1 /\ (o + 1) - 1 = o /\ o + 1 < Len(G)
  BY <1>1
<1>4. lines[l + 1][i + 1] = s
  <2>1. lines[l + 1][i + 1] = G[o + 1]
    BY <1>3, LineEnd DEF G
  <2> QED BY <1>2, <1>3, <2>1
<1> HIDE DEF l, i, s
<1>5. l + 1 < Len(lines) \/ i + 1 < Len(lines[l + 1])
  BY <1>1, <1>3, NotAlone DEF l, i, G
<1>6. Erased(lines, l, i, new)
  <2>1. Erased(lines, l, i, EraseSymbol(lines, l, i, lines[l + 1][i + 1].val = NL))
    BY <1>0, <1>1, <1>5, ErasedSymbol
  <2> QED BY <1>4, <2>1
<1> HIDE DEF new
<1>7. Shape(new) /\ ShrunkBy(G, o, 1, H) /\ AtPlace(new, Place(l, i), o)
  BY <1>0, <1>6 DEF Erased, G
<1> HIDE DEF H
<1>8. /\ Len(H) = Len(G) - 1
      /\ \A j \in 1 .. o : H[j] = G[j]
      /\ \A j \in o + 1 .. Len(G) - 1 : H[j] = G[j + 1]
  BY <1>7 DEF ShrunkBy
<1>9. ShrunkBy(F, o, k + 1, H)
  <2>1. Len(H) = Len(F) - (k + 1)
    BY <1>1, <1>8
  <2>2. \A j \in 1 .. o : H[j] = F[j]
    BY <1>2, <1>8
  <2>3. ASSUME NEW j \in o + 1 .. Len(F) - (k + 1) PROVE H[j] = F[j + (k + 1)]
    <3>1. j \in o + 1 .. Len(G) - 1 /\ j + 1 \in o + 1 .. Len(F) - k /\ (j + 1) + k = j + (k + 1)
      BY <1>1
    <3> QED BY <1>2, <1>8, <3>1
  <2> QED BY <2>1, <2>2, <2>3 DEF ShrunkBy
<1>10. Shrunk(F, o, k + 1, new)
  BY <1>7, <1>9 DEF Shrunk, H
<1> QED BY <1>4, <1>7, <1>10 DEF l, i, s, new

\* The symbols that are left.
Remains(F, o, n, G) == ToSet(G) = {x \in ToSet(F) : \A k \in 1 .. n : x.pos # F[o + k].pos}

\* The symbols that are left when a part is gone.
LEMMA ShrunkContent ==
  ASSUME NEW F \in Seq(SymbolType), Sorted(F), NEW o \in Nat, NEW n \in Nat, o + n <= Len(F), NEW G \in Seq(SymbolType), ShrunkBy(F, o, n, G)
  PROVE  Remains(F, o, n, G)
<1>1. /\ Len(G) = Len(F) - n
      /\ \A k \in 1 .. o : G[k] = F[k]
      /\ \A k \in o + 1 .. Len(F) - n : G[k] = F[k + n]
      /\ Len(F) \in Nat
  BY DEF ShrunkBy
<1>2. ToSet(G) = {G[i] : i \in 1 .. Len(G)} /\ ToSet(F) = {F[i] : i \in 1 .. Len(F)}
  BY DEF ToSet
<1>3. \A i \in 1 .. Len(F), j \in 1 .. Len(F) : i # j => F[i].pos # F[j].pos
  <2>1. \A i \in 1 .. Len(F) : F[i].pos \in Int
    BY SymbolFields
  <2> QED BY <2>1 DEF Sorted
<1> DEFINE X == {x \in ToSet(F) : \A k \in 1 .. n : x.pos # F[o + k].pos}
<1>4. ASSUME NEW x \in ToSet(G) PROVE x \in X
  <2>1. PICK i \in 1 .. Len(G) : x = G[i]
    BY <1>2
  <2>2. PICK j \in 1 .. Len(F) : x = F[j] /\ (j <= o \/ j > o + n)
    <3>1. CASE i <= o
      <4>1. i \in 1 .. o /\ i \in 1 .. Len(F)
        BY <1>1, <3>1
      <4> QED BY <1>1, <2>1, <3>1, <4>1
    <3>2. CASE i > o
      <4>1. i \in o + 1 .. Len(F) - n /\ i + n \in 1 .. Len(F) /\ i + n > o + n
        BY <1>1, <3>2
      <4>2. x = F[i + n]
        BY <1>1, <2>1, <4>1
      <4> QED BY <4>1, <4>2
    <3> QED BY <3>1, <3>2
  <2>3. \A k \in 1 .. n : o + k \in 1 .. Len(F) /\ o + k # j
    BY <1>1, <2>2
  <2>4. \A k \in 1 .. n : x.pos # F[o + k].pos
    BY <1>3, <2>2, <2>3
  <2>5. x \in ToSet(F)
    BY <1>2, <2>2
  <2> QED BY <2>4, <2>5
<1>5. ASSUME NEW x \in X PROVE x \in ToSet(G)
  <2>1. PICK j \in 1 .. Len(F) : x = F[j]
    BY <1>2
  <2>2. j <= o \/ j > o + n
    <3>1. SUFFICES ASSUME o + 1 <= j, j <= o + n PROVE FALSE
      BY <1>1, <3>1
    <3>2. j - o \in 1 .. n /\ o + (j - o) = j
      BY <1>1, <3>1
    <3>3. x.pos # F[o + (j - o)].pos
      BY <3>2
    <3> QED BY <2>1, <3>2, <3>3
  <2>3. CASE j <= o
    <3>1. j \in 1 .. o /\ j \in 1 .. Len(G)
      BY <1>1, <2>3
    <3>2. G[j] = x
      BY <1>1, <2>1, <3>1
    <3> QED BY <1>2, <3>1, <3>2
  <2>4. CASE j > o + n
    <3>1. j - n \in o + 1 .. Len(F) - n /\ (j - n) + n = j /\ j - n \in 1 .. Len(G)
      BY <1>1, <2>4
    <3>2. G[j - n] = x
      BY <1>1, <2>1, <3>1
    <3> QED BY <1>2, <3>1, <3>2
  <2> QED BY <2>2, <2>3, <2>4
<1> HIDE DEF X
<1>6. ToSet(G) = X
  BY <1>4, <1>5
<1> QED BY <1>6 DEF X, Remains

\* The text without the characters follows the lines without the symbols.
LEMMA FollowsShrunk ==
  ASSUME NEW F \in Seq(SymbolType), NEW o \in Nat, NEW n \in Nat, o + n < Len(F), NEW G \in Seq(SymbolType), ShrunkBy(F, o, n, G),
         NEW text, Follows(text, F), NEW new \in Seq(STRING), ShrunkBy(text, o, n, new)
  PROVE  Follows(new, G)
<1>1. /\ Len(G) = Len(F) - n
      /\ \A k \in 1 .. o : G[k] = F[k]
      /\ \A k \in o + 1 .. Len(F) - n : G[k] = F[k + n]
      /\ Len(F) \in Nat
  BY DEF ShrunkBy
<1>2. /\ Len(new) = Len(text) - n
      /\ \A k \in 1 .. o : new[k] = text[k]
      /\ \A k \in o + 1 .. Len(text) - n : new[k] = text[k + n]
      /\ Len(text) = Len(F) - 1
  BY DEF ShrunkBy, Follows
<1>3. \A k \in 1 .. Len(F) - 1 : text[k] = F[k].val
  BY DEF Follows
<1>4. ASSUME NEW k \in 1 .. Len(G) - 1 PROVE new[k] = G[k].val
  <2>1. CASE k <= o
    <3>1. k \in 1 .. o /\ k \in 1 .. Len(F) - 1
      BY <1>1, <2>1
    <3> QED BY <1>1, <1>2, <1>3, <3>1
  <2>2. CASE k > o
    <3>1. k \in o + 1 .. Len(F) - n /\ k \in o + 1 .. Len(text) - n /\ k + n \in 1 .. Len(F) - 1
      BY <1>1, <1>2, <2>2
    <3> QED BY <1>1, <1>2, <1>3, <3>1
  <2> QED BY <2>1, <2>2
<1>5. Len(new) = Len(G) - 1
  BY <1>1, <1>2
<1> QED BY <1>4, <1>5 DEF Follows

\* The text edit shows what a remote editor erased.
Cleared(r, o, n, q) ==
  \E new \in Seq(STRING) : ShrunkBy(r.text, o, n, new) /\ q = [r EXCEPT !.text = new]

\* What on_erase does to a replica in order.
LEMMA EraseShown ==
  ASSUME NEW r \in Replica, r.state = "running", NEW lines, Shape(lines), Follows(r.text, Flatten(lines)),
         NEW at, NEW o \in Nat, AtPlace(lines, at, o), NEW n \in Nat, n > 0, o + n < Len(Flatten(lines)),
         r.size = Len(Flatten(lines)) - 1 - n
  PROVE  Cleared(r, o, n, on_erase(r, at.line, at.index, n))
<1> DEFINE F == Flatten(lines)
           new == SubSeq(r.text, 1, o) \o SubSeq(r.text, o + n + 1, Len(r.text))
<1>1. r.text \in Seq(STRING) /\ Len(r.text) = Len(F) - 1 /\ Len(F) \in Nat
  BY ShapeFlat DEF Follows
<1>2. BlockStart(r.text, at.line) + at.index = o
  <2>1. o < Len(F)
    BY <1>1
  <2> QED BY <2>1, PlaceOffset
<1>3. o + n <= Len(r.text) /\ ~(o > Len(r.text))
  BY <1>1
<1>4. new \in Seq(STRING) /\ ShrunkBy(r.text, o, n, new)
  BY <1>1, <1>3, TakenOut
<1>5. Len(new) = Len(r.text) - n
  BY <1>4 DEF ShrunkBy
<1> HIDE DEF new
<1>6. IsRemoteChange(r.text, new, r.size)
  <2>1. Len(new) < Len(r.text) /\ Len(new) >= r.size
    BY <1>1, <1>5
  <2> QED BY <2>1 DEF IsRemoteChange
<1>7. on_erase(r, at.line, at.index, n) = ShowRemote(r, new)
  BY <1>2, <1>3, Zenon DEF on_erase, new
<1> QED BY <1>4, <1>6, <1>7 DEF ShowRemote, Cleared

Accs == [r : Replica, on : BOOLEAN]

\* The symbols S of an erasure lie side by side after the first o of F.
Run(F, o, S) ==
  /\ S \in Seq(SymbolType) /\ o \in Nat /\ o + Len(S) < Len(F)
  /\ \A k \in 1 .. Len(S) : S[k] = F[o + k]

\* After k rounds.
RemoteShrunk(r, o, k, acc) ==
  /\ acc \in Accs /\ acc.on /\ acc.r.state = "running" /\ acc.r.text = r.text /\ acc.r.size = r.size - k
  /\ Shrunk(Flatten(r.symbols), o, k, acc.r.symbols)

\* One round of an erasure received.
LEMMA EraseRoundNext ==
  ASSUME NEW r \in Replica, Ordered(r.symbols), NEW o, NEW S, Run(Flatten(r.symbols), o, S),
         NEW k \in Nat, k + 1 <= Len(S), NEW acc, RemoteShrunk(r, o, k, acc)
  PROVE  RemoteShrunk(r, o, k + 1, EraseRound(acc, S[k + 1]))
<1> DEFINE F == Flatten(r.symbols)
           lines == acc.r.symbols
           G == Flatten(lines)
           s == S[k + 1]
           at == findPosition(lines, s.pos)
           new == EraseSymbol(lines, at.line, at.index, s.val = NL)
<1>0. F \in Seq(SymbolType) /\ Sorted(F) /\ Ended(F) /\ Len(F) \in Nat /\ S \in Seq(SymbolType) /\ o \in Nat /\ o + Len(S) < Len(F) /\ Len(S) \in Nat
  <2>1. F \in Seq(SymbolType) /\ Sorted(F) /\ Ended(F) /\ Len(F) \in Nat
    BY ShapeFlat DEF Ordered
  <2> QED BY <2>1 DEF Run
<1>a. s = F[(o + k) + 1]
  <2>1. k + 1 \in 1 .. Len(S) /\ o + (k + 1) = (o + k) + 1
    BY <1>0
  <2> QED BY <2>1 DEF Run
<1>1. Shrunk(F, o, k, lines) /\ acc \in Accs /\ acc.on /\ acc.r.state = "running" /\ acc.r.text = r.text /\ acc.r.size = r.size - k
  BY DEF RemoteShrunk
<1> HIDE DEF F, lines, G
<1>2. Ordered(lines) /\ Shape(lines) /\ Sorted(G)
  <2>1. o + k < Len(F)
    BY <1>0
  <2> QED BY <1>0, <1>1, <2>1, ShrunkOrdered DEF Ordered, G
<1>3. (o + k) + 1 < Len(F) /\ o + 1 < Len(G) /\ Len(G) \in Nat /\ o + 1 \in 1 .. Len(G) /\ (o + 1) - 1 = o
  <2>1. Len(G) = Len(F) - k
    BY <1>1 DEF Shrunk, ShrunkBy, G
  <2> QED BY <1>0, <2>1
<1>4. s = G[o + 1]
  <2>1. o + 1 \in o + 1 .. Len(F) - k /\ (o + 1) + k = (o + k) + 1
    BY <1>0, <1>3
  <2>2. \A j \in o + 1 .. Len(F) - k : G[j] = F[j + k]
    BY <1>1 DEF Shrunk, ShrunkBy, G
  <2> QED BY <1>a, <2>1, <2>2
<1> HIDE DEF s
<1>5. AtPlace(lines, at, o)
  BY <1>2, <1>3, <1>4, FoundPlace DEF G
<1> HIDE DEF at
<1>6. Shrunk(F, o, k + 1, new)
  BY <1>0, <1>1, <1>2, <1>3, <1>5, <1>a, EraseNext
<1> HIDE DEF new
<1>7. at.kind # "absent" /\ at.kind # "abort"
  BY <1>5 DEF AtPlace
<1>8. ~((at.index = 0 /\ Len(lines[at.line + 1]) = 1) /\ ~(s.val = NL /\ at.line + 1 < Len(lines)))
  <2>1. lines[at.line + 1][at.index + 1] = s
    BY <1>0, <1>1, <1>2, <1>3, <1>5, <1>a, EraseNext
  <2> QED BY <1>0, <1>2, <1>3, <1>5, <2>1, NotAlone DEF G
<1> DEFINE q == [acc.r EXCEPT !.symbols = new, !.size = acc.r.size - 1]
<1>9. EraseRound(acc, s) = [r |-> q, on |-> TRUE]
  BY <1>1, <1>7, <1>8, Zenon DEF EraseRound, lines, at, new
<1>10. new \in Seq(Seq(SymbolType))
  BY <1>6 DEF Shrunk, Shape
<1>11. Becomes(acc.r, new, acc.r.size - 1, q)
  <2>1. acc.r \in Replica
    BY <1>1 DEF Accs
  <2>2. acc.r.size - 1 \in Int
    BY <2>1 DEF Replica
  <2> QED BY <1>10, <2>1, <2>2, ReplicaSet, Zenon
<1> HIDE DEF s, q
<1>12. q \in Replica /\ q.state = "running" /\ q.text = r.text /\ q.size = acc.r.size - 1 /\ q.symbols = new
  BY <1>1, <1>11 DEF Becomes
<1>13. acc.r.size - 1 = r.size - (k + 1)
  <2>1. r.size \in Int
    BY DEF Replica
  <2> QED BY <1>1, <2>1
<1> DEFINE x == [r |-> q, on |-> TRUE]
<1>14. x \in Accs /\ x.on /\ x.r = q
  BY <1>12 DEF Accs
<1> HIDE DEF x
<1>15. RemoteShrunk(r, o, k + 1, x)
  BY <1>6, <1>12, <1>13, <1>14, Zenon DEF RemoteShrunk, F
<1> QED BY <1>9, <1>15 DEF F, s, x

\* All rounds of an erasure received.
LEMMA ErasedAll ==
  ASSUME NEW r, Good(r), NEW o, NEW S, Run(Flatten(r.symbols), o, S)
  PROVE  RemoteShrunk(r, o, Len(S), FoldLeft(EraseRound, [r |-> r, on |-> TRUE], S))
<1> DEFINE init == [r |-> r, on |-> TRUE]
<1>0. r \in Replica /\ Ordered(r.symbols) /\ S \in Seq(SymbolType) /\ Len(S) \in Nat /\ DOMAIN S = 1 .. Len(S) /\ r.state = "running" /\ r.size \in Int /\ o \in Nat
  BY DEF Good, Run, Replica
<1>i. init \in Accs /\ init.r = r /\ init.on
  BY <1>0 DEF Accs
<1> HIDE DEF init
<1>f. PICK f : Erasures!Steps(init, S, f)
  BY <1>0, Counting, Erasures!FoldedSteps DEF Erasures!CanCount
<1>1. /\ DOMAIN f = 0 .. Len(S) /\ f[0] = init /\ f[Len(S)] = Erasures!Folded(init, S)
      /\ \A k \in 1 .. Len(S) : f[k] = EraseRound(f[k - 1], S[k])
  BY <1>f, Zenon DEF Erasures!Steps
<1>2. Erasures!Folded(init, S) = FoldLeft(EraseRound, init, S)
  BY DEF Erasures!Folded, FoldLeft, MapThenFoldSet, Max, Erasures!MapThenFoldSet, Erasures!Greatest
<1> DEFINE Done == {k \in Nat : k <= Len(S) => RemoteShrunk(r, o, k, f[k])}
<1>3. 0 \in Done
  <2>1. Shrunk(Flatten(r.symbols), o, 0, r.symbols)
    BY <1>0, ShrunkFirst DEF Ordered
  <2>2. r.size = r.size - 0
    BY <1>0
  <2> QED BY <1>0, <1>i, <1>1, <2>1, <2>2 DEF RemoteShrunk
<1>4. ASSUME NEW k \in Done PROVE k + 1 \in Done
  <2> SUFFICES ASSUME k + 1 <= Len(S) PROVE RemoteShrunk(r, o, k + 1, f[k + 1])
    OBVIOUS
  <2>1. k \in Nat /\ RemoteShrunk(r, o, k, f[k]) /\ k + 1 \in 1 .. Len(S) /\ (k + 1) - 1 = k
    BY <1>0
  <2>2. f[k + 1] = EraseRound(f[k], S[k + 1])
    BY <1>1, <2>1
  <2> QED BY <1>0, <2>1, <2>2, EraseRoundNext
<1>5. 0 .. Len(S) \subseteq Done
  <2> HIDE DEF Done
  <2> QED BY <1>0, <1>3, <1>4, UpTo
<1>6. Len(S) \in Done
  <2>1. Len(S) \in 0 .. Len(S)
    BY <1>0
  <2> HIDE DEF Done
  <2> QED BY <1>5, <2>1
<1> QED BY <1>0, <1>1, <1>2, <1>6 DEF init

\* What another editor erased is gone, and nothing else.
LEMMA RunErased ==
  ASSUME NEW r, Good(r), NEW o, NEW S, Run(Flatten(r.symbols), o, S), Len(S) > 0
  PROVE  Holds(handleRemoteErase(r, S), Without(ToSet(Flatten(r.symbols)), S))
<1> DEFINE F == Flatten(r.symbols)
           n == Len(S)
           first == findPosition(r.symbols, S[1].pos)
           acc == FoldLeft(EraseRound, [r |-> r, on |-> TRUE], S)
           q == on_erase(acc.r, first.line, first.index, n)
<1>0. F \in Seq(SymbolType) /\ Sorted(F) /\ Ended(F) /\ Len(F) \in Nat /\ S \in Seq(SymbolType) /\ n \in Nat /\ n > 0 /\ o \in Nat /\ o + n < Len(F)
      /\ \A k \in 1 .. n : S[k] = F[o + k]
  <2>1. F \in Seq(SymbolType) /\ Sorted(F) /\ Ended(F) /\ Len(F) \in Nat
    BY ShapeFlat DEF Good, Ordered
  <2> QED BY <2>1 DEF Run
<1>1. RemoteShrunk(r, o, n, acc)
  BY ErasedAll
<1>2. handleRemoteErase(r, S) = q
  <2>1. r.state = "running" /\ (r.state = "running") = TRUE
    BY DEF Good
  <2>2. acc.on
    BY <1>1 DEF RemoteShrunk
  <2> QED BY <2>1, <2>2, Zenon DEF handleRemoteErase
<1> HIDE DEF acc
<1> DEFINE a == acc.r
           G == Flatten(a.symbols)
<1>3. a \in Replica /\ a.state = "running" /\ a.text = r.text /\ a.size = r.size - n /\ Shrunk(F, o, n, a.symbols)
  BY <1>1 DEF RemoteShrunk, Accs
<1> HIDE DEF a
<1>4. AtPlace(r.symbols, first, o)
  <2>1. o + 1 \in 1 .. Len(F) /\ (o + 1) - 1 = o /\ 1 \in 1 .. n
    BY <1>0
  <2>2. S[1].pos = F[o + 1].pos
    BY <1>0, <2>1
  <2> QED BY <2>1, <2>2, FoundPlace DEF Good, Ordered
<1> HIDE DEF first
<1>5. Cleared(a, o, n, q)
  <2>1. a.size = Len(F) - 1 - n
    <3>1. r.size = Len(F) - 1
      BY DEF Good
    <3> QED BY <1>0, <1>3, <3>1
  <2>2. Shape(r.symbols) /\ Follows(a.text, F)
    BY <1>3 DEF Good, Ordered
  <2>3. Cleared(a, o, n, on_erase(a, first.line, first.index, n))
    BY <1>0, <1>3, <1>4, <2>1, <2>2, EraseShown
  <2> QED BY <2>3 DEF a
<1> HIDE DEF q
<1>6. PICK new \in Seq(STRING) : ShrunkBy(r.text, o, n, new) /\ q = [a EXCEPT !.text = new]
  BY <1>3, <1>5 DEF Cleared
<1>7. q \in Replica /\ q.symbols = a.symbols /\ q.size = a.size /\ q.text = new /\ q.state = a.state
  BY <1>3, <1>6, ReplicaText
<1>8. Ordered(a.symbols) /\ G \in Seq(SymbolType) /\ ShrunkBy(F, o, n, G)
  <2>1. Ordered(a.symbols)
    BY <1>0, <1>3, ShrunkOrdered
  <2>2. G \in Seq(SymbolType)
    BY <2>1, ShapeFlat DEF Ordered
  <2>3. ShrunkBy(F, o, n, G)
    BY <1>3 DEF Shrunk
  <2> QED BY <2>1, <2>2, <2>3
<1>9. Follows(new, G)
  <2>1. Follows(r.text, F)
    BY DEF Good
  <2> HIDE DEF F, G
  <2> QED BY <1>0, <1>6, <1>8, <2>1, FollowsShrunk
<1>10. a.size = Len(G) - 1
  <2>1. r.size = Len(F) - 1 /\ Len(G) = Len(F) - n
    BY <1>8 DEF Good, ShrunkBy
  <2> QED BY <1>0, <1>3, <2>1
<1>11. ToSet(G) = Without(ToSet(F), S)
  <2>1. o + n <= Len(F)
    BY <1>0
  <2> HIDE DEF F, G, n
  <2>0. F \in Seq(SymbolType) /\ Sorted(F) /\ o \in Nat /\ n \in Nat /\ G \in Seq(SymbolType) /\ ShrunkBy(F, o, n, G)
    BY <1>0, <1>8
  <2>2. Remains(F, o, n, G)
    BY <2>0, <2>1, ShrunkContent, Zenon
  <2>3. DOMAIN S = 1 .. n
    BY <1>0 DEF n
  <2>4. \A x \in ToSet(F) : (\A k \in 1 .. n : x.pos # F[o + k].pos) <=> x.pos \notin PositionsOf(S)
    BY <1>0, <2>3 DEF PositionsOf
  <2> QED BY <2>2, <2>4 DEF Without, Remains
<1> QED BY <1>2, <1>3, <1>7, <1>8, <1>9, <1>10, <1>11 DEF Holds, Good

ChangeRounds == INSTANCE FoldProofs WITH Op <- ChangeRound

\* The content X with s in the place of the symbol that has its position.
Swap(X, s) == {x \in X : x.pos # s.pos} \cup {s}

\* The symbols when one was overwritten.
LEMMA SwappedContent ==
  ASSUME NEW F \in Seq(SymbolType), Sorted(F), NEW k \in 1 .. Len(F), NEW s, s.pos = F[k].pos, NEW G \in Seq(SymbolType), Swapped(F, k, s, G)
  PROVE  ToSet(G) = Swap(ToSet(F), s)
<1>1. Len(G) = Len(F) /\ G[k] = s /\ (\A j \in 1 .. Len(F) : j # k => G[j] = F[j]) /\ Len(F) \in Nat
  BY DEF Swapped
<1>2. ToSet(G) = {G[i] : i \in 1 .. Len(F)} /\ ToSet(F) = {F[i] : i \in 1 .. Len(F)}
  BY <1>1 DEF ToSet
<1>3. \A i \in 1 .. Len(F) : i # k => F[i].pos # s.pos
  <2>1. \A i \in 1 .. Len(F) : F[i].pos \in Int
    BY SymbolFields
  <2> QED BY <2>1 DEF Sorted
<1>4. ASSUME NEW x \in ToSet(G) PROVE x \in Swap(ToSet(F), s)
  <2>1. PICK i \in 1 .. Len(F) : x = G[i]
    BY <1>2
  <2>2. CASE i = k
    BY <1>1, <2>1, <2>2 DEF Swap
  <2>3. CASE i # k
    <3>1. x = F[i] /\ F[i].pos # s.pos /\ x \in ToSet(F)
      BY <1>1, <1>2, <1>3, <2>1, <2>3
    <3> QED BY <3>1 DEF Swap
  <2> QED BY <2>2, <2>3
<1>5. ASSUME NEW x \in Swap(ToSet(F), s) PROVE x \in ToSet(G)
  <2>1. CASE x = s
    BY <1>1, <1>2, <2>1
  <2>2. CASE x \in ToSet(F) /\ x.pos # s.pos
    <3>1. PICK i \in 1 .. Len(F) : x = F[i]
      BY <1>2, <2>2
    <3>2. i # k
      BY <2>2, <3>1
    <3> QED BY <1>1, <1>2, <3>1, <3>2
  <2> QED BY <2>1, <2>2 DEF Swap
<1> QED BY <1>4, <1>5

\* A replica given other lines.
LEMMA ReplicaSymbols ==
  ASSUME NEW r \in Replica, NEW lines \in Seq(Seq(SymbolType))
  PROVE  Becomes(r, lines, r.size, [r EXCEPT !.symbols = lines])
BY DEF Replica, Becomes

\* A symbol is overwritten in place by one with its position and its character.
LEMMA SymbolPut ==
  ASSUME NEW r, Good(r), NEW k \in 1 .. Len(Flatten(r.symbols)), NEW at, AtPlace(r.symbols, at, k - 1),
         NEW s \in SymbolType, s.pos = Flatten(r.symbols)[k].pos, s.val = Flatten(r.symbols)[k].val
  PROVE  Holds([r EXCEPT !.symbols = SetLine(r.symbols, at.line, [r.symbols[at.line + 1] EXCEPT ![at.index + 1] = s])],
               Swap(ToSet(Flatten(r.symbols)), s))
<1> DEFINE lines == r.symbols
           F == Flatten(lines)
           new == SetLine(lines, at.line, [lines[at.line + 1] EXCEPT ![at.index + 1] = s])
           q == [r EXCEPT !.symbols = new]
           G == Flatten(new)
<1>0. Ordered(lines) /\ Shape(lines) /\ Sorted(F) /\ r \in Replica /\ F \in Seq(SymbolType) /\ r.state = "running" /\ Len(F) \in Nat
      /\ r.size = Len(F) - 1 /\ Follows(r.text, F)
  BY ShapeFlat DEF Good, Ordered
<1>1. k \in 1 .. Len(F) /\ s.pos = F[k].pos /\ s.val = F[k].val
  OBVIOUS
<1>3. Ordered(new) /\ Swapped(F, k, s, G)
  BY <1>0, SymbolSet
<1> HIDE DEF new
<1>5. new \in Seq(Seq(SymbolType)) /\ G \in Seq(SymbolType)
  <2>1. G \in Seq(SymbolType)
    BY <1>3, ShapeFlat DEF Ordered
  <2> QED BY <1>3, <2>1 DEF Ordered, Shape
<1>6. Becomes(r, new, r.size, q)
  BY <1>0, <1>5, ReplicaSymbols
<1> HIDE DEF q
<1>7. q \in Replica /\ q.state = "running" /\ q.symbols = new /\ q.size = r.size /\ q.text = r.text
  BY <1>0, <1>6 DEF Becomes
<1> HIDE DEF F, G
<1>8. ToSet(G) = Swap(ToSet(F), s)
  BY <1>0, <1>1, <1>3, <1>5, SwappedContent
<1>9. Len(G) = Len(F) /\ \A j \in 1 .. Len(F) : G[j].val = F[j].val
  <2>1. \A j \in 1 .. Len(F) : j = k \/ j # k
    OBVIOUS
  <2> QED BY <1>1, <1>3, <2>1 DEF Swapped
<1>10. Follows(q.text, G)
  <2>1. \A j \in 1 .. Len(F) - 1 : j \in 1 .. Len(F)
    BY <1>0
  <2> QED BY <1>0, <1>7, <1>9, <2>1 DEF Follows
<1>11. Good(q)
  BY <1>0, <1>3, <1>7, <1>9, <1>10 DEF Good, G
<1>13. Holds(q, Swap(ToSet(F), s))
  BY <1>7, <1>8, <1>11, Zenon DEF Holds, G
<1> QED BY <1>13, Zenon DEF q, new, F

\* The symbol an operation names is found and overwritten.
LEMMA SymbolSwapped ==
  ASSUME NEW r, Good(r), NEW s \in SymbolType, NEW t \in ToSet(Flatten(r.symbols)), t.pos = s.pos, t.val = s.val
  PROVE  LET at == findPosition(r.symbols, s.pos)
         IN  /\ at.kind = "found"
             /\ Holds([r EXCEPT !.symbols = SetLine(r.symbols, at.line, [r.symbols[at.line + 1] EXCEPT ![at.index + 1] = s])],
                      Swap(ToSet(Flatten(r.symbols)), s))
             /\ s.val \in {NL, NUL} => (at.index + 1 = Len(r.symbols[at.line + 1]) /\ r.symbols[at.line + 1][at.index + 1] = t)
<1> DEFINE lines == r.symbols
           F == Flatten(lines)
           at == findPosition(lines, s.pos)
<1>0. Ordered(lines) /\ Shape(lines) /\ Sorted(F) /\ F \in Seq(SymbolType)
  BY ShapeFlat DEF Good, Ordered
<1>1. PICK k \in 1 .. Len(F) : t = F[k]
  BY <1>0, InContent
<1>2. AtPlace(lines, at, k - 1)
  BY <1>0, <1>1, FoundPlace
<1> HIDE DEF at
<1>3. Holds([r EXCEPT !.symbols = SetLine(lines, at.line, [lines[at.line + 1] EXCEPT ![at.index + 1] = s])], Swap(ToSet(F), s))
  BY <1>1, <1>2, SymbolPut
<1>4. s.val \in {NL, NUL} => (at.index + 1 = Len(lines[at.line + 1]) /\ lines[at.line + 1][at.index + 1] = t)
  BY <1>0, <1>1, <1>2, LineEnd
<1>5. at.kind = "found"
  BY <1>2 DEF AtPlace
<1> QED BY <1>3, <1>4, <1>5, Zenon DEF F, at

\* Another editor's alignment of a line, which the symbol that ends it brings.
LEMMA LineAligned ==
  ASSUME NEW r, Good(r), NEW s \in SymbolType, NEW t \in ToSet(Flatten(r.symbols)), t = [s EXCEPT !.align = t.align], t.val \in {NL, NUL}
  PROVE  Holds(handleRemoteAlignChange(r, s), Swap(ToSet(Flatten(r.symbols)), s))
<1> DEFINE lines == r.symbols
           at == findPosition(lines, s.pos)
           line == lines[at.line + 1]
           new == SetLine(lines, at.line, [line EXCEPT ![at.index + 1] = s])
<1>1. t.pos = s.pos /\ t.val = s.val /\ [t EXCEPT !.align = s.align] = s
  BY DEF SymbolType
<1>2. /\ at.kind = "found" /\ Holds([r EXCEPT !.symbols = new], Swap(ToSet(Flatten(lines)), s))
      /\ at.index + 1 = Len(line) /\ line[at.index + 1] = t
  BY <1>1, SymbolSwapped
<1> HIDE DEF at, line
<1>3. [line EXCEPT ![Len(line)].align = s.align] = [line EXCEPT ![at.index + 1] = s]
  BY <1>1, <1>2
<1>4. handleRemoteAlignChange(r, s) = [r EXCEPT !.symbols = SetLine(r.symbols, at.line, [line EXCEPT ![Len(line)].align = s.align])]
  <2>1. at.kind # "absent" /\ at.kind # "abort" /\ r.state = "running"
    BY <1>2 DEF Good
  <2> QED BY <2>1, Zenon DEF handleRemoteAlignChange, at, line
<1> QED BY <1>2, <1>3, <1>4, Zenon

-----------------------------------------------------------------------------
\* The content after the first k symbols of a change.
Overwritten(X, S, k) == {x \in X : \A j \in 1 .. k : x.pos # S[j].pos} \cup {S[j] : j \in 1 .. k}

\* What a change names is there, each symbol once.
Named(X, S) ==
  /\ S \in Seq(SymbolType)
  /\ \A i, j \in 1 .. Len(S) : i # j => S[i].pos # S[j].pos
  /\ \A k \in 1 .. Len(S) : \E x \in X : x.pos = S[k].pos /\ x.val = S[k].val

Overwrites(r, S, k, acc) == acc.on /\ Holds(acc.r, Overwritten(ToSet(Flatten(r.symbols)), S, k))

\* One round of a change received.
LEMMA ChangeRoundNext ==
  ASSUME NEW r, NEW S, Named(ToSet(Flatten(r.symbols)), S), NEW k \in Nat, k + 1 <= Len(S), NEW acc, Overwrites(r, S, k, acc)
  PROVE  Overwrites(r, S, k + 1, ChangeRound(acc, S[k + 1]))
<1> DEFINE X == ToSet(Flatten(r.symbols))
           s == S[k + 1]
           q == acc.r
           at == findPosition(q.symbols, s.pos)
           new == [q EXCEPT !.symbols = SetLine(q.symbols, at.line, [q.symbols[at.line + 1] EXCEPT ![at.index + 1] = s])]
<1>0. S \in Seq(SymbolType) /\ k + 1 \in 1 .. Len(S) /\ Len(S) \in Nat
  BY DEF Named
<1>1. s \in SymbolType
  BY <1>0
<1>2. acc.on /\ Good(q) /\ ToSet(Flatten(q.symbols)) = Overwritten(X, S, k)
  BY DEF Overwrites, Holds
<1>3. PICK t \in X : t.pos = s.pos /\ t.val = s.val
  BY <1>0 DEF Named
<1>4. \A j \in 1 .. k : S[j].pos # s.pos
  <2>1. \A j \in 1 .. k : j \in 1 .. Len(S) /\ j # k + 1
    BY <1>0
  <2> QED BY <1>0, <2>1 DEF Named
<1> HIDE DEF X
<1>5. t \in ToSet(Flatten(q.symbols))
  BY <1>2, <1>3, <1>4 DEF Overwritten
<1> HIDE DEF q
<1>6. at.kind = "found" /\ Holds(new, Swap(ToSet(Flatten(q.symbols)), s))
  BY <1>1, <1>2, <1>3, <1>5, SymbolSwapped
<1>7. ChangeRound(acc, s) = [r |-> new, on |-> TRUE]
  <2>1. at.kind # "absent" /\ at.kind # "abort"
    BY <1>6
  <2> HIDE DEF s, at
  <2> QED BY <1>2, <2>1, Zenon DEF ChangeRound, q, at, SetLine
<1>8. Swap(Overwritten(X, S, k), s) = Overwritten(X, S, k + 1)
  <2>1. \A j \in 1 .. k + 1 : j \in 1 .. k \/ j = k + 1
    OBVIOUS
  <2>2. \A j \in 1 .. k : j \in 1 .. k + 1
    OBVIOUS
  <2>3. k + 1 \in 1 .. k + 1
    OBVIOUS
  <2>4. ASSUME NEW x \in Swap(Overwritten(X, S, k), s) PROVE x \in Overwritten(X, S, k + 1)
    BY <2>1, <2>2, <2>3, <2>4 DEF Swap, Overwritten
  <2>5. ASSUME NEW x \in Overwritten(X, S, k + 1) PROVE x \in Swap(Overwritten(X, S, k), s)
    <3>1. CASE x \in X /\ \A j \in 1 .. k + 1 : x.pos # S[j].pos
      BY <2>2, <2>3, <3>1 DEF Swap, Overwritten
    <3>2. CASE \E j \in 1 .. k + 1 : x = S[j]
      <4>1. PICK j \in 1 .. k + 1 : x = S[j]
        BY <3>2
      <4> QED BY <1>4, <2>1, <4>1 DEF Swap, Overwritten
    <3> QED BY <2>5, <3>1, <3>2 DEF Overwritten
  <2> QED BY <2>4, <2>5
<1> HIDE DEF new, s
<1>9. Holds(new, Overwritten(X, S, k + 1))
  BY <1>2, <1>6, <1>8
<1> QED BY <1>7, <1>9 DEF Overwrites, X, s

\* Every symbol another editor changed is replaced, and no other.
LEMMA Changed ==
  ASSUME NEW r, Good(r), NEW S, Named(ToSet(Flatten(r.symbols)), S)
  PROVE  Holds(handleRemoteChange(r, S), Without(ToSet(Flatten(r.symbols)), S) \cup ToSet(S))
<1> DEFINE init == [r |-> r, on |-> TRUE]
           X == ToSet(Flatten(r.symbols))
<1>0. S \in Seq(SymbolType) /\ Len(S) \in Nat /\ DOMAIN S = 1 .. Len(S)
  BY DEF Named
<1>i. init.r = r /\ init.on
  OBVIOUS
<1>c. FoldLeft(ChangeRound, [r |-> r, on |-> r.state = "running"], S) = FoldLeft(ChangeRound, init, S)
  <2>1. (r.state = "running") = TRUE
    BY DEF Good
  <2> QED BY <2>1, Zenon
<1> HIDE DEF init
<1>f. PICK f : ChangeRounds!Steps(init, S, f)
  BY <1>0, Counting, ChangeRounds!FoldedSteps DEF ChangeRounds!CanCount
<1>1. /\ DOMAIN f = 0 .. Len(S) /\ f[0] = init /\ f[Len(S)] = ChangeRounds!Folded(init, S)
      /\ \A k \in 1 .. Len(S) : f[k] = ChangeRound(f[k - 1], S[k])
  BY <1>f, Zenon DEF ChangeRounds!Steps
<1>2. ChangeRounds!Folded(init, S) = FoldLeft(ChangeRound, init, S)
  BY DEF ChangeRounds!Folded, FoldLeft, MapThenFoldSet, Max, ChangeRounds!MapThenFoldSet, ChangeRounds!Greatest
<1> DEFINE Done == {k \in Nat : k <= Len(S) => Overwrites(r, S, k, f[k])}
<1>3. 0 \in Done
  <2>1. Overwritten(X, S, 0) = X
    BY DEF Overwritten
  <2>2. Holds(r, X)
    BY DEF Holds
  <2> QED BY <1>i, <1>1, <2>1, <2>2 DEF Overwrites
<1>4. ASSUME NEW k \in Done PROVE k + 1 \in Done
  <2> SUFFICES ASSUME k + 1 <= Len(S) PROVE Overwrites(r, S, k + 1, f[k + 1])
    OBVIOUS
  <2>1. k \in Nat /\ Overwrites(r, S, k, f[k]) /\ k + 1 \in 1 .. Len(S) /\ (k + 1) - 1 = k
    BY <1>0
  <2>2. f[k + 1] = ChangeRound(f[k], S[k + 1])
    BY <1>1, <2>1
  <2> QED BY <1>0, <2>1, <2>2, ChangeRoundNext
<1>5. 0 .. Len(S) \subseteq Done
  <2> HIDE DEF Done
  <2> QED BY <1>0, <1>3, <1>4, UpTo
<1>6. Len(S) \in Done
  <2>1. Len(S) \in 0 .. Len(S)
    BY <1>0
  <2> HIDE DEF Done
  <2> QED BY <1>5, <2>1
<1>7. Overwrites(r, S, Len(S), FoldLeft(ChangeRound, init, S))
  BY <1>0, <1>1, <1>2, <1>6
<1>8. Overwritten(X, S, Len(S)) = Without(X, S) \cup ToSet(S)
  <2>1. ToSet(S) = {S[j] : j \in 1 .. Len(S)}
    BY <1>0 DEF ToSet
  <2>2. \A x \in X : (\A j \in 1 .. Len(S) : x.pos # S[j].pos) <=> x.pos \notin PositionsOf(S)
    BY <1>0 DEF PositionsOf
  <2> HIDE DEF X
  <2> QED BY <2>1, <2>2 DEF Overwritten, Without
<1>9. handleRemoteChange(r, S) = FoldLeft(ChangeRound, init, S).r
  BY <1>c, Zenon DEF handleRemoteChange
<1> QED BY <1>7, <1>8, <1>9, Zenon DEF Overwrites, X

Typings == INSTANCE FoldProofs WITH Op <- LocalInsertRound
Deletions == INSTANCE FoldProofs WITH Op <- LocalEraseRound

\* A place inside the lines accepts an insertion.
LEMMA PlaceAccepts ==
  ASSUME NEW lines, Shape(lines), NEW at, NEW o, AtPlace(lines, at, o)
  PROVE  CanInsert(lines, Place(at.line, at.index)) /\ InLine(lines, at.line, at.index)
<1>1. /\ at.line \in Nat /\ at.index \in Nat
      /\ at.line + 1 \in 1 .. Len(lines) /\ at.index + 1 \in 1 .. Len(lines[at.line + 1])
  BY DEF AtPlace
<1>2. lines \in Seq(Seq(SymbolType)) /\ Len(lines) \in Nat /\ DOMAIN lines = 1 .. Len(lines)
  BY DEF Shape
<1>3. Len(lines[at.line + 1]) \in Nat /\ DOMAIN lines[at.line + 1] = 1 .. Len(lines[at.line + 1])
  BY <1>1, <1>2, LineIn
<1>4. at.line < Len(lines) /\ at.index <= Len(lines[at.line + 1])
  BY <1>1, <1>2, <1>3, Within
<1> QED BY <1>1, <1>2, <1>3, <1>4 DEF CanInsert, InLine, Place

\* After k characters typed or pasted.
LocalGrown(F, o, S, k, acc) ==
  acc.ok /\ Grown(F, o, S, k, acc.lines) /\ AtPlace(acc.lines, Place(acc.line, acc.index), o + k)

\* One more character typed.
LEMMA LocalInsertNext ==
  ASSUME NEW F \in Seq(SymbolType), NEW o \in 0 .. Len(F) - 1, NEW S \in Seq(SymbolType), NEW k \in 0 .. Len(S), k < Len(S),
         NEW acc, LocalGrown(F, o, S, k, acc)
  PROVE  LocalGrown(F, o, S, k + 1, LocalInsertRound(acc, S[k + 1]))
<1> DEFINE s == S[k + 1]
           l == acc.line
           i == acc.index
           new == insertChar(acc.lines, s, l, i)
           line == IF s.val = NL THEN l + 1 ELSE l
           index == IF s.val = NL THEN 0 ELSE i + 1
           q == [lines |-> new, line |-> line, index |-> index, ok |-> acc.ok]
<1>1. acc.ok /\ Grown(F, o, S, k, acc.lines) /\ AtPlace(acc.lines, Place(l, i), o + k)
  BY DEF LocalGrown
<1>2. CanInsert(acc.lines, Place(l, i))
  <2>1. Shape(acc.lines)
    BY <1>1 DEF Grown
  <2>2. Place(l, i).line = l /\ Place(l, i).index = i
    BY DEF Place
  <2>3. CanInsert(acc.lines, Place(Place(l, i).line, Place(l, i).index))
    BY <1>1, <2>1, PlaceAccepts
  <2> QED BY <2>2, <2>3, Zenon
<1>3. /\ Grown(F, o, S, k + 1, new)
      /\ s.val = NL => AtPlace(new, Place(l + 1, 0), o + (k + 1))
      /\ s.val # NL => AtPlace(new, Place(l, i + 1), o + (k + 1))
  BY <1>1, GrowNext
<1>4. LocalInsertRound(acc, s) = q
  BY <1>2, Zenon DEF LocalInsertRound
<1> HIDE DEF new, s
<1>5. AtPlace(new, Place(line, index), o + (k + 1))
  BY <1>3
<1>6. q.ok = acc.ok /\ q.lines = new /\ q.line = line /\ q.index = index
  OBVIOUS
<1> HIDE DEF q, line, index
<1>7. LocalGrown(F, o, S, k + 1, q)
  BY <1>1, <1>3, <1>5, <1>6, Zenon DEF LocalGrown
<1> QED BY <1>4, <1>7 DEF s

\* All characters typed.
LEMMA LocalInsertAll ==
  ASSUME NEW lines, Shape(lines), NEW o \in 0 .. Len(Flatten(lines)) - 1, NEW S \in Seq(SymbolType),
         NEW l, NEW i, AtPlace(lines, Place(l, i), o)
  PROVE  LocalGrown(Flatten(lines), o, S, Len(S), FoldLeft(LocalInsertRound, [lines |-> lines, line |-> l, index |-> i, ok |-> TRUE], S))
<1> DEFINE F == Flatten(lines)
           init == [lines |-> lines, line |-> l, index |-> i, ok |-> TRUE]
<1>0. F \in Seq(SymbolType) /\ Len(F) \in Nat /\ Len(S) \in Nat /\ DOMAIN S = 1 .. Len(S) /\ o \in 0 .. Len(F)
  BY ShapeFlat
<1>i. init.ok /\ init.lines = lines /\ init.line = l /\ init.index = i
  OBVIOUS
<1> HIDE DEF init
<1>f. PICK f : Typings!Steps(init, S, f)
  BY <1>0, Counting, Typings!FoldedSteps DEF Typings!CanCount
<1>1. /\ DOMAIN f = 0 .. Len(S) /\ f[0] = init /\ f[Len(S)] = Typings!Folded(init, S)
      /\ \A k \in 1 .. Len(S) : f[k] = LocalInsertRound(f[k - 1], S[k])
  BY <1>f, Zenon DEF Typings!Steps
<1>2. Typings!Folded(init, S) = FoldLeft(LocalInsertRound, init, S)
  BY DEF Typings!Folded, FoldLeft, MapThenFoldSet, Max, Typings!MapThenFoldSet, Typings!Greatest
<1> DEFINE Done == {k \in Nat : k <= Len(S) => LocalGrown(F, o, S, k, f[k])}
<1>3. 0 \in Done
  <2>1. Grown(F, o, S, 0, lines)
    BY <1>0, GrownFirst
  <2>2. o + 0 = o
    OBVIOUS
  <2>3. LocalGrown(F, o, S, 0, init)
    BY <1>i, <2>1, <2>2 DEF LocalGrown
  <2> QED BY <1>1, <2>3
<1>4. ASSUME NEW k \in Done PROVE k + 1 \in Done
  <2> SUFFICES ASSUME k + 1 <= Len(S) PROVE LocalGrown(F, o, S, k + 1, f[k + 1])
    OBVIOUS
  <2>1. k \in 0 .. Len(S) /\ k < Len(S) /\ LocalGrown(F, o, S, k, f[k]) /\ k + 1 \in 1 .. Len(S) /\ (k + 1) - 1 = k
    BY <1>0
  <2>2. f[k + 1] = LocalInsertRound(f[k], S[k + 1])
    BY <1>1, <2>1
  <2> HIDE DEF F
  <2> QED BY <1>0, <2>1, <2>2, LocalInsertNext DEF F
<1>5. 0 .. Len(S) \subseteq Done
  <2> HIDE DEF Done
  <2> QED BY <1>0, <1>3, <1>4, UpTo
<1>6. Len(S) \in Done
  <2>1. Len(S) \in 0 .. Len(S)
    BY <1>0
  <2> HIDE DEF Done
  <2> QED BY <1>5, <2>1
<1> QED BY <1>0, <1>1, <1>2, <1>6 DEF init

-----------------------------------------------------------------------------
\* After k characters deleted.
CutOff(F, o, k, gone) == gone \in Seq(SymbolType) /\ Len(gone) = k /\ \A j \in 1 .. k : gone[j] = F[o + j]

Deleter == [lines : Seq(Seq(SymbolType)), line : Nat, index : Nat, gone : Seq(SymbolType), ok : BOOLEAN]

LocalShrunk(F, o, k, l, i, acc) ==
  /\ acc.ok /\ acc.line = l /\ acc.index = i
  /\ Shrunk(F, o, k, acc.lines) /\ AtPlace(acc.lines, Place(l, i), o) /\ CutOff(F, o, k, acc.gone)
  /\ acc \in Deleter

\* One more character deleted.
LEMMA LocalEraseNext ==
  ASSUME NEW F \in Seq(SymbolType), Sorted(F), Ended(F), NEW o \in Nat, NEW k \in Nat, (o + k) + 1 < Len(F),
         NEW l, NEW i, NEW acc, LocalShrunk(F, o, k, l, i, acc), NEW x
  PROVE  LocalShrunk(F, o, k + 1, l, i, LocalEraseRound(acc, x))
<1> DEFINE s == F[(o + k) + 1]
           new == EraseSymbol(acc.lines, l, i, s.val = NL)
           gone == Append(acc.gone, s)
           q == [acc EXCEPT !.lines = new, !.gone = gone]
<1>1. /\ acc.ok /\ acc.line = l /\ acc.index = i /\ Shrunk(F, o, k, acc.lines) /\ AtPlace(acc.lines, Place(l, i), o) /\ CutOff(F, o, k, acc.gone)
      /\ acc \in Deleter
  BY DEF LocalShrunk
<1>2. Place(l, i).line = l /\ Place(l, i).index = i
  BY DEF Place
<1>3. Ordered(acc.lines)
  <2>1. o + k < Len(F)
    OBVIOUS
  <2> QED BY <1>1, <2>1, ShrunkOrdered
<1>4. InLine(acc.lines, l, i)
  <2>1. InLine(acc.lines, Place(l, i).line, Place(l, i).index)
    BY <1>1, <1>3, PlaceAccepts DEF Ordered
  <2> QED BY <1>2, <2>1, Zenon
<1>5. At(acc.lines, l, i) = s /\ Shrunk(F, o, k + 1, new) /\ AtPlace(new, Place(l, i), o)
  BY <1>1, <1>2, <1>3, EraseNext DEF At
<1> HIDE DEF new, s
<1>6. LocalEraseRound(acc, x) = [acc EXCEPT !.lines = new, !.gone = gone]
  BY <1>1, <1>4, <1>5, Zenon DEF LocalEraseRound, new
<1> HIDE DEF gone
<1>7. new \in Seq(Seq(SymbolType))
  BY <1>5 DEF Shrunk, Shape
<1>8. CutOff(F, o, k + 1, gone)
  <2>1. s \in SymbolType
    BY DEF s
  <2>2. acc.gone \in Seq(SymbolType) /\ Len(acc.gone) = k /\ \A j \in 1 .. k : acc.gone[j] = F[o + j]
    BY <1>1 DEF CutOff
  <2>3. gone \in Seq(SymbolType) /\ Len(gone) = k + 1 /\ gone[k + 1] = s /\ \A j \in 1 .. k : gone[j] = acc.gone[j]
    BY <2>1, <2>2, OneMore DEF gone
  <2>4. \A j \in 1 .. k + 1 : j \in 1 .. k \/ j = k + 1
    OBVIOUS
  <2>5. o + (k + 1) = (o + k) + 1
    OBVIOUS
  <2> QED BY <2>2, <2>3, <2>4, <2>5 DEF CutOff, s
<1>9. q \in Deleter /\ q.ok = acc.ok /\ q.lines = new /\ q.line = l /\ q.index = i /\ q.gone = gone
  <2>1. gone \in Seq(SymbolType)
    BY <1>8 DEF CutOff
  <2> QED BY <1>1, <1>7, <2>1, Zenon DEF Deleter
<1> HIDE DEF q
<1>11. LocalShrunk(F, o, k + 1, l, i, q)
  BY <1>1, <1>5, <1>8, <1>9, Zenon DEF LocalShrunk
<1> QED BY <1>6, <1>11, Zenon DEF q

\* All characters deleted.
LEMMA LocalEraseAll ==
  ASSUME NEW lines, Ordered(lines), NEW o \in Nat, NEW n \in Nat, o + n < Len(Flatten(lines)),
         NEW l, NEW i, AtPlace(lines, Place(l, i), o)
  PROVE  LocalShrunk(Flatten(lines), o, n, l, i,
           FoldLeft(LocalEraseRound, [lines |-> lines, line |-> l, index |-> i, gone |-> <<>>, ok |-> TRUE], [k \in 1 .. n |-> k]))
<1> DEFINE F == Flatten(lines)
           S == [k \in 1 .. n |-> k]
           init == [lines |-> lines, line |-> l, index |-> i, gone |-> <<>>, ok |-> TRUE]
<1>0. F \in Seq(SymbolType) /\ Len(F) \in Nat /\ Sorted(F) /\ Ended(F) /\ Len(S) = n /\ DOMAIN S = 1 .. n
  BY ShapeFlat DEF Ordered
<1>i. /\ init.ok /\ init.lines = lines /\ init.line = l /\ init.index = i /\ init.gone = <<>>
      /\ init \in Deleter
  <2>1. l \in Nat /\ i \in Nat /\ lines \in Seq(Seq(SymbolType)) /\ <<>> \in Seq(SymbolType)
    BY DEF AtPlace, Place, Ordered, Shape
  <2> QED BY <2>1 DEF Deleter
<1> HIDE DEF init, S
<1>f. PICK f : Deletions!Steps(init, S, f)
  BY <1>0, Counting, Deletions!FoldedSteps DEF Deletions!CanCount
<1>1. /\ DOMAIN f = 0 .. n /\ f[0] = init /\ f[n] = Deletions!Folded(init, S)
      /\ \A k \in 1 .. n : f[k] = LocalEraseRound(f[k - 1], S[k])
  BY <1>0, <1>f, Zenon DEF Deletions!Steps
<1>2. Deletions!Folded(init, S) = FoldLeft(LocalEraseRound, init, S)
  BY DEF Deletions!Folded, FoldLeft, MapThenFoldSet, Max, Deletions!MapThenFoldSet, Deletions!Greatest
<1> DEFINE Done == {k \in Nat : k <= n => LocalShrunk(F, o, k, l, i, f[k])}
<1>3. 0 \in Done
  <2>1. Shrunk(F, o, 0, lines)
    BY ShrunkFirst DEF Ordered
  <2>2. CutOff(F, o, 0, <<>>)
    BY DEF CutOff
  <2>3. LocalShrunk(F, o, 0, l, i, init)
    BY <1>i, <2>1, <2>2 DEF LocalShrunk
  <2> QED BY <1>1, <2>3
<1>4. ASSUME NEW k \in Done PROVE k + 1 \in Done
  <2> SUFFICES ASSUME k + 1 <= n PROVE LocalShrunk(F, o, k + 1, l, i, f[k + 1])
    OBVIOUS
  <2>1. k \in Nat /\ LocalShrunk(F, o, k, l, i, f[k]) /\ k + 1 \in 1 .. n /\ (k + 1) - 1 = k /\ (o + k) + 1 < Len(F)
    BY <1>0
  <2>2. f[k + 1] = LocalEraseRound(f[k], S[k + 1])
    BY <1>1, <2>1
  <2> HIDE DEF F
  <2> QED BY <1>0, <2>1, <2>2, LocalEraseNext
<1>5. 0 .. n \subseteq Done
  <2> HIDE DEF Done
  <2> QED BY <1>0, <1>3, <1>4, UpTo
<1>6. n \in Done
  <2>1. n \in 0 .. n
    OBVIOUS
  <2> HIDE DEF Done
  <2> QED BY <1>5, <2>1
<1> QED BY <1>0, <1>1, <1>2, <1>6 DEF init, S

\* A replica whose text edit changed already: everything but the text is in order.
Typing(q) == q \in Replica /\ q.state = "running" /\ Ordered(q.symbols) /\ q.size = Len(Flatten(q.symbols)) - 1

\* A replica in order when its text has just changed.
LEMMA TypingText ==
  ASSUME NEW r, Good(r), NEW text \in Seq(STRING)
  PROVE  LET q == [r EXCEPT !.text = text] IN Typing(q) /\ q.text = text /\ q.symbols = r.symbols /\ q.size = r.size
<1>1. r \in Replica /\ r.state = "running" /\ Ordered(r.symbols) /\ r.size = Len(Flatten(r.symbols)) - 1
  BY DEF Good
<1> DEFINE q == [r EXCEPT !.text = text]
<1>2. q \in Replica /\ q.symbols = r.symbols /\ q.size = r.size /\ q.text = text /\ q.state = r.state
  BY <1>1, ReplicaText
<1> HIDE DEF q
<1>3. Typing(q)
  BY <1>1, <1>2 DEF Typing
<1> QED BY <1>2, <1>3 DEF q

\* The cursor of the text edit is a place of the lines.
LEMMA CursorPlace ==
  ASSUME NEW r, Good(r), NEW o \in 0 .. Len(r.text), NEW text \in Seq(STRING), o <= Len(text), \A k \in 1 .. o : text[k] = r.text[k]
  PROVE  AtPlace(r.symbols, Place(BlockNumber(text, o), PositionInBlock(text, o)), o)
<1> DEFINE F == Flatten(r.symbols)
<1>1. Shape(r.symbols) /\ F \in Seq(SymbolType) /\ Len(F) \in Nat /\ r.text \in Seq(STRING) /\ Len(r.text) = Len(F) - 1
      /\ \A k \in 1 .. Len(F) - 1 : r.text[k] = F[k].val
  BY ShapeFlat DEF Good, Ordered, Follows
<1> HIDE DEF F
<1>2. o \in Nat /\ o + 1 \in 1 .. Len(F) /\ \A k \in 1 .. o : k \in 1 .. Len(F) - 1
  BY <1>1
<1>3. Spells(text, F, o)
  BY <1>1, <1>2 DEF Spells
<1> QED BY <1>1, <1>2, <1>3, TextPlace DEF F

\* What lies between the positions around a place fits there.
LEMMA GapAround ==
  ASSUME NEW lines, Ordered(lines), NEW l, NEW i, NEW o, AtPlace(lines, Place(l, i), o), NEW p \in Positions,
         findPosBefore(lines, l, i) < p, p < findPosAfter(lines, l, i)
  PROVE  Gap(Flatten(lines), o, p)
<1> DEFINE F == Flatten(lines)
<1>1. /\ l \in Nat /\ i \in Nat /\ l + 1 \in 1 .. Len(lines) /\ i + 1 \in 1 .. Len(lines[l + 1]) /\ Start(lines, l) + i = o
      /\ lines \in Seq(Seq(SymbolType)) /\ Len(lines) \in Nat /\ Shape(lines)
  BY DEF AtPlace, Place, Ordered, Shape
<1>2. F \in Seq(SymbolType) /\ Len(F) \in Nat
  BY <1>1, ShapeFlat
<1>3. (l + 1) - 1 = l /\ l \in 0 .. Len(lines)
  BY <1>1
<1>4. /\ Start(lines, l) + (i + 1) \in 1 .. Len(F) /\ F[Start(lines, l) + (i + 1)] = lines[l + 1][i + 1]
      /\ Start(lines, l) \in Nat
  <2>1. Start(lines, l) \in Nat
    BY <1>1, <1>3, Starts
  <2>2. Start(lines, (l + 1) - 1) + (i + 1) \in 1 .. Len(F) /\ F[Start(lines, (l + 1) - 1) + (i + 1)] = lines[l + 1][i + 1]
    <3> DEFINE m == l + 1
               j == i + 1
    <3>1. m \in 1 .. Len(lines) /\ j \in 1 .. Len(lines[m])
      BY <1>1
    <3> HIDE DEF m, j
    <3>2. Start(lines, m - 1) + j \in 1 .. Len(F) /\ F[Start(lines, m - 1) + j] = lines[m][j]
      BY <1>1, <3>1, FlatIndex
    <3> QED BY <3>2 DEF m, j
  <2> HIDE DEF F
  <2> QED BY <1>3, <2>1, <2>2
<1> HIDE DEF F
<1>5. o + 1 = Start(lines, l) + (i + 1) /\ o \in 0 .. Len(F) - 1
  BY <1>1, <1>2, <1>4
<1>6. p < F[o + 1].pos
  <2>1. findPosAfter(lines, l, i) = At(lines, l, i).pos
    <3>1. ~(l >= Len(lines)) /\ i < Len(lines[l + 1])
      <4>1. Len(lines[l + 1]) \in Nat
        BY <1>1, LineIn
      <4> QED BY <1>1, <4>1
    <3> QED BY <3>1, Zenon DEF findPosAfter
  <2> QED BY <1>4, <1>5, <2>1 DEF At
<1>7. o = 0 \/ F[o].pos < p
  <2>1. CASE i > 0
    <3>1. i \in 1 .. Len(lines[l + 1]) /\ (i - 1) + 1 = i
      <4>1. Len(lines[l + 1]) \in Nat
        BY <1>1, LineIn
      <4> QED BY <1>1, <2>1, <4>1
    <3>2. F[Start(lines, l) + i] = lines[l + 1][i]
      BY <1>1, <1>3, <3>1, FlatIndex DEF F
    <3>3. findPosBefore(lines, l, i) = lines[l + 1][i].pos
      BY <2>1, <3>1 DEF findPosBefore, At
    <3> QED BY <1>1, <3>2, <3>3
  <2>2. CASE i = 0 /\ l > 0
    <3>1. l \in 1 .. Len(lines) /\ l \in Nat
      BY <1>1, <2>2
    <3>2. F[Start(lines, l)].pos = LineKeys(lines)[l]
      BY <1>1, <3>1, Keys DEF F
    <3>3. LineKeys(lines)[l] = Last(lines[l]).pos
      <4>1. l \in DOMAIN lines
        BY <1>1, <3>1
      <4> QED BY <4>1 DEF LineKeys
    <3>4. findPosBefore(lines, l, i) = Last(lines[l]).pos
      BY <2>2 DEF findPosBefore
    <3>5. o = Start(lines, l)
      BY <1>1, <1>4, <2>2
    <3> QED BY <3>2, <3>3, <3>4, <3>5
  <2>3. CASE i = 0 /\ l = 0
    <3>1. Start(lines, 0) = 0
      BY <1>1, Starts
    <3> QED BY <1>1, <2>3, <3>1
  <2> QED BY <1>1, <2>1, <2>2, <2>3
<1> QED BY <1>5, <1>6, <1>7 DEF Gap, F

\* Characters typed or pasted at a place.
LEMMA TypedAt ==
  ASSUME NEW q, Typing(q), NEW l, NEW i, NEW o \in 0 .. Len(Flatten(q.symbols)) - 1, AtPlace(q.symbols, Place(l, i), o),
         NEW before, Follows(before, Flatten(q.symbols)), NEW vals \in Seq(STRING), GrownBy(before, o, vals, q.text),
         NEW S, Batch(Flatten(q.symbols), o, S), Len(S) = Len(vals), \A k \in 1 .. Len(S) : vals[k] = S[k].val
  PROVE  Holds(localInsertGroup(q, l, i, S), ToSet(Flatten(q.symbols)) \cup ToSet(S))
<1> DEFINE F == Flatten(q.symbols)
           n == Len(S)
           acc == FoldLeft(LocalInsertRound, [lines |-> q.symbols, line |-> l, index |-> i, ok |-> TRUE], S)
           G == Flatten(acc.lines)
           z == localInsertGroup(q, l, i, S)
<1>0. q \in Replica /\ q.state = "running" /\ Ordered(q.symbols) /\ Shape(q.symbols) /\ q.size = Len(F) - 1 /\ S \in Seq(SymbolType) /\ n \in Nat
      /\ F \in Seq(SymbolType) /\ Len(F) \in Nat /\ Sorted(F) /\ Ended(F)
  BY ShapeFlat DEF Typing, Ordered, Batch
<1>1. LocalGrown(F, o, S, n, acc)
  BY <1>0, LocalInsertAll
<1>2. z = [q EXCEPT !.symbols = acc.lines, !.size = q.size + n]
  <2>1. acc.ok
    BY <1>1 DEF LocalGrown
  <2> QED BY <2>1, Zenon DEF localInsertGroup
<1> HIDE DEF acc, z
<1>3. Grown(F, o, S, n, acc.lines) /\ acc.lines \in Seq(Seq(SymbolType)) /\ Len(G) = Len(F) + n
  BY <1>1 DEF LocalGrown, Grown, Shape
<1> HIDE DEF G, F
<1>4. Becomes(q, acc.lines, q.size + n, z)
  <2>1. q.size + n \in Int
    BY <1>0 DEF Replica
  <2> QED BY <1>0, <1>2, <1>3, <2>1, ReplicaSet, Zenon
<1>5. z \in Replica /\ z.state = "running" /\ z.text = q.text /\ z.size = q.size + n /\ z.symbols = acc.lines
  BY <1>0, <1>4 DEF Becomes
<1>6. Ordered(acc.lines)
  <2>1. n \in 0 .. Len(S)
    BY <1>0
  <2>2. Batch(F, o, S) /\ o \in 0 .. Len(F) - 1
    BY DEF F
  <2> QED BY <1>0, <1>3, <2>1, <2>2, GrownOrdered
<1>7. Follows(z.text, G)
  <2>1. q.text \in Seq(STRING) /\ o \in 0 .. Len(F) - 1 /\ Follows(before, F)
    BY <1>0 DEF Replica, F
  <2>2. Len(vals) = Len(S) /\ \A k \in 1 .. Len(S) : vals[k] = S[k].val
    OBVIOUS
  <2>3. Follows(q.text, Flatten(acc.lines))
    BY <1>0, <1>3, <2>1, <2>2, FollowsGrown DEF n
  <2> QED BY <1>5, <2>3 DEF G
<1>8. ToSet(G) = ToSet(F) \cup ToSet(S)
  <2>1. o \in 0 .. Len(F)
    BY <1>0 DEF F
  <2> QED BY <1>0, <1>3, <2>1, GrownContent DEF n, G
<1>9. z.size = Len(G) - 1
  BY <1>0, <1>3, <1>5
<1> QED BY <1>5, <1>6, <1>7, <1>8, <1>9 DEF Holds, Good, F, G, z

\* Characters deleted at a place: e is the replica after, gone what it sends.
Trimmed(q, l, i, o, n, e, gone) ==
  /\ Typing(e) /\ e.text = q.text /\ AtPlace(e.symbols, Place(l, i), o)
  /\ ShrunkBy(Flatten(q.symbols), o, n, Flatten(e.symbols))
  /\ CutOff(Flatten(q.symbols), o, n, gone)
  /\ ToSet(Flatten(e.symbols)) = Without(ToSet(Flatten(q.symbols)), gone)

\* Deleting leaves the lines in order and tells the symbols that are gone.
LEMMA DeletedAt ==
  ASSUME NEW q, Typing(q), NEW l, NEW i, NEW o \in Nat, NEW n \in Nat, o + n < Len(Flatten(q.symbols)), AtPlace(q.symbols, Place(l, i), o)
  PROVE  Trimmed(q, l, i, o, n, localErase(q, l, i, n), LocalErased(q, l, i, n).gone)
<1> DEFINE F == Flatten(q.symbols)
           acc == LocalErased(q, l, i, n)
           gone == acc.gone
           G == Flatten(acc.lines)
           e == localErase(q, l, i, n)
<1>0. q \in Replica /\ q.state = "running" /\ Ordered(q.symbols) /\ Shape(q.symbols) /\ q.size = Len(F) - 1
      /\ F \in Seq(SymbolType) /\ Len(F) \in Nat /\ Sorted(F) /\ Ended(F)
  BY ShapeFlat DEF Typing, Ordered
<1>1. LocalShrunk(F, o, n, l, i, acc)
  BY <1>0, LocalEraseAll DEF LocalErased
<1>2. e = [q EXCEPT !.symbols = acc.lines, !.size = q.size - n]
  <2>1. acc.ok
    BY <1>1 DEF LocalShrunk
  <2> QED BY <2>1, Zenon DEF localErase
<1> HIDE DEF acc, e
<1>3. Shrunk(F, o, n, acc.lines) /\ AtPlace(acc.lines, Place(l, i), o) /\ CutOff(F, o, n, gone)
  BY <1>1 DEF LocalShrunk
<1>4. ShrunkBy(F, o, n, G) /\ acc.lines \in Seq(Seq(SymbolType)) /\ Len(G) = Len(F) - n
  BY <1>3 DEF Shrunk, ShrunkBy, Shape
<1>5. Ordered(acc.lines) /\ G \in Seq(SymbolType)
  <2>1. Ordered(acc.lines)
    BY <1>0, <1>3, ShrunkOrdered
  <2> QED BY <2>1, ShapeFlat DEF Ordered
<1>s. o + n < Len(F)
  OBVIOUS
<1> HIDE DEF G, F, gone
<1>6. Becomes(q, acc.lines, q.size - n, e)
  <2>1. q.size - n \in Int
    BY <1>0 DEF Replica
  <2> QED BY <1>0, <1>2, <1>4, <2>1, ReplicaSet, Zenon
<1>7. e \in Replica /\ e.state = "running" /\ e.text = q.text /\ e.size = q.size - n /\ e.symbols = acc.lines
  BY <1>0, <1>6 DEF Becomes
<1>8. e.size = Len(G) - 1
  BY <1>0, <1>4, <1>7
<1>9. Typing(e)
  BY <1>5, <1>7, <1>8 DEF Typing, G
<1>10. ToSet(G) = Without(ToSet(F), gone)
  <2>1. o + n <= Len(F)
    BY <1>0, <1>s
  <2>2. Remains(F, o, n, G)
    BY <1>0, <1>4, <1>5, <2>1, ShrunkContent, Zenon
  <2>3. DOMAIN gone = 1 .. n /\ \A k \in 1 .. n : gone[k] = F[o + k]
    BY <1>3 DEF CutOff
  <2>4. \A x \in ToSet(F) : (\A k \in 1 .. n : x.pos # F[o + k].pos) <=> x.pos \notin PositionsOf(gone)
    BY <2>3 DEF PositionsOf
  <2> QED BY <2>2, <2>4 DEF Without, Remains
<1> QED BY <1>3, <1>4, <1>7, <1>9, <1>10, Zenon DEF Trimmed, F, G, e, gone, acc

-----------------------------------------------------------------------------
\* Places are in the order of their offsets.
LEMMA StartsIn ==
  ASSUME NEW lines, Shape(lines), NEW l \in Nat, l + 1 \in 1 .. Len(lines)
  PROVE  /\ Start(lines, l) \in Nat /\ Start(lines, l + 1) \in Nat /\ Start(lines, l + 1) = Start(lines, l) + Len(lines[l + 1])
         /\ Len(lines[l + 1]) \in Nat /\ l \in 0 .. Len(lines) /\ l + 1 \in 0 .. Len(lines)
<1>1. lines \in Seq(Seq(SymbolType)) /\ Len(lines) \in Nat
  BY DEF Shape
<1>2. l \in 0 .. Len(lines) /\ l + 1 \in 0 .. Len(lines) /\ (l + 1) - 1 = l
  BY <1>1
<1>3. Start(lines, l) \in Nat /\ Start(lines, l + 1) \in Nat
  BY <1>1, <1>2, Starts
<1>4. Start(lines, l + 1) = Start(lines, (l + 1) - 1) + Len(lines[l + 1])
  BY <1>1, Starts, Zenon
<1>5. Len(lines[l + 1]) \in Nat
  BY <1>1, LineIn
<1> QED BY <1>2, <1>3, <1>4, <1>5

\* A place in an earlier line is before.
LEMMA PlaceLess ==
  ASSUME NEW lines, Shape(lines), NEW l, NEW i, NEW o, AtPlace(lines, Place(l, i), o),
         NEW m, NEW j, NEW u, AtPlace(lines, Place(m, j), u), l < m
  PROVE  o < u
<1>1. /\ l \in Nat /\ i \in Nat /\ l + 1 \in 1 .. Len(lines) /\ i + 1 \in 1 .. Len(lines[l + 1]) /\ Start(lines, l) + i = o
      /\ m \in Nat /\ j \in Nat /\ m + 1 \in 1 .. Len(lines) /\ Start(lines, m) + j = u
  BY DEF AtPlace, Place
<1>2. /\ Start(lines, l) \in Nat /\ Start(lines, l + 1) = Start(lines, l) + Len(lines[l + 1]) /\ Len(lines[l + 1]) \in Nat /\ l + 1 \in 0 .. Len(lines)
  BY <1>1, StartsIn
<1>3. Start(lines, m) \in Nat /\ m \in 0 .. Len(lines)
  BY <1>1, StartsIn
<1>4. Start(lines, l + 1) <= Start(lines, m)
  BY <1>1, <1>2, <1>3, StartsClimb
<1> QED BY <1>1, <1>2, <1>3, <1>4

\* The order of places is that of lines, then of indexes.
LEMMA PlaceOrder ==
  ASSUME NEW lines, Shape(lines), NEW l, NEW i, NEW o, AtPlace(lines, Place(l, i), o),
         NEW m, NEW j, NEW u, AtPlace(lines, Place(m, j), u)
  PROVE  o <= u <=> (m > l \/ (m = l /\ j >= i))
<1>1. /\ l \in Nat /\ i \in Nat /\ l + 1 \in 1 .. Len(lines) /\ Start(lines, l) + i = o
      /\ m \in Nat /\ j \in Nat /\ m + 1 \in 1 .. Len(lines) /\ Start(lines, m) + j = u
  BY DEF AtPlace, Place
<1>2. Start(lines, l) \in Nat /\ Start(lines, m) \in Nat
  BY <1>1, StartsIn
<1>3. CASE l < m
  BY <1>1, <1>2, <1>3, PlaceLess
<1>4. CASE m < l
  BY <1>1, <1>2, <1>4, PlaceLess
<1>5. CASE m = l
  BY <1>1, <1>2, <1>5
<1> QED BY <1>1, <1>3, <1>4, <1>5

\* Every symbol of the lines is at some place.
LEMMA PlaceExists ==
  ASSUME NEW lines, Shape(lines), NEW k \in 1 .. Len(Flatten(lines))
  PROVE  \E a \in 1 .. Len(lines) : \E b \in 1 .. Len(lines[a]) :
           AtPlace(lines, Place(a - 1, b - 1), k - 1) /\ k = Start(lines, a - 1) + b
<1>1. lines \in Seq(Seq(SymbolType)) /\ Len(lines) \in Nat
  BY DEF Shape
<1>2. PICK a \in 1 .. Len(lines) : \E b \in 1 .. Len(lines[a]) : k = Start(lines, a - 1) + b
  BY <1>1, FlatCovers
<1>3. PICK b \in 1 .. Len(lines[a]) : k = Start(lines, a - 1) + b
  BY <1>2
<1>4. a - 1 \in Nat /\ (a - 1) + 1 = a /\ a - 1 \in 0 .. Len(lines)
  BY <1>1
<1>5. Len(lines[a]) \in Nat /\ Start(lines, a - 1) \in Nat
  <2>1. Len(lines[a]) \in Nat
    BY <1>1, LineIn
  <2>2. Start(lines, a - 1) \in Nat
    BY <1>1, <1>4, Starts
  <2> QED BY <2>1, <2>2
<1>6. b - 1 \in Nat /\ (b - 1) + 1 = b /\ Start(lines, a - 1) + (b - 1) = k - 1
  BY <1>3, <1>5
<1>7. AtPlace(lines, Place(a - 1, b - 1), k - 1)
  BY <1>4, <1>6 DEF AtPlace, Place
<1> QED BY <1>3, <1>7

-----------------------------------------------------------------------------
\* The same positions and characters in the same lines.
Relined(lines, new) ==
  /\ new \in Seq(Seq(SymbolType)) /\ Len(new) = Len(lines)
  /\ \A a \in 1 .. Len(lines) :
       /\ Len(new[a]) = Len(lines[a])
       /\ \A b \in 1 .. Len(lines[a]) : new[a][b].pos = lines[a][b].pos /\ new[a][b].val = lines[a][b].val

\* Lines with the same positions and characters are in the same order.
LEMMA RelinedSame ==
  ASSUME NEW lines, Ordered(lines), NEW new, Relined(lines, new)
  PROVE  LET F == Flatten(lines)
             G == Flatten(new)
         IN  /\ Ordered(new) /\ G \in Seq(SymbolType) /\ Len(G) = Len(F)
             /\ \A a \in 0 .. Len(lines) : Start(new, a) = Start(lines, a)
             /\ \A j \in 1 .. Len(F) : G[j].pos = F[j].pos /\ G[j].val = F[j].val
<1> DEFINE F == Flatten(lines)
           G == Flatten(new)
<1>1. /\ lines \in Seq(Seq(SymbolType)) /\ Len(lines) \in Nat /\ Len(lines) > 0 /\ Shape(lines) /\ F \in Seq(SymbolType) /\ Len(F) \in Nat /\ Sorted(F) /\ Ended(F)
      /\ \A a \in 1 .. Len(lines) : Len(lines[a]) > 0
      /\ \A a \in 1 .. Len(lines) : \A b \in 1 .. Len(lines[a]) : lines[a][b].val = NL <=> (a < Len(lines) /\ b = Len(lines[a]))
  BY ShapeFlat DEF Ordered, Shape
<1>2. new \in Seq(Seq(SymbolType)) /\ Len(new) = Len(lines)
  BY DEF Relined
<1>3. ASSUME NEW a \in 1 .. Len(lines)
      PROVE  Len(new[a]) = Len(lines[a]) /\ \A b \in 1 .. Len(lines[a]) : new[a][b].pos = lines[a][b].pos /\ new[a][b].val = lines[a][b].val
  BY DEF Relined
<1> HIDE DEF F, G
<1>4. Shape(new)
  <2>1. \A a \in 1 .. Len(new) : Len(new[a]) > 0
    BY <1>1, <1>2, <1>3
  <2>2. ASSUME NEW a \in 1 .. Len(new), NEW b \in 1 .. Len(new[a]) PROVE new[a][b].val = NL <=> (a < Len(new) /\ b = Len(new[a]))
    <3>1. Len(new) = Len(lines) /\ a \in 1 .. Len(lines)
      BY <1>2
    <3>2. Len(new[a]) = Len(lines[a]) /\ b \in 1 .. Len(lines[a])
      BY <1>3, <3>1
    <3>3. new[a][b].val = lines[a][b].val
      BY <1>3, <3>1, <3>2
    <3>4. lines[a][b].val = NL <=> (a < Len(lines) /\ b = Len(lines[a]))
      BY <1>1, <3>1, <3>2
    <3> QED BY <3>1, <3>2, <3>3, <3>4
  <2> QED BY <1>1, <1>2, <2>1, <2>2 DEF Shape
<1>5. G \in Seq(SymbolType) /\ Len(G) = Len(F) /\ \A a \in 0 .. Len(lines) : Start(new, a) = Start(lines, a)
  <2> DEFINE Done == {a \in Nat : a <= Len(lines) => Start(new, a) = Start(lines, a)}
  <2>1. /\ Start(new, 0) = 0 /\ Start(lines, 0) = 0
        /\ \A a \in 1 .. Len(lines) : Start(lines, a) = Start(lines, a - 1) + Len(lines[a])
        /\ \A a \in 1 .. Len(lines) : Start(new, a) = Start(new, a - 1) + Len(new[a])
        /\ Start(lines, Len(lines)) = Len(F) /\ Start(new, Len(lines)) = Len(G)
    BY <1>1, <1>2, Starts DEF F, G
  <2>2. 0 \in Done
    BY <2>1
  <2>3. ASSUME NEW a \in Done PROVE a + 1 \in Done
    <3>1. SUFFICES ASSUME a + 1 <= Len(lines) PROVE Start(new, a + 1) = Start(lines, a + 1)
      BY <3>1
    <3>2. a + 1 \in 1 .. Len(lines) /\ (a + 1) - 1 = a /\ Start(new, a) = Start(lines, a)
      BY <1>1, <3>1
    <3> QED BY <1>3, <2>1, <3>2
  <2>4. 0 .. Len(lines) \subseteq Done
    <3> HIDE DEF Done
    <3> QED BY <1>1, <2>2, <2>3, UpTo
  <2>5. \A a \in 0 .. Len(lines) : Start(new, a) = Start(lines, a)
    BY <1>1, <2>4
  <2>6. Len(lines) \in 0 .. Len(lines)
    BY <1>1
  <2>7. G \in Seq(SymbolType)
    BY <1>4, ShapeFlat DEF G
  <2> HIDE DEF Done
  <2> QED BY <2>1, <2>5, <2>6, <2>7
<1>6. ASSUME NEW j \in 1 .. Len(F) PROVE G[j].pos = F[j].pos /\ G[j].val = F[j].val
  <2>1. PICK a \in 1 .. Len(lines) : \E b \in 1 .. Len(lines[a]) : j = Start(lines, a - 1) + b
    BY <1>1, FlatCovers DEF F
  <2>2. PICK b \in 1 .. Len(lines[a]) : j = Start(lines, a - 1) + b
    BY <2>1
  <2>3. F[j] = lines[a][b]
    BY <1>1, <2>2, FlatIndex DEF F
  <2>4. G[j] = new[a][b]
    <3>1. a \in 1 .. Len(new) /\ b \in 1 .. Len(new[a]) /\ Start(new, a - 1) = Start(lines, a - 1)
      <4>1. a - 1 \in 0 .. Len(lines)
        BY <1>1
      <4> QED BY <1>2, <1>3, <1>5, <4>1
    <3> QED BY <1>2, <2>2, <3>1, FlatIndex DEF G
  <2> QED BY <1>3, <2>3, <2>4
<1>7. Ordered(new)
  <2>1. Sorted(G)
    BY <1>1, <1>5, <1>6 DEF Sorted
  <2>2. Ended(G)
    BY <1>1, <1>5, <1>6 DEF Ended
  <2> QED BY <1>4, <2>1, <2>2 DEF Ordered, G
<1> QED BY <1>5, <1>6, <1>7 DEF F, G

-----------------------------------------------------------------------------
\* Lines whose symbols from the place of offset o to the place of offset u are
\* the only ones kept.
LEMMA TrimmedLine ==
  ASSUME NEW line \in Seq(SymbolType), NEW from \in Nat, NEW to \in Nat, from > 0, to <= Len(line), from <= to + 1
  PROVE  LET y == SubSeq(line, from, to)
         IN  y \in Seq(SymbolType) /\ Len(y) = (to + 1) - from /\ \A k \in 1 .. (to + 1) - from : y[k] = line[(from - 1) + k]
<1>1. SubSeq(line, from, to) = [k \in 1 .. (to + 1) - from |-> line[(from - 1) + k]]
  BY DEF SubSeq
<1> QED BY <1>1

\* A selection: the places of the offsets o and u.
Selection(lines, l1, i1, l2, i2, o, u) ==
  AtPlace(lines, Place(l1, i1), o) /\ AtPlace(lines, Place(l2, i2), u) /\ o <= u

\* The symbols of the selection in the first a lines.
Reach(lines, l1, l2, o, u, a) == IF a <= l1 THEN 0 ELSE IF a <= l2 THEN Start(lines, a) - o ELSE (u + 1) - o

Part(lines, l1, i1, l2, i2, l) ==
  LET from == IF l - 1 = l1 THEN i1 + 1 ELSE 1
      to == IF l - 1 = l2 THEN i2 + 1 ELSE Len(lines[l])
  IN  IF l - 1 < l1 \/ l - 1 > l2 THEN <<>> ELSE SubSeq(lines[l], from, to)

\* The two ends of a selection.
LEMMA SelectionPlaces ==
  ASSUME NEW lines, Shape(lines), NEW l1, NEW i1, NEW l2, NEW i2, NEW o, NEW u, Selection(lines, l1, i1, l2, i2, o, u)
  PROVE  /\ l1 \in Nat /\ i1 \in Nat /\ l1 + 1 \in 1 .. Len(lines) /\ i1 + 1 \in 1 .. Len(lines[l1 + 1]) /\ Start(lines, l1) + i1 = o
         /\ l2 \in Nat /\ i2 \in Nat /\ l2 + 1 \in 1 .. Len(lines) /\ i2 + 1 \in 1 .. Len(lines[l2 + 1]) /\ Start(lines, l2) + i2 = u
         /\ l1 < l2 \/ (l1 = l2 /\ i1 <= i2)
         /\ o \in Nat /\ u \in Nat /\ u + 1 \in 1 .. Len(Flatten(lines)) /\ o <= u
<1>1. /\ l1 \in Nat /\ i1 \in Nat /\ l1 + 1 \in 1 .. Len(lines) /\ i1 + 1 \in 1 .. Len(lines[l1 + 1]) /\ Start(lines, l1) + i1 = o
      /\ l2 \in Nat /\ i2 \in Nat /\ l2 + 1 \in 1 .. Len(lines) /\ i2 + 1 \in 1 .. Len(lines[l2 + 1]) /\ Start(lines, l2) + i2 = u
      /\ o <= u
  BY DEF Selection, AtPlace, Place
<1>2. l1 < l2 \/ (l1 = l2 /\ i1 <= i2)
  <2>1. o <= u <=> (l2 > l1 \/ (l2 = l1 /\ i2 >= i1))
    BY PlaceOrder DEF Selection
  <2> QED BY <1>1, <2>1
<1>3. Start(lines, l1) \in Nat /\ Start(lines, l2) \in Nat
  BY <1>1, StartsIn
<1>4. u + 1 \in 1 .. Len(Flatten(lines))
  <2> DEFINE m == l2 + 1
             j == i2 + 1
  <2>1. m \in 1 .. Len(lines) /\ j \in 1 .. Len(lines[m]) /\ m - 1 = l2 /\ lines \in Seq(Seq(SymbolType))
    BY <1>1 DEF Shape
  <2> HIDE DEF m, j
  <2>2. Start(lines, m - 1) + j \in 1 .. Len(Flatten(lines))
    BY <2>1, FlatIndex
  <2>3. Start(lines, l2) + j = u + 1
    BY <1>1, <1>3 DEF j
  <2> QED BY <2>1, <2>2, <2>3
<1>5. o \in Nat /\ u \in Nat
  BY <1>1, <1>3
<1> QED BY <1>1, <1>2, <1>4, <1>5, Zenon

\* Sums, for the lemma below: s and t are where a line begins and ends.
LEMMA Below ==
  ASSUME NEW s \in Nat, NEW i \in Nat, NEW n \in Nat, NEW t \in Nat, NEW z \in Nat, i + 1 \in 1 .. n, t = s + n, t <= z
  PROVE  s + i < z
OBVIOUS

RangeBounds(l1, i1, l2, i2, o, u, a, s, n, t) ==
  /\ l1 \in Nat /\ i1 \in Nat /\ l2 \in Nat /\ i2 \in Nat /\ o \in Nat /\ u \in Nat /\ a \in Nat /\ s \in Nat /\ n \in Nat /\ t \in Nat
  /\ t = s + n /\ o <= u /\ (l1 < l2 \/ (l1 = l2 /\ i1 <= i2))
  /\ a = l1 => s + i1 = o /\ i1 + 1 <= n
  /\ a = l2 => s + i2 = u /\ i2 + 1 <= n
  /\ a > l1 => o < s
  /\ a + 1 > l1 => o < t

PartBounds(o, s, n, from, to, x, y) ==
  /\ from \in Nat /\ to \in Nat /\ from > 0 /\ to <= n /\ from <= to + 1
  /\ s + (from - 1) = o + x /\ s + to = o + y /\ x \in Nat /\ y \in Nat

\* Sums: the part of a line that a selection covers.
LEMMA RangeSums ==
  ASSUME NEW l1, NEW i1, NEW l2, NEW i2, NEW o, NEW u, NEW a, NEW s, NEW n, NEW t,
         RangeBounds(l1, i1, l2, i2, o, u, a, s, n, t), l1 <= a, a <= l2
  PROVE  PartBounds(o, s, n, IF a = l1 THEN i1 + 1 ELSE 1, IF a = l2 THEN i2 + 1 ELSE n,
                    IF a <= l1 THEN 0 ELSE IF a <= l2 THEN s - o ELSE (u + 1) - o,
                    IF a + 1 <= l1 THEN 0 ELSE IF a + 1 <= l2 THEN t - o ELSE (u + 1) - o)
BY DEF RangeBounds, PartBounds

PartSum(o, s, n, from, to, x, y) ==
  /\ x + ((to + 1) - from) = y
  /\ \A k \in 1 .. (to + 1) - from : (from - 1) + k \in 1 .. n /\ s + ((from - 1) + k) = o + (x + k)

\* Sums: the indexes of that part.
LEMMA PartSums ==
  ASSUME NEW o \in Nat, NEW s \in Nat, NEW n \in Nat, NEW from, NEW to, NEW x, NEW y, PartBounds(o, s, n, from, to, x, y)
  PROVE  PartSum(o, s, n, from, to, x, y)
BY DEF PartBounds, PartSum

\* The selected symbols of one more line.
LEMMA PartNext ==
  ASSUME NEW lines, Shape(lines), NEW l1, NEW i1, NEW l2, NEW i2, NEW o, NEW u, Selection(lines, l1, i1, l2, i2, o, u),
         NEW a \in Nat, a + 1 \in 1 .. Len(lines)
  PROVE  LET n == Reach(lines, l1, l2, o, u, a)
             m == Reach(lines, l1, l2, o, u, a + 1)
             y == Part(lines, l1, i1, l2, i2, a + 1)
         IN  /\ n \in Nat /\ m \in Nat /\ y \in Seq(SymbolType) /\ n + Len(y) = m
             /\ \A k \in 1 .. Len(y) : y[k] = Flatten(lines)[o + (n + k)]
<1> DEFINE n == Reach(lines, l1, l2, o, u, a)
           m == Reach(lines, l1, l2, o, u, a + 1)
           y == Part(lines, l1, i1, l2, i2, a + 1)
           line == lines[a + 1]
           F == Flatten(lines)
<1>1. /\ l1 \in Nat /\ i1 \in Nat /\ l1 + 1 \in 1 .. Len(lines) /\ i1 + 1 \in 1 .. Len(lines[l1 + 1]) /\ Start(lines, l1) + i1 = o
      /\ l2 \in Nat /\ i2 \in Nat /\ l2 + 1 \in 1 .. Len(lines) /\ i2 + 1 \in 1 .. Len(lines[l2 + 1]) /\ Start(lines, l2) + i2 = u
      /\ l1 < l2 \/ (l1 = l2 /\ i1 <= i2)
      /\ o \in Nat /\ u \in Nat /\ o <= u
  BY SelectionPlaces
<1>2. lines \in Seq(Seq(SymbolType)) /\ Len(lines) \in Nat /\ line \in Seq(SymbolType)
  BY LineIn DEF Shape
<1>3. /\ Start(lines, a) \in Nat /\ Start(lines, a + 1) \in Nat /\ Start(lines, a + 1) = Start(lines, a) + Len(line)
      /\ Len(line) \in Nat /\ a \in 0 .. Len(lines) /\ a + 1 \in 0 .. Len(lines)
  BY StartsIn
<1>4. a > l1 => o < Start(lines, a)
  <2>1. SUFFICES ASSUME a > l1 PROVE o < Start(lines, a)
    OBVIOUS
  <2>2. /\ Start(lines, l1) \in Nat /\ Start(lines, l1 + 1) \in Nat /\ Start(lines, l1 + 1) = Start(lines, l1) + Len(lines[l1 + 1])
        /\ Len(lines[l1 + 1]) \in Nat /\ l1 + 1 \in 0 .. Len(lines)
    BY <1>1, StartsIn
  <2>3. Start(lines, l1 + 1) <= Start(lines, a)
    <3>1. l1 + 1 <= a
      BY <1>1, <2>1
    <3> QED BY <1>3, <2>2, <3>1, StartsClimb
  <2>4. Start(lines, l1) + i1 < Start(lines, a)
    BY <1>1, <1>3, <2>2, <2>3, Below
  <2> QED BY <1>1, <2>4
<1>5. RangeBounds(l1, i1, l2, i2, o, u, a, Start(lines, a), Len(line), Start(lines, a + 1))
  <2>1. a = l1 => Start(lines, a) + i1 = o /\ i1 + 1 \in 1 .. Len(line)
    BY <1>1
  <2>2. a = l2 => Start(lines, a) + i2 = u /\ i2 + 1 \in 1 .. Len(line)
    BY <1>1
  <2> DEFINE s == Start(lines, a)
             t == Start(lines, a + 1)
             z == Len(line)
  <2>3. s \in Nat /\ t \in Nat /\ z \in Nat /\ t = s + z
    BY <1>3
  <2>4. /\ l1 \in Nat /\ i1 \in Nat /\ l2 \in Nat /\ i2 \in Nat /\ o \in Nat /\ u \in Nat /\ (l1 < l2 \/ (l1 = l2 /\ i1 <= i2)) /\ o <= u
        /\ a = l1 => s + i1 = o /\ i1 + 1 \in 1 .. z
        /\ a = l2 => s + i2 = u /\ i2 + 1 \in 1 .. z
        /\ a > l1 => o < s
    BY <1>1, <1>4, <2>1, <2>2
  <2> HIDE DEF s, t, z, line, F, y, n, m
  <2>5. a = l1 => s + i1 = o /\ i1 + 1 <= z
    BY <2>3, <2>4
  <2>6. a = l2 => s + i2 = u /\ i2 + 1 <= z
    BY <2>3, <2>4
  <2>7. a + 1 > l1 => o < t
    <3>1. CASE a = l1
      BY <2>3, <2>4, <2>5, <3>1
    <3>2. CASE a > l1
      BY <2>3, <2>4, <3>2
    <3> QED BY <2>4, <3>1, <3>2
  <2>8. RangeBounds(l1, i1, l2, i2, o, u, a, s, z, t)
    BY <2>3, <2>4, <2>5, <2>6, <2>7 DEF RangeBounds
  <2> QED BY <2>8 DEF s, t, z
<1>6. CASE a < l1 \/ a > l2
  <2>1. y = <<>>
    <3>1. (a + 1) - 1 = a
      OBVIOUS
    <3> QED BY <1>6, <3>1, Zenon DEF Part
  <2>2. n = m /\ n \in Nat
    BY <1>1, <1>3, <1>6 DEF Reach
  <2>3. Len(<<>>) = 0 /\ <<>> \in Seq(SymbolType)
    OBVIOUS
  <2> HIDE DEF y, n, m, F
  <2>4. n \in Nat /\ m \in Nat /\ y \in Seq(SymbolType) /\ n + Len(y) = m /\ \A k \in 1 .. Len(y) : y[k] = F[o + (n + k)]
    BY <2>1, <2>2, <2>3
  <2> QED BY <2>4 DEF y, n, m, F
<1>7. CASE l1 <= a /\ a <= l2
  <2> DEFINE from == IF a = l1 THEN i1 + 1 ELSE 1
             to == IF a = l2 THEN i2 + 1 ELSE Len(line)
  <2>1. y = SubSeq(line, from, to)
    <3>1. (a + 1) - 1 = a /\ ~(a < l1 \/ a > l2)
      BY <1>1, <1>7
    <3> QED BY <3>1, Zenon DEF Part
  <2>2. PartBounds(o, Start(lines, a), Len(line), from, to, n, m)
    BY <1>5, <1>7, RangeSums, Zenon DEF Reach
  <2> HIDE DEF from, to, n, m
  <2> HIDE DEF line
  <2>3. y \in Seq(SymbolType) /\ Len(y) = (to + 1) - from /\ \A k \in 1 .. (to + 1) - from : y[k] = line[(from - 1) + k]
    <3>1. /\ SubSeq(line, from, to) \in Seq(SymbolType) /\ Len(SubSeq(line, from, to)) = (to + 1) - from
          /\ \A k \in 1 .. (to + 1) - from : SubSeq(line, from, to)[k] = line[(from - 1) + k]
      BY <1>2, <2>2, TrimmedLine DEF PartBounds
    <3> QED BY <2>1, <3>1, Zenon
  <2> HIDE DEF y
  <2>t. /\ n + ((to + 1) - from) = m
        /\ \A k \in 1 .. (to + 1) - from : (from - 1) + k \in 1 .. Len(line) /\ Start(lines, a) + ((from - 1) + k) = o + (n + k)
    <3>1. PartSum(o, Start(lines, a), Len(line), from, to, n, m)
      BY <1>1, <1>3, <2>2, PartSums, Zenon
    <3> QED BY <3>1, Zenon DEF PartSum
  <2>4. n + Len(y) = m
    BY <2>3, <2>t, Zenon
  <2>5. ASSUME NEW k \in 1 .. Len(y) PROVE y[k] = F[o + (n + k)]
    <3>1. (from - 1) + k \in 1 .. Len(line) /\ k \in 1 .. (to + 1) - from
      BY <2>3, <2>t, Zenon
    <3>2. F[Start(lines, a) + ((from - 1) + k)] = line[(from - 1) + k]
      <4> DEFINE c == a + 1
                 b == (from - 1) + k
      <4>1. c \in 1 .. Len(lines) /\ c - 1 = a /\ b \in 1 .. Len(lines[c])
        BY <3>1 DEF line
      <4> HIDE DEF c, b
      <4>2. F[Start(lines, c - 1) + b] = lines[c][b]
        <5>1. lines \in Seq(Seq(SymbolType))
          BY <1>2
        <5> QED BY <4>1, <5>1, FlatIndex
      <4> QED BY <4>1, <4>2 DEF c, b, line
    <3>3. Start(lines, a) + ((from - 1) + k) = o + (n + k)
      BY <2>t, <3>1, Zenon
    <3> QED BY <2>3, <3>1, <3>2, <3>3, Zenon
  <2>6. n \in Nat /\ m \in Nat
    BY <2>2, Zenon DEF PartBounds
  <2> QED BY <2>3, <2>4, <2>5, <2>6 DEF n, m, y
<1> QED BY <1>1, <1>6, <1>7

\* The symbols broadcast are those of the selection.
Selected(F, o, u, Q) == Q \in Seq(SymbolType) /\ Len(Q) = (u + 1) - o /\ \A k \in 1 .. Len(Q) : Q[k] = F[o + k]

\* The symbols that SymbolsInRange collects.
LEMMA RangeSelected ==
  ASSUME NEW lines, Shape(lines), NEW l1, NEW i1, NEW l2, NEW i2, NEW o, NEW u, Selection(lines, l1, i1, l2, i2, o, u)
  PROVE  Selected(Flatten(lines), o, u, SymbolsInRange(lines, l1, i1, l2, i2))
<1> DEFINE F == Flatten(lines)
           parts == [l \in DOMAIN lines |-> Part(lines, l1, i1, l2, i2, l)]
           reach(a) == Reach(lines, l1, l2, o, u, a)
           Q == Flatten(parts)
<1>1. lines \in Seq(Seq(SymbolType)) /\ Len(lines) \in Nat /\ DOMAIN lines = 1 .. Len(lines)
  BY DEF Shape
<1>2. SymbolsInRange(lines, l1, i1, l2, i2) = Q
  BY Zenon DEF SymbolsInRange, Part, Flatten
<1>3. ASSUME NEW a \in 1 .. Len(lines)
      PROVE  /\ reach(a - 1) \in Nat /\ parts[a] \in Seq(SymbolType) /\ reach(a - 1) + Len(parts[a]) = reach(a)
             /\ \A k \in 1 .. Len(parts[a]) : parts[a][k] = F[o + (reach(a - 1) + k)]
  <2> DEFINE b == a - 1
  <2>1. b \in Nat /\ b + 1 = a /\ b + 1 \in 1 .. Len(lines)
    BY <1>1
  <2>2. parts[a] = Part(lines, l1, i1, l2, i2, a)
    BY <1>1
  <2> HIDE DEF b, parts, F
  <2>3. /\ reach(b) \in Nat /\ Part(lines, l1, i1, l2, i2, b + 1) \in Seq(SymbolType) /\ reach(b) + Len(Part(lines, l1, i1, l2, i2, b + 1)) = reach(b + 1)
        /\ \A k \in 1 .. Len(Part(lines, l1, i1, l2, i2, b + 1)) : Part(lines, l1, i1, l2, i2, b + 1)[k] = F[o + (reach(b) + k)]
    BY <2>1, PartNext DEF F
  <2> HIDE DEF reach
  <2> QED BY <2>1, <2>2, <2>3 DEF b
<1>4. parts \in Seq(Seq(SymbolType)) /\ Len(parts) = Len(lines)
  BY <1>1, <1>3
<1> HIDE DEF parts, Q, F
<1>5. /\ Upto(parts, 0) = <<>> /\ Upto(parts, Len(lines)) = Q
      /\ \A k \in 0 .. Len(lines) : Upto(parts, k) \in Seq(SymbolType)
      /\ \A k \in 1 .. Len(lines) : Upto(parts, k) = Upto(parts, k - 1) \o parts[k]
  BY <1>4, Starts DEF Q
<1> DEFINE Taken(a) == Len(Upto(parts, a)) = reach(a) /\ \A k \in 1 .. reach(a) : Upto(parts, a)[k] = F[o + k]
           Done == {a \in Nat : a <= Len(lines) => Taken(a)}
<1>6. 0 \in Done
  <2>1. reach(0) = 0
    BY SelectionPlaces DEF Reach
  <2> HIDE DEF reach
  <2> QED BY <1>5, <2>1
<1>7. ASSUME NEW a \in Done PROVE a + 1 \in Done
  <2>1. SUFFICES ASSUME a + 1 <= Len(lines) PROVE Taken(a + 1)
    BY <2>1
  <2> DEFINE x == Upto(parts, a)
             y == parts[a + 1]
             n == reach(a)
             m == reach(a + 1)
  <2>2. a \in Nat /\ a + 1 \in 1 .. Len(lines) /\ (a + 1) - 1 = a /\ a \in 0 .. Len(lines) /\ Taken(a)
    <3> HIDE DEF Taken
    <3> QED BY <1>1, <2>1
  <2> HIDE DEF reach
  <2>3. n \in Nat /\ y \in Seq(SymbolType) /\ n + Len(y) = m /\ \A k \in 1 .. Len(y) : y[k] = F[o + (n + k)]
    BY <1>3, <2>2
  <2>4. x \in Seq(SymbolType) /\ Upto(parts, a + 1) = x \o y /\ Len(x) = n /\ \A k \in 1 .. n : x[k] = F[o + k]
    BY <1>5, <2>2
  <2> HIDE DEF x, y, n, m
  <2>5. Len(x \o y) = m /\ \A k \in 1 .. m : (x \o y)[k] = F[o + k]
    <3>1. /\ Len(x \o y) = Len(x) + Len(y) /\ \A k \in 1 .. Len(x) : (x \o y)[k] = x[k]
          /\ \A k \in 1 .. Len(y) : (x \o y)[Len(x) + k] = y[k]
      <4>1. x \in Seq(SymbolType) /\ y \in Seq(SymbolType)
        BY <2>3, <2>4
      <4> QED BY <4>1, Both
    <3>2. Len(y) \in Nat
      BY <2>3
    <3>3. Len(x \o y) = m
      BY <2>3, <2>4, <3>1
    <3> DEFINE z == x \o y
    <3> HIDE DEF z
    <3>4. (\A k \in 1 .. n : z[k] = F[o + k]) /\ \A k \in 1 .. Len(y) : z[n + k] = F[o + (n + k)]
      BY <2>3, <2>4, <3>1 DEF z
    <3>5. \A k \in 1 .. m : k \in 1 .. n \/ (k - n \in 1 .. Len(y) /\ n + (k - n) = k)
      BY <2>3, <3>2
    <3>6. \A k \in 1 .. m : z[k] = F[o + k]
      BY <3>4, <3>5
    <3> QED BY <3>3, <3>6 DEF z
  <2> QED BY <2>4, <2>5 DEF m
<1>8. 0 .. Len(lines) \subseteq Done
  <2> HIDE DEF Done
  <2> QED BY <1>1, <1>6, <1>7, UpTo
<1>9. Taken(Len(lines))
  <2>1. Len(lines) \in 0 .. Len(lines)
    BY <1>1
  <2>2. Len(lines) \in Done
    BY <1>8, <2>1, Zenon
  <2> HIDE DEF Taken
  <2> QED BY <1>1, <2>2
<1>10. reach(Len(lines)) = (u + 1) - o
  <2>1. ~(Len(lines) <= l1) /\ ~(Len(lines) <= l2)
    <3>1. l1 \in Nat /\ l1 + 1 \in 1 .. Len(lines) /\ l2 \in Nat /\ l2 + 1 \in 1 .. Len(lines)
      BY SelectionPlaces, Zenon
    <3> HIDE DEF reach, Taken, Done
    <3> QED BY <1>1, <3>1
  <2> QED BY <2>1 DEF Reach
<1>11. Len(lines) \in 0 .. Len(lines)
  BY <1>1
<1> HIDE DEF reach
<1>12. Q \in Seq(SymbolType) /\ Len(Q) = (u + 1) - o /\ \A k \in 1 .. Len(Q) : Q[k] = F[o + k]
  BY <1>5, <1>9, <1>10, <1>11
<1> QED BY <1>2, <1>12 DEF Selected, F

\* A symbol may get another format or another alignment.
LEMMA SymbolGets ==
  ASSUME NEW s \in SymbolType
  PROVE  /\ \A fmt \in Formats : [s EXCEPT !.fmt = fmt] \in SymbolType /\ [s EXCEPT !.fmt = fmt].pos = s.pos /\ [s EXCEPT !.fmt = fmt].val = s.val
         /\ \A align \in Aligns : /\ [s EXCEPT !.align = align] \in SymbolType /\ [s EXCEPT !.align = align].pos = s.pos /\ [s EXCEPT !.align = align].val = s.val
                                  /\ s = [[s EXCEPT !.align = align] EXCEPT !.align = s.align]
BY Zenon DEF SymbolType

\* Places stay when the symbols of the lines get other formats or alignments.
LEMMA RelinedPlace ==
  ASSUME NEW lines, Ordered(lines), NEW new, Relined(lines, new), NEW at, NEW o, AtPlace(lines, at, o)
  PROVE  AtPlace(new, at, o)
<1>1. /\ at.kind = "found" /\ at.line \in Nat /\ at.index \in Nat
      /\ at.line + 1 \in 1 .. Len(lines) /\ at.index + 1 \in 1 .. Len(lines[at.line + 1])
      /\ Start(lines, at.line) + at.index = o
  BY DEF AtPlace
<1>2. at.line \in 0 .. Len(lines)
  BY <1>1, StartsIn DEF Ordered
<1>3. Start(new, at.line) = Start(lines, at.line)
  BY <1>2, RelinedSame
<1>4. Len(new) = Len(lines) /\ Len(new[at.line + 1]) = Len(lines[at.line + 1])
  BY <1>1 DEF Relined
<1> QED BY <1>1, <1>3, <1>4 DEF AtPlace

\* A replica whose symbols got other formats or alignments.
LEMMA RelinedGood ==
  ASSUME NEW r, Good(r), NEW new, Relined(r.symbols, new)
  PROVE  Good([r EXCEPT !.symbols = new]) /\ [r EXCEPT !.symbols = new].symbols = new
<1> DEFINE lines == r.symbols
           F == Flatten(lines)
           G == Flatten(new)
           q == [r EXCEPT !.symbols = new]
<1>0. r \in Replica /\ r.state = "running" /\ Ordered(lines) /\ r.size = Len(F) - 1 /\ Follows(r.text, F) /\ Len(F) \in Nat
  BY ShapeFlat DEF Good, Ordered
<1>1. Ordered(new) /\ Len(G) = Len(F) /\ \A j \in 1 .. Len(F) : G[j].val = F[j].val
  BY <1>0, RelinedSame
<1>2. new \in Seq(Seq(SymbolType))
  BY DEF Relined
<1>3. Becomes(r, new, r.size, q)
  BY <1>0, <1>2, ReplicaSymbols
<1> HIDE DEF q, F, G
<1>4. q \in Replica /\ q.state = "running" /\ q.symbols = new /\ q.size = r.size /\ q.text = r.text
  BY <1>0, <1>3 DEF Becomes
<1>5. Follows(q.text, G)
  <2>1. \A j \in 1 .. Len(F) - 1 : j \in 1 .. Len(F)
    BY <1>0
  <2> QED BY <1>0, <1>1, <1>4, <2>1 DEF Follows
<1>6. Good(q)
  BY <1>0, <1>1, <1>4, <1>5 DEF Good, G
<1> QED BY <1>4, <1>6 DEF q

-----------------------------------------------------------------------------
\* A new format for a selection.
Formatted(r, o, u, fmt, G) ==
  \A j \in 1 .. Len(Flatten(r.symbols)) :
    G[j] = IF o < j /\ j <= u + 1 THEN [Flatten(r.symbols)[j] EXCEPT !.fmt = fmt] ELSE Flatten(r.symbols)[j]

\* localChangeGroup formats the selection and nothing else.
LEMMA GroupFormatted ==
  ASSUME NEW r, Good(r), NEW l1, NEW i1, NEW l2, NEW i2, NEW o, NEW u, Selection(r.symbols, l1, i1, l2, i2, o, u), NEW fmt \in Formats
  PROVE  LET q == localChangeGroup(r, l1, i1, l2, i2, fmt)
         IN  Good(q) /\ Relined(r.symbols, q.symbols) /\ Formatted(r, o, u, fmt, Flatten(q.symbols))
<1> DEFINE lines == r.symbols
           F == Flatten(lines)
           line(l) == [i \in DOMAIN lines[l] |-> IF InRange(l - 1, i - 1, l1, i1, l2, i2) THEN [lines[l][i] EXCEPT !.fmt = fmt] ELSE lines[l][i]]
           new == [l \in DOMAIN lines |-> line(l)]
           G == Flatten(new)
           q == localChangeGroup(r, l1, i1, l2, i2, fmt)
<1>0. Ordered(lines) /\ Shape(lines) /\ lines \in Seq(Seq(SymbolType)) /\ Len(lines) \in Nat /\ DOMAIN lines = 1 .. Len(lines) /\ F \in Seq(SymbolType)
  BY ShapeFlat DEF Good, Ordered, Shape
<1>1. q = [r EXCEPT !.symbols = new]
  BY Zenon DEF localChangeGroup
<1>2. ASSUME NEW a \in 1 .. Len(lines)
      PROVE  /\ new[a] \in Seq(SymbolType) /\ Len(new[a]) = Len(lines[a])
             /\ \A b \in 1 .. Len(lines[a]) :
                  /\ new[a][b] = IF InRange(a - 1, b - 1, l1, i1, l2, i2) THEN [lines[a][b] EXCEPT !.fmt = fmt] ELSE lines[a][b]
                  /\ new[a][b].pos = lines[a][b].pos /\ new[a][b].val = lines[a][b].val
  <2>1. new[a] = line(a)
    BY <1>0
  <2>2. lines[a] \in Seq(SymbolType) /\ Len(lines[a]) \in Nat /\ DOMAIN lines[a] = 1 .. Len(lines[a])
    BY <1>0, LineIn
  <2> DEFINE s(b) == IF InRange(a - 1, b - 1, l1, i1, l2, i2) THEN [lines[a][b] EXCEPT !.fmt = fmt] ELSE lines[a][b]
  <2>3. ASSUME NEW b \in 1 .. Len(lines[a]) PROVE s(b) \in SymbolType /\ s(b).pos = lines[a][b].pos /\ s(b).val = lines[a][b].val
    <3>1. lines[a][b] \in SymbolType
      BY <2>2
    <3> QED BY <3>1, SymbolGets, Zenon
  <2>4. line(a) = [b \in 1 .. Len(lines[a]) |-> s(b)]
    BY <2>2
  <2> HIDE DEF s, line, new, F
  <2>5. line(a) \in Seq(SymbolType) /\ Len(line(a)) = Len(lines[a]) /\ \A b \in 1 .. Len(lines[a]) : line(a)[b] = s(b)
    BY <2>2, <2>3, <2>4
  <2> QED BY <2>1, <2>3, <2>5 DEF s
<1>3. Len(new) = Len(lines) /\ new \in Seq(Seq(SymbolType))
  <2> HIDE DEF line, F, q
  <2>1. \A a \in 1 .. Len(lines) : line(a) \in Seq(SymbolType)
    BY <1>0, <1>2
  <2>2. new = [a \in 1 .. Len(lines) |-> line(a)]
    BY <1>0
  <2> QED BY <1>0, <2>1, <2>2
<1> HIDE DEF line, new, q
<1>4. Relined(lines, new)
  BY <1>2, <1>3 DEF Relined
<1>5. Good(q) /\ q.symbols = new
  BY <1>1, <1>4, RelinedGood
<1>6. \A a \in 0 .. Len(lines) : Start(new, a) = Start(lines, a)
  BY <1>0, <1>4, RelinedSame
<1>7. ASSUME NEW j \in 1 .. Len(F) PROVE G[j] = IF o < j /\ j <= u + 1 THEN [F[j] EXCEPT !.fmt = fmt] ELSE F[j]
  <2>1. PICK a \in 1 .. Len(lines) : \E b \in 1 .. Len(lines[a]) : AtPlace(lines, Place(a - 1, b - 1), j - 1) /\ j = Start(lines, a - 1) + b
    BY <1>0, PlaceExists
  <2>2. PICK b \in 1 .. Len(lines[a]) : AtPlace(lines, Place(a - 1, b - 1), j - 1) /\ j = Start(lines, a - 1) + b
    BY <2>1
  <2>3. F[j] = lines[a][b]
    BY <1>0, <2>2, FlatIndex
  <2>4. G[j] = new[a][b]
    <3>1. a \in 1 .. Len(new) /\ b \in 1 .. Len(new[a]) /\ Start(new, a - 1) = Start(lines, a - 1)
      <4>1. a - 1 \in 0 .. Len(lines)
        BY <1>0
      <4> QED BY <1>2, <1>3, <1>6, <4>1
    <3> QED BY <1>3, <2>2, <3>1, FlatIndex
  <2>5. AtPlace(lines, Place(l1, i1), o) /\ AtPlace(lines, Place(l2, i2), u)
    BY DEF Selection
  <2>6. o <= j - 1 <=> (a - 1 > l1 \/ (a - 1 = l1 /\ b - 1 >= i1))
    BY <1>0, <2>2, <2>5, PlaceOrder
  <2>7. j - 1 <= u <=> (l2 > a - 1 \/ (l2 = a - 1 /\ i2 >= b - 1))
    BY <1>0, <2>2, <2>5, PlaceOrder
  <2>8. /\ l1 \in Nat /\ i1 \in Nat /\ l2 \in Nat /\ i2 \in Nat /\ o \in Nat /\ u \in Nat
    BY <1>0, SelectionPlaces
  <2>b. b \in Int
    OBVIOUS
  <2> HIDE DEF F, G
  <2>9. InRange(a - 1, b - 1, l1, i1, l2, i2) <=> (o < j /\ j <= u + 1)
    <3>1. o < j <=> o <= j - 1
      BY <2>8
    <3>2. j <= u + 1 <=> j - 1 <= u
      BY <2>8
    <3>3. (l2 > a - 1 \/ (l2 = a - 1 /\ i2 >= b - 1)) <=> (a - 1 < l2 \/ (a - 1 = l2 /\ b - 1 <= i2))
      BY <2>8, <2>b
    <3> QED BY <2>6, <2>7, <3>1, <3>2, <3>3, Zenon DEF InRange
  <2> QED BY <1>2, <2>3, <2>4, <2>9
<1>8. Formatted(r, o, u, fmt, G)
  BY <1>7 DEF Formatted
<1> QED BY <1>4, <1>5, <1>8 DEF q

\* What is broadcast says what changed.
LEMMA FormatSent ==
  ASSUME NEW r, Good(r), NEW l1, NEW i1, NEW l2, NEW i2, NEW o, NEW u, Selection(r.symbols, l1, i1, l2, i2, o, u), NEW fmt \in Formats
  PROVE  LET q == localChangeGroup(r, l1, i1, l2, i2, fmt)
             S == SymbolsInRange(q.symbols, l1, i1, l2, i2)
             X == ToSet(Flatten(r.symbols))
         IN  Holds(q, Without(X, S) \cup ToSet(S)) /\ Named(X, S) /\ Sorted(S) /\ Len(S) > 0
<1> DEFINE F == Flatten(r.symbols)
           q == localChangeGroup(r, l1, i1, l2, i2, fmt)
           G == Flatten(q.symbols)
           S == SymbolsInRange(q.symbols, l1, i1, l2, i2)
           X == ToSet(F)
<1>0. Ordered(r.symbols) /\ Shape(r.symbols) /\ F \in Seq(SymbolType) /\ Len(F) \in Nat /\ Sorted(F)
  BY ShapeFlat DEF Good, Ordered
<1>1. Good(q) /\ Relined(r.symbols, q.symbols) /\ Formatted(r, o, u, fmt, G)
  BY GroupFormatted
<1> HIDE DEF q
<1>2. Ordered(q.symbols) /\ G \in Seq(SymbolType) /\ Len(G) = Len(F) /\ \A j \in 1 .. Len(F) : G[j].pos = F[j].pos /\ G[j].val = F[j].val
  BY <1>0, <1>1, RelinedSame
<1>3. Selection(q.symbols, l1, i1, l2, i2, o, u)
  BY <1>0, <1>1, RelinedPlace DEF Selection
<1>4. Selected(G, o, u, S)
  BY <1>2, <1>3, RangeSelected DEF Ordered
<1>5. o \in Nat /\ u \in Nat /\ u + 1 \in 1 .. Len(F) /\ o <= u
  BY <1>0, SelectionPlaces
<1>6. \A j \in 1 .. Len(F) : ~(o < j /\ j <= u + 1) => G[j] = F[j]
  BY <1>1 DEF Formatted
<1> HIDE DEF F, G, S
<1>7. S \in Seq(SymbolType) /\ Len(S) = (u + 1) - o /\ Len(S) \in Nat /\ Len(S) > 0 /\ DOMAIN S = 1 .. Len(S) /\ \A k \in 1 .. Len(S) : S[k] = G[o + k]
  BY <1>4, <1>5 DEF Selected
<1>8. \A k \in 1 .. Len(S) : o + k \in 1 .. Len(F) /\ S[k].pos = F[o + k].pos /\ S[k].val = F[o + k].val /\ o < o + k /\ o + k <= u + 1
  <2>1. \A k \in 1 .. Len(S) : o + k \in 1 .. Len(F) /\ o < o + k /\ o + k <= u + 1
    BY <1>0, <1>5, <1>7
  <2> QED BY <1>2, <1>7, <2>1
<1>9. \A i, j \in 1 .. Len(F) : i # j => F[i].pos # F[j].pos
  <2>1. \A i \in 1 .. Len(F) : F[i].pos \in Int
    BY <1>0, SymbolFields
  <2> QED BY <1>0, <2>1 DEF Sorted
<1>p. ToSet(F) = {F[i] : i \in 1 .. Len(F)} /\ ToSet(G) = {G[i] : i \in 1 .. Len(F)} /\ ToSet(S) = {S[i] : i \in 1 .. Len(S)}
  <2>1. DOMAIN F = 1 .. Len(F) /\ DOMAIN G = 1 .. Len(F)
    BY <1>0, <1>2
  <2>2. ToSet(F) = {F[i] : i \in 1 .. Len(F)}
    BY <2>1 DEF ToSet
  <2>3. ToSet(G) = {G[i] : i \in 1 .. Len(F)}
    BY <2>1 DEF ToSet
  <2>4. ToSet(S) = {S[i] : i \in 1 .. Len(S)}
    BY <1>7 DEF ToSet
  <2> QED BY <2>2, <2>3, <2>4
<1>q. PositionsOf(S) = {F[o + k].pos : k \in 1 .. Len(S)}
  BY <1>7, <1>8 DEF PositionsOf
<1>r. \A j \in 1 .. Len(F) : o < j /\ j <= u + 1 => j - o \in 1 .. Len(S) /\ o + (j - o) = j
  BY <1>5, <1>7
<1>10. ASSUME NEW x \in ToSet(G) PROVE x \in Without(X, S) \cup ToSet(S)
  <2>1. PICK j \in 1 .. Len(F) : x = G[j]
    BY <1>p
  <2>2. CASE o < j /\ j <= u + 1
    <3>1. x = S[j - o] /\ j - o \in 1 .. Len(S)
      BY <1>7, <1>r, <2>1, <2>2
    <3> QED BY <1>p, <3>1
  <2>3. CASE ~(o < j /\ j <= u + 1)
    <3>1. x = F[j] /\ x \in X
      BY <1>6, <1>p, <2>1, <2>3
    <3>2. \A k \in 1 .. Len(S) : o + k # j
      BY <1>8, <2>3
    <3>3. x.pos \notin PositionsOf(S)
      BY <1>8, <1>9, <1>q, <3>1, <3>2
    <3> QED BY <3>1, <3>3 DEF Without
  <2> QED BY <2>2, <2>3
<1>11. ASSUME NEW x \in Without(X, S) \cup ToSet(S) PROVE x \in ToSet(G)
  <2>1. CASE x \in ToSet(S)
    <3>1. PICK k \in 1 .. Len(S) : x = S[k]
      BY <1>p, <2>1
    <3> QED BY <1>7, <1>8, <1>p, <3>1
  <2>2. CASE x \in Without(X, S)
    <3>1. x \in X /\ x.pos \notin PositionsOf(S)
      BY <2>2 DEF Without
    <3>2. PICK j \in 1 .. Len(F) : x = F[j]
      BY <1>p, <3>1
    <3>3. ~(o < j /\ j <= u + 1)
      <4>1. SUFFICES ASSUME o < j /\ j <= u + 1 PROVE FALSE
        OBVIOUS
      <4>2. j - o \in 1 .. Len(S) /\ o + (j - o) = j
        BY <1>r, <4>1
      <4>3. x.pos = F[o + (j - o)].pos
        BY <3>2, <4>2
      <4> QED BY <1>q, <3>1, <4>2, <4>3
    <3> QED BY <1>6, <1>p, <3>2, <3>3
  <2> QED BY <1>11, <2>1, <2>2
<1>12. Holds(q, Without(X, S) \cup ToSet(S))
  <2>1. ToSet(G) = Without(X, S) \cup ToSet(S)
    BY <1>10, <1>11
  <2> QED BY <1>1, <2>1 DEF Holds, G
<1>13. Sorted(S)
  <2>1. ASSUME NEW i \in 1 .. Len(S), NEW j \in 1 .. Len(S), i < j PROVE S[i].pos < S[j].pos
    <3>1. o + i < o + j
      BY <1>5, <2>1
    <3> QED BY <1>0, <1>8, <3>1 DEF Sorted
  <2> QED BY <2>1 DEF Sorted
<1>14. Named(X, S)
  <2>1. \A i, j \in 1 .. Len(S) : i # j => S[i].pos # S[j].pos
    <3>1. \A i, j \in 1 .. Len(S) : i # j => o + i # o + j
      BY <1>5
    <3> QED BY <1>8, <1>9, <3>1
  <2>2. \A k \in 1 .. Len(S) : F[o + k] \in X
    BY <1>8, <1>p
  <2> QED BY <1>7, <1>8, <2>1, <2>2 DEF Named
<1> QED BY <1>7, <1>12, <1>13, <1>14 DEF F, q, S

\* A line whose last symbol gets an alignment.
AlignedLine(line, align) == [line EXCEPT ![Len(line)].align = align]

Realigned(line, align, y, s) ==
  /\ y = [line EXCEPT ![Len(line)] = s] /\ y \in Seq(SymbolType) /\ Len(y) = Len(line) /\ Last(y) = s
  /\ s \in SymbolType /\ s.pos = line[Len(line)].pos /\ s.val = line[Len(line)].val
  /\ line[Len(line)] = [s EXCEPT !.align = line[Len(line)].align]
  /\ \A b \in 1 .. Len(line) : y[b].pos = line[b].pos /\ y[b].val = line[b].val

\* A line's last symbol with another alignment.
LEMMA LineGetsAlignment ==
  ASSUME NEW line \in Seq(SymbolType), Len(line) > 0, NEW align \in Aligns
  PROVE  Realigned(line, align, AlignedLine(line, align), [line[Len(line)] EXCEPT !.align = align])
<1> DEFINE n == Len(line)
           s == [line[n] EXCEPT !.align = align]
           y == AlignedLine(line, align)
<1>1. n \in 1 .. Len(line) /\ line[n] \in SymbolType /\ DOMAIN line = 1 .. n /\ n \in Nat
  OBVIOUS
<1>2. s \in SymbolType /\ s.pos = line[n].pos /\ s.val = line[n].val /\ line[n] = [s EXCEPT !.align = line[n].align]
  BY <1>1, SymbolGets, Zenon
<1>3. y = [line EXCEPT ![n] = s]
  BY <1>1 DEF AlignedLine
<1> HIDE DEF s, y
<1>4. y \in Seq(SymbolType) /\ Len(y) = n /\ y[n] = s /\ \A b \in 1 .. n : b # n => y[b] = line[b]
  BY <1>1, <1>2, <1>3
<1>5. Last(y) = s
  BY <1>4 DEF Last
<1>6. Realigned(line, align, y, s)
  BY <1>1, <1>2, <1>3, <1>4, <1>5 DEF Realigned
<1> QED BY <1>6 DEF s, y

\* The lines after some of them got an alignment.
AlignedLines(lines, L, align) == [l \in DOMAIN lines |-> IF l - 1 \in L THEN AlignedLine(lines[l], align) ELSE lines[l]]

\* Alignments leave positions and characters.
LEMMA LinesAligned ==
  ASSUME NEW lines, Ordered(lines), NEW L, NEW align \in Aligns
  PROVE  Relined(lines, AlignedLines(lines, L, align))
<1> DEFINE new == AlignedLines(lines, L, align)
           line(l) == IF l - 1 \in L THEN AlignedLine(lines[l], align) ELSE lines[l]
<1>0. Shape(lines) /\ lines \in Seq(Seq(SymbolType)) /\ Len(lines) \in Nat /\ DOMAIN lines = 1 .. Len(lines)
  BY DEF Ordered, Shape
<1>1. new = [l \in 1 .. Len(lines) |-> line(l)]
  BY <1>0 DEF AlignedLines
<1>2. ASSUME NEW l \in 1 .. Len(lines)
      PROVE  /\ line(l) \in Seq(SymbolType) /\ Len(line(l)) = Len(lines[l])
             /\ \A b \in 1 .. Len(lines[l]) : line(l)[b].pos = lines[l][b].pos /\ line(l)[b].val = lines[l][b].val
  <2>1. lines[l] \in Seq(SymbolType) /\ Len(lines[l]) > 0
    BY <1>0, LineIn DEF Shape
  <2>2. Realigned(lines[l], align, AlignedLine(lines[l], align), [lines[l][Len(lines[l])] EXCEPT !.align = align])
    BY <2>1, LineGetsAlignment
  <2>3. CASE l - 1 \in L
    <3>1. line(l) = AlignedLine(lines[l], align)
      BY <2>3
    <3> HIDE DEF line
    <3> QED BY <2>2, <3>1 DEF Realigned
  <2>4. CASE l - 1 \notin L
    BY <2>1, <2>4
  <2> QED BY <2>3, <2>4
<1> HIDE DEF line
<1>3. new \in Seq(Seq(SymbolType)) /\ Len(new) = Len(lines) /\ \A l \in 1 .. Len(lines) : new[l] = line(l)
  BY <1>0, <1>1, <1>2
<1> HIDE DEF new
<1>4. Relined(lines, new)
  BY <1>2, <1>3 DEF Relined
<1> QED BY <1>4 DEF new

\* localChangeAlignment by the lines it leaves.
LEMMA AlignmentIs ==
  ASSUME NEW r, NEW L, NEW align
  PROVE  localChangeAlignment(r, L, align) = [r EXCEPT !.symbols = AlignedLines(r.symbols, L, align)]
BY Zenon DEF localChangeAlignment, AlignedLines, AlignedLine

\* A replica stays in order when lines get an alignment.
LEMMA AlignedGood ==
  ASSUME NEW r, Good(r), NEW L, NEW align \in Aligns
  PROVE  LET q == localChangeAlignment(r, L, align)
         IN  Good(q) /\ q.symbols = AlignedLines(r.symbols, L, align) /\ q = [r EXCEPT !.symbols = q.symbols]
<1>1. Ordered(r.symbols)
  BY DEF Good
<1>2. Relined(r.symbols, AlignedLines(r.symbols, L, align))
  BY <1>1, LinesAligned
<1>3. localChangeAlignment(r, L, align) = [r EXCEPT !.symbols = AlignedLines(r.symbols, L, align)]
  BY AlignmentIs
<1> QED BY <1>2, <1>3, RelinedGood

\* The last symbol of a line.
LineEnding(lines, l, line, n, o) ==
  /\ n \in Nat /\ n > 0 /\ line \in Seq(SymbolType) /\ AtPlace(lines, Place(l, n - 1), o - 1)
  /\ o \in 1 .. Len(Flatten(lines)) /\ Flatten(lines)[o] = line[n] /\ line[n].val \in {NL, NUL}

\* The last symbol of a line ends it.
LEMMA LastOfLine ==
  ASSUME NEW lines, Ordered(lines), NEW l \in Nat, l + 1 \in 1 .. Len(lines)
  PROVE  LineEnding(lines, l, lines[l + 1], Len(lines[l + 1]), Start(lines, l + 1))
<1> DEFINE n == Len(lines[l + 1])
           m == l + 1
           F == Flatten(lines)
<1>0. Shape(lines) /\ lines \in Seq(Seq(SymbolType)) /\ Len(lines) \in Nat /\ Len(F) \in Nat
  BY ShapeFlat DEF Ordered, Shape
<1>1. n \in Nat /\ n > 0 /\ lines[l + 1] \in Seq(SymbolType)
  BY <1>0, LineIn DEF Shape
<1>2. Start(lines, l) \in Nat /\ Start(lines, l + 1) = Start(lines, l) + n
  BY <1>0, StartsIn
<1>m. m \in 1 .. Len(lines) /\ m - 1 = l /\ n \in 1 .. Len(lines[m])
  BY <1>1
<1> HIDE DEF m
<1>3. Start(lines, m - 1) + n \in 1 .. Len(F) /\ F[Start(lines, m - 1) + n] = lines[m][n]
  BY <1>0, <1>m, FlatIndex
<1>4. Start(lines, l + 1) \in 1 .. Len(F) /\ F[Start(lines, l + 1)] = lines[l + 1][n]
  BY <1>2, <1>3, <1>m DEF m
<1>5. AtPlace(lines, Place(l, n - 1), Start(lines, l + 1) - 1)
  <2> HIDE DEF F
  <2>1. n - 1 \in Nat /\ (n - 1) + 1 \in 1 .. Len(lines[l + 1])
    BY <1>1 DEF n
  <2>2. Start(lines, l) + (n - 1) = Start(lines, l + 1) - 1
    BY <1>1, <1>2
  <2> QED BY <2>1, <2>2 DEF AtPlace, Place
<1>6. lines[l + 1][n].val \in {NL, NUL}
  <2>1. CASE l + 1 < Len(lines)
    <3>1. lines[m][n].val = NL <=> (m < Len(lines) /\ n = Len(lines[m]))
      BY <1>0, <1>m DEF Shape
    <3> QED BY <2>1, <3>1 DEF m
  <2>2. CASE l + 1 = Len(lines)
    <3>1. Start(lines, l + 1) = Len(F)
      BY <1>0, <2>2, Starts
    <3> QED BY <1>4, <3>1 DEF Ordered, Ended
  <2> QED BY <1>0, <2>1, <2>2
<1> QED BY <1>1, <1>4, <1>5, <1>6 DEF LineEnding

\* One more line gets the alignment: the operation that says so has this effect.
Realign(s, align) == [s EXCEPT !.align = align]
NextAligned(X, new, e) ==
  /\ Holds(new, Swap(X, e)) /\ e \in SymbolType
  /\ \E t \in X : t = Realign(e, t.align) /\ t.val \in {NL, NUL}
\* One more of the lines.
LEMMA AlignedNext ==
  ASSUME NEW r, Good(r), NEW l1 \in Nat, NEW k \in Nat, (l1 + k) + 1 \in 1 .. Len(r.symbols), NEW align \in Aligns
  PROVE  NextAligned(ToSet(Flatten(localChangeAlignment(r, l1 .. (l1 + k) - 1, align).symbols)),
                     localChangeAlignment(r, l1 .. l1 + k, align), Realign(Last(r.symbols[(l1 + k) + 1]), align))
<1> DEFINE l == l1 + k
           q == localChangeAlignment(r, l1 .. (l1 + k) - 1, align)
           new == localChangeAlignment(r, l1 .. l1 + k, align)
           A == l1 .. (l1 + k) - 1
           B == l1 .. l1 + k
           lines == r.symbols
           line == lines[l + 1]
           n == Len(line)
           s == [line[n] EXCEPT !.align = align]
           at == Place(l, n - 1)
           o == Start(q.symbols, l + 1)
<1>0. Ordered(lines) /\ l \in Nat /\ l + 1 \in 1 .. Len(lines) /\ DOMAIN lines = 1 .. Len(lines)
  BY DEF Good, Ordered, Shape
<1>1. Good(q) /\ q.symbols = AlignedLines(lines, A, align) /\ q = [r EXCEPT !.symbols = q.symbols]
  BY AlignedGood
<1>2. Good(new) /\ new.symbols = AlignedLines(lines, B, align) /\ new = [r EXCEPT !.symbols = new.symbols]
  BY AlignedGood
<1> HIDE DEF q, new
<1>3. q.symbols[l + 1] = line
  <2>1. l + 1 \in DOMAIN lines /\ (l + 1) - 1 \notin A
    BY <1>0
  <2> QED BY <1>1, <2>1 DEF AlignedLines
<1>4. new.symbols[l + 1] = AlignedLine(line, align)
  <2>1. l + 1 \in DOMAIN lines /\ (l + 1) - 1 \in B
    BY <1>0
  <2> QED BY <1>2, <2>1 DEF AlignedLines
<1>5. Ordered(q.symbols) /\ Len(q.symbols) = Len(lines) /\ q.symbols \in Seq(Seq(SymbolType))
  BY <1>0, <1>1, LinesAligned DEF Good, Relined
<1>6. /\ n \in Nat /\ n > 0 /\ line \in Seq(SymbolType) /\ AtPlace(q.symbols, at, o - 1)
      /\ o \in 1 .. Len(Flatten(q.symbols)) /\ Flatten(q.symbols)[o] = line[n] /\ line[n].val \in {NL, NUL}
  <2>1. LineEnding(q.symbols, l, q.symbols[l + 1], Len(q.symbols[l + 1]), Start(q.symbols, l + 1))
    BY <1>0, <1>5, LastOfLine
  <2>2. LineEnding(q.symbols, l, line, n, o)
    BY <1>3, <2>1
  <2> HIDE DEF l, line, n, o
  <2> QED BY <2>2, Zenon DEF LineEnding, at
<1>7. /\ AlignedLine(line, align) = [line EXCEPT ![n] = s] /\ s \in SymbolType /\ s.pos = line[n].pos /\ s.val = line[n].val
      /\ line[n] = [s EXCEPT !.align = line[n].align] /\ Last(AlignedLine(line, align)) = s
  <2>1. Realigned(line, align, AlignedLine(line, align), s)
    BY <1>6, LineGetsAlignment
  <2> HIDE DEF line, s
  <2> QED BY <2>1 DEF Realigned
<1>8. new.symbols = SetLine(q.symbols, l, [line EXCEPT ![n] = s])
  <2>1. DOMAIN new.symbols = DOMAIN lines /\ DOMAIN q.symbols = DOMAIN lines
    BY <1>1, <1>2 DEF AlignedLines
  <2>2. ASSUME NEW j \in DOMAIN lines, j # l + 1 PROVE new.symbols[j] = q.symbols[j]
    <3>1. j - 1 \in A <=> j - 1 \in B
      BY <1>0, <2>2
    <3> QED BY <1>1, <1>2, <3>1 DEF AlignedLines
  <2>3. new.symbols = [j \in DOMAIN lines |-> new.symbols[j]]
    BY <1>2 DEF AlignedLines
  <2> DEFINE y == [line EXCEPT ![n] = s]
  <2>4. new.symbols[l + 1] = y
    BY <1>4, <1>7
  <2> HIDE DEF y, l, A, B
  <2>5. SetLine(q.symbols, l, y) = [j \in DOMAIN lines |-> IF j = l + 1 THEN y ELSE q.symbols[j]]
    BY <2>1 DEF SetLine
  <2>6. \A j \in DOMAIN lines : new.symbols[j] = IF j = l + 1 THEN y ELSE q.symbols[j]
    BY <2>2, <2>4
  <2>7. new.symbols = SetLine(q.symbols, l, y)
    BY <2>3, <2>5, <2>6
  <2> QED BY <2>7 DEF y
<1>9. at.line = l /\ at.index = n - 1 /\ (n - 1) + 1 = n
  BY <1>6 DEF Place
<1>10. Holds([q EXCEPT !.symbols = SetLine(q.symbols, at.line, [q.symbols[at.line + 1] EXCEPT ![at.index + 1] = s])], Swap(ToSet(Flatten(q.symbols)), s))
  <2>1. s.pos = Flatten(q.symbols)[o].pos /\ s.val = Flatten(q.symbols)[o].val
    BY <1>6, <1>7
  <2> HIDE DEF s, at, o
  <2> QED BY <1>1, <1>6, <1>7, <2>1, SymbolPut
<1>11. [q EXCEPT !.symbols = new.symbols] = new
  <2> DEFINE x == q.symbols
             z == new.symbols
  <2>1. q = [r EXCEPT !.symbols = x] /\ new = [r EXCEPT !.symbols = z]
    BY <1>1, <1>2
  <2> HIDE DEF x, z
  <2>2. [q EXCEPT !.symbols = z] = new
    BY <2>1, Zenon
  <2> QED BY <2>2 DEF z
<1>12. Holds(new, Swap(ToSet(Flatten(q.symbols)), s))
  BY <1>3, <1>8, <1>9, <1>10, <1>11, Zenon
<1>13. line[n] \in ToSet(Flatten(q.symbols))
  BY <1>5, <1>6, ShapeFlat DEF ToSet, Ordered
<1>14. Realign(Last(line), align) = s
  BY DEF Last, Realign
<1>15. line[n] = Realign(s, line[n].align)
  BY <1>7 DEF Realign
<1>16. NextAligned(ToSet(Flatten(q.symbols)), new, s)
  <2> HIDE DEF s, line, n
  <2> QED BY <1>6, <1>7, <1>12, <1>13, <1>15 DEF NextAligned
<1> QED BY <1>14, <1>16 DEF q, new

\* The elements of a set that come before one of them.
Smaller(S, g, s) == {t \in S : g[t] < g[s]}

Distinct(S, g) == (\A s \in S : g[s] \in Int) /\ \A s, t \in S : g[s] = g[t] => s = t

\* Counting the smaller ones tells elements apart, in their order.
LEMMA SmallerCount ==
  ASSUME NEW S, IsFiniteSet(S), NEW g, Distinct(S, g), NEW s \in S, NEW t \in S
  PROVE  /\ Cardinality(Smaller(S, g, s)) \in Nat /\ Cardinality(Smaller(S, g, s)) < Cardinality(S)
         /\ g[s] < g[t] <=> Cardinality(Smaller(S, g, s)) < Cardinality(Smaller(S, g, t))
<1>1. ASSUME NEW x \in S
      PROVE /\ IsFiniteSet(Smaller(S, g, x)) /\ Cardinality(Smaller(S, g, x)) \in Nat
            /\ Smaller(S, g, x) \in SUBSET S /\ Cardinality(Smaller(S, g, x)) <= Cardinality(S) /\ x \notin Smaller(S, g, x)
            /\ Cardinality(Smaller(S, g, x)) # Cardinality(S) /\ Cardinality(S) \in Nat
  <2>1. Smaller(S, g, x) \in SUBSET S /\ x \notin Smaller(S, g, x)
    BY DEF Smaller, Distinct
  <2> QED BY <2>1, FS_Subset, FS_CardinalityType
<1>2. ASSUME NEW x \in S, NEW y \in S, g[x] < g[y]
      PROVE  Cardinality(Smaller(S, g, x)) < Cardinality(Smaller(S, g, y))
  <2>1. g[x] \in Int /\ g[y] \in Int
    BY DEF Distinct
  <2>2. ASSUME NEW z \in Smaller(S, g, x) PROVE z \in Smaller(S, g, y)
    BY <1>2, <2>1 DEF Smaller, Distinct
  <2>3. Smaller(S, g, x) \in SUBSET Smaller(S, g, y) /\ x \in Smaller(S, g, y) /\ x \notin Smaller(S, g, x)
    BY <1>1, <1>2, <2>2 DEF Smaller
  <2>4. IsFiniteSet(Smaller(S, g, y)) /\ Cardinality(Smaller(S, g, y)) \in Nat /\ Cardinality(Smaller(S, g, x)) \in Nat
    BY <1>1
  <2>5. Cardinality(Smaller(S, g, x)) <= Cardinality(Smaller(S, g, y)) /\ Cardinality(Smaller(S, g, x)) # Cardinality(Smaller(S, g, y))
    BY <2>3, <2>4, FS_Subset
  <2> QED BY <2>4, <2>5
<1>3. g[s] < g[t] => Cardinality(Smaller(S, g, s)) < Cardinality(Smaller(S, g, t))
  BY <1>2
<1>4. g[t] < g[s] => Cardinality(Smaller(S, g, t)) < Cardinality(Smaller(S, g, s))
  BY <1>2
<1>5. g[s] \in Int /\ g[t] \in Int /\ (g[s] = g[t] => s = t)
  BY DEF Distinct
<1>6. Cardinality(Smaller(S, g, s)) \in Nat /\ Cardinality(Smaller(S, g, t)) \in Nat /\ Cardinality(Smaller(S, g, s)) < Cardinality(S)
  BY <1>1
<1> QED BY <1>3, <1>4, <1>5, <1>6

\* There is one of every rank.
LEMMA RankTaken ==
  ASSUME NEW S, IsFiniteSet(S), NEW g, Distinct(S, g), NEW k \in 1 .. Cardinality(S)
  PROVE  \E s \in S : Cardinality(Smaller(S, g, s)) = k - 1
<1> DEFINE n == Cardinality(S)
           T == 0 .. n - 1
           R == [s \in S |-> Cardinality(Smaller(S, g, s))]
<1>1. n \in Nat
  BY FS_CardinalityType
<1>2. IsFiniteSet(T) /\ Cardinality(T) = n
  <2>1. 0 \in Int /\ n - 1 \in Int
    BY <1>1
  <2>2. IsFiniteSet(T) /\ Cardinality(T) = IF 0 > n - 1 THEN 0 ELSE (n - 1) - 0 + 1
    BY <2>1, FS_Interval
  <2> HIDE DEF T, n
  <2> QED BY <1>1, <2>2
<1>3. R \in [S -> T]
  <2>1. \A s \in S : Cardinality(Smaller(S, g, s)) \in T
    BY <1>1, SmallerCount
  <2> QED BY <2>1
<1>4. ASSUME NEW s \in S, NEW t \in S, R[s] = R[t] PROVE s = t
  <2>1. Cardinality(Smaller(S, g, s)) = Cardinality(Smaller(S, g, t))
    BY <1>4
  <2>2. Cardinality(Smaller(S, g, s)) \in Nat /\ (g[s] < g[t] <=> Cardinality(Smaller(S, g, s)) < Cardinality(Smaller(S, g, t)))
    BY SmallerCount
  <2>3. g[t] < g[s] <=> Cardinality(Smaller(S, g, t)) < Cardinality(Smaller(S, g, s))
    BY SmallerCount
  <2>4. g[s] \in Int /\ g[t] \in Int /\ (g[s] = g[t] => s = t)
    BY DEF Distinct
  <2> QED BY <2>1, <2>2, <2>3, <2>4
<1>5. R \in Injection(S, T)
  BY <1>3, <1>4 DEF Injection, IsInjective
<1>6. R \in Surjection(S, T)
  BY <1>2, <1>5, FS_Injection
<1>7. k - 1 \in T
  BY <1>1
<1>8. PICK s \in S : R[s] = k - 1
  BY <1>6, <1>7 DEF Surjection
<1> QED BY <1>8

\* A sequence that holds at each index the element of that rank.
Ranks(Q, S, g) ==
  /\ Q = [k \in 1 .. Cardinality(S) |-> Q[k]]
  /\ \A k \in 1 .. Cardinality(S) : Q[k] \in S /\ Cardinality(Smaller(S, g, Q[k])) = k - 1

Enumerates(Q, S, g) ==
  /\ Q \in Seq(S) /\ Len(Q) = Cardinality(S) /\ ToSet(Q) = S
  /\ \A i, j \in 1 .. Len(Q) : i < j => g[Q[i]] < g[Q[j]]

\* A sequence of the elements by rank enumerates them in order.
LEMMA Ranked ==
  ASSUME NEW S, IsFiniteSet(S), NEW g, Distinct(S, g), NEW Q, Ranks(Q, S, g)
  PROVE  Enumerates(Q, S, g)
<1> DEFINE n == Cardinality(S)
<1>1. n \in Nat
  BY FS_CardinalityType
<1>2. Q = [k \in 1 .. n |-> Q[k]] /\ \A k \in 1 .. n : Q[k] \in S /\ Cardinality(Smaller(S, g, Q[k])) = k - 1
  BY DEF Ranks
<1>3. Q \in Seq(S) /\ Len(Q) = n /\ DOMAIN Q = 1 .. n
  <2> HIDE DEF n
  <2> QED BY <1>1, <1>2
<1>4. ASSUME NEW i \in 1 .. n, NEW j \in 1 .. n, i < j PROVE g[Q[i]] < g[Q[j]]
  <2>1. Cardinality(Smaller(S, g, Q[i])) < Cardinality(Smaller(S, g, Q[j]))
    BY <1>1, <1>2, <1>4
  <2> QED BY <1>2, <2>1, SmallerCount
<1>5. ASSUME NEW i \in 1 .. n, NEW j \in 1 .. n, Q[i] = Q[j] PROVE i = j
  <2>1. i - 1 = j - 1
    BY <1>2, <1>5
  <2> QED BY <1>1, <2>1
<1>6. Q \in Injection(1 .. n, S)
  BY <1>2, <1>3, <1>5 DEF Injection, IsInjective
<1>7. Cardinality(1 .. n) = n
  BY <1>1, FS_Interval
<1>8. Q \in Surjection(1 .. n, S)
  BY <1>6, <1>7, FS_Injection
<1>9. ToSet(Q) = S
  <2>1. ToSet(Q) = {Q[k] : k \in 1 .. n}
    BY <1>3 DEF ToSet
  <2> QED BY <1>2, <1>8, <2>1 DEF Surjection
<1> QED BY <1>3, <1>4, <1>9 DEF Enumerates

\* Two sorted enumerations of the same elements are the same.
Matches(F, n, G, m) == \A k \in 1 .. n : F[k].pos \in Int /\ \E j \in 1 .. m : F[k] = G[j]
Climbs(F, n) == \A i, j \in 1 .. n : i < j => F[i].pos < F[j].pos

\* The next element of one enumeration is not earlier in the other.
LEMMA NextMatches ==
  ASSUME NEW F, NEW n \in Nat, NEW G, NEW m \in Nat, Matches(F, n, G, m), Climbs(F, n),
         NEW k \in Nat, k + 1 <= n, k <= m, \A j \in 1 .. k : F[j] = G[j]
  PROVE  k + 1 <= m /\ \E j \in 1 .. m : F[k + 1] = G[j] /\ j > k
<1>1. k + 1 \in 1 .. n
  OBVIOUS
<1>2. PICK j \in 1 .. m : F[k + 1] = G[j]
  BY <1>1 DEF Matches
<1>3. j > k
  <2>1. SUFFICES ASSUME j <= k PROVE FALSE
    OBVIOUS
  <2>2. j \in 1 .. k /\ j \in 1 .. n /\ j < k + 1
    BY <2>1
  <2>3. F[j] = F[k + 1]
    BY <1>2, <2>2
  <2>4. F[j].pos < F[k + 1].pos
    BY <1>1, <2>2 DEF Climbs
  <2>5. F[k + 1].pos \in Int
    BY <1>1 DEF Matches
  <2> QED BY <2>3, <2>4, <2>5
<1> QED BY <1>2, <1>3

\* One enumeration begins the other.
LEMMA ClimbSame ==
  ASSUME NEW F, NEW n \in Nat, NEW G, NEW m \in Nat, Matches(F, n, G, m), Climbs(F, n), Matches(G, m, F, n), Climbs(G, m)
  PROVE  n <= m /\ \A k \in 1 .. n : F[k] = G[k]
<1> DEFINE P(k) == k <= m /\ \A j \in 1 .. k : F[j] = G[j]
           Done == {k \in Nat : k <= n => P(k)}
<1>2. 0 \in Done
  OBVIOUS
<1>3. ASSUME NEW k \in 0 .. n - 1, k \in Done PROVE k + 1 \in Done
  <2>1. k \in Nat /\ k + 1 \in Nat /\ k + 1 \in 1 .. n /\ k + 1 <= n /\ k <= m /\ \A j \in 1 .. k : F[j] = G[j]
    BY <1>3
  <2>2. k + 1 <= m /\ \E j \in 1 .. m : F[k + 1] = G[j] /\ j > k
    BY <2>1, NextMatches
  <2>3. PICK j \in 1 .. m : F[k + 1] = G[j] /\ j > k
    BY <2>2
  <2>4. k + 1 \in 1 .. m /\ \A i \in 1 .. k : G[i] = F[i]
    BY <2>1, <2>2
  <2>5. \E i \in 1 .. n : G[k + 1] = F[i] /\ i > k
    BY <2>1, <2>2, <2>4, NextMatches
  <2>6. PICK i \in 1 .. n : G[k + 1] = F[i] /\ i > k
    BY <2>5
  <2>7. F[k + 1] = G[k + 1]
    <3>1. SUFFICES ASSUME F[k + 1] # G[k + 1] PROVE FALSE
      OBVIOUS
    <3>2. k + 1 < i /\ k + 1 < j
      <4>1. i # k + 1 /\ j # k + 1
        BY <2>3, <2>6, <3>1
      <4> QED BY <2>1, <2>3, <2>6, <4>1
    <3>3. F[k + 1].pos < F[i].pos /\ G[k + 1].pos < G[j].pos
      BY <2>1, <2>4, <3>2 DEF Climbs
    <3>4. F[k + 1].pos \in Int /\ G[k + 1].pos \in Int
      BY <2>1, <2>4 DEF Matches
    <3>5. F[i].pos = G[k + 1].pos /\ G[j].pos = F[k + 1].pos
      BY <2>3, <2>6
    <3> QED BY <3>3, <3>4, <3>5
  <2>8. P(k + 1)
    BY <2>1, <2>2, <2>7
  <2> QED BY <2>1, <2>8
<1> HIDE DEF Done
<1>4. 0 .. n \subseteq Done
  BY <1>2, <1>3, UpTo
<1>5. n \in Done
  BY <1>4
<1> QED BY <1>5 DEF Done

\* The symbols of a document in order are one sequence.
LEMMA SameSorted ==
  ASSUME NEW F \in Seq(SymbolType), Sorted(F), NEW G \in Seq(SymbolType), Sorted(G), ToSet(F) = ToSet(G)
  PROVE  F = G
<1>1. ASSUME NEW X \in Seq(SymbolType), NEW Y \in Seq(SymbolType), ToSet(X) = ToSet(Y), Sorted(X)
      PROVE  Matches(X, Len(X), Y, Len(Y)) /\ Climbs(X, Len(X)) /\ Len(X) \in Nat
  <2>1. ToSet(X) = {X[k] : k \in 1 .. Len(X)} /\ Len(X) \in Nat
    BY DEF ToSet
  <2>2. ASSUME NEW k \in 1 .. Len(X) PROVE X[k].pos \in Int /\ \E j \in 1 .. Len(Y) : X[k] = Y[j]
    <3>1. X[k] \in SymbolType
      OBVIOUS
    <3>2. X[k] \in ToSet(Y)
      BY <1>1, <2>1
    <3> QED BY <3>1, <3>2, InContent, SymbolFields
  <2> QED BY <1>1, <2>1, <2>2 DEF Matches, Climbs, Sorted
<1>2. Matches(F, Len(F), G, Len(G)) /\ Climbs(F, Len(F)) /\ Len(F) \in Nat
  BY <1>1
<1>3. Matches(G, Len(G), F, Len(F)) /\ Climbs(G, Len(G)) /\ Len(G) \in Nat
  BY <1>1
<1>4. Len(F) <= Len(G) /\ Len(G) <= Len(F) /\ \A k \in 1 .. Len(F) : F[k] = G[k]
  BY <1>2, <1>3, ClimbSame
<1>5. Len(F) = Len(G)
  BY <1>2, <1>3, <1>4
<1> QED BY <1>4, <1>5, Same

-----------------------------------------------------------------------------
\* Symbols whose positions tell them apart.
Unique(X) == X \subseteq SymbolType /\ \A s, t \in X : s.pos = t.pos => s = t

\* There are finitely many symbols of different positions.
LEMMA UniqueFinite == ASSUME NEW X, Unique(X) PROVE IsFiniteSet(X)
<1> DEFINE f == [s \in X |-> s.pos]
<1>1. f \in [X -> Positions]
  BY SymbolFields DEF Unique
<1>2. f \in Injection(X, Positions)
  BY <1>1 DEF Unique, Injection, IsInjective
<1>3. IsFiniteSet(Positions)
  BY MaxPosAssumption, FS_Interval DEF Positions
<1> QED BY <1>2, <1>3, FS_Injection

\* The symbols in the order of their positions.
LEMMA ByPosition ==
  ASSUME NEW X, Unique(X)
  PROVE  LET Q == SymbolsByPosition(X) IN Q \in Seq(SymbolType) /\ Sorted(Q) /\ ToSet(Q) = X
<1> DEFINE g == [s \in X |-> s.pos]
           Q == SymbolsByPosition(X)
           n == Cardinality(X)
<1>1. IsFiniteSet(X) /\ X \subseteq SymbolType
  BY UniqueFinite DEF Unique
<1>2. Distinct(X, g)
  BY SymbolFields DEF Unique, Distinct
<1>3. \A s \in X : Smaller(X, g, s) = {t \in X : t.pos < s.pos}
  BY DEF Smaller
<1>4. Q = [k \in 1 .. n |-> CHOOSE s \in X : Cardinality({t \in X : t.pos < s.pos}) = k - 1]
  BY Zenon DEF SymbolsByPosition, InOrder
<1>5. ASSUME NEW k \in 1 .. n PROVE Q[k] \in X /\ Cardinality(Smaller(X, g, Q[k])) = k - 1
  <2>1. PICK s \in X : Cardinality(Smaller(X, g, s)) = k - 1
    BY <1>1, <1>2, RankTaken
  <2>2. Cardinality({t \in X : t.pos < s.pos}) = k - 1
    BY <1>3, <2>1
  <2>3. Q[k] = CHOOSE x \in X : Cardinality({t \in X : t.pos < x.pos}) = k - 1
    BY <1>4
  <2> HIDE DEF Q, g
  <2>4. Q[k] \in X /\ Cardinality({t \in X : t.pos < Q[k].pos}) = k - 1
    BY <2>2, <2>3, Zenon
  <2> QED BY <1>3, <2>4
<1>6. Q = [k \in 1 .. n |-> Q[k]]
  BY <1>4
<1> HIDE DEF Q
<1>7. Ranks(Q, X, g)
  BY <1>5, <1>6, Zenon DEF Ranks
<1>8. Enumerates(Q, X, g)
  BY <1>1, <1>2, <1>7, Ranked
<1>9. Q \in Seq(X) /\ ToSet(Q) = X /\ \A i, j \in 1 .. Len(Q) : i < j => g[Q[i]] < g[Q[j]]
  BY <1>8 DEF Enumerates
<1>10. Q \in Seq(SymbolType)
  BY <1>1, <1>9
<1>11. Sorted(Q)
  <2>1. \A i \in 1 .. Len(Q) : Q[i] \in X
    BY <1>9
  <2> QED BY <1>9, <2>1 DEF Sorted
<1> QED BY <1>9, <1>10, <1>11 DEF Q

\* The symbols in the order of the server's keys.
LEMMA ByKey ==
  ASSUME NEW X, Unique(X)
  PROVE  LET Q == InOrder(X, LAMBDA s : KeyRank[s.pos])
         IN  Q \in Seq(SymbolType) /\ ToSet(Q) = X /\ \A i, j \in 1 .. Len(Q) : i < j => KeyRank[Q[i].pos] < KeyRank[Q[j].pos]
<1> DEFINE g == [s \in X |-> KeyRank[s.pos]]
           Q == InOrder(X, LAMBDA s : KeyRank[s.pos])
           n == Cardinality(X)
<1>1. IsFiniteSet(X) /\ X \subseteq SymbolType
  BY UniqueFinite DEF Unique
<1>2. Distinct(X, g)
  BY SymbolFields, KeyRankAssumption DEF Unique, Distinct
<1>3. \A s \in X : Smaller(X, g, s) = {t \in X : KeyRank[t.pos] < KeyRank[s.pos]}
  BY DEF Smaller
<1>4. Q = [k \in 1 .. n |-> CHOOSE s \in X : Cardinality({t \in X : KeyRank[t.pos] < KeyRank[s.pos]}) = k - 1]
  BY Zenon DEF InOrder
<1>5. ASSUME NEW k \in 1 .. n PROVE Q[k] \in X /\ Cardinality(Smaller(X, g, Q[k])) = k - 1
  <2>1. PICK s \in X : Cardinality(Smaller(X, g, s)) = k - 1
    BY <1>1, <1>2, RankTaken
  <2>2. Cardinality({t \in X : KeyRank[t.pos] < KeyRank[s.pos]}) = k - 1
    BY <1>3, <2>1
  <2>3. Q[k] = CHOOSE x \in X : Cardinality({t \in X : KeyRank[t.pos] < KeyRank[x.pos]}) = k - 1
    BY <1>4
  <2> HIDE DEF Q, g
  <2>4. Q[k] \in X /\ Cardinality({t \in X : KeyRank[t.pos] < KeyRank[Q[k].pos]}) = k - 1
    BY <2>2, <2>3, Zenon
  <2> QED BY <1>3, <2>4
<1>6. Q = [k \in 1 .. n |-> Q[k]]
  BY <1>4
<1> HIDE DEF Q
<1>7. Ranks(Q, X, g)
  BY <1>5, <1>6, Zenon DEF Ranks
<1>8. Enumerates(Q, X, g)
  BY <1>1, <1>2, <1>7, Ranked
<1>9. Q \in Seq(X) /\ ToSet(Q) = X /\ \A i, j \in 1 .. Len(Q) : i < j => g[Q[i]] < g[Q[j]]
  BY <1>8 DEF Enumerates
<1>10. Q \in Seq(SymbolType)
  BY <1>1, <1>9
<1>11. ASSUME NEW i \in 1 .. Len(Q), NEW j \in 1 .. Len(Q), i < j PROVE KeyRank[Q[i].pos] < KeyRank[Q[j].pos]
  <2>1. \A k \in 1 .. Len(Q) : Q[k] \in X
    BY <1>9
  <2> QED BY <1>9, <1>11, <2>1
<1> QED BY <1>9, <1>10, <1>11 DEF Q

\* Some positions in ascending order.
LEMMA AscendingPositions ==
  ASSUME NEW P \in SUBSET Positions, NEW n \in Nat, NEW S \in kSubset(n, P)
  PROVE  LET Q == Ascending(S)
         IN  /\ Len(Q) = n /\ \A k \in 1 .. n : Q[k] \in P
             /\ \A i, j \in 1 .. n : i < j => Q[i] < Q[j]
<1> DEFINE g == [s \in S |-> s]
           Q == Ascending(S)
<1>1. S \in SUBSET P /\ Cardinality(S) = n
  BY DEF kSubset
<1>2. IsFiniteSet(S)
  <2>1. IsFiniteSet(Positions)
    BY MaxPosAssumption, FS_Interval DEF Positions
  <2> QED BY <1>1, <2>1, FS_Subset
<1>3. Distinct(S, g)
  BY <1>1 DEF Distinct, Positions
<1>4. \A s \in S : Smaller(S, g, s) = {t \in S : t < s}
  BY DEF Smaller
<1>5. Q = [k \in 1 .. Cardinality(S) |-> CHOOSE s \in S : Cardinality({t \in S : t < s}) = k - 1]
  BY Zenon DEF Ascending, InOrder
<1>6. ASSUME NEW k \in 1 .. Cardinality(S) PROVE Q[k] \in S /\ Cardinality(Smaller(S, g, Q[k])) = k - 1
  <2>1. PICK s \in S : Cardinality(Smaller(S, g, s)) = k - 1
    BY <1>2, <1>3, RankTaken
  <2>2. Cardinality({t \in S : t < s}) = k - 1
    BY <1>4, <2>1
  <2>3. Q[k] = CHOOSE x \in S : Cardinality({t \in S : t < x}) = k - 1
    BY <1>5
  <2> HIDE DEF Q, g
  <2>4. Q[k] \in S /\ Cardinality({t \in S : t < Q[k]}) = k - 1
    BY <2>2, <2>3, Zenon
  <2> QED BY <1>4, <2>4
<1>7. Q = [k \in 1 .. Cardinality(S) |-> Q[k]]
  BY <1>5
<1> HIDE DEF Q
<1>8. Ranks(Q, S, g)
  BY <1>6, <1>7, Zenon DEF Ranks
<1>9. Enumerates(Q, S, g)
  BY <1>2, <1>3, <1>8, Ranked
<1>10. Q \in Seq(S) /\ Len(Q) = n /\ \A i, j \in 1 .. n : i < j => g[Q[i]] < g[Q[j]]
  BY <1>1, <1>9 DEF Enumerates
<1>11. \A k \in 1 .. n : Q[k] \in S
  BY <1>10
<1> QED BY <1>1, <1>10, <1>11 DEF Q

===============================================================================
