------------------------------- MODULE FoldProofs -------------------------------
(***************************************************************************)
(* What FoldLeft computes, for any operator: the last of the values that   *)
(* are reached from the first by one step per element.  The loops of Crdt  *)
(* over the symbols of an operation are folds; their proofs instantiate    *)
(* this module with the body of the loop.                                  *)
(***************************************************************************)
EXTENDS Integers, Sequences, Folds

CONSTANT Op(_, _)

\* FoldLeft of the community modules, with its operator and Max.
Greatest(S) == CHOOSE m \in S : \A y \in S : m >= y
Folded(x, s) == MapThenFoldSet(LAMBDA e, y : Op(y, e), x, LAMBDA i : s[i], LAMBDA S : Greatest(S), DOMAIN s)

-----------------------------------------------------------------------------
\* Induction up to a number, for a set.  It is proved where this module is
\* instantiated, and not here, to keep the instances small.
CanCount ==
  \A n \in Nat : \A T : (0 \in T /\ \A k \in 0 .. n - 1 : k \in T => k + 1 \in T) => 0 .. n \subseteq T

\* The greatest of the numbers up to k is k.
LEMMA MaxUpTo == ASSUME NEW k \in Nat \ {0} PROVE Greatest(1 .. k) = k /\ 1 .. k # {} /\ (1 .. k) \ {k} = 1 .. k - 1
<1>1. \A m \in 1 .. k : (\A y \in 1 .. k : m >= y) => m = k
  OBVIOUS
<1>2. k \in 1 .. k /\ \A y \in 1 .. k : k >= y
  OBVIOUS
<1>3. Greatest(1 .. k) = k
  BY <1>1, <1>2 DEF Greatest
<1> QED
  BY <1>2, <1>3

\* The function that a fold computes over the sets of indices.
Iterates(x, s, D, g) ==
  g = [S \in SUBSET D |-> IF S = {} THEN x ELSE Op(g[S \ {Greatest(S)}], s[Greatest(S)])]

\* There is such a function for the indices up to any n.
LEMMA IteratesExist ==
  ASSUME NEW x, NEW s, NEW n \in Nat, CanCount
  PROVE  \E g : Iterates(x, s, 1 .. n, g)
<1> DEFINE Done == {k \in 0 .. n : \E g : Iterates(x, s, 1 .. k, g)}
<1>1. 0 \in Done
  <2> DEFINE g == [S \in SUBSET (1 .. 0) |-> x]
  <2>1. 1 .. 0 = {}
    OBVIOUS
  <2>2. \A S \in SUBSET (1 .. 0) : S = {}
    BY <2>1
  <2>3. g = [S \in SUBSET (1 .. 0) |-> IF S = {} THEN x ELSE Op(g[S \ {Greatest(S)}], s[Greatest(S)])]
    <3>1. \A S \in SUBSET (1 .. 0) : x = IF S = {} THEN x ELSE Op(g[S \ {Greatest(S)}], s[Greatest(S)])
      BY <2>2
    <3> QED BY <3>1
  <2>4. Iterates(x, s, 1 .. 0, g)
    BY <2>3 DEF Iterates
  <2> QED
    BY <2>4
<1>2. ASSUME NEW k \in 0 .. n - 1, k \in Done PROVE k + 1 \in Done
  <2>1. PICK g : Iterates(x, s, 1 .. k, g)
    BY <1>2
  <2> DEFINE h == [S \in SUBSET (1 .. k + 1) |->
                     IF k + 1 \in S THEN Op(g[S \ {k + 1}], s[k + 1]) ELSE g[S]]
  <2>2. ASSUME NEW S \in SUBSET (1 .. k + 1)
        PROVE  h[S] = IF S = {} THEN x ELSE Op(h[S \ {Greatest(S)}], s[Greatest(S)])
    <3>0. k + 1 \in Nat \ {0} /\ (k + 1) - 1 = k
      OBVIOUS
    <3>a. \A T \in SUBSET (1 .. k) : T \in SUBSET (1 .. k + 1) /\ k + 1 \notin T
      BY <3>0
    <3>b. \A T \in SUBSET (1 .. k) : h[T] = g[T]
      BY <3>a
    <3>1. CASE k + 1 \in S
      <4>1. \A m \in S : (\A y \in S : m >= y) => m = k + 1
        BY <3>1
      <4>2. k + 1 \in S /\ \A y \in S : k + 1 >= y
        BY <3>1
      <4>3. Greatest(S) = k + 1
        BY <4>1, <4>2 DEF Greatest
      <4>4. S \ {k + 1} \in SUBSET (1 .. k)
        OBVIOUS
      <4>5. h[S \ {k + 1}] = g[S \ {k + 1}]
        BY <4>4, <3>b
      <4>6. h[S] = Op(g[S \ {k + 1}], s[k + 1])
        BY <3>1
      <4>7. S # {}
        BY <3>1
      <4> HIDE DEF h
      <4> QED
        BY <4>3, <4>5, <4>6, <4>7
    <3>2. CASE k + 1 \notin S
      <4>1. S \in SUBSET (1 .. k)
        BY <3>2
      <4>2. S \ {Greatest(S)} \in SUBSET (1 .. k)
        BY <4>1
      <4>3. h[S] = g[S]
        BY <4>1, <3>b
      <4>4. h[S \ {Greatest(S)}] = g[S \ {Greatest(S)}]
        BY <4>2, <3>b
      <4>5. g = [U \in SUBSET (1 .. k) |-> IF U = {} THEN x ELSE Op(g[U \ {Greatest(U)}], s[Greatest(U)])]
        BY <2>1 DEF Iterates
      <4> DEFINE B(U) == IF U = {} THEN x ELSE Op(g[U \ {Greatest(U)}], s[Greatest(U)])
      <4>6. g = [U \in SUBSET (1 .. k) |-> B(U)]
        BY <4>5
      <4>7. g[S] = B(S)
        <5> HIDE DEF B
        <5> QED BY <4>6, <4>1
      <4> HIDE DEF h
      <4> QED
        BY <4>3, <4>4, <4>7
    <3> QED
      BY <3>1, <3>2
  <2>3. h = [S \in SUBSET (1 .. k + 1) |-> IF S = {} THEN x ELSE Op(h[S \ {Greatest(S)}], s[Greatest(S)])]
    <3>1. h = [S \in SUBSET (1 .. k + 1) |-> h[S]]
      OBVIOUS
    <3> HIDE DEF h
    <3> QED BY <2>2, <3>1
  <2>4. Iterates(x, s, 1 .. k + 1, h)
    BY <2>3 DEF Iterates
  <2> QED
    BY <2>4
<1>3. 0 .. n \subseteq Done
  <2> HIDE DEF Done
  <2> QED BY <1>1, <1>2 DEF CanCount
<1> QED
  BY <1>3

\* The values that are reached, one per element taken.
Steps(x, s, f) ==
  /\ DOMAIN f = 0 .. Len(s) /\ f[0] = x /\ f[Len(s)] = Folded(x, s)
  /\ \A k \in 1 .. Len(s) : f[k] = Op(f[k - 1], s[k])

\* FoldLeft goes through the sequence one element at a time: this is what a loop
\* over the symbols of an operation does (handleRemotePaste and the others).
THEOREM FoldedSteps ==
  ASSUME NEW x, NEW s, CanCount, Len(s) \in Nat, DOMAIN s = 1 .. Len(s)
  PROVE  \E f : Steps(x, s, f)
<1> DEFINE n == Len(s)
           D == 1 .. n
           g == CHOOSE h : Iterates(x, s, D, h)
           f == [k \in 0 .. n |-> g[1 .. k]]
<1>1. Iterates(x, s, D, g)
  <2>1. \E h : Iterates(x, s, D, h)
    BY IteratesExist
  <2> QED BY <2>1
<1>2. Folded(x, s) = g[D]
  BY DEF Folded, MapThenFoldSet, Iterates
<1> DEFINE B(U) == IF U = {} THEN x ELSE Op(g[U \ {Greatest(U)}], s[Greatest(U)])
<1>3. g = [U \in SUBSET D |-> B(U)]
  BY <1>1 DEF Iterates
<1> HIDE DEF g
<1>4. \A U \in SUBSET D : g[U] = B(U)
  <2> HIDE DEF B
  <2> QED BY <1>3
<1>5. f[0] = x
  <2>1. 1 .. 0 = {}
    OBVIOUS
  <2>2. {} \in SUBSET D
    OBVIOUS
  <2>3. g[{}] = x
    BY <2>2, <1>4
  <2>4. 0 \in 0 .. n
    OBVIOUS
  <2> QED BY <2>1, <2>3, <2>4
<1>6. ASSUME NEW k \in 1 .. n PROVE f[k] = Op(f[k - 1], s[k])
  <2>1. k \in Nat \ {0} /\ k \in 0 .. n /\ k - 1 \in 0 .. n
    OBVIOUS
  <2>2. Greatest(1 .. k) = k /\ 1 .. k # {} /\ (1 .. k) \ {k} = 1 .. k - 1
    BY <2>1, MaxUpTo
  <2>3. 1 .. k \in SUBSET D
    OBVIOUS
  <2>4. g[1 .. k] = B(1 .. k)
    BY <2>3, <1>4
  <2>5. g[1 .. k] = Op(g[1 .. k - 1], s[k])
    BY <2>2, <2>4
  <2> QED BY <2>1, <2>5
<1>7. f[n] = Folded(x, s) /\ DOMAIN f = 0 .. n
  BY <1>2
<1> HIDE DEF f
<1>8. Steps(x, s, f)
  BY <1>5, <1>6, <1>7 DEF Steps
<1> QED
  BY <1>8
=============================================================================
