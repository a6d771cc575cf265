----------------------------- MODULE CollabProofs -----------------------------
(***************************************************************************)
(* Editors that share a document through the server agree with it, for any *)
(* editors, documents, positions and characters, any number of actions and *)
(* any interleaving, when the users are Orderly.                           *)
(*                                                                         *)
(* An operation that makes sense for a content (Fits) has an Effect on it; *)
(* operations of different users commute.  The invariant says that for     *)
(* every editor the messages on their way to it lead from what it holds to *)
(* a content to which the messages on their way to the server lead from    *)
(* what the server holds (InStep), in each phase of its window.            *)
(***************************************************************************)
EXTENDS CrdtProofs

\* The position of the terminator.
End == (CHOOSE s \in Document : s.val = NUL).pos
Pos(X) == {s.pos : s \in X}

\* The contents a document can have.
Doc(X) ==
  /\ Unique(X)
  /\ \E s \in X : s.pos = End /\ s.val = NUL
  /\ \A s \in X : s.pos # End => s.val # NUL /\ s.pos < End

\* What an operation does to a content.
Effect(X, m) ==
  IF m.type \notin Operations THEN X
  ELSE IF m.type = "DELETE_SYMBOL" THEN Without(X, m.symbols)
  ELSE Without(X, m.symbols) \cup ToSet(m.symbols)

Insertions == {"INSERT_SYMBOL", "PASTE"}

\* Nothing lies between the symbols but these symbols.
Solid(X, S) ==
  \A s \in X : \A i, j \in 1 .. Len(S) : (i < j /\ S[i].pos < s.pos /\ s.pos < S[j].pos) => s.pos \in PositionsOf(S)

Fresh(X, S) ==
  Solid(X, S) /\ \A k \in 1 .. Len(S) : S[k].pos \notin Pos(X) /\ S[k].pos < End /\ S[k].val # NUL
There(X, S) == Solid(X, S) /\ \A k \in 1 .. Len(S) : S[k] \in X /\ S[k].val # NUL
Known(X, S) == \A k \in 1 .. Len(S) : \E s \in X : s.pos = S[k].pos /\ s.val = S[k].val
Ending(X, S) == \E s \in X : s = [S[1] EXCEPT !.align = s.align] /\ s.val \in {NL, NUL}

\* An operation that makes sense for a content.
Fits(X, m) ==
  /\ m \in MessageType
  /\ m.type \in Operations =>
       /\ Len(m.symbols) > 0 /\ Sorted(m.symbols)
       /\ m.type \in {"INSERT_SYMBOL", "ALIGN"} => Len(m.symbols) = 1
       /\ m.type \in Insertions => Fresh(X, m.symbols)
       /\ m.type = "DELETE_SYMBOL" => There(X, m.symbols)
       /\ m.type = "CHANGE" => Known(X, m.symbols)
       /\ m.type = "ALIGN" => Ending(X, m.symbols)

-----------------------------------------------------------------------------
\* A replica that holds a document.
Holding(r, X, F) ==
  /\ Good(r) /\ F = Flatten(r.symbols) /\ X = ToSet(F) /\ Doc(X)
  /\ F \in Seq(SymbolType) /\ Len(F) \in Nat /\ Len(F) > 0 /\ Sorted(F) /\ Ended(F)
  /\ X = {F[k] : k \in 1 .. Len(F)} /\ F[Len(F)].pos = End /\ \A k \in 1 .. Len(F) : F[k].pos \in Int /\ F[k] \in SymbolType

\* A replica in order whose symbols are a document holds it.
LEMMA ReplicaHolds ==
  ASSUME NEW r, Good(r), Doc(ToSet(Flatten(r.symbols)))
  PROVE  Holding(r, ToSet(Flatten(r.symbols)), Flatten(r.symbols))
<1> DEFINE F == Flatten(r.symbols)
           X == ToSet(F)
<1>1. Ordered(r.symbols) /\ Shape(r.symbols) /\ Sorted(F) /\ Ended(F)
  BY DEF Good, Ordered
<1>2. F \in Seq(SymbolType) /\ Len(F) > 0 /\ Len(F) \in Nat /\ \A k \in 1 .. Len(F) : F[k] \in SymbolType /\ F[k].pos \in Int
  BY <1>1, Keys
<1> HIDE DEF F
<1>3. X = {F[k] : k \in 1 .. Len(F)}
  BY <1>2 DEF ToSet
<1>4. F[Len(F)].pos = End
  <2>1. Len(F) \in 1 .. Len(F)
    BY <1>2
  <2>2. F[Len(F)].val = NUL /\ F[Len(F)] \in X
    BY <1>1, <1>3, <2>1 DEF Ended
  <2> QED BY <2>2 DEF Doc, F
<1> QED BY <1>1, <1>2, <1>3, <1>4 DEF Holding, F

\* There is a gap for every new position before the end.
LEMMA GapOf ==
  ASSUME NEW r, NEW X, NEW F, Holding(r, X, F), NEW p \in Int, p \notin Pos(X), p < End
  PROVE  \E o \in 0 .. Len(F) - 1 : Gap(F, o, p)
<1>1. F \in Seq(SymbolType) /\ Len(F) \in Nat /\ Len(F) > 0 /\ F[Len(F)].pos = End /\ (\A k \in 1 .. Len(F) : F[k].pos \in Int) /\ Len(F) \in 1 .. Len(F)
  BY DEF Holding
<1>2. p <= F[Len(F)].pos
  BY <1>1
<1>3. PICK o : Before(F, p, o)
  BY <1>1, <1>2, BeforeExists
<1>4. o \in 0 .. Len(F) - 1 /\ o + 1 \in 1 .. Len(F)
  BY <1>1, <1>3 DEF Before
<1>5. F[o + 1].pos # p
  <2>1. F[o + 1] \in X
    BY <1>4 DEF Holding
  <2> QED BY <2>1 DEF Pos
<1>6. p < F[o + 1].pos
  BY <1>1, <1>3, <1>4, <1>5 DEF Before
<1> QED BY <1>3, <1>4, <1>6 DEF Gap, Before

\* A symbol of a sequence.
LEMMA SymbolsAt == ASSUME NEW S \in Seq(SymbolType), NEW k \in 1 .. Len(S) PROVE S[k] \in SymbolType /\ S[k].pos \in Int /\ S[k].pos \in Positions
<1>1. S[k] \in SymbolType
  OBVIOUS
<1> QED BY <1>1, SymbolFields

\* New symbols that belong together go in one piece.
LEMMA BatchOf ==
  ASSUME NEW r, NEW X, NEW F, Holding(r, X, F), NEW S \in Seq(SymbolType), Len(S) > 0, Sorted(S), Fresh(X, S)
  PROVE  \E o \in 0 .. Len(F) - 1 : Batch(F, o, S)
<1>1. /\ Len(S) \in Nat /\ 1 \in 1 .. Len(S) /\ DOMAIN S = 1 .. Len(S)
      /\ \A k \in 1 .. Len(S) : S[k].pos \in Int
  BY SymbolsAt
<1>2. \A k \in 1 .. Len(S) : S[k].pos \notin Pos(X) /\ S[k].pos < End /\ S[k].val # NUL
  BY DEF Fresh
<1>3. PICK o \in 0 .. Len(F) - 1 : Gap(F, o, S[1].pos)
  BY <1>1, <1>2, GapOf
<1>4. /\ Len(F) \in Nat /\ o + 1 \in 1 .. Len(F) /\ (o # 0 => o \in 1 .. Len(F))
      /\ F[o + 1].pos \in Int /\ F[o + 1] \in X /\ (o # 0 => F[o].pos \in Int)
  <2>1. Len(F) \in Nat
    BY DEF Holding
  <2>2. o + 1 \in 1 .. Len(F) /\ (o # 0 => o \in 1 .. Len(F))
    BY <2>1
  <2> QED BY <2>1, <2>2 DEF Holding
<1>5. S[1].pos < F[o + 1].pos /\ (o = 0 \/ F[o].pos < S[1].pos)
  BY <1>3 DEF Gap
<1>6. ASSUME NEW k \in 1 .. Len(S) PROVE Gap(F, o, S[k].pos)
  <2>1. S[1].pos <= S[k].pos /\ S[1].pos \in Int /\ S[k].pos \in Int
    <3>1. CASE k = 1
      BY <1>1, <3>1
    <3>2. CASE 1 < k
      BY <1>1, <3>2 DEF Sorted
    <3> QED BY <1>1, <3>1, <3>2
  <2>2. S[k].pos < F[o + 1].pos
    <3>1. SUFFICES ASSUME ~(S[k].pos < F[o + 1].pos) PROVE FALSE
      OBVIOUS
    <3>2. F[o + 1].pos \in Pos(X)
      BY <1>4 DEF Pos
    <3>3. S[k].pos # F[o + 1].pos
      BY <1>2, <3>2
    <3>4. S[1].pos < F[o + 1].pos /\ F[o + 1].pos < S[k].pos
      BY <1>4, <1>5, <2>1, <3>1, <3>3
    <3>k. 1 < k
      BY <1>1, <1>4, <3>4
    <3>5. F[o + 1].pos \in PositionsOf(S)
      BY <1>1, <1>4, <3>4, <3>k DEF Fresh, Solid
    <3>6. PICK i \in 1 .. Len(S) : F[o + 1].pos = S[i].pos
      BY <1>1, <3>5 DEF PositionsOf
    <3> QED BY <1>2, <3>2, <3>6
  <2>3. o = 0 \/ F[o].pos < S[k].pos
    BY <1>4, <1>5, <2>1
  <2> QED BY <2>2, <2>3 DEF Gap
<1>7. Batch(F, o, S)
  BY <1>2, <1>6 DEF Batch
<1> QED BY <1>7

Matched(F, S, o, k) == o + k <= Len(F) /\ S[k] = F[o + k]

\* The symbol after one is the next of those that belong together.
LEMMA RunNext ==
  ASSUME NEW r, NEW X, NEW F, Holding(r, X, F), NEW S \in Seq(SymbolType), Sorted(S), There(X, S),
         NEW o \in Nat, NEW k \in Nat, k > 0, k + 1 <= Len(S), Matched(F, S, o, k)
  PROVE  Matched(F, S, o, k + 1)
<1> DEFINE e == o + (k + 1)
<1>0. o + k <= Len(F) /\ S[k] = F[o + k]
  BY DEF Matched
<1>1. k \in 1 .. Len(S) /\ k + 1 \in 1 .. Len(S) /\ Len(F) \in Nat /\ o + k \in 1 .. Len(F) /\ e = (o + k) + 1 /\ DOMAIN S = 1 .. Len(S)
  BY <1>0 DEF Holding
<1>2. S[k].pos < S[k + 1].pos /\ S[k].pos \in Int /\ S[k + 1].pos \in Int
  BY <1>1, SymbolsAt DEF Sorted
<1>3. S[k + 1] \in X
  BY <1>1 DEF There
<1>4. PICK j \in 1 .. Len(F) : S[k + 1] = F[j]
  BY <1>3 DEF Holding
<1>5. j > o + k
  <2>1. SUFFICES ASSUME j <= o + k PROVE FALSE
    BY <1>1
  <2>2. F[j].pos <= F[o + k].pos
    <3>1. CASE j = o + k
      BY <1>0, <1>1, <1>2, <3>1
    <3>2. CASE j < o + k
      BY <1>0, <1>1, <1>2, <1>4, <3>2 DEF Holding, Sorted
    <3> QED BY <1>1, <2>1, <3>1, <3>2
  <2> QED BY <1>0, <1>2, <1>4, <2>2
<1>6. e <= Len(F) /\ e \in 1 .. Len(F)
  BY <1>1, <1>5
<1> HIDE DEF e
<1>7. F[e].pos \in Int /\ F[e] \in X
  BY <1>6 DEF Holding
<1>8. j = e
  <2>1. SUFFICES ASSUME e < j PROVE FALSE
    BY <1>1, <1>5, <1>6
  <2>2. S[k].pos < F[e].pos
    <3>1. o + k < e
      BY <1>1
    <3>2. F[o + k].pos < F[e].pos
      BY <1>1, <1>6, <3>1 DEF Holding, Sorted
    <3> QED BY <1>0, <3>2
  <2>3. F[e].pos < S[k + 1].pos
    <3>1. F[e].pos < F[j].pos
      BY <1>6, <2>1 DEF Holding, Sorted
    <3> QED BY <1>4, <3>1
  <2>k. k < k + 1
    OBVIOUS
  <2>4. F[e].pos \in PositionsOf(S)
    BY <2>k, <1>1, <1>7, <2>2, <2>3 DEF There, Solid
  <2>5. PICK i \in 1 .. Len(S) : F[e].pos = S[i].pos
    BY <1>1, <2>4 DEF PositionsOf
  <2>6. S[i].pos \in Int /\ k < i
    <3>1. SUFFICES ASSUME i <= k PROVE FALSE
      BY <1>1, SymbolsAt
    <3>2. S[i].pos <= S[k].pos
      <4>1. CASE i = k
        BY <1>2, <4>1
      <4>2. CASE i < k
        BY <1>1, <1>2, <4>2, SymbolsAt DEF Sorted
      <4> QED BY <1>1, <3>1, <4>1, <4>2
    <3> QED BY <1>2, <1>7, <2>2, <2>5, <3>2
  <2>7. i < k + 1
    <3>1. SUFFICES ASSUME k + 1 <= i PROVE FALSE
      BY <1>1
    <3>2. S[k + 1].pos <= S[i].pos
      <4>1. CASE i = k + 1
        BY <1>2, <4>1
      <4>2. CASE k + 1 < i
        BY <1>1, <1>2, <2>6, <4>2 DEF Sorted
      <4> QED BY <1>1, <3>1, <4>1, <4>2
    <3> QED BY <1>2, <1>7, <2>3, <2>5, <3>2
  <2> QED BY <2>6, <2>7
<1> QED BY <1>4, <1>6, <1>8 DEF e, Matched

\* Symbols that belong together lie in one piece.
LEMMA RunOf ==
  ASSUME NEW r, NEW X, NEW F, Holding(r, X, F), NEW S \in Seq(SymbolType), Len(S) > 0, Sorted(S), There(X, S)
  PROVE  \E o : Run(F, o, S)
<1>1. Len(S) \in Nat /\ 1 \in 1 .. Len(S) /\ Len(S) \in 1 .. Len(S) /\ Len(F) \in Nat
  BY DEF Holding
<1>2. PICK e \in 1 .. Len(F) : S[1] = F[e]
  <2>1. S[1] \in X
    BY <1>1 DEF There
  <2> QED BY <2>1 DEF Holding
<1> DEFINE o == e - 1
           P(k) == k = 0 \/ Matched(F, S, o, k)
           Done == {k \in Nat : k <= Len(S) => P(k)}
<1>3. o \in Nat /\ o + 1 = e
  BY <1>1
<1>4. 0 \in Done
  OBVIOUS
<1>5. ASSUME NEW k \in 0 .. Len(S) - 1, k \in Done PROVE k + 1 \in Done
  <2>1. k \in Nat /\ k + 1 \in Nat /\ k + 1 <= Len(S) /\ P(k)
    BY <1>1, <1>5
  <2>2. CASE k = 0
    <3>1. o + (k + 1) = e /\ S[k + 1] = S[1]
      BY <1>3, <2>2
    <3>2. P(k + 1)
      BY <1>1, <1>2, <3>1 DEF Matched
    <3> QED BY <2>1, <3>2
  <2>3. CASE k # 0
    <3>1. k > 0 /\ Matched(F, S, o, k)
      BY <2>1, <2>3
    <3> HIDE DEF o
    <3>2. Matched(F, S, o, k + 1)
      BY <1>3, <2>1, <3>1, RunNext
    <3> QED BY <2>1, <3>2
  <2> QED BY <2>2, <2>3
<1> HIDE DEF Done
<1>6. 0 .. Len(S) \subseteq Done
  BY <1>1, <1>4, <1>5, UpTo
<1> HIDE DEF o
<1>7. ASSUME NEW k \in 1 .. Len(S) PROVE o + k <= Len(F) /\ S[k] = F[o + k]
  <2>1. k \in 0 .. Len(S) /\ k # 0 /\ k <= Len(S)
    BY <1>1
  <2>2. P(k)
    BY <1>6, <2>1 DEF Done
  <2> QED BY <2>1, <2>2 DEF Matched
<1>8. o + Len(S) < Len(F)
  <2>1. o + Len(S) # Len(F)
    <3>1. S[Len(S)].val # NUL
      BY <1>1 DEF There
    <3>2. o + Len(S) \in 1 .. Len(F) /\ S[Len(S)] = F[o + Len(S)]
      BY <1>1, <1>3, <1>7
    <3> QED BY <3>1, <3>2 DEF Holding, Ended
  <2> QED BY <1>1, <1>3, <1>7, <2>1
<1>9. Run(F, o, S)
  BY <1>3, <1>7, <1>8 DEF Run
<1> QED BY <1>9

\* The fields of a message.
LEMMA MessageFields == ASSUME NEW m \in MessageType PROVE m.symbols \in Seq(SymbolType) /\ m.type \in Operations \cup {"file_to_open", "close"}
BY DEF MessageType

\* A sequence of one symbol.
LEMMA OneOf == ASSUME NEW S \in Seq(SymbolType), Len(S) = 1
               PROVE  S[1] \in SymbolType /\ ToSet(S) = {S[1]} /\ PositionsOf(S) = {S[1].pos} /\ DOMAIN S = 1 .. 1
<1>1. S[1] \in SymbolType /\ DOMAIN S = 1 .. 1
  OBVIOUS
<1>2. ToSet(S) = {S[1]}
  BY <1>1 DEF ToSet
<1>3. PositionsOf(S) = {S[1].pos}
  BY <1>1 DEF PositionsOf
<1> QED BY <1>1, <1>2, <1>3

\* New symbols take nothing away.
LEMMA FreshAdds == ASSUME NEW X, NEW S \in Seq(SymbolType), Fresh(X, S) PROVE Without(X, S) = X
<1>1. ASSUME NEW x \in X PROVE x.pos \notin PositionsOf(S)
  <2>1. x.pos \in Pos(X)
    BY DEF Pos
  <2> QED BY <2>1 DEF Fresh, PositionsOf
<1> QED BY <1>1 DEF Without

\* An operation that fits is applied: the content changes as it says.
LEMMA OperationApplied ==
  ASSUME NEW r, NEW X, NEW F, Holding(r, X, F), NEW m, Fits(X, m), m.type \in Operations
  PROVE  Holds(Apply(r, m), Effect(X, m))
<1> DEFINE S == m.symbols
<1>0. /\ Good(r) /\ X = ToSet(Flatten(r.symbols)) /\ F = Flatten(r.symbols)
  BY DEF Holding
<1>1. S \in Seq(SymbolType) /\ Len(S) > 0 /\ Sorted(S)
  BY MessageFields DEF Fits
<1>2. CASE m.type = "INSERT_SYMBOL"
  <2>1. Fresh(X, S) /\ Len(S) = 1
    BY <1>2 DEF Fits, Operations, Insertions
  <2>2. PICK o \in 0 .. Len(F) - 1 : Batch(F, o, S)
    BY <1>1, <2>1, BatchOf
  <2>3. S[1] \in SymbolType /\ ToSet(S) = {S[1]} /\ S[1].val # NUL /\ Gap(F, o, S[1].pos)
    <3>1. 1 \in 1 .. Len(S)
      BY <2>1
    <3> QED BY <1>1, <2>1, <2>2, <3>1, OneOf DEF Batch
  <2>4. Holds(handleRemoteInsert(r, S[1]), X \cup {S[1]})
    BY <1>0, <2>3, SymbolInserted
  <2>5. Effect(X, m) = X \cup {S[1]}
    BY <1>1, <1>2, <2>1, <2>3, FreshAdds DEF Effect, Operations
  <2>6. Apply(r, m) = handleRemoteInsert(r, S[1])
    BY <1>2 DEF Apply
  <2> QED BY <2>4, <2>5, <2>6
<1>3. CASE m.type = "PASTE"
  <2>1. Fresh(X, S)
    BY <1>3 DEF Fits, Operations, Insertions
  <2>2. PICK o \in 0 .. Len(F) - 1 : Batch(F, o, S)
    BY <1>1, <2>1, BatchOf
  <2>3. Holds(handleRemotePaste(r, S), X \cup ToSet(S))
    BY <1>0, <1>1, <2>2, BatchPasted
  <2>4. Effect(X, m) = X \cup ToSet(S)
    BY <1>1, <1>3, <2>1, FreshAdds DEF Effect, Operations
  <2>5. Apply(r, m) = handleRemotePaste(r, S)
    BY <1>3 DEF Apply
  <2> QED BY <2>3, <2>4, <2>5
<1>4. CASE m.type = "DELETE_SYMBOL"
  <2>1. There(X, S)
    BY <1>4 DEF Fits, Operations
  <2>2. PICK o : Run(F, o, S)
    BY <1>1, <2>1, RunOf
  <2>3. Holds(handleRemoteErase(r, S), Without(X, S))
    BY <1>0, <1>1, <2>2, RunErased
  <2>4. Effect(X, m) = Without(X, S)
    BY <1>4 DEF Effect, Operations
  <2>5. Apply(r, m) = handleRemoteErase(r, S)
    BY <1>4 DEF Apply
  <2> QED BY <2>3, <2>4, <2>5
<1>5. CASE m.type = "CHANGE"
  <2>1. Known(X, S)
    BY <1>5 DEF Fits, Operations
  <2>2. Named(X, S)
    <3>1. ASSUME NEW i \in 1 .. Len(S), NEW j \in 1 .. Len(S), i # j PROVE S[i].pos # S[j].pos
      <4>1. S[i].pos \in Int /\ S[j].pos \in Int
        BY <1>1, SymbolsAt
      <4>2. CASE i < j
        BY <1>1, <4>1, <4>2 DEF Sorted
      <4>3. CASE j < i
        BY <1>1, <4>1, <4>3 DEF Sorted
      <4> QED BY <3>1, <4>2, <4>3
    <3> QED BY <1>1, <2>1, <3>1 DEF Named, Known
  <2>3. Holds(handleRemoteChange(r, S), Without(X, S) \cup ToSet(S))
    BY <1>0, <2>2, Changed
  <2>4. Effect(X, m) = Without(X, S) \cup ToSet(S)
    BY <1>5 DEF Effect, Operations
  <2>5. Apply(r, m) = handleRemoteChange(r, S)
    BY <1>5 DEF Apply
  <2> QED BY <2>3, <2>4, <2>5
<1>6. CASE m.type = "ALIGN"
  <2>1. Ending(X, S) /\ Len(S) = 1
    BY <1>6 DEF Fits, Operations
  <2>2. PICK t \in X : t = [S[1] EXCEPT !.align = t.align] /\ t.val \in {NL, NUL}
    BY <2>1 DEF Ending
  <2>3. S[1] \in SymbolType /\ ToSet(S) = {S[1]} /\ PositionsOf(S) = {S[1].pos}
    BY <1>1, <2>1, OneOf
  <2>4. Holds(handleRemoteAlignChange(r, S[1]), Swap(X, S[1]))
    BY <1>0, <2>2, <2>3, LineAligned
  <2>5. Effect(X, m) = Swap(X, S[1])
    <3>1. Effect(X, m) = Without(X, S) \cup ToSet(S)
      BY <1>6 DEF Effect, Operations
    <3> QED BY <2>3, <3>1 DEF Without, Swap
  <2>6. Apply(r, m) = handleRemoteAlignChange(r, S[1])
    BY <1>6 DEF Apply
  <2> QED BY <2>4, <2>5, <2>6
<1> QED BY <1>2, <1>3, <1>4, <1>5, <1>6 DEF Operations

\* It leaves a content that a document can have.
LEMMA EffectDoc ==
  ASSUME NEW X, Doc(X), NEW m, Fits(X, m)
  PROVE  Doc(Effect(X, m))
<1> DEFINE S == m.symbols
           Y == Effect(X, m)
<1>1. S \in Seq(SymbolType) /\ DOMAIN S = 1 .. Len(S) /\ m.type \in Operations \cup {"file_to_open", "close"} /\ m \in MessageType
  BY MessageFields DEF Fits
<1>2. PICK e \in X : e.pos = End /\ e.val = NUL
  BY DEF Doc
<1>u. X \subseteq SymbolType /\ (\A s, t \in X : s.pos = t.pos => s = t) /\ \A s \in X : s.pos # End => s.val # NUL /\ s.pos < End
  BY DEF Doc, Unique
<1>p. PositionsOf(S) = {S[k].pos : k \in 1 .. Len(S)} /\ ToSet(S) = {S[k] : k \in 1 .. Len(S)}
  BY <1>1 DEF PositionsOf, ToSet
<1>s. \A k \in 1 .. Len(S) : S[k] \in SymbolType /\ S[k].pos \in Int
  BY <1>1, SymbolsAt
<1>3. CASE m.type \notin Operations
  BY <1>3 DEF Effect
<1>4. CASE m.type = "DELETE_SYMBOL"
  <2>1. There(X, S)
    BY <1>4 DEF Fits, Operations
  <2>2. Y = Without(X, S) /\ Y \subseteq X
    BY <1>4 DEF Effect, Operations, Without
  <2>3. End \notin PositionsOf(S)
    <3>1. SUFFICES ASSUME NEW k \in 1 .. Len(S), S[k].pos = End PROVE FALSE
      BY <1>p
    <3>2. S[k] \in X /\ S[k].val # NUL
      BY <2>1 DEF There
    <3> QED BY <1>2, <1>u, <3>1, <3>2
  <2>4. e \in Y
    BY <1>2, <2>2, <2>3 DEF Without
  <2> QED BY <1>2, <1>u, <2>2, <2>4 DEF Doc, Unique
<1>5. CASE m.type \in Operations /\ m.type # "DELETE_SYMBOL"
  <2>1. Y = Without(X, S) \cup ToSet(S)
    BY <1>5 DEF Effect
  <2>2. \A k \in 1 .. Len(S) : /\ S[k].pos # End => (S[k].val # NUL /\ S[k].pos < End)
                               /\ S[k].pos = End => S[k].val = NUL
    <3>1. CASE m.type \in Insertions
      <4>1. \A k \in 1 .. Len(S) : S[k].pos < End /\ S[k].val # NUL
        BY <1>5, <3>1 DEF Fits, Fresh
      <4>2. End \in Int
        BY <1>2, <1>u, SymbolFields
      <4> QED BY <1>s, <4>1, <4>2
    <3>2. CASE m.type = "CHANGE"
      <4>1. \A k \in 1 .. Len(S) : \E s \in X : s.pos = S[k].pos /\ s.val = S[k].val
        BY <1>5, <3>2 DEF Fits, Known
      <4> QED BY <1>2, <1>u, <4>1
    <3>3. CASE m.type = "ALIGN"
      <4>1. Len(S) = 1 /\ Ending(X, S)
        BY <1>5, <3>3 DEF Fits
      <4>2. S[1] \in SymbolType
        BY <1>1, <4>1, OneOf
      <4>3. PICK s \in X : s = [S[1] EXCEPT !.align = s.align]
        BY <4>1 DEF Ending
      <4>4. s.pos = S[1].pos /\ s.val = S[1].val
        BY <4>2, <4>3 DEF SymbolType
      <4> QED BY <1>2, <1>u, <4>1, <4>4
    <3> QED BY <1>5, <3>1, <3>2, <3>3 DEF Operations, Insertions
  <2>3. \A i, j \in 1 .. Len(S) : S[i].pos = S[j].pos => S[i] = S[j]
    <3>1. ASSUME NEW i \in 1 .. Len(S), NEW j \in 1 .. Len(S), S[i].pos = S[j].pos PROVE i = j
      <4>1. Sorted(S)
        BY <1>5 DEF Fits
      <4>2. S[i].pos \in Int /\ S[j].pos \in Int
        BY <1>s
      <4>3. CASE i < j
        BY <3>1, <4>1, <4>2, <4>3 DEF Sorted
      <4>4. CASE j < i
        BY <3>1, <4>1, <4>2, <4>4 DEF Sorted
      <4> QED BY <4>3, <4>4
    <3> QED BY <3>1
  <2>4. Y \subseteq SymbolType
    BY <1>p, <1>s, <1>u, <2>1 DEF Without
  <2>5. ASSUME NEW s \in Y, NEW t \in Y, s.pos = t.pos PROVE s = t
    BY <1>p, <1>u, <2>1, <2>3, <2>5 DEF Without
  <2>6. \A s \in Y : s.pos # End => s.val # NUL /\ s.pos < End
    BY <1>p, <1>u, <2>1, <2>2 DEF Without
  <2>7. \E s \in Y : s.pos = End /\ s.val = NUL
    <3>1. CASE End \in PositionsOf(S)
      BY <1>p, <2>1, <2>2, <3>1
    <3>2. CASE End \notin PositionsOf(S)
      BY <1>2, <2>1, <3>2 DEF Without
    <3> QED BY <3>1, <3>2
  <2> QED BY <2>4, <2>5, <2>6, <2>7 DEF Doc, Unique
<1> QED BY <1>1, <1>3, <1>4, <1>5

\* Which operations an editor sends.
NobodyOpens == \A c \in Clients : "open" \notin scenario.kinds[c]

From(c, m) ==
  /\ m \in MessageType /\ m.type \in Operations
  /\ m.type \in Insertions => \A k \in 1 .. Len(m.symbols) : scenario.owner[m.symbols[k].pos] = c
  /\ m.type \notin Insertions => NobodyOpens /\ \A k \in 1 .. Len(m.symbols) : m.symbols[k].pos \in scenario.touch[c]
  /\ scenario.group <= 1 => Len(m.symbols) = 1

\* What the theorems ask of the users: nobody formats, erases or aligns what
\* another one does, one user's groups are alone, keys are noted, and while a
\* document is opened the others only type.
Orderly ==
  /\ \A c, d \in Clients : c # d => scenario.touch[c] \cap scenario.touch[d] = {}
  /\ OneUserPastes
  /\ FALSE \notin scenario.noted
  /\ ~Rejoin
  /\ \/ NobodyOpens
     \/ /\ \A c \in Clients : scenario.kinds[c] \subseteq {"insert", "open", "close"}
        /\ \A p \in Positions : p < End => KeyRank[p] < KeyRank[End]

\* The contents are the same but for the symbol at a position.
Alike(X, Y, q) == \A x : x.pos # q => (x \in X <=> x \in Y)

\* An operation on one symbol fits whatever happens to another.
LEMMA FitsAlike ==
  ASSUME NEW X, NEW m, Fits(X, m), m.type \in Operations, Len(m.symbols) = 1, NEW q, m.symbols[1].pos # q, NEW Y, Alike(X, Y, q)
  PROVE  Fits(Y, m)
<1> DEFINE S == m.symbols
           p == S[1].pos
<1>1. S \in Seq(SymbolType) /\ S[1] \in SymbolType /\ PositionsOf(S) = {p} /\ 1 \in 1 .. Len(S) /\ \A k \in 1 .. Len(S) : k = 1
  BY MessageFields, OneOf DEF Fits
<1>2. Solid(Y, S)
  BY <1>1 DEF Solid
<1>3. m.type \in Insertions => Fresh(Y, S)
  <2>1. SUFFICES ASSUME m.type \in Insertions PROVE Fresh(Y, S)
    OBVIOUS
  <2>2. Fresh(X, S)
    BY <2>1 DEF Fits
  <2>3. p \notin Pos(X)
    BY <1>1, <2>2 DEF Fresh
  <2>4. p \notin Pos(Y)
    BY <2>3 DEF Alike, Pos
  <2> QED BY <1>1, <1>2, <2>2, <2>4 DEF Fresh
<1>4. m.type = "DELETE_SYMBOL" => There(Y, S)
  <2>1. SUFFICES ASSUME There(X, S) PROVE There(Y, S)
    BY DEF Fits
  <2>2. S[1] \in X /\ S[1].val # NUL
    BY <1>1, <2>1 DEF There
  <2>3. S[1] \in Y
    BY <2>2 DEF Alike
  <2> QED BY <1>1, <1>2, <2>2, <2>3 DEF There
<1>5. m.type = "CHANGE" => Known(Y, S)
  <2>1. SUFFICES ASSUME Known(X, S) PROVE Known(Y, S)
    BY DEF Fits
  <2>2. PICK x \in X : x.pos = p /\ x.val = S[1].val
    BY <1>1, <2>1 DEF Known
  <2>3. x \in Y
    BY <2>2 DEF Alike
  <2> QED BY <1>1, <2>2, <2>3 DEF Known
<1>6. m.type = "ALIGN" => Ending(Y, S)
  <2>1. SUFFICES ASSUME Ending(X, S) PROVE Ending(Y, S)
    BY DEF Fits
  <2>2. PICK x \in X : x = [S[1] EXCEPT !.align = x.align] /\ x.val \in {NL, NUL}
    BY <2>1 DEF Ending
  <2>3. x.pos = p
    BY <1>1, <2>2 DEF SymbolType
  <2>4. x \in Y
    BY <2>2, <2>3 DEF Alike
  <2> QED BY <2>2, <2>4 DEF Ending
<1> QED BY <1>3, <1>4, <1>5, <1>6 DEF Fits

\* An operation on one symbol leaves the others.
LEMMA EffectAlike ==
  ASSUME NEW X, NEW m, m \in MessageType, m.type \in Operations, Len(m.symbols) = 1
  PROVE  /\ Alike(X, Effect(X, m), m.symbols[1].pos)
         /\ Effect(X, m) = {x \in X : x.pos # m.symbols[1].pos} \cup (IF m.type = "DELETE_SYMBOL" THEN {} ELSE {m.symbols[1]})
<1>1. ToSet(m.symbols) = {m.symbols[1]} /\ PositionsOf(m.symbols) = {m.symbols[1].pos}
  BY MessageFields, OneOf
<1> QED BY <1>1 DEF Effect, Without, Alike

\* Two operations on different symbols commute.
Commute(X, m, n) ==
  /\ Fits(Effect(X, n), m) /\ Fits(Effect(X, m), n)
  /\ Effect(Effect(X, n), m) = Effect(Effect(X, m), n)

\* Proof by cases: the two operations are about different positions.
LEMMA OthersCommute ==
  ASSUME NEW X, NEW m, Fits(X, m), m.type \in Operations, Len(m.symbols) = 1,
         NEW n, Fits(X, n), n.type \in Operations, Len(n.symbols) = 1, m.symbols[1].pos # n.symbols[1].pos
  PROVE  Commute(X, m, n)
<1>0. m \in MessageType /\ n \in MessageType
  BY DEF Fits
<1>1. Fits(Effect(X, n), m) /\ Fits(Effect(X, m), n)
  BY <1>0, EffectAlike, FitsAlike
<1>2. Effect(Effect(X, n), m) = Effect(Effect(X, m), n)
  <2> DEFINE s == m.symbols[1]
             t == n.symbols[1]
             A == IF m.type = "DELETE_SYMBOL" THEN {} ELSE {s}
             B == IF n.type = "DELETE_SYMBOL" THEN {} ELSE {t}
  <2>1. \A Y : Effect(Y, m) = {x \in Y : x.pos # s.pos} \cup A
    BY <1>0, EffectAlike
  <2>2. \A Y : Effect(Y, n) = {x \in Y : x.pos # t.pos} \cup B
    BY <1>0, EffectAlike
  <2>3. (\A x \in A : x.pos # t.pos) /\ (\A x \in B : x.pos # s.pos)
    OBVIOUS
  <2> HIDE DEF s, t, A, B
  <2>4. Effect(Effect(X, n), m) = {x \in {x \in X : x.pos # t.pos} \cup B : x.pos # s.pos} \cup A
    BY <2>1, <2>2
  <2>5. Effect(Effect(X, m), n) = {x \in {x \in X : x.pos # s.pos} \cup A : x.pos # t.pos} \cup B
    BY <2>1, <2>2
  <2> QED BY <2>3, <2>4, <2>5
<1> QED BY <1>1, <1>2 DEF Commute

\* Operations of different users commute.
LEMMA UsersCommute ==
  ASSUME scenario \in Scenarios, Orderly, NEW c \in Clients, NEW d \in Clients, c # d, NEW X,
         NEW m, From(c, m), Fits(X, m), NEW n, From(d, n), Fits(X, n)
  PROVE  Commute(X, m, n)
<1>0. m.type \in Operations /\ n.type \in Operations /\ m \in MessageType /\ n \in MessageType
  BY DEF From
<1>1. /\ m.symbols \in Seq(SymbolType) /\ Len(m.symbols) > 0 /\ 1 \in 1 .. Len(m.symbols) /\ m.symbols[1] \in SymbolType /\ m.symbols[1].pos \in Positions
      /\ n.symbols \in Seq(SymbolType) /\ Len(n.symbols) > 0 /\ 1 \in 1 .. Len(n.symbols) /\ n.symbols[1] \in SymbolType /\ n.symbols[1].pos \in Positions
  BY <1>0, MessageFields, SymbolsAt DEF Fits
<1> DEFINE Small == scenario.group <= 1
<1> HIDE DEF Small
<1>2. CASE Small
  <2>1. Len(m.symbols) = 1 /\ Len(n.symbols) = 1
    BY <1>2 DEF From, Small
  <2>2. m.symbols[1].pos # n.symbols[1].pos
    <3> DEFINE p == m.symbols[1].pos
               q == n.symbols[1].pos
    <3>1. m.type \in Insertions => p \notin Pos(X) /\ scenario.owner[p] = c
      BY <1>0, <1>1 DEF Fits, From, Fresh
    <3>2. n.type \in Insertions => q \notin Pos(X) /\ scenario.owner[q] = d
      BY <1>0, <1>1 DEF Fits, From, Fresh
    <3>3. ASSUME NEW k, k \in MessageType, k.type \in Operations, Fits(X, k), k.type \notin Insertions, Len(k.symbols) = 1
          PROVE  k.symbols[1].pos \in Pos(X)
      <4>1. k.symbols[1] \in SymbolType /\ 1 \in 1 .. Len(k.symbols)
        BY <3>3, MessageFields, OneOf
      <4>2. CASE k.type = "DELETE_SYMBOL"
        BY <3>3, <4>1, <4>2 DEF Fits, There, Pos
      <4>3. CASE k.type = "CHANGE"
        <5>1. PICK x \in X : x.pos = k.symbols[1].pos
          BY <3>3, <4>1, <4>3 DEF Fits, Known
        <5> QED BY <5>1 DEF Pos
      <4>4. CASE k.type = "ALIGN"
        <5>1. PICK x \in X : x = [k.symbols[1] EXCEPT !.align = x.align]
          BY <3>3, <4>1, <4>4 DEF Fits, Ending
        <5>2. x.pos = k.symbols[1].pos
          BY <4>1, <5>1 DEF SymbolType
        <5> QED BY <5>2 DEF Pos
      <4> QED BY <3>3, <4>2, <4>3, <4>4 DEF Operations, Insertions
    <3>4. m.type \notin Insertions => p \in Pos(X) /\ p \in scenario.touch[c]
      BY <1>0, <1>1, <2>1, <3>3 DEF From
    <3>5. n.type \notin Insertions => q \in Pos(X) /\ q \in scenario.touch[d]
      BY <1>0, <1>1, <2>1, <3>3 DEF From
    <3>6. scenario.touch[c] \cap scenario.touch[d] = {}
      BY DEF Orderly
    <3> HIDE DEF p, q
    <3>7. p # q
      BY <3>1, <3>2, <3>4, <3>5, <3>6
    <3> QED BY <3>7 DEF p, q
  <2> QED BY <1>0, <2>1, <2>2, OthersCommute
<1>3. CASE ~Small
  <2>1. PICK w \in Clients : /\ \A p \in Positions : scenario.owner[p] \in {w, NoSite}
                             /\ \A e \in Clients \ {w} : scenario.touch[e] = {}
    <3>1. OneUserPastes
      BY DEF Orderly
    <3>2. \/ Small
          \/ \E w \in Clients : /\ \A p \in Positions : scenario.owner[p] \in {w, NoSite}
                                /\ \A e \in Clients \ {w} : scenario.touch[e] = {}
      BY <3>1, Zenon DEF OneUserPastes, Small
    <3> QED BY <1>3, <3>2
  <2>2. NoSite \notin Clients
    BY ScenariosAssumption
  <2>3. ASSUME NEW e \in Clients \ {w}, NEW k, From(e, k), 1 \in 1 .. Len(k.symbols), k.symbols[1].pos \in Positions PROVE FALSE
    <3>1. CASE k.type \in Insertions
      <4>1. scenario.owner[k.symbols[1].pos] = e
        BY <2>3, <3>1 DEF From
      <4> QED BY <2>1, <2>2, <2>3, <4>1
    <3>2. CASE k.type \notin Insertions
      <4>1. k.symbols[1].pos \in scenario.touch[e]
        BY <2>3, <3>2 DEF From
      <4> QED BY <2>1, <4>1
    <3> QED BY <3>1, <3>2
  <2> QED BY <1>1, <2>3
<1> QED BY <1>2, <1>3

-----------------------------------------------------------------------------
\* A queue of operations leads from one content to another.
Leads(X, q, Y) ==
  \E f : /\ f[0] = X /\ f[Len(q)] = Y
         /\ \A k \in 1 .. Len(q) : f[k] = Effect(f[k - 1], q[k]) /\ Fits(f[k - 1], q[k])

\* No message, no change.
LEMMA LeadsNowhere == ASSUME NEW X, NEW Y PROVE Leads(X, <<>>, Y) <=> Y = X
<1>1. Y = X => Leads(X, <<>>, Y)
  <2>1. SUFFICES ASSUME Y = X PROVE Leads(X, <<>>, Y)
    OBVIOUS
  <2> DEFINE f == [k \in 0 .. 0 |-> X]
  <2>2. f[0] = X /\ f[Len(<<>>)] = Y /\ 1 .. Len(<<>>) = {}
    BY <2>1
  <2> QED BY <2>2 DEF Leads
<1>2. Leads(X, <<>>, Y) => Y = X
  BY DEF Leads
<1> QED BY <1>1, <1>2

\* The first message of a queue.
LEMMA LeadsFirst ==
  ASSUME NEW X, NEW q \in Seq(MessageType), q # <<>>, NEW Y, Leads(X, q, Y)
  PROVE  Fits(X, Head(q)) /\ Leads(Effect(X, Head(q)), Tail(q), Y)
<1>1. PICK f : /\ f[0] = X /\ f[Len(q)] = Y
               /\ \A k \in 1 .. Len(q) : f[k] = Effect(f[k - 1], q[k]) /\ Fits(f[k - 1], q[k])
  BY DEF Leads
<1>2. Len(q) \in Nat /\ Len(q) > 0 /\ Head(q) = q[1] /\ Len(Tail(q)) = Len(q) - 1 /\ \A k \in 1 .. Len(q) - 1 : Tail(q)[k] = q[k + 1]
  OBVIOUS
<1> DEFINE g == [k \in 0 .. Len(q) - 1 |-> f[k + 1]]
<1>3. f[1] = Effect(f[0], q[1]) /\ Fits(f[0], q[1])
  BY <1>1, <1>2
<1>4. g[0] = f[1] /\ g[Len(Tail(q))] = f[Len(q)]
  BY <1>2
<1>5. ASSUME NEW k \in 1 .. Len(Tail(q)) PROVE g[k] = Effect(g[k - 1], Tail(q)[k]) /\ Fits(g[k - 1], Tail(q)[k])
  <2>1. g[k] = f[k + 1] /\ g[k - 1] = f[k] /\ k + 1 \in 1 .. Len(q) /\ Tail(q)[k] = q[k + 1] /\ (k + 1) - 1 = k
    BY <1>2
  <2> HIDE DEF g
  <2> QED BY <1>1, <2>1
<1> HIDE DEF g
<1>6. Leads(f[1], Tail(q), f[Len(q)])
  BY <1>4, <1>5 DEF Leads
<1> QED BY <1>1, <1>2, <1>3, <1>6

\* One more message at the end of a queue.
LEMMA LeadsLast ==
  ASSUME NEW X, NEW q \in Seq(MessageType), NEW Y, Leads(X, q, Y), NEW m, Fits(Y, m)
  PROVE  Leads(X, Append(q, m), Effect(Y, m))
<1>1. PICK f : /\ f[0] = X /\ f[Len(q)] = Y
               /\ \A k \in 1 .. Len(q) : f[k] = Effect(f[k - 1], q[k]) /\ Fits(f[k - 1], q[k])
  BY DEF Leads
<1>2. m \in MessageType
  BY DEF Fits
<1> DEFINE s == Append(q, m)
           n == Len(q)
           g == [k \in 0 .. n + 1 |-> IF k <= n THEN f[k] ELSE Effect(Y, m)]
<1>3. n \in Nat /\ Len(s) = n + 1 /\ s[n + 1] = m /\ \A k \in 1 .. n : s[k] = q[k]
  BY <1>2
<1>4. g[0] = X /\ g[Len(s)] = Effect(Y, m)
  BY <1>1, <1>3
<1>5. ASSUME NEW k \in 1 .. Len(s) PROVE g[k] = Effect(g[k - 1], s[k]) /\ Fits(g[k - 1], s[k])
  <2>1. CASE k <= n
    <3>1. g[k] = f[k] /\ g[k - 1] = f[k - 1] /\ s[k] = q[k] /\ k \in 1 .. n
      BY <1>3, <2>1
    <3> HIDE DEF g, s
    <3> QED BY <1>1, <3>1
  <2>2. CASE k = n + 1
    <3>1. g[k] = Effect(Y, m) /\ g[k - 1] = Y /\ s[k] = m
      BY <1>1, <1>3, <2>2
    <3> HIDE DEF g, s
    <3> QED BY <3>1
  <2> QED BY <1>3, <2>1, <2>2
<1> HIDE DEF g, s
<1>6. Leads(X, s, Effect(Y, m))
  BY <1>4, <1>5 DEF Leads
<1> QED BY <1>6 DEF s

\* A queue of what other editors sent.
FromOthers(c, q) ==
  q \in Seq(MessageType) /\ \A k \in 1 .. Len(q) : q[k].type \notin Operations \/ \E d \in Clients \ {c} : From(d, q[k])

FromOne(c, q) == q \in Seq(MessageType) /\ \A k \in 1 .. Len(q) : From(c, q[k])

\* A message of a queue.
LEMMA QueueAt == ASSUME NEW q \in Seq(MessageType), NEW k \in 1 .. Len(q) PROVE q[k] \in MessageType
OBVIOUS

\* An operation of an editor commutes with a queue of what others sent.
LEMMA PassesBy ==
  ASSUME scenario \in Scenarios, Orderly, NEW c \in Clients, NEW q, FromOthers(c, q), NEW m, From(c, m),
         NEW X, NEW Y, Leads(X, q, Y), Fits(X, m)
  PROVE  Fits(Y, m) /\ Leads(Effect(X, m), q, Effect(Y, m))
<1>0. Len(q) \in Nat /\ q \in Seq(MessageType)
  BY DEF FromOthers
<1>1. PICK f : /\ f[0] = X /\ f[Len(q)] = Y
               /\ \A k \in 1 .. Len(q) : f[k] = Effect(f[k - 1], q[k]) /\ Fits(f[k - 1], q[k])
  BY DEF Leads
<1> DEFINE g == [k \in 0 .. Len(q) |-> Effect(f[k], m)]
           P(k) == Fits(f[k], m) /\ (k > 0 => Effect(f[k], m) = Effect(Effect(f[k - 1], m), q[k]) /\ Fits(Effect(f[k - 1], m), q[k]))
           Done == {k \in Nat : k <= Len(q) => P(k)}
<1>2. 0 \in Done
  BY <1>1
<1>3. ASSUME NEW k \in 0 .. Len(q) - 1, k \in Done PROVE k + 1 \in Done
  <2>1. k \in Nat /\ k + 1 \in Nat /\ k + 1 \in 1 .. Len(q) /\ (k + 1) - 1 = k /\ Fits(f[k], m)
    BY <1>0, <1>3
  <2>2. f[k + 1] = Effect(f[k], q[k + 1]) /\ Fits(f[k], q[k + 1])
    BY <1>1, <2>1
  <2>3. q[k + 1] \in MessageType
    BY <1>0, <2>1, QueueAt
  <2>4. CASE q[k + 1].type \notin Operations
    <3>1. \A Z : Effect(Z, q[k + 1]) = Z /\ Fits(Z, q[k + 1])
      BY <2>3, <2>4 DEF Effect, Fits
    <3>2. P(k + 1)
      BY <2>1, <2>2, <3>1
    <3> QED BY <2>1, <3>2
  <2>5. CASE \E d \in Clients \ {c} : From(d, q[k + 1])
    <3>1. PICK d \in Clients \ {c} : From(d, q[k + 1])
      BY <2>5
    <3>2. Commute(f[k], m, q[k + 1])
      BY <2>1, <2>2, <3>1, UsersCommute
    <3>3. P(k + 1)
      BY <2>1, <2>2, <3>2 DEF Commute
    <3> QED BY <2>1, <3>3
  <2> QED BY <2>1, <2>4, <2>5 DEF FromOthers
<1> HIDE DEF Done
<1>4. 0 .. Len(q) \subseteq Done
  BY <1>0, <1>2, <1>3, UpTo
<1>5. \A k \in 0 .. Len(q) : P(k)
  BY <1>0, <1>4 DEF Done
<1>6. Fits(Y, m)
  BY <1>0, <1>1, <1>5
<1>7. g[0] = Effect(X, m) /\ g[Len(q)] = Effect(Y, m)
  BY <1>0, <1>1
<1>8. ASSUME NEW k \in 1 .. Len(q) PROVE g[k] = Effect(g[k - 1], q[k]) /\ Fits(g[k - 1], q[k])
  <2>1. k \in 0 .. Len(q) /\ k - 1 \in 0 .. Len(q) /\ k > 0
    BY <1>0
  <2>2. g[k] = Effect(f[k], m) /\ g[k - 1] = Effect(f[k - 1], m)
    BY <2>1
  <2>3. P(k)
    BY <1>5, <2>1
  <2> HIDE DEF g
  <2> QED BY <2>1, <2>2, <2>3
<1> HIDE DEF g
<1>9. Leads(Effect(X, m), q, Effect(Y, m))
  BY <1>7, <1>8 DEF Leads
<1> QED BY <1>6, <1>9

\* One more message of an action.
LEMMA AppendOne == ASSUME NEW q \in Seq(MessageType), NEW s \in Seq(MessageType), NEW m \in MessageType
                   PROVE  q \o Append(s, m) = Append(q \o s, m) /\ q \o s \in Seq(MessageType)
BY AppendLast, Both

\* So do the operations of one action.
LEMMA AllPassBy ==
  ASSUME scenario \in Scenarios, Orderly, NEW c \in Clients, NEW q, FromOthers(c, q), NEW s, FromOne(c, s),
         NEW X, NEW Y, Leads(X, s, Y), NEW Z, Leads(X, q, Z), NEW A, NEW p \in Seq(MessageType), Leads(A, p, Z)
  PROVE  \E W : Leads(A, p \o s, W) /\ Leads(Y, q, W)
<1>0. Len(s) \in Nat /\ s \in Seq(MessageType)
  BY DEF FromOne
<1>1. PICK f : /\ f[0] = X /\ f[Len(s)] = Y
               /\ \A k \in 1 .. Len(s) : f[k] = Effect(f[k - 1], s[k]) /\ Fits(f[k - 1], s[k])
  BY DEF Leads
<1> DEFINE P(k) == \E W : Leads(A, p \o SubSeq(s, 1, k), W) /\ Leads(f[k], q, W)
           Done == {k \in Nat : k <= Len(s) => P(k)}
<1>2. 0 \in Done
  <2>1. SubSeq(s, 1, 0) = <<>> /\ p \o <<>> = p
    BY <1>0
  <2>2. P(0)
    BY <1>1, <2>1
  <2> QED BY <2>2
<1>3. ASSUME NEW k \in 0 .. Len(s) - 1, k \in Done PROVE k + 1 \in Done
  <2>1. k \in Nat /\ k + 1 \in Nat /\ k + 1 \in 1 .. Len(s) /\ (k + 1) - 1 = k /\ P(k) /\ k \in 0 .. Len(s)
    BY <1>0, <1>3
  <2>2. PICK W : Leads(A, p \o SubSeq(s, 1, k), W) /\ Leads(f[k], q, W)
    BY <2>1
  <2> DEFINE m == s[k + 1]
             h == SubSeq(s, 1, k)
  <2>3. f[k + 1] = Effect(f[k], m) /\ Fits(f[k], m) /\ From(c, m)
    BY <1>1, <2>1 DEF FromOne
  <2>4. Fits(W, m) /\ Leads(f[k + 1], q, Effect(W, m))
    BY <2>2, <2>3, PassesBy
  <2>5. SubSeq(s, 1, k + 1) = Append(h, m) /\ m \in MessageType /\ h \in Seq(MessageType)
    <3>1. SubSeq(s, 1, k + 1) = Append(SubSeq(s, 1, (k + 1) - 1), s[k + 1]) /\ s[k + 1] \in MessageType
      BY <1>0, <2>1, CutNext
    <3>2. h \in Seq(MessageType)
      BY <1>0, <2>1, Cut
    <3> QED BY <2>1, <3>1, <3>2
  <2> HIDE DEF m, h
  <2>6. p \o Append(h, m) = Append(p \o h, m) /\ p \o h \in Seq(MessageType)
    BY <2>5, AppendOne
  <2>7. Leads(A, p \o h, W)
    BY <2>2 DEF h
  <2>8. Leads(A, Append(p \o h, m), Effect(W, m))
    BY <2>4, <2>6, <2>7, LeadsLast
  <2>9. Leads(A, p \o SubSeq(s, 1, k + 1), Effect(W, m))
    BY <2>5, <2>6, <2>8
  <2>10. P(k + 1)
    BY <2>4, <2>9
  <2> QED BY <2>1, <2>10
<1> HIDE DEF Done
<1>4. 0 .. Len(s) \subseteq Done
  BY <1>0, <1>2, <1>3, UpTo
<1>5. P(Len(s))
  BY <1>0, <1>4 DEF Done
<1>6. SubSeq(s, 1, Len(s)) = s
  BY <1>0
<1> QED BY <1>1, <1>5, <1>6

\* A queue of operations leads from a document to a document.
LEMMA LeadsDoc == ASSUME NEW X, Doc(X), NEW q, Len(q) \in Nat, NEW Y, Leads(X, q, Y) PROVE Doc(Y)
<1>1. PICK f : /\ f[0] = X /\ f[Len(q)] = Y
               /\ \A k \in 1 .. Len(q) : f[k] = Effect(f[k - 1], q[k]) /\ Fits(f[k - 1], q[k])
  BY DEF Leads
<1> DEFINE Done == {k \in Nat : k <= Len(q) => Doc(f[k])}
<1>2. 0 \in Done
  BY <1>1
<1>3. ASSUME NEW k \in 0 .. Len(q) - 1, k \in Done PROVE k + 1 \in Done
  <2>1. k \in Nat /\ k + 1 \in Nat /\ k + 1 \in 1 .. Len(q) /\ (k + 1) - 1 = k /\ Doc(f[k])
    BY <1>3
  <2>2. f[k + 1] = Effect(f[k], q[k + 1]) /\ Fits(f[k], q[k + 1])
    BY <1>1, <2>1
  <2>3. Doc(f[k + 1])
    BY <2>1, <2>2, EffectDoc
  <2> QED BY <2>1, <2>3
<1> HIDE DEF Done
<1>4. 0 .. Len(q) \subseteq Done
  BY <1>2, <1>3, UpTo
<1>5. Len(q) \in Done
  BY <1>4
<1> QED BY <1>1, <1>5 DEF Done

\* The last symbol of a replica that holds a document is the terminator.
LEMMA LastIsEnd ==
  ASSUME NEW lines, Ordered(lines), Doc(ToSet(Flatten(lines)))
  PROVE  LET F == Flatten(lines)
         IN  /\ F \in Seq(SymbolType) /\ Len(F) \in Nat /\ Len(F) > 0 /\ Sorted(F) /\ Len(F) \in 1 .. Len(F) /\ DOMAIN F = 1 .. Len(F)
             /\ F[Len(F)].pos = End /\ ToSet(F) = {F[k] : k \in 1 .. Len(F)} /\ F[Len(F)].val = NUL
             /\ \A k \in 1 .. Len(F) : F[k].pos \in Int /\ F[k] \in SymbolType
<1> DEFINE F == Flatten(lines)
<1>1. Shape(lines) /\ Sorted(F) /\ Ended(F)
  BY DEF Ordered
<1>2. F \in Seq(SymbolType) /\ Len(F) > 0 /\ Len(F) \in Nat /\ \A k \in 1 .. Len(F) : F[k] \in SymbolType /\ F[k].pos \in Int
  BY <1>1, Keys
<1> HIDE DEF F
<1>3. Len(F) \in 1 .. Len(F) /\ DOMAIN F = 1 .. Len(F)
  BY <1>2
<1>4. ToSet(F) = {F[k] : k \in 1 .. Len(F)}
  BY <1>3 DEF ToSet
<1>5. F[Len(F)].val = NUL /\ F[Len(F)] \in ToSet(F)
  BY <1>1, <1>3, <1>4, Zenon DEF Ended
<1>6. F[Len(F)].pos = End
  BY <1>5 DEF Doc, F
<1> QED BY <1>1, <1>2, <1>3, <1>4, <1>5, <1>6 DEF F

\* What goes into a gap is new.
LEMMA BatchFresh ==
  ASSUME NEW lines, Ordered(lines), Doc(ToSet(Flatten(lines))), NEW o \in 0 .. Len(Flatten(lines)) - 1, NEW T, Batch(Flatten(lines), o, T)
  PROVE  Fresh(ToSet(Flatten(lines)), T)
<1> DEFINE F == Flatten(lines)
           X == ToSet(F)
<1>1. /\ Len(F) \in Nat /\ Sorted(F) /\ Len(F) \in 1 .. Len(F) /\ F[Len(F)].pos = End /\ X = {F[k] : k \in 1 .. Len(F)}
      /\ \A k \in 1 .. Len(F) : F[k].pos \in Int
  BY LastIsEnd
<1> HIDE DEF F
<1>2. o + 1 \in 1 .. Len(F) /\ (o # 0 => o \in 1 .. Len(F)) /\ o \in Nat
  BY <1>1 DEF F
<1>3. T \in Seq(SymbolType) /\ \A k \in 1 .. Len(T) : T[k].pos \in Int
  BY SymbolsAt DEF Batch
<1>4. ASSUME NEW k \in 1 .. Len(T) PROVE T[k].pos < F[o + 1].pos /\ (o = 0 \/ F[o].pos < T[k].pos) /\ T[k].val # NUL
  BY DEF Batch, Gap, F
<1>5. ASSUME NEW a \in 1 .. Len(F), NEW k \in 1 .. Len(T)
      PROVE  (a <= o /\ F[a].pos < T[k].pos) \/ (a > o /\ T[k].pos < F[a].pos)
  <2>1. CASE a <= o
    <3>1. o # 0 /\ o \in 1 .. Len(F)
      BY <1>2, <2>1
    <3>2. F[a].pos <= F[o].pos
      <4>1. CASE a = o
        BY <1>1, <3>1, <4>1
      <4>2. CASE a < o
        BY <1>1, <3>1, <4>2 DEF Sorted
      <4> QED BY <1>2, <2>1, <4>1, <4>2
    <3>3. F[o].pos < T[k].pos
      BY <1>4, <3>1
    <3> QED BY <1>1, <1>3, <2>1, <3>1, <3>2, <3>3
  <2>2. CASE a > o
    <3>1. F[o + 1].pos <= F[a].pos
      <4>1. CASE a = o + 1
        BY <1>1, <1>2, <4>1
      <4>2. CASE o + 1 < a
        BY <1>1, <1>2, <4>2 DEF Sorted
      <4> QED BY <1>2, <2>2, <4>1, <4>2
    <3>2. T[k].pos < F[o + 1].pos
      BY <1>4
    <3> QED BY <1>1, <1>2, <1>3, <2>2, <3>1, <3>2
  <2> QED BY <1>2, <2>1, <2>2
<1>6. Solid(X, T)
  <2>1. SUFFICES ASSUME NEW s \in X, NEW i \in 1 .. Len(T), NEW j \in 1 .. Len(T), T[i].pos < s.pos, s.pos < T[j].pos PROVE FALSE
    BY DEF Solid
  <2>2. PICK a \in 1 .. Len(F) : s = F[a]
    BY <1>1
  <2>3. F[a].pos \in Int /\ T[i].pos \in Int /\ T[j].pos \in Int
    BY <1>1, <1>3
  <2>4. ~(F[a].pos < T[i].pos) /\ ~(T[j].pos < F[a].pos)
    BY <2>1, <2>2, <2>3
  <2>5. a > o /\ a <= o
    BY <1>5, <2>4
  <2> QED BY <1>2, <2>5
<1>7. ASSUME NEW k \in 1 .. Len(T) PROVE T[k].pos \notin Pos(X) /\ T[k].pos < End /\ T[k].val # NUL
  <2>1. T[k].pos \notin Pos(X)
    <3>1. SUFFICES ASSUME NEW s \in X, s.pos = T[k].pos PROVE FALSE
      BY DEF Pos
    <3>2. PICK a \in 1 .. Len(F) : s = F[a]
      BY <1>1
    <3> QED BY <1>1, <1>3, <1>5, <3>1, <3>2
  <2>2. T[k].pos < End
    <3>1. (Len(F) <= o /\ F[Len(F)].pos < T[k].pos) \/ (Len(F) > o /\ T[k].pos < F[Len(F)].pos)
      BY <1>1, <1>5
    <3> QED BY <1>1, <1>2, <3>1
  <2> QED BY <1>4, <2>1, <2>2
<1>8. Fresh(X, T)
  BY <1>6, <1>7 DEF Fresh
<1> QED BY <1>8 DEF F

\* A cut is a run of symbols that are there.
LEMMA CutThere ==
  ASSUME NEW lines, Ordered(lines), Doc(ToSet(Flatten(lines))), NEW o \in Nat, NEW n \in Nat, o + n < Len(Flatten(lines)),
         NEW T, CutOff(Flatten(lines), o, n, T)
  PROVE  There(ToSet(Flatten(lines)), T) /\ Sorted(T)
<1> DEFINE F == Flatten(lines)
           X == ToSet(F)
<1>1. /\ Len(F) \in Nat /\ Sorted(F) /\ X = {F[k] : k \in 1 .. Len(F)}
      /\ (\A k \in 1 .. Len(F) : F[k].pos \in Int) /\ o + n < Len(F)
  BY LastIsEnd
<1>0. Ended(F)
  BY DEF Ordered
<1>2. T \in Seq(SymbolType) /\ Len(T) = n /\ \A k \in 1 .. n : T[k] = F[o + k]
  BY DEF CutOff
<1> HIDE DEF F
<1>3. \A k \in 1 .. n : o + k \in 1 .. Len(F) /\ o + k # Len(F) /\ \A a \in 1 .. Len(F) : (o + k < a <=> a - o > k) /\ (a < o + k <=> a - o < k)
  BY <1>1
<1>4. Sorted(T)
  <2>1. ASSUME NEW i \in 1 .. n, NEW j \in 1 .. n, i < j PROVE T[i].pos < T[j].pos
    <3>1. o + i < o + j
      BY <2>1
    <3> QED BY <1>1, <1>2, <1>3, <3>1 DEF Sorted
  <2> QED BY <1>2, <2>1 DEF Sorted
<1>5. \A k \in 1 .. n : T[k] \in X /\ T[k].val # NUL
  BY <1>0, <1>1, <1>2, <1>3 DEF Ended
<1>6. Solid(X, T)
  <2>1. SUFFICES ASSUME NEW s \in X, NEW i \in 1 .. n, NEW j \in 1 .. n, T[i].pos < s.pos, s.pos < T[j].pos PROVE s.pos \in PositionsOf(T)
    BY <1>2 DEF Solid
  <2>2. PICK a \in 1 .. Len(F) : s = F[a]
    BY <1>1
  <2>3. o + i \in 1 .. Len(F) /\ o + j \in 1 .. Len(F) /\ T[i] = F[o + i] /\ T[j] = F[o + j]
    BY <1>2, <1>3
  <2>4. o + i < a
    <3>1. SUFFICES ASSUME a <= o + i PROVE FALSE
      BY <2>3
    <3>2. F[a].pos <= F[o + i].pos
      <4>1. CASE a = o + i
        BY <1>1, <2>3, <4>1
      <4>2. CASE a < o + i
        BY <1>1, <2>3, <4>2 DEF Sorted
      <4> QED BY <2>3, <3>1, <4>1, <4>2
    <3> QED BY <1>1, <2>1, <2>2, <2>3, <3>2
  <2>5. a < o + j
    <3>1. SUFFICES ASSUME o + j <= a PROVE FALSE
      BY <2>3
    <3>2. F[o + j].pos <= F[a].pos
      <4>1. CASE a = o + j
        BY <1>1, <2>3, <4>1
      <4>2. CASE o + j < a
        BY <1>1, <2>3, <4>2 DEF Sorted
      <4> QED BY <2>3, <3>1, <4>1, <4>2
    <3> QED BY <1>1, <2>1, <2>2, <2>3, <3>2
  <2>6. a - o \in 1 .. n /\ o + (a - o) = a
    BY <2>4, <2>5
  <2>7. s = T[a - o] /\ DOMAIN T = 1 .. n
    BY <1>2, <2>2, <2>6
  <2> QED BY <2>6, <2>7 DEF PositionsOf
<1>7. There(X, T) /\ Sorted(T)
  BY <1>2, <1>4, <1>5, <1>6 DEF There
<1> QED BY <1>7 DEF F

-----------------------------------------------------------------------------
\* What the user types gets positions of this site between the neighbours.
NewSymbols(c, F, o, n, vals, T) ==
  /\ Batch(F, o, T) /\ Len(T) = n
  /\ \A k \in 1 .. n : vals[k] = T[k].val /\ scenario.owner[T[k].pos] = c

\* The fields of a scenario.
LEMMA ScenarioTypes ==
  ASSUME scenario \in Scenarios
  PROVE  /\ scenario.formats \subseteq Formats /\ scenario.aligns \subseteq Aligns /\ scenario.group \in Nat /\ scenario.ops \in Nat
         /\ scenario.noted \subseteq BOOLEAN /\ scenario.present \subseteq Clients
         /\ \A c \in Clients : scenario.touch[c] \subseteq Positions /\ scenario.kinds[c] \subseteq Kinds
<1>1. scenario \in [present : SUBSET Clients, owner : [Positions -> Clients \cup {NoSite}],
                    touch : [Clients -> SUBSET Positions], kinds : [Clients -> SUBSET Kinds],
                    noted : SUBSET BOOLEAN, formats : SUBSET Formats, aligns : SUBSET Aligns, ops : Nat, group : Nat]
  BY ScenariosAssumption
<1> QED BY <1>1

\* A symbol that a user types.
LEMMA SymbolMade ==
  ASSUME NEW p \in Positions, NEW v \in Values, NEW fmt \in Formats, NEW align \in Aligns
  PROVE  LET s == Symbol(p, v, fmt, align) IN s \in SymbolType /\ s.pos = p /\ s.val = v /\ s.val # NUL
BY ValuesAssumption DEF Symbol, SymbolType

Made(S, n, vals, fmt, align) == [k \in 1 .. n |-> Symbol(Ascending(S)[k], vals[k], fmt, align)]
\* The symbols that a user types are a batch of the gap at the cursor.
LEMMA Typed ==
  ASSUME scenario \in Scenarios, NEW c, NEW lines, Ordered(lines), NEW l, NEW i, NEW o, AtPlace(lines, Place(l, i), o),
         NEW n \in Nat, NEW S \in kSubset(n, Between(c, lines, l, i)), NEW vals \in [1 .. n -> Values],
         NEW fmt \in scenario.formats, NEW align \in scenario.aligns
  PROVE  NewSymbols(c, Flatten(lines), o, n, vals, Made(S, n, vals, fmt, align))
<1> DEFINE Q == Ascending(S)
           P == Between(c, lines, l, i)
           T == [k \in 1 .. n |-> Symbol(Q[k], vals[k], fmt, align)]
<1>1. P \in SUBSET Positions
  BY DEF Between
<1>2. Len(Q) = n /\ (\A k \in 1 .. n : Q[k] \in P) /\ \A a, b \in 1 .. n : a < b => Q[a] < Q[b]
  BY <1>1, AscendingPositions, Zenon
<1>3. fmt \in Formats /\ align \in Aligns
  BY ScenarioTypes
<1> HIDE DEF Q, P
<1>4. ASSUME NEW k \in 1 .. n PROVE T[k] \in SymbolType /\ T[k].pos = Q[k] /\ T[k].val = vals[k] /\ T[k].val # NUL
  <2>1. Q[k] \in Positions /\ vals[k] \in Values
    BY <1>1, <1>2
  <2> QED BY <1>3, <2>1, SymbolMade
<1>5. T = [k \in 1 .. n |-> T[k]]
  OBVIOUS
<1> HIDE DEF T
<1>6. T \in Seq(SymbolType) /\ Len(T) = n
  <2>1. \A k \in 1 .. n : T[k] \in SymbolType
    BY <1>4
  <2> DEFINE t(k) == T[k]
  <2>2. T = [k \in 1 .. n |-> t(k)] /\ \A k \in 1 .. n : t(k) \in SymbolType
    BY <1>5, <2>1
  <2> HIDE DEF t
  <2> QED BY <2>2
<1>7. ASSUME NEW k \in 1 .. n PROVE Gap(Flatten(lines), o, T[k].pos) /\ scenario.owner[T[k].pos] = c
  <2>1. Q[k] \in P /\ T[k].pos = Q[k]
    BY <1>2, <1>4
  <2>2. Q[k] \in Positions /\ scenario.owner[Q[k]] = c /\ findPosBefore(lines, l, i) < Q[k] /\ Q[k] < findPosAfter(lines, l, i)
    BY <2>1 DEF P, Between
  <2> QED BY <2>1, <2>2, GapAround
<1>8. Sorted(T)
  BY <1>2, <1>4, <1>6 DEF Sorted
<1>9. Batch(Flatten(lines), o, T)
  BY <1>4, <1>6, <1>7, <1>8 DEF Batch
<1>10. NewSymbols(c, Flatten(lines), o, n, vals, T)
  BY <1>4, <1>6, <1>7, <1>9 DEF NewSymbols
<1> QED BY <1>10 DEF T, Q, Made

\* What is sent about it.
LEMMA InsertSent ==
  ASSUME NEW lines, Ordered(lines), Doc(ToSet(Flatten(lines))), NEW c, NEW o \in 0 .. Len(Flatten(lines)) - 1, scenario \in Scenarios,
         NEW n \in 1 .. scenario.group, NEW vals, NEW T, NewSymbols(c, Flatten(lines), o, n, vals, T)
  PROVE  LET m == Message(IF n = 1 THEN "INSERT_SYMBOL" ELSE "PASTE", T)
             X == ToSet(Flatten(lines))
         IN  From(c, m) /\ Fits(X, m) /\ Effect(X, m) = X \cup ToSet(T)
<1> DEFINE type == IF n = 1 THEN "INSERT_SYMBOL" ELSE "PASTE"
           m == Message(type, T)
           X == ToSet(Flatten(lines))
<1>1. Batch(Flatten(lines), o, T) /\ Len(T) = n /\ \A k \in 1 .. n : scenario.owner[T[k].pos] = c
  BY DEF NewSymbols
<1>2. T \in Seq(SymbolType) /\ Sorted(T) /\ Fresh(X, T)
  BY <1>1, BatchFresh DEF Batch
<1>3. type \in Insertions /\ type \in Operations /\ type # "DELETE_SYMBOL" /\ type # "CHANGE" /\ type # "ALIGN" /\ (type = "INSERT_SYMBOL" => n = 1)
  BY DEF Insertions, Operations
<1> HIDE DEF type, X
<1>4. m.type = type /\ m.symbols = T /\ m \in MessageType
  BY <1>2, <1>3 DEF Message, MessageType
<1>5. n > 0 /\ (scenario.group <= 1 => n = 1)
  BY ScenarioTypes
<1> HIDE DEF m
<1>6. From(c, m)
  BY <1>1, <1>3, <1>4, <1>5 DEF From
<1>7. Fits(X, m)
  BY <1>1, <1>2, <1>3, <1>4, <1>5 DEF Fits
<1>8. Effect(X, m) = X \cup ToSet(T)
  BY <1>2, <1>3, <1>4, FreshAdds DEF Effect
<1> QED BY <1>6, <1>7, <1>8 DEF m, type, X

\* The message that follows a deletion.
LEMMA DeleteSent ==
  ASSUME NEW lines, Ordered(lines), Doc(ToSet(Flatten(lines))), NEW c, NEW o \in Nat, scenario \in Scenarios,
         NEW n \in 1 .. scenario.group, o + n < Len(Flatten(lines)), NEW T, CutOff(Flatten(lines), o, n, T),
         NobodyOpens, {T[k].pos : k \in DOMAIN T} \subseteq scenario.touch[c]
  PROVE  LET m == Message("DELETE_SYMBOL", T)
             X == ToSet(Flatten(lines))
         IN  From(c, m) /\ Fits(X, m) /\ Effect(X, m) = Without(X, T)
<1> DEFINE m == Message("DELETE_SYMBOL", T)
           X == ToSet(Flatten(lines))
<1>0. n \in Nat /\ n > 0 /\ (scenario.group <= 1 => n = 1)
  BY ScenarioTypes
<1>1. T \in Seq(SymbolType) /\ Len(T) = n /\ There(X, T) /\ Sorted(T)
  BY <1>0, CutThere DEF CutOff
<1> HIDE DEF X
<1>2. m.type = "DELETE_SYMBOL" /\ m.symbols = T /\ m \in MessageType /\ m.type \in Operations /\ m.type \notin Insertions
  BY <1>1 DEF Message, MessageType, Operations, Insertions
<1>3. \A k \in 1 .. Len(T) : T[k].pos \in scenario.touch[c]
  BY <1>1
<1> HIDE DEF m
<1>4. From(c, m)
  BY <1>0, <1>1, <1>2, <1>3 DEF From
<1>5. Fits(X, m)
  BY <1>0, <1>1, <1>2 DEF Fits
<1>6. Effect(X, m) = Without(X, T)
  BY <1>2 DEF Effect
<1> QED BY <1>4, <1>5, <1>6 DEF m, X

\* One message.
LEMMA LeadsOne == ASSUME NEW X, NEW m, Fits(X, m) PROVE Leads(X, <<m>>, Effect(X, m))
<1>1. Leads(X, <<>>, X) /\ <<>> \in Seq(MessageType) /\ m \in MessageType
  BY LeadsNowhere DEF Fits
<1>2. Leads(X, Append(<<>>, m), Effect(X, m))
  BY <1>1, LeadsLast
<1>3. Append(<<>>, m) = <<m>>
  BY <1>1
<1> QED BY <1>2, <1>3

\* Two messages.
LEMMA LeadsTwo == ASSUME NEW X, NEW m, Fits(X, m), NEW n, Fits(Effect(X, m), n) PROVE Leads(X, <<m, n>>, Effect(Effect(X, m), n))
<1>1. Leads(X, <<m>>, Effect(X, m)) /\ m \in MessageType /\ n \in MessageType
  BY LeadsOne DEF Fits
<1> HIDE DEF MessageType
<1>q. <<m>> \in Seq(MessageType)
  BY <1>1
<1>2. Leads(X, Append(<<m>>, n), Effect(Effect(X, m), n))
  BY <1>1, <1>q, LeadsLast
<1>3. Append(<<m>>, n) = <<m, n>>
  <2> DEFINE s == Append(<<m>>, n)
             t == <<m, n>>
  <2>0. Len(<<m>>) = 1 /\ <<m>>[1] = m
    OBVIOUS
  <2>1. s \in Seq(MessageType) /\ Len(s) = Len(<<m>>) + 1 /\ s[Len(<<m>>) + 1] = n /\ \A k \in 1 .. Len(<<m>>) : s[k] = <<m>>[k]
    BY <1>1, <1>q, OneMore
  <2>2. t \in Seq(MessageType) /\ Len(t) = 2 /\ t[1] = m /\ t[2] = n
    BY <1>1
  <2> HIDE DEF s, t
  <2>3. Len(s) = 2 /\ s[1] = m /\ s[2] = n
    BY <2>0, <2>1
  <2>4. s = t
    BY <2>1, <2>2, <2>3, Same
  <2> QED BY <2>4 DEF s, t
<1> QED BY <1>2, <1>3

\* What an action of user c makes of its replica: it is in order again, and the
\* messages sent say what changed.
Tells(c, r, q, s) ==
  Good(q) /\ FromOne(c, s) /\ Leads(ToSet(Flatten(r.symbols)), s, ToSet(Flatten(q.symbols)))
UserDoes(c) ==
  \E q, s : Tells(c, rep[c], q, s) /\ rep' = [rep EXCEPT ![c] = q] /\ up' = [up EXCEPT ![c] = @ \o s]

\* A replica in order: the lengths of its text and symbols.
LEMMA Lengths ==
  ASSUME NEW r, Good(r)
  PROVE  LET F == Flatten(r.symbols)
         IN  /\ F \in Seq(SymbolType) /\ Len(F) \in Nat /\ Len(F) > 0 /\ r.text \in Seq(STRING) /\ Len(r.text) \in Nat
             /\ Len(r.text) = Len(F) - 1 /\ r.size = Len(r.text) /\ Follows(r.text, F)
             /\ Shape(r.symbols) /\ Ordered(r.symbols) /\ r.state = "running" /\ r \in Replica
<1> DEFINE F == Flatten(r.symbols)
<1>1. Shape(r.symbols) /\ Ordered(r.symbols) /\ r.state = "running" /\ r \in Replica /\ r.size = Len(F) - 1 /\ Follows(r.text, F)
  BY DEF Good, Ordered
<1>2. F \in Seq(SymbolType) /\ Len(F) \in Nat /\ Len(F) > 0
  BY <1>1, Keys
<1> HIDE DEF F
<1>3. r.text \in Seq(STRING) /\ Len(r.text) = Len(F) - 1 /\ Len(r.text) \in Nat
  BY <1>1, <1>2 DEF Follows
<1> QED BY <1>1, <1>2, <1>3 DEF F

\* A change of the user's that leaves a text as long as it makes it is no remote
\* one.
LEMMA NotRemote ==
  ASSUME NEW before, NEW after, Len(before) \in Nat, Len(after) \in Nat
  PROVE  ~IsRemoteChange(before, after, Len(before))
BY DEF IsRemoteChange

\* The message that follows typing.
LEMMA TellsOne ==
  ASSUME NEW c, NEW r, NEW q, Good(q), NEW m, From(c, m), Fits(ToSet(Flatten(r.symbols)), m),
         ToSet(Flatten(q.symbols)) = Effect(ToSet(Flatten(r.symbols)), m)
  PROVE  Tells(c, r, q, <<m>>)
<1>1. Leads(ToSet(Flatten(r.symbols)), <<m>>, ToSet(Flatten(q.symbols)))
  BY LeadsOne
<1>2. m \in MessageType
  BY DEF From
<1>3. FromOne(c, <<m>>)
  <2>1. <<m>> \in Seq(MessageType) /\ Len(<<m>>) = 1 /\ <<m>>[1] = m
    BY <1>2
  <2> QED BY <2>1 DEF FromOne
<1> QED BY <1>1, <1>3 DEF Tells

\* What a user types is a text.
LEMMA ValuesTyped ==
  ASSUME NEW n \in Nat, NEW vals \in [1 .. n -> Values]
  PROVE  vals \in Seq(STRING) /\ Len(vals) = n
<1>1. vals \in [1 .. n -> STRING]
  BY ValuesAssumption, Zenon
<1> QED BY <1>1

\* Typing: the new symbols are in the replica, and go to the others.
LEMMA Inserting ==
  ASSUME scenario \in Scenarios, NEW c \in Clients, Good(rep[c]), Doc(ToSet(Flatten(rep[c].symbols))), UserInserts(c)
  PROVE  UserDoes(c)
<1> DEFINE r == rep[c]
           F == Flatten(r.symbols)
           New(o, vals) == SubSeq(r.text, 1, o) \o vals \o SubSeq(r.text, o + 1, Len(r.text))
           Step(o, n, vals, fmt, align) ==
             LET text == New(o, vals)
                 l == BlockNumber(text, o)
                 i == PositionInBlock(text, o)
                 typed == [r EXCEPT !.text = text]
             IN  IF IsRemoteChange(r.text, text, r.size)
                 THEN rep' = [rep EXCEPT ![c] = typed] /\ UNCHANGED up
                 ELSE IF ~CanInsert(r.symbols, Place(l, i))
                 THEN rep' = [rep EXCEPT ![c] = Abort(r)] /\ UNCHANGED up
                 ELSE \E S \in kSubset(n, Between(c, r.symbols, l, i)) :
                   LET symbols == Made(S, n, vals, fmt, align)
                   IN  /\ rep' = [rep EXCEPT ![c] = localInsertGroup(typed, l, i, symbols)]
                       /\ Send(c, <<Message(IF n = 1 THEN "INSERT_SYMBOL" ELSE "PASTE", symbols)>>)
<1>1. PICK o \in 0 .. Len(r.text), n \in 1 .. scenario.group :
        \E vals \in [1 .. n -> Values], fmt \in scenario.formats, align \in scenario.aligns : Step(o, n, vals, fmt, align)
  BY DEF UserInserts, Made
<1>2. PICK vals \in [1 .. n -> Values], fmt \in scenario.formats, align \in scenario.aligns : Step(o, n, vals, fmt, align)
  BY <1>1
<1> DEFINE text == New(o, vals)
           l == BlockNumber(text, o)
           i == PositionInBlock(text, o)
           typed == [r EXCEPT !.text = text]
<1>3. /\ F \in Seq(SymbolType) /\ Len(F) \in Nat /\ Len(F) > 0 /\ r.text \in Seq(STRING) /\ Len(r.text) \in Nat
      /\ Len(r.text) = Len(F) - 1 /\ r.size = Len(r.text) /\ Follows(r.text, F) /\ Ordered(r.symbols) /\ Shape(r.symbols)
  BY Lengths
<1>4. n \in Nat /\ n > 0 /\ o \in Nat /\ o \in 0 .. Len(F) - 1
  BY <1>3, ScenarioTypes
<1>5. vals \in Seq(STRING) /\ Len(vals) = n
  BY <1>4, ValuesTyped
<1>6. text \in Seq(STRING) /\ GrownBy(r.text, o, vals, text)
  BY <1>3, <1>5, PutIn
<1>7. Step(o, n, vals, fmt, align)
  BY <1>2
<1> HIDE DEF text
<1>8. Len(text) = Len(r.text) + n /\ Len(text) \in Nat /\ \A k \in 1 .. o : text[k] = r.text[k]
  BY <1>3, <1>4, <1>5, <1>6 DEF GrownBy
<1>a. o <= Len(text)
  BY <1>3, <1>4, <1>8
<1>9. AtPlace(r.symbols, Place(l, i), o)
  BY <1>4, <1>6, <1>8, <1>a, CursorPlace
<1> HIDE DEF l, i
<1>10. CanInsert(r.symbols, Place(l, i))
  BY <1>3, <1>9, PlaceAccepts DEF Place
<1>11. ~IsRemoteChange(r.text, text, r.size)
  BY <1>3, <1>8, NotRemote
<1>12. PICK S \in kSubset(n, Between(c, r.symbols, l, i)) :
          /\ rep' = [rep EXCEPT ![c] = localInsertGroup(typed, l, i, Made(S, n, vals, fmt, align))]
          /\ Send(c, <<Message(IF n = 1 THEN "INSERT_SYMBOL" ELSE "PASTE", Made(S, n, vals, fmt, align))>>)
  BY <1>7, <1>10, <1>11, Zenon DEF text, l, i
<1> DEFINE T == Made(S, n, vals, fmt, align)
           q == localInsertGroup(typed, l, i, T)
           m == Message(IF n = 1 THEN "INSERT_SYMBOL" ELSE "PASTE", T)
<1>13. NewSymbols(c, F, o, n, vals, T)
  <2>1. Ordered(r.symbols) /\ n \in Nat /\ AtPlace(r.symbols, Place(l, i), o)
    BY <1>3, <1>4, <1>9
  <2> QED BY <2>1, Typed
<1>14. rep' = [rep EXCEPT ![c] = q] /\ up' = [up EXCEPT ![c] = @ \o <<m>>]
  BY <1>12 DEF Send
<1>15. Typing(typed) /\ typed.text = text /\ typed.symbols = r.symbols
  BY <1>6, TypingText
<1> HIDE DEF T, typed
<1>16. Batch(F, o, T) /\ Len(T) = n /\ \A k \in 1 .. Len(T) : vals[k] = T[k].val
  BY <1>13 DEF NewSymbols
<1>17. Holds(q, ToSet(F) \cup ToSet(T))
  BY <1>3, <1>4, <1>5, <1>6, <1>9, <1>15, <1>16, TypedAt
<1> HIDE DEF q
<1>18. From(c, m) /\ Fits(ToSet(F), m) /\ Effect(ToSet(F), m) = ToSet(F) \cup ToSet(T)
  BY <1>3, <1>4, <1>13, InsertSent
<1> HIDE DEF m
<1>19. Tells(c, r, q, <<m>>)
  BY <1>17, <1>18, TellsOne DEF Holds
<1> QED BY <1>14, <1>19, Zenon DEF UserDoes

-----------------------------------------------------------------------------
\* Who may erase, replace, format or align shares with nobody who opens the
\* document.
LEMMA NoneOpens ==
  ASSUME Orderly, NEW c \in Clients, NEW kind \in {"erase", "replace", "format", "align"}, kind \in scenario.kinds[c]
  PROVE  NobodyOpens
<1>1. kind \notin {"insert", "open", "close"}
  OBVIOUS
<1> QED BY <1>1 DEF Orderly

\* A replica in order again once its text follows its symbols.
LEMMA TypingGood ==
  ASSUME NEW q, Typing(q), Follows(q.text, Flatten(q.symbols))
  PROVE  Good(q)
BY DEF Typing, Good

\* Deleting: the symbols are gone from the replica, and the others hear of it.
LEMMA Erasing ==
  ASSUME scenario \in Scenarios, Orderly, NEW c \in Clients, Good(rep[c]), Doc(ToSet(Flatten(rep[c].symbols))), UserErases(c)
  PROVE  UserDoes(c)
<1> DEFINE r == rep[c]
           F == Flatten(r.symbols)
           New(o, n) == SubSeq(r.text, 1, o) \o SubSeq(r.text, o + n + 1, Len(r.text))
           Step(o, n) ==
             LET text == New(o, n)
                 l == BlockNumber(r.text, o)
                 i == PositionInBlock(r.text, o)
                 gone == LocalErased(r, l, i, n).gone
                 typed == [r EXCEPT !.text = text]
             IN  /\ {gone[k].pos : k \in DOMAIN gone} \subseteq scenario.touch[c]
                 /\ IF IsRemoteChange(r.text, text, r.size)
                    THEN rep' = [rep EXCEPT ![c] = typed] /\ UNCHANGED up
                    ELSE /\ rep' = [rep EXCEPT ![c] = localErase(typed, l, i, n)]
                         /\ Send(c, IF Len(gone) < n THEN <<>> ELSE <<Message("DELETE_SYMBOL", gone)>>)
<1>1. PICK n \in 1 .. scenario.group : \E o \in 0 .. Len(r.text) - n : Step(o, n)
  BY DEF UserErases
<1>2. PICK o \in 0 .. Len(r.text) - n : Step(o, n)
  BY <1>1
<1>k. NobodyOpens
  BY NoneOpens DEF UserErases, UserActs
<1> DEFINE text == New(o, n)
           l == BlockNumber(r.text, o)
           i == PositionInBlock(r.text, o)
           typed == [r EXCEPT !.text = text]
           gone == LocalErased(r, l, i, n).gone
           q == localErase(typed, l, i, n)
           m == Message("DELETE_SYMBOL", gone)
<1>3. /\ F \in Seq(SymbolType) /\ Len(F) \in Nat /\ Len(F) > 0 /\ r.text \in Seq(STRING) /\ Len(r.text) \in Nat
      /\ Len(r.text) = Len(F) - 1 /\ r.size = Len(r.text) /\ Follows(r.text, F) /\ Ordered(r.symbols) /\ Shape(r.symbols)
  BY Lengths
<1>4. n \in Nat /\ n > 0 /\ o \in Nat /\ o + n <= Len(r.text) /\ o + n < Len(F) /\ o \in 0 .. Len(r.text) /\ o <= Len(r.text)
  BY <1>3, ScenarioTypes
<1>6. text \in Seq(STRING) /\ ShrunkBy(r.text, o, n, text)
  BY <1>3, <1>4, TakenOut
<1>7. Step(o, n)
  BY <1>2, Zenon
<1> HIDE DEF text
<1>8. Len(text) = Len(r.text) - n /\ Len(text) \in Nat
  BY <1>3, <1>4, <1>6 DEF ShrunkBy
<1>9. AtPlace(r.symbols, Place(l, i), o)
  BY <1>3, <1>4, CursorPlace
<1>10. ~IsRemoteChange(r.text, text, r.size)
  BY <1>3, <1>8, NotRemote
<1> HIDE DEF l, i
<1>11. Typing(typed) /\ typed.text = text /\ typed.symbols = r.symbols
  BY <1>6, TypingText
<1>12. /\ {gone[k].pos : k \in DOMAIN gone} \subseteq scenario.touch[c]
       /\ rep' = [rep EXCEPT ![c] = q] /\ Send(c, IF Len(gone) < n THEN <<>> ELSE <<m>>)
  BY <1>7, <1>10 DEF text, l, i
<1> HIDE DEF typed
<1>13. Trimmed(typed, l, i, o, n, q, LocalErased(typed, l, i, n).gone)
  BY <1>4, <1>9, <1>11, DeletedAt
<1>14. LocalErased(typed, l, i, n).gone = gone
  BY <1>11 DEF LocalErased
<1> HIDE DEF q, gone
<1>15. /\ Typing(q) /\ q.text = text /\ ShrunkBy(F, o, n, Flatten(q.symbols)) /\ CutOff(F, o, n, gone)
       /\ ToSet(Flatten(q.symbols)) = Without(ToSet(F), gone)
  BY <1>11, <1>13, <1>14 DEF Trimmed
<1>16. Flatten(q.symbols) \in Seq(SymbolType)
  BY <1>15, ShapeFlat DEF Typing, Ordered
<1>17. Good(q)
  <2>1. Follows(text, Flatten(q.symbols))
    BY <1>3, <1>4, <1>6, <1>15, <1>16, FollowsShrunk
  <2> QED BY <1>15, <2>1, TypingGood
<1>18. From(c, m) /\ Fits(ToSet(F), m) /\ Effect(ToSet(F), m) = Without(ToSet(F), gone)
  BY <1>3, <1>4, <1>k, <1>12, <1>15, DeleteSent
<1>19. up' = [up EXCEPT ![c] = @ \o <<m>>]
  <2>1. Len(gone) = n
    BY <1>15 DEF CutOff
  <2>2. ~(Len(gone) < n)
    BY <1>4, <2>1
  <2> HIDE DEF m
  <2>3. Send(c, <<m>>)
    BY <1>12, <2>2, Zenon
  <2> QED BY <2>3 DEF Send
<1> HIDE DEF m
<1>20. Tells(c, r, q, <<m>>)
  BY <1>15, <1>17, <1>18, TellsOne
<1> QED BY <1>12, <1>19, <1>20 DEF UserDoes

Twofold(T, a, b, c) ==
  /\ c \in Seq(T) /\ Len(c) = Len(a) + Len(b)
  /\ \A k \in 1 .. Len(a) : c[k] = a[k]
  /\ \A k \in 1 .. Len(b) : c[Len(a) + k] = b[k]
\* Two sequences, one after the other, as one fact.
LEMMA TwoParts == ASSUME NEW T, NEW a \in Seq(T), NEW b \in Seq(T) PROVE Twofold(T, a, b, a \o b)
BY Both DEF Twofold

\* A text with a part taken out, and with another put in its place.
LessPart(F, o, m) == SubSeq(F, 1, o) \o SubSeq(F, o + m + 1, Len(F))
WithPart(F, o, m, S) == SubSeq(F, 1, o) \o S \o SubSeq(F, o + m + 1, Len(F))
\* The text without the selection, and with what replaces it.
LEMMA PartReplaced ==
  ASSUME NEW T, NEW F \in Seq(T), NEW o \in Nat, NEW m \in Nat, o + m <= Len(F), NEW S \in Seq(T)
  PROVE  LET B == LessPart(F, o, m)
             G == WithPart(F, o, m, S)
         IN  /\ B \in Seq(T) /\ G \in Seq(T) /\ ShrunkBy(F, o, m, B) /\ GrownBy(B, o, S, G) /\ Len(G) \in Nat
<1> DEFINE P == SubSeq(F, 1, o)
           R == SubSeq(F, o + m + 1, Len(F))
           B == LessPart(F, o, m)
           G == WithPart(F, o, m, S)
<1>1. B \in Seq(T) /\ ShrunkBy(F, o, m, B)
  BY TakenOut DEF LessPart
<1>2. P \in Seq(T) /\ Len(P) = o
  <2>1. o \in 0 .. Len(F)
    OBVIOUS
  <2> QED BY <2>1, Cut
<1>3. R \in Seq(T)
  <2>1. o + m \in 0 .. Len(F)
    OBVIOUS
  <2> QED BY <2>1, Cut
<1>4. Threefold(T, P, S, R)
  BY <1>2, <1>3, ThreeParts
<1>b. Twofold(T, P, R, B)
  BY <1>2, <1>3, TwoParts, Zenon DEF LessPart
<1>g. G = P \o S \o R
  BY DEF WithPart
<1> HIDE DEF P, R, B, G
<1>5. /\ G \in Seq(T) /\ Len(G) = o + Len(S) + Len(R)
      /\ \A k \in 1 .. o : G[k] = P[k]
      /\ \A k \in 1 .. Len(S) : G[o + k] = S[k]
      /\ \A j \in 1 .. Len(R) : G[o + Len(S) + j] = R[j]
  BY <1>2, <1>3, <1>4, <1>g, Regroup DEF Threefold
<1>6. /\ Len(B) = o + Len(R)
      /\ \A k \in 1 .. o : B[k] = P[k]
      /\ \A k \in 1 .. Len(R) : B[o + k] = R[k]
  BY <1>2, <1>b DEF Twofold
<1>7. Len(R) \in Nat /\ Len(S) \in Nat
  BY <1>3
<1>8. GrownBy(B, o, S, G)
  <2>1. Len(G) = Len(B) + Len(S)
    BY <1>5, <1>6, <1>7
  <2>2. \A k \in 1 .. o : G[k] = B[k]
    BY <1>5, <1>6
  <2>3. ASSUME NEW k \in o + 1 .. Len(B) PROVE G[k + Len(S)] = B[k]
    <3>1. k - o \in 1 .. Len(R) /\ o + (k - o) = k /\ o + Len(S) + (k - o) = k + Len(S)
      BY <1>6, <1>7
    <3> DEFINE j == k - o
    <3>2. j \in 1 .. Len(R) /\ o + j = k /\ o + Len(S) + j = k + Len(S)
      BY <3>1
    <3> HIDE DEF j
    <3>3. G[o + Len(S) + j] = R[j] /\ B[o + j] = R[j]
      BY <1>5, <1>6, <3>2
    <3> QED BY <3>2, <3>3
  <2> QED BY <1>5, <2>1, <2>2, <2>3 DEF GrownBy
<1>9. Len(G) \in Nat
  BY <1>5, <1>7
<1> QED BY <1>1, <1>5, <1>8, <1>9 DEF B, G

\* The two messages that follow typing over a selection.
LEMMA TellsTwo ==
  ASSUME NEW c, NEW r, NEW q, Good(q), NEW m, From(c, m), Fits(ToSet(Flatten(r.symbols)), m),
         NEW n, From(c, n), Fits(Effect(ToSet(Flatten(r.symbols)), m), n),
         ToSet(Flatten(q.symbols)) = Effect(Effect(ToSet(Flatten(r.symbols)), m), n)
  PROVE  Tells(c, r, q, <<m, n>>)
<1>1. Leads(ToSet(Flatten(r.symbols)), <<m, n>>, ToSet(Flatten(q.symbols)))
  BY LeadsTwo
<1>2. m \in MessageType /\ n \in MessageType
  BY DEF From
<1>3. FromOne(c, <<m, n>>)
  <2>1. <<m, n>> \in Seq(MessageType) /\ Len(<<m, n>>) = 2 /\ <<m, n>>[1] = m /\ <<m, n>>[2] = n
    BY <1>2
  <2>2. \A k \in 1 .. Len(<<m, n>>) : k = 1 \/ k = 2
    BY <2>1
  <2> QED BY <2>1, <2>2 DEF FromOne
<1> QED BY <1>1, <1>3 DEF Tells

\* Typing over a selection: an erasure and an insertion.
LEMMA Replacing ==
  ASSUME scenario \in Scenarios, Orderly, NEW c \in Clients, Good(rep[c]), Doc(ToSet(Flatten(rep[c].symbols))), UserReplaces(c)
  PROVE  UserDoes(c)
<1> DEFINE r == rep[c]
           F == Flatten(r.symbols)
           New(o, m, vals) == WithPart(r.text, o, m, vals)
           Step(m, n, noted, o, vals, fmt, align) ==
             LET text == New(o, m, vals)
                 l == BlockNumber(r.text, o)
                 i == PositionInBlock(r.text, o)
                 gone == LocalErased(r, l, i, m).gone
                 typed == [r EXCEPT !.text = text]
                 erased == localErase(typed, l, i, m)
             IN  /\ n > 1 => noted
                 /\ {gone[k].pos : k \in DOMAIN gone} \subseteq scenario.touch[c]
                 /\ IF (n = m /\ ~noted) \/ IsRemoteChange(r.text, text, r.size)
                    THEN rep' = [rep EXCEPT ![c] = typed] /\ UNCHANGED up
                    ELSE IF Len(gone) < m THEN rep' = [rep EXCEPT ![c] = erased] /\ UNCHANGED up
                    ELSE IF ~CanInsert(erased.symbols, Place(l, i))
                    THEN rep' = [rep EXCEPT ![c] = Abort(erased)] /\ Send(c, <<Message("DELETE_SYMBOL", gone)>>)
                    ELSE \E S \in kSubset(n, Between(c, erased.symbols, l, i)) :
                      LET symbols == Made(S, n, vals, fmt, align)
                      IN  /\ rep' = [rep EXCEPT ![c] = localInsertGroup(erased, l, i, symbols)]
                          /\ Send(c, <<Message("DELETE_SYMBOL", gone),
                                       Message(IF n = 1 THEN "INSERT_SYMBOL" ELSE "PASTE", symbols)>>)
<1>1. PICK m \in 1 .. scenario.group, n \in 1 .. scenario.group, noted \in scenario.noted :
        \E o \in 0 .. Len(r.text) - m : \E vals \in [1 .. n -> Values], fmt \in scenario.formats, align \in scenario.aligns :
          Step(m, n, noted, o, vals, fmt, align)
  BY Zenon DEF UserReplaces, Made, WithPart
<1>2. PICK o \in 0 .. Len(r.text) - m, vals \in [1 .. n -> Values], fmt \in scenario.formats, align \in scenario.aligns :
        Step(m, n, noted, o, vals, fmt, align)
  BY <1>1
<1>k. NobodyOpens
  BY NoneOpens DEF UserReplaces, UserActs
<1>j. noted
  BY ScenarioTypes, Zenon DEF Orderly
<1> DEFINE text == New(o, m, vals)
           before == LessPart(r.text, o, m)
           l == BlockNumber(r.text, o)
           i == PositionInBlock(r.text, o)
           typed == [r EXCEPT !.text = text]
           gone == LocalErased(r, l, i, m).gone
           erased == localErase(typed, l, i, m)
           T(S) == Made(S, n, vals, fmt, align)
           q(S) == localInsertGroup(erased, l, i, T(S))
           first == Message("DELETE_SYMBOL", gone)
           then(S) == Message(IF n = 1 THEN "INSERT_SYMBOL" ELSE "PASTE", T(S))
<1>3. /\ F \in Seq(SymbolType) /\ Len(F) \in Nat /\ Len(F) > 0 /\ r.text \in Seq(STRING) /\ Len(r.text) \in Nat
      /\ Len(r.text) = Len(F) - 1 /\ r.size = Len(r.text) /\ Follows(r.text, F) /\ Ordered(r.symbols) /\ Shape(r.symbols)
  BY Lengths
<1>4. /\ m \in Nat /\ m > 0 /\ n \in Nat /\ n > 0 /\ o \in Nat /\ o + m <= Len(r.text) /\ o + m < Len(F)
      /\ o \in 0 .. Len(r.text) /\ o <= Len(r.text)
  BY <1>3, ScenarioTypes
<1>5. vals \in Seq(STRING) /\ Len(vals) = n
  BY <1>4, ValuesTyped
<1>6. /\ before \in Seq(STRING) /\ text \in Seq(STRING) /\ ShrunkBy(r.text, o, m, before) /\ GrownBy(before, o, vals, text)
      /\ Len(text) \in Nat
  BY <1>3, <1>4, <1>5, PartReplaced
<1>7. Step(m, n, noted, o, vals, fmt, align)
  BY <1>2
<1> HIDE DEF text, before
<1>9. AtPlace(r.symbols, Place(l, i), o)
  BY <1>3, <1>4, CursorPlace
<1>10. ~IsRemoteChange(r.text, text, r.size)
  BY <1>3, <1>6, NotRemote
<1> HIDE DEF l, i
<1>11. Typing(typed) /\ typed.text = text /\ typed.symbols = r.symbols
  BY <1>6, TypingText
<1>12. /\ {gone[k].pos : k \in DOMAIN gone} \subseteq scenario.touch[c]
       /\ IF Len(gone) < m THEN rep' = [rep EXCEPT ![c] = erased] /\ UNCHANGED up
          ELSE IF ~CanInsert(erased.symbols, Place(l, i))
          THEN rep' = [rep EXCEPT ![c] = Abort(erased)] /\ Send(c, <<first>>)
          ELSE \E S \in kSubset(n, Between(c, erased.symbols, l, i)) :
                 rep' = [rep EXCEPT ![c] = q(S)] /\ Send(c, <<first, then(S)>>)
  BY <1>7, <1>j, <1>10 DEF text, l, i
<1> HIDE DEF typed
<1>13. Trimmed(typed, l, i, o, m, erased, LocalErased(typed, l, i, m).gone)
  BY <1>4, <1>9, <1>11, DeletedAt
<1>14. LocalErased(typed, l, i, m).gone = gone
  BY <1>11 DEF LocalErased
<1> HIDE DEF erased, gone
<1> DEFINE E == Flatten(erased.symbols)
<1>15. /\ Typing(erased) /\ erased.text = text /\ ShrunkBy(F, o, m, E) /\ CutOff(F, o, m, gone)
       /\ AtPlace(erased.symbols, Place(l, i), o) /\ ToSet(E) = Without(ToSet(F), gone)
  BY <1>11, <1>13, <1>14 DEF Trimmed
<1>16. E \in Seq(SymbolType) /\ Ordered(erased.symbols) /\ Shape(erased.symbols) /\ Len(E) \in Nat /\ o \in 0 .. Len(E) - 1
  <2>1. E \in Seq(SymbolType) /\ Ordered(erased.symbols) /\ Shape(erased.symbols) /\ Len(E) \in Nat
    BY <1>15, ShapeFlat DEF Typing, Ordered
  <2>2. Len(E) = Len(F) - m
    BY <1>15 DEF ShrunkBy
  <2> QED BY <1>3, <1>4, <2>1, <2>2
<1>17. Follows(before, E)
  BY <1>3, <1>4, <1>6, <1>15, <1>16, FollowsShrunk
<1>18. From(c, first) /\ Fits(ToSet(F), first) /\ Effect(ToSet(F), first) = ToSet(E)
  <2>1. {gone[k].pos : k \in DOMAIN gone} \subseteq scenario.touch[c]
    BY <1>12
  <2>2. CutOff(F, o, m, gone) /\ ToSet(E) = Without(ToSet(F), gone) /\ Ordered(r.symbols) /\ o \in Nat /\ o + m < Len(F)
    BY <1>3, <1>4, <1>15
  <2> HIDE DEF E
  <2> QED BY <1>k, <2>1, <2>2, DeleteSent, Zenon
<1>19. Doc(ToSet(E))
  BY <1>18, EffectDoc
<1>20. Len(gone) = m /\ ~(Len(gone) < m)
  BY <1>4, <1>15 DEF CutOff
<1>21. CanInsert(erased.symbols, Place(l, i))
  BY <1>15, <1>16, PlaceAccepts DEF Place
<1>22. PICK S \in kSubset(n, Between(c, erased.symbols, l, i)) : rep' = [rep EXCEPT ![c] = q(S)] /\ Send(c, <<first, then(S)>>)
  BY <1>12, <1>20, <1>21, Zenon
<1> HIDE DEF first
<1>23. NewSymbols(c, E, o, n, vals, T(S))
  BY <1>4, <1>15, <1>16, Typed
<1> HIDE DEF T
<1>24. Batch(E, o, T(S)) /\ Len(T(S)) = n /\ \A k \in 1 .. Len(T(S)) : vals[k] = T(S)[k].val
  BY <1>23 DEF NewSymbols
<1>25. Holds(q(S), ToSet(E) \cup ToSet(T(S)))
  BY <1>5, <1>6, <1>15, <1>16, <1>17, <1>24, TypedAt
<1>26. From(c, then(S)) /\ Fits(ToSet(E), then(S)) /\ Effect(ToSet(E), then(S)) = ToSet(E) \cup ToSet(T(S))
  BY <1>16, <1>19, <1>23, InsertSent
<1> HIDE DEF q, then
<1>27. up' = [up EXCEPT ![c] = @ \o <<first, then(S)>>]
  BY <1>22 DEF Send
<1>28. Tells(c, r, q(S), <<first, then(S)>>)
  BY <1>18, <1>25, <1>26, TellsTwo DEF Holds
<1> QED BY <1>22, <1>27, <1>28 DEF UserDoes

\* Places at both ends of a selection.
LEMMA CursorSelection ==
  ASSUME NEW r, Good(r), NEW o \in Nat, NEW n \in Nat, n > 0, o + n <= Len(r.text), NEW u, u = o + n - 1
  PROVE  Selection(r.symbols, BlockNumber(r.text, o), PositionInBlock(r.text, o), BlockNumber(r.text, u), PositionInBlock(r.text, u), o, u)
<1>1. r.text \in Seq(STRING) /\ Len(r.text) \in Nat
  BY Lengths
<1>2. o \in 0 .. Len(r.text) /\ u \in 0 .. Len(r.text) /\ o <= Len(r.text) /\ u <= Len(r.text) /\ o <= u
  BY <1>1
<1>3. AtPlace(r.symbols, Place(BlockNumber(r.text, o), PositionInBlock(r.text, o)), o)
  BY <1>1, <1>2, CursorPlace
<1>4. AtPlace(r.symbols, Place(BlockNumber(r.text, u), PositionInBlock(r.text, u)), u)
  BY <1>1, <1>2, CursorPlace
<1> QED BY <1>2, <1>3, <1>4 DEF Selection

\* The message that follows a change of format.
LEMMA ChangeSent ==
  ASSUME NEW X, NEW S, Named(X, S), Sorted(S), Len(S) > 0, NEW c, NobodyOpens, {S[k].pos : k \in DOMAIN S} \subseteq scenario.touch[c],
         scenario.group <= 1 => Len(S) = 1
  PROVE  LET m == Message("CHANGE", S)
         IN  From(c, m) /\ Fits(X, m) /\ Effect(X, m) = Without(X, S) \cup ToSet(S)
<1> DEFINE m == Message("CHANGE", S)
<1>1. S \in Seq(SymbolType) /\ Known(X, S) /\ DOMAIN S = 1 .. Len(S)
  BY DEF Named, Known
<1>2. /\ m.type = "CHANGE" /\ m.symbols = S /\ m \in MessageType /\ m.type \in Operations /\ m.type \notin Insertions
      /\ m.type # "DELETE_SYMBOL" /\ m.type # "ALIGN" /\ m.type \notin {"INSERT_SYMBOL", "ALIGN"}
  BY <1>1 DEF Message, MessageType, Operations, Insertions
<1>3. \A k \in 1 .. Len(S) : S[k].pos \in scenario.touch[c]
  BY <1>1
<1> HIDE DEF m
<1>4. From(c, m)
  BY <1>2, <1>3 DEF From
<1>5. Fits(X, m)
  BY <1>1, <1>2 DEF Fits
<1>6. Effect(X, m) = Without(X, S) \cup ToSet(S)
  BY <1>2 DEF Effect
<1> QED BY <1>4, <1>5, <1>6 DEF m

\* A new format: the symbols of the selection are overwritten, here and there.
LEMMA Formatting ==
  ASSUME scenario \in Scenarios, Orderly, NEW c \in Clients, Good(rep[c]), Doc(ToSet(Flatten(rep[c].symbols))), UserFormats(c)
  PROVE  UserDoes(c)
<1> DEFINE r == rep[c]
           Step(n, fmt, o) ==
             LET l1 == BlockNumber(r.text, o)
                 i1 == PositionInBlock(r.text, o)
                 l2 == BlockNumber(r.text, o + n - 1)
                 i2 == PositionInBlock(r.text, o + n - 1)
                 changed == localChangeGroup(r, l1, i1, l2, i2, fmt)
                 symbols == SymbolsInRange(changed.symbols, l1, i1, l2, i2)
             IN  /\ r.text[o + 1] # NL /\ r.text[o + n] # NL
                 /\ IF ~(InLine(r.symbols, l1, i1) /\ InLine(r.symbols, l2, i2))
                    THEN rep' = [rep EXCEPT ![c] = Abort(r)] /\ UNCHANGED up
                    ELSE /\ {symbols[k].pos : k \in DOMAIN symbols} \subseteq scenario.touch[c]
                         /\ changed # r
                         /\ rep' = [rep EXCEPT ![c] = changed]
                         /\ Send(c, <<Message("CHANGE", symbols)>>)
<1>1. PICK n \in 1 .. scenario.group, fmt \in scenario.formats : \E o \in 0 .. Len(r.text) - n : Step(n, fmt, o)
  BY Zenon DEF UserFormats
<1>2. PICK o \in 0 .. Len(r.text) - n : Step(n, fmt, o)
  BY <1>1
<1>k. NobodyOpens
  BY NoneOpens DEF UserFormats, UserActs
<1> DEFINE u == o + n - 1
           l1 == BlockNumber(r.text, o)
           i1 == PositionInBlock(r.text, o)
           l2 == BlockNumber(r.text, u)
           i2 == PositionInBlock(r.text, u)
           q == localChangeGroup(r, l1, i1, l2, i2, fmt)
           S == SymbolsInRange(q.symbols, l1, i1, l2, i2)
           X == ToSet(Flatten(r.symbols))
           m == Message("CHANGE", S)
<1>3. r.text \in Seq(STRING) /\ Len(r.text) \in Nat /\ Ordered(r.symbols) /\ Shape(r.symbols)
  BY Lengths
<1>4. n \in Nat /\ n > 0 /\ o \in Nat /\ o + n <= Len(r.text) /\ fmt \in Formats /\ (u + 1) - o = n /\ (scenario.group <= 1 => n = 1)
  BY <1>3, ScenarioTypes
<1>5. Step(n, fmt, o)
  BY <1>2
<1>6. Selection(r.symbols, l1, i1, l2, i2, o, u)
  BY <1>4, CursorSelection
<1> HIDE DEF u, l1, l2, i1, i2
<1>7. InLine(r.symbols, l1, i1) /\ InLine(r.symbols, l2, i2)
  <2>1. AtPlace(r.symbols, Place(l1, i1), o) /\ AtPlace(r.symbols, Place(l2, i2), u)
    BY <1>6 DEF Selection
  <2> QED BY <1>3, <2>1, PlaceAccepts DEF Place
<1>8. {S[k].pos : k \in DOMAIN S} \subseteq scenario.touch[c] /\ rep' = [rep EXCEPT ![c] = q] /\ Send(c, <<m>>)
  BY <1>5, <1>7, Zenon DEF u, l1, l2, i1, i2
<1>9. Good(q) /\ Relined(r.symbols, q.symbols)
  BY <1>4, <1>6, GroupFormatted
<1>10. Holds(q, Without(X, S) \cup ToSet(S)) /\ Named(X, S) /\ Sorted(S) /\ Len(S) > 0
  BY <1>4, <1>6, FormatSent
<1>11. Len(S) = n
  <2> HIDE DEF q
  <2>1. Selection(q.symbols, l1, i1, l2, i2, o, u)
    BY <1>3, <1>6, <1>9, RelinedPlace DEF Selection
  <2>2. Selected(Flatten(q.symbols), o, u, S)
    BY <1>9, <2>1, RangeSelected DEF Good, Ordered
  <2> QED BY <1>4, <2>2 DEF Selected
<1> HIDE DEF q, S, X
<1>12. From(c, m) /\ Fits(X, m) /\ Effect(X, m) = Without(X, S) \cup ToSet(S)
  BY <1>4, <1>k, <1>8, <1>10, <1>11, ChangeSent
<1> HIDE DEF m
<1>13. ToSet(Flatten(q.symbols)) = Effect(X, m)
  BY <1>10, <1>12 DEF Holds
<1>14. Tells(c, r, q, <<m>>)
  BY <1>9, <1>12, <1>13, TellsOne DEF X
<1>15. up' = [up EXCEPT ![c] = @ \o <<m>>]
  BY <1>8 DEF Send
<1> QED BY <1>8, <1>14, <1>15, Zenon DEF UserDoes

\* The operation that gives a line's end an alignment.
LEMMA AlignFits ==
  ASSUME NEW X, NEW e \in SymbolType, NEW t \in X, t = Realign(e, t.align), t.val \in {NL, NUL}
  PROVE  LET m == Message("ALIGN", <<e>>)
         IN  Fits(X, m) /\ Swap(X, e) = Effect(X, m)
<1> DEFINE m == Message("ALIGN", <<e>>)
           S == <<e>>
<1>4. S \in Seq(SymbolType) /\ Len(S) = 1 /\ S[1] = e
  OBVIOUS
<1>5. /\ m.type = "ALIGN" /\ m.symbols = S /\ m \in MessageType /\ m.type \in Operations /\ m.type \notin Insertions
      /\ m.type # "DELETE_SYMBOL" /\ m.type # "CHANGE"
  BY <1>4 DEF Message, MessageType, Operations, Insertions
<1> HIDE DEF m, S
<1>6. ToSet(S) = {e} /\ PositionsOf(S) = {e.pos}
  BY <1>4, OneOf
<1>7. Ending(X, S)
  <2>1. t = [S[1] EXCEPT !.align = t.align]
    BY <1>4 DEF Realign
  <2> QED BY <2>1 DEF Ending
<1>s. Sorted(S)
  BY <1>4 DEF Sorted
<1>f. Ending(X, m.symbols) /\ Sorted(m.symbols) /\ Len(m.symbols) = 1 /\ Len(m.symbols) > 0
  <2>1. m.symbols = S
    BY <1>5
  <2>2. Ending(X, m.symbols) /\ Sorted(m.symbols)
    BY <1>7, <1>s, <2>1
  <2>3. Len(m.symbols) = 1
    BY <1>4, <2>1
  <2> QED BY <2>2, <2>3
<1>8. Fits(X, m)
  BY <1>5, <1>f DEF Fits
<1>9. Swap(X, e) = Effect(X, m)
  BY <1>5, <1>6 DEF Effect, Swap, Without
<1> QED BY <1>8, <1>9 DEF m

\* The operation about the next line of some that get an alignment.
AlignTells(X, Y, e) == Fits(X, Message("ALIGN", <<e>>)) /\ Y = Effect(X, Message("ALIGN", <<e>>))
\* The operation that textAlign sends about the next line.
LEMMA AlignSent ==
  ASSUME NEW r, Good(r), NEW l1 \in Nat, NEW k \in Nat, (l1 + k) + 1 \in 1 .. Len(r.symbols), NEW align \in Aligns
  PROVE  AlignTells(ToSet(Flatten(localChangeAlignment(r, l1 .. (l1 + k) - 1, align).symbols)),
                    ToSet(Flatten(localChangeAlignment(r, l1 .. l1 + k, align).symbols)), Realign(Last(r.symbols[(l1 + k) + 1]), align))
<1> DEFINE X == ToSet(Flatten(localChangeAlignment(r, l1 .. (l1 + k) - 1, align).symbols))
           new == localChangeAlignment(r, l1 .. l1 + k, align)
           e == Realign(Last(r.symbols[(l1 + k) + 1]), align)
<1>1. NextAligned(X, new, e)
  BY AlignedNext
<1> HIDE DEF X, new, e
<1>3. e \in SymbolType /\ ToSet(Flatten(new.symbols)) = Swap(X, e) /\ \E t \in X : t = Realign(e, t.align) /\ t.val \in {NL, NUL}
  BY <1>1 DEF NextAligned, Holds
<1>4. Fits(X, Message("ALIGN", <<e>>)) /\ Swap(X, e) = Effect(X, Message("ALIGN", <<e>>))
  BY <1>3, AlignFits
<1> QED BY <1>3, <1>4 DEF X, new, e, AlignTells

\* No line, no change.
LEMMA AlignedNone ==
  ASSUME NEW r, Good(r), NEW align \in Aligns, NEW L, L = {}
  PROVE  localChangeAlignment(r, L, align).symbols = r.symbols
<1>1. localChangeAlignment(r, L, align).symbols = AlignedLines(r.symbols, L, align)
  BY AlignedGood
<1>2. r.symbols \in Seq(Seq(SymbolType))
  BY DEF Good, Ordered, Shape
<1>3. r.symbols = [l \in DOMAIN r.symbols |-> r.symbols[l]]
  BY <1>2
<1>4. AlignedLines(r.symbols, L, align) = [l \in DOMAIN r.symbols |-> r.symbols[l]]
  BY DEF AlignedLines
<1> QED BY <1>1, <1>3, <1>4

\* The end of a line that got an alignment.
LEMMA AlignedEnd ==
  ASSUME NEW r, Good(r), NEW align \in Aligns, NEW L, NEW l \in 1 .. Len(r.symbols), l - 1 \in L
  PROVE  Last(localChangeAlignment(r, L, align).symbols[l]) = Realign(Last(r.symbols[l]), align)
<1> DEFINE line == r.symbols[l]
<1>1. localChangeAlignment(r, L, align).symbols = AlignedLines(r.symbols, L, align)
  BY AlignedGood
<1>2. r.symbols \in Seq(Seq(SymbolType)) /\ line \in Seq(SymbolType) /\ Len(line) > 0 /\ l \in DOMAIN r.symbols
  BY DEF Good, Ordered, Shape
<1>3. AlignedLines(r.symbols, L, align)[l] = AlignedLine(line, align)
  BY <1>2 DEF AlignedLines
<1>4. Realigned(line, align, AlignedLine(line, align), [line[Len(line)] EXCEPT !.align = align])
  BY <1>2, LineGetsAlignment
<1>5. Last(AlignedLine(line, align)) = [line[Len(line)] EXCEPT !.align = align]
  BY <1>4 DEF Realigned
<1> QED BY <1>1, <1>3, <1>5 DEF Last, Realign

\* The k-th line of the range l1 .. l2, of N lines.
LEMMA LineOfRange ==
  ASSUME NEW l1 \in Nat, NEW l2 \in Nat, NEW N \in Nat, l1 <= l2, l2 < N, NEW k \in 1 .. l2 - l1 + 1
  PROVE  l1 + k \in 1 .. N /\ (l1 + k) - 1 \in l1 .. l2 /\ l1 + k = (l1 + (k - 1)) + 1 /\ k - 1 \in Nat /\ l1 + (k - 1) = (l1 + k) - 1
OBVIOUS

\* A new alignment for some lines: one operation for each.
LEMMA Aligning ==
  ASSUME scenario \in Scenarios, Orderly, NEW c \in Clients, Good(rep[c]), Doc(ToSet(Flatten(rep[c].symbols))), UserAligns(c)
  PROVE  UserDoes(c)
<1> DEFINE r == rep[c]
           Step(l1, align, l2) ==
             LET q == localChangeAlignment(r, l1 .. l2, align)
                 ends == [k \in 1 .. l2 - l1 + 1 |-> Last(q.symbols[l1 + k])]
             IN  /\ {ends[k].pos : k \in DOMAIN ends} \subseteq scenario.touch[c]
                 /\ q # r
                 /\ rep' = [rep EXCEPT ![c] = q]
                 /\ Send(c, [k \in DOMAIN ends |-> Message("ALIGN", <<ends[k]>>)])
<1>1. PICK l1 \in 0 .. Len(r.symbols) - 1, align \in scenario.aligns : \E l2 \in l1 .. Len(r.symbols) - 1 : Step(l1, align, l2)
  BY DEF UserAligns
<1>2. PICK l2 \in l1 .. Len(r.symbols) - 1 : Step(l1, align, l2)
  BY <1>1
<1>k. NobodyOpens
  BY NoneOpens DEF UserAligns, UserActs
<1> DEFINE n == l2 - l1 + 1
           q == localChangeAlignment(r, l1 .. l2, align)
           ends == [k \in 1 .. n |-> Last(q.symbols[l1 + k])]
           s == [k \in DOMAIN ends |-> Message("ALIGN", <<ends[k]>>)]
           At0(k) == localChangeAlignment(r, l1 .. (l1 + k) - 1, align)
           f == [k \in 0 .. n |-> ToSet(Flatten(At0(k).symbols))]
<1>3. Len(r.symbols) \in Nat /\ align \in Aligns
  BY ScenarioTypes DEF Good, Ordered, Shape
<1>4. l1 \in Nat /\ l2 \in Nat /\ n \in Nat /\ n > 0 /\ l1 <= l2 /\ l2 < Len(r.symbols) /\ (l1 + n) - 1 = l2 /\ (l1 + 0) - 1 = l1 - 1
  BY <1>3
<1>5. {ends[k].pos : k \in DOMAIN ends} \subseteq scenario.touch[c] /\ rep' = [rep EXCEPT ![c] = q] /\ Send(c, s)
  BY <1>2
<1> HIDE DEF n
<1>6. DOMAIN ends = 1 .. n /\ DOMAIN s = 1 .. n
  OBVIOUS
<1>7. ASSUME NEW k \in 1 .. n
      PROVE  /\ ends[k] = Realign(Last(r.symbols[(l1 + (k - 1)) + 1]), align)
             /\ (l1 + (k - 1)) + 1 \in 1 .. Len(r.symbols) /\ k - 1 \in Nat /\ l1 + (k - 1) = (l1 + k) - 1
  <2>1. l1 + k \in 1 .. Len(r.symbols) /\ (l1 + k) - 1 \in l1 .. l2 /\ l1 + k = (l1 + (k - 1)) + 1 /\ k - 1 \in Nat /\ l1 + (k - 1) = (l1 + k) - 1
    <3>1. k \in 1 .. l2 - l1 + 1
      BY DEF n
    <3> HIDE DEF q, ends, s, f
    <3> QED BY <1>3, <1>4, <3>1, LineOfRange
  <2>2. ends[k] = Last(q.symbols[l1 + k])
    OBVIOUS
  <2> HIDE DEF ends
  <2>3. Last(q.symbols[l1 + k]) = Realign(Last(r.symbols[l1 + k]), align)
    <3> DEFINE l == l1 + k
               L == l1 .. l2
    <3>1. l \in 1 .. Len(r.symbols) /\ l - 1 \in L
      BY <2>1
    <3> HIDE DEF l, L
    <3>2. Last(localChangeAlignment(r, L, align).symbols[l]) = Realign(Last(r.symbols[l]), align)
      BY <1>3, <3>1, AlignedEnd
    <3> QED BY <3>2 DEF l, L
  <2> QED BY <2>1, <2>2, <2>3
<1>8. \A k \in 1 .. n : s[k] = Message("ALIGN", <<ends[k]>>)
  BY <1>6
<1>t. s = [k \in 1 .. n |-> s[k]]
  BY <1>6
<1> HIDE DEF s
<1>9. f[0] = ToSet(Flatten(r.symbols)) /\ f[n] = ToSet(Flatten(q.symbols)) /\ \A k \in 0 .. n : f[k] = ToSet(Flatten(At0(k).symbols))
  <2>1. 0 \in 0 .. n /\ n \in 0 .. n /\ l1 .. (l1 + 0) - 1 = {}
    BY <1>4
  <2>2. At0(0).symbols = r.symbols
    BY <1>3, <2>1, AlignedNone
  <2>3. At0(n) = q
    BY <1>4
  <2> QED BY <2>1, <2>2, <2>3
<1> HIDE DEF f, ends
<1>10. ASSUME NEW k \in 1 .. n PROVE Fits(f[k - 1], s[k]) /\ f[k] = Effect(f[k - 1], s[k])
  <2> DEFINE j == k - 1
             e == ends[k]
  <2>1. /\ e = Realign(Last(r.symbols[(l1 + j) + 1]), align) /\ (l1 + j) + 1 \in 1 .. Len(r.symbols) /\ j \in Nat
        /\ l1 + j = (l1 + k) - 1
    BY <1>7
  <2>2. j \in 0 .. n /\ k \in 0 .. n
    BY <1>4
  <2> HIDE DEF j, e
  <2>3. /\ f[j] = ToSet(Flatten(localChangeAlignment(r, l1 .. (l1 + j) - 1, align).symbols))
        /\ f[k] = ToSet(Flatten(localChangeAlignment(r, l1 .. l1 + j, align).symbols))
        /\ s[k] = Message("ALIGN", <<e>>)
    BY <1>8, <1>9, <2>1, <2>2 DEF e
  <2>4. Fits(f[j], s[k]) /\ f[k] = Effect(f[j], s[k])
    <3> HIDE DEF s, f
    <3>1. Good(r) /\ l1 \in Nat /\ align \in Aligns
      BY <1>3, <1>4
    <3> DEFINE X == ToSet(Flatten(localChangeAlignment(r, l1 .. (l1 + j) - 1, align).symbols))
               Y == ToSet(Flatten(localChangeAlignment(r, l1 .. l1 + j, align).symbols))
    <3>2. AlignTells(X, Y, Realign(Last(r.symbols[(l1 + j) + 1]), align))
      BY <3>1, <2>1, AlignSent
    <3>3. f[j] = X /\ f[k] = Y /\ s[k] = Message("ALIGN", <<e>>)
      BY <2>3
    <3> HIDE DEF X, Y
    <3>4. AlignTells(X, Y, e)
      BY <2>1, <3>2
    <3> QED BY <3>3, <3>4 DEF AlignTells
  <2> QED BY <2>4 DEF j
<1>11. ASSUME NEW k \in 1 .. n PROVE s[k] \in MessageType /\ From(c, s[k])
  <2> DEFINE m == s[k]
             S == <<ends[k]>>
  <2>1. m \in MessageType
    BY <1>10 DEF Fits
  <2>2. m.type = "ALIGN" /\ m.symbols = S
    <3>1. m = Message("ALIGN", S)
      BY <1>8
    <3> HIDE DEF m, S
    <3> QED BY <3>1 DEF Message
  <2>3. Len(S) = 1 /\ S[1] = ends[k] /\ ends[k].pos \in scenario.touch[c]
    BY <1>5, <1>6
  <2> HIDE DEF m, S
  <2>4. m.type \in Operations /\ m.type \notin Insertions /\ \A j \in 1 .. Len(m.symbols) : j = 1
    BY <2>2, <2>3 DEF Operations, Insertions
  <2>5. From(c, m)
    BY <1>k, <2>1, <2>2, <2>3, <2>4 DEF From
  <2> QED BY <2>1, <2>5 DEF m
<1>12. s \in Seq(MessageType) /\ Len(s) = n
  <2> DEFINE t(k) == s[k]
  <2>1. s = [k \in 1 .. n |-> t(k)] /\ \A k \in 1 .. n : t(k) \in MessageType
    BY <1>t, <1>11
  <2> HIDE DEF t
  <2> QED BY <1>4, <2>1
<1> HIDE DEF q
<1>13. FromOne(c, s)
  BY <1>11, <1>12 DEF FromOne
<1>14. Leads(ToSet(Flatten(r.symbols)), s, ToSet(Flatten(q.symbols)))
  BY <1>9, <1>10, <1>12 DEF Leads
<1>15. Good(q)
  BY <1>3, AlignedGood DEF q
<1>16. Tells(c, r, q, s)
  BY <1>13, <1>14, <1>15 DEF Tells
<1> QED BY <1>5, <1>16 DEF UserDoes, Send

\* What the editor holds, followed by the messages on their way to it, is what
\* the server holds, followed by the messages on their way to the server.
InStep(c, X, d, S, u) ==
  /\ Doc(X)
  /\ d \in Seq(MessageType) /\ \A k \in 1 .. Len(d) : \E e \in Clients \ {c} : From(e, d[k])
  /\ \E Z : Leads(X, d, Z) /\ Leads(S, u, Z)

Content(r) == ToSet(Flatten(r.symbols))

\* Symbols that can be loaded: some, of different positions.
Loadable(q) == q # <<>> /\ \A i, j \in 1 .. Len(q) : q[i].pos = q[j].pos => i = j

Home(c, r, u, d, sh) == r = NewReplica /\ u = <<>> /\ d = <<>> /\ c \notin sh

Asked(u, d) == u = <<Message("file_to_open", <<>>)>> /\ d = <<>>

Answered(c, u, d, S) ==
  /\ u = <<>> /\ d # <<>> /\ Head(d).type = "file_to_open"
  /\ Loadable(Head(d).symbols) /\ Last(Head(d).symbols).val = NUL
  /\ InStep(c, ToSet(Head(d).symbols), Tail(d), S, u)

Opening(c, r, u, d, sh, S) ==
  /\ ~NobodyOpens /\ r = NewReplica
  /\ c \notin sh => Asked(u, d)
  /\ c \in sh => Answered(c, u, d, S)

\* The end is loaded first, and everything loaded is in order.
Loading(c, r, load, u, d, sh, S) ==
  /\ ~NobodyOpens /\ c \in sh /\ u = <<>> /\ Loadable(load.left)
  /\ load.done = 0 => r = NewReplica /\ Last(load.left).val = NUL
  /\ load.done # 0 => Good(r) /\ Pos(Content(r)) \cap PositionsOf(load.left) = {} /\ End \in Pos(Content(r))
  /\ InStep(c, Content(r) \cup ToSet(load.left), d, S, u)

Editing(c, r, u, d, sh, S) ==
  c \in sh /\ Good(r) /\ FromOne(c, u) /\ InStep(c, Content(r), d, S, u)

Gone(c, r, u, d, S) ==
  /\ r = NewReplica
  /\ \A k \in 1 .. Len(u) : From(c, u[k]) \/ u[k].type = "close"
  /\ \A k \in 1 .. Len(d) : d[k].type \in Operations
  /\ \E Z : Leads(S, u, Z)

\* The window of editor c, in each of its phases.
Window(c, ph, r, load, u, d, sh, S) ==
  /\ u \in Seq(MessageType) /\ d \in Seq(MessageType)
  /\ load.left \in Seq(SymbolType) /\ load.done \in Nat
  /\ ph \in {"home", "opening", "loading", "editing", "gone"}
  /\ ph = "home" => Home(c, r, u, d, sh)
  /\ ph = "opening" => Opening(c, r, u, d, sh, S)
  /\ ph = "loading" => Loading(c, r, load, u, d, sh, S)
  /\ ph = "editing" => Editing(c, r, u, d, sh, S)
  /\ ph = "gone" => Gone(c, r, u, d, S)

Functions ==
  /\ DOMAIN rep = Clients /\ DOMAIN phase = Clients /\ DOMAIN toLoad = Clients
  /\ DOMAIN up = Clients /\ DOMAIN down = Clients
  /\ sharing \subseteq Clients /\ ops \in 0 .. scenario.ops

Everyone == \A c \in Clients : Window(c, phase[c], rep[c], toLoad[c], up[c], down[c], sharing, stored)

\* The inductive invariant.
Facts == scenario \in Scenarios /\ Orderly /\ Functions /\ Doc(stored) /\ Everyone

EveryoneNext == \A c \in Clients : Window(c, phase'[c], rep'[c], toLoad'[c], up'[c], down'[c], sharing', stored')

\* The invariant after a step, part by part.
LEMMA FactsKept ==
  ASSUME Facts, scenario' = scenario, Functions', Doc(stored'), EveryoneNext
  PROVE  Facts'
<1>1. scenario' \in Scenarios
  BY DEF Facts
<1>2. Orderly'
  BY DEF Facts, Orderly, NobodyOpens, OneUserPastes
<1>3. (Doc(stored))'
  OBVIOUS
<1>a. NobodyOpens' <=> NobodyOpens
  BY DEF NobodyOpens
<1>b. \A c, m : From(c, m)' <=> From(c, m)
  BY <1>a DEF From
<1>c. \A c, q : FromOne(c, q)' <=> FromOne(c, q)
  BY <1>b DEF FromOne
<1>d. \A c, X, d, S, u : InStep(c, X, d, S, u)' <=> InStep(c, X, d, S, u)
  BY <1>b DEF InStep
<1>e. \A c, u, d, S : Answered(c, u, d, S)' <=> Answered(c, u, d, S)
  BY <1>d DEF Answered
<1>f. \A c, r, u, d, sh, S : Opening(c, r, u, d, sh, S)' <=> Opening(c, r, u, d, sh, S)
  BY <1>a, <1>e DEF Opening
<1>g. \A c, r, load, u, d, sh, S : Loading(c, r, load, u, d, sh, S)' <=> Loading(c, r, load, u, d, sh, S)
  BY <1>a, <1>d DEF Loading
<1>h. \A c, r, u, d, sh, S : Editing(c, r, u, d, sh, S)' <=> Editing(c, r, u, d, sh, S)
  BY <1>c, <1>d DEF Editing
<1>i. \A c, r, u, d, S : Gone(c, r, u, d, S)' <=> Gone(c, r, u, d, S)
  BY <1>b DEF Gone
<1>j. \A c, ph, r, load, u, d, sh, S : Window(c, ph, r, load, u, d, sh, S)' <=> Window(c, ph, r, load, u, d, sh, S)
  BY <1>f, <1>g, <1>h, <1>i DEF Window
<1>4. Everyone'
  BY <1>j DEF Everyone, EveryoneNext
<1> QED BY <1>1, <1>2, <1>3, <1>4 DEF Facts

Changes(f, g, c, v) == DOMAIN g = Clients /\ g[c] = v /\ \A d \in Clients \ {c} : g[d] = f[d]

\* An update of one editor's part.
LEMMA ChangesOne ==
  ASSUME NEW f, DOMAIN f = Clients, NEW c \in Clients, NEW v, NEW g, g = [f EXCEPT ![c] = v]
  PROVE  Changes(f, g, c, v)
BY DEF Changes

\* No update.
LEMMA ChangesNone == ASSUME NEW f, DOMAIN f = Clients, NEW c \in Clients, NEW g, g = f PROVE Changes(f, g, c, f[c])
BY DEF Changes

\* Who else is in the list does not matter to an editor.
LEMMA WindowElsewhere ==
  ASSUME NEW c, NEW ph, NEW r, NEW load, NEW u, NEW d, NEW sh, NEW S, Window(c, ph, r, load, u, d, sh, S), NEW sh2, c \in sh2 <=> c \in sh
  PROVE  Window(c, ph, r, load, u, d, sh2, S)
BY DEF Window, Home, Opening, Loading, Editing

\* A step of one editor, or of the server for one, which leaves the symbols.
LEMMA OneMoves ==
  ASSUME Facts, NEW c \in Clients, scenario' = scenario, stored' = stored, ops' \in 0 .. scenario.ops, sharing' \subseteq Clients,
         \A d \in Clients \ {c} : d \in sharing' <=> d \in sharing,
         NEW ph, Changes(phase, phase', c, ph), NEW r, Changes(rep, rep', c, r), NEW load, Changes(toLoad, toLoad', c, load),
         NEW u, Changes(up, up', c, u), NEW d, Changes(down, down', c, d), Window(c, ph, r, load, u, d, sharing', stored)
  PROVE  Facts'
<1>1. Functions'
  BY DEF Functions, Changes
<1>2. Doc(stored')
  BY DEF Facts
<1>3. ASSUME NEW e \in Clients PROVE Window(e, phase'[e], rep'[e], toLoad'[e], up'[e], down'[e], sharing', stored')
  <2>1. CASE e = c
    BY <2>1 DEF Changes
  <2>2. CASE e # c
    <3>1. phase'[e] = phase[e] /\ rep'[e] = rep[e] /\ toLoad'[e] = toLoad[e] /\ up'[e] = up[e] /\ down'[e] = down[e]
      BY <2>2 DEF Changes
    <3>2. Window(e, phase[e], rep[e], toLoad[e], up[e], down[e], sharing, stored)
      BY DEF Facts, Everyone
    <3>3. Window(e, phase[e], rep[e], toLoad[e], up[e], down[e], sharing', stored)
      BY <2>2, <3>2, WindowElsewhere
    <3> QED BY <3>1, <3>3
  <2> QED BY <2>1, <2>2
<1> QED BY <1>1, <1>2, <1>3, FactsKept DEF EveryoneNext

\* What the invariant says of one editor.
LEMMA FactsAt ==
  ASSUME Facts, NEW c \in Clients
  PROVE  /\ scenario \in Scenarios /\ Orderly /\ Doc(stored) /\ ~Rejoin
         /\ DOMAIN rep = Clients /\ DOMAIN phase = Clients /\ DOMAIN toLoad = Clients /\ DOMAIN up = Clients /\ DOMAIN down = Clients
         /\ sharing \subseteq Clients /\ ops \in 0 .. scenario.ops
         /\ Window(c, phase[c], rep[c], toLoad[c], up[c], down[c], sharing, stored)
         /\ up[c] \in Seq(MessageType) /\ down[c] \in Seq(MessageType) /\ toLoad[c].left \in Seq(SymbolType) /\ toLoad[c].done \in Nat
         /\ phase[c] \in {"home", "opening", "loading", "editing", "gone"}
<1>1. Window(c, phase[c], rep[c], toLoad[c], up[c], down[c], sharing, stored)
  BY DEF Facts, Everyone
<1> QED BY <1>1 DEF Facts, Functions, Window, Orderly

\* What it says of one that edits.
LEMMA EditingAt ==
  ASSUME Facts, NEW c \in Clients, phase[c] = "editing"
  PROVE  /\ Editing(c, rep[c], up[c], down[c], sharing, stored)
         /\ Good(rep[c]) /\ Doc(Content(rep[c])) /\ rep[c].state = "running"
<1>1. Editing(c, rep[c], up[c], down[c], sharing, stored)
  BY FactsAt DEF Window
<1> QED BY <1>1 DEF Editing, InStep, Good

-----------------------------------------------------------------------------
\* The messages of a user's action join those on their way.
LEMMA TellingInStep ==
  ASSUME scenario \in Scenarios, Orderly, NEW c \in Clients, NEW r, NEW u, NEW d, NEW sh, NEW S, Editing(c, r, u, d, sh, S),
         NEW q, NEW s, Tells(c, r, q, s)
  PROVE  Editing(c, q, u \o s, d, sh, S) /\ u \o s \in Seq(MessageType)
<1>1. /\ c \in sh /\ FromOne(c, u) /\ Doc(Content(r)) /\ d \in Seq(MessageType)
      /\ \A k \in 1 .. Len(d) : \E e \in Clients \ {c} : From(e, d[k])
  BY DEF Editing, InStep
<1>2. PICK Z : Leads(Content(r), d, Z) /\ Leads(S, u, Z)
  BY DEF Editing, InStep
<1>3. Good(q) /\ FromOne(c, s) /\ Leads(Content(r), s, Content(q))
  BY DEF Tells, Content
<1> HIDE DEF Content
<1>4. FromOthers(c, d) /\ u \in Seq(MessageType) /\ s \in Seq(MessageType)
  BY <1>1, <1>3 DEF FromOthers, FromOne
<1>5. \E W : Leads(S, u \o s, W) /\ Leads(Content(q), d, W)
  BY <1>1, <1>2, <1>3, <1>4, AllPassBy
<1>6. Doc(Content(q))
  <2>1. Len(s) \in Nat
    BY <1>4
  <2> QED BY <1>1, <1>3, <2>1, LeadsDoc
<1>7. InStep(c, Content(q), d, S, u \o s)
  BY <1>1, <1>5, <1>6 DEF InStep
<1>8. FromOne(c, u \o s) /\ u \o s \in Seq(MessageType)
  <2> DEFINE t == u \o s
  <2>1. /\ t \in Seq(MessageType) /\ Len(t) = Len(u) + Len(s)
        /\ \A k \in 1 .. Len(u) : t[k] = u[k]
        /\ \A k \in 1 .. Len(s) : t[Len(u) + k] = s[k]
    BY <1>4, Both
  <2> HIDE DEF t
  <2>2. Len(u) \in Nat /\ Len(s) \in Nat
    BY <1>4
  <2>3. ASSUME NEW k \in 1 .. Len(t) PROVE From(c, t[k])
    <3>1. CASE k <= Len(u)
      BY <1>1, <2>1, <2>2, <3>1 DEF FromOne
    <3>2. CASE k > Len(u)
      <4> DEFINE j == k - Len(u)
      <4>1. j \in 1 .. Len(s) /\ Len(u) + j = k
        BY <2>1, <2>2, <3>2
      <4> HIDE DEF j
      <4>2. t[k] = s[j] /\ From(c, s[j])
        BY <1>3, <2>1, <4>1 DEF FromOne
      <4> QED BY <4>2
    <3> QED BY <2>1, <2>2, <3>1, <3>2
  <2>4. FromOne(c, t) /\ t \in Seq(MessageType)
    BY <2>1, <2>3 DEF FromOne
  <2> QED BY <2>4 DEF t
<1> QED BY <1>1, <1>3, <1>7, <1>8 DEF Editing

\* The rest of an action of a user that edits.
LEMMA UserTells ==
  ASSUME Facts, NEW c \in Clients, NEW kind, UserActs(c, kind), UNCHANGED phase, UserDoes(c)
  PROVE  Facts'
<1>1. /\ scenario \in Scenarios /\ Orderly /\ DOMAIN rep = Clients /\ DOMAIN phase = Clients /\ DOMAIN toLoad = Clients
      /\ DOMAIN up = Clients /\ DOMAIN down = Clients /\ sharing \subseteq Clients /\ ops \in 0 .. scenario.ops
      /\ down[c] \in Seq(MessageType) /\ toLoad[c].left \in Seq(SymbolType) /\ toLoad[c].done \in Nat
  BY FactsAt
<1>2. /\ phase[c] = "editing" /\ phase' = phase /\ toLoad' = toLoad /\ down' = down /\ sharing' = sharing /\ stored' = stored
      /\ scenario' = scenario /\ ops < scenario.ops /\ ops' = ops + 1
  BY DEF UserActs, server
<1>3. ops' \in 0 .. scenario.ops
  BY <1>1, <1>2, ScenarioTypes
<1>4. PICK q, s : Tells(c, rep[c], q, s) /\ rep' = [rep EXCEPT ![c] = q] /\ up' = [up EXCEPT ![c] = up[c] \o s]
  BY DEF UserDoes
<1>5. Editing(c, rep[c], up[c], down[c], sharing, stored)
  BY <1>2, EditingAt
<1> DEFINE u == up[c] \o s
<1>6. Editing(c, q, u, down[c], sharing, stored) /\ u \in Seq(MessageType)
  BY <1>1, <1>4, <1>5, TellingInStep
<1>7. Changes(rep, rep', c, q) /\ Changes(up, up', c, u)
  BY <1>1, <1>4, ChangesOne
<1> HIDE DEF u
<1>8. Changes(phase, phase', c, phase[c]) /\ Changes(toLoad, toLoad', c, toLoad[c]) /\ Changes(down, down', c, down[c])
  BY <1>1, <1>2, ChangesNone
<1>9. Window(c, phase[c], q, toLoad[c], u, down[c], sharing', stored)
  BY <1>1, <1>2, <1>6 DEF Window
<1> QED BY <1>1, <1>2, <1>3, <1>7, <1>8, <1>9, OneMoves

\* The actions of a user that edits keep the invariant.
LEMMA UserEdits ==
  ASSUME Facts, NEW c \in Clients, UserInserts(c) \/ UserErases(c) \/ UserReplaces(c) \/ UserFormats(c) \/ UserAligns(c)
  PROVE  Facts'
<1>1. \E kind : UserActs(c, kind) /\ UNCHANGED phase /\ phase[c] = "editing"
  BY Zenon DEF UserInserts, UserErases, UserReplaces, UserFormats, UserAligns, UserActs
<1>2. Good(rep[c]) /\ Doc(ToSet(Flatten(rep[c].symbols))) /\ scenario \in Scenarios /\ Orderly
  BY <1>1, EditingAt, FactsAt DEF Content
<1>3. UserDoes(c)
  BY <1>2, Inserting, Erasing, Replacing, Formatting, Aligning
<1> QED BY <1>1, <1>3, UserTells

\* A message that is no operation leaves the symbols of the server as they are.
LEMMA NoOperation ==
  ASSUME NEW X, NEW type \in {"file_to_open", "close"}, NEW symbols \in Seq(SymbolType)
  PROVE  LET m == Message(type, symbols)
         IN  m \in MessageType /\ m.type = type /\ m.symbols = symbols /\ m.type \notin Operations /\ Fits(X, m) /\ Effect(X, m) = X
<1> DEFINE m == Message(type, symbols)
<1>1. m \in MessageType /\ m.type = type /\ m.symbols = symbols /\ m.type \notin Operations
  BY DEF Message, MessageType, Operations
<1> HIDE DEF m
<1>2. Fits(X, m) /\ Effect(X, m) = X
  BY <1>1 DEF Fits, Effect
<1> QED BY <1>1, <1>2 DEF m

\* Closing the document.
LEMMA Closing ==
  ASSUME Facts, NEW c \in Clients, UserCloses(c)
  PROVE  Facts'
<1>1. /\ scenario \in Scenarios /\ Orderly /\ ~Rejoin /\ DOMAIN rep = Clients /\ DOMAIN phase = Clients /\ DOMAIN toLoad = Clients
      /\ DOMAIN up = Clients /\ DOMAIN down = Clients /\ sharing \subseteq Clients /\ ops \in 0 .. scenario.ops
      /\ down[c] \in Seq(MessageType) /\ toLoad[c].left \in Seq(SymbolType) /\ toLoad[c].done \in Nat /\ up[c] \in Seq(MessageType)
  BY FactsAt
<1>2. /\ phase[c] = "editing" /\ toLoad' = toLoad /\ down' = down /\ sharing' = sharing /\ stored' = stored
      /\ scenario' = scenario /\ ops < scenario.ops /\ ops' = ops + 1
  BY DEF UserCloses, UserActs, server
<1>3. ops' \in 0 .. scenario.ops
  BY <1>1, <1>2, ScenarioTypes
<1> DEFINE m == Message("close", <<>>)
           u == up[c] \o <<m>>
<1>4. rep' = [rep EXCEPT ![c] = NewReplica] /\ phase' = [phase EXCEPT ![c] = "gone"] /\ up' = [up EXCEPT ![c] = u]
  BY <1>1 DEF UserCloses, Send
<1>5. Editing(c, rep[c], up[c], down[c], sharing, stored)
  BY <1>2, EditingAt
<1>6. PICK Z : Leads(stored, up[c], Z)
  BY <1>5 DEF Editing, InStep
<1>7. m \in MessageType /\ m.type = "close" /\ Fits(Z, m) /\ Effect(Z, m) = Z
  <2>1. <<>> \in Seq(SymbolType)
    OBVIOUS
  <2> QED BY <2>1, NoOperation
<1> HIDE DEF m
<1>8. /\ u = Append(up[c], m) /\ u \in Seq(MessageType) /\ Len(u) = Len(up[c]) + 1 /\ u[Len(up[c]) + 1] = m
      /\ \A k \in 1 .. Len(up[c]) : u[k] = up[c][k]
  BY <1>1, <1>7, OneMore
<1> HIDE DEF u
<1>9. Leads(stored, u, Z)
  BY <1>1, <1>6, <1>7, <1>8, LeadsLast
<1>10. \A k \in 1 .. Len(u) : From(c, u[k]) \/ u[k].type = "close"
  <2>1. \A k \in 1 .. Len(up[c]) : From(c, up[c][k])
    BY <1>5 DEF Editing, FromOne
  <2>2. \A k \in 1 .. Len(u) : k \in 1 .. Len(up[c]) \/ k = Len(up[c]) + 1
    BY <1>1, <1>8
  <2> QED BY <1>7, <1>8, <2>1, <2>2
<1>11. \A k \in 1 .. Len(down[c]) : down[c][k].type \in Operations
  BY <1>5 DEF Editing, InStep, From
<1>12. Gone(c, NewReplica, u, down[c], stored)
  BY <1>9, <1>10, <1>11 DEF Gone
<1>13. Window(c, "gone", NewReplica, toLoad[c], u, down[c], sharing', stored)
  BY <1>1, <1>8, <1>12 DEF Window
<1>14. Changes(rep, rep', c, NewReplica) /\ Changes(up, up', c, u) /\ Changes(phase, phase', c, "gone")
  BY <1>1, <1>4, ChangesOne
<1>15. Changes(toLoad, toLoad', c, toLoad[c]) /\ Changes(down, down', c, down[c])
  BY <1>1, <1>2, ChangesNone
<1> QED BY <1>1, <1>2, <1>3, <1>13, <1>14, <1>15, OneMoves

\* Asking for the document.
LEMMA Asking ==
  ASSUME Facts, NEW c \in Clients, UserOpens(c)
  PROVE  Facts'
<1>1. /\ scenario \in Scenarios /\ Orderly /\ DOMAIN rep = Clients /\ DOMAIN phase = Clients /\ DOMAIN toLoad = Clients
      /\ DOMAIN up = Clients /\ DOMAIN down = Clients /\ sharing \subseteq Clients /\ ops \in 0 .. scenario.ops
      /\ down[c] \in Seq(MessageType) /\ toLoad[c].left \in Seq(SymbolType) /\ toLoad[c].done \in Nat
      /\ Window(c, phase[c], rep[c], toLoad[c], up[c], down[c], sharing, stored)
  BY FactsAt
<1> DEFINE m == Message("file_to_open", <<>>)
           u == <<>> \o <<m>>
<1>2. /\ phase[c] = "home" /\ toLoad' = toLoad /\ down' = down /\ sharing' = sharing /\ stored' = stored
      /\ scenario' = scenario /\ ops' = ops /\ rep' = rep /\ "open" \in scenario.kinds[c]
      /\ phase' = [phase EXCEPT ![c] = "opening"] /\ up' = [up EXCEPT ![c] = up[c] \o <<m>>]
  BY DEF UserOpens, server, Send
<1>3. Home(c, rep[c], up[c], down[c], sharing)
  BY <1>1, <1>2 DEF Window
<1>4. rep[c] = NewReplica /\ up[c] = <<>> /\ down[c] = <<>> /\ c \notin sharing
  BY <1>3 DEF Home
<1>5. ~NobodyOpens
  BY <1>2 DEF NobodyOpens
<1>6. m \in MessageType
  <2>1. <<>> \in Seq(SymbolType)
    OBVIOUS
  <2> QED BY <2>1, NoOperation
<1> HIDE DEF m
<1>7. u = <<m>> /\ u \in Seq(MessageType)
  <2>1. <<m>> \in Seq(MessageType)
    BY <1>6
  <2> QED BY <2>1, NoneBefore
<1> HIDE DEF u
<1>8. Asked(u, down[c])
  BY <1>4, <1>7 DEF Asked, m
<1>9. Opening(c, rep[c], u, down[c], sharing, stored)
  BY <1>4, <1>5, <1>8 DEF Opening
<1>10. Window(c, "opening", rep[c], toLoad[c], u, down[c], sharing', stored)
  BY <1>1, <1>2, <1>7, <1>9 DEF Window
<1>11. up' = [up EXCEPT ![c] = u]
  BY <1>2, <1>4 DEF u
<1>12. Changes(up, up', c, u) /\ Changes(phase, phase', c, "opening")
  BY <1>1, <1>2, <1>11, ChangesOne
<1>13. Changes(toLoad, toLoad', c, toLoad[c]) /\ Changes(down, down', c, down[c]) /\ Changes(rep, rep', c, rep[c])
  BY <1>1, <1>2, ChangesNone
<1> QED BY <1>1, <1>2, <1>10, <1>12, <1>13, OneMoves

\* The first element of a queue and the others.
LEMMA HeadTail ==
  ASSUME NEW T, NEW q \in Seq(T), q # <<>>
  PROVE  /\ Head(q) = q[1] /\ Tail(q) \in Seq(T) /\ Len(q) \in Nat /\ Len(q) > 0 /\ Len(Tail(q)) = Len(q) - 1
         /\ 1 \in 1 .. Len(q) /\ \A k \in 1 .. Len(q) - 1 : Tail(q)[k] = q[k + 1] /\ k + 1 \in 1 .. Len(q)
OBVIOUS

\* Numbers: an index that is not the last.
LEMMA Inward == ASSUME NEW n \in Nat, NEW k \in 1 .. n, k # n PROVE k \in 1 .. n - 1 /\ k + 1 \in 1 .. n
OBVIOUS

\* A queue that loses its first element and gets another at the end.
LEMMA TailAppend ==
  ASSUME NEW T, NEW q \in Seq(T), q # <<>>, NEW x \in T
  PROVE  /\ Head(Append(q, x)) = Head(q) /\ Tail(Append(q, x)) = Append(Tail(q), x) /\ Append(q, x) # <<>>
         /\ Append(q, x) \in Seq(T) /\ Tail(q) \in Seq(T)
<1> DEFINE a == Append(q, x)
           s == Tail(a)
           t == Append(Tail(q), x)
<1>1. /\ Head(q) = q[1] /\ Tail(q) \in Seq(T) /\ Len(q) \in Nat /\ Len(q) > 0 /\ Len(Tail(q)) = Len(q) - 1
      /\ \A k \in 1 .. Len(q) - 1 : Tail(q)[k] = q[k + 1]
  BY HeadTail
<1>2. a \in Seq(T) /\ Len(a) = Len(q) + 1 /\ a[Len(q) + 1] = x /\ \A k \in 1 .. Len(q) : a[k] = q[k]
  BY OneMore
<1>3. t \in Seq(T) /\ Len(t) = Len(q) /\ t[Len(q)] = x /\ \A k \in 1 .. Len(q) - 1 : t[k] = Tail(q)[k]
  <2> DEFINE y == Tail(q)
  <2>1. y \in Seq(T) /\ Len(y) = Len(q) - 1
    BY <1>1
  <2> HIDE DEF y
  <2>2. LET z == Append(y, x) IN z \in Seq(T) /\ Len(z) = Len(y) + 1 /\ z[Len(y) + 1] = x /\ \A k \in 1 .. Len(y) : z[k] = y[k]
    BY <2>1, OneMore
  <2>3. Len(y) + 1 = Len(q)
    BY <1>1, <2>1
  <2> QED BY <2>1, <2>2, <2>3 DEF y
<1> HIDE DEF a, t
<1>4. a # <<>>
  BY <1>1, <1>2
<1>5. Head(a) = a[1] /\ s \in Seq(T) /\ Len(s) = Len(a) - 1 /\ \A k \in 1 .. Len(a) - 1 : s[k] = a[k + 1]
  BY <1>2, <1>4, HeadTail
<1> HIDE DEF s
<1>6. Len(s) = Len(q) /\ \A k \in 1 .. Len(q) : s[k] = a[k + 1]
  BY <1>1, <1>2, <1>5
<1>7. ASSUME NEW k \in 1 .. Len(q) PROVE s[k] = t[k]
  <2>1. CASE k = Len(q)
    BY <1>2, <1>3, <1>6, <2>1
  <2>2. CASE k # Len(q)
    <3>1. k \in 1 .. Len(q) - 1 /\ k + 1 \in 1 .. Len(q)
      <4>1. Len(q) \in Nat
        BY <1>1
      <4> QED BY <4>1, <2>2, Inward
    <3> QED BY <1>1, <1>2, <1>3, <1>6, <3>1
  <2> QED BY <2>1, <2>2
<1>8. s = t
  BY <1>3, <1>5, <1>6, <1>7, Same
<1> QED BY <1>1, <1>2, <1>4, <1>5, <1>8 DEF a, s, t

\* An operation of c handled by the server, seen from another editor.
LEMMA StaysInStep ==
  ASSUME scenario \in Scenarios, Orderly, NEW c \in Clients, NEW e \in Clients, e # c, NEW X, NEW d, NEW S, NEW u, InStep(e, X, d, S, u),
         FromOthers(c, u), NEW m, From(c, m), Fits(S, m)
  PROVE  InStep(e, X, Append(d, m), Effect(S, m), u)
<1>1. Doc(X) /\ d \in Seq(MessageType) /\ \A k \in 1 .. Len(d) : \E b \in Clients \ {e} : From(b, d[k])
  BY DEF InStep
<1>2. PICK Z : Leads(X, d, Z) /\ Leads(S, u, Z)
  BY DEF InStep
<1>3. Fits(Z, m) /\ Leads(Effect(S, m), u, Effect(Z, m))
  BY <1>2, PassesBy
<1>4. Leads(X, Append(d, m), Effect(Z, m))
  BY <1>1, <1>2, <1>3, LeadsLast
<1>5. m \in MessageType
  BY DEF From
<1> DEFINE a == Append(d, m)
<1>6. a \in Seq(MessageType) /\ Len(a) = Len(d) + 1 /\ a[Len(d) + 1] = m /\ Len(d) \in Nat /\ \A k \in 1 .. Len(d) : a[k] = d[k]
  BY <1>1, <1>5, OneMore
<1> HIDE DEF a
<1>7. ASSUME NEW k \in 1 .. Len(a) PROVE \E b \in Clients \ {e} : From(b, a[k])
  <2>1. CASE k \in 1 .. Len(d)
    BY <1>1, <1>6, <2>1
  <2>2. CASE k = Len(d) + 1
    BY <1>6, <2>2
  <2> QED BY <1>6, <2>1, <2>2
<1>8. Leads(X, a, Effect(Z, m))
  BY <1>4 DEF a
<1>9. InStep(e, X, a, Effect(S, m), u)
  BY <1>1, <1>3, <1>6, <1>7, <1>8 DEF InStep
<1> QED BY <1>9 DEF a

\* Nothing on its way is nothing of one's own on its way.
LEMMA NothingOn == ASSUME NEW c, NEW u, u = <<>> PROVE FromOthers(c, u)
<1>1. u \in Seq(MessageType) /\ Len(u) = 0
  OBVIOUS
<1> QED BY <1>1 DEF FromOthers

\* An operation handled for one editor, seen from the window of another, in each
\* of its phases.
LEMMA OtherHears ==
  ASSUME scenario \in Scenarios, Orderly, NEW c \in Clients, NEW e \in Clients, e # c,
         NEW ph, NEW r, NEW load, NEW u, NEW d, NEW sh, NEW S, Window(e, ph, r, load, u, d, sh, S),
         NEW m, From(c, m), Fits(S, m), NEW d2, d2 = IF e \in sh THEN Append(d, m) ELSE d
  PROVE  Window(e, ph, r, load, u, d2, sh, Effect(S, m))
<1>1. m \in MessageType /\ m.type \in Operations
  BY DEF From
<1>2. /\ u \in Seq(MessageType) /\ d \in Seq(MessageType) /\ load.left \in Seq(SymbolType) /\ load.done \in Nat
      /\ ph \in {"home", "opening", "loading", "editing", "gone"}
  BY DEF Window
<1> DEFINE a == Append(d, m)
           T == Effect(S, m)
<1>3. a \in Seq(MessageType) /\ Len(a) = Len(d) + 1 /\ a[Len(d) + 1] = m /\ Len(d) \in Nat /\ \A k \in 1 .. Len(d) : a[k] = d[k]
  BY <1>1, <1>2, OneMore
<1>4. e \in sh => d2 = a
  OBVIOUS
<1>5. e \notin sh => d2 = d
  OBVIOUS
<1>s. d2 \in Seq(MessageType)
  BY <1>2, <1>3, <1>4, <1>5
<1> HIDE DEF a, T
<1>6. CASE ph = "home"
  <2>1. Home(e, r, u, d, sh)
    BY <1>6 DEF Window
  <2>2. Home(e, r, u, d2, sh)
    BY <2>1, <1>5 DEF Home
  <2> QED BY <1>2, <1>6, <1>s, <2>2 DEF Window
<1>7. CASE ph = "opening"
  <2>1. Opening(e, r, u, d, sh, S)
    BY <1>7 DEF Window
  <2>2. CASE e \notin sh
    <3>1. Opening(e, r, u, d2, sh, T)
      BY <1>5, <2>1, <2>2 DEF Opening
    <3> QED BY <1>2, <1>7, <1>s, <3>1 DEF Window, T
  <2>3. CASE e \in sh
    <3>1. Answered(e, u, d, S)
      BY <2>1, <2>3 DEF Opening
    <3>2. /\ u = <<>> /\ d # <<>> /\ Head(d).type = "file_to_open"
          /\ Loadable(Head(d).symbols) /\ Last(Head(d).symbols).val = NUL
          /\ InStep(e, ToSet(Head(d).symbols), Tail(d), S, u)
      BY <3>1 DEF Answered
    <3>3. InStep(e, ToSet(Head(d).symbols), Append(Tail(d), m), T, u)
      BY <3>2, NothingOn, StaysInStep DEF T
    <3>4. Head(a) = Head(d) /\ Tail(a) = Append(Tail(d), m) /\ a # <<>>
      BY <1>1, <1>2, <3>2, TailAppend DEF a
    <3>5. InStep(e, ToSet(Head(a).symbols), Tail(a), T, u)
      BY <3>3, <3>4, Zenon
    <3>6. Answered(e, u, d2, T)
      BY <1>4, <2>3, <3>2, <3>4, <3>5 DEF Answered
    <3>7. Opening(e, r, u, d2, sh, T)
      BY <2>1, <2>3, <3>6 DEF Opening
    <3> QED BY <1>2, <1>7, <1>s, <3>7 DEF Window, T
  <2> QED BY <2>2, <2>3
<1>8. CASE ph = "loading"
  <2>1. Loading(e, r, load, u, d, sh, S)
    BY <1>8 DEF Window
  <2>2. e \in sh /\ u = <<>> /\ InStep(e, Content(r) \cup ToSet(load.left), d, S, u)
    BY <2>1 DEF Loading
  <2>3. InStep(e, Content(r) \cup ToSet(load.left), a, T, u)
    BY <2>2, NothingOn, StaysInStep DEF T, a
  <2>4. Loading(e, r, load, u, d2, sh, T)
    BY <1>4, <2>1, <2>2, <2>3 DEF Loading
  <2> QED BY <1>2, <1>8, <1>s, <2>4 DEF Window, T
<1>9. CASE ph = "editing"
  <2>1. Editing(e, r, u, d, sh, S)
    BY <1>9 DEF Window
  <2>2. e \in sh /\ FromOne(e, u) /\ InStep(e, Content(r), d, S, u)
    BY <2>1 DEF Editing
  <2>3. FromOthers(c, u)
    BY <2>2 DEF FromOne, FromOthers
  <2>4. InStep(e, Content(r), a, T, u)
    BY <2>2, <2>3, StaysInStep DEF T, a
  <2>5. Editing(e, r, u, d2, sh, T)
    BY <1>4, <2>1, <2>2, <2>4 DEF Editing
  <2> QED BY <1>2, <1>9, <1>s, <2>5 DEF Window, T
<1>10. CASE ph = "gone"
  <2>1. Gone(e, r, u, d, S)
    BY <1>10 DEF Window
  <2>2. FromOthers(c, u)
    <3>1. ASSUME NEW k \in 1 .. Len(u) PROVE u[k].type \notin Operations \/ \E b \in Clients \ {c} : From(b, u[k])
      <4>1. "close" \notin Operations
        BY DEF Operations
      <4> QED BY <2>1, <4>1 DEF Gone
    <3> QED BY <1>2, <3>1 DEF FromOthers
  <2>3. PICK Z : Leads(S, u, Z)
    BY <2>1 DEF Gone
  <2>4. Leads(T, u, Effect(Z, m))
    BY <2>2, <2>3, PassesBy DEF T
  <2>5. \A k \in 1 .. Len(d2) : d2[k].type \in Operations
    <3>1. \A k \in 1 .. Len(d) : d[k].type \in Operations
      BY <2>1 DEF Gone
    <3>2. \A k \in 1 .. Len(a) : k \in 1 .. Len(d) \/ k = Len(d) + 1
      BY <1>3
    <3>3. \A k \in 1 .. Len(a) : a[k].type \in Operations
      BY <1>1, <1>3, <3>1, <3>2
    <3> QED BY <1>4, <1>5, <3>1, <3>3
  <2>6. Gone(e, r, u, d2, T)
    BY <2>1, <2>4, <2>5 DEF Gone
  <2> QED BY <1>2, <1>10, <1>s, <2>6 DEF Window, T
<1> QED BY <1>2, <1>6, <1>7, <1>8, <1>9, <1>10

\* Requests about the file are no operations, and what an editor tells is one.
LEMMA KindsOfMessage ==
  /\ "file_to_open" \notin Operations /\ "close" \notin Operations
  /\ \A c, m : From(c, m) => m.type \in Operations
BY DEF Operations, From

\* Who has something on the way to the server.
LEMMA WhoTells ==
  ASSUME NEW c, NEW ph, NEW r, NEW load, NEW u, NEW d, NEW sh, NEW S, Window(c, ph, r, load, u, d, sh, S), u # <<>>
  PROVE  \/ ph = "opening" /\ c \notin sh /\ Asked(u, d)
         \/ ph = "editing" /\ Editing(c, r, u, d, sh, S)
         \/ ph = "gone" /\ Gone(c, r, u, d, S)
BY DEF Window, Home, Opening, Answered, Loading

\* The server handles an operation: the editor's own queue gets shorter.
LEMMA OwnHandled ==
  ASSUME NEW c, NEW ph, NEW r, NEW load, NEW u, NEW d, NEW sh, NEW S, Window(c, ph, r, load, u, d, sh, S),
         u # <<>>, Head(u).type \in Operations
  PROVE  From(c, Head(u)) /\ Fits(S, Head(u)) /\ Window(c, ph, r, load, Tail(u), d, sh, Effect(S, Head(u)))
<1>1. /\ u \in Seq(MessageType) /\ d \in Seq(MessageType) /\ load.left \in Seq(SymbolType) /\ load.done \in Nat
  BY DEF Window
<1>2. /\ Head(u) = u[1] /\ Tail(u) \in Seq(MessageType) /\ Len(Tail(u)) = Len(u) - 1
      /\ 1 \in 1 .. Len(u) /\ \A k \in 1 .. Len(u) - 1 : Tail(u)[k] = u[k + 1] /\ k + 1 \in 1 .. Len(u)
  BY <1>1, HeadTail
<1>3. CASE ph = "opening" /\ Asked(u, d)
  <2>1. Head(u).type = "file_to_open"
    BY <1>3 DEF Asked, Message
  <2> QED BY <2>1, KindsOfMessage
<1>4. CASE ph = "editing" /\ Editing(c, r, u, d, sh, S)
  <2>1. c \in sh /\ Good(r) /\ FromOne(c, u) /\ InStep(c, Content(r), d, S, u)
    BY <1>4 DEF Editing
  <2>2. From(c, Head(u)) /\ FromOne(c, Tail(u))
    BY <1>2, <2>1 DEF FromOne
  <2>3. PICK Z : Leads(Content(r), d, Z) /\ Leads(S, u, Z)
    BY <2>1 DEF InStep
  <2>4. Fits(S, Head(u)) /\ Leads(Effect(S, Head(u)), Tail(u), Z)
    BY <1>1, <2>3, LeadsFirst
  <2>5. InStep(c, Content(r), d, Effect(S, Head(u)), Tail(u))
    BY <2>1, <2>3, <2>4 DEF InStep
  <2>6. Editing(c, r, Tail(u), d, sh, Effect(S, Head(u)))
    BY <2>1, <2>2, <2>5 DEF Editing
  <2> QED BY <1>1, <1>2, <1>4, <2>2, <2>4, <2>6 DEF Window
<1>5. CASE ph = "gone" /\ Gone(c, r, u, d, S)
  <2>1. /\ r = NewReplica /\ \A k \in 1 .. Len(u) : From(c, u[k]) \/ u[k].type = "close"
        /\ \A k \in 1 .. Len(d) : d[k].type \in Operations
    BY <1>5 DEF Gone
  <2>2. PICK Z : Leads(S, u, Z)
    BY <1>5 DEF Gone
  <2>3. From(c, Head(u))
    BY <1>2, <2>1, KindsOfMessage
  <2>4. Fits(S, Head(u)) /\ Leads(Effect(S, Head(u)), Tail(u), Z)
    BY <1>1, <2>2, LeadsFirst
  <2>5. \A k \in 1 .. Len(Tail(u)) : From(c, Tail(u)[k]) \/ Tail(u)[k].type = "close"
    BY <1>2, <2>1
  <2>6. Gone(c, r, Tail(u), d, Effect(S, Head(u)))
    BY <2>1, <2>4, <2>5 DEF Gone
  <2> QED BY <1>1, <1>2, <1>5, <2>3, <2>4, <2>6 DEF Window
<1> QED BY <1>3, <1>4, <1>5, WhoTells

\* The server handles an operation.
LEMMA Handling ==
  ASSUME Facts, NEW c \in Clients, ServerHandlesOperation(c)
  PROVE  Facts'
<1>1. /\ scenario \in Scenarios /\ Orderly /\ Doc(stored) /\ DOMAIN rep = Clients /\ DOMAIN phase = Clients /\ DOMAIN toLoad = Clients
      /\ DOMAIN up = Clients /\ DOMAIN down = Clients /\ sharing \subseteq Clients /\ ops \in 0 .. scenario.ops
      /\ Window(c, phase[c], rep[c], toLoad[c], up[c], down[c], sharing, stored)
  BY FactsAt
<1> DEFINE m == Head(up[c])
<1>2. /\ up[c] # <<>> /\ m.type \in Operations /\ up' = [up EXCEPT ![c] = Tail(up[c])] /\ Forward(c, m)
      /\ stored' = IF m.type = "DELETE_SYMBOL" THEN Without(stored, m.symbols) ELSE Without(stored, m.symbols) \cup ToSet(m.symbols)
      /\ scenario' = scenario /\ rep' = rep /\ phase' = phase /\ toLoad' = toLoad /\ sharing' = sharing /\ ops' = ops
  BY DEF ServerHandlesOperation, ServerTakes
<1>3. From(c, m) /\ Fits(stored, m) /\ Window(c, phase[c], rep[c], toLoad[c], Tail(up[c]), down[c], sharing, Effect(stored, m))
  BY <1>1, <1>2, OwnHandled
<1> HIDE DEF m
<1>4. stored' = Effect(stored, m)
  BY <1>2 DEF Effect
<1>5. Doc(Effect(stored, m))
  BY <1>1, <1>3, EffectDoc
<1>6. Changes(up, up', c, Tail(up[c]))
  BY <1>1, <1>2, ChangesOne
<1>7. DOMAIN down' = Clients /\ \A e \in Clients : down'[e] = IF e \in sharing \ {c} THEN Append(down[e], m) ELSE down[e]
  BY <1>2 DEF Forward, Others
<1>8. Functions'
  BY <1>1, <1>2, <1>6, <1>7 DEF Functions, Changes
<1>9. ASSUME NEW e \in Clients
      PROVE  Window(e, phase'[e], rep'[e], toLoad'[e], up'[e], down'[e], sharing', stored')
  <2>1. CASE e = c
    <3>1. down'[e] = down[c] /\ up'[e] = Tail(up[c])
      BY <1>6, <1>7, <2>1 DEF Changes
    <3> QED BY <1>2, <1>3, <1>4, <2>1, <3>1
  <2>2. CASE e # c
    <3>1. up'[e] = up[e] /\ down'[e] = IF e \in sharing THEN Append(down[e], m) ELSE down[e]
      BY <1>6, <1>7, <2>2 DEF Changes
    <3>2. Window(e, phase[e], rep[e], toLoad[e], up[e], down[e], sharing, stored)
      BY FactsAt
    <3>3. Window(e, phase[e], rep[e], toLoad[e], up[e], down'[e], sharing, Effect(stored, m))
      BY <1>1, <1>3, <2>2, <3>1, <3>2, OtherHears
    <3> QED BY <1>2, <1>4, <3>1, <3>3
  <2> QED BY <2>1, <2>2
<1>10. EveryoneNext
  BY <1>9 DEF EveryoneNext
<1>11. Doc(stored')
  BY <1>4, <1>5
<1> QED BY <1>2, <1>8, <1>10, <1>11, FactsKept

\* A sequence with an element.
LEMMA SomeSymbols ==
  ASSUME NEW Q \in Seq(SymbolType), NEW j \in 1 .. Len(Q)
  PROVE  Q # <<>> /\ Len(Q) \in Nat /\ Len(Q) \in 1 .. Len(Q) /\ Last(Q) = Q[Len(Q)] /\ j <= Len(Q) /\ j \in Nat /\ ToSet(Q) = {Q[k] : k \in 1 .. Len(Q)}
BY DEF Last, ToSet

\* Numbers: the order is strict.
LEMMA RankLess == ASSUME NEW a \in Int, NEW b \in Int, a < b PROVE ~(b < a) /\ a # b
OBVIOUS

\* Numbers: the order is total.
LEMMA IndexLess == ASSUME NEW i \in Nat, NEW k \in Nat, i # k PROVE i < k \/ k < i
OBVIOUS

\* Symbols in the order of their keys.
Keyed(Q, X) ==
  /\ Q \in Seq(SymbolType) /\ ToSet(Q) = X
  /\ \A i, j \in 1 .. Len(Q) : i < j => KeyRank[Q[i].pos] < KeyRank[Q[j].pos]

\* What the server sends to who opens the document can be loaded.
LEMMA SentLoadable ==
  ASSUME NEW X, Doc(X), \A p \in Positions : p < End => KeyRank[p] < KeyRank[End],
         NEW Q, Keyed(Q, X)
  PROVE  Loadable(Q) /\ Last(Q).val = NUL
<1>1. Unique(X)
  BY DEF Doc
<1>2. /\ Q \in Seq(SymbolType) /\ ToSet(Q) = X
      /\ \A i, j \in 1 .. Len(Q) : i < j => KeyRank[Q[i].pos] < KeyRank[Q[j].pos]
  BY DEF Keyed
<1>4. PICK e \in X : e.pos = End /\ e.val = NUL
  BY DEF Doc
<1>5. PICK j \in 1 .. Len(Q) : e = Q[j]
  <2>1. ToSet(Q) = {Q[k] : k \in 1 .. Len(Q)}
    <3>1. DOMAIN Q = 1 .. Len(Q)
      BY <1>2
    <3> QED BY <3>1, Zenon DEF ToSet
  <2> QED BY <1>2, <2>1
<1>6. Q # <<>> /\ Len(Q) \in Nat /\ Len(Q) \in 1 .. Len(Q) /\ Last(Q) = Q[Len(Q)] /\ j <= Len(Q) /\ j \in Nat /\ ToSet(Q) = {Q[k] : k \in 1 .. Len(Q)}
  BY <1>2, SomeSymbols
<1>7. \A k \in 1 .. Len(Q) : Q[k] \in X /\ Q[k] \in SymbolType /\ Q[k].pos \in Positions /\ KeyRank[Q[k].pos] \in Int
  <2>1. \A k \in 1 .. Len(Q) : Q[k] \in X
    BY <1>2, <1>6
  <2>2. X \subseteq SymbolType
    BY <1>1 DEF Unique
  <2>3. \A s \in SymbolType : s.pos \in Positions
    BY SymbolFields
  <2> QED BY <2>1, <2>2, <2>3, KeyRankAssumption
<1>8. Loadable(Q)
  <2>1. ASSUME NEW i \in 1 .. Len(Q), NEW k \in 1 .. Len(Q), Q[i].pos = Q[k].pos PROVE i = k
    <3>1. KeyRank[Q[i].pos] = KeyRank[Q[k].pos] /\ KeyRank[Q[i].pos] \in Int
      BY <1>7, <2>1
    <3>2. KeyRank[Q[k].pos] \in Int
      BY <1>7
    <3>3. ~(i < k)
      BY <1>2, <3>1, <3>2, RankLess
    <3>4. ~(k < i)
      BY <1>2, <3>1, <3>2, RankLess
    <3>5. i \in Nat /\ k \in Nat
      OBVIOUS
    <3> QED BY <3>3, <3>4, <3>5, IndexLess
  <2> QED BY <1>6, <2>1 DEF Loadable
<1>9. Last(Q).pos = End
  <2>1. SUFFICES ASSUME Last(Q).pos # End PROVE FALSE
    OBVIOUS
  <2>2. Q[Len(Q)] \in X /\ Q[Len(Q)].pos < End /\ Q[Len(Q)].pos \in Positions
    BY <1>6, <1>7, <2>1 DEF Doc
  <2>3. KeyRank[Q[Len(Q)].pos] < KeyRank[End]
    BY <2>2
  <2>4. j < Len(Q)
    <3>1. j # Len(Q)
      BY <1>4, <1>5, <1>6, <2>1
    <3> QED BY <1>6, <3>1
  <2>5. KeyRank[End] < KeyRank[Q[Len(Q)].pos]
    BY <1>2, <1>4, <1>5, <1>6, <2>4
  <2>6. KeyRank[End] \in Int /\ KeyRank[Q[Len(Q)].pos] \in Int
    BY <1>4, <1>5, <1>6, <1>7
  <2> QED BY <2>3, <2>5, <2>6, RankLess
<1>10. Last(Q) = e
  <2>1. Last(Q) \in X
    BY <1>6, <1>7
  <2> QED BY <1>1, <1>4, <1>9, <2>1 DEF Unique
<1> QED BY <1>4, <1>8, <1>10

\* The symbols the server sends are in the order of their keys.
LEMMA SentKeyed ==
  ASSUME NEW X, Doc(X), NEW Q, Q = InOrder(X, LAMBDA s : KeyRank[s.pos])
  PROVE  Keyed(Q, X)
<1>1. Unique(X)
  BY DEF Doc
<1> QED BY <1>1, ByKey DEF Keyed

\* The server answers who opens the document.
LEMMA Answering ==
  ASSUME Facts, NEW c \in Clients, ServerSendsFile(c)
  PROVE  Facts'
<1>1. /\ scenario \in Scenarios /\ Orderly /\ Doc(stored) /\ DOMAIN rep = Clients /\ DOMAIN phase = Clients /\ DOMAIN toLoad = Clients
      /\ DOMAIN up = Clients /\ DOMAIN down = Clients /\ sharing \subseteq Clients /\ ops \in 0 .. scenario.ops
      /\ toLoad[c].left \in Seq(SymbolType) /\ toLoad[c].done \in Nat /\ up[c] \in Seq(MessageType)
      /\ Window(c, phase[c], rep[c], toLoad[c], up[c], down[c], sharing, stored)
  BY FactsAt
<1> DEFINE Q == InOrder(stored, LAMBDA s : KeyRank[s.pos])
           m == Message("file_to_open", Q)
           d == Append(down[c], m)
<1>2. /\ up[c] # <<>> /\ Head(up[c]).type = "file_to_open" /\ up' = [up EXCEPT ![c] = Tail(up[c])]
      /\ sharing' = sharing \cup {c} /\ down' = [down EXCEPT ![c] = d]
      /\ scenario' = scenario /\ rep' = rep /\ phase' = phase /\ toLoad' = toLoad /\ stored' = stored /\ ops' = ops
  BY DEF ServerSendsFile, ServerTakes
<1>3. /\ Head(up[c]) = up[c][1] /\ 1 \in 1 .. Len(up[c])
  BY <1>1, <1>2, HeadTail
<1>4. phase[c] = "opening" /\ c \notin sharing /\ Asked(up[c], down[c])
  <2>1. ~(Editing(c, rep[c], up[c], down[c], sharing, stored))
    BY <1>2, <1>3, KindsOfMessage DEF Editing, FromOne
  <2>2. ~(Gone(c, rep[c], up[c], down[c], stored))
    BY <1>2, <1>3, KindsOfMessage DEF Gone
  <2> QED BY <1>1, <1>2, <2>1, <2>2, WhoTells
<1>5. Opening(c, rep[c], up[c], down[c], sharing, stored)
  BY <1>1, <1>4 DEF Window
<1>6. ~NobodyOpens /\ rep[c] = NewReplica
  BY <1>5 DEF Opening
<1>7. \A p \in Positions : p < End => KeyRank[p] < KeyRank[End]
  BY <1>1, <1>6 DEF Orderly
<1>8. Q \in Seq(SymbolType) /\ ToSet(Q) = stored /\ Loadable(Q) /\ Last(Q).val = NUL
  <2>1. Keyed(Q, stored)
    BY <1>1, SentKeyed
  <2> HIDE DEF Q
  <2>2. Loadable(Q) /\ Last(Q).val = NUL
    BY <1>1, <1>7, <2>1, SentLoadable
  <2> QED BY <2>1, <2>2 DEF Keyed
<1> HIDE DEF Q
<1>9. m \in MessageType /\ m.type = "file_to_open" /\ m.symbols = Q
  BY <1>8, NoOperation
<1> HIDE DEF m
<1>10. Tail(up[c]) = <<>> /\ down[c] = <<>>
  BY <1>4 DEF Asked
<1>11. d = <<m>>
  BY <1>10
<1> HIDE DEF d
<1>12. d \in Seq(MessageType) /\ d # <<>> /\ Head(d) = m /\ Tail(d) = <<>>
  BY <1>9, <1>11
<1>13. InStep(c, stored, <<>>, stored, <<>>)
  <2>1. Leads(stored, <<>>, stored)
    BY LeadsNowhere
  <2>2. <<>> \in Seq(MessageType) /\ Len(<<>>) = 0
    OBVIOUS
  <2> QED BY <1>1, <2>1, <2>2 DEF InStep
<1>14. Answered(c, <<>>, d, stored)
  BY <1>8, <1>9, <1>12, <1>13 DEF Answered
<1>15. Opening(c, rep[c], <<>>, d, sharing', stored)
  BY <1>2, <1>6, <1>14 DEF Opening
<1>16. Window(c, phase[c], rep[c], toLoad[c], <<>>, d, sharing', stored)
  <2>1. <<>> \in Seq(MessageType)
    OBVIOUS
  <2> QED BY <1>1, <1>4, <1>12, <1>15, <2>1 DEF Window
<1>17. Changes(up, up', c, <<>>) /\ Changes(down, down', c, d)
  BY <1>1, <1>2, <1>10, ChangesOne
<1>18. Changes(toLoad, toLoad', c, toLoad[c]) /\ Changes(phase, phase', c, phase[c]) /\ Changes(rep, rep', c, rep[c])
  BY <1>1, <1>2, ChangesNone
<1>19. sharing' \subseteq Clients /\ \A e \in Clients \ {c} : e \in sharing' <=> e \in sharing
  BY <1>1, <1>2
<1> QED BY <1>1, <1>2, <1>16, <1>17, <1>18, <1>19, OneMoves

\* The server takes who closed the document out of the list.
LEMMA Leaving ==
  ASSUME Facts, NEW c \in Clients, ServerClosesFile(c)
  PROVE  Facts'
<1>1. /\ scenario \in Scenarios /\ Orderly /\ Doc(stored) /\ DOMAIN rep = Clients /\ DOMAIN phase = Clients /\ DOMAIN toLoad = Clients
      /\ DOMAIN up = Clients /\ DOMAIN down = Clients /\ sharing \subseteq Clients /\ ops \in 0 .. scenario.ops
      /\ toLoad[c].left \in Seq(SymbolType) /\ toLoad[c].done \in Nat /\ up[c] \in Seq(MessageType) /\ down[c] \in Seq(MessageType)
      /\ Window(c, phase[c], rep[c], toLoad[c], up[c], down[c], sharing, stored)
  BY FactsAt
<1> DEFINE t == Tail(up[c])
<1>2. /\ up[c] # <<>> /\ Head(up[c]).type = "close" /\ up' = [up EXCEPT ![c] = t]
      /\ sharing' = sharing \ {c}
      /\ scenario' = scenario /\ rep' = rep /\ phase' = phase /\ toLoad' = toLoad /\ down' = down /\ stored' = stored /\ ops' = ops
  BY DEF ServerClosesFile, ServerTakes
<1>3. /\ Head(up[c]) = up[c][1] /\ 1 \in 1 .. Len(up[c]) /\ t \in Seq(MessageType)
      /\ Len(t) = Len(up[c]) - 1 /\ \A k \in 1 .. Len(up[c]) - 1 : t[k] = up[c][k + 1] /\ k + 1 \in 1 .. Len(up[c])
  BY <1>1, <1>2, HeadTail
<1>4. phase[c] = "gone" /\ Gone(c, rep[c], up[c], down[c], stored)
  <2>1. ~(Editing(c, rep[c], up[c], down[c], sharing, stored))
    BY <1>2, <1>3, KindsOfMessage DEF Editing, FromOne
  <2>2. ~(Asked(up[c], down[c]))
    BY <1>2 DEF Asked, Message
  <2> QED BY <1>1, <1>2, <2>1, <2>2, WhoTells
<1>5. PICK Z : Leads(stored, up[c], Z)
  BY <1>4 DEF Gone
<1>6. Leads(stored, t, Z)
  <2>1. Leads(Effect(stored, Head(up[c])), Tail(up[c]), Z)
    BY <1>1, <1>2, <1>5, LeadsFirst
  <2>2. Effect(stored, Head(up[c])) = stored
    BY <1>2, KindsOfMessage DEF Effect
  <2> QED BY <2>1, <2>2
<1> HIDE DEF t
<1>7. \A k \in 1 .. Len(t) : From(c, t[k]) \/ t[k].type = "close"
  BY <1>3, <1>4 DEF Gone
<1>8. Gone(c, rep[c], t, down[c], stored)
  BY <1>4, <1>6, <1>7 DEF Gone
<1>9. Window(c, phase[c], rep[c], toLoad[c], t, down[c], sharing', stored)
  BY <1>1, <1>3, <1>4, <1>8 DEF Window
<1>10. Changes(up, up', c, t)
  BY <1>1, <1>2, ChangesOne
<1>11. /\ Changes(toLoad, toLoad', c, toLoad[c]) /\ Changes(phase, phase', c, phase[c]) /\ Changes(rep, rep', c, rep[c])
       /\ Changes(down, down', c, down[c])
  BY <1>1, <1>2, ChangesNone
<1>12. sharing' \subseteq Clients /\ \A e \in Clients \ {c} : e \in sharing' <=> e \in sharing
  BY <1>1, <1>2
<1> QED BY <1>1, <1>2, <1>9, <1>10, <1>11, <1>12, OneMoves

\* Who has something on the way from the server.
LEMMA WhoHears ==
  ASSUME NEW c, NEW ph, NEW r, NEW load, NEW u, NEW d, NEW sh, NEW S, Window(c, ph, r, load, u, d, sh, S), d # <<>>
  PROVE  \/ ph = "opening" /\ c \in sh /\ r = NewReplica /\ ~NobodyOpens /\ Answered(c, u, d, S)
         \/ ph = "loading" /\ Loading(c, r, load, u, d, sh, S)
         \/ ph = "editing" /\ Editing(c, r, u, d, sh, S)
         \/ ph = "gone" /\ Gone(c, r, u, d, S)
BY DEF Window, Home, Opening, Asked

\* What the first of the messages from the server leaves of them.
LEMMA HeardFirst ==
  ASSUME NEW c, NEW X, NEW d, NEW S, NEW u, InStep(c, X, d, S, u), d # <<>>
  PROVE  /\ \E e \in Clients \ {c} : From(e, Head(d))
         /\ Fits(X, Head(d)) /\ InStep(c, Effect(X, Head(d)), Tail(d), S, u)
<1>1. Doc(X) /\ d \in Seq(MessageType) /\ \A k \in 1 .. Len(d) : \E e \in Clients \ {c} : From(e, d[k])
  BY DEF InStep
<1>2. PICK Z : Leads(X, d, Z) /\ Leads(S, u, Z)
  BY DEF InStep
<1>3. Fits(X, Head(d)) /\ Leads(Effect(X, Head(d)), Tail(d), Z)
  BY <1>1, <1>2, LeadsFirst
<1>4. /\ Head(d) = d[1] /\ Tail(d) \in Seq(MessageType) /\ Len(Tail(d)) = Len(d) - 1
      /\ 1 \in 1 .. Len(d) /\ \A k \in 1 .. Len(d) - 1 : Tail(d)[k] = d[k + 1] /\ k + 1 \in 1 .. Len(d)
  BY <1>1, HeadTail
<1>5. \E e \in Clients \ {c} : From(e, Head(d))
  BY <1>1, <1>4
<1>6. \A k \in 1 .. Len(Tail(d)) : \E e \in Clients \ {c} : From(e, Tail(d)[k])
  BY <1>1, <1>4
<1>7. Doc(Effect(X, Head(d)))
  BY <1>1, <1>3, EffectDoc
<1>8. InStep(c, Effect(X, Head(d)), Tail(d), S, u)
  BY <1>2, <1>3, <1>4, <1>6, <1>7 DEF InStep
<1> QED BY <1>3, <1>5, <1>8

-----------------------------------------------------------------------------
\* A part of a document that has its end.
LEMMA DocPart ==
  ASSUME NEW T, Doc(T), NEW X, X \subseteq T, End \in Pos(X)
  PROVE  Doc(X)
BY DEF Doc, Unique, Pos

\* Symbols of other positions than those still to be loaded.
Apart(X, q) == End \in Pos(X) /\ Pos(X) \cap PositionsOf(q) = {}

\* An insertion that fits the document fits the part loaded so far, and stays
\* apart from what is still to be loaded.
LEMMA InsertedWhileLoading ==
  ASSUME NEW T, Doc(T), NEW X, NEW q \in Seq(SymbolType), T = X \cup ToSet(q), Apart(X, q), NEW m, Fits(T, m), m.type \in Insertions
  PROVE  Doc(X) /\ Fits(X, m) /\ Effect(T, m) = Effect(X, m) \cup ToSet(q) /\ Apart(Effect(X, m), q)
<1> DEFINE N == m.symbols
<1>1. Doc(X)
  BY DocPart DEF Apart
<1>2. m.type \in Operations /\ m.type # "DELETE_SYMBOL" /\ m.type # "CHANGE" /\ m.type # "ALIGN"
  BY DEF Insertions, Operations
<1>3. m \in MessageType /\ Fresh(T, N) /\ Len(N) > 0 /\ Sorted(N) /\ (m.type \in {"INSERT_SYMBOL", "ALIGN"} => Len(N) = 1)
  BY <1>2 DEF Fits
<1>4. N \in Seq(SymbolType)
  BY <1>3, MessageFields
<1>5. Fresh(X, N)
  <2>1. Solid(X, N)
    BY <1>3 DEF Fresh, Solid
  <2>2. Pos(X) \subseteq Pos(T)
    BY DEF Pos
  <2> QED BY <1>3, <2>1, <2>2 DEF Fresh
<1>6. Fits(X, m)
  BY <1>2, <1>3, <1>5 DEF Fits
<1>7. Effect(T, m) = T \cup ToSet(N) /\ Effect(X, m) = X \cup ToSet(N)
  <2>1. Without(T, N) = T /\ Without(X, N) = X
    BY <1>3, <1>4, <1>5, FreshAdds
  <2> QED BY <1>2, <2>1, Zenon DEF Effect
<1>8. Pos(ToSet(N)) \cap PositionsOf(q) = {}
  <2>1. DOMAIN q = 1 .. Len(q) /\ DOMAIN N = 1 .. Len(N)
    BY <1>4
  <2>2. \A k \in 1 .. Len(N) : N[k].pos \notin Pos(T)
    BY <1>3, Zenon DEF Fresh
  <2>3. \A k \in 1 .. Len(q) : q[k].pos \in Pos(T)
    <3>1. \A k \in 1 .. Len(q) : q[k] \in ToSet(q)
      BY <2>1, Zenon DEF ToSet
    <3> QED BY <3>1 DEF Pos
  <2>4. \A x \in ToSet(N) : \E k \in 1 .. Len(N) : x = N[k]
    BY <2>1, Zenon DEF ToSet
  <2> QED BY <2>1, <2>2, <2>3, <2>4 DEF Pos, PositionsOf
<1> HIDE DEF N
<1>9. Apart(Effect(X, m), q)
  BY <1>7, <1>8 DEF Apart, Pos
<1> QED BY <1>1, <1>6, <1>7, <1>9, Zenon

\* While somebody may open the document, the others only insert.
LEMMA OnlyInserted ==
  ASSUME NEW c, NEW m, From(c, m), ~NobodyOpens
  PROVE  m.type \in Insertions
BY DEF From

\* Holding symbols, in two forms.
LEMMA ContentIs == ASSUME NEW q, NEW X PROVE Holds(q, X) <=> Good(q) /\ Content(q) = X
BY DEF Holds, Content

\* An operation arrives: in an editor that shows the document, or in one that
\* loads it.
LEMMA OneHears ==
  ASSUME NEW c, NEW ph, NEW r, NEW load, NEW u, NEW d, NEW sh, NEW S, Window(c, ph, r, load, u, d, sh, S), d # <<>>,
         Head(d).type \in Operations, ph = "loading" => load.done >= 2
  PROVE  Window(c, ph, IF ph = "gone" THEN r ELSE Apply(r, Head(d)), load, u, Tail(d), sh, S)
<1> DEFINE m == Head(d)
           t == Tail(d)
           q == Apply(r, m)
<1>1. u \in Seq(MessageType) /\ d \in Seq(MessageType) /\ load.left \in Seq(SymbolType) /\ load.done \in Nat
  BY DEF Window
<1>2. /\ t \in Seq(MessageType) /\ Len(t) = Len(d) - 1
      /\ \A k \in 1 .. Len(d) - 1 : t[k] = d[k + 1] /\ k + 1 \in 1 .. Len(d)
  BY <1>1, HeadTail
<1>3. CASE ph = "opening" /\ Answered(c, u, d, S)
  BY <1>3, KindsOfMessage DEF Answered
<1>4. CASE ph = "loading" /\ Loading(c, r, load, u, d, sh, S)
  <2>1. load.done # 0
    BY <1>1, <1>4
  <2>2. /\ ~NobodyOpens /\ c \in sh /\ u = <<>> /\ Loadable(load.left) /\ Good(r)
        /\ Pos(Content(r)) \cap PositionsOf(load.left) = {} /\ End \in Pos(Content(r))
        /\ InStep(c, Content(r) \cup ToSet(load.left), d, S, u)
    BY <1>4, <2>1 DEF Loading
  <2> DEFINE X == Content(r)
             T == X \cup ToSet(load.left)
  <2>3. Doc(T)
    BY <2>2 DEF InStep
  <2>4. /\ \E e \in Clients \ {c} : From(e, m)
        /\ Fits(T, m) /\ InStep(c, Effect(T, m), t, S, u)
    BY <2>2, HeardFirst
  <2>5. m.type \in Insertions
    BY <2>2, <2>4, OnlyInserted
  <2>6. Apart(X, load.left)
    BY <2>2 DEF Apart
  <2> HIDE DEF m, t
  <2>7. Doc(X) /\ Fits(X, m) /\ Effect(T, m) = Effect(X, m) \cup ToSet(load.left) /\ Apart(Effect(X, m), load.left)
    <3> HIDE DEF X
    <3> QED BY <1>1, <2>3, <2>4, <2>5, <2>6, InsertedWhileLoading
  <2>8. Holding(r, X, Flatten(r.symbols))
    BY <2>2, <2>7, ReplicaHolds DEF Content
  <2>9. Holds(q, Effect(X, m))
    <3>1. m.type \in Operations
      BY DEF m
    <3> QED BY <2>7, <2>8, <3>1, OperationApplied
  <2> HIDE DEF X, q
  <2>10. Good(q) /\ Content(q) = Effect(X, m)
    BY <2>9, ContentIs
  <2>11. InStep(c, Content(q) \cup ToSet(load.left), t, S, u)
    BY <2>4, <2>7, <2>10
  <2>12. Loading(c, q, load, u, t, sh, S)
    BY <2>1, <2>2, <2>7, <2>10, <2>11 DEF Loading, Apart
  <2>13. Window(c, ph, q, load, u, t, sh, S)
    BY <1>1, <1>2, <1>4, <2>12 DEF Window
  <2> QED BY <1>4, <2>13 DEF q, t, m
<1>5. CASE ph = "editing" /\ Editing(c, r, u, d, sh, S)
  <2>1. c \in sh /\ Good(r) /\ FromOne(c, u) /\ InStep(c, Content(r), d, S, u)
    BY <1>5 DEF Editing
  <2> DEFINE X == Content(r)
  <2>2. Doc(X)
    BY <2>1 DEF InStep
  <2>3. Fits(X, m) /\ InStep(c, Effect(X, m), t, S, u)
    BY <2>1, HeardFirst
  <2>4. Holding(r, X, Flatten(r.symbols))
    BY <2>1, <2>2, ReplicaHolds DEF Content
  <2>5. Holds(q, Effect(X, m))
    BY <2>3, <2>4, OperationApplied
  <2> HIDE DEF X, q, m, t
  <2>6. Good(q) /\ Content(q) = Effect(X, m)
    BY <2>5, ContentIs
  <2>7. Editing(c, q, u, t, sh, S)
    BY <2>1, <2>3, <2>6 DEF Editing
  <2>8. Window(c, ph, q, load, u, t, sh, S)
    BY <1>1, <1>2, <1>5, <2>7 DEF Window
  <2> QED BY <1>5, <2>8 DEF q, t, m
<1>6. CASE ph = "gone" /\ Gone(c, r, u, d, S)
  <2> HIDE DEF t
  <2>1. Gone(c, r, u, t, S)
    BY <1>2, <1>6 DEF Gone
  <2>2. Window(c, ph, r, load, u, t, sh, S)
    BY <1>1, <1>2, <1>6, <2>1 DEF Window
  <2> QED BY <1>6, <2>2 DEF t
<1> QED BY <1>3, <1>4, <1>5, <1>6, WhoHears

\* An editor handles an operation.
LEMMA Hearing ==
  ASSUME Facts, NEW c \in Clients, ReceiveOperation(c)
  PROVE  Facts'
<1>1. /\ scenario \in Scenarios /\ Orderly /\ Doc(stored) /\ DOMAIN rep = Clients /\ DOMAIN phase = Clients /\ DOMAIN toLoad = Clients
      /\ DOMAIN up = Clients /\ DOMAIN down = Clients /\ sharing \subseteq Clients /\ ops \in 0 .. scenario.ops
      /\ Window(c, phase[c], rep[c], toLoad[c], up[c], down[c], sharing, stored)
  BY FactsAt
<1> DEFINE m == Head(down[c])
           q == IF phase[c] = "gone" THEN rep[c] ELSE Apply(rep[c], m)
<1>2. /\ down[c] # <<>> /\ (phase[c] = "loading" => toLoad[c].done >= 2) /\ m.type \in Operations
      /\ down' = [down EXCEPT ![c] = Tail(down[c])]
      /\ rep' = (IF phase[c] = "gone" THEN rep ELSE [rep EXCEPT ![c] = Apply(rep[c], m)])
      /\ scenario' = scenario /\ phase' = phase /\ toLoad' = toLoad /\ up' = up /\ sharing' = sharing /\ stored' = stored /\ ops' = ops
  BY DEF ReceiveOperation, TakesMessage, CanReceive, server
<1>3. Window(c, phase[c], q, toLoad[c], up[c], Tail(down[c]), sharing, stored)
  BY <1>1, <1>2, OneHears
<1> HIDE DEF m
<1>4. Changes(rep, rep', c, q)
  <2>1. CASE phase[c] = "gone"
    BY <1>1, <1>2, <2>1, ChangesNone
  <2>2. CASE phase[c] # "gone"
    BY <1>1, <1>2, <2>2, ChangesOne
  <2> QED BY <2>1, <2>2
<1> HIDE DEF q
<1>5. Changes(down, down', c, Tail(down[c]))
  BY <1>1, <1>2, ChangesOne
<1>6. Changes(toLoad, toLoad', c, toLoad[c]) /\ Changes(phase, phase', c, phase[c]) /\ Changes(up, up', c, up[c])
  BY <1>1, <1>2, ChangesNone
<1> QED BY <1>1, <1>2, <1>3, <1>4, <1>5, <1>6, OneMoves

-----------------------------------------------------------------------------
\* An empty replica holds nothing.
LEMMA NothingHeld == Content(NewReplica) = {}
<1>1. NewReplica.symbols = << <<>> >> /\ <<>> \in Seq(SymbolType)
  BY DEF NewReplica
<1>2. Flatten(<< <<>> >>) = <<>>
  BY <1>1, FlatOne
<1> QED BY <1>1, <1>2 DEF Content, ToSet

\* An editor gets the symbols of the document.
LEMMA Getting ==
  ASSUME Facts, NEW c \in Clients, ReceiveFile(c)
  PROVE  Facts'
<1>1. /\ scenario \in Scenarios /\ Orderly /\ Doc(stored) /\ DOMAIN rep = Clients /\ DOMAIN phase = Clients /\ DOMAIN toLoad = Clients
      /\ DOMAIN up = Clients /\ DOMAIN down = Clients /\ sharing \subseteq Clients /\ ops \in 0 .. scenario.ops
      /\ up[c] \in Seq(MessageType) /\ down[c] \in Seq(MessageType)
      /\ Window(c, phase[c], rep[c], toLoad[c], up[c], down[c], sharing, stored)
  BY FactsAt
<1> DEFINE Q == Head(down[c]).symbols
           t == Tail(down[c])
           load == [left |-> Q, done |-> 0]
           ph == IF Q = <<>> THEN "home" ELSE "loading"
<1>2. /\ down[c] # <<>> /\ Head(down[c]).type = "file_to_open" /\ down' = [down EXCEPT ![c] = t]
      /\ phase' = [phase EXCEPT ![c] = ph] /\ toLoad' = [toLoad EXCEPT ![c] = load]
      /\ scenario' = scenario /\ rep' = rep /\ up' = up /\ sharing' = sharing /\ stored' = stored /\ ops' = ops
  BY DEF ReceiveFile, TakesMessage, CanReceive, server
<1>3. Head(down[c]) = down[c][1] /\ 1 \in 1 .. Len(down[c]) /\ t \in Seq(MessageType) /\ Head(down[c]) \in MessageType
  <2>1. Head(down[c]) = down[c][1] /\ 1 \in 1 .. Len(down[c]) /\ t \in Seq(MessageType)
    BY <1>1, <1>2, HeadTail
  <2> QED BY <1>1, <2>1, QueueAt
<1>4. phase[c] = "opening" /\ c \in sharing /\ rep[c] = NewReplica /\ ~NobodyOpens /\ Answered(c, up[c], down[c], stored)
  <2>1. ~(Editing(c, rep[c], up[c], down[c], sharing, stored)) /\ ~(Loading(c, rep[c], toLoad[c], up[c], down[c], sharing, stored))
    BY <1>2, <1>3, KindsOfMessage DEF Editing, Loading, InStep
  <2>2. ~(Gone(c, rep[c], up[c], down[c], stored))
    BY <1>2, <1>3, KindsOfMessage DEF Gone
  <2> QED BY <1>1, <1>2, <2>1, <2>2, WhoHears
<1>5. up[c] = <<>> /\ Loadable(Q) /\ Last(Q).val = NUL /\ InStep(c, ToSet(Q), t, stored, up[c])
  BY <1>4 DEF Answered
<1>6. Q # <<>> /\ Q \in Seq(SymbolType)
  BY <1>3, <1>5, MessageFields DEF Loadable
<1> HIDE DEF Q, t
<1>7. load.left = Q /\ load.done = 0 /\ ph = "loading"
  BY <1>6
<1> HIDE DEF load, ph
<1>8. InStep(c, Content(rep[c]) \cup ToSet(load.left), t, stored, up[c])
  BY <1>4, <1>5, <1>7, NothingHeld
<1>9. Loading(c, rep[c], load, up[c], t, sharing, stored)
  BY <1>4, <1>5, <1>7, <1>8 DEF Loading
<1>10. Window(c, ph, rep[c], load, up[c], t, sharing', stored)
  BY <1>1, <1>2, <1>3, <1>6, <1>7, <1>9 DEF Window
<1>11. Changes(down, down', c, t) /\ Changes(phase, phase', c, ph) /\ Changes(toLoad, toLoad', c, load)
  BY <1>1, <1>2, ChangesOne
<1>12. Changes(rep, rep', c, rep[c]) /\ Changes(up, up', c, up[c])
  BY <1>1, <1>2, ChangesNone
<1> QED BY <1>1, <1>2, <1>10, <1>11, <1>12, OneMoves

\* Numbers: one less.
LEMMA OneLess ==
  ASSUME NEW m \in Nat, m > 0
  PROVE  m - 1 \in 0 .. m /\ m - 1 \in Nat /\ m \in 1 .. m /\ (m = 1 <=> m - 1 = 0) /\ \A k \in 1 .. m : k \in 1 .. m - 1 \/ k = m
OBVIOUS

\* A sequence without its last element.
LEMMA LastOff ==
  ASSUME NEW T, NEW q \in Seq(T), q # <<>>
  PROVE  /\ Front(q) \in Seq(T) /\ Len(q) \in Nat /\ Len(q) > 0 /\ Len(Front(q)) = Len(q) - 1 /\ \A k \in 1 .. Len(q) - 1 : Front(q)[k] = q[k]
         /\ Last(q) = q[Len(q)] /\ Len(q) \in 1 .. Len(q) /\ DOMAIN q = 1 .. Len(q) /\ DOMAIN Front(q) = 1 .. Len(q) - 1
         /\ \A k \in 1 .. Len(q) : k \in 1 .. Len(q) - 1 \/ k = Len(q)
         /\ Len(q) = 1 => Front(q) = <<>>
         /\ Len(q) # 1 => Front(q) # <<>>
<1>1. Len(q) \in Nat /\ Len(q) > 0 /\ DOMAIN q = 1 .. Len(q) /\ Last(q) = q[Len(q)]
  BY DEF Last
<1> DEFINE n == Len(q) - 1
           f == SubSeq(q, 1, n)
<1>2. n \in 0 .. Len(q) /\ n \in Nat /\ Len(q) \in 1 .. Len(q) /\ (Len(q) = 1 <=> n = 0) /\ \A k \in 1 .. Len(q) : k \in 1 .. n \/ k = Len(q)
  BY <1>1, OneLess, Zenon
<1> HIDE DEF n
<1>3. f \in Seq(T) /\ Len(f) = n /\ \A k \in 1 .. n : f[k] = q[k]
  BY <1>2, Cut
<1> HIDE DEF f
<1>4. DOMAIN f = 1 .. n /\ (n = 0 => f = <<>>) /\ (n # 0 => f # <<>>)
  BY <1>2, <1>3
<1>5. Front(q) = f
  BY DEF Front, f, n
<1>6. /\ Front(q) \in Seq(T) /\ Len(Front(q)) = n /\ \A k \in 1 .. n : Front(q)[k] = q[k]
      /\ DOMAIN Front(q) = 1 .. n /\ (Len(q) = 1 => Front(q) = <<>>) /\ (Len(q) # 1 => Front(q) # <<>>)
  BY <1>2, <1>3, <1>4, <1>5
<1> QED BY <1>1, <1>2, <1>6, Zenon DEF n

\* The last of some symbols to load, and the others.
LEMMA LastLoaded ==
  ASSUME NEW q \in Seq(SymbolType), Loadable(q)
  PROVE  /\ Last(q) \in SymbolType /\ ToSet(q) = ToSet(Front(q)) \cup {Last(q)}
         /\ Last(q).pos \notin PositionsOf(Front(q)) /\ PositionsOf(Front(q)) \subseteq PositionsOf(q) /\ Last(q).pos \in PositionsOf(q)
         /\ \A i, j \in DOMAIN Front(q) : Front(q)[i].pos = Front(q)[j].pos => i = j
<1>1. q # <<>> /\ \A i, j \in 1 .. Len(q) : q[i].pos = q[j].pos => i = j
  BY DEF Loadable
<1> DEFINE f == Front(q)
           n == Len(q)
           s == Last(q)
<1>2. /\ f \in Seq(SymbolType) /\ n \in Nat /\ n > 0 /\ \A k \in 1 .. n - 1 : f[k] = q[k]
      /\ s = q[n] /\ n \in 1 .. n /\ DOMAIN q = 1 .. n /\ DOMAIN f = 1 .. n - 1
      /\ \A k \in 1 .. n : k \in 1 .. n - 1 \/ k = n
  BY <1>1, LastOff
<1> HIDE DEF f, s
<1>a. s \in SymbolType
  <2>1. q[n] \in SymbolType
    BY <1>2, SymbolsAt, Zenon DEF n
  <2> QED BY <1>2, <2>1, Zenon
<1>3. \A i, j \in 1 .. n : q[i].pos = q[j].pos => i = j
  BY <1>1
<1> HIDE DEF n
<1>4. 1 .. n - 1 \subseteq 1 .. n /\ n \notin 1 .. n - 1
  BY <1>2
<1>5. ToSet(q) = ToSet(f) \cup {s}
  <2>1. ToSet(q) = {q[k] : k \in 1 .. n} /\ ToSet(f) = {f[k] : k \in 1 .. n - 1}
    BY <1>2, Zenon DEF ToSet
  <2>2. \A k \in 1 .. n : q[k] \in {f[j] : j \in 1 .. n - 1} \cup {s}
    BY <1>2
  <2>3. \A k \in 1 .. n - 1 : f[k] \in {q[j] : j \in 1 .. n}
    BY <1>2, <1>4
  <2>4. s \in {q[j] : j \in 1 .. n}
    BY <1>2
  <2> QED BY <2>1, <2>2, <2>3, <2>4
<1>6. PositionsOf(f) = {f[k].pos : k \in 1 .. n - 1} /\ PositionsOf(q) = {q[k].pos : k \in 1 .. n}
  BY <1>2 DEF PositionsOf
<1>7. s.pos \notin PositionsOf(f) /\ PositionsOf(f) \subseteq PositionsOf(q) /\ s.pos \in PositionsOf(q)
  BY <1>2, <1>3, <1>4, <1>6
<1>8. \A i, j \in DOMAIN f : f[i].pos = f[j].pos => i = j
  BY <1>2, <1>3, <1>4
<1> QED BY <1>5, <1>7, <1>8, <1>a DEF f, s

\* One more symbol loaded.
LEMMA SymbolLoaded ==
  ASSUME NEW c, NEW r, NEW load, NEW u, NEW d, NEW sh, NEW S, Loading(c, r, load, u, d, sh, S), load.left \in Seq(SymbolType)
  PROVE  LET s == Last(load.left)
         IN  Holds(LoadSymbol(r, s), Content(r) \cup {s}) /\ Apart(Content(r) \cup {s}, Front(load.left))
<1> DEFINE q == load.left
           s == Last(q)
           X == Content(r)
           T == X \cup ToSet(q)
<1>1. Loadable(q) /\ InStep(c, T, d, S, u)
  BY DEF Loading
<1>2. Doc(T)
  BY <1>1 DEF InStep
<1>3. /\ s \in SymbolType /\ ToSet(q) = ToSet(Front(q)) \cup {s}
      /\ s.pos \notin PositionsOf(Front(q)) /\ PositionsOf(Front(q)) \subseteq PositionsOf(q) /\ s.pos \in PositionsOf(q)
  BY <1>1, LastLoaded
<1>4. s \in T
  BY <1>3
<1>5. s.pos \in Int
  BY <1>3, SymbolFields
<1>6. CASE load.done = 0
  <2>1. r = NewReplica /\ s.val = NUL
    BY <1>6 DEF Loading
  <2>2. X = {}
    BY <2>1, NothingHeld
  <2>3. Holds(LoadSymbol(r, s), {s})
    BY <1>3, <2>1, LoadFirst
  <2> HIDE DEF s, X, T
  <2>4. s.pos = End
    BY <1>2, <1>4, <2>1 DEF Doc
  <2>5. Apart({s}, Front(q))
    BY <1>3, <2>4 DEF Apart, Pos
  <2>6. X \cup {s} = {s}
    BY <2>2
  <2> QED BY <2>3, <2>5, <2>6 DEF s, X
<1>7. CASE load.done # 0
  <2>1. Good(r) /\ Pos(X) \cap PositionsOf(q) = {} /\ End \in Pos(X)
    BY <1>7 DEF Loading
  <2>2. X \subseteq T
    OBVIOUS
  <2> HIDE DEF s, T
  <2>3. Doc(X)
    BY <1>2, <2>1, <2>2, DocPart
  <2>4. Holding(r, X, Flatten(r.symbols))
    BY <2>1, <2>3, ReplicaHolds DEF Content
  <2>5. s.pos \notin Pos(X) /\ s.pos # End
    BY <1>3, <2>1
  <2>6. s.val # NUL /\ s.pos < End
    BY <1>2, <1>4, <2>5 DEF Doc
  <2> HIDE DEF X
  <2>7. PICK o \in 0 .. Len(Flatten(r.symbols)) - 1 : Gap(Flatten(r.symbols), o, s.pos)
    BY <1>5, <2>4, <2>5, <2>6, GapOf
  <2>8. Holds(LoadSymbol(r, s), X \cup {s})
    BY <1>3, <2>1, <2>6, <2>7, LoadNext DEF X, Content
  <2>9. Apart(X \cup {s}, Front(q))
    BY <1>3, <2>1 DEF Apart, Pos
  <2> QED BY <2>8, <2>9 DEF s, X
<1> QED BY <1>6, <1>7

\* A round of a load, in the window of its editor.
LEMMA OneLoads ==
  ASSUME NEW c, NEW r, NEW load, NEW u, NEW d, NEW sh, NEW S, Window(c, "loading", r, load, u, d, sh, S),
         NEW next, next = IF Front(load.left) = <<>> THEN [left |-> <<>>, done |-> 0] ELSE [left |-> Front(load.left), done |-> load.done + 1],
         NEW ph, ph = IF Len(load.left) = 1 THEN "editing" ELSE "loading"
  PROVE  Window(c, ph, LoadSymbol(r, Last(load.left)), next, u, d, sh, S)
<1>1. u \in Seq(MessageType) /\ d \in Seq(MessageType) /\ load.left \in Seq(SymbolType) /\ load.done \in Nat /\ Loading(c, r, load, u, d, sh, S)
  BY DEF Window
<1>2. /\ ~NobodyOpens /\ c \in sh /\ u = <<>> /\ Loadable(load.left) /\ InStep(c, Content(r) \cup ToSet(load.left), d, S, u)
  BY <1>1 DEF Loading
<1> DEFINE s == Last(load.left)
           f == Front(load.left)
           q == LoadSymbol(r, s)
<1>3. Holds(q, Content(r) \cup {s}) /\ Apart(Content(r) \cup {s}, f)
  BY <1>1, SymbolLoaded
<1>4. /\ ToSet(load.left) = ToSet(f) \cup {s} /\ \A i, j \in DOMAIN f : f[i].pos = f[j].pos => i = j
  BY <1>1, <1>2, LastLoaded
<1>5. /\ f \in Seq(SymbolType) /\ (Len(load.left) = 1 => f = <<>>) /\ (Len(load.left) # 1 => f # <<>>)
  BY <1>1, <1>2, LastOff DEF Loadable
<1> HIDE DEF q, s, f
<1>6. Good(q) /\ Content(q) = Content(r) \cup {s}
  BY <1>3, ContentIs
<1>7. InStep(c, Content(q) \cup ToSet(f), d, S, u)
  <2>1. Content(q) \cup ToSet(f) = Content(r) \cup ToSet(load.left)
    BY <1>4, <1>6
  <2> QED BY <1>2, <2>1
<1>8. CASE Len(load.left) = 1
  <2>1. f = <<>> /\ ph = "editing"
    BY <1>5, <1>8
  <2>2. next.left = <<>> /\ next.done = 0
    BY <2>1 DEF f
  <2>3. Content(q) \cup ToSet(f) = Content(q)
    BY <2>1 DEF ToSet
  <2>4. FromOne(c, u)
    <3>1. <<>> \in Seq(MessageType) /\ Len(<<>>) = 0
      OBVIOUS
    <3> QED BY <1>2, <3>1 DEF FromOne
  <2>5. Editing(c, q, u, d, sh, S)
    BY <1>2, <1>6, <1>7, <2>3, <2>4 DEF Editing
  <2>6. <<>> \in Seq(SymbolType)
    OBVIOUS
  <2>7. Window(c, ph, q, next, u, d, sh, S)
    BY <1>1, <2>1, <2>2, <2>5, <2>6 DEF Window
  <2> QED BY <2>7 DEF q, s
<1>9. CASE Len(load.left) # 1
  <2>1. f # <<>> /\ ph = "loading"
    BY <1>5, <1>9
  <2>2. next.left = f /\ next.done = load.done + 1
    BY <2>1 DEF f
  <2>3. next.done \in Nat /\ next.done # 0
    BY <1>1, <2>2
  <2>4. Loadable(f)
    <3>1. DOMAIN f = 1 .. Len(f)
      BY <1>5
    <3> QED BY <1>4, <2>1, <3>1 DEF Loadable
  <2>5. Loading(c, q, next, u, d, sh, S)
    BY <1>2, <1>3, <1>6, <1>7, <2>2, <2>3, <2>4 DEF Loading, Apart
  <2>6. Window(c, ph, q, next, u, d, sh, S)
    BY <1>1, <1>5, <2>1, <2>2, <2>3, <2>5 DEF Window
  <2> QED BY <2>6 DEF q, s
<1> QED BY <1>8, <1>9

\* A round of a load.
LEMMA LoadGoesOn ==
  ASSUME Facts, NEW c \in Clients, LoadStep(c)
  PROVE  Facts'
<1>1. /\ scenario \in Scenarios /\ Orderly /\ Doc(stored) /\ DOMAIN rep = Clients /\ DOMAIN phase = Clients /\ DOMAIN toLoad = Clients
      /\ DOMAIN up = Clients /\ DOMAIN down = Clients /\ sharing \subseteq Clients /\ ops \in 0 .. scenario.ops
      /\ Window(c, phase[c], rep[c], toLoad[c], up[c], down[c], sharing, stored)
  BY FactsAt
<1> DEFINE next == IF Front(toLoad[c].left) = <<>> THEN [left |-> <<>>, done |-> 0]
                   ELSE [left |-> Front(toLoad[c].left), done |-> toLoad[c].done + 1]
           ph == IF Len(toLoad[c].left) = 1 THEN "editing" ELSE "loading"
           q == LoadSymbol(rep[c], Last(toLoad[c].left))
<1>2. phase[c] = "loading"
  BY DEF LoadStep, TakesSymbol
<1>3. /\ toLoad' = [toLoad EXCEPT ![c] = next] /\ phase' = [phase EXCEPT ![c] = ph] /\ rep' = [rep EXCEPT ![c] = q]
      /\ scenario' = scenario /\ up' = up /\ down' = down /\ sharing' = sharing /\ stored' = stored /\ ops' = ops
  BY <1>2 DEF LoadStep, TakesSymbol, server
<1>4. Window(c, ph, q, next, up[c], down[c], sharing', stored)
  <2>1. Window(c, "loading", rep[c], toLoad[c], up[c], down[c], sharing, stored)
    BY <1>1, <1>2
  <2> QED BY <1>3, <2>1, OneLoads
<1> HIDE DEF q, next, ph
<1>5. Changes(toLoad, toLoad', c, next) /\ Changes(phase, phase', c, ph) /\ Changes(rep, rep', c, q)
  BY <1>1, <1>3, ChangesOne
<1>6. Changes(down, down', c, down[c]) /\ Changes(up, up', c, up[c])
  BY <1>1, <1>3, ChangesNone
<1> QED BY <1>1, <1>3, <1>4, <1>5, <1>6, OneMoves

Loads == INSTANCE FoldProofs WITH Op <- LoadSymbol

\* Numbers: counting from the end.
LEMMA FromTheEnd ==
  ASSUME NEW n \in Nat
  PROVE  /\ \A k \in 1 .. n : (n - k) + 1 \in 1 .. n
         /\ \A j \in 1 .. n : (n - ((n - j) + 1)) + 1 = j /\ (n - j) + 1 \in 1 .. n
         /\ \A j, k \in 1 .. n : j < k => (n - k) + 1 < (n - j) + 1
OBVIOUS

\* A sequence in order, read from its end.
LEMMA Reversed ==
  ASSUME NEW Q \in Seq(SymbolType), Sorted(Q), NEW R, R = Reverse(Q)
  PROVE  /\ R \in Seq(SymbolType) /\ Len(R) = Len(Q) /\ DOMAIN R = 1 .. Len(R) /\ Len(R) \in Nat /\ ToSet(R) = ToSet(Q)
         /\ \A k \in 1 .. Len(R) : R[k] \in SymbolType
         /\ \A j, k \in 1 .. Len(R) : j < k => R[k].pos < R[j].pos
<1> DEFINE n == Len(Q)
<1>1. n \in Nat /\ DOMAIN Q = 1 .. n /\ \A k \in 1 .. n : Q[k] \in SymbolType
  OBVIOUS
<1>2. \A i, j \in 1 .. n : i < j => Q[i].pos < Q[j].pos
  BY DEF Sorted
<1>3. R = [i \in 1 .. n |-> Q[(n - i) + 1]]
  BY DEF Reverse
<1> HIDE DEF n
<1>4. /\ \A k \in 1 .. n : (n - k) + 1 \in 1 .. n
      /\ \A j \in 1 .. n : (n - ((n - j) + 1)) + 1 = j /\ (n - j) + 1 \in 1 .. n
      /\ \A j, k \in 1 .. n : j < k => (n - k) + 1 < (n - j) + 1
  BY <1>1, FromTheEnd
<1>5. DOMAIN R = 1 .. n /\ \A k \in 1 .. n : R[k] = Q[(n - k) + 1] /\ R[k] \in SymbolType
  BY <1>1, <1>3, <1>4
<1>6. R \in Seq(SymbolType) /\ Len(R) = n
  BY <1>1, <1>3, <1>5
<1>7. ToSet(R) = ToSet(Q)
  <2>1. ToSet(R) = {R[k] : k \in 1 .. n} /\ ToSet(Q) = {Q[k] : k \in 1 .. n}
    BY <1>1, <1>5, Zenon DEF ToSet
  <2>2. \A k \in 1 .. n : R[k] \in {Q[j] : j \in 1 .. n}
    BY <1>4, <1>5
  <2>3. \A k \in 1 .. n : Q[k] \in {R[j] : j \in 1 .. n}
    BY <1>4, <1>5
  <2> QED BY <2>1, <2>2, <2>3
<1>8. \A j, k \in 1 .. n : j < k => R[k].pos < R[j].pos
  BY <1>2, <1>4, <1>5
<1> QED BY <1>1, <1>5, <1>6, <1>7, <1>8 DEF n

\* The document at the start.
LEMMA DocumentDoc == Doc(Document)
<1>1. PICK s \in Document : s.val = NUL /\ \A t \in Document \ {s} : t.val # NUL /\ t.pos < s.pos
  BY DocumentAssumption
<1>2. (CHOOSE t \in Document : t.val = NUL) = s
  BY <1>1
<1>3. End = s.pos
  BY <1>2 DEF End
<1>4. Unique(Document)
  BY DocumentAssumption DEF Unique
<1> QED BY <1>1, <1>3, <1>4 DEF Doc

\* The first of the symbols when they are loaded is the terminator.
Descends(R) ==
  /\ R \in Seq(SymbolType) /\ Len(R) \in Nat /\ Len(R) > 0 /\ DOMAIN R = 1 .. Len(R) /\ R[1].val = NUL
  /\ \A k \in 1 .. Len(R) : R[k] \in SymbolType /\ R[k].pos \in Int /\ (k # 1 => R[k].val # NUL)
  /\ \A j, k \in 1 .. Len(R) : j < k => R[k].pos < R[j].pos

\* The order in which a document is loaded.
LEMMA DocumentDescends ==
  ASSUME NEW R, R = Reverse(SymbolsByPosition(Document))
  PROVE  Descends(R) /\ ToSet(R) = Document
<1> DEFINE Q == SymbolsByPosition(Document)
<1>0. Unique(Document)
  BY DocumentDoc DEF Doc
<1>1. Q \in Seq(SymbolType) /\ Sorted(Q) /\ ToSet(Q) = Document
  BY <1>0, ByPosition
<1> HIDE DEF Q
<1>2. R = Reverse(Q)
  BY DEF Q
<1>3. /\ R \in Seq(SymbolType) /\ DOMAIN R = 1 .. Len(R) /\ Len(R) \in Nat /\ ToSet(R) = Document
      /\ \A k \in 1 .. Len(R) : R[k] \in SymbolType
      /\ \A j, k \in 1 .. Len(R) : j < k => R[k].pos < R[j].pos
  BY <1>1, <1>2, Reversed
<1>4. ToSet(R) = {R[k] : k \in 1 .. Len(R)}
  BY <1>3, Zenon DEF ToSet
<1>5. \A k \in 1 .. Len(R) : R[k].pos \in Int /\ R[k] \in Document
  BY <1>3, <1>4, SymbolFields
<1>6. PICK e \in Document : e.pos = End /\ e.val = NUL
  BY DocumentDoc DEF Doc
<1>7. PICK j \in 1 .. Len(R) : e = R[j]
  BY <1>3, <1>4
<1>8. Len(R) > 0 /\ 1 \in 1 .. Len(R) /\ (j = 1 \/ 1 < j)
  BY <1>3
<1>9. \A s \in Document : s.pos # End => s.val # NUL /\ s.pos < End
  BY DocumentDoc DEF Doc
<1>10. j = 1
  <2>1. SUFFICES ASSUME 1 < j PROVE FALSE
    BY <1>8
  <2>2. R[j].pos < R[1].pos
    BY <1>3, <1>8, <2>1
  <2>3. R[1].pos = End \/ R[1].pos < End
    BY <1>5, <1>8, <1>9
  <2> QED BY <1>5, <1>6, <1>7, <1>8, <2>2, <2>3
<1>11. ASSUME NEW k \in 1 .. Len(R), k # 1 PROVE R[k].val # NUL
  <2>1. 1 < k
    BY <1>11
  <2>2. R[k].pos < R[1].pos
    BY <1>3, <1>8, <2>1
  <2>3. R[k].pos # End
    BY <1>5, <1>6, <1>7, <1>8, <1>10, <2>2
  <2> QED BY <1>5, <1>9, <2>3
<1> QED BY <1>3, <1>5, <1>6, <1>7, <1>8, <1>10, <1>11 DEF Descends

\* The first k symbols.
LoadedUpTo(R, k) == {R[j] : j \in 1 .. k}

\* One more symbol loaded.
LEMMA LoadedMore ==
  ASSUME NEW R, NEW k \in Nat
  PROVE  LoadedUpTo(R, k + 1) = LoadedUpTo(R, k) \cup {R[k + 1]} /\ LoadedUpTo(R, 1) = {R[1]}
<1>1. 1 .. k + 1 = (1 .. k) \cup {k + 1} /\ 1 .. 1 = {1}
  OBVIOUS
<1> QED BY <1>1 DEF LoadedUpTo

\* The next symbol of a load goes before those that are there.
LEMMA LoadsNext ==
  ASSUME NEW R, Descends(R), NEW k \in Nat, k > 0, k + 1 <= Len(R), NEW q, Holds(q, LoadedUpTo(R, k))
  PROVE  Holds(LoadSymbol(q, R[k + 1]), LoadedUpTo(R, k + 1))
<1> DEFINE F == Flatten(q.symbols)
           s == R[k + 1]
<1>1. Good(q) /\ ToSet(F) = LoadedUpTo(R, k)
  BY DEF Holds
<1>2. k + 1 \in 1 .. Len(R) /\ k + 1 # 1 /\ \A j \in 1 .. k : j \in 1 .. Len(R) /\ j < k + 1
  BY DEF Descends
<1>3. s \in SymbolType /\ s.val # NUL /\ s.pos \in Int /\ \A j \in 1 .. k : s.pos < R[j].pos
  BY <1>2 DEF Descends
<1>4. F \in Seq(SymbolType) /\ Len(F) \in Nat /\ Len(F) > 0
  BY <1>1, Lengths
<1> HIDE DEF F, s
<1>5. 1 \in 1 .. Len(F) /\ F[1] \in ToSet(F) /\ 0 \in 0 .. Len(F) - 1
  <2>1. 1 \in 1 .. Len(F) /\ DOMAIN F = 1 .. Len(F) /\ 0 \in 0 .. Len(F) - 1
    BY <1>4
  <2> QED BY <2>1, Zenon DEF ToSet
<1>6. PICK j \in 1 .. k : F[1] = R[j]
  BY <1>1, <1>5 DEF LoadedUpTo
<1>7. Gap(F, 0, s.pos)
  <2>1. s.pos < F[1].pos
    BY <1>3, <1>6
  <2> QED BY <1>5, <2>1 DEF Gap
<1>8. Holds(LoadSymbol(q, s), ToSet(F) \cup {s})
  BY <1>1, <1>3, <1>5, <1>7, LoadNext DEF F
<1>9. ToSet(F) \cup {s} = LoadedUpTo(R, k + 1)
  BY <1>1, LoadedMore DEF s
<1> QED BY <1>8, <1>9 DEF s

\* All of them.
LEMMA LoadsAll ==
  ASSUME NEW R, Descends(R)
  PROVE  Holds(FoldLeft(LoadSymbol, NewReplica, R), ToSet(R))
<1>0. Len(R) \in Nat /\ DOMAIN R = 1 .. Len(R) /\ Len(R) > 0 /\ R[1] \in SymbolType /\ R[1].val = NUL
  <2>1. Len(R) \in Nat /\ DOMAIN R = 1 .. Len(R) /\ Len(R) > 0 /\ R[1].val = NUL
    BY DEF Descends
  <2>2. 1 \in 1 .. Len(R)
    BY <2>1
  <2> QED BY <2>1, <2>2 DEF Descends
<1>f. PICK f : Loads!Steps(NewReplica, R, f)
  BY <1>0, Counting, Loads!FoldedSteps DEF Loads!CanCount
<1>1. /\ DOMAIN f = 0 .. Len(R) /\ f[0] = NewReplica /\ f[Len(R)] = Loads!Folded(NewReplica, R)
      /\ \A k \in 1 .. Len(R) : f[k] = LoadSymbol(f[k - 1], R[k])
  BY <1>f, Zenon DEF Loads!Steps
<1>2. Loads!Folded(NewReplica, R) = FoldLeft(LoadSymbol, NewReplica, R)
  BY DEF Loads!Folded, FoldLeft, MapThenFoldSet, Max, Loads!MapThenFoldSet, Loads!Greatest
<1> DEFINE Done == {k \in Nat : (k > 0 /\ k <= Len(R)) => Holds(f[k], LoadedUpTo(R, k))}
<1>3. 0 \in Done
  OBVIOUS
<1>4. ASSUME NEW k \in Done PROVE k + 1 \in Done
  <2> SUFFICES ASSUME k + 1 <= Len(R) PROVE Holds(f[k + 1], LoadedUpTo(R, k + 1))
    OBVIOUS
  <2>0. k \in Nat
    OBVIOUS
  <2>1. k + 1 \in 1 .. Len(R) /\ (k + 1) - 1 = k /\ k <= Len(R)
    BY <1>0, <2>0
  <2>2. f[k + 1] = LoadSymbol(f[k], R[k + 1])
    BY <1>1, <2>1
  <2>3. CASE k = 0
    <3>1. Holds(LoadSymbol(NewReplica, R[1]), {R[1]})
      BY <1>0, LoadFirst
    <3>2. f[1] = LoadSymbol(NewReplica, R[1])
      BY <1>1, <2>2, <2>3
    <3>3. LoadedUpTo(R, 1) = {R[1]}
      BY <2>0, LoadedMore
    <3>4. k + 1 = 1
      BY <2>3
    <3> HIDE DEF Done
    <3>5. Holds(f[1], LoadedUpTo(R, 1))
      BY <3>1, <3>2, <3>3, Zenon
    <3> QED BY <3>4, <3>5, Zenon
  <2>4. CASE k # 0
    <3>1. k > 0
      BY <2>0, <2>4
    <3>2. Holds(f[k], LoadedUpTo(R, k))
      BY <2>1, <3>1
    <3>3. Holds(LoadSymbol(f[k], R[k + 1]), LoadedUpTo(R, k + 1))
      <4> HIDE DEF Done
      <4> QED BY <2>0, <3>1, <3>2, LoadsNext
    <3> QED BY <2>2, <3>3
  <2> QED BY <2>3, <2>4
<1>5. 0 .. Len(R) \subseteq Done
  <2> HIDE DEF Done
  <2> QED BY <1>0, <1>3, <1>4, UpTo
<1>6. Len(R) \in Done
  <2>1. Len(R) \in 0 .. Len(R)
    BY <1>0
  <2> HIDE DEF Done
  <2> QED BY <1>5, <2>1
<1>7. Holds(f[Len(R)], LoadedUpTo(R, Len(R)))
  BY <1>0, <1>6
<1>8. LoadedUpTo(R, Len(R)) = ToSet(R)
  <2>1. ToSet(R) = {R[k] : k \in 1 .. Len(R)}
    BY <1>0, Zenon DEF ToSet
  <2> QED BY <2>1, Zenon DEF LoadedUpTo
<1> QED BY <1>1, <1>2, <1>7, <1>8

\* An editor that has the document open at the start holds it.
LEMMA LoadedDocument == Good(Loaded(Document)) /\ Content(Loaded(Document)) = Document
<1> DEFINE R == Reverse(SymbolsByPosition(Document))
<1>1. Descends(R) /\ ToSet(R) = Document
  BY DocumentDescends
<1> HIDE DEF R
<1>2. Holds(FoldLeft(LoadSymbol, NewReplica, R), Document)
  BY <1>1, LoadsAll
<1>3. Loaded(Document) = FoldLeft(LoadSymbol, NewReplica, R)
  BY DEF Loaded, R
<1> QED BY <1>2, <1>3, ContentIs

\* The invariant holds at the start.
LEMMA InitFacts ==
  ASSUME Init, Orderly
  PROVE  Facts
<1>1. /\ scenario \in Scenarios /\ sharing = scenario.present /\ stored = Document /\ ops = 0
      /\ rep = [c \in Clients |-> IF c \in scenario.present THEN Loaded(Document) ELSE NewReplica]
      /\ phase = [c \in Clients |-> IF c \in scenario.present THEN "editing" ELSE "home"]
      /\ toLoad = [c \in Clients |-> [left |-> <<>>, done |-> 0]]
      /\ up = [c \in Clients |-> <<>>] /\ down = [c \in Clients |-> <<>>]
  BY DEF Init
<1>2. Functions
  <2>1. 0 \in 0 .. scenario.ops /\ scenario.present \subseteq Clients
    BY <1>1, ScenarioTypes
  <2> QED BY <1>1, <2>1 DEF Functions
<1>e. <<>> \in Seq(MessageType) /\ <<>> \in Seq(SymbolType) /\ Len(<<>>) = 0
  OBVIOUS
<1>3. ASSUME NEW c \in Clients PROVE Window(c, phase[c], rep[c], toLoad[c], up[c], down[c], sharing, stored)
  <2>1. up[c] = <<>> /\ down[c] = <<>> /\ toLoad[c].left = <<>> /\ toLoad[c].done = 0
    BY <1>1
  <2>2. CASE c \in scenario.present
    <3>1. phase[c] = "editing" /\ rep[c] = Loaded(Document)
      BY <1>1, <2>2
    <3>2. InStep(c, Content(rep[c]), down[c], stored, up[c])
      <4>1. Leads(Document, <<>>, Document)
        BY LeadsNowhere
      <4> QED BY <1>1, <1>e, <2>1, <3>1, <4>1, LoadedDocument, DocumentDoc DEF InStep
    <3>3. FromOne(c, up[c])
      BY <1>e, <2>1 DEF FromOne
    <3>4. Editing(c, rep[c], up[c], down[c], sharing, stored)
      BY <1>1, <2>2, <3>1, <3>2, <3>3, LoadedDocument DEF Editing
    <3> QED BY <1>e, <2>1, <3>1, <3>4 DEF Window
  <2>3. CASE c \notin scenario.present
    <3>1. phase[c] = "home" /\ rep[c] = NewReplica
      BY <1>1, <2>3
    <3>2. Home(c, rep[c], up[c], down[c], sharing)
      BY <1>1, <2>1, <2>3, <3>1 DEF Home
    <3> QED BY <1>e, <2>1, <3>1, <3>2 DEF Window
  <2> QED BY <2>2, <2>3
<1>4. Everyone
  BY <1>3 DEF Everyone
<1> QED BY <1>1, <1>2, <1>4, DocumentDoc DEF Facts

\* A behaviour keeps its scenario.
LEMMA SameScenario ==
  ASSUME [Next]_vars
  PROVE  scenario' = scenario
<1>1. CASE UNCHANGED vars
  BY <1>1 DEF vars
<1>2. CASE Next
  <2>1. PICK c \in Clients : User(c) \/ Server(c) \/ Receive(c)
    BY <1>2 DEF Next
  <2>2. CASE UserInserts(c) \/ UserErases(c) \/ UserReplaces(c) \/ UserFormats(c) \/ UserAligns(c) \/ UserCloses(c)
    <3>1. \E kind : UserActs(c, kind)
      BY <2>2, Zenon DEF UserInserts, UserErases, UserReplaces, UserFormats, UserAligns, UserCloses
    <3> QED BY <3>1 DEF UserActs, server
  <2>3. CASE UserOpens(c)
    BY <2>3 DEF UserOpens, server
  <2>4. CASE Server(c)
    BY <2>4 DEF Server, ServerHandlesOperation, ServerSendsFile, ServerClosesFile
  <2>5. CASE Receive(c)
    BY <2>5 DEF Receive, ReceiveOperation, ReceiveFile, LoadStep, server
  <2> QED BY <2>1, <2>2, <2>3, <2>4, <2>5 DEF User
<1> QED BY <1>1, <1>2

\* A step that changes nothing keeps the invariant.
LEMMA Stays ==
  ASSUME Facts, UNCHANGED vars
  PROVE  Facts'
<1>1. /\ scenario' = scenario /\ rep' = rep /\ phase' = phase /\ toLoad' = toLoad /\ up' = up /\ down' = down
      /\ sharing' = sharing /\ stored' = stored /\ ops' = ops
  BY DEF vars
<1>2. Functions'
  BY <1>1 DEF Facts, Functions
<1>3. EveryoneNext
  <2>1. Everyone
    BY DEF Facts
  <2> QED BY <1>1, <2>1 DEF Everyone, EveryoneNext
<1>4. Doc(stored')
  BY <1>1 DEF Facts
<1> QED BY <1>1, <1>2, <1>3, <1>4, FactsKept

\* Every step keeps the invariant: one lemma for each action.
LEMMA StepFacts ==
  ASSUME Facts, [Next]_vars
  PROVE  Facts'
<1>1. CASE UNCHANGED vars
  BY <1>1, Stays
<1>2. CASE Next
  <2>1. PICK c \in Clients : User(c) \/ Server(c) \/ Receive(c)
    BY <1>2 DEF Next
  <2>2. CASE User(c)
    <3>1. CASE UserInserts(c) \/ UserErases(c) \/ UserReplaces(c) \/ UserFormats(c) \/ UserAligns(c)
      BY <3>1, UserEdits
    <3>2. CASE UserCloses(c)
      BY <3>2, Closing
    <3>3. CASE UserOpens(c)
      BY <3>3, Asking
    <3> QED BY <2>2, <3>1, <3>2, <3>3 DEF User
  <2>3. CASE Server(c)
    <3>1. CASE ServerHandlesOperation(c)
      BY <3>1, Handling
    <3>2. CASE ServerSendsFile(c)
      BY <3>2, Answering
    <3>3. CASE ServerClosesFile(c)
      BY <3>3, Leaving
    <3> QED BY <2>3, <3>1, <3>2, <3>3 DEF Server
  <2>4. CASE Receive(c)
    <3>1. CASE ReceiveOperation(c)
      BY <3>1, Hearing
    <3>2. CASE ReceiveFile(c)
      BY <3>2, Getting
    <3>3. CASE LoadStep(c)
      BY <3>3, LoadGoesOn
    <3> QED BY <2>4, <3>1, <3>2, <3>3 DEF Receive
  <2> QED BY <2>1, <2>2, <2>3, <2>4
<1> QED BY <1>1, <1>2

CollabInv == scenario \in Scenarios /\ (Orderly => Facts)

\* What is proved of every behaviour holds at the start.
LEMMA InvStarts == Init => CollabInv
<1>1. Init => scenario \in Scenarios
  BY DEF Init
<1> QED BY <1>1, InitFacts DEF CollabInv

\* It is kept by every step.
LEMMA InvStays == CollabInv /\ [Next]_vars => CollabInv'
<1> SUFFICES ASSUME CollabInv, [Next]_vars PROVE CollabInv'
  OBVIOUS
<1>1. scenario' = scenario
  BY SameScenario
<1>2. Orderly' <=> Orderly
  BY <1>1 DEF Orderly, NobodyOpens, OneUserPastes
<1>3. CASE Orderly
  <2>1. Facts'
    BY <1>3, StepFacts DEF CollabInv
  <2> QED BY <1>1, <2>1 DEF CollabInv
<1>4. CASE ~Orderly
  BY <1>1, <1>2, <1>4 DEF CollabInv
<1> QED BY <1>3, <1>4

\* The invariant holds in every behaviour: whenever the users are orderly, every
\* editor is in step with the server.
THEOREM CollabInvariant == Spec => []CollabInv
<1>1. Init => CollabInv
  BY InvStarts
<1>2. CollabInv /\ [Next]_vars => CollabInv'
  BY InvStays
<1> QED BY <1>1, <1>2, PTL DEF Spec

-----------------------------------------------------------------------------
\* An empty replica has its type.
LEMMA NewTyped == NewReplica \in Replica /\ NewReplica.size >= -1
<1>1. <<>> \in Seq(STRING) /\ << <<>> >> \in Seq(Seq(SymbolType))
  OBVIOUS
<1> QED BY <1>1 DEF NewReplica, Replica

\* The replica of every editor has its type.
LEMMA ReplicaTyped ==
  ASSUME NEW c, NEW ph, NEW r, NEW load, NEW u, NEW d, NEW sh, NEW S, Window(c, ph, r, load, u, d, sh, S)
  PROVE  r \in Replica /\ r.size >= -1
<1>1. CASE Good(r)
  <2>1. r \in Replica /\ r.size = Len(Flatten(r.symbols)) - 1 /\ Len(Flatten(r.symbols)) \in Nat
    <3>1. r \in Replica /\ r.size = Len(Flatten(r.symbols)) - 1
      BY <1>1 DEF Good
    <3> QED BY <1>1, <3>1, Lengths
  <2> HIDE <1>1
  <2> QED BY <2>1
<1>2. CASE r = NewReplica
  BY <1>2, NewTyped
<1>3. Good(r) \/ r = NewReplica
  BY DEF Window, Home, Opening, Loading, Editing, Gone
<1> QED BY <1>1, <1>2, <1>3

\* The type invariant follows.
LEMMA TypesRight == Facts => TypeOK
<1> SUFFICES ASSUME Facts PROVE TypeOK
  OBVIOUS
<1>1. scenario \in Scenarios /\ sharing \subseteq Clients /\ ops \in 0 .. scenario.ops /\ stored \subseteq SymbolType
  BY DEF Facts, Functions, Doc, Unique
<1>2. ASSUME NEW c \in Clients
      PROVE  /\ rep[c].size >= -1
             /\ rep[c].symbols \in Seq(Seq(SymbolType))
             /\ rep[c].text \in Seq(STRING)
             /\ rep[c].state \in {"running", "aborted", "adrift"}
             /\ phase[c] \in {"home", "opening", "loading", "editing", "gone"}
             /\ toLoad[c].left \in Seq(SymbolType) /\ toLoad[c].done \in Nat
             /\ up[c] \in Seq(MessageType) /\ down[c] \in Seq(MessageType)
  <2>1. /\ Window(c, phase[c], rep[c], toLoad[c], up[c], down[c], sharing, stored)
        /\ up[c] \in Seq(MessageType) /\ down[c] \in Seq(MessageType) /\ toLoad[c].left \in Seq(SymbolType) /\ toLoad[c].done \in Nat
        /\ phase[c] \in {"home", "opening", "loading", "editing", "gone"}
    BY FactsAt
  <2>2. rep[c] \in Replica /\ rep[c].size >= -1
    BY <2>1, ReplicaTyped
  <2>3. rep[c].symbols \in Seq(Seq(SymbolType)) /\ rep[c].text \in Seq(STRING) /\ rep[c].state \in {"running", "aborted", "adrift"}
    BY <2>2 DEF Replica
  <2> QED BY <2>1, <2>2, <2>3
<1> QED BY <1>1, <1>2 DEF TypeOK

\* Who shows the document has a replica in order.
LEMMA ShownGood ==
  ASSUME Facts, NEW c \in Clients, Shows(c)
  PROVE  Good(rep[c])
<1>1. Window(c, phase[c], rep[c], toLoad[c], up[c], down[c], sharing, stored) /\ toLoad[c].done \in Nat
  BY FactsAt
<1>2. CASE phase[c] = "editing"
  BY <1>1, <1>2 DEF Window, Editing
<1>3. CASE phase[c] = "loading" /\ toLoad[c].done > 0
  <2>1. toLoad[c].done # 0
    BY <1>1, <1>3
  <2> QED BY <1>1, <1>3, <2>1 DEF Window, Loading
<1> QED BY <1>2, <1>3 DEF Shows

\* Each symbol is after the one before it.
LEMMA Neighbours ==
  ASSUME NEW F, Len(F) \in Nat, Sorted(F), NEW k \in 2 .. Len(F)
  PROVE  F[k - 1].pos < F[k].pos
<1>1. k - 1 \in 1 .. Len(F) /\ k \in 1 .. Len(F) /\ k - 1 < k
  OBVIOUS
<1> QED BY <1>1 DEF Sorted

\* A replica in order has its lines in order.
LEMMA GoodLines ==
  ASSUME NEW r, Good(r)
  PROVE  LET lines == r.symbols
             all == Flatten(r.symbols)
         IN  /\ \A k \in 2 .. Len(all) : all[k - 1].pos < all[k].pos
             /\ \A l \in DOMAIN lines :
                  /\ lines[l] # <<>>
                  /\ \A i \in DOMAIN lines[l] : lines[l][i].val = NL <=> l < Len(lines) /\ i = Len(lines[l])
             /\ Last(all).val = NUL
<1> DEFINE lines == r.symbols
           F == Flatten(r.symbols)
<1>1. Shape(lines) /\ F \in Seq(SymbolType) /\ Len(F) \in Nat /\ Len(F) > 0 /\ Ordered(lines)
  BY Lengths
<1>2. Sorted(F) /\ Ended(F)
  BY <1>1 DEF Ordered
<1>3. /\ lines \in Seq(Seq(SymbolType)) /\ \A l \in 1 .. Len(lines) : Len(lines[l]) > 0
      /\ \A l \in 1 .. Len(lines) : \A i \in 1 .. Len(lines[l]) :
           lines[l][i].val = NL <=> (l < Len(lines) /\ i = Len(lines[l]))
  BY <1>1 DEF Shape
<1> HIDE DEF lines, F
<1>4. \A k \in 2 .. Len(F) : F[k - 1].pos < F[k].pos
  BY <1>1, <1>2, Neighbours
<1>5. DOMAIN lines = 1 .. Len(lines)
  BY <1>3
<1>6. ASSUME NEW l \in DOMAIN lines
      PROVE  lines[l] # <<>> /\ \A i \in DOMAIN lines[l] : lines[l][i].val = NL <=> l < Len(lines) /\ i = Len(lines[l])
  <2>1. lines[l] \in Seq(SymbolType) /\ DOMAIN lines[l] = 1 .. Len(lines[l])
    BY <1>3, <1>5, LineIn
  <2>2. lines[l] # <<>>
    <3>1. Len(lines[l]) > 0
      BY <1>3, <1>5
    <3> QED BY <3>1
  <2> QED BY <1>3, <1>5, <2>1, <2>2
<1>7. Last(F).val = NUL
  <2>1. Last(F) = F[Len(F)] /\ Len(F) \in 1 .. Len(F)
    BY <1>1 DEF Last
  <2> QED BY <1>2, <2>1 DEF Ended
<1> QED BY <1>4, <1>6, <1>7 DEF lines, F

\* LinesWellFormed follows.
LEMMA LinesRight == Facts => LinesWellFormed
<1> SUFFICES ASSUME Facts, NEW c \in Clients, Shows(c)
             PROVE  LET lines == rep[c].symbols
                        all == Symbols(c)
                    IN  /\ \A k \in 2 .. Len(all) : all[k - 1].pos < all[k].pos
                        /\ \A l \in DOMAIN lines :
                             /\ lines[l] # <<>>
                             /\ \A i \in DOMAIN lines[l] : lines[l][i].val = NL <=> l < Len(lines) /\ i = Len(lines[l])
                        /\ Last(all).val = NUL
  BY DEF LinesWellFormed
<1>1. Good(rep[c])
  BY ShownGood
<1> QED BY <1>1, GoodLines DEF Symbols

\* TextFollowsApart follows.
LEMMA TextRight == Facts => TextFollowsApart
<1> SUFFICES ASSUME Facts, NEW c \in Clients, Shows(c)
             PROVE  /\ rep[c].size = Len(rep[c].text)
                    /\ rep[c].text = [k \in 1 .. Len(Symbols(c)) - 1 |-> Symbols(c)[k].val]
  BY DEF TextFollowsApart, TextFollows
<1> DEFINE r == rep[c]
           F == Symbols(c)
           G == [k \in 1 .. Len(F) - 1 |-> F[k].val]
<1>1. Good(r)
  BY ShownGood
<1>2. /\ F \in Seq(SymbolType) /\ Len(F) \in Nat /\ Len(F) > 0 /\ r.text \in Seq(STRING) /\ Len(r.text) \in Nat
      /\ Len(r.text) = Len(F) - 1 /\ r.size = Len(r.text) /\ Follows(r.text, F)
  BY <1>1, Lengths DEF Symbols
<1> HIDE DEF r, F
<1>3. \A k \in 1 .. Len(F) - 1 : r.text[k] = F[k].val /\ F[k].val \in STRING
  <2>1. \A k \in 1 .. Len(F) - 1 : k \in 1 .. Len(F)
    BY <1>2
  <2>2. \A k \in 1 .. Len(F) : F[k].val \in STRING
    BY <1>2, SymbolsAt, SymbolFields
  <2> QED BY <1>2, <2>1, <2>2 DEF Follows
<1>4. G \in Seq(STRING) /\ Len(G) = Len(F) - 1 /\ \A k \in 1 .. Len(F) - 1 : G[k] = F[k].val
  BY <1>2, <1>3
<1> HIDE DEF G
<1>5. r.text = G
  <2>1. Len(r.text) = Len(G) /\ \A k \in 1 .. Len(r.text) : r.text[k] = G[k]
    BY <1>2, <1>3, <1>4
  <2> QED BY <1>2, <1>4, <2>1, Same
<1> QED BY <1>2, <1>5 DEF r, G, F

\* RemoteStaysRemote follows.
LEMMA RemoteRight == Facts => RemoteStaysRemote
BY ShownGood DEF RemoteStaysRemote, Good

\* As many symbols lie before p as its place tells.
LEMMA CountBefore ==
  ASSUME NEW F \in Seq(SymbolType), Sorted(F), NEW p \in Int, NEW o, Before(F, p, o)
  PROVE  o = Cardinality({k \in DOMAIN F : F[k].pos < p})
<1> DEFINE n == Len(F)
<1>1. n \in Nat /\ DOMAIN F = 1 .. n /\ \A k \in 1 .. n : F[k].pos \in Int
  BY SymbolsAt
<1>2. o \in 0 .. n - 1 /\ p <= F[o + 1].pos /\ (o = 0 \/ F[o].pos < p)
  BY DEF Before
<1>3. \A j, k \in 1 .. n : j < k => F[j].pos < F[k].pos
  BY DEF Sorted
<1> HIDE DEF n
<1>4. ASSUME NEW k \in 1 .. n PROVE F[k].pos < p <=> k <= o
  <2>1. o + 1 \in 1 .. n /\ o \in Nat /\ k \in Nat
    BY <1>1, <1>2
  <2>2. CASE k <= o
    <3>1. o \in 1 .. n /\ o # 0
      BY <1>1, <1>2, <2>1, <2>2
    <3>2. F[o].pos < p
      BY <1>2, <3>1
    <3>3. k = o \/ k < o
      BY <2>1, <2>2
    <3>4. k = o \/ F[k].pos < F[o].pos
      BY <1>3, <3>1, <3>3
    <3> QED BY <1>1, <2>2, <3>1, <3>2, <3>4
  <2>3. CASE ~(k <= o)
    <3>1. k = o + 1 \/ o + 1 < k
      BY <2>1, <2>3
    <3>2. k = o + 1 \/ F[o + 1].pos < F[k].pos
      BY <1>3, <2>1, <3>1
    <3> QED BY <1>1, <1>2, <2>1, <2>3, <3>2
  <2> QED BY <2>2, <2>3
<1>5. {k \in DOMAIN F : F[k].pos < p} = 1 .. o
  <2>1. {k \in DOMAIN F : F[k].pos < p} = {k \in 1 .. n : k <= o}
    BY <1>1, <1>4
  <2>2. {k \in 1 .. n : k <= o} = 1 .. o
    BY <1>1, <1>2
  <2> QED BY <2>1, <2>2
<1>6. Cardinality(1 .. o) = o
  <2>1. o \in Nat /\ 1 \in Int /\ (1 > o \/ (o - 1) + 1 = o)
    BY <1>2
  <2> QED BY <2>1, FS_Interval
<1> QED BY <1>5, <1>6

\* The searches of lines in order.
LEMMA Searches ==
  ASSUME NEW lines, Ordered(lines), NEW p \in Positions
  PROVE  LET found == findPosition(lines, p)
             place == findInsertPosition(lines, p)
             all == Flatten(lines)
             Offset(l, i) == Len(Flatten(SubSeq(lines, 1, l))) + i
         IN  /\ \A k \in DOMAIN all : all[k].pos = p =>
                  found.kind = "found" /\ Offset(found.line, found.index) + 1 = k
                                       /\ InLine(lines, found.line, found.index)
             /\ p < Last(all).pos =>
                  /\ InLine(lines, place.line, place.index)
                  /\ Offset(place.line, place.index) = Cardinality({k \in DOMAIN all : all[k].pos < p})
<1> DEFINE F == Flatten(lines)
           found == findPosition(lines, p)
           place == findInsertPosition(lines, p)
           Offset(l, i) == Start(lines, l) + i
<1>1. Shape(lines) /\ Sorted(F)
  BY DEF Ordered
<1>2. F \in Seq(SymbolType) /\ Len(F) \in Nat /\ Len(F) > 0 /\ \A k \in 1 .. Len(F) : F[k].pos \in Int
  BY <1>1, Keys
<1>3. DOMAIN F = 1 .. Len(F) /\ Last(F) = F[Len(F)] /\ Len(F) \in 1 .. Len(F)
  BY <1>2 DEF Last
<1>4. p \in Int
  BY DEF Positions
<1> HIDE DEF F, found, place
<1>5. ASSUME NEW k \in DOMAIN F, F[k].pos = p
      PROVE  found.kind = "found" /\ Offset(found.line, found.index) + 1 = k /\ InLine(lines, found.line, found.index)
  <2>1. k \in 1 .. Len(F) /\ k \in Nat
    BY <1>2, <1>3
  <2>2. AtPlace(lines, found, k - 1)
    BY <1>1, <1>5, <2>1, FoundPlace DEF F, found
  <2>3. found.kind = "found" /\ Start(lines, found.line) + found.index = k - 1
    BY <2>2 DEF AtPlace
  <2>4. InLine(lines, found.line, found.index)
    BY <1>1, <2>2, PlaceAccepts
  <2>5. (k - 1) + 1 = k
    BY <2>1
  <2> QED BY <2>3, <2>4, <2>5
<1>6. ASSUME p < Last(F).pos
      PROVE  InLine(lines, place.line, place.index) /\ Offset(place.line, place.index) = Cardinality({k \in DOMAIN F : F[k].pos < p})
  <2>1. p <= F[Len(F)].pos
    BY <1>2, <1>3, <1>4, <1>6
  <2>2. PICK o : Before(F, p, o)
    BY <1>2, <1>4, <2>1, BeforeExists
  <2>3. AtPlace(lines, place, o)
    BY <1>1, <1>4, <2>2, InsertPlace DEF F, place
  <2>4. Start(lines, place.line) + place.index = o
    BY <2>3 DEF AtPlace
  <2>5. InLine(lines, place.line, place.index)
    BY <1>1, <2>3, PlaceAccepts
  <2>6. o = Cardinality({k \in DOMAIN F : F[k].pos < p})
    BY <1>1, <1>2, <1>4, <2>2, CountBefore
  <2> QED BY <2>4, <2>5, <2>6
<1> HIDE DEF Offset
<1>7. \A k \in DOMAIN F : F[k].pos = p =>
        found.kind = "found" /\ Offset(found.line, found.index) + 1 = k /\ InLine(lines, found.line, found.index)
  BY <1>5
<1>8. p < Last(F).pos =>
        InLine(lines, place.line, place.index) /\ Offset(place.line, place.index) = Cardinality({k \in DOMAIN F : F[k].pos < p})
  BY <1>6
<1> QED BY <1>7, <1>8, Zenon DEF F, found, place, Offset, Start, Upto

\* LookupsExact follows.
LEMMA LookupsRight == Facts => LookupsExact
<1> SUFFICES ASSUME Facts, NEW c \in Clients, Shows(c), NEW p \in Positions
             PROVE  LET lines == rep[c].symbols
                        all == Symbols(c)
                        Offset(l, i) == Len(Flatten(SubSeq(lines, 1, l))) + i
                        found == findPosition(lines, p)
                        place == findInsertPosition(lines, p)
                    IN  /\ \A k \in DOMAIN all : all[k].pos = p =>
                             found.kind = "found" /\ Offset(found.line, found.index) + 1 = k
                                                  /\ InLine(lines, found.line, found.index)
                        /\ p < Last(all).pos =>
                             /\ InLine(lines, place.line, place.index)
                             /\ Offset(place.line, place.index) = Cardinality({k \in DOMAIN all : all[k].pos < p})
  BY DEF LookupsExact
<1>1. Ordered(rep[c].symbols)
  BY ShownGood DEF Good
<1> QED BY <1>1, Searches DEF Symbols

\* Nothing on its way: the editor holds what the server holds.
LEMMA QuietSame ==
  ASSUME NEW c, NEW X, NEW S, InStep(c, X, <<>>, S, <<>>)
  PROVE  X = S
<1>1. PICK Z : Leads(X, <<>>, Z) /\ Leads(S, <<>>, Z)
  BY DEF InStep
<1> QED BY <1>1, LeadsNowhere

\* Converged follows.
LEMMA ConvergedRight == Facts => Converged
<1> SUFFICES ASSUME Facts, Settled, NEW c \in Clients, phase[c] = "editing"
             PROVE  Symbols(c) = SymbolsByPosition(stored)
  BY DEF Converged, Agreement
<1>1. Editing(c, rep[c], up[c], down[c], sharing, stored) /\ Good(rep[c])
  BY EditingAt
<1>2. up[c] = <<>> /\ down[c] = <<>>
  BY DEF Settled
<1>3. Content(rep[c]) = stored
  BY <1>1, <1>2, QuietSame DEF Editing
<1>4. Symbols(c) \in Seq(SymbolType) /\ Sorted(Symbols(c)) /\ ToSet(Symbols(c)) = stored
  <2>1. Symbols(c) \in Seq(SymbolType)
    BY <1>1, Lengths DEF Symbols
  <2>2. Sorted(Symbols(c))
    BY <1>1 DEF Good, Ordered, Symbols
  <2> QED BY <1>3, <2>1, <2>2 DEF Content, Symbols
<1>5. Unique(stored)
  BY DEF Facts, Doc
<1>6. SymbolsByPosition(stored) \in Seq(SymbolType) /\ Sorted(SymbolsByPosition(stored)) /\ ToSet(SymbolsByPosition(stored)) = stored
  BY <1>5, ByPosition
<1> QED BY <1>4, <1>6, SameSorted

\* TypeOK: sizes, lines, texts, queues and stored symbols have their types in
\* every behaviour of orderly users (src/Client/CRDT.h, src/Server/server.cpp).
THEOREM CollabTypeOK == Spec => [](Orderly => TypeOK)
<1>1. CollabInv => (Orderly => TypeOK)
  BY TypesRight DEF CollabInv
<1> QED BY <1>1, CollabInvariant, PTL

\* LinesWellFormed: the symbols of a replica stay in order, every line but the
\* last ends with its only newline, and the last line with the terminator.
THEOREM CollabLinesWellFormed == Spec => [](Orderly => LinesWellFormed)
<1>1. CollabInv => (Orderly => LinesWellFormed)
  BY LinesRight DEF CollabInv
<1> QED BY <1>1, CollabInvariant, PTL

\* TextFollowsApart: the text edit shows the characters of the CRDT in its
\* order, and size is their number.
THEOREM CollabTextFollows == Spec => [](Orderly => TextFollowsApart)
<1>1. CollabInv => (Orderly => TextFollowsApart)
  BY TextRight DEF CollabInv
<1> QED BY <1>1, CollabInvariant, PTL

\* RemoteStaysRemote: no remote change is taken for one of the user's, and no
\* index runs out of range.
THEOREM CollabRemoteStaysRemote == Spec => [](Orderly => RemoteStaysRemote)
<1>1. CollabInv => (Orderly => RemoteStaysRemote)
  BY RemoteRight DEF CollabInv
<1> QED BY <1>1, CollabInvariant, PTL

\* LookupsExact: the binary searches find what is there where it is, and put a
\* new symbol before the first that is not before it.
THEOREM CollabLookupsExact == Spec => [](Orderly => LookupsExact)
<1>1. CollabInv => (Orderly => LookupsExact)
  BY LookupsRight DEF CollabInv
<1> QED BY <1>1, CollabInvariant, PTL

\* Converged: when every operation was delivered, every editor that has the
\* document open holds the server's symbols in the order of their positions.
THEOREM CollabConverged == Spec => [](Orderly => Converged)
<1>1. CollabInv => (Orderly => Converged)
  BY ConvergedRight DEF CollabInv
<1> QED BY <1>1, CollabInvariant, PTL

===============================================================================
