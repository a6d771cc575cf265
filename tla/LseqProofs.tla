------------------------------- MODULE LseqProofs -------------------------------
(***************************************************************************)
(* Proofs about the allocation of positions, for every BASE and BOUNDARY   *)
(* above 1 and every set of integer site ids: the inductive invariant of   *)
(* Lseq, and from it the order, the ownership and the depth of the         *)
(* positions that sites allocate.                                          *)
(***************************************************************************)
EXTENDS Lseq, TLAPS

\* The fields of an identifier.
LEMMA IdFields == ASSUME NEW i \in Identifiers
                  PROVE  /\ i.digit \in Nat /\ i.digit < BASE
                         /\ i.site \in Sites /\ i.site \in Int
<1>1. i.digit \in 0 .. BASE - 1 /\ i.site \in Sites
  BY DEF Identifiers
<1>2. i.digit \in Nat /\ i.digit < BASE
  BY <1>1, BaseAssumption, SMT
<1>3. i.site \in Int
  BY <1>1, SitesAssumption, Zenon
<1> QED
  BY <1>1, <1>2, <1>3

\* Identifier::compare of an identifier with itself is 0.
LEMMA IdIrreflexive == ASSUME NEW i \in Identifiers PROVE ~IdLess(i, i)
BY IdFields DEF IdLess

\* What generateIdBetween draws lies strictly between the two digits
\* (CRDT.cpp, generateIdBetween).
LEMMA DigitBetween ==
  ASSUME NEW d1 \in Nat, NEW d2 \in Nat, d2 - d1 > 1, NEW plus \in BOOLEAN,
         NEW d \in generateIdBetween(d1, d2, plus)
  PROVE  d \in Nat /\ d1 < d /\ d < d2
BY BoundaryAssumption DEF generateIdBetween

\* The identifiers a call looks at: the digit of the first is below BASE, and
\* the one of the second is BASE only past its end.
LEMMA CallArguments ==
  ASSUME IInv, pc = "calling"
  PROVE  /\ id1 \in Identifiers
         /\ id1 = Padded1(Len(newPos) + 1)
         /\ Loose => id2 = Identifier(BASE, site)
         /\ Tight => /\ Len(newPos) < Len(posAfter)
                     /\ id2 = posAfter[Len(newPos) + 1] /\ id2 \in Identifiers
                     /\ id1.digit <= id2.digit
         /\ Tight \/ Loose
<1> DEFINE n == Len(newPos)
<1>1. /\ newPos \in Seq(Identifiers) /\ pos1 \in Seq(Identifiers) /\ posAfter \in Seq(Identifiers)
      /\ site \in Sites /\ n \in Nat
      /\ \A i \in 1 .. n : newPos[i] = Padded1(i)
  BY DEF IInv, WellFormed, PositionType
<1>2. id1 \in Identifiers /\ id1 = Padded1(n + 1)
  <2>1. Identifier(0, site) \in Identifiers
    BY <1>1, BaseAssumption DEF Identifier, Identifiers
  <2>2. CASE n < Len(pos1)
    <3>1. n + 1 <= Len(pos1) /\ n + 1 \in 1 .. Len(pos1)
      BY <1>1, <2>2
    <3>2. id1 = pos1[n + 1] /\ Padded1(n + 1) = pos1[n + 1]
      BY <2>2, <3>1 DEF id1, level, Padded1
    <3> QED
      BY <1>1, <3>1, <3>2
  <2>3. CASE ~(n < Len(pos1))
    <3>1. ~(n + 1 <= Len(pos1))
      BY <1>1, <2>3
    <3> QED
      BY <2>1, <2>3, <3>1 DEF id1, level, Padded1
  <2> QED
    BY <2>2, <2>3
<1>3. Loose => id2 = Identifier(BASE, site)
  BY <1>1 DEF Loose, id2, level
<1>4. Tight \/ Loose
  BY DEF IInv
<1>5. ASSUME Tight
      PROVE  /\ n < Len(posAfter)
             /\ id2 = posAfter[n + 1] /\ id2 \in Identifiers
             /\ id1.digit <= id2.digit
  <2>1. /\ pos2 = posAfter /\ posAfter # <<>> /\ n <= Len(posAfter)
        /\ \A i \in 1 .. n : newPos[i] = posAfter[i]
    BY <1>5 DEF Tight
  <2>2. posAfter[Len(posAfter)].digit >= 1 /\ Len(posAfter) \in 1 .. Len(posAfter)
    BY <1>1, <2>1 DEF IInv, WellFormed
  <2>3. pos1 = <<>> \/ Less(pos1, posAfter)
    BY <2>1 DEF IInv
  <2>4. n < Len(posAfter)
    <3>1. SUFFICES ASSUME n = Len(posAfter) PROVE FALSE
      BY <1>1, <2>1
    <3>2. Padded1(n) = posAfter[n]
      BY <1>1, <2>1, <2>2, <3>1
    <3>3. CASE n <= Len(pos1)
      <4>1. \A i \in 1 .. n : pos1[i] = posAfter[i]
        BY <1>1, <2>1, <3>3 DEF Padded1
      <4>2. pos1 # <<>>
        BY <1>1, <2>2, <3>1, <3>3
      <4>3. PICK k \in 1 .. Len(posAfter) :
                k \in 1 .. Len(pos1) => IdLess(pos1[k], posAfter[k])
        BY <2>3, <4>2 DEF Less
      <4>4. pos1[k] = posAfter[k] /\ k \in 1 .. Len(pos1) /\ posAfter[k] \in Identifiers
        BY <4>1, <4>3, <3>3, <1>1, <3>1
      <4> QED
        BY <4>3, <4>4, IdIrreflexive
    <3>4. CASE n > Len(pos1)
      BY <1>1, <2>2, <3>1, <3>2, <3>4 DEF Padded1, Identifier
    <3> QED
      BY <1>1, <3>3, <3>4
  <2>5. id2 = posAfter[n + 1] /\ id2 \in Identifiers
    BY <1>1, <2>1, <2>4 DEF id2, level
  <2>6. id1.digit <= id2.digit
    <3>1. CASE n < Len(pos1)
      <4>1. \A i \in 1 .. n : pos1[i] = posAfter[i]
        BY <1>1, <2>1, <3>1 DEF Padded1
      <4>2. pos1 # <<>>
        BY <1>1, <3>1
      <4>3. PICK k \in 1 .. Len(posAfter) :
                /\ \A i \in 1 .. k - 1 : i \in 1 .. Len(pos1) /\ pos1[i] = posAfter[i]
                /\ k \in 1 .. Len(pos1) => IdLess(pos1[k], posAfter[k])
        BY <2>3, <4>2 DEF Less
      <4>4. k > n
        <5>1. SUFFICES ASSUME k \in 1 .. n PROVE FALSE
          BY <1>1, <4>3
        <5>2. pos1[k] = posAfter[k] /\ k \in 1 .. Len(pos1) /\ posAfter[k] \in Identifiers
          BY <4>1, <5>1, <3>1, <1>1
        <5> QED
          BY <4>3, <5>2, IdIrreflexive
      <4>5. id1 = pos1[n + 1] /\ n + 1 \in 1 .. Len(pos1) /\ pos1[n + 1] \in Identifiers
        BY <1>1, <3>1 DEF id1, level
      <4>6. CASE k = n + 1
        BY <4>3, <4>5, <4>6, <2>5 DEF IdLess, Identifiers
      <4>7. CASE k > n + 1
        BY <4>3, <4>5, <4>7, <2>5, <1>1 DEF Identifiers
      <4> QED
        BY <4>4, <4>6, <4>7, <1>1
    <3>2. CASE n >= Len(pos1)
      BY <1>1, <3>2, <2>5 DEF id1, level, Identifier, Identifiers
    <3> QED
      BY <1>1, <3>1, <3>2
  <2> QED
    BY <2>4, <2>5, <2>6
<1> QED
  BY <1>2, <1>3, <1>4, <1>5

\* Case 1 of generatePositionBetween ends the calls with a position between
\* the neighbours.
LEMMA Case1Result ==
  ASSUME IInv, pc = "calling",
         NEW d \in Nat, id1.digit < d, d < id2.digit
  PROVE  LET p == Append(newPos, Identifier(d, site))
         IN  /\ WellFormed(p) /\ p # <<>> /\ p[Len(p)].site = site
             /\ Less(pos1, p)
             /\ posAfter # <<>> => Less(p, posAfter)
<1> DEFINE n == Len(newPos)
           new == Identifier(d, site)
           p == Append(newPos, new)
<1>1. /\ newPos \in Seq(Identifiers) /\ pos1 \in Seq(Identifiers) /\ posAfter \in Seq(Identifiers)
      /\ site \in Sites /\ n \in Nat
      /\ \A i \in 1 .. n : newPos[i] = Padded1(i)
  BY DEF IInv, WellFormed, PositionType
<1>2. id1 \in Identifiers /\ id1.digit \in Nat
  BY CallArguments, IdFields
<1>3. id2.digit <= BASE /\ id2.digit \in Nat
  <2>1. CASE Tight
    BY <2>1, CallArguments, IdFields, BaseAssumption
  <2>2. CASE Loose
    <3>1. id2.digit = BASE
      BY <2>2, CallArguments DEF Identifier
    <3> QED
      BY <3>1, BaseAssumption
  <2> QED
    BY <2>1, <2>2, CallArguments
<1>4. d \in 1 .. BASE - 1
  BY <1>2, <1>3, BaseAssumption
<1>5. new \in Identifiers /\ new.digit = d /\ new.site = site
  BY <1>1, <1>4 DEF Identifier, Identifiers
<1>6. /\ p \in Seq(Identifiers) /\ Len(p) = n + 1 /\ p[n + 1] = new
      /\ \A i \in 1 .. n : p[i] = newPos[i]
      /\ p # <<>>
  <2> HIDE DEF new
  <2>1. p \in Seq(Identifiers) /\ Len(p) = n + 1
    BY <1>1, <1>5
  <2>2. p[n + 1] = new /\ \A i \in 1 .. n : p[i] = newPos[i]
    BY <1>1, <1>5
  <2> QED
    BY <2>1, <2>2, <1>1
<1>7. WellFormed(p)
  BY <1>4, <1>5, <1>6 DEF WellFormed, PositionType
<1>8. Less(pos1, p)
  <2>1. CASE n < Len(pos1)
    <3>1. id1 = pos1[n + 1] /\ n + 1 \in 1 .. Len(pos1)
      BY <1>1, <2>1 DEF id1, level
    <3>2. \A i \in 1 .. (n + 1) - 1 : i \in 1 .. Len(pos1) /\ pos1[i] = p[i]
      BY <1>1, <1>6, <2>1 DEF Padded1
    <3>3. IdLess(pos1[n + 1], p[n + 1])
      BY <1>5, <1>6, <3>1 DEF IdLess
    <3> QED
      BY <3>2, <3>3, <1>1, <1>6 DEF Less
  <2>2. CASE n >= Len(pos1)
    <3> DEFINE k == Len(pos1) + 1
    <3>1. k \in 1 .. Len(p) /\ ~(k \in 1 .. Len(pos1))
      BY <1>1, <1>6, <2>2
    <3>2. \A i \in 1 .. k - 1 : i \in 1 .. Len(pos1) /\ pos1[i] = p[i]
      BY <1>1, <1>6, <2>2 DEF Padded1
    <3> QED
      BY <3>1, <3>2 DEF Less
  <2> QED
    BY <1>1, <2>1, <2>2
<1>9. ASSUME posAfter # <<>> PROVE Less(p, posAfter)
  <2>1. CASE Tight
    <3>1. n + 1 \in 1 .. Len(posAfter) /\ id2 = posAfter[n + 1]
      BY <1>1, <2>1, CallArguments
    <3>2. \A i \in 1 .. (n + 1) - 1 : i \in 1 .. Len(p) /\ p[i] = posAfter[i]
      BY <1>1, <1>6, <2>1 DEF Tight
    <3>3. IdLess(p[n + 1], posAfter[n + 1])
      BY <1>5, <1>6, <3>1 DEF IdLess
    <3> QED
      BY <3>1, <3>2, <3>3 DEF Less
  <2>2. CASE Loose
    <3>1. PICK k \in 1 .. n :
             /\ k <= Len(posAfter)
             /\ IdLess(newPos[k], posAfter[k])
             /\ \A i \in 1 .. k - 1 : newPos[i] = posAfter[i]
      BY <1>9, <2>2 DEF Loose
    <3>2. k \in 1 .. Len(posAfter) /\ p[k] = newPos[k]
      BY <1>1, <1>6, <3>1
    <3>3. \A i \in 1 .. k - 1 : i \in 1 .. Len(p) /\ p[i] = posAfter[i]
      BY <1>1, <1>6, <3>1
    <3> QED
      BY <3>1, <3>2, <3>3 DEF Less
  <2> QED
    BY <2>1, <2>2, CallArguments
<1> QED
  BY <1>5, <1>6, <1>7, <1>8, <1>9

\* The calls go on by pushing the identifier of the first neighbour, and only
\* while one of the neighbours still has an identifier at this level: that
\* bounds the depth of the recursion.
LEMMA PushPrefix ==
  ASSUME IInv, pc = "calling",
         id2.digit - id1.digit <= 1,
         newPos' = Append(newPos, id1),
         UNCHANGED <<pos1, posAfter, site>>
  PROVE  /\ newPos' \in Seq(Identifiers)
         /\ Len(newPos') = Len(newPos) + 1
         /\ Len(newPos') <= (IF Len(pos1) < Len(posAfter) THEN Len(posAfter) ELSE Len(pos1))
         /\ \A i \in 1 .. Len(newPos') : newPos'[i] = Padded1(i)'
         /\ \A i \in 1 .. Len(newPos) : newPos'[i] = newPos[i]
         /\ newPos'[Len(newPos) + 1] = id1
<1> DEFINE n == Len(newPos)
<1>1. /\ newPos \in Seq(Identifiers) /\ pos1 \in Seq(Identifiers) /\ posAfter \in Seq(Identifiers)
      /\ site \in Sites /\ n \in Nat
      /\ \A i \in 1 .. n : newPos[i] = Padded1(i)
  BY DEF IInv, WellFormed, PositionType
<1>2. id1 \in Identifiers /\ id1 = Padded1(n + 1)
  BY CallArguments
<1>3. /\ newPos' \in Seq(Identifiers) /\ Len(newPos') = n + 1 /\ newPos'[n + 1] = id1
      /\ \A i \in 1 .. n : newPos'[i] = newPos[i]
  BY <1>1, <1>2
<1>4. \A i \in 1 .. Len(newPos') : newPos'[i] = Padded1(i)'
  <2>1. \A i : Padded1(i)' = Padded1(i)
    BY DEF Padded1
  <2> QED
    BY <1>1, <1>2, <1>3, <2>1
<1>5. n < Len(pos1) \/ n < Len(posAfter)
  <2>1. CASE Tight
    BY <2>1, CallArguments
  <2>2. CASE Loose
    <3>1. SUFFICES ASSUME n >= Len(pos1) PROVE FALSE
      BY <1>1
    <3>2. id1.digit = 0 /\ id2.digit = BASE
      BY <2>2, <3>1, <1>1, CallArguments DEF id1, level, Identifier
    <3> QED
      BY <3>2, BaseAssumption
  <2> QED
    BY <2>1, <2>2, CallArguments
<1> QED
  BY <1>1, <1>3, <1>4, <1>5

-----------------------------------------------------------------------------
(***************************************************************************)
(* The inductive invariant.                                                *)
(***************************************************************************)

LEMMA InitIInv == Init => IInv
<1> SUFFICES ASSUME Init PROVE IInv
  OBVIOUS
<1>1. <<>> \in Seq(Identifiers)
  OBVIOUS
<1> QED
  BY <1>1 DEF Init, IInv, WellFormed, DepthGrowsByOne, PositionType

LEMMA StartIInv ==
  ASSUME IInv, NEW s \in Sites, NEW before \in Positions \cup {<<>>},
         NEW after \in Positions \cup {<<>>}, Start(s, before, after)
  PROVE  IInv'
<1>1. WellFormed(before) /\ WellFormed(after)
  <2>1. WellFormed(<<>>)
    BY DEF WellFormed, PositionType
  <2> QED
    BY <2>1 DEF Positions, IInv
<1>2. /\ pc' = "calling" /\ site' = s /\ pos1' = before /\ posAfter' = after
      /\ pos2' = after /\ newPos' = <<>> /\ UNCHANGED <<used, strategyCache>>
  BY DEF Start
<1>3. /\ after = <<>> => before = <<>>
      /\ after # <<>> => before = <<>> \/ Less(before, after)
  BY DEF Start
<1>4. WellFormed(pos1)' /\ WellFormed(posAfter)'
  BY <1>1, <1>2 DEF WellFormed
<1>5. newPos' \in Seq(Identifiers) /\ Len(newPos') = 0
  BY <1>2
<1>6. before \in Seq(Identifiers) /\ after \in Seq(Identifiers)
  BY <1>1 DEF WellFormed, PositionType
<1>7. DepthGrowsByOne'
  BY <1>2, <1>5, <1>6 DEF DepthGrowsByOne
<1>8. Tight' \/ Loose'
  BY <1>2, <1>5, <1>6 DEF Tight, Loose
<1>9. /\ Len(newPos') <= (IF Len(pos1') < Len(posAfter') THEN Len(posAfter') ELSE Len(pos1'))
      /\ \A i \in 1 .. Len(newPos') : newPos'[i] = Padded1(i)'
  BY <1>2, <1>5, <1>6
<1>10. /\ \A u \in used' : /\ WellFormed(u.pos)' /\ u.pos # <<>>
                           /\ u.by \in Sites /\ u.pos[Len(u.pos)].site = u.by
  BY <1>2 DEF IInv, WellFormed
<1>11. Less(before, after) => Less(pos1, posAfter)'
  BY <1>2 DEF Less, IdLess
<1>12. DOMAIN strategyCache' = Sites
  BY <1>2 DEF IInv
<1> QED
  BY <1>2, <1>3, <1>4, <1>5, <1>7, <1>8, <1>9, <1>10, <1>11, <1>12 DEF IInv, PositionType

LEMMA Case1IInv == ASSUME IInv, Case1 PROVE IInv'
<1>0. PICK plus \in BOOLEAN :
          \E d \in generateIdBetween(id1.digit, id2.digit, plus) :
             newPos' = Append(newPos, Identifier(d, site))
  BY DEF Case1
<1>1. PICK d \in generateIdBetween(id1.digit, id2.digit, plus) :
          newPos' = Append(newPos, Identifier(d, site))
  BY <1>0
<1>2. /\ pc = "calling" /\ id2.digit - id1.digit > 1 /\ pc' = "done"
      /\ UNCHANGED <<used, site, pos1, posAfter, pos2>>
      /\ DOMAIN strategyCache' = DOMAIN strategyCache
  BY DEF Case1
<1>3. id1.digit \in Nat /\ id2.digit \in Nat
  <2>1. CASE Tight
    BY <2>1, <1>2, CallArguments, IdFields
  <2>2. CASE Loose
    BY <2>2, <1>2, CallArguments, IdFields, BaseAssumption DEF Identifier
  <2> QED
    BY <2>1, <2>2, <1>2, CallArguments
<1>4. d \in Nat /\ id1.digit < d /\ d < id2.digit
  BY <1>2, <1>3, <1>1, DigitBetween
<1>5. /\ WellFormed(newPos') /\ newPos' # <<>> /\ newPos'[Len(newPos')].site = site
      /\ Less(pos1, newPos')
      /\ posAfter # <<>> => Less(newPos', posAfter)
  BY <1>1, <1>2, <1>4, Case1Result
<1>6. WellFormed(newPos)' /\ WellFormed(pos1)' /\ WellFormed(posAfter)'
  BY <1>2, <1>5 DEF IInv, WellFormed
<1>7. StrictlyBetween'
  BY <1>2, <1>5 DEF StrictlyBetween, Less, IdLess
<1>8. DepthGrowsByOne'
  <2>1. /\ newPos \in Seq(Identifiers) /\ pos1 \in Seq(Identifiers) /\ posAfter \in Seq(Identifiers)
        /\ Len(newPos) <= (IF Len(pos1) < Len(posAfter) THEN Len(posAfter) ELSE Len(pos1))
    BY <1>2 DEF IInv, WellFormed, PositionType
  <2>2. Len(newPos') = Len(newPos) + 1
    BY <1>1, <2>1
  <2> QED
    BY <1>2, <2>1, <2>2 DEF DepthGrowsByOne
<1>9. /\ \A u \in used' : /\ WellFormed(u.pos)' /\ u.pos # <<>>
                          /\ u.by \in Sites /\ u.pos[Len(u.pos)].site = u.by
  BY <1>2 DEF IInv, WellFormed
<1>10. Less(pos1, posAfter)' = Less(pos1, posAfter)
  BY <1>2 DEF Less, IdLess
<1> QED
  BY <1>2, <1>5, <1>6, <1>7, <1>8, <1>9, <1>10 DEF IInv, WellFormed

\* The three cases that push the first neighbour's identifier and go on.
LEMMA PushIInv ==
  ASSUME IInv, pc = "calling",
         id2.digit - id1.digit <= 1,
         newPos' = Append(newPos, id1),
         UNCHANGED <<used, pc, site, pos1, posAfter, strategyCache>>,
         \/ pos2' = <<>> /\ (Tight => IdLess(id1, id2))
         \/ pos2' = pos2 /\ (Tight => id1 = id2)
  PROVE  IInv'
<1> DEFINE n == Len(newPos)
<1>1. /\ newPos \in Seq(Identifiers) /\ posAfter \in Seq(Identifiers) /\ pos1 \in Seq(Identifiers) /\ n \in Nat
  BY DEF IInv, WellFormed, PositionType
<1>2. /\ newPos' \in Seq(Identifiers) /\ Len(newPos') = n + 1
      /\ Len(newPos') <= (IF Len(pos1) < Len(posAfter) THEN Len(posAfter) ELSE Len(pos1))
      /\ \A i \in 1 .. Len(newPos') : newPos'[i] = Padded1(i)'
      /\ \A i \in 1 .. n : newPos'[i] = newPos[i]
      /\ newPos'[n + 1] = id1
  BY PushPrefix
<1>3. Tight' \/ Loose'
  <2>1. CASE Tight
    <3>1. /\ pos2 = posAfter /\ posAfter # <<>>
          /\ \A i \in 1 .. n : newPos'[i] = posAfter[i]
      BY <1>2, <2>1 DEF Tight
    <3>2. n + 1 <= Len(posAfter) /\ id2 = posAfter[n + 1]
      BY <1>1, <2>1, CallArguments
    <3>3. CASE pos2' = <<>> /\ IdLess(id1, id2)
      <4>1. /\ n + 1 \in 1 .. Len(newPos') /\ n + 1 <= Len(posAfter)
            /\ IdLess(newPos'[n + 1], posAfter[n + 1])
            /\ \A i \in 1 .. (n + 1) - 1 : newPos'[i] = posAfter[i]
        BY <1>1, <1>2, <3>1, <3>2, <3>3
      <4> QED
        BY <3>3, <4>1 DEF Loose, IdLess
    <3>4. CASE pos2' = pos2 /\ id1 = id2
      <4>1. \A i \in 1 .. n + 1 : newPos'[i] = posAfter[i]
        BY <1>1, <1>2, <3>1, <3>2, <3>4
      <4> QED
        BY <1>2, <3>1, <3>2, <3>4, <4>1 DEF Tight
    <3> QED
      BY <2>1, <3>3, <3>4
  <2>2. CASE Loose
    <3>1. pos2' = <<>>
      BY <2>2 DEF Loose
    <3>2. CASE posAfter = <<>>
      BY <3>1, <3>2 DEF Loose
    <3>3. CASE posAfter # <<>>
      <4>1. PICK k \in 1 .. n : /\ k <= Len(posAfter)
                                /\ IdLess(newPos[k], posAfter[k])
                                /\ \A i \in 1 .. k - 1 : newPos[i] = posAfter[i]
        BY <2>2, <3>3 DEF Loose
      <4>2. k \in 1 .. Len(newPos') /\ newPos'[k] = newPos[k]
        BY <1>1, <1>2, <4>1
      <4>3. \A i \in 1 .. k - 1 : newPos'[i] = posAfter[i]
        BY <1>1, <1>2, <4>1
      <4> QED
        BY <3>1, <4>1, <4>2, <4>3 DEF Loose, IdLess
    <3> QED
      BY <3>2, <3>3
  <2> QED
    BY <2>1, <2>2, CallArguments
<1>4. DepthGrowsByOne'
  BY <1>1, <1>2 DEF DepthGrowsByOne
<1>5. pos2' \in {<<>>, posAfter'}
  BY DEF IInv
<1>6. WellFormed(pos1)' /\ WellFormed(posAfter)'
  BY DEF IInv, WellFormed
<1>7. /\ \A u \in used' : /\ WellFormed(u.pos)' /\ u.pos # <<>>
                          /\ u.by \in Sites /\ u.pos[Len(u.pos)].site = u.by
  BY DEF IInv, WellFormed
<1>8. Less(pos1, posAfter)' = Less(pos1, posAfter)
  BY DEF Less, IdLess
<1> QED
  BY <1>2, <1>3, <1>4, <1>5, <1>6, <1>7, <1>8 DEF IInv, PositionType

\* Digits of the two identifiers a call compares are numbers.
LEMMA CallDigits == ASSUME IInv, pc = "calling"
                    PROVE  id1.digit \in Nat /\ id2.digit \in Nat
<1>1. CASE Tight
  BY <1>1, CallArguments, IdFields
<1>2. CASE Loose
  BY <1>2, CallArguments, IdFields, BaseAssumption DEF Identifier
<1> QED
  BY <1>1, <1>2, CallArguments

\* Outside the calls, a step that leaves the arguments and the result alone
\* only has to keep the positions in use well formed.
LEMMA RestIInv ==
  ASSUME IInv, pc' \in {"idle", "thrown"},
         UNCHANGED <<site, pos1, posAfter, pos2, newPos>>,
         DOMAIN strategyCache' = Sites,
         \A u \in used' : u \in used \/ (pc = "done" /\ u = [pos |-> newPos, by |-> site])
  PROVE  IInv'
<1>1. \A u \in used' : /\ WellFormed(u.pos)' /\ u.pos # <<>>
                       /\ u.by \in Sites /\ u.pos[Len(u.pos)].site = u.by
  <2>1. \A p : WellFormed(p)' = WellFormed(p)
    BY DEF WellFormed
  <2>2. TAKE u \in used'
  <2>3. CASE u \in used
    BY <2>1, <2>3 DEF IInv
  <2>4. CASE pc = "done" /\ u = [pos |-> newPos, by |-> site]
    BY <2>1, <2>4 DEF IInv
  <2> QED
    BY <2>2, <2>3, <2>4
<1>2. WellFormed(pos1)' /\ WellFormed(posAfter)'
  BY DEF IInv, WellFormed
<1>3. Less(pos1, posAfter)' = Less(pos1, posAfter)
  BY DEF Less, IdLess
<1>4. DepthGrowsByOne'
  BY DEF IInv, DepthGrowsByOne
<1> QED
  BY <1>1, <1>2, <1>3, <1>4 DEF IInv

LEMMA NextIInv == IInv /\ [Next]_vars => IInv'
<1> SUFFICES ASSUME IInv, [Next]_vars PROVE IInv'
  OBVIOUS
<1>1. ASSUME NEW s \in Sites, NEW before \in Positions \cup {<<>>},
             NEW after \in Positions \cup {<<>>}, Start(s, before, after)
      PROVE  IInv'
  BY <1>1, StartIInv
<1>2. ASSUME NEW s \in Sites, clear(s) PROVE IInv'
  <2>1. /\ pc = "idle" /\ UNCHANGED <<used, pc, site, pos1, posAfter, pos2, newPos>>
        /\ DOMAIN strategyCache' = DOMAIN strategyCache
    BY <1>2 DEF clear
  <2>2. DOMAIN strategyCache = Sites
    BY DEF IInv
  <2> QED
    BY <2>1, <2>2, RestIInv
<1>3. CASE Case1
  BY <1>3, Case1IInv
<1>4. CASE Case2
  <2>1. pc = "calling" /\ id2.digit - id1.digit = 1
    BY <1>4 DEF Case2
  <2>2. IdLess(id1, id2)
    BY <2>1, CallDigits DEF IdLess
  <2> QED
    BY <1>4, <2>1, <2>2, PushIInv DEF Case2
<1>5. CASE Case3Less
  <2>1. /\ pc = "calling" /\ id1.digit = id2.digit /\ IdLess(id1, id2)
    BY <1>5 DEF Case3Less, IdLess
  <2>2. id2.digit - id1.digit <= 1
    BY <2>1, CallDigits
  <2> QED
    BY <1>5, <2>1, <2>2, PushIInv DEF Case3Less
<1>6. CASE Case3Equal
  <2>1. pc = "calling" /\ id1 = id2
    BY <1>6 DEF Case3Equal
  <2>2. id2.digit - id1.digit <= 1
    BY <2>1, CallDigits
  <2> QED
    BY <1>6, <2>1, <2>2, PushIInv DEF Case3Equal
<1>7. CASE InvalidOrdering
  BY <1>7, RestIInv DEF InvalidOrdering, IInv
<1>8. CASE Finish
  BY <1>8, RestIInv DEF Finish, IInv
<1>9. CASE UNCHANGED vars
  <2>1. \A p : WellFormed(p)' = WellFormed(p)
    BY DEF WellFormed
  <2>3. Less(pos1, posAfter)' = Less(pos1, posAfter)
    BY <1>9 DEF vars, Less, IdLess
  <2>4. /\ StrictlyBetween' = StrictlyBetween /\ DepthGrowsByOne' = DepthGrowsByOne
        /\ (Tight \/ Loose)' = (Tight \/ Loose)
        /\ \A i : Padded1(i)' = Padded1(i)
    BY <1>9 DEF vars, StrictlyBetween, DepthGrowsByOne, Tight, Loose, Padded1,
               Less, IdLess, Identifier
  <2>5. UNCHANGED <<used, pc, site, pos1, posAfter, pos2, newPos, strategyCache>>
    BY <1>9 DEF vars
  <2>6. WellFormed(pos1)' /\ WellFormed(posAfter)' /\ WellFormed(newPos)' = WellFormed(newPos)
    BY <2>5 DEF WellFormed, IInv
  <2> QED
    BY <2>1, <2>3, <2>4, <2>5, <2>6 DEF IInv
<1> QED
  BY <1>1, <1>2, <1>3, <1>4, <1>5, <1>6, <1>7, <1>8, <1>9 DEF Next, Call

\* The inductive invariant holds in every state of every allocation.
THEOREM Inductive == Spec => []IInv
<1>1. Init => IInv
  BY InitIInv
<1>2. IInv /\ [Next]_vars => IInv'
  BY NextIInv
<1> QED
  BY <1>1, <1>2, PTL DEF Spec

-----------------------------------------------------------------------------
(***************************************************************************)
(* What follows from it.                                                   *)
(***************************************************************************)

\* The position generatePositionBetween returns sorts strictly between the
\* two it was given, for every BASE, BOUNDARY and set of sites.
THEOREM AllocatedStrictlyBetween == Spec => []StrictlyBetween
<1>1. IInv => StrictlyBetween
  BY DEF IInv, StrictlyBetween
<1> QED
  BY <1>1, Inductive, PTL

\* No two sites allocate the same position: the key of the server's map of
\* symbols is unique across editors.
THEOREM AllocatedByOneSite == Spec => []OneSitePerPosition
<1>1. IInv => OneSitePerPosition
  BY DEF IInv, OneSitePerPosition
<1> QED
  BY <1>1, Inductive, PTL

\* generatePositionBetween never reaches its end without a return.
THEOREM NoMissingBranch == Spec => []DigitsOrdered
<1>1. IInv => DigitsOrdered
  <2> SUFFICES ASSUME IInv, pc = "calling" PROVE id1.digit <= id2.digit
    BY DEF DigitsOrdered
  <2>1. CASE Tight
    BY <2>1, CallArguments
  <2>2. CASE Loose
    <3>1. id2.digit = BASE
      BY <2>2, CallArguments DEF Identifier
    <3>2. id1.digit \in Nat /\ id1.digit < BASE
      BY CallArguments, IdFields
    <3> QED
      BY <3>1, <3>2, BaseAssumption
  <2> QED
    BY <2>1, <2>2, CallArguments
<1> QED
  BY <1>1, Inductive, PTL

\* The recursion of generatePositionBetween is bounded by the depth of the
\* neighbours.
THEOREM DepthBounded == Spec => []DepthGrowsByOne
<1>1. IInv => DepthGrowsByOne
  BY DEF IInv
<1> QED
  BY <1>1, Inductive, PTL

\* The type invariant of Lseq.
THEOREM TypeCorrect == Spec => []TypeOK
<1>1. IInv => TypeOK
  BY DEF IInv, TypeOK, WellFormed
<1> QED
  BY <1>1, Inductive, PTL
=============================================================================
