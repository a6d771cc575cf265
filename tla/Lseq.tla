---------------------------------- MODULE Lseq ----------------------------------
(***************************************************************************)
(* Allocation of the position of a new symbol (Client/CRDT.cpp,            *)
(* generatePositionBetween and generateIdBetween; Utility/symbol.h,        *)
(* Identifier::compare and Symbol::compare).                               *)
(*                                                                         *)
(* A position is a sequence of identifiers, an identifier a digit and the  *)
(* site that chose it.  A site asks for a position between those of two    *)
(* neighbours; the code recurses over the levels of the two positions and  *)
(* pushes one identifier per call.  The recursion is a tail recursion and  *)
(* is modelled as a loop: one step of the specification is one call.       *)
(*                                                                         *)
(* Neighbours are any two positions of `used', because a replica holds an  *)
(* arbitrary part of the symbols allocated so far: the others are erased,  *)
(* or are still on their way to it.                                        *)
(***************************************************************************)
EXTENDS Integers, Sequences, FiniteSets

CONSTANTS
  BASE,        \* CRDT.h: digits of an allocated identifier are below BASE
  BOUNDARY,    \* CRDT.h: how far from a neighbour a digit is drawn
  Sites,       \* the site ids of the editors (hashes of their usernames)
  MaxUsed,     \* bound: how many positions are allocated
  MaxDepth     \* bound: neighbours have at most this many identifiers

ASSUME BaseAssumption == BASE \in Nat /\ BASE > 1
ASSUME BoundaryAssumption == BOUNDARY \in Nat /\ BOUNDARY > 1
ASSUME SitesAssumption == Sites \subseteq Int
ASSUME BoundsAssumption == MaxUsed \in Nat /\ MaxDepth \in Nat

VARIABLES
  used,           \* the positions allocated so far, each with the site that did
  pc,             \* "idle", "calling", "done" or "thrown"
  site,           \* _siteId of the replica that allocates
  pos1,           \* the position of the symbol before, <<>> when there is none
  posAfter,       \* the position of the symbol after, as localInsert passes it
  pos2,           \* the argument pos2 of the current call: posAfter or <<>>
  newPos,         \* the identifiers pushed so far
  strategyCache   \* per site and level, the direction drawn the first time

vars == <<used, pc, site, pos1, posAfter, pos2, newPos, strategyCache>>

(***************************************************************************)
(* Identifiers and positions.                                              *)
(***************************************************************************)
Identifier(digit, s) == [digit |-> digit, site |-> s]

\* The identifiers a position is made of; BASE is the padding only.
Identifiers == [digit : 0 .. BASE - 1, site : Sites]

\* Identifier::compare(i1, i2) < 0.
IdLess(i1, i2) ==
  \/ i1.digit < i2.digit
  \/ i1.digit = i2.digit /\ i1.site < i2.site

\* Symbol::compare(p1, p2) < 0: the first difference decides, and a proper
\* prefix comes first.
Less(p1, p2) ==
  \E k \in 1 .. Len(p2) :
    /\ \A i \in 1 .. k - 1 : i \in 1 .. Len(p1) /\ p1[i] = p2[i]
    /\ k \in 1 .. Len(p1) => IdLess(p1[k], p2[k])

Positions == {u.pos : u \in used}

(***************************************************************************)
(* The calls.                                                              *)
(***************************************************************************)
level == Len(newPos)

\* A parameter or the padding used past its end.
id1 == IF level < Len(pos1) THEN pos1[level + 1] ELSE Identifier(0, site)
id2 == IF level < Len(pos2) THEN pos2[level + 1] ELSE Identifier(BASE, site)

\* Mutated form: the interval is not bounded away from the second neighbour.
generateIdBetweenClosed(d1, d2, plus) ==
  LET interval == d2 - d1
      step == IF BOUNDARY < interval THEN BOUNDARY ELSE interval
  IN  IF plus THEN {d1 + delta : delta \in 1 .. step}
      ELSE {d2 - delta : delta \in 1 .. step}

\* The digits generateIdBetween may draw: at most BOUNDARY - 1 away from the
\* first digit (boundary+) or from the second (boundary-), strictly between.
generateIdBetween(d1, d2, plus) ==
  LET interval == d2 - d1
      step == IF BOUNDARY < interval THEN BOUNDARY ELSE interval
  IN  IF plus THEN {d1 + delta : delta \in 1 .. step - 1}
      ELSE {d2 - delta : delta \in 1 .. step - 1}

\* Mutated form: the identifiers of the last position are still there.
StartKeep(s, before, after) ==
  /\ pc = "idle"
  /\ Cardinality(used) < MaxUsed
  /\ Len(before) <= MaxDepth /\ Len(after) <= MaxDepth
  /\ IF after = <<>> THEN used = {} /\ before = <<>>
     ELSE before = <<>> \/ Less(before, after)
  /\ pc' = "calling"
  /\ site' = s
  /\ pos1' = before
  /\ posAfter' = after
  /\ pos2' = after
  /\ UNCHANGED <<used, newPos, strategyCache>>

\* localInsert computes the neighbours and makes the first call.  There is
\* no symbol after the new one only when the terminator itself is inserted.
Start(s, before, after) ==
  /\ pc = "idle"
  /\ Cardinality(used) < MaxUsed
  /\ Len(before) <= MaxDepth /\ Len(after) <= MaxDepth
  /\ IF after = <<>> THEN used = {} /\ before = <<>>
     ELSE before = <<>> \/ Less(before, after)
  /\ pc' = "calling"
  /\ site' = s
  /\ pos1' = before
  /\ posAfter' = after
  /\ pos2' = after
  /\ newPos' = <<>>
  /\ UNCHANGED <<used, strategyCache>>

\* Mutated form: the new identifier keeps the site of the first neighbour.
Case1Foreign ==
  /\ pc = "calling"
  /\ id2.digit - id1.digit > 1
  /\ \E plus \in BOOLEAN :
       /\ level \in DOMAIN strategyCache[site] => plus = strategyCache[site][level]
       /\ \E digit \in generateIdBetween(id1.digit, id2.digit, plus) :
            newPos' = Append(newPos, Identifier(digit, id1.site))
       /\ strategyCache' = [strategyCache EXCEPT ![site] =
             [l \in DOMAIN @ \cup {level} |-> IF l = level THEN plus ELSE @[l]]]
  /\ pc' = "done"
  /\ UNCHANGED <<used, site, pos1, posAfter, pos2>>

\* Mutated form: a room of one digit is not seen.
Case1Wide ==
  /\ pc = "calling"
  /\ id2.digit - id1.digit > 2
  /\ \E plus \in BOOLEAN :
       /\ level \in DOMAIN strategyCache[site] => plus = strategyCache[site][level]
       /\ \E digit \in generateIdBetween(id1.digit, id2.digit, plus) :
            newPos' = Append(newPos, Identifier(digit, site))
       /\ strategyCache' = [strategyCache EXCEPT ![site] =
             [l \in DOMAIN @ \cup {level} |-> IF l = level THEN plus ELSE @[l]]]
  /\ pc' = "done"
  /\ UNCHANGED <<used, site, pos1, posAfter, pos2>>

\* Case 1: enough space to add in between.
Case1 ==
  /\ pc = "calling"
  /\ id2.digit - id1.digit > 1
  /\ \E plus \in BOOLEAN :
       /\ level \in DOMAIN strategyCache[site] => plus = strategyCache[site][level]
       /\ \E digit \in generateIdBetween(id1.digit, id2.digit, plus) :
            newPos' = Append(newPos, Identifier(digit, site))
       /\ strategyCache' = [strategyCache EXCEPT ![site] =
             [l \in DOMAIN @ \cup {level} |-> IF l = level THEN plus ELSE @[l]]]
  /\ pc' = "done"
  /\ UNCHANGED <<used, site, pos1, posAfter, pos2>>

\* Case 2: no space in between, use identifier of first position.
Case2 ==
  /\ pc = "calling"
  /\ id2.digit - id1.digit = 1
  /\ newPos' = Append(newPos, id1)
  /\ pos2' = <<>>
  /\ UNCHANGED <<used, pc, site, pos1, posAfter, strategyCache>>

\* Mutated form: the next level still looks at the second neighbour.
Case3LessKeep ==
  /\ pc = "calling"
  /\ id1.digit = id2.digit /\ id1.site < id2.site
  /\ newPos' = Append(newPos, id1)
  /\ UNCHANGED <<used, pc, site, pos1, posAfter, pos2, strategyCache>>

\* Case 3: same digit, use site id to discriminate.
Case3Less ==
  /\ pc = "calling"
  /\ id1.digit = id2.digit /\ id1.site < id2.site
  /\ newPos' = Append(newPos, id1)
  /\ pos2' = <<>>
  /\ UNCHANGED <<used, pc, site, pos1, posAfter, strategyCache>>

\* Mutated form: equal identifiers are taken for ordered ones.
Case3EqualDrop ==
  /\ pc = "calling"
  /\ id1 = id2
  /\ newPos' = Append(newPos, id1)
  /\ pos2' = <<>>
  /\ UNCHANGED <<used, pc, site, pos1, posAfter, strategyCache>>

Case3Equal ==
  /\ pc = "calling"
  /\ id1 = id2
  /\ newPos' = Append(newPos, id1)
  /\ UNCHANGED <<used, pc, site, pos1, posAfter, pos2, strategyCache>>

\* throw std::runtime_error("Invalid ordering"): nothing catches it.
InvalidOrdering ==
  /\ pc = "calling"
  /\ id1.digit = id2.digit /\ id1.site > id2.site
  /\ pc' = "thrown"
  /\ UNCHANGED <<used, site, pos1, posAfter, pos2, newPos, strategyCache>>

\* Back in localInsert: the symbol is built with the new position.
Finish ==
  /\ pc = "done"
  /\ used' = used \cup {[pos |-> newPos, by |-> site]}
  /\ pc' = "idle"
  /\ UNCHANGED <<site, pos1, posAfter, pos2, newPos, strategyCache>>

\* CRDT::clear, when the site leaves the document: the directions are drawn
\* again for the next one.
clear(s) ==
  /\ pc = "idle"
  /\ strategyCache[s] # <<>>
  /\ strategyCache' = [strategyCache EXCEPT ![s] = <<>>]
  /\ UNCHANGED <<used, pc, site, pos1, posAfter, pos2, newPos>>

Init ==
  /\ used = {}
  /\ pc = "idle"
  /\ site \in Sites
  /\ pos1 = <<>> /\ posAfter = <<>> /\ pos2 = <<>> /\ newPos = <<>>
  /\ strategyCache = [s \in Sites |-> <<>>]

Call == \/ Case1 \/ Case2 \/ Case3Less \/ Case3Equal
        \/ InvalidOrdering

Next ==
  \/ \E s \in Sites, before, after \in Positions \cup {<<>>} :
       Start(s, before, after)
  \/ \E s \in Sites : clear(s)
  \/ Call
  \/ Finish

\* The calls of one allocation follow each other inside one event handler.
Spec == Init /\ [][Next]_vars /\ WF_vars(Call) /\ WF_vars(Finish)

-----------------------------------------------------------------------------
(***************************************************************************)
(* Properties.                                                             *)
(***************************************************************************)

PositionType == Seq(Identifiers)

\* The type invariant: arguments and result are sequences of identifiers of
\* known sites, and the cache holds a direction per level.
TypeOK ==
  /\ used \subseteq [pos : PositionType, by : Sites]
  /\ pc \in {"idle", "calling", "done", "thrown"}
  /\ site \in Sites
  /\ pos1 \in PositionType /\ posAfter \in PositionType
  /\ pos2 \in {<<>>, posAfter}
  /\ newPos \in PositionType
  /\ DOMAIN strategyCache = Sites

\* What the CRDT rests on: the position handed to localInsert sorts strictly
\* between the two neighbours it was asked for, on every path through the
\* cases of generatePositionBetween and for every digit drawn.
StrictlyBetween ==
  pc = "done" =>
    /\ Less(pos1, newPos)
    /\ posAfter # <<>> => Less(newPos, posAfter)

\* Two sites never build the same position, whatever neighbours they see:
\* symbols of different editors cannot overwrite each other in the server's
\* map, whose key is the position.
OneSitePerPosition ==
  \A u, v \in used : u.pos = v.pos => u.by = v.by

\* The missing `else' of generatePositionBetween is never reached: as long as
\* the calls go on, the first identifier's digit is not above the second's.
DigitsOrdered ==
  pc = "calling" => id1.digit <= id2.digit

\* A position is at most one identifier longer than its longer neighbour, so
\* the recursion ends however often sites insert in the same place.
DepthGrowsByOne ==
  Len(newPos) <= 1 + (IF Len(pos1) < Len(posAfter) THEN Len(posAfter) ELSE Len(pos1))

\* Every allocation ends, with a position or with the exception.
AllocationEnds == pc = "calling" ~> pc \in {"done", "thrown"}

\* What the exception's text asserts: it is thrown for neighbours in the
\* wrong order only.  Start passes them in the right order, so it is never
\* thrown.
NeverInvalidOrdering == pc # "thrown"

-----------------------------------------------------------------------------
(***************************************************************************)
(* The inductive invariant behind the theorems of LseqProofs.              *)
(***************************************************************************)

\* A position the sites may have allocated: the digits are below BASE, and
\* the last one is not 0, so that there is always room before it.
WellFormed(p) ==
  /\ p \in PositionType
  /\ p # <<>> => p[Len(p)].digit >= 1

\* Identifier i of the first neighbour, or the padding past its end.
Padded1(i) == IF i <= Len(pos1) THEN pos1[i] ELSE Identifier(0, site)

\* The calls still compare with the second neighbour: what is pushed so far
\* is a prefix of it.
Tight ==
  /\ pos2 = posAfter
  /\ posAfter # <<>>
  /\ Len(newPos) <= Len(posAfter)
  /\ \A i \in 1 .. Len(newPos) : newPos[i] = posAfter[i]

\* The calls no longer look at the second neighbour: there is none, or what
\* is pushed so far already sorts before it.
Loose ==
  /\ pos2 = <<>>
  /\ \/ posAfter = <<>>
     \/ \E k \in 1 .. Len(newPos) :
          /\ k <= Len(posAfter)
          /\ IdLess(newPos[k], posAfter[k])
          /\ \A i \in 1 .. k - 1 : newPos[i] = posAfter[i]

\* The inductive invariant: positions in use are well formed and end with the
\* site that built them; the arguments are ordered; while the calls go on,
\* the identifiers pushed are those of the first neighbour and the calls are
\* tight or loose; when they are over the result is as promised.
IInv ==
  /\ used \subseteq [pos : PositionType, by : Sites]
  /\ \A u \in used : /\ WellFormed(u.pos) /\ u.pos # <<>>
                     /\ u.by \in Sites /\ u.pos[Len(u.pos)].site = u.by
  /\ WellFormed(pos1) /\ WellFormed(posAfter)
  /\ posAfter = <<>> => pos1 = <<>>
  /\ posAfter # <<>> => pos1 = <<>> \/ Less(pos1, posAfter)
  /\ site \in Sites
  /\ pc \in {"idle", "calling", "done", "thrown"}
  /\ newPos \in PositionType
  /\ pos2 \in {<<>>, posAfter}
  /\ DOMAIN strategyCache = Sites
  /\ DepthGrowsByOne
  /\ pc = "calling" =>
       /\ Len(newPos) <= (IF Len(pos1) < Len(posAfter) THEN Len(posAfter) ELSE Len(pos1))
       /\ \A i \in 1 .. Len(newPos) : newPos[i] = Padded1(i)
       /\ Tight \/ Loose
  /\ pc = "done" =>
       /\ WellFormed(newPos) /\ newPos # <<>>
       /\ newPos[Len(newPos)].site = site
       /\ StrictlyBetween

=============================================================================
