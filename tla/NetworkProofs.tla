----------------------------- MODULE NetworkProofs -----------------------------
(***************************************************************************)
(* Proofs about the connections, for any clients, number of threads, sizes *)
(* of messages and bounds: a connection is a channel in each direction     *)
(* (IsChannel), the pool of threads counts its workers right and gives a   *)
(* new one to a thread that has fewest, and the end of a worker is the     *)
(* last the server hears of it.                                            *)
(***************************************************************************)
EXTENDS Network, FiniteSetTheorems, SequenceTheorems, WellFoundedInduction, TLAPS

-----------------------------------------------------------------------------
(***************************************************************************)
(* Induction, as the least number of a set: the induction theorems of the  *)
(* library take an operator, which the provers cannot instantiate; that a  *)
(* set of numbers has a least one takes none.                              *)
(***************************************************************************)

Before == {p \in Nat \X Nat : p[1] < p[2]}

LEMMA LeastNumber ==
  ASSUME NEW T, T \subseteq Nat, T # {}
  PROVE  \E m \in T : \A k \in T : m <= k
<1>1. IsWellFoundedOn(Before, Nat)
  BY NatLessThanWellFounded DEF OpToRel, Before
<1>2. PICK m \in T : \A k \in T : ~ (<<k, m>> \in Before)
  BY <1>1, WFMin
<1>3. ASSUME NEW k \in T PROVE m <= k
  <2>1. m \in Nat /\ k \in Nat
    OBVIOUS
  <2>2. <<k, m>> \notin Before
    BY <1>2
  <2> QED
    BY <2>1, <2>2 DEF Before
<1> QED
  BY <1>3

-----------------------------------------------------------------------------
(***************************************************************************)
(* The reader.  That ReadOn is the function its definition describes takes *)
(* an induction over the bytes it holds.                                   *)
(***************************************************************************)

LEMMA Positive == ASSUME NEW m \in Messages PROVE Size(m) \in Nat \ {0} /\ Header \in Nat \ {0}
BY SizeAssumption, HeaderAssumption

\* A sequence cut in two.
LEMMA Cut ==
  ASSUME NEW S, NEW s \in Seq(S), NEW n \in 0 .. Len(s)
  PROVE  LET first == SubSeq(s, 1, n)
             rest == SubSeq(s, n + 1, Len(s))
         IN  /\ first \in Seq(S) /\ Len(first) = n /\ \A i \in 1 .. n : first[i] = s[i]
             /\ rest \in Seq(S) /\ Len(rest) = Len(s) - n
             /\ \A i \in 1 .. Len(s) - n : rest[i] = s[n + i]
             /\ first \o rest = s
<1> DEFINE first == SubSeq(s, 1, n)
           rest == SubSeq(s, n + 1, Len(s))
<1>1. first \in Seq(S) /\ Len(first) = n /\ \A i \in 1 .. n : first[i] = s[i]
  OBVIOUS
<1>2. rest \in Seq(S) /\ Len(rest) = Len(s) - n
  <2>1. n \in Nat /\ Len(s) \in Nat /\ n <= Len(s) /\ n + 1 \in Nat
    OBVIOUS
  <2>2. Len(rest) = Len(s) - n
    BY <2>1
  <2>3. rest \in Seq(S)
    BY <2>1
  <2> QED
    BY <2>2, <2>3
<1>3. \A i \in 1 .. Len(s) - n : rest[i] = s[n + i]
  OBVIOUS
<1> HIDE DEF first, rest
<1>4. first \o rest = s
  <2>1. 1 \in 1 .. Len(s) + 1 /\ n \in 1 - 1 .. Len(s) /\ Len(s) \in n .. Len(s)
    OBVIOUS
  <2>2. SubSeq(s, 1, n) \o SubSeq(s, n + 1, Len(s)) = SubSeq(s, 1, Len(s))
    BY <2>1, ConcatAdjacentSubSeq, Zenon
  <2>3. SubSeq(s, 1, Len(s)) = s
    BY SubSeqFull, Zenon
  <2> QED
    BY <2>2, <2>3, Zenon DEF first, rest
<1> QED
  BY <1>1, <1>2, <1>3, <1>4 DEF first, rest

\* What is read of a reader that holds a message.
LEMMA WholeType ==
  ASSUME NEW r \in Reading, Whole(r)
  PROVE  /\ parseJson(r, Wanted(r)) \in Reading /\ Parsed(r.received, Wanted(r)) \in Messages \cup {Garbled}
         /\ Len(parseJson(r, Wanted(r)).received) < Len(r.received)
         /\ Wanted(r) \in Nat \ {0} /\ Header + Wanted(r) \in 1 .. Len(r.received)
         /\ parseJson(r, Wanted(r)).received = SubSeq(r.received, Header + Wanted(r) + 1, Len(r.received))
         /\ parseJson(r, Wanted(r)).expected = 0
         /\ parseJson(r, Wanted(r)).emitted = Append(r.emitted, Parsed(r.received, Wanted(r)))
<1> DEFINE size == Wanted(r)
<1>1. /\ Header \in Nat \ {0} /\ r.received \in Seq(Messages \X (Nat \ {0}))
      /\ r.emitted \in Seq(Messages \cup {Garbled})
      /\ size \in 1 .. Len(r.received) - Header /\ Len(r.received) >= Header
  BY HeaderAssumption DEF Reading, Whole
<1> HIDE DEF size
<1>2. size \in Nat \ {0} /\ Header + size \in 1 .. Len(r.received) /\ r.received # <<>>
  BY <1>1
<1>3. r.received[1] \in Messages \X (Nat \ {0})
  BY <1>1, <1>2
<1>4. r.received[1][1] \in Messages
  BY <1>3
<1>5. Parsed(r.received, size) \in Messages \cup {Garbled}
  BY <1>4 DEF Parsed
<1>6. /\ SubSeq(r.received, Header + size + 1, Len(r.received)) \in Seq(Messages \X (Nat \ {0}))
      /\ Len(SubSeq(r.received, Header + size + 1, Len(r.received))) = Len(r.received) - (Header + size)
  <2>1. PICK k, s, S : k = Header + size /\ s = r.received /\ S = Messages \X (Nat \ {0})
    OBVIOUS
  <2>2. k \in 0 .. Len(s) /\ s \in Seq(S)
    BY <1>1, <1>2, <2>1
  <2>3. SubSeq(s, k + 1, Len(s)) \in Seq(S) /\ Len(SubSeq(s, k + 1, Len(s))) = Len(s) - k
    BY <2>2, Cut
  <2> QED
    BY <2>1, <2>3
<1>7. Append(r.emitted, Parsed(r.received, size)) \in Seq(Messages \cup {Garbled})
  BY <1>1, <1>5
<1> QED
  <2>1. parseJson(r, size) =
          [received |-> SubSeq(r.received, Header + size + 1, Len(r.received)), expected |-> 0,
           emitted |-> Append(r.emitted, Parsed(r.received, size))]
    BY DEF parseJson
  <2>2. Len(r.received) - (Header + size) < Len(r.received)
    BY <1>1, <1>2
  <2> HIDE DEF Parsed
  <2>3. parseJson(r, size) \in Reading
    BY <2>1, <1>6, <1>7 DEF Reading
  <2>4. /\ parseJson(r, size).received = SubSeq(r.received, Header + size + 1, Len(r.received))
        /\ parseJson(r, size).expected = 0
        /\ parseJson(r, size).emitted = Append(r.emitted, Parsed(r.received, size))
    BY DEF parseJson
  <2>5. Len(parseJson(r, size).received) < Len(r.received)
    BY <1>6, <2>2, <2>4
  <2> HIDE DEF parseJson
  <2> QED
    BY <1>2, <1>5, <2>3, <2>4, <2>5 DEF size

LEMMA WantedType ==
  ASSUME NEW r \in Reading, Len(r.received) >= Header
  PROVE  Wanted(r) \in Nat \cup {Endless} /\ r.received # <<>> /\ r.received[1][1] \in Messages
<1>1. Header \in Nat \ {0} /\ r.received \in Seq(Messages \X (Nat \ {0})) /\ r.expected \in Nat \cup {Endless}
  BY HeaderAssumption DEF Reading
<1>2. r.received # <<>>
  BY <1>1
<1>3. r.received[1] \in Messages \X (Nat \ {0})
  BY <1>1, <1>2
<1>4. r.received[1][1] \in Messages
  BY <1>3
<1>5. Size(r.received[1][1]) \in Nat
  BY <1>4, Positive
<1> QED
  BY <1>1, <1>2, <1>4, <1>5 DEF Wanted, ReadSize

LEMMA WaitingType == ASSUME NEW r \in Reading, ~Whole(r) PROVE Waiting(r) \in Reading
<1>1. CASE Len(r.received) < Header
  BY <1>1 DEF Waiting
<1>2. CASE ~(Len(r.received) < Header)
  <2>1. Len(r.received) >= Header
    BY <1>2, HeaderAssumption DEF Reading
  <2>2. Wanted(r) \in Nat \cup {Endless}
    BY <2>1, WantedType
  <2> QED
    BY <1>2, <2>2 DEF Waiting, Reading
<1> QED
  BY <1>1, <1>2

\* One step of the reading, with f for the rest of it; and f does all of it,
\* for the readers that hold less than n bytes.
Step(f, r) == IF Whole(r) THEN f[parseJson(r, Wanted(r))] ELSE Waiting(r)
Small(n) == {r \in Reading : Len(r.received) < n}
Reads(f, n) == \A r \in Small(n) : f[r] = Step(f, r)

\* The induction over the bytes: a set of readers has none if each of them holds
\* a message and reading it gives another one of the set.
LEMMA NoneLeft ==
  ASSUME NEW T, T \subseteq Reading, \A r \in T : Whole(r) /\ parseJson(r, Wanted(r)) \in T
  PROVE  T = {}
<1> SUFFICES ASSUME T # {} PROVE FALSE
  OBVIOUS
<1> DEFINE N == {Len(r.received) : r \in T}
<1>1. N \subseteq Nat /\ N # {}
  <2>1. \A r \in T : Len(r.received) \in Nat
    BY DEF Reading
  <2> QED
    BY <2>1
<1> HIDE DEF N
<1>2. PICK i \in N : \A k \in N : i <= k
  BY <1>1, LeastNumber
<1>3. PICK r \in T : i = Len(r.received)
  BY <1>2 DEF N
<1> DEFINE s == parseJson(r, Wanted(r))
<1>4. s \in T /\ Len(s.received) < Len(r.received)
  BY WholeType
<1> HIDE DEF s
<1>5. Len(s.received) \in N /\ i \in Nat /\ Len(s.received) \in Nat
  <2>1. Len(s.received) \in N
    BY <1>4 DEF N
  <2> QED
    BY <1>1, <1>2, <2>1
<1> QED
  BY <1>2, <1>3, <1>4, <1>5

LEMMA ReadsSame ==
  ASSUME NEW f, NEW g, NEW n \in Nat, NEW k \in Nat, Reads(f, n), Reads(g, k)
  PROVE  \A r \in Small(n) \cap Small(k) : f[r] = g[r]
<1> DEFINE T == {r \in Small(n) \cap Small(k) : f[r] # g[r]}
<1>1. ASSUME NEW r \in T PROVE Whole(r) /\ parseJson(r, Wanted(r)) \in T
  <2>1. Whole(r) /\ f[parseJson(r, Wanted(r))] # g[parseJson(r, Wanted(r))]
    BY DEF Reads, Step
  <2> DEFINE s == parseJson(r, Wanted(r))
  <2>2. s \in Reading /\ Len(s.received) < Len(r.received) /\ r \in Reading
    BY <2>1, WholeType DEF Small
  <2> HIDE DEF s
  <2>3. Len(s.received) \in Nat /\ Len(r.received) \in Nat
    BY <2>2 DEF Reading
  <2>4. s \in Small(n) \cap Small(k)
    BY <2>2, <2>3 DEF Small
  <2> QED
    BY <2>1, <2>4 DEF s
<1>2. T \subseteq Reading
  BY DEF Small
<1> HIDE DEF T
<1>3. T = {}
  BY <1>1, <1>2, NoneLeft
<1> QED
  BY <1>3 DEF T

LEMMA ReadsSome == ASSUME NEW n \in Nat PROVE \E f : Reads(f, n)
<1> DEFINE T == {i \in Nat : ~ \E f : Reads(f, i)}
<1>1. SUFFICES ASSUME T # {} PROVE FALSE
  BY <1>1
<1>2. PICK i \in T : \A j \in T : i <= j
  <2>1. T \subseteq Nat
    OBVIOUS
  <2> HIDE DEF T
  <2> QED
    BY <1>1, <2>1, LeastNumber
<1>3. i # 0
  <2>1. Small(0) = {}
    BY DEF Small, Reading
  <2>2. Reads(<<>>, 0)
    BY <2>1 DEF Reads
  <2> QED
    BY <1>2, <2>2
<1>4. i - 1 \in Nat /\ i - 1 \notin T /\ i \in Nat
  BY <1>2, <1>3
<1>5. PICK f : Reads(f, i - 1)
  BY <1>4
<1> DEFINE g == [r \in Small(i) |-> Step(f, r)]
<1>6. ASSUME NEW r \in Small(i) PROVE g[r] = Step(g, r)
  <2>1. CASE Whole(r)
    <3> DEFINE s == parseJson(r, Wanted(r))
    <3>1. s \in Reading /\ Len(s.received) < Len(r.received) /\ r \in Reading
      BY <2>1, WholeType DEF Small
    <3> HIDE DEF s
    <3>2. Len(s.received) \in Nat /\ Len(r.received) \in Nat
      BY <3>1 DEF Reading
    <3>3. s \in Small(i - 1) /\ s \in Small(i)
      BY <1>4, <3>1, <3>2 DEF Small
    <3>4. g[s] = f[s]
      BY <3>3, <1>5 DEF Reads
    <3> QED
      BY <2>1, <3>4 DEF Step, s
  <2>2. CASE ~Whole(r)
    BY <2>2 DEF Step
  <2> QED
    BY <2>1, <2>2
<1> HIDE DEF g
<1>7. Reads(g, i)
  BY <1>6 DEF Reads
<1> QED
  BY <1>2, <1>7

LEMMA ReadOnExists == \E f : f = [r \in Reading |-> Step(f, r)]
<1> DEFINE F(n) == CHOOSE f : Reads(f, n)
           g == [r \in Reading |-> F(Len(r.received) + 1)[r]]
<1>1. ASSUME NEW n \in Nat PROVE Reads(F(n), n)
  BY ReadsSome
<1> HIDE DEF F
<1>2. ASSUME NEW r \in Reading PROVE g[r] = Step(g, r)
  <2>1. Len(r.received) \in Nat
    BY DEF Reading
  <2>2. r \in Small(Len(r.received) + 1)
    BY <2>1 DEF Small
  <2>3. g[r] = Step(F(Len(r.received) + 1), r)
    BY <1>1, <2>1, <2>2 DEF Reads
  <2>4. CASE Whole(r)
    <3> DEFINE s == parseJson(r, Wanted(r))
    <3>1. s \in Reading /\ Len(s.received) < Len(r.received)
      BY <2>4, WholeType
    <3> HIDE DEF s
    <3>2. Len(s.received) \in Nat
      BY <3>1 DEF Reading
    <3>3. s \in Small(Len(r.received) + 1) \cap Small(Len(s.received) + 1)
      BY <2>1, <3>1, <3>2 DEF Small
    <3>4. F(Len(r.received) + 1)[s] = F(Len(s.received) + 1)[s]
      BY <1>1, <2>1, <3>2, <3>3, ReadsSame
    <3>5. g[s] = F(Len(r.received) + 1)[s]
      BY <3>1, <3>4
    <3> QED
      BY <2>3, <2>4, <3>5 DEF Step, s
  <2>5. CASE ~Whole(r)
    BY <2>3, <2>5 DEF Step
  <2> QED
    BY <2>4, <2>5
<1>3. g = [r \in Reading |-> Step(g, r)]
  BY <1>2
<1> QED
  BY <1>3

LEMMA ReadOnDef == \A r \in Reading : ReadOn[r] = IF Whole(r) THEN ReadOn[parseJson(r, Wanted(r))] ELSE Waiting(r)
<1>1. \E f : f = [r \in Reading |-> IF Whole(r) THEN f[parseJson(r, Wanted(r))] ELSE Waiting(r)]
  BY ReadOnExists DEF Step
<1>2. ReadOn = [r \in Reading |-> IF Whole(r) THEN ReadOn[parseJson(r, Wanted(r))] ELSE Waiting(r)]
  BY <1>1, Zenon DEF ReadOn
<1> QED
  BY <1>2

LEMMA ReadOnType == ASSUME NEW r \in Reading PROVE ReadOn[r] \in Reading
<1> DEFINE T == {s \in Reading : ReadOn[s] \notin Reading}
<1>1. ASSUME NEW s \in T PROVE Whole(s) /\ parseJson(s, Wanted(s)) \in T
  BY ReadOnDef, WholeType, WaitingType
<1>2. T = {}
  <2>1. T \subseteq Reading
    OBVIOUS
  <2> HIDE DEF T
  <2> QED
    BY <1>1, <2>1, NoneLeft
<1> QED
  BY <1>2

\* A reader between two readings, given some bytes.
LEMMA HelperType ==
  ASSUME NEW s \in Readers, NEW b \in Seq(Bytes)
  PROVE  /\ [received |-> s.received \o b, expected |-> s.expected, emitted |-> <<>>] \in Reading
         /\ onReadyRead_helper(s, b) \in Reading
<1>1. s.received \o b \in Seq(Bytes) /\ s.expected \in Nat \cup {Endless}
  BY DEF Readers
<1>2. [received |-> s.received \o b, expected |-> s.expected, emitted |-> <<>>] \in Reading
  BY <1>1 DEF Reading, Bytes
<1> QED
  BY <1>2, ReadOnType DEF onReadyRead_helper

-----------------------------------------------------------------------------
(***************************************************************************)
(* The streams.                                                            *)
(***************************************************************************)

FullSize(m) == Header + Size(m)

\* The byte after a byte in the stream of a link.
Following(x) ==
  IF x[2] < FullSize(x[1]) THEN <<x[1], x[2] + 1>> ELSE << <<x[1][1], x[1][2] + 1>>, 1>>

\* A piece of the stream of a link over which n messages were sent.
Stream(b, l, n) ==
  /\ b \in Seq(Bytes)
  /\ \A i \in DOMAIN b : b[i][1][1] = l /\ b[i][1][2] <= n
  /\ \A i \in DOMAIN b : i + 1 \in DOMAIN b => b[i + 1] = Following(b[i])

\* It begins with the first byte of a message; it does after j messages; it ends
\* with the last message sent; it is all of what follows the first j.
AtFront(b) == b # <<>> => b[1][2] = 1
Begins(b, l, j) == b # <<>> => b[1] = << <<l, j + 1>>, 1>>
Ends(b, l, n) == b # <<>> => b[Len(b)] = << <<l, n>>, FullSize(<<l, n>>)>>
AllSince(b, l, j, n) == Ends(b, l, n) /\ (b = <<>> => j = n)

\* A byte is of a message, which has a size.
LEMMA ByteType ==
  ASSUME NEW b \in Seq(Bytes), NEW i \in DOMAIN b
  PROVE  /\ b[i] = <<b[i][1], b[i][2]>> /\ b[i][1] \in Messages /\ b[i][2] \in Nat \ {0}
         /\ b[i][1] = <<b[i][1][1], b[i][1][2]>> /\ b[i][1][1] \in Links /\ b[i][1][2] \in Nat \ {0}
         /\ FullSize(b[i][1]) \in Nat \ {0} /\ Size(b[i][1]) \in Nat \ {0}
<1>1. b[i] \in Messages \X (Nat \ {0})
  BY DEF Bytes
<1>2. b[i] = <<b[i][1], b[i][2]>> /\ b[i][1] \in Messages /\ b[i][2] \in Nat \ {0}
  BY <1>1
<1>3. b[i][1] \in Links \X (1 .. MaxSent) /\ 1 .. MaxSent \subseteq Nat \ {0}
  BY <1>2, MessagesAssumption, BoundsAssumption
<1>4. b[i][1] = <<b[i][1][1], b[i][1][2]>> /\ b[i][1][1] \in Links /\ b[i][1][2] \in Nat \ {0}
  BY <1>3
<1> QED
  BY <1>2, <1>4, Positive DEF FullSize

\* What is sent as a message.
LEMMA FrameShape ==
  ASSUME NEW m \in Messages
  PROVE  /\ Frame(m) \in Seq(Bytes) /\ Len(Frame(m)) = Header + Size(m) /\ Frame(m) # <<>>
         /\ \A k \in 1 .. Header + Size(m) : Frame(m)[k] = <<m, k>>
<1>1. Size(m) \in Nat \ {0} /\ Header \in Nat \ {0}
  BY Positive
<1>2. Frame(m) = [k \in 1 .. Header + Size(m) |-> <<m, k>>]
  BY DEF Frame
<1>3. Frame(m) \in [1 .. Header + Size(m) -> Bytes]
  BY <1>1, <1>2 DEF Bytes
<1>4. Frame(m) \in Seq(Bytes) /\ Len(Frame(m)) = Header + Size(m)
  BY <1>1, <1>3
<1> QED
  BY <1>1, <1>2, <1>4

LEMMA StreamMore ==
  ASSUME NEW l, NEW n \in Nat, NEW k \in Nat, n <= k, NEW b, Stream(b, l, n)
  PROVE  Stream(b, l, k)
<1>1. \A i \in DOMAIN b : b[i][1][2] \in Nat
  BY ByteType DEF Stream
<1> QED
  BY <1>1 DEF Stream

LEMMA StreamCut ==
  ASSUME NEW l, NEW n, NEW b, Stream(b, l, n), NEW k \in 0 .. Len(b)
  PROVE  Stream(SubSeq(b, 1, k), l, n) /\ Stream(SubSeq(b, k + 1, Len(b)), l, n)
<1> DEFINE s == SubSeq(b, 1, k)
           t == SubSeq(b, k + 1, Len(b))
<1>1. b \in Seq(Bytes)
  BY DEF Stream
<1>2. /\ s \in Seq(Bytes) /\ Len(s) = k /\ \A i \in 1 .. k : s[i] = b[i]
      /\ t \in Seq(Bytes) /\ Len(t) = Len(b) - k /\ \A i \in 1 .. Len(b) - k : t[i] = b[k + i]
  BY <1>1, Cut
<1> HIDE DEF s, t
<1>3. Stream(s, l, n)
  BY <1>1, <1>2 DEF Stream
<1>4. Stream(t, l, n)
  <2>1. ASSUME NEW i \in DOMAIN t PROVE k + i \in DOMAIN b /\ t[i] = b[k + i]
    BY <1>1, <1>2
  <2>2. ASSUME NEW i \in DOMAIN t, i + 1 \in DOMAIN t
        PROVE  (k + i) + 1 \in DOMAIN b /\ t[i + 1] = b[(k + i) + 1]
    <3>1. k + (i + 1) \in DOMAIN b /\ t[i + 1] = b[k + (i + 1)]
      BY <2>1, <2>2
    <3>2. k + (i + 1) = (k + i) + 1
      BY <1>2
    <3> QED
      BY <3>1, <3>2
  <2> QED
    BY <1>2, <2>1, <2>2 DEF Stream
<1> QED
  BY <1>3, <1>4 DEF s, t

LEMMA Joined ==
  ASSUME NEW S, NEW s \in Seq(S), NEW t \in Seq(S)
  PROVE  /\ s \o t \in Seq(S) /\ Len(s \o t) = Len(s) + Len(t)
         /\ \A i \in DOMAIN s : i \in DOMAIN (s \o t) /\ (s \o t)[i] = s[i]
         /\ \A i \in DOMAIN t : Len(s) + i \in DOMAIN (s \o t) /\ (s \o t)[Len(s) + i] = t[i]
         /\ \A i \in DOMAIN (s \o t) : i \in DOMAIN s \/ (i - Len(s) \in DOMAIN t /\ (s \o t)[i] = t[i - Len(s)])
OBVIOUS

LEMMA StreamSplit ==
  ASSUME NEW l, NEW n, NEW s \in Seq(Bytes), NEW t \in Seq(Bytes), Stream(s \o t, l, n)
  PROVE  Stream(s, l, n) /\ Stream(t, l, n)
<1>1. Stream(s, l, n)
  <2>1. \A i \in DOMAIN s : i \in DOMAIN (s \o t) /\ (s \o t)[i] = s[i]
    BY Joined
  <2> QED
    BY <2>1 DEF Stream
<1>2. Stream(t, l, n)
  <2>1. ASSUME NEW i \in DOMAIN t, i + 1 \in DOMAIN t PROVE t[i + 1] = Following(t[i])
    <3>1. /\ Len(s) + i \in DOMAIN (s \o t) /\ (s \o t)[Len(s) + i] = t[i]
          /\ Len(s) + (i + 1) \in DOMAIN (s \o t) /\ (s \o t)[Len(s) + (i + 1)] = t[i + 1]
      BY <2>1, Joined
    <3>2. Len(s) + (i + 1) = (Len(s) + i) + 1
      OBVIOUS
    <3> QED
      BY <3>1, <3>2 DEF Stream
  <2>2. \A i \in DOMAIN t : Len(s) + i \in DOMAIN (s \o t) /\ (s \o t)[Len(s) + i] = t[i]
    BY Joined
  <2>3. \A i \in DOMAIN t : t[i][1][1] = l /\ t[i][1][2] <= n
    BY <2>2 DEF Stream
  <2> QED
    BY <2>1, <2>3 DEF Stream
<1> QED
  BY <1>1, <1>2

\* A piece that begins with a message goes on with all of it.
LEMMA FrameAhead ==
  ASSUME NEW l, NEW n, NEW b, Stream(b, l, n), b # <<>>, b[1][2] = 1
  PROVE  \A k \in DOMAIN b : k <= FullSize(b[1][1]) => b[k] = <<b[1][1], k>>
<1> DEFINE m == b[1][1]
           T == {k \in DOMAIN b : k <= FullSize(m) /\ b[k] # <<m, k>>}
<1>1. /\ b \in Seq(Bytes) /\ DOMAIN b = 1 .. Len(b) /\ 1 \in DOMAIN b
      /\ \A i \in DOMAIN b : i + 1 \in DOMAIN b => b[i + 1] = Following(b[i])
  BY DEF Stream
<1>2. b[1] = <<m, 1>> /\ FullSize(m) \in Nat \ {0}
  BY <1>1, ByteType
<1> HIDE DEF m
<1> SUFFICES ASSUME T # {} PROVE FALSE
  BY DEF m
<1>3. T \subseteq Nat
  BY <1>1
<1>4. PICK k \in T : \A i \in T : k <= i
  BY <1>3, LeastNumber
<1>5. k # 1
  BY <1>2, <1>4
<1>6. k - 1 \in DOMAIN b /\ k - 1 < FullSize(m) /\ k - 1 \notin T /\ (k - 1) + 1 = k
  BY <1>1, <1>2, <1>4, <1>5
<1>7. b[k - 1] = <<m, k - 1>>
  BY <1>1, <1>2, <1>6
<1>8. b[k] = Following(b[k - 1])
  BY <1>1, <1>4, <1>6
<1> QED
  BY <1>4, <1>6, <1>7, <1>8 DEF Following

\* What a reader makes of the beginning of a piece.
LEMMA SizeAhead ==
  ASSUME NEW l, NEW n, NEW b, Stream(b, l, n), Len(b) >= Header
  PROVE  ReadSize(b) = IF b[1][2] = 1 THEN Size(b[1][1]) ELSE Endless
<1> DEFINE m == b[1][1]
<1>1. b \in Seq(Bytes) /\ Header \in Nat \ {0} /\ b # <<>> /\ 1 \in DOMAIN b
  BY HeaderAssumption DEF Stream
<1>2. m \in Messages /\ FullSize(m) = Header + Size(m) /\ Size(m) \in Nat \ {0}
  BY <1>1, ByteType DEF FullSize
<1>3. /\ Frame(m) \in Seq(Bytes) /\ Len(Frame(m)) = Header + Size(m)
      /\ \A k \in 1 .. Header + Size(m) : Frame(m)[k] = <<m, k>>
  BY <1>2, FrameShape
<1> DEFINE h == SubSeq(b, 1, Header)
           g == SubSeq(Frame(m), 1, Header)
<1>6. /\ h \in Seq(Bytes) /\ Len(h) = Header /\ \A i \in 1 .. Header : h[i] = b[i]
      /\ g \in Seq(Bytes) /\ Len(g) = Header /\ \A i \in 1 .. Header : g[i] = Frame(m)[i]
  <2>1. Header \in 0 .. Len(b) /\ Header \in 0 .. Len(Frame(m))
    BY <1>1, <1>2, <1>3
  <2> QED
    BY <1>1, <1>3, <2>1, Cut
<1>7. \A i \in 1 .. Header : g[i] = <<m, i>>
  BY <1>1, <1>2, <1>3, <1>6
<1>8. ReadSize(b) = IF h = g THEN Size(m) ELSE Endless
  BY DEF ReadSize
<1> HIDE DEF h, g, m
<1>9. CASE b[1][2] = 1
  <2>1. \A i \in 1 .. Header : h[i] = <<m, i>>
    BY <1>1, <1>2, <1>6, <1>9, FrameAhead DEF m
  <2>2. h = g
    BY <1>6, <1>7, <2>1, SeqEqual
  <2> QED
    BY <1>8, <1>9, <2>2 DEF m
<1>10. CASE b[1][2] # 1
  <2>1. h[1] = b[1] /\ g[1] = <<m, 1>>
    BY <1>1, <1>6, <1>7
  <2> QED
    BY <1>8, <1>10, <2>1
<1> QED
  BY <1>9, <1>10

LEMMA ParsedAhead ==
  ASSUME NEW l, NEW n, NEW b, Stream(b, l, n), b # <<>>, b[1][2] = 1, Len(b) >= FullSize(b[1][1])
  PROVE  Parsed(b, Size(b[1][1])) = b[1][1]
<1> DEFINE m == b[1][1]
           s == SubSeq(b, 1, Header + Size(m))
<1>1. b \in Seq(Bytes) /\ 1 \in DOMAIN b
  BY DEF Stream
<1>2. m \in Messages /\ FullSize(m) = Header + Size(m) /\ Header + Size(m) \in 0 .. Len(b)
  BY <1>1, ByteType DEF FullSize
<1>3. /\ Frame(m) \in Seq(Bytes) /\ Len(Frame(m)) = Header + Size(m)
      /\ \A k \in 1 .. Header + Size(m) : Frame(m)[k] = <<m, k>>
  BY <1>2, FrameShape
<1>4. s \in Seq(Bytes) /\ Len(s) = Header + Size(m) /\ \A i \in 1 .. Header + Size(m) : s[i] = b[i]
  BY <1>1, <1>2, Cut
<1>5. \A i \in 1 .. Header + Size(m) : i \in DOMAIN b /\ b[i] = <<m, i>>
  BY <1>1, <1>2, FrameAhead
<1>6. Parsed(b, Size(m)) = IF s = Frame(m) THEN m ELSE Garbled
  BY DEF Parsed
<1> HIDE DEF s, m
<1>7. s = Frame(m)
  BY <1>3, <1>4, <1>5, SeqEqual
<1> QED
  BY <1>6, <1>7 DEF m

\* What remains when the first message is taken away.
LEMMA FrameTaken ==
  ASSUME NEW l, NEW n \in Nat, NEW j, NEW b, Stream(b, l, n), b # <<>>, Begins(b, l, j), j \in Nat,
         NEW m, m = b[1][1], Len(b) >= FullSize(m)
  PROVE  LET t == SubSeq(b, FullSize(m) + 1, Len(b))
         IN  /\ m = <<l, j + 1>> /\ j + 1 <= n
             /\ Stream(t, l, n) /\ Begins(t, l, j + 1)
             /\ Ends(b, l, n) => AllSince(t, l, j + 1, n)
<1> DEFINE k == FullSize(m)
           t == SubSeq(b, k + 1, Len(b))
<1>1. b \in Seq(Bytes) /\ 1 \in DOMAIN b /\ b[1] = <<m, 1>> /\ m = <<l, j + 1>>
  BY DEF Stream, Begins
<1>2. k \in Nat \ {0} /\ k \in 0 .. Len(b) /\ k \in DOMAIN b
  <2>1. FullSize(m) \in Nat \ {0}
    BY <1>1, ByteType
  <2>2. DOMAIN b = 1 .. Len(b) /\ Len(b) \in Nat
    BY <1>1
  <2> QED
    BY <2>1, <2>2
<1>3. j + 1 <= n
  <2>1. m[2] <= n
    BY <1>1 DEF Stream
  <2> QED
    BY <1>1, <2>1
<1>4. t \in Seq(Bytes) /\ Len(t) = Len(b) - k /\ \A i \in 1 .. Len(b) - k : t[i] = b[k + i]
  BY <1>1, <1>2, Cut
<1>5. Stream(t, l, n)
  BY <1>2, StreamCut
<1>6. b[k] = <<m, k>>
  <2>1. b[1][2] = 1 /\ k <= FullSize(b[1][1])
    BY <1>1, <1>2
  <2> HIDE DEF k, t
  <2>2. \A i \in DOMAIN b : i <= FullSize(b[1][1]) => b[i] = <<b[1][1], i>>
    BY <2>1, FrameAhead
  <2> QED
    BY <1>1, <1>2, <2>1, <2>2
<1> HIDE DEF t, k
<1>7. Begins(t, l, j + 1)
  <2>1. SUFFICES ASSUME t # <<>> PROVE t[1] = << <<l, (j + 1) + 1>>, 1>>
    BY DEF Begins
  <2>2. 1 \in 1 .. Len(b) - k
    BY <1>1, <1>2, <1>4, <2>1
  <2>3. k + 1 \in DOMAIN b /\ t[1] = b[k + 1]
    BY <1>1, <1>2, <1>4, <2>2
  <2>4. t[1] = Following(<<m, k>>)
    BY <1>2, <1>6, <2>3 DEF Stream
  <2>5. Following(<<m, k>>) = << <<m[1], m[2] + 1>>, 1>>
    BY <1>2 DEF Following, k
  <2> QED
    BY <1>1, <2>4, <2>5
<1>8. ASSUME Ends(b, l, n) PROVE AllSince(t, l, j + 1, n)
  <2>1. b[Len(b)] = << <<l, n>>, FullSize(<<l, n>>)>>
    BY <1>8 DEF Ends
  <2>2. CASE t = <<>>
    <3>1. Len(b) = k
      BY <1>1, <1>2, <1>4, <2>2
    <3>2. <<m, k>> = << <<l, n>>, FullSize(<<l, n>>)>>
      BY <1>6, <2>1, <3>1
    <3>3. m = <<l, n>>
      BY <3>2
    <3> QED
      BY <1>1, <2>2, <3>3 DEF AllSince, Ends
  <2>3. CASE t # <<>>
    <3>1. Len(t) \in 1 .. Len(b) - k /\ k + Len(t) = Len(b)
      <4>1. Len(t) \in Nat \ {0} /\ Len(b) \in Nat
        BY <1>1, <1>4, <2>3
      <4> QED
        BY <1>2, <1>4, <4>1
    <3>2. t[Len(t)] = b[Len(b)]
      BY <1>4, <3>1
    <3> QED
      BY <2>1, <2>3, <3>2 DEF AllSince, Ends
  <2> QED
    BY <2>2, <2>3
<1> QED
  BY <1>1, <1>3, <1>5, <1>7, <1>8 DEF t, k

-----------------------------------------------------------------------------
(***************************************************************************)
(* What is read of a stream.                                               *)
(***************************************************************************)

\* What a reader waits for between two readings of a stream: the rest of a
\* message whose first bytes it holds, or, when it began in the middle of one,
\* nothing that will come.
Waits(r, b) ==
  /\ r.received = <<>> => r.expected = 0
  /\ r.received # <<>> =>
       IF AtFront(b)
       THEN r.expected \in {0, Size(b[1][1])} /\ Len(r.received) < FullSize(b[1][1])
       ELSE r.expected \in {0, Endless}

\* The messages of a link after the first j.
Numbers(l, j, m) == [i \in 1 .. m |-> <<l, j + i>>]

\* A reader with the bytes after j messages, when `rest' is still on its way.
InStep(r, rest, l, j, n) ==
  /\ j \in Nat
  /\ Stream(r.received \o rest, l, n) /\ Begins(r.received \o rest, l, j)
  /\ r.received = <<>> => r.expected = 0
  /\ r.received # <<>> => r.expected \in {0, Size(<<l, j + 1>>)}

LEMMA NumbersType ==
  ASSUME NEW l, NEW j \in Nat, NEW k \in Nat
  PROVE  /\ Numbers(l, j, k) \in Seq({l} \X Nat) /\ Len(Numbers(l, j, k)) = k
         /\ \A i \in 1 .. k : Numbers(l, j, k)[i] = <<l, j + i>>
BY DEF Numbers

LEMMA NumbersMore ==
  ASSUME NEW e \in Seq(Messages \cup {Garbled}), NEW l, NEW j \in Nat, NEW k \in Nat
  PROVE  Append(e, <<l, j + 1>>) \o Numbers(l, j + 1, k) = e \o Numbers(l, j, k + 1)
<1> DEFINE S == Messages \cup {Garbled}
           U == S \cup ({l} \X Nat)
           x == <<l, j + 1>>
           s == Numbers(l, j + 1, k)
           t == Numbers(l, j, k + 1)
<1>0. /\ j + 1 \in Nat /\ k + 1 \in Nat
      /\ s \in Seq({l} \X Nat) /\ Len(s) = k /\ \A i \in 1 .. k : s[i] = <<l, (j + 1) + i>>
      /\ t \in Seq({l} \X Nat) /\ Len(t) = k + 1 /\ \A i \in 1 .. k + 1 : t[i] = <<l, j + i>>
  <2>1. j + 1 \in Nat /\ k + 1 \in Nat
    OBVIOUS
  <2>2. s \in Seq({l} \X Nat) /\ Len(s) = k /\ \A i \in 1 .. k : s[i] = <<l, (j + 1) + i>>
    BY <2>1, NumbersType
  <2>3. t \in Seq({l} \X Nat) /\ Len(t) = k + 1 /\ \A i \in 1 .. k + 1 : t[i] = <<l, j + i>>
    BY <2>1, NumbersType
  <2> QED
    BY <2>1, <2>2, <2>3
<1> HIDE DEF s, t
<1>1. s \in Seq(U) /\ t \in Seq(U) /\ e \in Seq(U) /\ x \in U /\ <<x>> \in Seq(U)
  <2>1. x \in {l} \X Nat
    BY <1>0
  <2> HIDE DEF x
  <2> QED
    BY <1>0, <2>1
<1>2. Len(<<x>> \o s) = Len(t)
  BY <1>0, <1>1
<1>3. ASSUME NEW i \in 1 .. Len(t) PROVE (<<x>> \o s)[i] = t[i]
  <2>1. Len(t) = k + 1 /\ t[i] = <<l, j + i>>
    BY <1>0
  <2>2. CASE i = 1
    BY <2>1, <2>2
  <2>3. CASE i # 1
    <3>1. i - 1 \in 1 .. k
      BY <2>1, <2>3
    <3>2. s[i - 1] = <<l, (j + 1) + (i - 1)>> /\ Len(s) = k
      BY <1>0, <3>1
    <3>3. (<<x>> \o s)[i] = s[i - 1]
      BY <1>1, <2>3, <3>1, <3>2
    <3> QED
      BY <2>1, <3>2, <3>3
  <2> QED
    BY <2>2, <2>3
<1> DEFINE v == <<x>> \o s
<1>4. <<x>> \o s = t
  <2>1. v \in Seq(U)
    BY <1>1
  <2>2. Len(v) = Len(t) /\ \A i \in 1 .. Len(v) : v[i] = t[i]
    BY <1>2, <1>3
  <2> HIDE DEF S, U, s, t, x, v
  <2>3. v = t
    BY <1>1, <2>1, <2>2, SeqEqual
  <2> QED
    BY <2>3 DEF v
<1> HIDE DEF S, U, s, t, x, v
<1>5. Append(e, x) = e \o <<x>>
  BY <1>1, AppendIsConcat
<1>6. (e \o <<x>>) \o s = e \o (<<x>> \o s)
  BY <1>1, ConcatAssociative
<1> QED
  BY <1>4, <1>5, <1>6 DEF s, t, x

\* What is left of two sequences one after the other.
LEMMA CutJoined ==
  ASSUME NEW S, NEW s \in Seq(S), NEW t \in Seq(S), NEW k \in 0 .. Len(s)
  PROVE  SubSeq(s, k + 1, Len(s)) \o t = SubSeq(s \o t, k + 1, Len(s \o t))
<1> DEFINE a == SubSeq(s, 1, k)
           c == SubSeq(s, k + 1, Len(s))
           e == SubSeq(s \o t, 1, k)
           d == SubSeq(s \o t, k + 1, Len(s \o t))
<1>1. s \o t \in Seq(S) /\ k \in 0 .. Len(s \o t) /\ \A i \in 1 .. k : (s \o t)[i] = s[i]
  OBVIOUS
<1>2. a \in Seq(S) /\ Len(a) = k /\ (\A i \in 1 .. k : a[i] = s[i]) /\ c \in Seq(S) /\ a \o c = s
  BY Cut
<1>3. e \in Seq(S) /\ Len(e) = k /\ (\A i \in 1 .. k : e[i] = (s \o t)[i]) /\ d \in Seq(S) /\ e \o d = s \o t
  BY <1>1, Cut
<1> HIDE DEF a, c, d, e
<1>4. a = e
  <2>1. \A i \in 1 .. Len(a) : a[i] = e[i]
    BY <1>1, <1>2, <1>3
  <2> QED
    BY <1>2, <1>3, <2>1, SeqEqual
<1>5. c \o t \in Seq(S)
  BY <1>2, ConcatProperties
<1>6. (a \o c) \o t = a \o (c \o t)
  <2>1. a \in Seq(S) /\ c \in Seq(S) /\ t \in Seq(S)
    BY <1>2
  <2> QED
    BY <2>1, ConcatAssociative
<1>7. a \o (c \o t) = a \o d
  BY <1>2, <1>3, <1>4, <1>6
<1>8. c \o t = d
  BY <1>2, <1>3, <1>5, <1>7, ConcatSimplifications, Zenon
<1> QED
  BY <1>8 DEF c, d

\* A message after the other.
LEMMA StepParses ==
  ASSUME NEW r \in Reading, NEW rest \in Seq(Bytes), NEW l, NEW j, NEW n \in Nat,
         InStep(r, rest, l, j, n), Whole(r)
  PROVE  LET s == parseJson(r, Wanted(r))
         IN  /\ InStep(s, rest, l, j + 1, n) /\ j + 1 <= n
             /\ s.emitted = Append(r.emitted, <<l, j + 1>>)
             /\ Ends(r.received \o rest, l, n) => AllSince(s.received \o rest, l, j + 1, n)
<1> DEFINE b == r.received \o rest
           s == parseJson(r, Wanted(r))
           m == <<l, j + 1>>
           k == FullSize(m)
<1>1. /\ Stream(b, l, n) /\ Begins(b, l, j) /\ j \in Nat
      /\ r.received \in Seq(Bytes) /\ b \in Seq(Bytes)
      /\ Len(r.received) >= Header /\ Header \in Nat \ {0}
  BY HeaderAssumption DEF InStep, Whole, Reading, Bytes, Stream
<1>2. /\ r.received # <<>> /\ 1 \in DOMAIN r.received /\ b # <<>> /\ b[1] = r.received[1]
      /\ Len(r.received) \in 0 .. Len(b)
  BY <1>1
<1>3. b[1] = <<m, 1>> /\ r.received[1] = <<m, 1>>
  BY <1>1, <1>2 DEF Begins
<1>4. Stream(r.received, l, n)
  BY <1>1, StreamSplit
<1>5. m \in Messages /\ Size(m) \in Nat \ {0} /\ k = Header + Size(m)
  <2>1. r.received[1][1] \in Messages
    BY <1>1, <1>2, ByteType
  <2> QED
    BY <1>3, <2>1, Positive DEF FullSize
<1> HIDE DEF m
<1>6. Wanted(r) = Size(m)
  <2>1. ReadSize(r.received) = Size(m)
    BY <1>1, <1>3, <1>4, SizeAhead
  <2> QED
    BY <1>2, <2>1 DEF InStep, Wanted, m
<1>7. Len(r.received) >= k /\ k \in 1 .. Len(r.received)
  BY <1>1, <1>5, <1>6 DEF Whole
<1>8. Parsed(r.received, Wanted(r)) = m
  <2>1. r.received[1][2] = 1 /\ Len(r.received) >= FullSize(r.received[1][1])
    BY <1>3, <1>7
  <2>2. Parsed(r.received, Size(r.received[1][1])) = r.received[1][1]
    BY <1>2, <1>4, <2>1, ParsedAhead
  <2> QED
    BY <1>3, <1>6, <2>2
<1>9. /\ s.received = SubSeq(r.received, k + 1, Len(r.received)) /\ s.expected = 0
      /\ s.emitted = Append(r.emitted, m)
  BY <1>5, <1>6, <1>8, WholeType
<1>10. s.received \o rest = SubSeq(b, k + 1, Len(b))
  <2> HIDE DEF s, k
  <2>1. k \in 0 .. Len(r.received)
    BY <1>7
  <2>2. SubSeq(r.received, k + 1, Len(r.received)) \o rest = SubSeq(b, k + 1, Len(b))
    BY <1>1, <2>1, CutJoined
  <2> QED
    BY <1>9, <2>2
<1> HIDE DEF b, s, k
<1>11. /\ Stream(SubSeq(b, k + 1, Len(b)), l, n) /\ Begins(SubSeq(b, k + 1, Len(b)), l, j + 1)
       /\ j + 1 <= n
       /\ Ends(b, l, n) => AllSince(SubSeq(b, k + 1, Len(b)), l, j + 1, n)
  <2>1. Len(b) >= FullSize(m) /\ m = b[1][1]
    BY <1>1, <1>2, <1>3, <1>7 DEF k
  <2> QED
    BY <1>1, <1>2, <2>1, FrameTaken DEF k
<1>12. InStep(s, rest, l, j + 1, n)
  <2>1. j + 1 \in Nat
    BY <1>1
  <2>2. Stream(s.received \o rest, l, n) /\ Begins(s.received \o rest, l, j + 1)
    BY <1>10, <1>11
  <2> QED
    BY <1>9, <2>1, <2>2 DEF InStep
<1> QED
  BY <1>9, <1>10, <1>11, <1>12 DEF b, s, m

\* What is read in step: messages in order, and what is left is in step again.
ReadRight(r, rest, l, j, n, k) ==
  /\ ReadOn[r].emitted = r.emitted \o Numbers(l, j, k)
  /\ InStep(ReadOn[r], rest, l, j + k, n) /\ Waits(ReadOn[r], ReadOn[r].received \o rest)
  /\ j + k <= n
  /\ AllSince(r.received \o rest, l, j, n) => AllSince(ReadOn[r].received \o rest, l, j + k, n)

LEMMA ReadsNothing ==
  ASSUME NEW r \in Reading, NEW rest \in Seq(Bytes), NEW l, NEW n \in Nat, NEW j \in 0 .. n,
         InStep(r, rest, l, j, n), ~Whole(r)
  PROVE  ReadRight(r, rest, l, j, n, 0)
<1> DEFINE b == r.received \o rest
           d == Waiting(r)
           m == <<l, j + 1>>
<1>1. ReadOn[r] = d
  BY ReadOnDef
<1>2. /\ r.received \in Seq(Bytes) /\ r.emitted \in Seq(Messages \cup {Garbled})
      /\ r.expected \in Nat \cup {Endless} /\ Header \in Nat \ {0} /\ j \in Nat /\ j + 0 = j
      /\ Stream(b, l, n) /\ Begins(b, l, j)
  BY HeaderAssumption DEF InStep, Reading, Bytes
<1>3. d.received = r.received /\ d.emitted = r.emitted
  BY DEF Waiting, Reading
<1>4. r.emitted \o Numbers(l, j, 0) = r.emitted
  <2>1. Numbers(l, j, 0) = <<>>
    BY DEF Numbers
  <2> QED
    BY <1>2, <2>1
<1>5. CASE r.received = <<>>
  <2>1. d.expected = 0
    BY <1>2, <1>5 DEF Waiting, InStep
  <2> QED
    BY <1>1, <1>2, <1>3, <1>4, <1>5, <2>1 DEF ReadRight, InStep, Waits
<1>6. CASE r.received # <<>>
  <2>1. /\ 1 \in DOMAIN r.received /\ b # <<>> /\ b[1] = r.received[1] /\ b[1] = <<m, 1>>
    BY <1>2, <1>6 DEF Begins
  <2>2. m \in Messages /\ Size(m) \in Nat \ {0} /\ FullSize(m) = Header + Size(m)
    <3>1. r.received[1][1] \in Messages
      BY <1>2, <2>1, ByteType
    <3> QED
      BY <2>1, <3>1, Positive DEF FullSize
  <2>3. d.expected \in {0, Size(m)} /\ Len(r.received) < FullSize(m)
    <3>1. r.expected \in {0, Size(m)}
      BY <1>6 DEF InStep
    <3>2. CASE Len(r.received) < Header
      BY <1>2, <2>2, <3>1, <3>2 DEF Waiting
    <3>3. CASE Len(r.received) >= Header
      <4>1. Stream(r.received, l, n)
        BY <1>2, StreamSplit
      <4>2. ReadSize(r.received) = Size(m)
        BY <2>1, <3>3, <4>1, SizeAhead
      <4>3. Wanted(r) = Size(m)
        BY <3>1, <4>2 DEF Wanted
      <4>4. d.expected = Size(m)
        BY <1>2, <3>3, <4>3 DEF Waiting, Reading
      <4>5. ~(Size(m) \in 1 .. Len(r.received) - Header)
        BY <3>3, <4>3 DEF Whole
      <4> QED
        BY <1>2, <2>2, <4>4, <4>5
    <3> QED
      BY <1>2, <3>2, <3>3
  <2> HIDE DEF b, d
  <2>4. b[1][1] = m
    BY <2>1
  <2>5. Waits(d, b)
    BY <1>3, <1>6, <2>1, <2>3, <2>4 DEF Waits, AtFront
  <2>6. InStep(d, rest, l, j, n)
    BY <1>2, <1>3, <1>6, <2>3 DEF InStep, b
  <2> QED
    BY <1>1, <1>2, <1>3, <1>4, <2>5, <2>6 DEF ReadRight, b
<1> QED
  BY <1>5, <1>6

LEMMA ReadsInStep ==
  ASSUME NEW r0 \in Reading, NEW rest \in Seq(Bytes), NEW l, NEW n \in Nat, NEW j0 \in 0 .. n,
         InStep(r0, rest, l, j0, n)
  PROVE  \E k \in Nat : ReadRight(r0, rest, l, j0, n, k)
<1> DEFINE T == {r \in Reading : \E j \in 0 .. n : InStep(r, rest, l, j, n)
                                                /\ ~ \E k \in Nat : ReadRight(r, rest, l, j, n, k)}
<1>1. ASSUME NEW r \in T PROVE Whole(r) /\ parseJson(r, Wanted(r)) \in T
  <2>1. PICK j \in 0 .. n : InStep(r, rest, l, j, n) /\ ~ \E k \in Nat : ReadRight(r, rest, l, j, n, k)
    OBVIOUS
  <2>2. Whole(r)
    BY <2>1, ReadsNothing
  <2> DEFINE s == parseJson(r, Wanted(r))
  <2>3. /\ InStep(s, rest, l, j + 1, n) /\ j + 1 \in 0 .. n
        /\ s.emitted = Append(r.emitted, <<l, j + 1>>)
        /\ Ends(r.received \o rest, l, n) => AllSince(s.received \o rest, l, j + 1, n)
    BY <2>1, <2>2, StepParses
  <2>4. s \in Reading /\ ReadOn[r] = ReadOn[s]
    BY <2>2, WholeType, ReadOnDef
  <2> HIDE DEF s
  <2>5. ASSUME NEW k \in Nat, ReadRight(s, rest, l, j + 1, n, k) PROVE FALSE
    <3>1. (j + 1) + k = j + (k + 1) /\ k + 1 \in Nat
      OBVIOUS
    <3>2. s.emitted \o Numbers(l, j + 1, k) = r.emitted \o Numbers(l, j, k + 1)
      <4> DEFINE e == r.emitted
      <4>1. e \in Seq(Messages \cup {Garbled}) /\ j \in Nat /\ k \in Nat
        BY DEF Reading
      <4> HIDE DEF e
      <4>2. Append(e, <<l, j + 1>>) \o Numbers(l, j + 1, k) = e \o Numbers(l, j, k + 1)
        BY <4>1, NumbersMore
      <4> QED
        BY <2>3, <4>2 DEF e
    <3>3. ReadRight(r, rest, l, j, n, k + 1)
      BY <2>3, <2>4, <2>5, <3>1, <3>2 DEF ReadRight, AllSince
    <3> QED
      BY <2>1, <3>1, <3>3
  <2> QED
    BY <2>2, <2>3, <2>4, <2>5 DEF s
<1>2. T = {}
  <2>1. T \subseteq Reading
    OBVIOUS
  <2> HIDE DEF T
  <2> QED
    BY <1>1, <2>1, NoneLeft
<1> QED
  BY <1>2

\* A reader that will never parse what it holds, or parses it as garbage or as a
\* message of one link.
Jammed(r) == r.received # <<>> /\ r.received[1][2] # 1 /\ r.expected \in {0, Endless}
Unfinished(r, l) == \A i \in DOMAIN r.received : r.received[i][1][1] = l \/ r.received[i][2] < FullSize(r.received[i][1])
Harmless(r, l) == Jammed(r) \/ Unfinished(r, l)
Only(q, l) == \A i \in DOMAIN q : q[i] = Garbled \/ q[i][1] = l

LEMMA JammedReads ==
  ASSUME NEW r \in Reading, Jammed(r)
  PROVE  /\ ReadOn[r].received = r.received /\ ReadOn[r].emitted = r.emitted
         /\ Jammed(ReadOn[r])
<1>1. r.received \in Seq(Bytes) /\ r.received # <<>> /\ Header \in Nat \ {0}
  BY HeaderAssumption DEF Jammed, Reading, Bytes
<1>2. Waiting(r).received = r.received /\ Waiting(r).emitted = r.emitted
  BY DEF Waiting, Reading
<1>3. CASE Len(r.received) < Header
  <2>1. ~Whole(r) /\ Waiting(r) = r
    BY <1>1, <1>3 DEF Whole, Waiting
  <2> QED
    BY <2>1, ReadOnDef
<1>4. CASE Len(r.received) >= Header
  <2> DEFINE b == r.received
             m == b[1][1]
             h == SubSeq(b, 1, Header)
             g == SubSeq(Frame(m), 1, Header)
  <2>1. m \in Messages /\ Size(m) \in Nat \ {0} /\ 1 \in 1 .. Header
    BY <1>1, ByteType
  <2>2. h[1] = b[1] /\ g[1] = <<m, 1>>
    <3>1. Header \in 0 .. Len(b) /\ Header \in 0 .. Len(Frame(m)) /\ Frame(m) \in Seq(Bytes) /\ Frame(m)[1] = <<m, 1>>
      BY <1>1, <1>4, <2>1, FrameShape
    <3> HIDE DEF b, m
    <3> QED
      BY <1>1, <2>1, <3>1, Cut DEF b
  <2>3. h # g
    <3>1. b[1][2] # 1
      BY DEF Jammed
    <3> HIDE DEF h, g, b, m
    <3> QED
      BY <2>2, <3>1
  <2>4. ReadSize(b) = Endless
    BY <2>3 DEF ReadSize
  <2>5. Wanted(r) = Endless
    BY <2>4 DEF Wanted, Jammed
  <2>6. ~Whole(r) /\ Waiting(r).expected = Endless
    BY <1>1, <1>4, <2>5 DEF Whole, Waiting, Endless, Reading
  <2> QED
    BY <1>2, <2>6, ReadOnDef DEF Jammed
<1> QED
  BY <1>1, <1>3, <1>4

\* Whatever is parsed ends with the last byte of what it is taken for.
LEMMA UnfinishedParses ==
  ASSUME NEW r \in Reading, NEW l, Unfinished(r, l), Whole(r), Only(r.emitted, l)
  PROVE  LET s == parseJson(r, Wanted(r))
         IN  Unfinished(s, l) /\ Only(s.emitted, l)
<1> DEFINE s == parseJson(r, Wanted(r))
           b == r.received
           size == Wanted(r)
           p == Parsed(b, size)
           m == b[1][1]
           k == Header + size
<1>1. /\ b \in Seq(Bytes) /\ r.emitted \in Seq(Messages \cup {Garbled}) /\ p \in Messages \cup {Garbled}
      /\ size \in Nat \ {0} /\ k \in 1 .. Len(b) /\ Header \in Nat \ {0}
      /\ s.received = SubSeq(b, k + 1, Len(b))
      /\ s.emitted = Append(r.emitted, p)
  BY WholeType, HeaderAssumption DEF Reading, Bytes
<1>2. p = IF SubSeq(b, 1, k) = Frame(m) THEN m ELSE Garbled
  BY DEF Parsed
<1> HIDE DEF s, b, size, p, k
<1>3. /\ SubSeq(b, k + 1, Len(b)) \in Seq(Bytes) /\ Len(SubSeq(b, k + 1, Len(b))) = Len(b) - k
      /\ \A i \in 1 .. Len(b) - k : SubSeq(b, k + 1, Len(b))[i] = b[k + i]
      /\ Len(SubSeq(b, 1, k)) = k /\ \A i \in 1 .. k : SubSeq(b, 1, k)[i] = b[i]
  BY <1>1, Cut
<1>4. Unfinished(s, l)
  <2>1. \A i \in DOMAIN s.received : k + i \in DOMAIN b /\ s.received[i] = b[k + i]
    BY <1>1, <1>3
  <2> QED
    BY <2>1 DEF Unfinished, b
<1>5. p = Garbled \/ p[1] = l
  <2>1. SUFFICES ASSUME SubSeq(b, 1, k) = Frame(m) PROVE m[1] = l
    BY <1>2
  <2>2. m \in Messages /\ 1 \in DOMAIN b
    BY <1>1, ByteType
  <2>3. k = FullSize(m) /\ Frame(m)[k] = <<m, k>>
    <3>1. Len(Frame(m)) = Header + Size(m) /\ \A i \in 1 .. Header + Size(m) : Frame(m)[i] = <<m, i>>
      BY <2>2, FrameShape
    <3>2. k = Header + Size(m)
      BY <1>3, <2>1, <3>1
    <3> QED
      BY <1>1, <3>1, <3>2 DEF FullSize
  <2>4. b[k] = <<m, k>> /\ k \in DOMAIN b
    <3>1. k \in 1 .. k /\ k \in DOMAIN b
      BY <1>1
    <3>2. b[k] = SubSeq(b, 1, k)[k]
      BY <1>3, <3>1
    <3> QED
      BY <2>1, <2>3, <3>1, <3>2
  <2>5. b[k][1] = m /\ b[k][2] = k
    BY <2>4
  <2>6. m[1] = l \/ k < FullSize(m)
    BY <2>4, <2>5 DEF Unfinished, b
  <2> QED
    BY <1>1, <2>3, <2>6
<1>6. Only(s.emitted, l)
  <2>1. ASSUME NEW i \in DOMAIN s.emitted PROVE s.emitted[i] = Garbled \/ s.emitted[i][1] = l
    <3>1. (i \in DOMAIN r.emitted /\ s.emitted[i] = r.emitted[i]) \/ s.emitted[i] = p
      BY <1>1
    <3> QED
      BY <1>5, <3>1 DEF Only
  <2> QED
    BY <2>1 DEF Only
<1> QED
  BY <1>4, <1>6 DEF s

LEMMA HarmlessReads ==
  ASSUME NEW r0 \in Reading, NEW l, Harmless(r0, l), Only(r0.emitted, l)
  PROVE  Harmless(ReadOn[r0], l) /\ Only(ReadOn[r0].emitted, l)
<1>1. CASE Jammed(r0)
  BY <1>1, JammedReads DEF Harmless
<1>2. CASE Unfinished(r0, l)
  <2> DEFINE T == {r \in Reading : Unfinished(r, l) /\ Only(r.emitted, l)
                                   /\ ~(Unfinished(ReadOn[r], l) /\ Only(ReadOn[r].emitted, l))}
  <2>1. ASSUME NEW r \in T PROVE Whole(r) /\ parseJson(r, Wanted(r)) \in T
    <3>1. Whole(r)
      <4>1. SUFFICES ASSUME ~Whole(r) PROVE FALSE
        OBVIOUS
      <4>2. ReadOn[r] = Waiting(r) /\ Waiting(r).received = r.received /\ Waiting(r).emitted = r.emitted
        BY <4>1, ReadOnDef DEF Waiting, Reading
      <4> QED
        BY <4>2 DEF Unfinished
    <3>2. /\ Unfinished(parseJson(r, Wanted(r)), l) /\ Only(parseJson(r, Wanted(r)).emitted, l)
          /\ parseJson(r, Wanted(r)) \in Reading /\ ReadOn[r] = ReadOn[parseJson(r, Wanted(r))]
      BY <3>1, UnfinishedParses, WholeType, ReadOnDef
    <3> QED
      BY <3>1, <3>2
  <2>2. T \subseteq Reading
    OBVIOUS
  <2>3. r0 \notin T
    <3> HIDE DEF T
    <3>1. T = {}
      BY <2>1, <2>2, NoneLeft
    <3> QED
      BY <3>1
  <2> QED
    BY <1>2, <2>3 DEF Harmless
<1> QED
  BY <1>1, <1>2 DEF Harmless

-----------------------------------------------------------------------------
(***************************************************************************)
(* What a reader does with bytes that arrive.                              *)
(***************************************************************************)

\* A reader that waits for the rest of a message has finished none.
LEMMA WaitsHarmless ==
  ASSUME NEW r, r.received \in Seq(Bytes), NEW rest \in Seq(Bytes), NEW l, NEW n, NEW o,
         Stream(r.received \o rest, l, n), Waits(r, r.received \o rest)
  PROVE  Harmless(r, o)
<1>1. CASE r.received = <<>>
  BY <1>1 DEF Harmless, Unfinished
<1>2. CASE r.received # <<>>
  <2> DEFINE b == r.received \o rest
  <2>1. /\ b # <<>> /\ 1 \in DOMAIN r.received /\ b[1] = r.received[1] /\ Stream(r.received, l, n)
    BY <1>2, StreamSplit
  <2>2. CASE AtFront(b)
    <3>1. b[1][2] = 1 /\ Len(r.received) < FullSize(b[1][1])
      BY <1>2, <2>1, <2>2 DEF Waits, AtFront
    <3>2. FullSize(r.received[1][1]) \in Nat
      BY <2>1, ByteType
    <3>3. ASSUME NEW i \in DOMAIN r.received
          PROVE  r.received[i] = <<r.received[1][1], i>> /\ i < FullSize(r.received[1][1])
      <4>1. i <= FullSize(r.received[1][1]) /\ i < FullSize(r.received[1][1])
        BY <2>1, <3>1, <3>2
      <4> QED
        BY <1>2, <2>1, <3>1, <4>1, FrameAhead
    <3> QED
      BY <3>3 DEF Harmless, Unfinished
  <2>3. CASE ~AtFront(b)
    BY <1>2, <2>1, <2>3 DEF Waits, AtFront, Harmless, Jammed
  <2> QED
    BY <2>2, <2>3
<1> QED
  BY <1>1, <1>2

LEMMA Together ==
  ASSUME NEW a \in Seq(Bytes), NEW b \in Seq(Bytes), NEW c \in Seq(Bytes)
  PROVE  (a \o b) \o c = a \o (b \o c)
BY ConcatAssociative

LEMMA NumbersOnly ==
  ASSUME NEW l, NEW j, NEW k
  PROVE  Only(Numbers(l, j, k), l)
BY DEF Numbers, Only

\* One reading of some of the bytes on their way to a reader.
LEMMA ReadingFront ==
  ASSUME NEW s \in Readers, NEW u \in Seq(Bytes), NEW p \in 1 .. Len(u), NEW l, NEW n \in Nat,
         Stream(s.received \o u, l, n), Waits(s, s.received \o u), AtFront(s.received \o u),
         NEW j \in 0 .. n, Begins(s.received \o u, l, j)
  PROVE  LET d == onReadyRead_helper(s, SubSeq(u, 1, p))
             b == Reader(d).received \o SubSeq(u, p + 1, Len(u))
         IN  /\ Stream(b, l, n) /\ Waits(Reader(d), b) /\ AtFront(b) /\ Only(d.emitted, l)
             /\ \E k \in Nat : /\ d.emitted = Numbers(l, j, k) /\ j + k <= n /\ Begins(b, l, j + k)
                               /\ AllSince(s.received \o u, l, j, n) => AllSince(b, l, j + k, n)
<1> DEFINE piece == SubSeq(u, 1, p)
           rest == SubSeq(u, p + 1, Len(u))
           r == [received |-> s.received \o piece, expected |-> s.expected, emitted |-> <<>>]
           d == onReadyRead_helper(s, piece)
           b == Reader(d).received \o rest
<1>1. piece \in Seq(Bytes) /\ rest \in Seq(Bytes) /\ piece \o rest = u /\ s.received \in Seq(Bytes)
  BY Cut DEF Readers
<1>2. r \in Reading /\ d = ReadOn[r] /\ d \in Reading
  BY <1>1, HelperType DEF onReadyRead_helper
<1>3. r.received \o rest = s.received \o u
  <2> HIDE DEF piece, rest
  <2> DEFINE a == s.received
  <2>0. a \in Seq(Bytes) /\ piece \in Seq(Bytes) /\ rest \in Seq(Bytes)
    BY <1>1
  <2> HIDE DEF a
  <2>1. (a \o piece) \o rest = a \o (piece \o rest)
    BY <2>0, Together
  <2> QED
    BY <1>1, <2>1 DEF a
<1>4. InStep(r, rest, l, j, n)
  <2>1. r.received = <<>> => s.received = <<>>
    BY <1>1
  <2>2. s.received # <<>> => (s.received \o u)[1] = << <<l, j + 1>>, 1>> /\ s.received \o u # <<>>
    BY <1>1 DEF Begins
  <2>3. s.received # <<>> => s.expected \in {0, Size(<<l, j + 1>>)}
    BY <2>2 DEF Waits
  <2>4. s.received = <<>> => s.expected = 0
    BY DEF Waits
  <2>5. r.expected = s.expected
    OBVIOUS
  <2> HIDE DEF r, rest
  <2> QED
    BY <1>3, <2>1, <2>3, <2>4, <2>5 DEF InStep
<1>5. PICK k \in Nat : ReadRight(r, rest, l, j, n, k)
  <2> HIDE DEF r, rest
  <2> QED
    BY <1>1, <1>2, <1>4, ReadsInStep
<1>6. Numbers(l, j, k) \in Seq({l} \X Nat) /\ r.emitted = <<>>
  <2>1. j \in Nat
    OBVIOUS
  <2> QED
    BY <2>1, NumbersType
<1>7. r.emitted \o Numbers(l, j, k) = Numbers(l, j, k)
  <2> HIDE DEF r
  <2> QED
    BY <1>6
<1> HIDE DEF r, d, rest, piece
<1>8. Reader(d).received = d.received /\ Reader(d).expected = d.expected
  BY DEF Reader
<1>9. Stream(b, l, n) /\ Begins(b, l, j + k)
  BY <1>2, <1>5, <1>8 DEF ReadRight, InStep
<1>10. Waits(Reader(d), b)
  BY <1>2, <1>5, <1>8 DEF ReadRight, Waits
<1>11. AtFront(b)
  BY <1>9 DEF AtFront, Begins
<1>12. d.emitted = Numbers(l, j, k)
  BY <1>2, <1>5, <1>7 DEF ReadRight
<1>13. Only(d.emitted, l)
  BY <1>12, NumbersOnly
<1> QED
  BY <1>2, <1>3, <1>5, <1>8, <1>9, <1>10, <1>11, <1>12, <1>13 DEF ReadRight, d, rest, piece

LEMMA ReadingMiddle ==
  ASSUME NEW s \in Readers, NEW u \in Seq(Bytes), NEW p \in 1 .. Len(u), NEW l, NEW n,
         Stream(s.received \o u, l, n), Waits(s, s.received \o u), ~AtFront(s.received \o u)
  PROVE  LET d == onReadyRead_helper(s, SubSeq(u, 1, p))
             b == Reader(d).received \o SubSeq(u, p + 1, Len(u))
         IN  /\ Stream(b, l, n) /\ Waits(Reader(d), b) /\ ~AtFront(b)
             /\ d.emitted = <<>> /\ Only(d.emitted, l)
<1> DEFINE piece == SubSeq(u, 1, p)
           rest == SubSeq(u, p + 1, Len(u))
           r == [received |-> s.received \o piece, expected |-> s.expected, emitted |-> <<>>]
           d == onReadyRead_helper(s, piece)
           b == Reader(d).received \o rest
<1>1. /\ piece \in Seq(Bytes) /\ rest \in Seq(Bytes) /\ piece \o rest = u /\ s.received \in Seq(Bytes)
      /\ Len(piece) = p
  <2>1. p \in 0 .. Len(u) /\ s.received \in Seq(Bytes)
    BY DEF Readers
  <2> QED
    BY <2>1, Cut
<1>2. r \in Reading /\ d = ReadOn[r] /\ d \in Reading
  BY <1>1, HelperType DEF onReadyRead_helper
<1>3. r.received \o rest = s.received \o u /\ r.received # <<>> /\ r.received \in Seq(Bytes)
  <2> HIDE DEF piece, rest
  <2> DEFINE a == s.received
  <2>0. a \in Seq(Bytes) /\ piece \in Seq(Bytes) /\ rest \in Seq(Bytes)
    BY <1>1
  <2> HIDE DEF a
  <2>1. (a \o piece) \o rest = a \o (piece \o rest)
    BY <2>0, Together
  <2>2. s.received \o piece # <<>> /\ s.received \o piece \in Seq(Bytes)
    BY <1>1
  <2> QED
    BY <1>1, <2>1, <2>2 DEF a
<1>4. (s.received \o u)[1] = r.received[1]
  <2> HIDE DEF r, rest
  <2>1. (r.received \o rest)[1] = r.received[1]
    BY <1>1, <1>3
  <2> QED
    BY <1>3, <2>1
<1>5. r.expected = s.expected /\ r.emitted = <<>>
  OBVIOUS
<1> HIDE DEF r, d, rest, piece
<1>6. Jammed(r)
  BY <1>3, <1>4, <1>5 DEF Jammed, Waits, AtFront
<1>7. d.received = r.received /\ d.emitted = <<>> /\ Jammed(d)
  BY <1>2, <1>5, <1>6, JammedReads
<1>8. Reader(d).received = d.received /\ Reader(d).expected = d.expected
  BY DEF Reader
<1>9. b = s.received \o u
  BY <1>3, <1>7, <1>8
<1>10. Waits(Reader(d), b)
  BY <1>7, <1>8, <1>9 DEF Waits, Jammed
<1>11. Only(d.emitted, l)
  BY <1>7 DEF Only
<1> QED
  BY <1>7, <1>9, <1>10, <1>11 DEF d, rest, piece

LEMMA ReadingSpoiled ==
  ASSUME NEW s \in Readers, NEW u \in Seq(Bytes), NEW p \in 1 .. Len(u), NEW l, NEW n,
         Stream(u, l, n), Harmless(s, l)
  PROVE  LET d == onReadyRead_helper(s, SubSeq(u, 1, p))
         IN  Harmless(Reader(d), l) /\ Only(d.emitted, l)
<1> DEFINE piece == SubSeq(u, 1, p)
           r == [received |-> s.received \o piece, expected |-> s.expected, emitted |-> <<>>]
           d == onReadyRead_helper(s, piece)
<1>1. /\ piece \in Seq(Bytes) /\ s.received \in Seq(Bytes)
      /\ Len(piece) = p /\ \A i \in 1 .. p : piece[i] = u[i]
  BY Cut DEF Readers
<1>2. r \in Reading /\ d = ReadOn[r] /\ d \in Reading
  BY <1>1, HelperType DEF onReadyRead_helper
<1>3. \A i \in DOMAIN piece : piece[i][1][1] = l
  <2>1. \A i \in DOMAIN piece : i \in DOMAIN u /\ piece[i] = u[i]
    BY <1>1
  <2> QED
    BY <2>1 DEF Stream
<1>4. r.received = s.received \o piece /\ r.expected = s.expected /\ r.emitted = <<>>
  OBVIOUS
<1> HIDE DEF r, d, piece
<1>5. Harmless(r, l)
  <2>1. CASE Jammed(s)
    <3>1. r.received # <<>> /\ r.received[1] = s.received[1]
      BY <1>1, <1>4, <2>1 DEF Jammed
    <3> QED
      BY <1>4, <2>1, <3>1 DEF Harmless, Jammed
  <2>2. CASE Unfinished(s, l)
    <3>1. \A i \in DOMAIN r.received : \/ i \in DOMAIN s.received /\ r.received[i] = s.received[i]
                                      \/ \E k \in DOMAIN piece : r.received[i] = piece[k]
      BY <1>1, <1>4, Joined
    <3> QED
      BY <1>3, <2>2, <3>1 DEF Harmless, Unfinished
  <2> QED
    BY <2>1, <2>2 DEF Harmless
<1>6. Only(r.emitted, l)
  BY <1>4 DEF Only
<1>7. Harmless(d, l) /\ Only(d.emitted, l)
  BY <1>2, <1>5, <1>6, HarmlessReads
<1>8. Reader(d).received = d.received /\ Reader(d).expected = d.expected
  BY DEF Reader
<1>9. Harmless(Reader(d), l)
  BY <1>7, <1>8 DEF Harmless, Jammed, Unfinished
<1> QED
  BY <1>7, <1>9 DEF d, piece

-----------------------------------------------------------------------------
(***************************************************************************)
(* The queues.                                                             *)
(***************************************************************************)

\* The messages of a link in a queue; those after the first a up to the j-th are
\* there, in this order, and no other.
Of(q, l) == {i \in DOMAIN q : q[i] # Garbled /\ q[i][1] = l}
Queued(q, l, a, j) ==
  /\ \A n \in a + 1 .. j : \E i \in Of(q, l) : q[i][2] = n
  /\ \A i \in Of(q, l) : q[i][2] \in a + 1 .. j
  /\ \A i, k \in Of(q, l) : i < k => q[i][2] < q[k][2]

\* The messages of other links change nothing.
LEMMA QueuedOthers ==
  ASSUME NEW S, NEW q \in Seq(S), NEW e \in Seq(S), NEW l, NEW a, NEW j, Queued(q, l, a, j),
         \A i \in DOMAIN e : e[i] # Garbled => e[i][1] # l
  PROVE  Queued(q \o e, l, a, j)
<1>1. \A i \in Of(q, l) : i \in DOMAIN q /\ i \in DOMAIN (q \o e) /\ (q \o e)[i] = q[i]
  BY Joined DEF Of
<1>2. ASSUME NEW i \in Of(q \o e, l) PROVE i \in Of(q, l)
  <2>1. i \in DOMAIN (q \o e) /\ (q \o e)[i] # Garbled /\ (q \o e)[i][1] = l
    BY DEF Of
  <2>2. (i \in DOMAIN q /\ (q \o e)[i] = q[i]) \/ (i - Len(q) \in DOMAIN e /\ (q \o e)[i] = e[i - Len(q)])
    BY <2>1, Joined
  <2> QED
    BY <2>1, <2>2 DEF Of
<1>3. Of(q \o e, l) = Of(q, l)
  BY <1>1, <1>2 DEF Of
<1> QED
  BY <1>1, <1>3 DEF Queued

LEMMA QueuedMore ==
  ASSUME NEW S, NEW q \in Seq(S), NEW l, NEW a \in Nat, NEW j \in Nat, NEW k \in Nat, a <= j,
         Queued(q, l, a, j), Numbers(l, j, k) \in Seq(S)
  PROVE  Queued(q \o Numbers(l, j, k), l, a, j + k)
<1> DEFINE e == Numbers(l, j, k)
           t == q \o e
<1>1. e \in Seq(S) /\ Len(e) = k /\ \A i \in 1 .. k : e[i] = <<l, j + i>>
  BY NumbersType
<1> HIDE DEF e
<1>2. /\ \A i \in DOMAIN q : i \in DOMAIN t /\ t[i] = q[i]
      /\ \A i \in 1 .. k : Len(q) + i \in DOMAIN t /\ t[Len(q) + i] = <<l, j + i>>
      /\ \A i \in DOMAIN t : i \in DOMAIN q \/ (i - Len(q) \in 1 .. k /\ t[i] = <<l, j + (i - Len(q))>>)
      /\ Len(q) \in Nat /\ DOMAIN q = 1 .. Len(q) /\ DOMAIN t \subseteq Nat
  BY <1>1, Joined
<1> HIDE DEF t
<1>3. \A i \in DOMAIN q : i \in Of(t, l) <=> i \in Of(q, l)
  BY <1>2 DEF Of
<1> DEFINE Old(i) == i \in Of(q, l) /\ t[i] = q[i] /\ q[i][2] \in a + 1 .. j /\ i <= Len(q)
           New(i) == i - Len(q) \in 1 .. k /\ t[i][2] = j + (i - Len(q)) /\ i > Len(q) /\ i \in Nat
<1>4. \A i \in Of(t, l) : Old(i) \/ New(i)
  <2> SUFFICES ASSUME NEW i \in Of(t, l) PROVE Old(i) \/ New(i)
    OBVIOUS
  <2>1. i \in DOMAIN t
    BY DEF Of
  <2>2. CASE i \in DOMAIN q
    BY <1>2, <1>3, <2>2 DEF Queued
  <2>3. CASE i \notin DOMAIN q
    BY <1>2, <2>1, <2>3
  <2> QED
    BY <2>2, <2>3
<1>5. ASSUME NEW n \in a + 1 .. j + k PROVE \E i \in Of(t, l) : t[i][2] = n
  <2>1. CASE n <= j
    <3>1. PICK i \in Of(q, l) : q[i][2] = n
      BY <2>1 DEF Queued
    <3> QED
      BY <1>2, <1>3, <3>1 DEF Of
  <2>2. CASE n > j
    <3>1. n - j \in 1 .. k /\ j + (n - j) = n
      BY <2>2
    <3>2. Len(q) + (n - j) \in DOMAIN t /\ t[Len(q) + (n - j)] = <<l, n>>
      BY <1>2, <3>1
    <3>3. Len(q) + (n - j) \in Of(t, l)
      BY <3>2 DEF Of, Garbled
    <3> QED
      BY <3>2, <3>3
  <2> QED
    BY <2>1, <2>2
<1>6. ASSUME NEW i \in Of(t, l) PROVE t[i][2] \in a + 1 .. j + k
  <2>1. CASE Old(i)
    <3>1. q[i][2] \in a + 1 .. j /\ t[i] = q[i]
      BY <2>1
    <3> QED
      BY <3>1
  <2>2. CASE New(i)
    <3>1. PICK x : x = i - Len(q)
      OBVIOUS
    <3>2. x \in 1 .. k /\ t[i][2] = j + x
      BY <2>2, <3>1
    <3> QED
      BY <3>2
  <2> QED
    BY <1>4, <2>1, <2>2
<1>7. ASSUME NEW i \in Of(t, l), NEW h \in Of(t, l), i < h PROVE t[i][2] < t[h][2]
  <2>1. CASE h \in Of(q, l) /\ t[h] = q[h] /\ h <= Len(q)
    <3>1. i \in Of(q, l) /\ t[i] = q[i]
      BY <1>2, <1>4, <1>7, <2>1 DEF Of
    <3> QED
      BY <1>7, <2>1, <3>1 DEF Queued
  <2>2. CASE New(h)
    <3>1. t[h][2] = j + (h - Len(q)) /\ h - Len(q) \in 1 .. k
      BY <2>2
    <3>2. CASE Old(i)
      <4>1. t[i][2] \in a + 1 .. j
        BY <3>2
      <4> HIDE DEF Old, New
      <4> QED
        BY <3>1, <4>1
    <3>3. CASE New(i)
      <4>1. t[i][2] = j + (i - Len(q)) /\ i - Len(q) \in 1 .. k /\ i \in Nat /\ h \in Nat
        BY <2>2, <3>3
      <4> HIDE DEF Old, New
      <4> QED
        BY <1>2, <1>7, <3>1, <4>1
    <3> QED
      BY <1>4, <3>2, <3>3
  <2> QED
    BY <1>4, <2>1, <2>2
<1> QED
  BY <1>5, <1>6, <1>7 DEF Queued, t, e

\* The first message in a queue is the next one of its link.
LEMMA QueuedTail ==
  ASSUME NEW S, NEW q \in Seq(S), NEW l, NEW a \in Nat, NEW j \in Nat, Queued(q, l, a, j), q # <<>>
  PROVE  /\ Head(q) # Garbled /\ Head(q)[1] = l =>
              Head(q)[2] = a + 1 /\ a + 1 <= j /\ Queued(Tail(q), l, a + 1, j)
         /\ Head(q) = Garbled \/ Head(q)[1] # l => Queued(Tail(q), l, a, j)
<1> DEFINE t == Tail(q)
<1>1. /\ 1 \in DOMAIN q /\ Head(q) = q[1] /\ DOMAIN q = 1 .. Len(q) /\ DOMAIN t = 1 .. Len(q) - 1 /\ Len(q) \in Nat
      /\ \A i \in DOMAIN t : i + 1 \in DOMAIN q /\ t[i] = q[i + 1]
  OBVIOUS
<1> HIDE DEF t
<1>2. \A i \in Of(t, l) : i + 1 \in Of(q, l) /\ t[i] = q[i + 1] /\ i \in Nat
  BY <1>1 DEF Of
<1>3. \A i \in Of(q, l) : i # 1 => i - 1 \in Of(t, l) /\ t[i - 1] = q[i] /\ i \in Nat /\ i > 1
  BY <1>1 DEF Of
<1>4. \A i, k \in Of(t, l) : i < k => t[i][2] < t[k][2]
  BY <1>2 DEF Queued
<1>5. ASSUME 1 \in Of(q, l)
      PROVE  q[1][2] = a + 1 /\ a + 1 <= j /\ Queued(t, l, a + 1, j)
  <2>1. q[1][2] \in a + 1 .. j
    BY <1>5 DEF Queued
  <2>2. PICK k \in Of(q, l) : q[k][2] = a + 1
    BY <2>1 DEF Queued
  <2>3. k = 1
    BY <1>3, <1>5, <2>1, <2>2 DEF Queued
  <2>4. q[1][2] = a + 1
    BY <2>2, <2>3
  <2>5. \A i \in Of(t, l) : t[i][2] \in (a + 1) + 1 .. j
    <3> SUFFICES ASSUME NEW i \in Of(t, l) PROVE t[i][2] \in (a + 1) + 1 .. j
      OBVIOUS
    <3>1. i + 1 \in Of(q, l) /\ 1 < i + 1 /\ t[i] = q[i + 1]
      BY <1>1, <1>2 DEF Of
    <3>2. q[1][2] < q[i + 1][2] /\ q[i + 1][2] \in a + 1 .. j
      BY <1>5, <3>1 DEF Queued
    <3> QED
      BY <2>4, <3>1, <3>2
  <2>6. \A n \in (a + 1) + 1 .. j : \E i \in Of(t, l) : t[i][2] = n
    <3> SUFFICES ASSUME NEW n \in (a + 1) + 1 .. j PROVE \E i \in Of(t, l) : t[i][2] = n
      OBVIOUS
    <3>1. PICK i \in Of(q, l) : q[i][2] = n
      BY DEF Queued
    <3>2. i # 1
      BY <2>4, <3>1
    <3> QED
      BY <1>3, <3>1, <3>2
  <2> QED
    BY <1>4, <2>1, <2>4, <2>5, <2>6 DEF Queued
<1>6. ASSUME 1 \notin Of(q, l) PROVE Queued(t, l, a, j)
  <2>1. \A i \in Of(t, l) : t[i][2] \in a + 1 .. j
    BY <1>2 DEF Queued
  <2>2. \A n \in a + 1 .. j : \E i \in Of(t, l) : t[i][2] = n
    <3> SUFFICES ASSUME NEW n \in a + 1 .. j PROVE \E i \in Of(t, l) : t[i][2] = n
      OBVIOUS
    <3>1. PICK i \in Of(q, l) : q[i][2] = n
      BY DEF Queued
    <3> QED
      BY <1>3, <1>6, <3>1
  <2> QED
    BY <1>4, <2>1, <2>2 DEF Queued
<1> QED
  BY <1>1, <1>5, <1>6 DEF Of, t

\* The bytes on their way to a reader, those it holds first, are a piece of the
\* stream, and it will not mistake them.
Trailing(s, u, l, n) == Stream(s.received \o u, l, n) /\ Waits(s, s.received \o u)

\* What comes over a link: after those handled, the messages in the queue, then
\* those in the bytes; "on" while the connection lasts, when these are all;
\* "late" when it was lost and bytes may still be read, which may begin in the
\* middle of a message; and "over".
Coming(mode, s, u, q, l, n, a) ==
  LET b == s.received \o u
  IN  /\ mode # "over" => Trailing(s, u, l, n)
      /\ \E j \in a .. n :
           /\ Queued(q, l, a, j)
           /\ mode # "over" /\ AtFront(b) => Begins(b, l, j)
           /\ mode = "on" => AtFront(b) /\ AllSince(b, l, j, n)

\* A connection that a client begins with bytes of the last one may lose what
\* comes, but no message of the last one is made of them.
Spoilt(mode, s, u, l, n) ==
  /\ mode = "on" => Stream(u, l, n) /\ Ends(u, l, n) /\ Harmless(s, l)
  /\ mode = "late" => Trailing(s, u, l, n)

\* The first p bytes may be read.
MayRead(mode, s, u, p, q, l, n, a) ==
  /\ s \in Readers /\ u \in Seq(Bytes) /\ p \in 1 .. Len(u) /\ q \in Seq(Messages \cup {Garbled})
  /\ n \in Nat /\ a \in Nat /\ mode \in {"on", "late"} /\ Coming(mode, s, u, q, l, n, a)

LEMMA ComingReads ==
  ASSUME NEW mode, NEW s, NEW u, NEW p, NEW q, NEW l, NEW n, NEW a, MayRead(mode, s, u, p, q, l, n, a)
  PROVE  LET d == onReadyRead_helper(s, SubSeq(u, 1, p))
         IN  /\ Coming(mode, Reader(d), SubSeq(u, p + 1, Len(u)), q \o d.emitted, l, n, a)
             /\ Only(d.emitted, l)
<1> DEFINE piece == SubSeq(u, 1, p)
           rest == SubSeq(u, p + 1, Len(u))
           d == onReadyRead_helper(s, piece)
           b == s.received \o u
           c == Reader(d).received \o rest
<1>0. /\ s \in Readers /\ u \in Seq(Bytes) /\ p \in 1 .. Len(u) /\ q \in Seq(Messages \cup {Garbled})
      /\ n \in Nat /\ a \in Nat /\ mode \in {"on", "late"} /\ Coming(mode, s, u, q, l, n, a)
  BY DEF MayRead
<1> USE <1>0
<1>1. /\ Stream(b, l, n) /\ Waits(s, b)
      /\ mode = "on" => AtFront(b)
  BY DEF Coming, Trailing
<1>2. PICK j \in a .. n : /\ Queued(q, l, a, j) /\ (AtFront(b) => Begins(b, l, j))
                          /\ mode = "on" => AllSince(b, l, j, n)
  BY DEF Coming
<1>3. d.emitted \in Seq(Messages \cup {Garbled})
  <2>1. piece \in Seq(Bytes)
    BY Cut
  <2>2. d \in Reading
    BY <2>1, HelperType
  <2> QED
    BY <2>2 DEF Reading
<1>4. CASE AtFront(b)
  <2>1. j \in 0 .. n /\ Begins(b, l, j) /\ j \in Nat /\ a <= j
    BY <1>2, <1>4
  <2>2. /\ Stream(c, l, n) /\ Waits(Reader(d), c) /\ AtFront(c) /\ Only(d.emitted, l)
        /\ \E k \in Nat : /\ d.emitted = Numbers(l, j, k) /\ j + k <= n /\ Begins(c, l, j + k)
                          /\ AllSince(b, l, j, n) => AllSince(c, l, j + k, n)
    BY <1>1, <1>4, <2>1, ReadingFront
  <2> HIDE DEF d, b, c, rest, piece
  <2>3. PICK k \in Nat : /\ d.emitted = Numbers(l, j, k) /\ j + k <= n /\ Begins(c, l, j + k)
                         /\ AllSince(b, l, j, n) => AllSince(c, l, j + k, n)
    BY <2>2
  <2>4. j + k \in a .. n
    BY <2>1, <2>3
  <2>5. Queued(q \o d.emitted, l, a, j + k)
    <3> DEFINE S == Messages \cup {Garbled}
    <3>1. q \in Seq(S) /\ Numbers(l, j, k) \in Seq(S) /\ j \in Nat /\ a <= j /\ Queued(q, l, a, j)
      BY <1>2, <1>3, <2>1, <2>3
    <3> HIDE DEF S
    <3>2. Queued(q \o Numbers(l, j, k), l, a, j + k)
      BY <3>1, QueuedMore
    <3> QED
      BY <2>3, <3>2
  <2>6. Coming(mode, Reader(d), rest, q \o d.emitted, l, n, a)
    BY <1>2, <2>2, <2>3, <2>4, <2>5 DEF Coming, Trailing, c
  <2> QED
    BY <2>2, <2>6 DEF d, rest, piece
<1>5. CASE ~AtFront(b)
  <2>1. /\ Stream(c, l, n) /\ Waits(Reader(d), c) /\ ~AtFront(c)
        /\ d.emitted = <<>> /\ Only(d.emitted, l)
    BY <1>1, <1>5, ReadingMiddle
  <2> HIDE DEF d, b, c, rest, piece
  <2>2. mode = "late" /\ q \o d.emitted = q
    BY <1>1, <1>5, <2>1
  <2>3. Coming(mode, Reader(d), rest, q \o d.emitted, l, n, a)
    BY <1>2, <2>1, <2>2 DEF Coming, Trailing, c
  <2> QED
    BY <2>1, <2>3 DEF d, rest, piece
<1> QED
  BY <1>4, <1>5

\* The link and the number of the first byte.
LEMMA StreamFront ==
  ASSUME NEW l, NEW n \in Nat, NEW b, Stream(b, l, n), AtFront(b)
  PROVE  \E j \in 0 .. n : Begins(b, l, j)
<1>1. CASE b = <<>>
  BY <1>1 DEF Begins
<1>2. CASE b # <<>>
  <2>1. 1 \in DOMAIN b /\ b \in Seq(Bytes)
    BY <1>2 DEF Stream
  <2>2. /\ b[1] = <<b[1][1], b[1][2]>> /\ b[1][1] = <<b[1][1][1], b[1][1][2]>>
        /\ b[1][1][2] \in Nat \ {0}
    BY <2>1, ByteType
  <2>3. b[1][2] = 1 /\ b[1][1][1] = l /\ b[1][1][2] <= n
    BY <1>2, <2>1 DEF AtFront, Stream
  <2> DEFINE j == b[1][1][2] - 1
  <2>4. j \in 0 .. n /\ j + 1 = b[1][1][2]
    BY <2>2, <2>3
  <2>5. b[1] = << <<l, j + 1>>, 1>>
    BY <2>2, <2>3, <2>4
  <2> HIDE DEF j
  <2> QED
    BY <2>4, <2>5 DEF Begins
<1> QED
  BY <1>1, <1>2

LEMMA TrailingReads ==
  ASSUME NEW s \in Readers, NEW u \in Seq(Bytes), NEW p \in 1 .. Len(u), NEW l, NEW n \in Nat, Trailing(s, u, l, n)
  PROVE  LET d == onReadyRead_helper(s, SubSeq(u, 1, p))
         IN  Trailing(Reader(d), SubSeq(u, p + 1, Len(u)), l, n) /\ Only(d.emitted, l)
<1> DEFINE b == s.received \o u
           rest == SubSeq(u, p + 1, Len(u))
           d == onReadyRead_helper(s, SubSeq(u, 1, p))
<1>1. Stream(b, l, n) /\ Waits(s, b)
  BY DEF Trailing
<1>2. CASE AtFront(b)
  <2>1. PICK j \in 0 .. n : Begins(b, l, j)
    BY <1>1, <1>2, StreamFront
  <2> QED
    BY <1>1, <1>2, <2>1, ReadingFront DEF Trailing
<1>3. CASE ~AtFront(b)
  BY <1>1, <1>3, ReadingMiddle DEF Trailing
<1> QED
  BY <1>2, <1>3

\* A stream that ends with the last message goes on with the next one.
LEMMA StreamSent ==
  ASSUME NEW l, NEW n \in Nat, NEW b, Stream(b, l, n), Ends(b, l, n), <<l, n + 1>> \in Messages
  PROVE  LET t == b \o Frame(<<l, n + 1>>)
         IN  Stream(t, l, n + 1) /\ Ends(t, l, n + 1) /\ t # <<>>
<1> DEFINE m == <<l, n + 1>>
           f == Frame(m)
           k == Header + Size(m)
           t == b \o f
<1>1. m[1] = l /\ m[2] = n + 1 /\ FullSize(m) = k
  BY DEF FullSize
<1>2. m \in Messages
  OBVIOUS
<1> HIDE DEF m
<1>3. /\ f \in Seq(Bytes) /\ Len(f) = k /\ \A i \in 1 .. k : f[i] = <<m, i>>
      /\ k \in Nat \ {0} /\ b \in Seq(Bytes)
  BY <1>2, FrameShape, Positive DEF Stream
<1> HIDE DEF f, k
<1>4. /\ t \in Seq(Bytes) /\ Len(t) = Len(b) + k /\ DOMAIN t = 1 .. Len(b) + k /\ Len(b) \in Nat
      /\ \A i \in DOMAIN b : i \in DOMAIN t /\ t[i] = b[i]
      /\ \A i \in 1 .. k : Len(b) + i \in DOMAIN t /\ t[Len(b) + i] = <<m, i>>
      /\ \A i \in DOMAIN t : i \in DOMAIN b \/ (i - Len(b) \in 1 .. k /\ t[i] = <<m, i - Len(b)>>)
  <2>0. b \in Seq(Bytes) /\ f \in Seq(Bytes)
    BY <1>3
  <2>1. /\ t \in Seq(Bytes) /\ Len(t) = Len(b) + Len(f)
        /\ \A i \in DOMAIN b : i \in DOMAIN t /\ t[i] = b[i]
        /\ \A i \in DOMAIN f : Len(b) + i \in DOMAIN t /\ t[Len(b) + i] = f[i]
        /\ \A i \in DOMAIN t : i \in DOMAIN b \/ (i - Len(b) \in DOMAIN f /\ t[i] = f[i - Len(b)])
    BY <2>0, Joined
  <2>2. DOMAIN f = 1 .. k /\ Len(b) \in Nat
    BY <1>3
  <2> HIDE DEF t
  <2>3. DOMAIN t = 1 .. Len(b) + k
    BY <1>3, <2>1
  <2> QED
    BY <1>3, <2>1, <2>2, <2>3
<1> HIDE DEF t
<1>5. \A i \in DOMAIN b : b[i][1][1] = l /\ b[i][1][2] <= n + 1
  <2>1. \A i \in DOMAIN b : b[i][1][2] \in Nat /\ b[i][1][1] = l /\ b[i][1][2] <= n
    BY ByteType, <1>3 DEF Stream
  <2> QED
    BY <2>1
<1>6. \A i \in DOMAIN t : t[i][1][1] = l /\ t[i][1][2] <= n + 1
  BY <1>1, <1>4, <1>5
<1>7. ASSUME NEW i \in DOMAIN t, i + 1 \in DOMAIN t PROVE t[i + 1] = Following(t[i])
  <2>1. CASE i + 1 \in DOMAIN b
    <3>1. i \in DOMAIN b
      BY <1>4, <2>1
    <3> QED
      BY <1>4, <2>1, <3>1 DEF Stream
  <2>2. CASE i = Len(b)
    <3>1. i \in DOMAIN b /\ b # <<>> /\ t[i] = << <<l, n>>, FullSize(<<l, n>>)>>
      BY <1>3, <1>4, <2>2 DEF Ends
    <3>2. t[i + 1] = <<m, 1>>
      BY <1>3, <1>4, <2>2
    <3>3. FullSize(<<l, n>>) \in Nat
      <4>1. b[i] = << <<l, n>>, FullSize(<<l, n>>)>>
        BY <1>4, <3>1
      <4>2. b[i][2] \in Nat \ {0}
        BY <1>3, <3>1, ByteType
      <4> QED
        BY <4>1, <4>2
    <3>4. Following(t[i]) = << <<l, n + 1>>, 1>>
      BY <3>1, <3>3 DEF Following
    <3> QED
      BY <3>2, <3>4 DEF m
  <2>3. CASE i > Len(b)
    <3>1. /\ i - Len(b) \in 1 .. k /\ t[i] = <<m, i - Len(b)>> /\ i - Len(b) < k
          /\ (i - Len(b)) + 1 \in 1 .. k /\ Len(b) + ((i - Len(b)) + 1) = i + 1
      BY <1>3, <1>4, <1>7, <2>3
    <3>2. t[i + 1] = <<m, (i - Len(b)) + 1>>
      BY <1>4, <3>1
    <3>3. Following(t[i]) = <<m, (i - Len(b)) + 1>>
      BY <1>1, <3>1 DEF Following
    <3> QED
      BY <3>2, <3>3
  <2> QED
    BY <1>3, <1>4, <2>1, <2>2, <2>3
<1>8. Stream(t, l, n + 1)
  BY <1>4, <1>6, <1>7 DEF Stream
<1>9. t[Len(t)] = <<m, k>> /\ t # <<>>
  BY <1>3, <1>4
<1> QED
  BY <1>1, <1>8, <1>9 DEF Ends, m, t, f

\* Only the first byte tells what a reader waits for.
LEMMA SameFront ==
  ASSUME NEW s, NEW b, NEW c, Waits(s, b), s.received # <<>> => b # <<>> /\ c # <<>> /\ c[1] = b[1]
  PROVE  Waits(s, c)
BY DEF Waits, AtFront

LEMMA ComingSent ==
  ASSUME NEW s \in Readers, NEW u \in Seq(Bytes), NEW q, NEW l, NEW n \in Nat, NEW a \in Nat,
         NEW k, k = n + 1, NEW m \in Messages, m = <<l, k>>, Coming("on", s, u, q, l, n, a)
  PROVE  Coming("on", s, u \o Frame(m), q, l, k, a)
<1>1. PICK b, f, v, t : b = s.received \o u /\ f = Frame(m) /\ v = u \o f /\ t = s.received \o v
  OBVIOUS
<1>2. PICK j \in a .. n : Queued(q, l, a, j) /\ Begins(b, l, j) /\ AllSince(b, l, j, n)
  BY <1>1 DEF Coming
<1>3. Stream(b, l, n) /\ Waits(s, b) /\ AtFront(b) /\ Ends(b, l, n)
  BY <1>1, <1>2 DEF Coming, Trailing, AllSince
<1>4. s.received \in Seq(Bytes) /\ f \in Seq(Bytes) /\ f # <<>> /\ f[1] = <<m, 1>>
  <2>1. 1 \in 1 .. Header + Size(m)
    BY Positive
  <2> QED
    BY <1>1, <2>1, FrameShape DEF Readers
<1>5. Stream(b \o f, l, k) /\ Ends(b \o f, l, k) /\ b \o f # <<>>
  <2>1. <<l, n + 1>> \in Messages
    OBVIOUS
  <2> QED
    BY <1>1, <1>3, <2>1, StreamSent
<1>6. b \o f = t
  <2> DEFINE r == s.received
  <2>1. r \in Seq(Bytes) /\ b = r \o u /\ t = r \o v
    BY <1>1, <1>4
  <2> HIDE DEF r
  <2>2. (r \o u) \o f = r \o (u \o f)
    BY <1>4, <2>1, Together
  <2> QED
    BY <1>1, <2>1, <2>2
<1>7. b \in Seq(Bytes) /\ (s.received # <<>> => b # <<>>)
  BY <1>1, <1>4
<1>8. t[1] = IF b = <<>> THEN <<m, 1>> ELSE b[1]
  <2>1. CASE b = <<>>
    <3>1. b \o f = f
      BY <1>4, <2>1
    <3> QED
      BY <1>4, <1>6, <2>1, <3>1
  <2>2. CASE b # <<>>
    <3>1. 1 \in DOMAIN b
      BY <1>7, <2>2
    <3>2. (b \o f)[1] = b[1]
      BY <1>4, <1>7, <3>1, Joined
    <3> QED
      BY <1>6, <2>2, <3>2
  <2> QED
    BY <2>1, <2>2
<1>9. Trailing(s, v, l, k)
  <2>1. s.received # <<>> => b # <<>> /\ t # <<>> /\ t[1] = b[1]
    BY <1>5, <1>6, <1>7, <1>8
  <2>2. Waits(s, t)
    BY <1>3, <2>1, SameFront
  <2> QED
    BY <1>1, <1>5, <1>6, <2>2 DEF Trailing
<1>10. Begins(t, l, j) /\ AtFront(t) /\ AllSince(t, l, j, k)
  <2>1. Begins(t, l, j) /\ AtFront(t)
    BY <1>2, <1>3, <1>8 DEF Begins, AtFront, AllSince
  <2> QED
    BY <1>5, <1>6, <2>1 DEF AllSince
<1>11. j \in a .. k
  OBVIOUS
<1>12. Coming("on", s, v, q, l, k, a)
  BY <1>1, <1>2, <1>9, <1>10, <1>11 DEF Coming
<1> QED
  BY <1>1, <1>12

\* What is sent into a lost connection is lost.
LEMMA TrailingMore ==
  ASSUME NEW s, NEW u, NEW l, NEW n \in Nat, Trailing(s, u, l, n)
  PROVE  Trailing(s, u, l, n + 1)
BY StreamMore DEF Trailing

LEMMA ComingUnheard ==
  ASSUME NEW s, NEW u, NEW q, NEW l, NEW n \in Nat, NEW a \in Nat, NEW mode \in {"late", "over"},
         Coming(mode, s, u, q, l, n, a)
  PROVE  Coming(mode, s, u, q, l, n + 1, a)
<1>1. \A j \in a .. n : j \in a .. n + 1
  OBVIOUS
<1>2. mode # "over" => Trailing(s, u, l, n + 1)
  BY TrailingMore DEF Coming
<1> QED
  BY <1>1, <1>2 DEF Coming

\* The last bytes are lost.
LEMMA JoinedCut ==
  ASSUME NEW r \in Seq(Bytes), NEW u \in Seq(Bytes), NEW k \in 0 .. Len(u)
  PROVE  /\ Len(r) + k \in 0 .. Len(r \o u)
         /\ r \o SubSeq(u, 1, k) = SubSeq(r \o u, 1, Len(r) + k)
<1> DEFINE v == SubSeq(u, 1, k)
           x == r \o v
           b == r \o u
           y == SubSeq(b, 1, Len(r) + k)
<1>1. v \in Seq(Bytes) /\ Len(v) = k /\ \A i \in 1 .. k : v[i] = u[i]
  BY Cut
<1> HIDE DEF v
<1>2. /\ x \in Seq(Bytes) /\ Len(x) = Len(r) + k /\ Len(r) \in Nat
      /\ \A i \in 1 .. Len(r) + k : x[i] = IF i <= Len(r) THEN r[i] ELSE v[i - Len(r)]
  BY <1>1
<1>3. /\ b \in Seq(Bytes) /\ Len(b) = Len(r) + Len(u)
      /\ \A i \in 1 .. Len(r) + k : b[i] = IF i <= Len(r) THEN r[i] ELSE u[i - Len(r)]
  OBVIOUS
<1>4. Len(r) + k \in 0 .. Len(b)
  BY <1>3
<1> HIDE DEF x, b
<1>5. y \in Seq(Bytes) /\ Len(y) = Len(r) + k /\ \A i \in 1 .. Len(r) + k : y[i] = b[i]
  BY <1>3, <1>4, Cut
<1> HIDE DEF y
<1>6. x = y
  <2>1. ASSUME NEW i \in 1 .. Len(r) + k PROVE x[i] = y[i]
    <3>1. x[i] = IF i <= Len(r) THEN r[i] ELSE v[i - Len(r)]
      BY <1>2
    <3>2. y[i] = IF i <= Len(r) THEN r[i] ELSE u[i - Len(r)]
      BY <1>3, <1>5
    <3>3. i > Len(r) => i - Len(r) \in 1 .. k
      BY <1>2
    <3> QED
      BY <1>1, <1>2, <3>1, <3>2, <3>3
  <2> QED
    BY <1>2, <1>5, <2>1, SeqEqual
<1> QED
  BY <1>4, <1>6 DEF x, y, b, v

LEMMA TrailingCut ==
  ASSUME NEW s \in Readers, NEW u \in Seq(Bytes), NEW k \in 0 .. Len(u), NEW l, NEW n, Trailing(s, u, l, n)
  PROVE  LET b == s.received \o u
             t == s.received \o SubSeq(u, 1, k)
         IN  Trailing(s, SubSeq(u, 1, k), l, n) /\ (t # <<>> => b # <<>> /\ t[1] = b[1])
<1> DEFINE r == s.received
           v == SubSeq(u, 1, k)
           b == r \o u
           t == r \o v
<1>1. r \in Seq(Bytes) /\ v \in Seq(Bytes) /\ b \in Seq(Bytes)
  BY Cut DEF Readers
<1>2. Len(r) + k \in 0 .. Len(b) /\ t = SubSeq(b, 1, Len(r) + k)
  <2> HIDE DEF r
  <2> QED
    BY <1>1, JoinedCut
<1>3. Stream(b, l, n) /\ Waits(s, b)
  BY DEF Trailing
<1>4. t \in Seq(Bytes) /\ Len(t) = Len(r) + k /\ \A i \in 1 .. Len(r) + k : t[i] = b[i]
  <2> HIDE DEF b, r, t
  <2> QED
    BY <1>1, <1>2, Cut
<1>5. Stream(t, l, n)
  <2> HIDE DEF b, r, t
  <2> QED
    BY <1>2, <1>3, StreamCut
<1>6. r # <<>> => b # <<>> /\ t # <<>>
  BY <1>1
<1> HIDE DEF b, t
<1>7. t # <<>> => b # <<>> /\ t[1] = b[1]
  BY <1>1, <1>2, <1>4
<1>8. Waits(s, t)
  BY <1>3, <1>6, <1>7, SameFront
<1> QED
  BY <1>5, <1>7, <1>8 DEF Trailing, b, t

LEMMA ComingCut ==
  ASSUME NEW s \in Readers, NEW u \in Seq(Bytes), NEW k \in 0 .. Len(u), NEW q, NEW l, NEW n, NEW a,
         NEW mode \in {"on", "late"}, Coming(mode, s, u, q, l, n, a)
  PROVE  Coming("late", s, SubSeq(u, 1, k), q, l, n, a)
<1> DEFINE b == s.received \o u
           t == s.received \o SubSeq(u, 1, k)
<1>1. PICK j \in a .. n : Queued(q, l, a, j) /\ (AtFront(b) => Begins(b, l, j))
  BY DEF Coming
<1>2. Trailing(s, u, l, n)
  BY DEF Coming
<1>3. Trailing(s, SubSeq(u, 1, k), l, n) /\ (t # <<>> => b # <<>> /\ t[1] = b[1])
  BY <1>2, TrailingCut
<1> HIDE DEF b, t
<1>4. AtFront(t) => Begins(t, l, j)
  BY <1>1, <1>3 DEF AtFront, Begins
<1> QED
  BY <1>1, <1>3, <1>4 DEF Coming, t

\* The reader of a client is cleared: it is in the middle of a message now if it
\* held the beginning of it.
LEMMA EmptyTrails ==
  ASSUME NEW u, NEW l, NEW n, Stream(u, l, n)
  PROVE  Trailing(Empty, u, l, n) /\ Empty.received \o u = u
<1>1. Empty.received \o u = u
  BY DEF Empty, Stream
<1> QED
  BY <1>1 DEF Trailing, Waits, Empty

LEMMA ClearedMiddle ==
  ASSUME NEW s \in Readers, NEW u \in Seq(Bytes), NEW l, NEW n,
         Trailing(s, u, l, n), AtFront(s.received \o u), s.received # <<>>, u # <<>>
  PROVE  u[1][2] # 1
<1> DEFINE r == s.received
           b == r \o u
           m == b[1][1]
<1>1. Stream(b, l, n) /\ Waits(s, b) /\ b \in Seq(Bytes) /\ AtFront(b)
  BY DEF Trailing, Stream
<1>2. r \in Seq(Bytes) /\ Len(r) \in Nat \ {0} /\ Len(r) + 1 \in DOMAIN b /\ b[Len(r) + 1] = u[1] /\ b # <<>>
  BY DEF Readers
<1>3. b[1][2] = 1 /\ Len(r) < FullSize(m)
  BY <1>1, <1>2 DEF AtFront, Waits
<1>4. FullSize(m) \in Nat
  <2>1. 1 \in DOMAIN b
    BY <1>1, <1>2
  <2> HIDE DEF b
  <2> QED
    BY <1>1, <2>1, ByteType
<1> HIDE DEF b, r
<1>5. b[Len(r) + 1] = <<m, Len(r) + 1>>
  <2>1. Len(r) + 1 <= FullSize(m)
    BY <1>2, <1>3, <1>4
  <2> QED
    BY <1>1, <1>2, <1>3, <2>1, FrameAhead
<1>6. u[1][2] = Len(r) + 1
  BY <1>2, <1>5
<1> QED
  BY <1>2, <1>6

LEMMA ComingLost ==
  ASSUME NEW s \in Readers, NEW u \in Seq(Bytes), NEW k \in 0 .. Len(u), NEW q, NEW l, NEW n, NEW a,
         Coming("on", s, u, q, l, n, a)
  PROVE  Coming("late", Empty, SubSeq(u, 1, k), q, l, n, a)
<1> DEFINE b == s.received \o u
           v == SubSeq(u, 1, k)
<1>1. PICK j \in a .. n : Queued(q, l, a, j) /\ Begins(b, l, j)
  BY DEF Coming
<1>2. Trailing(s, u, l, n) /\ AtFront(b)
  BY DEF Coming
<1>3. s.received \in Seq(Bytes) /\ v \in Seq(Bytes) /\ Len(v) = k /\ \A i \in 1 .. k : v[i] = u[i]
  BY Cut DEF Readers
<1>4. Stream(v, l, n)
  <2>1. Stream(u, l, n)
    BY <1>2, <1>3, StreamSplit DEF Trailing
  <2> QED
    BY <2>1, StreamCut
<1>5. Trailing(Empty, v, l, n) /\ Empty.received \o v = v
  BY <1>4, EmptyTrails
<1>6. v # <<>> => u # <<>> /\ v[1] = u[1]
  <2> HIDE DEF v
  <2> QED
    BY <1>3
<1>7. AtFront(v) => Begins(v, l, j)
  <2>1. CASE v = <<>>
    BY <2>1 DEF Begins
  <2>2. CASE v # <<>> /\ s.received = <<>>
    <3>1. b = u
      BY <2>2
    <3> HIDE DEF b, v
    <3> QED
      BY <1>1, <1>6, <3>1 DEF Begins
  <2>3. CASE v # <<>> /\ s.received # <<>>
    <3>1. u[1][2] # 1
      BY <1>2, <1>6, <2>3, ClearedMiddle
    <3> HIDE DEF v
    <3> QED
      BY <1>6, <2>3, <3>1 DEF AtFront
  <2> QED
    BY <2>1, <2>2, <2>3
<1> HIDE DEF v
<1>8. Coming("late", Empty, v, q, l, n, a)
  BY <1>1, <1>5, <1>7 DEF Coming
<1> QED
  BY <1>8 DEF v

LEMMA ComingOver ==
  ASSUME NEW s, NEW u, NEW r, NEW v, NEW q, NEW l, NEW n, NEW a, NEW mode, Coming(mode, s, u, q, l, n, a)
  PROVE  Coming("over", r, v, q, l, n, a)
BY DEF Coming

\* The queues.
LEMMA ComingHandled ==
  ASSUME NEW s, NEW u, NEW q \in Seq(Messages \cup {Garbled}), q # <<>>, NEW l, NEW n \in Nat, NEW a \in Nat,
         NEW mode, Coming(mode, s, u, q, l, n, a)
  PROVE  /\ Head(q) # Garbled /\ Head(q)[1] = l =>
              Head(q)[2] = a + 1 /\ a + 1 <= n /\ Coming(mode, s, u, Tail(q), l, n, a + 1)
         /\ Head(q) = Garbled \/ Head(q)[1] # l => Coming(mode, s, u, Tail(q), l, n, a)
<1> DEFINE b == s.received \o u
<1>1. PICK j \in a .. n :
        /\ Queued(q, l, a, j)
        /\ mode # "over" /\ AtFront(b) => Begins(b, l, j)
        /\ mode = "on" => AtFront(b) /\ AllSince(b, l, j, n)
  BY DEF Coming
<1>2. mode # "over" => Trailing(s, u, l, n)
  BY DEF Coming
<1>3. j \in Nat /\ a \in Nat
  OBVIOUS
<1>4. /\ Head(q) # Garbled /\ Head(q)[1] = l =>
           Head(q)[2] = a + 1 /\ a + 1 <= j /\ Queued(Tail(q), l, a + 1, j)
      /\ Head(q) = Garbled \/ Head(q)[1] # l => Queued(Tail(q), l, a, j)
  BY <1>1, <1>3, QueuedTail
<1> HIDE DEF b
<1>5. a + 1 <= j => j \in a + 1 .. n /\ a + 1 <= n
  OBVIOUS
<1> QED
  BY <1>1, <1>2, <1>4, <1>5 DEF Coming, b

LEMMA ComingOthers ==
  ASSUME NEW s, NEW u, NEW q \in Seq(Messages \cup {Garbled}), NEW e \in Seq(Messages \cup {Garbled}),
         NEW l, NEW n, NEW a, NEW mode, Coming(mode, s, u, q, l, n, a),
         \A i \in DOMAIN e : e[i] # Garbled => e[i][1] # l
  PROVE  Coming(mode, s, u, q \o e, l, n, a)
<1> DEFINE b == s.received \o u
<1>1. PICK j \in a .. n :
        /\ Queued(q, l, a, j)
        /\ mode # "over" /\ AtFront(b) => Begins(b, l, j)
        /\ mode = "on" => AtFront(b) /\ AllSince(b, l, j, n)
  BY DEF Coming
<1>2. Queued(q \o e, l, a, j)
  <2> DEFINE S == Messages \cup {Garbled}
  <2>1. q \in Seq(S) /\ e \in Seq(S)
    OBVIOUS
  <2> HIDE DEF S
  <2> QED
    BY <1>1, <2>1, QueuedOthers
<1> QED
  BY <1>1, <1>2 DEF Coming

\* A connection that begins.
LEMMA ComingNew ==
  ASSUME NEW q, NEW l, \A i \in DOMAIN q : q[i] # Garbled => q[i][1] # l
  PROVE  Coming("on", Empty, <<>>, q, l, 0, 0)
<1>1. Queued(q, l, 0, 0)
  BY DEF Queued, Of
<1>2. Stream(<<>>, l, 0)
  BY DEF Stream
<1>3. Trailing(Empty, <<>>, l, 0) /\ Empty.received \o <<>> = <<>>
  BY <1>2, EmptyTrails
<1> QED
  BY <1>1, <1>3 DEF Coming, AtFront, Begins, AllSince, Ends

LEMMA ComingAnew ==
  ASSUME NEW q, NEW l, Coming("late", Empty, <<>>, q, l, 0, 0)
  PROVE  Coming("on", Empty, <<>>, q, l, 0, 0)
<1>1. Empty.received \o <<>> = <<>>
  BY DEF Empty
<1> QED
  BY <1>1 DEF Coming, AtFront, AllSince, Ends

-----------------------------------------------------------------------------
(***************************************************************************)
(* Types.                                                                  *)
(***************************************************************************)

\* A queue that loses its head, and a stream cut in two.
LEMMA TailType == ASSUME NEW S, NEW s \in Seq(S), s # <<>>
                  PROVE  Tail(s) \in Seq(S) /\ Head(s) \in S
OBVIOUS

LEMMA CutType ==
  ASSUME NEW S, NEW s \in Seq(S), NEW n \in 0 .. Len(s)
  PROVE  SubSeq(s, 1, n) \in Seq(S) /\ SubSeq(s, n + 1, Len(s)) \in Seq(S)
OBVIOUS

LEMMA FrameType == ASSUME NEW m \in Messages PROVE Frame(m) \in Seq(Bytes)
<1>1. Size(m) \in Nat \ {0} /\ Header \in Nat \ {0}
  BY SizeAssumption, HeaderAssumption
<1>2. Frame(m) \in [1 .. Header + Size(m) -> Bytes]
  BY <1>1 DEF Frame, Bytes
<1> QED
  BY <1>1, <1>2

LEMMA MessageType ==
  ASSUME TypeOK, NEW l \in Links, MaySend(l)
  PROVE  NextMessage(l) \in Messages /\ sent[l] + 1 \in 0 .. MaxSent
<1>1. sent[l] \in 0 .. MaxSent /\ sent[l] < MaxSent /\ MaxSent \in Nat
  BY BoundsAssumption DEF TypeOK, MaySend
<1> QED
  BY <1>1, MessagesAssumption DEF NextMessage

LEMMA NotGarbled == ASSUME NEW m \in Messages PROVE m # Garbled /\ m[1] \in Links /\ m[2] \in 1 .. MaxSent
BY MessagesAssumption DEF Garbled

\* What a reading gives back.
LEMMA ReadingType ==
  ASSUME NEW r \in Reading
  PROVE  Reader(r) \in Readers /\ r.emitted \in Seq(Messages \cup {Garbled})
BY DEF Reading, Reader, Readers, Bytes

LEMMA PieceType ==
  ASSUME NEW s \in Readers, NEW u \in Seq(Bytes), NEW n \in 1 .. Len(u)
  PROVE  onReadyRead_helper(s, SubSeq(u, 1, n)) \in Reading
<1>1. n \in 0 .. Len(u)
  OBVIOUS
<1>2. SubSeq(u, 1, n) \in Seq(Bytes)
  BY <1>1, CutType
<1> QED
  BY <1>2, HelperType

LEMMA InitType == Init => TypeOK
BY BoundsAssumption, ThreadsAssumption DEF Init, TypeOK, Readers, Empty, Bytes

LEMMA ConnectType == ASSUME TypeOK, NEW c \in Clients, connectToServer(c) PROVE TypeOK'
BY DEF TypeOK, connectToServer, server, wires, Readers

LEMMA AcceptType ==
  ASSUME TypeOK, NEW w \in Workers, NEW c \in Clients, NEW t \in 1 .. Len(m_threadsLoad) + 1,
         Chosen(t), Accepts(w, c, t), Counts(t)
  PROVE  /\ worker' \in [Workers -> {"connected", "gone", "none", "deleted"}]
         /\ client' \in [Workers -> Clients \cup {Nobody}]
         /\ threadIdx' \in [Workers -> {0} \cup Threads]
         /\ m_threadsLoad' \in Seq(Int) /\ Len(m_threadsLoad') <= m_idealThreadCount
         /\ conn' \in [Clients -> {0} \cup Workers]
         /\ spoiled' \subseteq Workers
<1>1. t \in Threads
  BY ThreadsAssumption DEF TypeOK, Chosen, MayStart, Threads
<1>2. m_threadsLoad' \in Seq(Int) /\ Len(m_threadsLoad') <= m_idealThreadCount
  <2>1. CASE MayStart
    BY <2>1, ThreadsAssumption DEF TypeOK, Chosen, MayStart, Counts
  <2>2. CASE ~MayStart
    BY <2>2, ThreadsAssumption DEF TypeOK, Chosen, MayStart, Counts
  <2> QED
    BY <2>1, <2>2
<1> QED
  BY <1>1, <1>2 DEF TypeOK, Accepts

LEMMA IncomingType == ASSUME TypeOK, incomingConnection PROVE TypeOK'
<1>1. PICK w \in Workers, t \in 1 .. Len(m_threadsLoad) + 1 :
        Chosen(t) /\ Accepts(w, Head(backlog), t) /\ Counts(t)
  BY DEF incomingConnection
<1>2. backlog # <<>> /\ backlog \in Seq(Clients) /\ backlog' = Tail(backlog)
  BY DEF incomingConnection, TypeOK
<1>3. Head(backlog) \in Clients /\ backlog' \in Seq(Clients)
  BY <1>2, TailType
<1> QED
  BY <1>1, <1>3, AcceptType DEF incomingConnection, wires, TypeOK, Readers

LEMMA RefusedType == ASSUME TypeOK, ConnectionRefused PROVE TypeOK'
<1>1. backlog' \in Seq(Clients)
  BY TailType DEF TypeOK, ConnectionRefused
<1> QED
  BY <1>1 DEF TypeOK, ConnectionRefused, server, wires, ends, Readers

LEMMA ClientSendsType == ASSUME TypeOK, NEW c \in Clients, ClientSends(c) PROVE TypeOK'
<1> DEFINE w == conn[c]
<1>1. w \in Workers /\ Up(w) \in Links /\ MaySend(Up(w))
  BY DEF TypeOK, ClientSends, Links
<1>2. Frame(NextMessage(Up(w))) \in Seq(Bytes) /\ sent[Up(w)] + 1 \in 0 .. MaxSent
  BY <1>1, MessageType, FrameType
<1>3. up' \in [Workers -> Seq(Bytes)]
  BY <1>1, <1>2 DEF TypeOK, ClientSends
<1>4. sent' \in [Links -> 0 .. MaxSent]
  BY <1>1, <1>2 DEF TypeOK, ClientSends, Sends
<1> QED
  BY <1>3, <1>4 DEF TypeOK, ClientSends, server, ends, Readers

LEMMA ServerSendsType == ASSUME TypeOK, NEW w \in Workers, ServerSends(w) PROVE TypeOK'
<1>1. Down(w) \in Links /\ MaySend(Down(w))
  BY DEF TypeOK, ServerSends, Links
<1>2. Frame(NextMessage(Down(w))) \in Seq(Bytes) /\ sent[Down(w)] + 1 \in 0 .. MaxSent
  BY <1>1, MessageType, FrameType
<1>3. down' \in [Workers -> Seq(Bytes)]
  BY <1>1, <1>2 DEF TypeOK, ServerSends
<1>4. sent' \in [Links -> 0 .. MaxSent]
  BY <1>1, <1>2 DEF TypeOK, ServerSends, Sends
<1> QED
  BY <1>3, <1>4 DEF TypeOK, ServerSends, server, ends, Readers

LEMMA WorkerReadsType == ASSUME TypeOK, NEW w \in Workers, WorkerReads(w) PROVE TypeOK'
<1>1. PICK n \in 1 .. Len(up[w]) :
        LET r == onReadyRead_helper(reader[w], SubSeq(up[w], 1, n))
        IN  /\ reader' = [reader EXCEPT ![w] = Reader(r)]
            /\ up' = [up EXCEPT ![w] = SubSeq(@, n + 1, Len(@))]
            /\ events' = events \o [k \in DOMAIN r.emitted |-> [type |-> "message", from |-> w, message |-> r.emitted[k]]]
  BY DEF WorkerReads
<1> DEFINE r == onReadyRead_helper(reader[w], SubSeq(up[w], 1, n))
           told == [k \in DOMAIN r.emitted |-> [type |-> "message", from |-> w, message |-> r.emitted[k]]]
<1>0. r \in Reading
  <2>1. reader[w] \in Readers /\ up[w] \in Seq(Bytes)
    BY DEF TypeOK
  <2> QED
    BY <2>1, PieceType
<1> HIDE DEF r
<1>2. reader' = [reader EXCEPT ![w] = Reader(r)]
      /\ up' = [up EXCEPT ![w] = SubSeq(@, n + 1, Len(@))] /\ events' = events \o told
  BY <1>1 DEF r
<1>3. Reader(r) \in Readers /\ r.emitted \in Seq(Messages \cup {Garbled})
  BY <1>0, ReadingType
<1>4. told \in Seq(Events)
  BY <1>3 DEF Events
<1>5. SubSeq(up[w], n + 1, Len(up[w])) \in Seq(Bytes)
  BY CutType DEF TypeOK
<1>6. up' \in [Workers -> Seq(Bytes)] /\ reader' \in [Workers -> Readers]
  BY <1>2, <1>3, <1>5 DEF TypeOK
<1>7. events' \in Seq(Events)
  BY <1>2, <1>4 DEF TypeOK
<1> QED
  BY <1>6, <1>7 DEF TypeOK, WorkerReads, server, ends

LEMMA HasReadType ==
  ASSUME TypeOK, NEW c \in Clients, NEW w \in Workers, NEW n \in 1 .. Len(down[w]),
         ClientHasRead(c, w, n), leftover' \in [Clients -> BOOLEAN]
  PROVE  TypeOK'
<1> DEFINE r == onReadyRead_helper(received[c], SubSeq(down[w], 1, n))
<1>0. r \in Reading
  <2>1. received[c] \in Readers /\ down[w] \in Seq(Bytes)
    BY DEF TypeOK
  <2> QED
    BY <2>1, PieceType
<1> HIDE DEF r
<1>1. /\ received' = [received EXCEPT ![c] = Reader(r)]
      /\ down' = [down EXCEPT ![w] = SubSeq(@, n + 1, Len(@))]
      /\ posted' = [posted EXCEPT ![c] = @ \o r.emitted]
  BY DEF ClientHasRead, r
<1>2. Reader(r) \in Readers /\ r.emitted \in Seq(Messages \cup {Garbled})
  BY <1>0, ReadingType
<1>3. SubSeq(down[w], n + 1, Len(down[w])) \in Seq(Bytes)
  BY CutType DEF TypeOK
<1>4. down' \in [Workers -> Seq(Bytes)] /\ received' \in [Clients -> Readers]
  BY <1>1, <1>2, <1>3 DEF TypeOK
<1>5. posted' \in [Clients -> Seq(Messages \cup {Garbled})]
  BY <1>1, <1>2 DEF TypeOK
<1> QED
  BY <1>4, <1>5 DEF TypeOK, ClientHasRead, server

LEMMA ClientReadsType ==
  ASSUME TypeOK, NEW c \in Clients, ClientReads(c) \/ ClientReadsLate(c)
  PROVE  TypeOK'
<1>1. CASE ClientReads(c)
  BY <1>1, HasReadType DEF ClientReads, TypeOK
<1>2. CASE ClientReadsLate(c)
  BY <1>2, HasReadType DEF ClientReadsLate, TypeOK
<1> QED
  BY <1>1, <1>2

LEMMA HandlesType ==
  ASSUME TypeOK, NEW m \in Messages \cup {Garbled},
         IF m = Garbled THEN UNCHANGED got ELSE Handles(m)
  PROVE  got' \in [Links -> Seq(1 .. MaxSent)]
<1>1. CASE m = Garbled
  BY <1>1 DEF TypeOK
<1>2. CASE m # Garbled
  <2>1. m[1] \in Links /\ m[2] \in 1 .. MaxSent
    BY <1>2, NotGarbled
  <2>2. got[m[1]] \in Seq(1 .. MaxSent)
    BY <2>1 DEF TypeOK
  <2>3. Append(got[m[1]], m[2]) \in Seq(1 .. MaxSent)
    BY <2>1, <2>2
  <2> QED
    BY <1>2, <2>1, <2>3 DEF TypeOK, Handles
<1> QED
  BY <1>1, <1>2

LEMMA ClientHandlesType == ASSUME TypeOK, NEW c \in Clients, ClientHandles(c) PROVE TypeOK'
<1>1. posted[c] \in Seq(Messages \cup {Garbled}) /\ posted[c] # <<>>
  BY DEF TypeOK, ClientHandles
<1>2. Head(posted[c]) \in Messages \cup {Garbled} /\ Tail(posted[c]) \in Seq(Messages \cup {Garbled})
  BY <1>1, TailType
<1>3. got' \in [Links -> Seq(1 .. MaxSent)]
  BY <1>2, HandlesType DEF ClientHandles
<1> QED
  BY <1>2, <1>3 DEF TypeOK, ClientHandles, server, wires, ends

LEMMA EventType ==
  ASSUME TypeOK, events # <<>>
  PROVE  /\ Tail(events) \in Seq(Events) /\ Head(events) \in Events
         /\ Head(events).from \in Workers
         /\ Head(events).type = "message" => Head(events).message \in Messages \cup {Garbled}
<1>1. events \in Seq(Events)
  BY DEF TypeOK
<1>2. Tail(events) \in Seq(Events) /\ Head(events) \in Events
  BY <1>1, TailType
<1> QED
  BY <1>2 DEF Events

LEMMA ServerHandlesType == ASSUME TypeOK, ServerHandles PROVE TypeOK'
<1>1. Tail(events) \in Seq(Events) /\ Head(events).message \in Messages \cup {Garbled}
  BY EventType DEF ServerHandles
<1>2. got' \in [Links -> Seq(1 .. MaxSent)]
  BY <1>1, HandlesType DEF ServerHandles
<1> QED
  BY <1>1, <1>2 DEF TypeOK, ServerHandles, server, wires, ends

LEMMA LosesType ==
  ASSUME TypeOK, NEW c \in Clients, conn[c] # 0, ClientLoses(c), up' \in [Workers -> Seq(Bytes)]
  PROVE  TypeOK'
<1>1. conn[c] \in Workers
  BY DEF TypeOK
<1>2. PICK n \in 0 .. Len(down[conn[c]]) : down' = [down EXCEPT ![conn[c]] = SubSeq(@, 1, n)]
  BY DEF ClientLoses
<1>3. SubSeq(down[conn[c]], 1, n) \in Seq(Bytes)
  BY <1>1, CutType DEF TypeOK
<1>4. down' \in [Workers -> Seq(Bytes)]
  BY <1>1, <1>2, <1>3 DEF TypeOK
<1>5. Empty \in Readers
  BY DEF Empty, Readers
<1> QED
  BY <1>1, <1>4, <1>5 DEF TypeOK, ClientLoses, server

LEMMA EndsType ==
  ASSUME TypeOK, NEW c \in Clients, disconnectFromHost(c) \/ ConnectionDrops(c)
  PROVE  TypeOK'
<1>1. CASE disconnectFromHost(c)
  BY <1>1, LosesType DEF disconnectFromHost, TypeOK
<1>2. CASE ConnectionDrops(c)
  <2>1. conn[c] \in Workers
    BY <1>2 DEF TypeOK, ConnectionDrops
  <2>2. PICK n \in 0 .. Len(up[conn[c]]) : up' = [up EXCEPT ![conn[c]] = SubSeq(@, 1, n)]
    BY <1>2 DEF ConnectionDrops
  <2>3. SubSeq(up[conn[c]], 1, n) \in Seq(Bytes)
    BY <2>1, CutType DEF TypeOK
  <2>4. up' \in [Workers -> Seq(Bytes)]
    BY <2>1, <2>2, <2>3 DEF TypeOK
  <2> QED
    BY <1>2, <2>4, LosesType DEF ConnectionDrops
<1> QED
  BY <1>1, <1>2

LEMMA WorkerEndsType == ASSUME TypeOK, NEW w \in Workers, WorkerDisconnected(w) PROVE TypeOK'
<1>1. [type |-> "disconnected", from |-> w] \in Events
  BY DEF Events
<1>2. events' \in Seq(Events)
  BY <1>1 DEF TypeOK, WorkerDisconnected
<1> QED
  BY <1>2 DEF TypeOK, WorkerDisconnected, wires, ends

LEMMA UserEndsType == ASSUME TypeOK, userDisconnected PROVE TypeOK'
<1>1. Tail(events) \in Seq(Events) /\ Head(events).from \in Workers
  BY EventType DEF userDisconnected
<1> DEFINE t == threadIdx[Head(events).from]
<1>2. m_threadsLoad' \in Seq(Int) /\ Len(m_threadsLoad') <= m_idealThreadCount
  <2>1. /\ m_threadsLoad \in [1 .. Len(m_threadsLoad) -> Int] /\ Len(m_threadsLoad) \in Nat
        /\ m_threadsLoad \in Seq(Int) /\ Len(m_threadsLoad) <= m_idealThreadCount
    BY DEF TypeOK
  <2>2. m_threadsLoad' = [m_threadsLoad EXCEPT ![t] = @ - 1]
    BY DEF userDisconnected
  <2>3. m_threadsLoad' = [i \in 1 .. Len(m_threadsLoad) |->
                             IF i = t THEN m_threadsLoad[i] - 1 ELSE m_threadsLoad[i]]
    BY <2>1, <2>2, Zenon
  <2>4. \A i \in 1 .. Len(m_threadsLoad) : m_threadsLoad[i] \in Int
    BY <2>1
  <2>5. m_threadsLoad' \in [1 .. Len(m_threadsLoad) -> Int]
    BY <2>3, <2>4
  <2> QED
    BY <2>1, <2>5
<1>3. events' \in Seq(Events) /\ worker' \in [Workers -> {"connected", "gone", "none", "deleted"}]
  BY <1>1 DEF TypeOK, userDisconnected
<1> QED
  BY <1>2, <1>3 DEF TypeOK, userDisconnected, wires, ends

LEMMA NextType == TypeOK /\ [Next]_vars => TypeOK'
<1> SUFFICES ASSUME TypeOK, [Next]_vars PROVE TypeOK'
  OBVIOUS
<1>1. CASE incomingConnection \/ ConnectionRefused \/ ServerHandles \/ userDisconnected
  BY <1>1, IncomingType, RefusedType, ServerHandlesType, UserEndsType
<1>2. ASSUME NEW c \in Clients, ClientNext(c) PROVE TypeOK'
  BY <1>2, ConnectType, ClientSendsType, ClientReadsType, ClientHandlesType, EndsType DEF ClientNext
<1>3. ASSUME NEW w \in Workers, WorkerNext(w) PROVE TypeOK'
  BY <1>3, ServerSendsType, WorkerReadsType, WorkerEndsType DEF WorkerNext
<1>4. CASE UNCHANGED vars
  BY <1>4 DEF vars, server, wires, ends, TypeOK
<1> QED
  BY <1>1, <1>2, <1>3, <1>4 DEF Next

\* Every variable keeps its type, for any pool of threads and any frames.
THEOREM TypesKept == Spec => []TypeOK
BY InitType, NextType, PTL DEF Spec

-----------------------------------------------------------------------------
(***************************************************************************)
(* The end of a worker.  Its invariant is inductive with the types: a      *)
(* worker reads as long as it is connected, and its end is in the queue    *)
(* only after that.                                                        *)
(***************************************************************************)

LEMMA ReadsEnd ==
  ASSUME TypeOK, EndIsLast, NEW w \in Workers, WorkerReads(w)
  PROVE  EndIsLast'
<1>1. PICK n \in 1 .. Len(up[w]) :
        LET r == onReadyRead_helper(reader[w], SubSeq(up[w], 1, n))
        IN  /\ reader' = [reader EXCEPT ![w] = Reader(r)]
            /\ up' = [up EXCEPT ![w] = SubSeq(@, n + 1, Len(@))]
            /\ events' = events \o [k \in DOMAIN r.emitted |-> [type |-> "message", from |-> w, message |-> r.emitted[k]]]
  BY DEF WorkerReads
<1> DEFINE r == onReadyRead_helper(reader[w], SubSeq(up[w], 1, n))
           told == [k \in DOMAIN r.emitted |-> [type |-> "message", from |-> w, message |-> r.emitted[k]]]
<1>0. r \in Reading
  <2>1. reader[w] \in Readers /\ up[w] \in Seq(Bytes)
    BY DEF TypeOK
  <2> QED
    BY <2>1, PieceType
<1> HIDE DEF r
<1>2. r.emitted \in Seq(Messages \cup {Garbled}) /\ events' = events \o told
  BY <1>0, <1>1, ReadingType DEF r
<1>3. told \in Seq(Events) /\ \A k \in DOMAIN told : told[k].type = "message" /\ told[k].from = w
  BY <1>2 DEF Events
<1> HIDE DEF told
<1>4. worker[w] = "connected" /\ worker' = worker /\ events \in Seq(Events)
  BY DEF WorkerReads, server, TypeOK
<1>5. /\ DOMAIN events' = 1 .. Len(events) + Len(told)
      /\ \A i \in DOMAIN events : events'[i] = events[i]
      /\ \A i \in DOMAIN events' : i \notin DOMAIN events => events'[i].type = "message" /\ events'[i].from = w
  <2>1. \A i \in DOMAIN events' : i \notin DOMAIN events => i - Len(events) \in DOMAIN told
                                                     /\ events'[i] = told[i - Len(events)]
    BY <1>2, <1>3, <1>4
  <2> QED
    BY <2>1, <1>2, <1>3, <1>4
<1> QED
  BY <1>4, <1>5 DEF EndIsLast

LEMMA TailEnd ==
  ASSUME TypeOK, EndIsLast, events # <<>>, events' = Tail(events)
  PROVE  /\ DOMAIN events' = 1 .. Len(events) - 1
         /\ \A i \in DOMAIN events' : i + 1 \in DOMAIN events /\ events'[i] = events[i + 1]
         /\ 1 \in DOMAIN events /\ Head(events) = events[1]
BY DEF TypeOK

LEMMA ServerHandlesEnd == ASSUME TypeOK, EndIsLast, ServerHandles PROVE EndIsLast'
<1>1. worker' = worker
  BY DEF ServerHandles, server
<1> QED
  BY <1>1, TailEnd DEF EndIsLast, ServerHandles

LEMMA UserEnd == ASSUME TypeOK, EndIsLast, userDisconnected PROVE EndIsLast'
<1> DEFINE w == Head(events).from
<1>1. /\ w \in Workers /\ events # <<>> /\ events' = Tail(events)
      /\ worker' = [worker EXCEPT ![w] = "deleted"]
  BY EventType DEF userDisconnected
<1>2. \A i \in DOMAIN events : i > 1 => events[i].from # w
  BY <1>1, TailEnd DEF EndIsLast, userDisconnected
<1>3. \A i \in DOMAIN events' : events'[i].from # w
  BY <1>1, <1>2, TailEnd
<1>4. \A i \in DOMAIN events' : worker'[events'[i].from] = worker[events'[i].from]
  BY <1>1, <1>3 DEF TypeOK
<1> QED
  BY <1>1, <1>4, TailEnd DEF EndIsLast

LEMMA WorkerEnd ==
  ASSUME TypeOK, EndIsLast, NEW w \in Workers, WorkerDisconnected(w)
  PROVE  EndIsLast'
<1>1. /\ events \in Seq(Events) /\ worker[w] = "connected"
      /\ worker' = [worker EXCEPT ![w] = "gone"]
      /\ events' = Append(events, [type |-> "disconnected", from |-> w])
  BY DEF TypeOK, WorkerDisconnected
<1>2. /\ DOMAIN events' = 1 .. Len(events) + 1
      /\ \A i \in DOMAIN events : events'[i] = events[i]
      /\ events'[Len(events) + 1] = [type |-> "disconnected", from |-> w]
  BY <1>1
<1>3. \A v \in Workers : worker'[v] = IF v = w THEN "gone" ELSE worker[v]
  BY <1>1 DEF TypeOK
<1>4. \A i \in DOMAIN events : events[i].from \in Workers
  BY <1>1 DEF Events
<1>5. \A i \in DOMAIN events : events[i].type = "disconnected" => events[i].from # w
  BY <1>1 DEF EndIsLast
<1> QED
  BY <1>1, <1>2, <1>3, <1>4, <1>5 DEF EndIsLast

LEMMA IncomingEnd == ASSUME TypeOK, EndIsLast, incomingConnection PROVE EndIsLast'
<1>1. PICK w \in Workers, t \in 1 .. Len(m_threadsLoad) + 1 :
        worker[w] = "none" /\ Accepts(w, Head(backlog), t)
  BY DEF incomingConnection
<1>2. events' = events
  BY DEF incomingConnection
<1>3. \A i \in DOMAIN events : events[i].from # w
  BY <1>1 DEF EndIsLast
<1>4. \A i \in DOMAIN events : worker'[events[i].from] = worker[events[i].from]
  <2>1. worker' = [worker EXCEPT ![w] = "connected"] /\ DOMAIN worker = Workers
    BY <1>1 DEF Accepts, TypeOK
  <2>2. \A i \in DOMAIN events : events[i].from \in Workers
    <3>1. events \in Seq(Events)
      BY DEF TypeOK
    <3> QED
      BY <3>1 DEF Events
  <2> QED
    BY <1>3, <2>1, <2>2
<1> QED
  BY <1>2, <1>4 DEF EndIsLast

\* The other actions change neither the workers nor the queue of the server.
LEMMA OthersKeep ==
  ASSUME \/ ConnectionRefused
         \/ \E c \in Clients : ClientNext(c)
         \/ \E w \in Workers : ServerSends(w)
         \/ UNCHANGED vars
  PROVE  worker' = worker /\ events' = events /\ threadIdx' = threadIdx /\ m_threadsLoad' = m_threadsLoad
<1>1. CASE ConnectionRefused \/ UNCHANGED vars
  BY <1>1 DEF ConnectionRefused, server, vars
<1>2. ASSUME NEW c \in Clients, connectToServer(c) \/ ClientSends(c) \/ ClientReads(c) \/ ClientReadsLate(c)
      PROVE  UNCHANGED <<worker, events, threadIdx, m_threadsLoad>>
  BY <1>2 DEF connectToServer, ClientSends, ClientReads, ClientReadsLate, ClientHasRead, server
<1>3. ASSUME NEW c \in Clients, ClientHandles(c) \/ disconnectFromHost(c) \/ ConnectionDrops(c)
      PROVE  UNCHANGED <<worker, events, threadIdx, m_threadsLoad>>
  BY <1>3 DEF ClientHandles, disconnectFromHost, ConnectionDrops, ClientLoses, server
<1>4. ASSUME NEW w \in Workers, ServerSends(w) PROVE UNCHANGED <<worker, events, threadIdx, m_threadsLoad>>
  BY <1>4 DEF ServerSends, server
<1> QED
  BY <1>1, <1>2, <1>3, <1>4 DEF ClientNext

\* The end of a worker is the last the server hears of it.
THEOREM EndIsLastHolds == Spec => []EndIsLast
<1>1. Init => EndIsLast
  BY DEF Init, EndIsLast
<1>2. TypeOK /\ EndIsLast /\ [Next]_vars => EndIsLast'
  <2> SUFFICES ASSUME TypeOK, EndIsLast, [Next]_vars PROVE EndIsLast'
    OBVIOUS
  <2>1. CASE incomingConnection
    BY <2>1, IncomingEnd
  <2>2. CASE ServerHandles
    BY <2>2, ServerHandlesEnd
  <2>3. CASE userDisconnected
    BY <2>3, UserEnd
  <2>4. ASSUME NEW w \in Workers, WorkerReads(w) \/ WorkerDisconnected(w) PROVE EndIsLast'
    BY <2>4, ReadsEnd, WorkerEnd
  <2>5. CASE \/ ConnectionRefused
             \/ \E c \in Clients : ClientNext(c)
             \/ \E w \in Workers : ServerSends(w)
             \/ UNCHANGED vars
    BY <2>5, OthersKeep DEF EndIsLast
  <2> QED
    BY <2>1, <2>2, <2>3, <2>4, <2>5 DEF Next, WorkerNext
<1> QED
  BY <1>1, <1>2, TypesKept, PTL DEF Spec

-----------------------------------------------------------------------------
(***************************************************************************)
(* The pool of threads.  The count of a thread is right because a worker   *)
(* keeps the thread it was given, which was started, and is counted off    *)
(* once: its end is handled once.                                          *)
(***************************************************************************)

ThreadsStarted ==
  \A w \in Workers : worker[w] # "none" => threadIdx[w] \in DOMAIN m_threadsLoad

PoolInv == TypeOK /\ EndIsLast /\ ThreadsStarted /\ LoadsMatch

InThread(t) == {w \in Served : threadIdx[w] = t}

LEMMA ThreadFinite ==
  ASSUME NEW t
  PROVE  IsFiniteSet(InThread(t)) /\ LoadOf(t) = Cardinality(InThread(t)) /\ LoadOf(t) \in Nat
<1>1. IsFiniteSet(Workers)
  BY FS_Interval, BoundsAssumption DEF Workers
<1>2. InThread(t) \subseteq Workers
  BY DEF InThread, Served
<1>3. IsFiniteSet(InThread(t))
  BY <1>1, <1>2, FS_Subset
<1> QED
  BY <1>3, FS_CardinalityType DEF LoadOf, InThread

\* A worker that comes is one more in its thread; the others are as they were.
LEMMA AcceptedLoads ==
  ASSUME TypeOK, NEW w \in Workers, NEW c, NEW t, worker[w] = "none", Accepts(w, c, t)
  PROVE  /\ LoadOf(t)' = LoadOf(t) + 1
         /\ \A o : o # t => LoadOf(o)' = LoadOf(o)
<1>1. Served' = Served \cup {w} /\ w \notin Served
  BY DEF TypeOK, Served, Accepts
<1>2. \A v \in Workers : threadIdx'[v] = IF v = w THEN t ELSE threadIdx[v]
  BY DEF TypeOK, Accepts
<1>3. InThread(t)' = InThread(t) \cup {w} /\ w \notin InThread(t)
  BY <1>1, <1>2 DEF InThread, Served
<1>4. LoadOf(t)' = Cardinality(InThread(t)')
  BY DEF LoadOf, InThread
<1>5. LoadOf(t)' = LoadOf(t) + 1
  BY <1>3, <1>4, ThreadFinite, FS_AddElement
<1>6. ASSUME NEW o, o # t PROVE LoadOf(o)' = LoadOf(o)
  <2>1. InThread(o)' = InThread(o)
    BY <1>1, <1>2, <1>6 DEF InThread, Served
  <2> QED
    BY <2>1 DEF LoadOf, InThread
<1> QED
  BY <1>5, <1>6

\* No worker is in a thread that was not started.
LEMMA NotStarted ==
  ASSUME ThreadsStarted, NEW t, t \notin DOMAIN m_threadsLoad
  PROVE  LoadOf(t) = 0
<1>1. InThread(t) = {}
  BY DEF InThread, ThreadsStarted, Served
<1> QED
  BY <1>1, ThreadFinite, FS_EmptySet

LEMMA IncomingPool == ASSUME PoolInv, incomingConnection PROVE ThreadsStarted' /\ LoadsMatch'
<1>1. PICK w \in Workers, t \in 1 .. Len(m_threadsLoad) + 1 :
        worker[w] = "none" /\ Chosen(t) /\ Accepts(w, Head(backlog), t) /\ Counts(t)
  BY DEF incomingConnection
<1>2. LoadOf(t)' = LoadOf(t) + 1 /\ \A o : o # t => LoadOf(o)' = LoadOf(o)
  BY <1>1, AcceptedLoads DEF PoolInv
<1>3. /\ \A v \in Workers : worker'[v] = (IF v = w THEN "connected" ELSE worker[v])
                         /\ threadIdx'[v] = (IF v = w THEN t ELSE threadIdx[v])
      /\ m_threadsLoad \in Seq(Int)
  BY <1>1 DEF PoolInv, TypeOK, Accepts
<1>4. CASE t = Len(m_threadsLoad) + 1
  <2>1. m_threadsLoad' = Append(m_threadsLoad, 1)
    BY <1>1, <1>3, <1>4 DEF Counts
  <2>2. /\ DOMAIN m_threadsLoad' = DOMAIN m_threadsLoad \cup {t} /\ t \notin DOMAIN m_threadsLoad
        /\ m_threadsLoad'[t] = 1
        /\ \A o \in DOMAIN m_threadsLoad : m_threadsLoad'[o] = m_threadsLoad[o]
    BY <2>1, <1>3, <1>4
  <2>3. LoadOf(t) = 0
    BY <2>2, NotStarted DEF PoolInv
  <2>4. LoadsMatch'
    BY <1>2, <2>2, <2>3 DEF LoadsMatch, PoolInv
  <2> QED
    BY <1>3, <2>2, <2>4 DEF ThreadsStarted, PoolInv
<1>5. CASE t # Len(m_threadsLoad) + 1
  <2>1. t \in DOMAIN m_threadsLoad /\ m_threadsLoad' = [m_threadsLoad EXCEPT ![t] = @ + 1]
    BY <1>1, <1>3, <1>5 DEF Counts
  <2>2. LoadsMatch'
    BY <1>2, <2>1 DEF LoadsMatch, PoolInv
  <2> QED
    BY <1>3, <2>1, <2>2 DEF ThreadsStarted, PoolInv
<1> QED
  BY <1>4, <1>5

LEMMA LeftLoads ==
  ASSUME TypeOK, NEW w \in Workers, NEW t, threadIdx[w] = t, worker[w] = "gone",
         worker' = [worker EXCEPT ![w] = "deleted"], threadIdx' = threadIdx
  PROVE  /\ LoadOf(t)' = LoadOf(t) - 1
         /\ \A o : o # t => LoadOf(o)' = LoadOf(o)
<1>1. Served' = Served \ {w} /\ w \in Served
  BY DEF TypeOK, Served
<1>2. InThread(t)' = InThread(t) \ {w} /\ w \in InThread(t)
  BY <1>1 DEF InThread
<1>3. LoadOf(t)' = Cardinality(InThread(t)')
  BY DEF LoadOf, InThread
<1>4. LoadOf(t)' = LoadOf(t) - 1
  BY <1>2, <1>3, ThreadFinite, FS_RemoveElement
<1>5. ASSUME NEW o, o # t PROVE LoadOf(o)' = LoadOf(o)
  <2>1. InThread(o)' = InThread(o)
    BY <1>1, <1>5 DEF InThread
  <2> QED
    BY <2>1 DEF LoadOf, InThread
<1> QED
  BY <1>4, <1>5

LEMMA UserPool == ASSUME PoolInv, userDisconnected PROVE ThreadsStarted' /\ LoadsMatch'
<1>1. PICK w \in Workers : w = Head(events).from
  BY EventType DEF PoolInv, userDisconnected
<1>2. PICK t : t = threadIdx[w]
  OBVIOUS
<1>3. /\ worker' = [worker EXCEPT ![w] = "deleted"] /\ threadIdx' = threadIdx
      /\ m_threadsLoad' = [m_threadsLoad EXCEPT ![t] = @ - 1]
  BY <1>1, <1>2 DEF userDisconnected
<1>4. worker[w] = "gone"
  BY <1>1, TailEnd DEF PoolInv, EndIsLast, userDisconnected
<1>5. t \in DOMAIN m_threadsLoad /\ m_threadsLoad \in Seq(Int)
  BY <1>2, <1>4 DEF PoolInv, ThreadsStarted, TypeOK
<1>6. LoadOf(t)' = LoadOf(t) - 1 /\ \A o : o # t => LoadOf(o)' = LoadOf(o)
  BY <1>2, <1>3, <1>4, LeftLoads DEF PoolInv
<1>7. LoadsMatch'
  <2>1. DOMAIN m_threadsLoad' = DOMAIN m_threadsLoad
    BY <1>3, <1>5
  <2>2. ASSUME NEW o \in DOMAIN m_threadsLoad PROVE m_threadsLoad'[o] = LoadOf(o)'
    BY <1>3, <1>5, <1>6 DEF LoadsMatch, PoolInv
  <2> QED
    BY <2>1, <2>2 DEF LoadsMatch
<1>8. ThreadsStarted'
  <2>1. DOMAIN m_threadsLoad' = DOMAIN m_threadsLoad
    BY <1>3, <1>5
  <2>2. \A v \in Workers : worker'[v] # "none" => worker[v] # "none"
    BY <1>3, <1>4 DEF PoolInv, TypeOK
  <2> QED
    BY <1>3, <2>1, <2>2 DEF ThreadsStarted, PoolInv
<1> QED
  BY <1>7, <1>8

\* A worker that has lost its connection still counts.
LEMMA WorkerPool ==
  ASSUME PoolInv, NEW w \in Workers, WorkerReads(w) \/ WorkerDisconnected(w)
  PROVE  ThreadsStarted' /\ LoadsMatch'
<1>1. /\ threadIdx' = threadIdx /\ m_threadsLoad' = m_threadsLoad
      /\ worker' = worker \/ (worker[w] = "connected" /\ worker' = [worker EXCEPT ![w] = "gone"])
  BY DEF WorkerReads, WorkerDisconnected, server
<1>2. Served' = Served /\ \A v \in Workers : worker'[v] # "none" => worker[v] # "none"
  BY <1>1 DEF Served, PoolInv, TypeOK
<1> QED
  BY <1>1, <1>2 DEF ThreadsStarted, LoadsMatch, LoadOf, PoolInv

LEMMA OthersPool ==
  ASSUME PoolInv, worker' = worker, threadIdx' = threadIdx, m_threadsLoad' = m_threadsLoad
  PROVE  ThreadsStarted' /\ LoadsMatch'
BY DEF PoolInv, ThreadsStarted, LoadsMatch, LoadOf, Served

LEMMA PoolHolds == Spec => []PoolInv
<1>1. Init => ThreadsStarted /\ LoadsMatch
  BY DEF Init, ThreadsStarted, LoadsMatch
<1>2. PoolInv /\ [Next]_vars => (ThreadsStarted /\ LoadsMatch)'
  <2> SUFFICES ASSUME PoolInv, [Next]_vars PROVE ThreadsStarted' /\ LoadsMatch'
    OBVIOUS
  <2>1. CASE incomingConnection
    BY <2>1, IncomingPool
  <2>2. CASE userDisconnected
    BY <2>2, UserPool
  <2>3. ASSUME NEW w \in Workers, WorkerReads(w) \/ WorkerDisconnected(w) PROVE ThreadsStarted' /\ LoadsMatch'
    BY <2>3, WorkerPool
  <2>4. CASE ServerHandles
    BY <2>4, OthersPool DEF ServerHandles, server
  <2>5. CASE \/ ConnectionRefused
             \/ \E c \in Clients : ClientNext(c)
             \/ \E w \in Workers : ServerSends(w)
             \/ UNCHANGED vars
    BY <2>5, OthersKeep, OthersPool
  <2> QED
    BY <2>1, <2>2, <2>3, <2>4, <2>5 DEF Next, WorkerNext
<1> QED
  BY <1>1, <1>2, TypesKept, EndIsLastHolds, PTL DEF Spec, PoolInv

\* The load of a thread is the number of its workers.
THEOREM LoadsMatchHolds == Spec => []LoadsMatch
BY PoolHolds, PTL DEF PoolInv

\* A new worker goes to a thread than which no other has fewer workers.
LEMMA StepPlaces ==
  PoolInv /\ [Next]_vars =>
    [\A w \in Workers : worker[w] = "none" /\ worker'[w] # "none" =>
       \A t \in Threads : LoadOf(threadIdx'[w]) <= LoadOf(t)]_vars
<1> SUFFICES ASSUME PoolInv, [Next]_vars, NEW w \in Workers, worker[w] = "none", worker'[w] # "none",
                    NEW o \in Threads
             PROVE  LoadOf(threadIdx'[w]) <= LoadOf(o)
  OBVIOUS
<1>1. incomingConnection
  <2>1. CASE ServerHandles \/ \E v \in Workers : WorkerReads(v)
    BY <2>1 DEF ServerHandles, WorkerReads, server
  <2>2. CASE userDisconnected
    <3>1. worker[Head(events).from] = "gone"
      BY <2>2, TailEnd DEF PoolInv, EndIsLast, userDisconnected
    <3> QED
      BY <2>2, <3>1 DEF userDisconnected, PoolInv, TypeOK
  <2>3. CASE \E v \in Workers : WorkerDisconnected(v)
    BY <2>3 DEF WorkerDisconnected, PoolInv, TypeOK
  <2>4. CASE \/ ConnectionRefused
             \/ \E c \in Clients : ClientNext(c)
             \/ \E v \in Workers : ServerSends(v)
             \/ UNCHANGED vars
    BY <2>4, OthersKeep
  <2> QED
    BY <2>1, <2>2, <2>3, <2>4 DEF Next, WorkerNext
<1>2. PICK v \in Workers, t \in 1 .. Len(m_threadsLoad) + 1 :
        Chosen(t) /\ Accepts(v, Head(backlog), t)
  BY <1>1 DEF incomingConnection
<1>3. v = w /\ threadIdx'[w] = t
  BY <1>2 DEF Accepts, PoolInv, TypeOK
<1>4. LoadOf(o) \in Nat
  BY ThreadFinite
<1>5. CASE MayStart
  <2>1. t \notin DOMAIN m_threadsLoad
    BY <1>2, <1>5 DEF Chosen, PoolInv, TypeOK
  <2> QED
    BY <1>3, <1>4, <2>1, NotStarted DEF PoolInv
<1>6. CASE ~MayStart
  <2>1. DOMAIN m_threadsLoad = Threads /\ m_threadsLoad \in Seq(Int)
    BY <1>6, ThreadsAssumption DEF MayStart, PoolInv, TypeOK, Threads
  <2>2. t \in DOMAIN m_threadsLoad /\ m_threadsLoad[t] <= m_threadsLoad[o]
    BY <1>2, <1>6, <2>1 DEF Chosen
  <2> QED
    BY <1>3, <2>1, <2>2 DEF LoadsMatch, PoolInv
<1> QED
  BY <1>5, <1>6

THEOREM PlacedOnLeastHolds == Spec => PlacedOnLeast
BY PoolHolds, StepPlaces, PTL DEF Spec, PlacedOnLeast

-----------------------------------------------------------------------------
(***************************************************************************)
(* The invariant: what is on its way over each link, from the bytes to the *)
(* queue of the program, is the stream of its messages.                    *)
(***************************************************************************)

\* The messages in the queue of the server.
Said == [i \in DOMAIN events |-> IF events[i].type = "message" THEN events[i].message ELSE Garbled]

Linked(w) == worker[w] # "none" /\ conn[client[w]] = w
UpMode(w) == IF Linked(w) THEN "on" ELSE "late"
DownMode(w) == IF Linked(w) THEN "on" ELSE IF past[client[w]] = w THEN "late" ELSE "over"

\* The clients and their connections.
Ties ==
  /\ \A w \in Workers : worker[w] # "none" => client[w] \in Clients
  /\ \A c \in Clients : \A w \in {conn[c], past[c]} \ {0} : worker[w] # "none" /\ client[w] = c
  /\ \A c \in Clients : conn[c] # 0 => past[c] = 0
  /\ \A i \in DOMAIN backlog : conn[backlog[i]] = 0 /\ past[backlog[i]] = 0
  /\ \A i, k \in DOMAIN backlog : i # k => backlog[i] # backlog[k]

\* A connection that was not made yet is unused.
Unused ==
  \A w \in Workers : worker[w] = "none" =>
    /\ up[w] = <<>> /\ down[w] = <<>> /\ reader[w] = Empty /\ w \notin spoiled
    /\ \A l \in {Up(w), Down(w)} : sent[l] = 0 /\ got[l] = <<>>

Upwards ==
  \A w \in Workers : Coming(UpMode(w), reader[w], up[w], Said, Up(w), sent[Up(w)], Len(got[Up(w)]))

DownwardsOf(w, c, l) ==
  IF w \in spoiled THEN Spoilt(DownMode(w), received[c], down[w], l, sent[l])
  ELSE Coming(DownMode(w), received[c], down[w], posted[c], l, sent[l], Len(got[l]))
Downwards == \A w \in Workers : worker[w] # "none" => DownwardsOf(w, client[w], Down(w))

\* What a client holds when it begins a connection.
Leftovers ==
  \A c \in Clients : conn[c] = 0 =>
    /\ \A l \in Links : Harmless(received[c], l)
    /\ ~leftover[c] => received[c] = Empty

\* A message is only in the queue of the program at the end of its link.
Addressed ==
  /\ \A i \in DOMAIN events : events[i].type = "message" /\ events[i].message # Garbled =>
       events[i].message[1] = Up(events[i].from)
  /\ \A c \in Clients : \A i \in DOMAIN posted[c] : posted[c][i] # Garbled =>
       \E w \in Workers : posted[c][i][1] = Down(w) /\ worker[w] # "none" /\ client[w] = c

ChannelInv == Ties /\ Unused /\ Upwards /\ Downwards /\ Leftovers /\ Addressed

LEMMA LinkNames ==
  /\ \A w \in Workers : Up(w) \in Links /\ Down(w) \in Links /\ w # 0
  /\ \A w, v : Up(w) # Down(v) /\ (Up(w) = Up(v) => w = v) /\ (Down(w) = Down(v) => w = v)
  /\ \A w : Up(w)[1] = "up" /\ Down(w)[1] = "down" /\ Up(w)[2] = w /\ Down(w)[2] = w
BY BoundsAssumption DEF Links, Up, Down, Workers

\* What the types say of a worker and of a client.
LEMMA WorkerTypes ==
  ASSUME TypeOK, NEW w \in Workers
  PROVE  /\ reader[w] \in Readers /\ up[w] \in Seq(Bytes) /\ down[w] \in Seq(Bytes)
         /\ conn[client[w]] = w => w # 0
         /\ \A l \in {Up(w), Down(w)} :
              sent[l] \in Nat /\ got[l] \in Seq(1 .. MaxSent) /\ Len(got[l]) \in Nat
<1>1. \A l \in {Up(w), Down(w)} : l \in Links
  BY LinkNames
<1>2. ASSUME NEW l \in Links PROVE sent[l] \in Nat /\ got[l] \in Seq(1 .. MaxSent) /\ Len(got[l]) \in Nat
  <2>1. sent[l] \in 0 .. MaxSent /\ got[l] \in Seq(1 .. MaxSent) /\ MaxSent \in Nat
    BY BoundsAssumption DEF TypeOK
  <2> QED
    BY <2>1
<1> QED
  BY <1>1, <1>2, LinkNames DEF TypeOK

LEMMA ClientTypes ==
  ASSUME TypeOK, NEW c \in Clients
  PROVE  /\ received[c] \in Readers /\ posted[c] \in Seq(Messages \cup {Garbled})
         /\ conn[c] \in {0} \cup Workers /\ past[c] \in {0} \cup Workers
BY DEF TypeOK

LEMMA SaidType ==
  ASSUME TypeOK
  PROVE  Said \in Seq(Messages \cup {Garbled}) /\ DOMAIN Said = DOMAIN events
<1>1. events \in Seq(Events) /\ DOMAIN events = 1 .. Len(events) /\ Len(events) \in Nat
  BY DEF TypeOK
<1>2. ASSUME NEW i \in DOMAIN events
      PROVE  (IF events[i].type = "message" THEN events[i].message ELSE Garbled) \in Messages \cup {Garbled}
  <2>1. events[i] \in Events
    BY <1>1
  <2> QED
    BY <2>1 DEF Events
<1>3. Said \in [1 .. Len(events) -> Messages \cup {Garbled}]
  BY <1>1, <1>2 DEF Said
<1> QED
  BY <1>1, <1>3

-----------------------------------------------------------------------------
(***************************************************************************)
(* Connections come.                                                       *)
(***************************************************************************)

\* A mode that changes only by being over.
LEMMA DownOver ==
  ASSUME NEW w, NEW c, NEW l, DownwardsOf(w, c, l), DownMode(w)' = "over",
         UNCHANGED <<spoiled, posted, sent, got>>
  PROVE  DownwardsOf(w, c, l)'
BY ComingOver DEF DownwardsOf, Spoilt

LEMMA ConnectKeeps ==
  ASSUME TypeOK, ChannelInv, NEW c \in Clients, connectToServer(c)
  PROVE  ChannelInv'
<1>1. /\ UNCHANGED <<server, events, wires, reader, conn, received, leftover, spoiled, posted, sent, got>>
      /\ UNCHANGED <<worker, client, up, down, Said>>
      /\ conn[c] = 0 /\ \A i \in DOMAIN backlog : backlog[i] # c
      /\ backlog' = Append(backlog, c) /\ backlog \in Seq(Clients)
      /\ \A d \in Clients : past'[d] = IF d = c THEN 0 ELSE past[d]
  BY DEF connectToServer, server, wires, TypeOK, Said, ToSet
<1>2. Ties'
  <2>1. \A w \in Workers : worker'[w] # "none" => client'[w] \in Clients
    BY <1>1 DEF ChannelInv, Ties
  <2>2. \A d \in Clients : \A w \in {conn'[d], past'[d]} \ {0} : worker'[w] # "none" /\ client'[w] = d
    BY <1>1 DEF ChannelInv, Ties
  <2>3. \A d \in Clients : conn'[d] # 0 => past'[d] = 0
    BY <1>1 DEF ChannelInv, Ties
  <2>4. \A i \in DOMAIN backlog' : /\ i \in DOMAIN backlog \/ i = Len(backlog) + 1
                                   /\ backlog'[i] = (IF i \in DOMAIN backlog THEN backlog[i] ELSE c)
                                   /\ backlog'[i] \in Clients
    BY <1>1
  <2>5. \A i \in DOMAIN backlog' : conn'[backlog'[i]] = 0 /\ past'[backlog'[i]] = 0
    BY <1>1, <2>4 DEF ChannelInv, Ties
  <2>6. \A i, k \in DOMAIN backlog' : i # k => backlog'[i] # backlog'[k]
    BY <1>1, <2>4 DEF ChannelInv, Ties
  <2> QED
    BY <2>1, <2>2, <2>3, <2>5, <2>6 DEF Ties
<1>3. Unused'
  BY <1>1 DEF ChannelInv, Unused
<1>4. Upwards'
  BY <1>1 DEF ChannelInv, Upwards, UpMode, Linked
<1>5. Downwards'
  <2> SUFFICES ASSUME NEW w \in Workers, worker[w] # "none"
               PROVE  DownwardsOf(w, client[w], Down(w))'
    BY <1>1 DEF Downwards
  <2>1. DownwardsOf(w, client[w], Down(w)) /\ client[w] \in Clients
    BY DEF ChannelInv, Downwards, Ties
  <2>2. CASE DownMode(w)' = DownMode(w)
    BY <1>1, <2>1, <2>2 DEF DownwardsOf
  <2>3. CASE DownMode(w)' # DownMode(w)
    <3>1. DownMode(w)' = "over"
      BY <1>1, <2>1, <2>3 DEF DownMode, Linked
    <3> QED
      BY <1>1, <2>1, <3>1, DownOver
  <2> QED
    BY <2>2, <2>3
<1>6. Leftovers' /\ Addressed'
  BY <1>1 DEF ChannelInv, Leftovers, Addressed
<1> QED
  BY <1>2, <1>3, <1>4, <1>5, <1>6 DEF ChannelInv

LEMMA RefusedKeeps ==
  ASSUME TypeOK, ChannelInv, ConnectionRefused
  PROVE  ChannelInv'
<1>1. /\ UNCHANGED <<server, events, wires, reader, ends, posted, sent, got, Said>>
      /\ backlog # <<>> /\ backlog' = Tail(backlog) /\ backlog \in Seq(Clients)
  BY DEF ConnectionRefused, TypeOK, Said
<1>2. \A i \in DOMAIN backlog' : i + 1 \in DOMAIN backlog /\ backlog'[i] = backlog[i + 1] /\ i \in Nat
  BY <1>1
<1>3. Ties'
  <2>1. \A i, k \in DOMAIN backlog' : i # k => backlog'[i] # backlog'[k]
    <3> SUFFICES ASSUME NEW i \in DOMAIN backlog', NEW k \in DOMAIN backlog', i # k
                 PROVE  backlog'[i] # backlog'[k]
      OBVIOUS
    <3>1. i + 1 # k + 1 /\ i + 1 \in DOMAIN backlog /\ k + 1 \in DOMAIN backlog
      BY <1>2
    <3> QED
      BY <1>2, <3>1 DEF ChannelInv, Ties
  <2> QED
    BY <1>1, <1>2, <2>1 DEF ChannelInv, Ties, server, ends
<1>4. Unused' /\ Leftovers' /\ Addressed'
  BY <1>1 DEF ChannelInv, Unused, Leftovers, Addressed, server, ends, wires
<1>5. Upwards' /\ Downwards'
  BY <1>1 DEF ChannelInv, Upwards, Downwards, DownwardsOf, UpMode, DownMode, Linked, server, ends, wires
<1> QED
  BY <1>3, <1>4, <1>5 DEF ChannelInv

\* No message of a connection that was not made is in a queue.
LEMMA NonePosted ==
  ASSUME TypeOK, ChannelInv, NEW c \in Clients, NEW w \in Workers, worker[w] = "none"
  PROVE  \A i \in DOMAIN posted[c] : posted[c][i] # Garbled => posted[c][i][1] # Down(w)
BY LinkNames DEF ChannelInv, Addressed

LEMMA IncomingKeeps ==
  ASSUME TypeOK, ChannelInv, incomingConnection
  PROVE  ChannelInv'
<1>1. PICK w \in Workers, t \in 1 .. Len(m_threadsLoad) + 1 : worker[w] = "none" /\ Accepts(w, Head(backlog), t)
  BY DEF incomingConnection
<1>2. PICK c : c = Head(backlog)
  OBVIOUS
<1>3. /\ UNCHANGED <<events, up, down, reader, past, received, leftover, posted, sent, got, Said>>
      /\ backlog # <<>> /\ backlog' = Tail(backlog) /\ backlog \in Seq(Clients)
  BY DEF incomingConnection, wires, TypeOK, Said
<1>4. /\ c \in Clients /\ c = backlog[1] /\ 1 \in DOMAIN backlog
      /\ \A i \in DOMAIN backlog' : i + 1 \in DOMAIN backlog /\ backlog'[i] = backlog[i + 1] /\ i \in Nat /\ i + 1 # 1
                                 /\ backlog'[i] \in Clients
  BY <1>2, <1>3
<1>5. /\ \A v \in Workers : worker'[v] = (IF v = w THEN "connected" ELSE worker[v])
                         /\ client'[v] = (IF v = w THEN c ELSE client[v])
      /\ \A d \in Clients : conn'[d] = IF d = c THEN w ELSE conn[d]
      /\ spoiled' = IF leftover[c] THEN spoiled \cup {w} ELSE spoiled
  BY <1>1, <1>2, <1>4 DEF Accepts, TypeOK
<1>6. conn[c] = 0 /\ past[c] = 0
  BY <1>4 DEF ChannelInv, Ties
<1>7. /\ up[w] = <<>> /\ down[w] = <<>> /\ reader[w] = Empty /\ w \notin spoiled
      /\ sent[Up(w)] = 0 /\ got[Up(w)] = <<>> /\ sent[Down(w)] = 0 /\ got[Down(w)] = <<>>
  BY <1>1 DEF ChannelInv, Unused
<1>8. /\ Linked(w)' /\ ~Linked(w)
      /\ \A v \in Workers : v # w =>
           /\ (Linked(v)' <=> Linked(v))
           /\ worker[v] # "none" => client[v] \in Clients /\ client'[v] = client[v] /\ DownMode(v)' = DownMode(v)
  <2>1. Linked(w)' /\ ~Linked(w)
    BY <1>1, <1>4, <1>5 DEF Linked
  <2>2. ASSUME NEW v \in Workers, v # w
        PROVE  /\ (Linked(v)' <=> Linked(v))
               /\ worker[v] # "none" => client[v] \in Clients /\ client'[v] = client[v] /\ DownMode(v)' = DownMode(v)
    <3>1. worker[v] # "none" => client[v] \in Clients
      BY DEF ChannelInv, Ties
    <3>2. v # 0
      BY LinkNames
    <3>3. Linked(v)' <=> Linked(v)
      BY <1>5, <1>6, <2>2, <3>1, <3>2 DEF Linked
    <3> QED
      BY <1>3, <1>5, <2>2, <3>1, <3>3 DEF DownMode
  <2> QED
    BY <2>1, <2>2
<1>9. Ties'
  <2>1. \A v \in Workers : worker'[v] # "none" => client'[v] \in Clients
    BY <1>4, <1>5 DEF ChannelInv, Ties
  <2>2. \A d \in Clients : \A v \in {conn'[d], past'[d]} \ {0} : worker'[v] # "none" /\ client'[v] = d
    <3> SUFFICES ASSUME NEW d \in Clients, NEW v \in {conn'[d], past'[d]} \ {0}
                 PROVE  worker'[v] # "none" /\ client'[v] = d
      OBVIOUS
    <3>1. CASE v = w /\ d = c
      BY <1>5, <3>1
    <3>2. CASE ~(v = w /\ d = c)
      <4>1. v \in {conn[d], past[d]} \ {0}
        BY <1>3, <1>5, <1>6, <3>2
      <4>2. v \in Workers /\ worker[v] # "none" /\ client[v] = d
        BY <4>1, ClientTypes DEF ChannelInv, Ties
      <4>3. v # w
        BY <1>1, <4>2
      <4> QED
        BY <1>5, <4>2, <4>3
    <3> QED
      BY <3>1, <3>2
  <2>3. \A d \in Clients : conn'[d] # 0 => past'[d] = 0
    BY <1>3, <1>5, <1>6 DEF ChannelInv, Ties
  <2>4. \A i \in DOMAIN backlog' : conn'[backlog'[i]] = 0 /\ past'[backlog'[i]] = 0
    <3> SUFFICES ASSUME NEW i \in DOMAIN backlog' PROVE conn'[backlog'[i]] = 0 /\ past'[backlog'[i]] = 0
      OBVIOUS
    <3>1. i + 1 \in DOMAIN backlog /\ backlog'[i] = backlog[i + 1] /\ i + 1 # 1 /\ backlog'[i] \in Clients
      BY <1>4
    <3>2. backlog[i + 1] # c /\ conn[backlog[i + 1]] = 0 /\ past[backlog[i + 1]] = 0
      BY <1>4, <3>1 DEF ChannelInv, Ties
    <3> QED
      BY <1>3, <1>5, <3>1, <3>2
  <2>5. \A i, k \in DOMAIN backlog' : i # k => backlog'[i] # backlog'[k]
    <3> SUFFICES ASSUME NEW i \in DOMAIN backlog', NEW k \in DOMAIN backlog', i # k
                 PROVE  backlog'[i] # backlog'[k]
      OBVIOUS
    <3>1. i + 1 # k + 1 /\ i + 1 \in DOMAIN backlog /\ k + 1 \in DOMAIN backlog
      BY <1>4
    <3> QED
      BY <1>4, <3>1 DEF ChannelInv, Ties
  <2> QED
    BY <2>1, <2>2, <2>3, <2>4, <2>5 DEF Ties
<1>10. Unused'
  BY <1>3, <1>5 DEF ChannelInv, Unused
<1>11. Upwards'
  <2> SUFFICES ASSUME NEW v \in Workers
               PROVE  Coming(UpMode(v), reader[v], up[v], Said, Up(v), sent[Up(v)], Len(got[Up(v)]))'
    BY DEF Upwards
  <2>1. Coming(UpMode(v), reader[v], up[v], Said, Up(v), sent[Up(v)], Len(got[Up(v)]))
    BY DEF ChannelInv, Upwards
  <2>2. CASE v # w
    BY <1>3, <1>8, <2>1, <2>2 DEF UpMode
  <2>3. CASE v = w
    <3>1. Coming("late", Empty, <<>>, Said, Up(w), 0, 0)
      BY <1>7, <1>8, <2>1, <2>3 DEF UpMode
    <3>2. Coming("on", Empty, <<>>, Said, Up(w), 0, 0)
      BY <3>1, ComingAnew
    <3> QED
      BY <1>3, <1>7, <1>8, <2>3, <3>2 DEF UpMode
  <2> QED
    BY <2>2, <2>3
<1>12. Downwards'
  <2> SUFFICES ASSUME NEW v \in Workers, worker'[v] # "none"
               PROVE  DownwardsOf(v, client[v], Down(v))'
    BY DEF Downwards
  <2>1. CASE v # w
    <3>1. worker[v] # "none" /\ client'[v] = client[v] /\ DownMode(v)' = DownMode(v) /\ (v \in spoiled' <=> v \in spoiled)
      BY <1>5, <1>8, <2>1
    <3>2. DownwardsOf(v, client[v], Down(v))
      BY <3>1 DEF ChannelInv, Downwards
    <3> QED
      BY <1>3, <3>1, <3>2 DEF DownwardsOf
  <2>2. CASE v = w /\ leftover[c]
    <3>1. Harmless(received[c], Down(w))
      BY <1>4, <1>6, LinkNames DEF ChannelInv, Leftovers
    <3>2. Spoilt("on", received[c], <<>>, Down(w), 0)
      BY <3>1 DEF Spoilt, Stream, Ends
    <3>3. client'[v] = c /\ v \in spoiled' /\ DownMode(v)' = "on"
      BY <1>5, <1>8, <2>2 DEF DownMode
    <3> QED
      BY <1>3, <1>7, <2>2, <3>2, <3>3 DEF DownwardsOf
  <2>3. CASE v = w /\ ~leftover[c]
    <3>1. received[c] = Empty
      BY <1>4, <1>6, <2>3 DEF ChannelInv, Leftovers
    <3>2. Coming("on", Empty, <<>>, posted[c], Down(w), 0, 0)
      BY <1>1, <1>4, NonePosted, ComingNew
    <3>3. client'[v] = c /\ v \notin spoiled' /\ DownMode(v)' = "on"
      BY <1>5, <1>7, <1>8, <2>3 DEF DownMode
    <3> QED
      BY <1>3, <1>7, <2>3, <3>1, <3>2, <3>3 DEF DownwardsOf
  <2> QED
    BY <2>1, <2>2, <2>3
<1>13. Leftovers'
  <2>1. \A d \in Clients : conn'[d] = 0 => conn[d] = 0
    BY <1>5, <1>6, LinkNames
  <2> QED
    BY <1>3, <2>1 DEF ChannelInv, Leftovers
<1>14. Addressed'
  <2>1. \A v \in Workers : \A d \in Clients : worker[v] # "none" /\ client[v] = d => worker'[v] # "none" /\ client'[v] = d
    BY <1>1, <1>5
  <2> QED
    BY <1>3, <2>1 DEF ChannelInv, Addressed
<1> QED
  BY <1>9, <1>10, <1>11, <1>12, <1>13, <1>14 DEF ChannelInv

-----------------------------------------------------------------------------
(***************************************************************************)
(* Messages are sent.                                                      *)
(***************************************************************************)

LEMMA ClientSendsKeeps ==
  ASSUME TypeOK, ChannelInv, NEW c \in Clients, ClientSends(c)
  PROVE  ChannelInv'
<1>1. PICK w, l, m, k : w = conn[c] /\ l = Up(w) /\ m = NextMessage(l) /\ k = sent[l] + 1
  OBVIOUS
<1>2. /\ UNCHANGED <<backlog, server, events, down, reader, ends, posted, got, Said>>
      /\ w # 0 /\ MaySend(l)
  BY <1>1 DEF ClientSends, Said
<1>3. w \in Workers /\ worker[w] # "none" /\ client[w] = c /\ Linked(w)
  BY <1>1, <1>2, ClientTypes DEF ChannelInv, Ties, Linked
<1>4. l \in Links /\ m \in Messages /\ m = <<l, k>> /\ sent[l] \in Nat /\ \A v \in Workers : Down(v) # l /\ (v # w => Up(v) # l)
  BY <1>1, <1>2, <1>3, LinkNames, WorkerTypes, MessageType DEF NextMessage
<1>5. /\ \A v \in Workers : up'[v] = IF v = w THEN up[w] \o Frame(m) ELSE up[v]
      /\ \A o \in Links : sent'[o] = IF o = l THEN k ELSE sent[o]
  <2>1. up' = [up EXCEPT ![w] = up[w] \o Frame(m)] /\ sent' = [sent EXCEPT ![l] = k]
    BY <1>1 DEF ClientSends, Sends
  <2> QED
    BY <1>4, <2>1 DEF TypeOK
<1>6. \A v \in Workers : sent'[Down(v)] = sent[Down(v)] /\ sent'[Up(v)] = IF v = w THEN k ELSE sent[Up(v)]
  BY <1>1, <1>4, <1>5, LinkNames
<1>7. Ties' /\ Leftovers' /\ Addressed'
  BY <1>2 DEF ChannelInv, Ties, Leftovers, Addressed, server, ends
<1>8. Unused'
  BY <1>2, <1>3, <1>5, <1>6 DEF ChannelInv, Unused, server, ends
<1>9. Upwards'
  <2> SUFFICES ASSUME NEW v \in Workers
               PROVE  Coming(UpMode(v), reader[v], up[v], Said, Up(v), sent[Up(v)], Len(got[Up(v)]))'
    BY DEF Upwards
  <2>1. Coming(UpMode(v), reader[v], up[v], Said, Up(v), sent[Up(v)], Len(got[Up(v)])) /\ UpMode(v)' = UpMode(v)
    BY <1>2 DEF ChannelInv, Upwards, UpMode, Linked, server, ends
  <2>2. CASE v # w
    BY <1>2, <1>5, <1>6, <2>1, <2>2
  <2>3. CASE v = w
    <3>1. Coming("on", reader[w], up[w], Said, l, sent[l], Len(got[l])) /\ UpMode(v)' = "on"
      BY <1>1, <1>3, <2>1, <2>3 DEF UpMode
    <3>2. reader[w] \in Readers /\ up[w] \in Seq(Bytes) /\ Len(got[l]) \in Nat
      BY <1>1, <1>3, WorkerTypes
    <3>3. Coming("on", reader[w], up[w] \o Frame(m), Said, l, k, Len(got[l]))
      BY <1>1, <1>4, <3>1, <3>2, ComingSent
    <3> QED
      BY <1>1, <1>2, <1>5, <1>6, <2>3, <3>1, <3>3
  <2> QED
    BY <2>2, <2>3
<1>10. Downwards'
  BY <1>2, <1>6 DEF ChannelInv, Downwards, DownwardsOf, DownMode, Linked, server, ends
<1> QED
  BY <1>7, <1>8, <1>9, <1>10 DEF ChannelInv

LEMMA ServerSendsKeeps ==
  ASSUME TypeOK, ChannelInv, NEW w \in Workers, ServerSends(w)
  PROVE  ChannelInv'
<1>1. PICK c, l, m, k : c = client[w] /\ l = Down(w) /\ m = NextMessage(l) /\ k = sent[l] + 1
  OBVIOUS
<1>2. /\ UNCHANGED <<backlog, server, events, up, reader, ends, posted, got, Said>>
      /\ worker[w] # "none" /\ MaySend(l)
  BY <1>1 DEF ServerSends, Served, Said
<1>3. c \in Clients /\ (Linked(w) <=> conn[c] = w)
  BY <1>1, <1>2 DEF ChannelInv, Ties, Linked
<1>4. l \in Links /\ m \in Messages /\ m = <<l, k>> /\ sent[l] \in Nat /\ \A v \in Workers : Up(v) # l /\ (v # w => Down(v) # l)
  BY <1>1, <1>2, LinkNames, WorkerTypes, MessageType DEF NextMessage
<1>5. /\ \A v \in Workers : down'[v] = IF v = w /\ Linked(w) THEN down[w] \o Frame(m) ELSE down[v]
      /\ \A o \in Links : sent'[o] = IF o = l THEN k ELSE sent[o]
  <2>1. sent' = [sent EXCEPT ![l] = k]
    BY <1>1 DEF ServerSends, Sends
  <2>2. down' = IF Linked(w) THEN [down EXCEPT ![w] = down[w] \o Frame(m)] ELSE down
    BY <1>1, <1>3 DEF ServerSends
  <2> QED
    BY <1>4, <2>1, <2>2 DEF TypeOK
<1>6. \A v \in Workers : sent'[Up(v)] = sent[Up(v)] /\ sent'[Down(v)] = IF v = w THEN k ELSE sent[Down(v)]
  BY <1>1, <1>4, <1>5, LinkNames
<1>7. Ties' /\ Leftovers' /\ Addressed'
  BY <1>2 DEF ChannelInv, Ties, Leftovers, Addressed, server, ends
<1>8. Unused'
  BY <1>2, <1>5, <1>6 DEF ChannelInv, Unused, server, ends
<1>9. Upwards'
  BY <1>2, <1>6 DEF ChannelInv, Upwards, UpMode, Linked, server, ends
<1>10. Downwards'
  <2> SUFFICES ASSUME NEW v \in Workers, worker'[v] # "none"
               PROVE  DownwardsOf(v, client[v], Down(v))'
    BY DEF Downwards
  <2>1. /\ DownwardsOf(v, client[v], Down(v)) /\ DownMode(v)' = DownMode(v)
        /\ UNCHANGED <<client, spoiled, received, posted, got>>
    BY <1>2 DEF ChannelInv, Downwards, DownMode, Linked, server, ends
  <2>2. CASE v # w
    BY <1>5, <1>6, <2>1, <2>2 DEF DownwardsOf
  <2>3. CASE v = w
    <3>1. /\ received[c] \in Readers /\ down[w] \in Seq(Bytes) /\ Len(got[l]) \in Nat
          /\ sent'[l] = k /\ down'[w] = IF Linked(w) THEN down[w] \o Frame(m) ELSE down[w]
      BY <1>1, <1>3, <1>5, <1>6, WorkerTypes, ClientTypes
    <3>2. DownwardsOf(w, c, l)
      BY <1>1, <2>1, <2>3
    <3>3. CASE w \in spoiled
      <4>1. Spoilt(DownMode(w), received[c], down[w], l, sent[l])
        BY <3>2, <3>3 DEF DownwardsOf
      <4>2. CASE Linked(w)
        <5>1. Stream(down[w], l, sent[l]) /\ Ends(down[w], l, sent[l]) /\ Harmless(received[c], l) /\ DownMode(w) = "on"
          BY <4>1, <4>2 DEF Spoilt, DownMode
        <5>2. PICK n, b : n = sent[l] /\ b = down[w]
          OBVIOUS
        <5>3. Stream(b \o Frame(m), l, k) /\ Ends(b \o Frame(m), l, k)
          <6>1. n \in Nat /\ k = n + 1 /\ m = <<l, n + 1>> /\ <<l, n + 1>> \in Messages
            BY <1>1, <1>4, <5>2
          <6> QED
            BY <5>1, <5>2, <6>1, StreamSent
        <5>4. Spoilt("on", received[c], down'[w], l, k)
          BY <3>1, <4>2, <5>1, <5>2, <5>3 DEF Spoilt
        <5> QED
          BY <1>1, <2>1, <2>3, <3>1, <3>3, <5>1, <5>4 DEF DownwardsOf
      <4>3. CASE ~Linked(w)
        <5>1. Spoilt(DownMode(w), received[c], down[w], l, k)
          BY <1>1, <1>4, <4>1, <4>3, TrailingMore DEF Spoilt, DownMode
        <5> QED
          BY <1>1, <2>1, <2>3, <3>1, <3>3, <4>3, <5>1 DEF DownwardsOf
      <4> QED
        BY <4>2, <4>3
    <3>4. CASE w \notin spoiled
      <4>1. Coming(DownMode(w), received[c], down[w], posted[c], l, sent[l], Len(got[l]))
        BY <3>2, <3>4 DEF DownwardsOf
      <4>2. CASE Linked(w)
        <5>1. DownMode(w) = "on"
          BY <4>2 DEF DownMode
        <5>2. Coming("on", received[c], down[w] \o Frame(m), posted[c], l, k, Len(got[l]))
          BY <1>1, <1>4, <3>1, <4>1, <5>1, ComingSent
        <5> QED
          BY <1>1, <2>1, <2>3, <3>1, <3>4, <4>2, <5>1, <5>2 DEF DownwardsOf
      <4>3. CASE ~Linked(w)
        <5>1. DownMode(w) \in {"late", "over"}
          BY <4>3 DEF DownMode
        <5>2. Coming(DownMode(w), received[c], down[w], posted[c], l, k, Len(got[l]))
          BY <1>1, <1>4, <3>1, <4>1, <5>1, ComingUnheard
        <5> QED
          BY <1>1, <2>1, <2>3, <3>1, <3>4, <4>3, <5>2 DEF DownwardsOf
      <4> QED
        BY <4>2, <4>3
    <3> QED
      BY <3>3, <3>4
  <2> QED
    BY <2>2, <2>3
<1> QED
  BY <1>7, <1>8, <1>9, <1>10 DEF ChannelInv

-----------------------------------------------------------------------------
(***************************************************************************)
(* Bytes are read.                                                         *)
(***************************************************************************)

LEMMA WorkerReadsKeeps ==
  ASSUME TypeOK, ChannelInv, NEW w \in Workers, WorkerReads(w)
  PROVE  ChannelInv'
<1>1. PICK n \in 1 .. Len(up[w]) :
        LET r == onReadyRead_helper(reader[w], SubSeq(up[w], 1, n))
        IN  /\ reader' = [reader EXCEPT ![w] = Reader(r)]
            /\ up' = [up EXCEPT ![w] = SubSeq(@, n + 1, Len(@))]
            /\ events' = events \o [k \in DOMAIN r.emitted |-> [type |-> "message", from |-> w, message |-> r.emitted[k]]]
  BY DEF WorkerReads
<1> DEFINE d == onReadyRead_helper(reader[w], SubSeq(up[w], 1, n))
           told == [k \in DOMAIN d.emitted |-> [type |-> "message", from |-> w, message |-> d.emitted[k]]]
           l == Up(w)
<1>2. /\ reader[w] \in Readers /\ up[w] \in Seq(Bytes) /\ sent[l] \in Nat /\ Len(got[l]) \in Nat
      /\ Said \in Seq(Messages \cup {Garbled}) /\ DOMAIN Said = DOMAIN events /\ events \in Seq(Events)
  BY WorkerTypes, SaidType DEF TypeOK
<1>3. Coming(UpMode(w), reader[w], up[w], Said, l, sent[l], Len(got[l])) /\ UpMode(w) \in {"on", "late"}
  BY DEF ChannelInv, Upwards, UpMode
<1>4. /\ Coming(UpMode(w), Reader(d), SubSeq(up[w], n + 1, Len(up[w])), Said \o d.emitted, l, sent[l], Len(got[l]))
      /\ Only(d.emitted, l)
  <2>1. MayRead(UpMode(w), reader[w], up[w], n, Said, l, sent[l], Len(got[l]))
    BY <1>2, <1>3 DEF MayRead
  <2> QED
    BY <2>1, ComingReads
<1>5. d.emitted \in Seq(Messages \cup {Garbled})
  BY <1>2, PieceType, ReadingType
<1> DEFINE rest == SubSeq(up[w], n + 1, Len(up[w]))
           e == d.emitted
<1>6. /\ UNCHANGED <<backlog, worker, client, down, ends, posted, sent, got>>
      /\ events' = events \o told
      /\ \A v \in Workers : reader'[v] = (IF v = w THEN Reader(d) ELSE reader[v])
                         /\ up'[v] = (IF v = w THEN rest ELSE up[v])
      /\ worker[w] # "none"
  <2>1. reader' = [reader EXCEPT ![w] = Reader(d)] /\ up' = [up EXCEPT ![w] = rest] /\ events' = events \o told
    BY <1>1
  <2>2. /\ UNCHANGED <<backlog, worker, client, down, ends, posted, sent, got>> /\ worker[w] # "none"
    BY DEF WorkerReads, server
  <2> HIDE DEF d, told, rest
  <2> QED
    BY <2>1, <2>2 DEF TypeOK
<1>7. /\ told \in Seq(Events) /\ Len(told) = Len(e) /\ DOMAIN told = DOMAIN e
      /\ \A i \in DOMAIN e : told[i].type = "message" /\ told[i].message = e[i] /\ told[i].from = w
  <2> HIDE DEF d
  <2> QED
    BY <1>5 DEF Events
<1> HIDE DEF d, told, rest, e
<1>8. /\ DOMAIN events' = 1 .. Len(events) + Len(told) /\ Len(events) \in Nat /\ Len(told) \in Nat
      /\ \A i \in DOMAIN events : i \in DOMAIN events' /\ events'[i] = events[i]
      /\ \A i \in DOMAIN events' : i \in DOMAIN events \/ (i - Len(events) \in DOMAIN told /\ events'[i] = told[i - Len(events)])
  <2>1. events \in Seq(Events) /\ told \in Seq(Events)
    BY <1>2, <1>7
  <2>2. /\ events' \in Seq(Events) /\ Len(events') = Len(events) + Len(told)
        /\ \A i \in DOMAIN events : i \in DOMAIN events' /\ events'[i] = events[i]
        /\ \A i \in DOMAIN events' : i \in DOMAIN events \/ (i - Len(events) \in DOMAIN told /\ events'[i] = told[i - Len(events)])
    BY <1>6, <2>1, Joined
  <2> QED
    BY <2>1, <2>2
<1>9. Said' = Said \o e
  <2>1. e \in Seq(Messages \cup {Garbled})
    BY <1>5 DEF e
  <2>2. Said' = [i \in DOMAIN events' |-> IF events'[i].type = "message" THEN events'[i].message ELSE Garbled]
    BY DEF Said
  <2>3. Len(Said) = Len(events)
    BY <1>2
  <2>4. /\ Said \o e \in Seq(Messages \cup {Garbled}) /\ Len(Said \o e) = Len(Said) + Len(e)
        /\ \A i \in DOMAIN (Said \o e) : /\ i \in DOMAIN Said => (Said \o e)[i] = Said[i]
                                        /\ i \notin DOMAIN Said => i - Len(Said) \in DOMAIN e /\ (Said \o e)[i] = e[i - Len(Said)]
    <3> DEFINE S == Messages \cup {Garbled}
               q == Said
    <3>1. q \in Seq(S) /\ e \in Seq(S)
      BY <1>2, <2>1
    <3> HIDE DEF S, q
    <3>2. /\ q \o e \in Seq(S) /\ Len(q \o e) = Len(q) + Len(e)
          /\ \A i \in DOMAIN q : i \in DOMAIN (q \o e) /\ (q \o e)[i] = q[i]
          /\ \A i \in DOMAIN (q \o e) : i \in DOMAIN q \/ (i - Len(q) \in DOMAIN e /\ (q \o e)[i] = e[i - Len(q)])
      BY <3>1, Joined
    <3> QED
      BY <3>2 DEF S, q
  <2> DEFINE t == Said \o e
  <2>5. DOMAIN t = 1 .. Len(events) + Len(told) /\ t \in Seq(Messages \cup {Garbled})
    BY <1>7, <2>3, <2>4
  <2>6. ASSUME NEW i \in DOMAIN events'
        PROVE  t[i] = IF events'[i].type = "message" THEN events'[i].message ELSE Garbled
    <3>1. i \in DOMAIN t
      BY <1>8, <2>5
    <3>2. CASE i \in DOMAIN events
      <4>1. t[i] = Said[i] /\ events'[i] = events[i]
        BY <1>2, <1>8, <2>4, <3>1, <3>2
      <4> QED
        BY <3>2, <4>1 DEF Said
    <3>3. CASE i \notin DOMAIN events
      <4>1. i - Len(events) \in DOMAIN e /\ t[i] = e[i - Len(events)]
        BY <1>2, <2>3, <2>4, <3>1, <3>3
      <4>2. events'[i] = told[i - Len(events)]
        BY <1>8, <3>3
      <4> QED
        BY <1>7, <4>1, <4>2
    <3> QED
      BY <3>2, <3>3
  <2> HIDE DEF t
  <2>7. t = [i \in DOMAIN t |-> t[i]]
    BY <2>5
  <2>8. Said' = t
    BY <1>8, <2>2, <2>5, <2>6, <2>7
  <2> QED
    BY <2>8 DEF t
<1>10. Ties' /\ Leftovers'
  BY <1>6 DEF ChannelInv, Ties, Leftovers, ends
<1>11. Unused'
  BY <1>6 DEF ChannelInv, Unused, ends
<1>12. Upwards'
  <2> SUFFICES ASSUME NEW v \in Workers
               PROVE  Coming(UpMode(v), reader[v], up[v], Said, Up(v), sent[Up(v)], Len(got[Up(v)]))'
    BY DEF Upwards
  <2>1. Coming(UpMode(v), reader[v], up[v], Said, Up(v), sent[Up(v)], Len(got[Up(v)])) /\ UpMode(v)' = UpMode(v)
    BY <1>6 DEF ChannelInv, Upwards, UpMode, Linked, ends
  <2>2. CASE v # w
    <3>1. \A i \in DOMAIN e : e[i] # Garbled => e[i][1] # Up(v)
      BY <1>4, <2>2, LinkNames DEF Only, e
    <3>2. Coming(UpMode(v), reader[v], up[v], Said \o e, Up(v), sent[Up(v)], Len(got[Up(v)]))
      <4>1. e \in Seq(Messages \cup {Garbled})
        BY <1>5 DEF e
      <4> QED
        BY <1>2, <2>1, <3>1, <4>1, ComingOthers
    <3> QED
      BY <1>6, <1>9, <2>1, <2>2, <3>2
  <2>3. CASE v = w
    <3>1. Coming(UpMode(w), Reader(d), rest, Said \o e, Up(w), sent[Up(w)], Len(got[Up(w)]))
      BY <1>4 DEF rest, e
    <3> QED
      BY <1>6, <1>9, <2>1, <2>3, <3>1
  <2> QED
    BY <2>2, <2>3
<1>13. Downwards'
  BY <1>6 DEF ChannelInv, Downwards, DownwardsOf, DownMode, Linked, ends
<1>14. Addressed'
  <2>1. ASSUME NEW i \in DOMAIN events', events'[i].type = "message", events'[i].message # Garbled
        PROVE  events'[i].message[1] = Up(events'[i].from)
    <3>1. CASE i \in DOMAIN events
      BY <1>8, <2>1, <3>1 DEF ChannelInv, Addressed
    <3>2. CASE i \notin DOMAIN events
      <4>1. i - Len(events) \in DOMAIN e /\ events'[i] = told[i - Len(events)]
        BY <1>7, <1>8, <3>2
      <4>2. events'[i].message = e[i - Len(events)] /\ events'[i].from = w
        BY <1>7, <4>1
      <4> QED
        BY <1>4, <2>1, <4>1, <4>2 DEF Only, e
    <3> QED
      BY <3>1, <3>2
  <2>2. \A c \in Clients : \A i \in DOMAIN posted'[c] : posted'[c][i] # Garbled =>
          \E v \in Workers : posted'[c][i][1] = Down(v) /\ worker'[v] # "none" /\ client'[v] = c
    BY <1>6 DEF ChannelInv, Addressed
  <2> QED
    BY <2>1, <2>2 DEF Addressed
<1> QED
  BY <1>10, <1>11, <1>12, <1>13, <1>14 DEF ChannelInv

LEMMA EndsCut ==
  ASSUME NEW b \in Seq(Bytes), NEW l, NEW n, Ends(b, l, n), NEW k \in 0 .. Len(b)
  PROVE  Ends(SubSeq(b, k + 1, Len(b)), l, n)
<1> DEFINE t == SubSeq(b, k + 1, Len(b))
<1>1. t \in Seq(Bytes) /\ Len(t) = Len(b) - k /\ \A i \in 1 .. Len(b) - k : t[i] = b[k + i]
  BY Cut
<1> HIDE DEF t
<1>2. t # <<>> => b # <<>> /\ t[Len(t)] = b[Len(b)]
  <2>1. t # <<>> => Len(t) \in 1 .. Len(b) - k /\ k + Len(t) = Len(b) /\ b # <<>>
    BY <1>1
  <2> QED
    BY <1>1, <2>1
<1>3. Ends(t, l, n)
  BY <1>2 DEF Ends
<1> QED
  BY <1>3 DEF t

LEMMA SpoiltReads ==
  ASSUME NEW s \in Readers, NEW u \in Seq(Bytes), NEW p \in 1 .. Len(u), NEW l, NEW n \in Nat,
         NEW mode \in {"on", "late"}, Spoilt(mode, s, u, l, n)
  PROVE  LET d == onReadyRead_helper(s, SubSeq(u, 1, p))
         IN  Spoilt(mode, Reader(d), SubSeq(u, p + 1, Len(u)), l, n) /\ Only(d.emitted, l)
<1> DEFINE d == onReadyRead_helper(s, SubSeq(u, 1, p))
           rest == SubSeq(u, p + 1, Len(u))
<1>1. CASE mode = "on"
  <2>1. Stream(u, l, n) /\ Ends(u, l, n) /\ Harmless(s, l) /\ p \in 0 .. Len(u)
    BY <1>1 DEF Spoilt
  <2>2. Harmless(Reader(d), l) /\ Only(d.emitted, l)
    BY <2>1, ReadingSpoiled
  <2>3. Stream(rest, l, n) /\ Ends(rest, l, n)
    BY <2>1, StreamCut, EndsCut
  <2> HIDE DEF d, rest
  <2> QED
    BY <1>1, <2>2, <2>3 DEF Spoilt, d, rest
<1>2. CASE mode = "late"
  <2>1. Trailing(s, u, l, n)
    BY <1>2 DEF Spoilt
  <2>2. Trailing(Reader(d), rest, l, n) /\ Only(d.emitted, l)
    BY <2>1, TrailingReads
  <2> HIDE DEF d, rest
  <2> QED
    BY <1>2, <2>2 DEF Spoilt, d, rest
<1> QED
  BY <1>1, <1>2

\* What comes to a client after a reading.
DownRead(w, c, l, d, rest) ==
  IF w \in spoiled THEN Spoilt(DownMode(w), Reader(d), rest, l, sent[l])
  ELSE Coming(DownMode(w), Reader(d), rest, posted[c] \o d.emitted, l, sent[l], Len(got[l]))

LEMMA DownReads ==
  ASSUME NEW w, NEW c, NEW l, NEW n \in 1 .. Len(down[w]), received[c] \in Readers, down[w] \in Seq(Bytes),
         posted[c] \in Seq(Messages \cup {Garbled}), sent[l] \in Nat, Len(got[l]) \in Nat,
         DownMode(w) \in {"on", "late"}, DownwardsOf(w, c, l)
  PROVE  LET d == onReadyRead_helper(received[c], SubSeq(down[w], 1, n))
         IN  Only(d.emitted, l) /\ DownRead(w, c, l, d, SubSeq(down[w], n + 1, Len(down[w])))
<1>1. CASE w \in spoiled
  <2>1. Spoilt(DownMode(w), received[c], down[w], l, sent[l])
    BY <1>1 DEF DownwardsOf
  <2> QED
    BY <1>1, <2>1, SpoiltReads DEF DownRead
<1>2. CASE w \notin spoiled
  <2>1. Coming(DownMode(w), received[c], down[w], posted[c], l, sent[l], Len(got[l]))
    BY <1>2 DEF DownwardsOf
  <2>2. MayRead(DownMode(w), received[c], down[w], n, posted[c], l, sent[l], Len(got[l]))
    BY <2>1 DEF MayRead
  <2> QED
    BY <1>2, <2>2, ComingReads DEF DownRead
<1> QED
  BY <1>1, <1>2

LEMMA HasReadKeeps ==
  ASSUME TypeOK, ChannelInv, NEW c \in Clients, NEW w \in Workers, NEW n \in 1 .. Len(down[w]),
         ClientHasRead(c, w, n),
         \/ w = conn[c] /\ UNCHANGED leftover
         \/ w = past[c] /\ leftover' = [leftover EXCEPT ![c] = received'[c] # Empty]
  PROVE  ChannelInv'
<1> DEFINE d == onReadyRead_helper(received[c], SubSeq(down[w], 1, n))
           rest == SubSeq(down[w], n + 1, Len(down[w]))
           e == d.emitted
           l == Down(w)
<1>1. w # 0 /\ worker[w] # "none" /\ client[w] = c
  BY LinkNames DEF ChannelInv, Ties
<1>2. /\ received[c] \in Readers /\ down[w] \in Seq(Bytes) /\ sent[l] \in Nat /\ Len(got[l]) \in Nat
      /\ posted[c] \in Seq(Messages \cup {Garbled}) /\ n \in 0 .. Len(down[w])
  BY WorkerTypes, ClientTypes
<1>3. d \in Reading /\ rest \in Seq(Bytes)
  BY <1>2, PieceType, CutType
<1>4. Reader(d) \in Readers /\ e \in Seq(Messages \cup {Garbled})
  BY <1>3, ReadingType
<1>5. DownwardsOf(w, c, l) /\ (Linked(w) <=> conn[c] = w) /\ (Linked(w) <=> conn[c] # 0) /\ (~Linked(w) => past[c] = w)
  BY <1>1 DEF ChannelInv, Downwards, Ties, Linked
<1>6. DownMode(w) = IF Linked(w) THEN "on" ELSE "late"
  BY <1>1, <1>5 DEF DownMode
<1>7. /\ Only(e, l)
      /\ IF w \in spoiled THEN Spoilt(DownMode(w), Reader(d), rest, l, sent[l])
         ELSE Coming(DownMode(w), Reader(d), rest, posted[c] \o e, l, sent[l], Len(got[l]))
      /\ ~Linked(w) => Trailing(Reader(d), rest, l, sent[l])
  <2>1. DownMode(w) \in {"on", "late"} /\ (~Linked(w) => DownMode(w) = "late")
    BY <1>6
  <2> HIDE DEF d, rest, l, e
  <2>2. Only(e, l) /\ DownRead(w, c, l, d, rest)
    BY <1>2, <1>5, <2>1, DownReads DEF d, rest, e
  <2> QED
    BY <2>1, <2>2 DEF DownRead, Coming, Spoilt, e
<1>8. /\ UNCHANGED <<backlog, server, events, up, reader, conn, past, spoiled, sent, got, Said>>
      /\ \A x \in Clients : received'[x] = (IF x = c THEN Reader(d) ELSE received[x])
                         /\ posted'[x] = (IF x = c THEN posted[c] \o e ELSE posted[x])
      /\ \A v \in Workers : down'[v] = IF v = w THEN rest ELSE down[v]
  <2>1. /\ received' = [received EXCEPT ![c] = Reader(d)] /\ posted' = [posted EXCEPT ![c] = posted[c] \o e]
        /\ down' = [down EXCEPT ![w] = rest]
    BY DEF ClientHasRead
  <2>2. UNCHANGED <<backlog, server, events, up, reader, conn, past, spoiled, sent, got, Said>>
    BY DEF ClientHasRead, Said
  <2> HIDE DEF d, e, rest
  <2> QED
    BY <2>1, <2>2 DEF TypeOK
<1> HIDE DEF d, e, rest
<1>9. Ties'
  BY <1>8 DEF ChannelInv, Ties, server
<1>10. Unused'
  BY <1>1, <1>8 DEF ChannelInv, Unused, server
<1>11. Upwards'
  BY <1>8 DEF ChannelInv, Upwards, UpMode, Linked, server
<1>12. Downwards'
  <2> SUFFICES ASSUME NEW v \in Workers, worker[v] # "none"
               PROVE  DownwardsOf(v, client[v], Down(v))'
    BY <1>8 DEF Downwards, server
  <2>1. /\ DownwardsOf(v, client[v], Down(v)) /\ client[v] \in Clients /\ DownMode(v)' = DownMode(v)
        /\ UNCHANGED <<client, spoiled, sent, got>>
    BY <1>8 DEF ChannelInv, Downwards, DownMode, Linked, Ties, server
  <2>2. CASE v = w
    BY <1>1, <1>7, <1>8, <2>1, <2>2 DEF DownwardsOf, l
  <2>3. CASE v # w /\ client[v] # c
    BY <1>8, <2>1, <2>3 DEF DownwardsOf
  <2>4. CASE v # w /\ client[v] = c
    <3>1. DownMode(v) = "over"
      <4>1. v # 0 /\ conn[c] # v /\ past[c] # v
        BY <1>1, <1>5, <2>4, LinkNames DEF ChannelInv, Ties
      <4> QED
        BY <2>4, <4>1 DEF DownMode, Linked
    <3>2. CASE v \in spoiled
      BY <2>1, <3>1, <3>2 DEF DownwardsOf, Spoilt
    <3>3. CASE v \notin spoiled
      <4>1. Coming("over", received[c], down[v], posted[c], Down(v), sent[Down(v)], Len(got[Down(v)]))
        BY <2>1, <2>4, <3>1, <3>3 DEF DownwardsOf
      <4>2. \A i \in DOMAIN e : e[i] # Garbled => e[i][1] # Down(v)
        BY <1>7, <2>4, LinkNames DEF Only
      <4>3. e \in Seq(Messages \cup {Garbled})
        BY <1>4
      <4>4. Coming("over", received[c], down[v], posted[c] \o e, Down(v), sent[Down(v)], Len(got[Down(v)]))
        BY <1>2, <4>1, <4>2, <4>3, ComingOthers
      <4>5. Coming("over", Reader(d), down[v], posted[c] \o e, Down(v), sent[Down(v)], Len(got[Down(v)]))
        BY <4>4, ComingOver
      <4> QED
        BY <1>8, <2>1, <2>4, <3>1, <3>3, <4>5 DEF DownwardsOf
    <3> QED
      BY <3>2, <3>3
  <2> QED
    BY <2>2, <2>3, <2>4
<1>13. Leftovers'
  <2> SUFFICES ASSUME NEW x \in Clients, conn[x] = 0
               PROVE  (\A o \in Links : Harmless(received'[x], o)) /\ (~leftover'[x] => received'[x] = Empty)
    BY <1>8 DEF Leftovers
  <2>1. CASE x # c
    BY <1>8, <2>1 DEF ChannelInv, Leftovers, TypeOK
  <2>2. CASE x = c
    <3>1. ~Linked(w) /\ w = past[c]
      BY <1>5, <2>2
    <3>2. leftover' = [leftover EXCEPT ![c] = received'[c] # Empty]
      BY <1>1, <2>2
    <3>3. \A o : Harmless(Reader(d), o)
      <4>1. Trailing(Reader(d), rest, l, sent[l])
        BY <1>7, <3>1
      <4>2. Reader(d).received \in Seq(Bytes)
        BY <1>4 DEF Readers
      <4> QED
        BY <1>3, <4>1, <4>2, WaitsHarmless DEF Trailing
    <3> QED
      BY <1>8, <2>2, <3>2, <3>3 DEF TypeOK
  <2> QED
    BY <2>1, <2>2
<1>14. Addressed'
  <2>1. \A i \in DOMAIN events' : events'[i].type = "message" /\ events'[i].message # Garbled =>
          events'[i].message[1] = Up(events'[i].from)
    BY <1>8 DEF ChannelInv, Addressed
  <2>2. ASSUME NEW x \in Clients, NEW i \in DOMAIN posted'[x], posted'[x][i] # Garbled
        PROVE  \E v \in Workers : posted'[x][i][1] = Down(v) /\ worker[v] # "none" /\ client[v] = x
    <3>1. CASE x # c \/ (x = c /\ i \in DOMAIN posted[c] /\ posted'[x][i] = posted[c][i])
      BY <1>8, <2>2, <3>1 DEF ChannelInv, Addressed
    <3>2. CASE x = c /\ i - Len(posted[c]) \in DOMAIN e /\ posted'[x][i] = e[i - Len(posted[c])]
      <4>1. posted'[x][i][1] = Down(w)
        BY <1>7, <2>2, <3>2 DEF Only, l
      <4> QED
        BY <1>1, <3>2, <4>1
    <3>3. x = c => \/ i \in DOMAIN posted[c] /\ posted'[x][i] = posted[c][i]
                   \/ i - Len(posted[c]) \in DOMAIN e /\ posted'[x][i] = e[i - Len(posted[c])]
      <4> DEFINE S == Messages \cup {Garbled}
                 q == posted[c]
      <4>1. q \in Seq(S) /\ e \in Seq(S)
        BY <1>2, <1>4
      <4>2. x = c => posted'[x] = q \o e
        BY <1>8
      <4> HIDE DEF S, q
      <4>3. \A k \in DOMAIN (q \o e) :
              \/ k \in DOMAIN q /\ (q \o e)[k] = q[k]
              \/ k - Len(q) \in DOMAIN e /\ (q \o e)[k] = e[k - Len(q)]
        BY <4>1, Joined
      <4> QED
        BY <4>2, <4>3 DEF q
    <3> QED
      BY <3>1, <3>2, <3>3
  <2>3. UNCHANGED <<worker, client>>
    BY <1>8 DEF server
  <2> QED
    BY <2>1, <2>2, <2>3 DEF Addressed
<1> QED
  BY <1>9, <1>10, <1>11, <1>12, <1>13, <1>14 DEF ChannelInv

LEMMA ClientReadsKeeps ==
  ASSUME TypeOK, ChannelInv, NEW c \in Clients, ClientReads(c) \/ ClientReadsLate(c)
  PROVE  ChannelInv'
<1>1. CASE ClientReads(c)
  <2>1. conn[c] \in Workers
    BY <1>1, ClientTypes DEF ClientReads
  <2> QED
    BY <1>1, <2>1, HasReadKeeps DEF ClientReads
<1>2. CASE ClientReadsLate(c)
  <2>1. past[c] \in Workers
    BY <1>2, ClientTypes DEF ClientReadsLate
  <2> QED
    BY <1>2, <2>1, HasReadKeeps DEF ClientReadsLate
<1> QED
  BY <1>1, <1>2

-----------------------------------------------------------------------------
(***************************************************************************)
(* Messages are handled.                                                   *)
(***************************************************************************)

\* The first message of a queue is taken out of it, and handled.
Taken(q) == IF Head(q) = Garbled THEN UNCHANGED got ELSE Handles(Head(q))

LEMMA TakenGot ==
  ASSUME TypeOK, NEW q \in Seq(Messages \cup {Garbled}), q # <<>>, Taken(q), NEW o \in Links
  PROVE  IF Head(q) # Garbled /\ Head(q)[1] = o THEN got'[o] = Append(got[o], Head(q)[2]) ELSE got'[o] = got[o]
<1>1. CASE Head(q) = Garbled
  BY <1>1 DEF Taken
<1>2. CASE Head(q) # Garbled
  <2>1. PICK m : m = Head(q)
    OBVIOUS
  <2>2. got' = [got EXCEPT ![m[1]] = Append(got[m[1]], m[2])]
    BY <1>2, <2>1 DEF Taken, Handles
  <2>3. got \in [Links -> Seq(1 .. MaxSent)]
    BY DEF TypeOK
  <2> QED
    BY <1>2, <2>1, <2>2, <2>3
<1> QED
  BY <1>1, <1>2

LEMMA ComingTaken ==
  ASSUME TypeOK, NEW q \in Seq(Messages \cup {Garbled}), q # <<>>, Taken(q), NEW o \in Links,
         NEW s, NEW u, NEW mode, Coming(mode, s, u, q, o, sent[o], Len(got[o]))
  PROVE  Coming(mode, s, u, Tail(q), o, sent[o], Len(got'[o]))
<1>1. PICK h, n, a : h = Head(q) /\ n = sent[o] /\ a = Len(got[o])
  OBVIOUS
<1>2. n \in Nat /\ a \in Nat /\ got[o] \in Seq(1 .. MaxSent)
  <2>1. sent[o] \in 0 .. MaxSent /\ got[o] \in Seq(1 .. MaxSent) /\ MaxSent \in Nat
    BY BoundsAssumption DEF TypeOK
  <2> QED
    BY <1>1, <2>1
<1>3. /\ h # Garbled /\ h[1] = o => h[2] = a + 1 /\ a + 1 <= n /\ Coming(mode, s, u, Tail(q), o, n, a + 1)
      /\ h = Garbled \/ h[1] # o => Coming(mode, s, u, Tail(q), o, n, a)
  <2>1. n \in Nat /\ a \in Nat /\ Coming(mode, s, u, q, o, n, a)
    BY <1>1, <1>2
  <2>2. /\ Head(q) # Garbled /\ Head(q)[1] = o =>
             Head(q)[2] = a + 1 /\ a + 1 <= n /\ Coming(mode, s, u, Tail(q), o, n, a + 1)
        /\ Head(q) = Garbled \/ Head(q)[1] # o => Coming(mode, s, u, Tail(q), o, n, a)
    BY <2>1, ComingHandled
  <2> QED
    BY <1>1, <2>2
<1>4. IF h # Garbled /\ h[1] = o THEN got'[o] = Append(got[o], h[2]) ELSE got'[o] = got[o]
  BY <1>1, TakenGot
<1>5. h # Garbled /\ h[1] = o => Len(got'[o]) = a + 1
  BY <1>1, <1>2, <1>4
<1> QED
  BY <1>1, <1>3, <1>4, <1>5

LEMMA QueueTail ==
  ASSUME NEW S, NEW q \in Seq(S), q # <<>>
  PROVE  /\ 1 \in DOMAIN q /\ Head(q) = q[1]
         /\ \A i \in DOMAIN Tail(q) : i + 1 \in DOMAIN q /\ Tail(q)[i] = q[i + 1]
OBVIOUS

LEMMA ClientHandlesKeeps ==
  ASSUME TypeOK, ChannelInv, NEW c \in Clients, ClientHandles(c)
  PROVE  ChannelInv'
<1>1. PICK q : q = posted[c]
  OBVIOUS
<1>2. /\ UNCHANGED <<backlog, server, events, wires, reader, ends, sent, Said>>
      /\ q \in Seq(Messages \cup {Garbled}) /\ q # <<>> /\ Taken(q)
      /\ \A x \in Clients : posted'[x] = IF x = c THEN Tail(q) ELSE posted[x]
  BY <1>1 DEF ClientHandles, Taken, Said, TypeOK
<1>3. Head(q) # Garbled => \E v \in Workers : Head(q)[1] = Down(v) /\ worker[v] # "none" /\ client[v] = c
  <2>1. 1 \in DOMAIN q /\ Head(q) = q[1]
    BY <1>2, QueueTail
  <2> QED
    BY <1>1, <2>1 DEF ChannelInv, Addressed
<1>4. /\ \A v \in Workers : got'[Up(v)] = got[Up(v)]
      /\ \A v \in Workers : worker[v] = "none" \/ client[v] # c => got'[Down(v)] = got[Down(v)]
  BY <1>2, <1>3, TakenGot, LinkNames
<1>5. Ties' /\ Leftovers'
  BY <1>2 DEF ChannelInv, Ties, Leftovers, server, ends
<1>6. Unused'
  BY <1>2, <1>4 DEF ChannelInv, Unused, server, ends, wires
<1>7. Upwards'
  BY <1>2, <1>4 DEF ChannelInv, Upwards, UpMode, Linked, server, ends, wires
<1>8. Downwards'
  <2> SUFFICES ASSUME NEW v \in Workers, worker[v] # "none"
               PROVE  DownwardsOf(v, client[v], Down(v))'
    BY <1>2 DEF Downwards, server
  <2>1. /\ DownwardsOf(v, client[v], Down(v)) /\ client[v] \in Clients /\ DownMode(v)' = DownMode(v)
        /\ UNCHANGED <<client, spoiled, received, down, sent>>
    BY <1>2 DEF ChannelInv, Downwards, DownMode, Linked, Ties, server, ends, wires
  <2>2. CASE v \in spoiled
    BY <2>1, <2>2 DEF DownwardsOf
  <2>3. CASE v \notin spoiled /\ client[v] # c
    BY <1>2, <1>4, <2>1, <2>3 DEF DownwardsOf
  <2>4. CASE v \notin spoiled /\ client[v] = c
    <3>1. Coming(DownMode(v), received[c], down[v], q, Down(v), sent[Down(v)], Len(got[Down(v)]))
      BY <1>1, <2>1, <2>4 DEF DownwardsOf
    <3>2. Coming(DownMode(v), received[c], down[v], Tail(q), Down(v), sent[Down(v)], Len(got'[Down(v)]))
      BY <1>2, <3>1, LinkNames, ComingTaken
    <3> QED
      BY <1>2, <2>1, <2>4, <3>2 DEF DownwardsOf
  <2> QED
    BY <2>2, <2>3, <2>4
<1>9. Addressed'
  <2>1. ASSUME NEW x \in Clients, NEW i \in DOMAIN posted'[x], posted'[x][i] # Garbled
        PROVE  \E v \in Workers : posted'[x][i][1] = Down(v) /\ worker[v] # "none" /\ client[v] = x
    <3>1. CASE x # c
      BY <1>2, <2>1, <3>1 DEF ChannelInv, Addressed
    <3>2. CASE x = c
      <4>1. i + 1 \in DOMAIN q /\ posted'[x][i] = q[i + 1]
        BY <1>2, <2>1, <3>2, QueueTail
      <4> QED
        BY <1>1, <2>1, <3>2, <4>1 DEF ChannelInv, Addressed
    <3> QED
      BY <3>1, <3>2
  <2> QED
    BY <1>2, <2>1 DEF ChannelInv, Addressed, server
<1> QED
  BY <1>5, <1>6, <1>7, <1>8, <1>9 DEF ChannelInv

LEMMA TailIs == ASSUME NEW S, NEW q \in Seq(S), q # <<>> PROVE Tail(q) = [i \in 1 .. Len(q) - 1 |-> q[i + 1]]
<1> DEFINE t == Tail(q)
<1>1. t \in Seq(S) /\ Len(t) = Len(q) - 1 /\ \A i \in 1 .. Len(q) - 1 : t[i] = q[i + 1]
  OBVIOUS
<1> HIDE DEF t
<1>2. DOMAIN t = 1 .. Len(q) - 1 /\ t = [i \in DOMAIN t |-> t[i]]
  BY <1>1
<1>3. t = [i \in 1 .. Len(q) - 1 |-> q[i + 1]]
  BY <1>1, <1>2
<1> QED
  BY <1>3 DEF t

\* The queue of the server without its first event.
LEMMA SaidTail ==
  ASSUME TypeOK, events # <<>>, events' = Tail(events)
  PROVE  /\ Said' = Tail(Said) /\ Said # <<>>
         /\ Head(Said) = IF Head(events).type = "message" THEN Head(events).message ELSE Garbled
         /\ \A i \in DOMAIN events' : i + 1 \in DOMAIN events /\ events'[i] = events[i + 1]
<1>1. PICK q : q = Said
  OBVIOUS
<1>2. /\ q \in Seq(Messages \cup {Garbled}) /\ DOMAIN q = DOMAIN events /\ events \in Seq(Events)
      /\ \A i \in DOMAIN events : q[i] = IF events[i].type = "message" THEN events[i].message ELSE Garbled
  <2>1. \A i \in DOMAIN events : q[i] = IF events[i].type = "message" THEN events[i].message ELSE Garbled
    BY <1>1 DEF Said
  <2> QED
    BY <1>1, <2>1, SaidType DEF TypeOK
<1>3. DOMAIN events' = 1 .. Len(events) - 1 /\ Len(q) = Len(events) /\ Len(q) \in Nat /\ q # <<>>
  BY <1>2
<1>4. \A i \in DOMAIN events' : i + 1 \in DOMAIN events /\ events'[i] = events[i + 1]
  BY <1>2
<1>5. 1 \in DOMAIN events /\ Head(events) = events[1] /\ Head(q) = q[1]
  BY <1>2, <1>3
<1>6. Said' = Tail(q)
  <2>1. Said' = [i \in DOMAIN events' |-> IF events'[i].type = "message" THEN events'[i].message ELSE Garbled]
    BY DEF Said
  <2>2. Tail(q) = [i \in 1 .. Len(q) - 1 |-> q[i + 1]]
    BY <1>2, <1>3, TailIs
  <2> QED
    BY <1>2, <1>3, <1>4, <2>1, <2>2
<1> QED
  BY <1>1, <1>2, <1>3, <1>4, <1>5, <1>6

LEMMA EventTaken ==
  ASSUME TypeOK, EndIsLast, ChannelInv, events # <<>>, events' = Tail(events),
         Taken(Said), UNCHANGED <<backlog, client, wires, reader, ends, posted, sent>>,
         \A w \in Workers : worker'[w] = "none" <=> worker[w] = "none"
  PROVE  ChannelInv'
<1>1. /\ Said' = Tail(Said) /\ Said # <<>> /\ Said \in Seq(Messages \cup {Garbled})
      /\ Head(Said) = IF Head(events).type = "message" THEN Head(events).message ELSE Garbled
      /\ \A i \in DOMAIN events' : i + 1 \in DOMAIN events /\ events'[i] = events[i + 1]
      /\ \A w \in Workers : worker'[w] = "none" <=> worker[w] = "none"
      /\ UNCHANGED <<backlog, client, wires, reader, ends, posted, sent>>
  BY SaidTail, SaidType
<1>2. Head(Said) # Garbled =>
        Head(Said)[1] = Up(Head(events).from) /\ Head(events).from \in Workers /\ worker[Head(events).from] # "none"
  <2>1. events \in Seq(Events) /\ 1 \in DOMAIN events /\ Head(events) = events[1]
    BY DEF TypeOK
  <2>2. worker[events[1].from] # "none"
    BY <2>1 DEF EndIsLast
  <2>3. Head(Said) # Garbled => events[1].type = "message" /\ Head(Said) = events[1].message /\ events[1] \in Events
    BY <1>1, <2>1
  <2> QED
    BY <2>1, <2>2, <2>3 DEF ChannelInv, Addressed, Events
<1>3. \A v \in Workers : /\ got'[Down(v)] = got[Down(v)]
                         /\ worker[v] = "none" => got'[Up(v)] = got[Up(v)]
  BY <1>1, <1>2, TakenGot, LinkNames
<1>4. \A v \in Workers : Linked(v)' <=> Linked(v)
  BY <1>1 DEF Linked, ends
<1>5. Ties'
  <2>1. \A w \in Workers : worker'[w] # "none" => client'[w] \in Clients
    BY <1>1 DEF ChannelInv, Ties
  <2>2. \A c \in Clients : \A w \in {conn'[c], past'[c]} \ {0} : worker'[w] # "none" /\ client'[w] = c
    <3> SUFFICES ASSUME NEW c \in Clients, NEW w \in {conn[c], past[c]} \ {0}
                 PROVE  worker'[w] # "none" /\ client'[w] = c
      BY <1>1 DEF ends
    <3>1. w \in Workers /\ worker[w] # "none" /\ client[w] = c
      BY ClientTypes DEF ChannelInv, Ties
    <3> QED
      BY <1>1, <3>1
  <2> QED
    BY <1>1, <2>1, <2>2 DEF ChannelInv, Ties, ends
<1>6. Leftovers'
  BY <1>1 DEF ChannelInv, Leftovers, ends
<1>7. Unused'
  BY <1>1, <1>3 DEF ChannelInv, Unused, ends, wires
<1>8. Upwards'
  <2> SUFFICES ASSUME NEW v \in Workers
               PROVE  Coming(UpMode(v), reader[v], up[v], Said, Up(v), sent[Up(v)], Len(got[Up(v)]))'
    BY DEF Upwards
  <2>1. Coming(UpMode(v), reader[v], up[v], Said, Up(v), sent[Up(v)], Len(got[Up(v)]))
    BY DEF ChannelInv, Upwards
  <2>2. Coming(UpMode(v), reader[v], up[v], Tail(Said), Up(v), sent[Up(v)], Len(got'[Up(v)]))
    BY <1>1, <2>1, LinkNames, ComingTaken
  <2> QED
    BY <1>1, <1>4, <2>2 DEF UpMode, wires
<1>9. Downwards'
  <2> SUFFICES ASSUME NEW v \in Workers, worker[v] # "none"
               PROVE  DownwardsOf(v, client[v], Down(v))'
    BY <1>1 DEF Downwards
  <2>1. /\ DownwardsOf(v, client[v], Down(v)) /\ DownMode(v)' = DownMode(v)
        /\ UNCHANGED <<client, spoiled, received, down, sent, posted>>
    BY <1>1, <1>4 DEF ChannelInv, Downwards, DownMode, ends, wires
  <2> QED
    BY <1>3, <2>1 DEF DownwardsOf
<1>10. Addressed'
  <2>1. \A i \in DOMAIN events' : events'[i].type = "message" /\ events'[i].message # Garbled =>
          events'[i].message[1] = Up(events'[i].from)
    BY <1>1 DEF ChannelInv, Addressed
  <2>2. \A c \in Clients : \A i \in DOMAIN posted'[c] : posted'[c][i] # Garbled =>
          \E w \in Workers : posted'[c][i][1] = Down(w) /\ worker'[w] # "none" /\ client'[w] = c
    BY <1>1 DEF ChannelInv, Addressed
  <2> QED
    BY <2>1, <2>2 DEF Addressed
<1> QED
  BY <1>5, <1>6, <1>7, <1>8, <1>9, <1>10 DEF ChannelInv

LEMMA ServerHandlesKeeps ==
  ASSUME TypeOK, EndIsLast, ChannelInv, ServerHandles
  PROVE  ChannelInv'
<1>1. /\ events # <<>> /\ Head(events).type = "message" /\ events' = Tail(events)
      /\ UNCHANGED <<backlog, worker, client, wires, reader, ends, posted, sent>>
  BY DEF ServerHandles, server
<1>2. Head(Said) = Head(events).message
  BY <1>1, SaidTail
<1>3. Taken(Said)
  BY <1>2 DEF ServerHandles, Taken
<1> QED
  BY <1>1, <1>3, EventTaken

LEMMA UserKeeps ==
  ASSUME TypeOK, EndIsLast, ChannelInv, userDisconnected
  PROVE  ChannelInv'
<1>1. /\ events # <<>> /\ Head(events).type = "disconnected" /\ events' = Tail(events) /\ UNCHANGED got
      /\ UNCHANGED <<backlog, client, wires, reader, ends, posted, sent>>
      /\ worker' = [worker EXCEPT ![Head(events).from] = "deleted"]
  BY DEF userDisconnected
<1>2. Taken(Said)
  BY <1>1, SaidTail DEF Taken
<1>3. worker[Head(events).from] = "gone"
  BY <1>1, TailEnd DEF EndIsLast
<1>4. \A w \in Workers : worker'[w] = "none" <=> worker[w] = "none"
  BY <1>1, <1>3 DEF TypeOK
<1> QED
  BY <1>1, <1>2, <1>4, EventTaken

-----------------------------------------------------------------------------
(***************************************************************************)
(* Connections end.                                                        *)
(***************************************************************************)

LEMMA ComingLate ==
  ASSUME NEW s, NEW u, NEW q, NEW l, NEW n, NEW a, Coming("on", s, u, q, l, n, a)
  PROVE  Coming("late", s, u, q, l, n, a)
BY DEF Coming

LEMMA EmptyHarmless == ASSUME NEW l PROVE Harmless(Empty, l)
BY DEF Harmless, Unfinished, Empty

LEMMA LosesKeeps ==
  ASSUME TypeOK, ChannelInv, NEW c \in Clients, disconnectFromHost(c) \/ ConnectionDrops(c)
  PROVE  ChannelInv'
<1>1. PICK w : w = conn[c]
  OBVIOUS
<1>2. /\ UNCHANGED <<backlog, server, events, reader, spoiled, posted, sent, got, Said>>
      /\ w # 0 /\ ClientLoses(c)
  BY <1>1 DEF disconnectFromHost, ConnectionDrops, ClientLoses, Said
<1>3. w \in Workers /\ worker[w] # "none" /\ client[w] = c /\ Linked(w)
  BY <1>1, <1>2, ClientTypes DEF ChannelInv, Ties, Linked
<1>4. PICK n \in 0 .. Len(down[w]) : down' = [down EXCEPT ![w] = SubSeq(down[w], 1, n)]
  BY <1>1, <1>2 DEF ClientLoses
<1>5. \/ up' = up
      \/ \E k \in 0 .. Len(up[w]) : up' = [up EXCEPT ![w] = SubSeq(up[w], 1, k)]
  BY <1>1 DEF disconnectFromHost, ConnectionDrops
<1>6. /\ \A d \in Clients : /\ conn'[d] = IF d = c THEN 0 ELSE conn[d]
                            /\ past'[d] = IF d = c THEN w ELSE past[d]
                            /\ received'[d] = IF d = c THEN Empty ELSE received[d]
                            /\ leftover'[d] = IF d = c THEN FALSE ELSE leftover[d]
      /\ \A v \in Workers : /\ down'[v] = IF v = w THEN SubSeq(down[w], 1, n) ELSE down[v]
                            /\ v # w => up'[v] = up[v]
  <2>1. /\ conn' = [conn EXCEPT ![c] = 0] /\ past' = [past EXCEPT ![c] = w]
        /\ received' = [received EXCEPT ![c] = Empty] /\ leftover' = [leftover EXCEPT ![c] = FALSE]
    BY <1>1, <1>2 DEF ClientLoses
  <2> QED
    BY <1>4, <1>5, <2>1 DEF TypeOK
<1>7. \A v \in Workers : v # w => (Linked(v)' <=> Linked(v))
  <2> SUFFICES ASSUME NEW v \in Workers, v # w PROVE Linked(v)' <=> Linked(v)
    OBVIOUS
  <2>1. v # 0 /\ (worker[v] # "none" => client[v] \in Clients)
    BY LinkNames DEF ChannelInv, Ties
  <2> QED
    BY <1>1, <1>2, <1>6, <2>1 DEF Linked, server
<1>8. Linked(w) /\ ~Linked(w)'
  BY <1>2, <1>3, <1>6 DEF Linked, server
<1>9. reader[w] \in Readers /\ up[w] \in Seq(Bytes) /\ down[w] \in Seq(Bytes) /\ received[c] \in Readers
  BY <1>3, WorkerTypes, ClientTypes
<1>10. Ties'
  <2>1. \A v \in Workers : worker'[v] # "none" => client'[v] \in Clients
    BY <1>2 DEF ChannelInv, Ties, server
  <2>2. \A d \in Clients : \A v \in {conn'[d], past'[d]} \ {0} : worker'[v] # "none" /\ client'[v] = d
    <3> SUFFICES ASSUME NEW d \in Clients, NEW v \in {conn'[d], past'[d]} \ {0}
                 PROVE  worker[v] # "none" /\ client[v] = d
      BY <1>2 DEF server
    <3>1. CASE d = c
      BY <1>3, <1>6, <3>1
    <3>2. CASE d # c
      <4>1. v \in {conn[d], past[d]} \ {0}
        BY <1>6, <3>2
      <4> QED
        BY <4>1 DEF ChannelInv, Ties
    <3> QED
      BY <3>1, <3>2
  <2>3. \A d \in Clients : conn'[d] # 0 => past'[d] = 0
    BY <1>6 DEF ChannelInv, Ties
  <2>4. \A i \in DOMAIN backlog' : conn'[backlog'[i]] = 0 /\ past'[backlog'[i]] = 0
    <3> SUFFICES ASSUME NEW i \in DOMAIN backlog PROVE conn'[backlog[i]] = 0 /\ past'[backlog[i]] = 0
      BY <1>2
    <3>1. backlog[i] \in Clients /\ conn[backlog[i]] = 0 /\ past[backlog[i]] = 0
      BY DEF ChannelInv, Ties, TypeOK
    <3> QED
      BY <1>1, <1>2, <1>6, <3>1
  <2> QED
    BY <1>2, <2>1, <2>2, <2>3, <2>4 DEF ChannelInv, Ties
<1>11. Unused'
  BY <1>2, <1>3, <1>6 DEF ChannelInv, Unused, server
<1>12. Upwards'
  <2> SUFFICES ASSUME NEW v \in Workers
               PROVE  Coming(UpMode(v), reader[v], up[v], Said, Up(v), sent[Up(v)], Len(got[Up(v)]))'
    BY DEF Upwards
  <2>1. Coming(UpMode(v), reader[v], up[v], Said, Up(v), sent[Up(v)], Len(got[Up(v)]))
    BY DEF ChannelInv, Upwards
  <2>2. CASE v # w
    BY <1>2, <1>6, <1>7, <2>1, <2>2 DEF UpMode
  <2>3. CASE v = w
    <3>1. Coming("on", reader[w], up[w], Said, Up(w), sent[Up(w)], Len(got[Up(w)])) /\ UpMode(w)' = "late"
      BY <1>8, <2>1, <2>3 DEF UpMode
    <3>2. CASE up' = up
      BY <1>2, <2>3, <3>1, <3>2, ComingLate
    <3>3. CASE up' # up
      <4>1. PICK k \in 0 .. Len(up[w]) : up'[w] = SubSeq(up[w], 1, k)
        BY <1>3, <1>5, <3>3 DEF TypeOK
      <4>2. Coming("late", reader[w], SubSeq(up[w], 1, k), Said, Up(w), sent[Up(w)], Len(got[Up(w)]))
        BY <1>9, <3>1, ComingCut
      <4> QED
        BY <1>2, <2>3, <3>1, <4>1, <4>2
    <3> QED
      BY <3>2, <3>3
  <2> QED
    BY <2>2, <2>3
<1>13. Downwards'
  <2> SUFFICES ASSUME NEW v \in Workers, worker[v] # "none"
               PROVE  DownwardsOf(v, client[v], Down(v))'
    BY <1>2 DEF Downwards, server
  <2>1. DownwardsOf(v, client[v], Down(v)) /\ client[v] \in Clients /\ v # 0 /\ UNCHANGED <<client, worker, spoiled, posted, sent, got>>
    BY <1>2, LinkNames DEF ChannelInv, Downwards, Ties, server
  <2>2. CASE v = w
    <3>1. DownMode(w) = "on" /\ DownMode(w)' = "late"
      BY <1>2, <1>3, <1>6, <1>8 DEF DownMode, server
    <3>2. CASE w \in spoiled
      <4>1. Stream(down[w], Down(w), sent[Down(w)])
        BY <1>3, <2>1, <2>2, <3>1, <3>2 DEF DownwardsOf, Spoilt
      <4>2. Stream(SubSeq(down[w], 1, n), Down(w), sent[Down(w)])
        BY <1>4, <1>9, <4>1, StreamCut
      <4>3. Spoilt("late", Empty, SubSeq(down[w], 1, n), Down(w), sent[Down(w)])
        BY <4>2, EmptyTrails DEF Spoilt
      <4> QED
        BY <1>2, <1>3, <1>6, <2>2, <3>1, <3>2, <4>3 DEF DownwardsOf, server
    <3>3. CASE w \notin spoiled
      <4>1. Coming("on", received[c], down[w], posted[c], Down(w), sent[Down(w)], Len(got[Down(w)]))
        BY <1>3, <2>1, <2>2, <3>1, <3>3 DEF DownwardsOf
      <4>2. Coming("late", Empty, SubSeq(down[w], 1, n), posted[c], Down(w), sent[Down(w)], Len(got[Down(w)]))
        BY <1>4, <1>9, <4>1, ComingLost
      <4> QED
        BY <1>2, <1>3, <1>6, <2>2, <3>1, <3>3, <4>2 DEF DownwardsOf, server
    <3> QED
      BY <3>2, <3>3
  <2>3. CASE v # w /\ client[v] # c
    <3>1. DownMode(v)' = DownMode(v)
      BY <1>6, <1>7, <2>1, <2>3 DEF DownMode
    <3> QED
      BY <1>6, <2>1, <2>3, <3>1 DEF DownwardsOf
  <2>4. CASE v # w /\ client[v] = c
    <3>1. DownMode(v)' = "over"
      BY <1>6, <2>1, <2>4 DEF DownMode, Linked
    <3>2. CASE v \in spoiled
      BY <2>1, <3>1, <3>2 DEF DownwardsOf, Spoilt
    <3>3. CASE v \notin spoiled
      <4>1. Coming(DownMode(v), received[c], down[v], posted[c], Down(v), sent[Down(v)], Len(got[Down(v)]))
        BY <2>1, <2>4, <3>3 DEF DownwardsOf
      <4>2. Coming("over", Empty, down[v], posted[c], Down(v), sent[Down(v)], Len(got[Down(v)]))
        BY <4>1, ComingOver
      <4> QED
        BY <1>6, <2>1, <2>4, <3>1, <3>3, <4>2 DEF DownwardsOf
    <3> QED
      BY <3>2, <3>3
  <2> QED
    BY <2>2, <2>3, <2>4
<1>14. Leftovers'
  BY <1>6, EmptyHarmless DEF ChannelInv, Leftovers
<1>15. Addressed'
  BY <1>2 DEF ChannelInv, Addressed, server
<1> QED
  BY <1>10, <1>11, <1>12, <1>13, <1>14, <1>15 DEF ChannelInv

LEMMA WorkerDisconnectedKeeps ==
  ASSUME TypeOK, ChannelInv, NEW w \in Workers, WorkerDisconnected(w)
  PROVE  ChannelInv'
<1> DEFINE end == [type |-> "disconnected", from |-> w]
           e == <<Garbled>>
<1>1. /\ UNCHANGED <<backlog, client, wires, reader, ends, posted, sent, got>>
      /\ events' = Append(events, end)
      /\ \A v \in Workers : worker'[v] = IF v = w THEN "gone" ELSE worker[v]
      /\ worker[w] = "connected"
  BY DEF WorkerDisconnected, TypeOK
<1>2. events \in Seq(Events) /\ Said \in Seq(Messages \cup {Garbled}) /\ DOMAIN Said = DOMAIN events
  BY SaidType DEF TypeOK
<1>3. /\ DOMAIN events' = 1 .. Len(events) + 1 /\ events'[Len(events) + 1] = end
      /\ \A i \in DOMAIN events : i \in DOMAIN events' /\ events'[i] = events[i]
      /\ \A i \in DOMAIN events' : i \in DOMAIN events \/ i = Len(events) + 1
      /\ end.type = "disconnected"
  BY <1>1, <1>2
<1> HIDE DEF end
<1>4. Said' = Said \o e
  <2>1. PICK q : q = Said
    OBVIOUS
  <2>2. /\ q \in Seq(Messages \cup {Garbled}) /\ DOMAIN q = DOMAIN events /\ Len(q) = Len(events) /\ Len(q) \in Nat
        /\ \A i \in DOMAIN events : q[i] = IF events[i].type = "message" THEN events[i].message ELSE Garbled
    <3>1. \A i \in DOMAIN events : q[i] = IF events[i].type = "message" THEN events[i].message ELSE Garbled
      BY <2>1 DEF Said
    <3> QED
      BY <1>2, <2>1, <3>1
  <2>3. q \o e = [i \in 1 .. Len(q) + 1 |-> IF i \in DOMAIN q THEN q[i] ELSE Garbled]
    <3> DEFINE t == q \o e
    <3>1. t \in Seq(Messages \cup {Garbled}) /\ Len(t) = Len(q) + 1 /\ \A i \in 1 .. Len(q) + 1 : t[i] = IF i \in DOMAIN q THEN q[i] ELSE Garbled
      BY <2>2
    <3> HIDE DEF t
    <3>2. DOMAIN t = 1 .. Len(q) + 1 /\ t = [i \in DOMAIN t |-> t[i]]
      BY <2>2, <3>1
    <3>3. t = [i \in 1 .. Len(q) + 1 |-> IF i \in DOMAIN q THEN q[i] ELSE Garbled]
      BY <3>1, <3>2
    <3> QED
      BY <3>3 DEF t
  <2>4. Said' = [i \in DOMAIN events' |-> IF events'[i].type = "message" THEN events'[i].message ELSE Garbled]
    BY DEF Said
  <2>5. \A i \in DOMAIN events' :
          (IF events'[i].type = "message" THEN events'[i].message ELSE Garbled) = (IF i \in DOMAIN q THEN q[i] ELSE Garbled)
    BY <1>3, <2>2
  <2> HIDE DEF e
  <2> QED
    BY <1>3, <2>1, <2>2, <2>3, <2>4, <2>5
<1>5. \A v \in Workers : (Linked(v)' <=> Linked(v)) /\ (worker'[v] = "none" <=> worker[v] = "none")
  BY <1>1 DEF Linked, ends
<1>6. Ties'
  <2>1. \A v \in Workers : worker'[v] # "none" => client'[v] \in Clients
    BY <1>1, <1>5 DEF ChannelInv, Ties
  <2>2. \A c \in Clients : \A v \in {conn'[c], past'[c]} \ {0} : worker'[v] # "none" /\ client'[v] = c
    <3> SUFFICES ASSUME NEW c \in Clients, NEW v \in {conn[c], past[c]} \ {0}
                 PROVE  worker'[v] # "none" /\ client'[v] = c
      BY <1>1 DEF ends
    <3>1. v \in Workers /\ worker[v] # "none" /\ client[v] = c
      BY ClientTypes DEF ChannelInv, Ties
    <3> QED
      BY <1>1, <1>5, <3>1
  <2> QED
    BY <1>1, <2>1, <2>2 DEF ChannelInv, Ties, ends
<1>7. Leftovers'
  BY <1>1 DEF ChannelInv, Leftovers, ends
<1>8. Unused'
  BY <1>1, <1>5 DEF ChannelInv, Unused, ends, wires
<1>9. Upwards'
  <2> SUFFICES ASSUME NEW v \in Workers
               PROVE  Coming(UpMode(v), reader[v], up[v], Said, Up(v), sent[Up(v)], Len(got[Up(v)]))'
    BY DEF Upwards
  <2>1. Coming(UpMode(v), reader[v], up[v], Said, Up(v), sent[Up(v)], Len(got[Up(v)]))
    BY DEF ChannelInv, Upwards
  <2>2. e \in Seq(Messages \cup {Garbled}) /\ \A i \in DOMAIN e : e[i] = Garbled
    OBVIOUS
  <2> HIDE DEF e
  <2>3. Coming(UpMode(v), reader[v], up[v], Said \o e, Up(v), sent[Up(v)], Len(got[Up(v)]))
    BY <1>2, <2>1, <2>2, ComingOthers
  <2> QED
    BY <1>1, <1>4, <1>5, <2>3 DEF UpMode, wires
<1>10. Downwards'
  <2> SUFFICES ASSUME NEW v \in Workers, worker[v] # "none"
               PROVE  DownwardsOf(v, client[v], Down(v))'
    BY <1>1, <1>5 DEF Downwards
  <2>1. /\ DownwardsOf(v, client[v], Down(v)) /\ DownMode(v)' = DownMode(v)
        /\ UNCHANGED <<client, spoiled, received, down, sent, posted, got>>
    BY <1>1, <1>5 DEF ChannelInv, Downwards, DownMode, ends, wires
  <2> QED
    BY <2>1 DEF DownwardsOf
<1>11. Addressed'
  <2>1. \A i \in DOMAIN events' : events'[i].type = "message" /\ events'[i].message # Garbled =>
          events'[i].message[1] = Up(events'[i].from)
    BY <1>3 DEF ChannelInv, Addressed
  <2>2. \A c \in Clients : \A i \in DOMAIN posted'[c] : posted'[c][i] # Garbled =>
          \E v \in Workers : posted'[c][i][1] = Down(v) /\ worker'[v] # "none" /\ client'[v] = c
    BY <1>1, <1>5 DEF ChannelInv, Addressed
  <2> QED
    BY <2>1, <2>2 DEF Addressed
<1> QED
  BY <1>6, <1>7, <1>8, <1>9, <1>10, <1>11 DEF ChannelInv

-----------------------------------------------------------------------------
(***************************************************************************)
(* The connections are channels.                                           *)
(***************************************************************************)

LEMMA InitChannel == Init => ChannelInv
<1> SUFFICES ASSUME Init PROVE ChannelInv
  OBVIOUS
<1>1. TypeOK
  BY InitType
<1>2. Said = <<>>
  BY DEF Init, Said
<1>3. \A w \in Workers : \A l \in {Up(w), Down(w)} : sent[l] = 0 /\ got[l] = <<>> /\ Len(got[l]) = 0
  BY LinkNames DEF Init
<1>4. Ties /\ Addressed
  BY DEF Init, Ties, Addressed
<1>5. Unused
  BY <1>3 DEF Init, Unused
<1>6. Upwards
  <2> SUFFICES ASSUME NEW w \in Workers
               PROVE  Coming(UpMode(w), reader[w], up[w], Said, Up(w), sent[Up(w)], Len(got[Up(w)]))
    BY DEF Upwards
  <2>1. Coming("on", Empty, <<>>, <<>>, Up(w), 0, 0)
    BY ComingNew
  <2>2. reader[w] = Empty /\ up[w] = <<>> /\ UpMode(w) = "late"
    BY DEF Init, UpMode, Linked
  <2> QED
    BY <1>2, <1>3, <2>1, <2>2, ComingLate
<1>7. Downwards
  BY DEF Init, Downwards
<1>8. Leftovers
  BY EmptyHarmless DEF Init, Leftovers
<1> QED
  BY <1>4, <1>5, <1>6, <1>7, <1>8 DEF ChannelInv

LEMMA NextChannel == TypeOK /\ EndIsLast /\ ChannelInv /\ [Next]_vars => ChannelInv'
<1> SUFFICES ASSUME TypeOK, EndIsLast, ChannelInv, [Next]_vars PROVE ChannelInv'
  OBVIOUS
<1>1. CASE incomingConnection \/ ConnectionRefused \/ ServerHandles \/ userDisconnected
  BY <1>1, IncomingKeeps, RefusedKeeps, ServerHandlesKeeps, UserKeeps
<1>2. ASSUME NEW c \in Clients, ClientNext(c) PROVE ChannelInv'
  BY <1>2, ConnectKeeps, ClientSendsKeeps, ClientReadsKeeps, ClientHandlesKeeps, LosesKeeps DEF ClientNext
<1>3. ASSUME NEW w \in Workers, WorkerNext(w) PROVE ChannelInv'
  BY <1>3, ServerSendsKeeps, WorkerReadsKeeps, WorkerDisconnectedKeeps DEF WorkerNext
<1>4. CASE UNCHANGED vars
  <2>1. Said' = Said
    BY <1>4 DEF vars, Said
  <2>2. UNCHANGED <<backlog, worker, client, events, up, down, reader, conn, past, received, leftover, spoiled, posted, sent, got>>
    BY <1>4 DEF vars, server, wires, ends
  <2> QED
    BY <2>1, <2>2 DEF ChannelInv, Ties, Unused, Upwards, Downwards, DownwardsOf, Leftovers, Addressed,
                      UpMode, DownMode, Linked
<1> QED
  BY <1>1, <1>2, <1>3, <1>4 DEF Next

LEMMA ChannelHolds == Spec => []ChannelInv
BY InitChannel, NextChannel, TypesKept, EndIsLastHolds, PTL DEF Spec

\* What the program handled of a link, as a channel.
Heard(l) == IF Spoiled(l) THEN <<>> ELSE got[l]

LEMMA LinkOf == ASSUME NEW l \in Links PROVE \E w \in Workers : (l = Up(w) \/ l = Down(w)) /\ l[2] = w
BY DEF Links, Up, Down

\* The links are as they were.
LEMMA SameLinks ==
  ASSUME \A w \in Workers : worker'[w] = "none" <=> worker[w] = "none", UNCHANGED <<client, conn, spoiled>>
  PROVE  \A l \in Links : LinkState(l)' = LinkState(l) /\ (Spoiled(l)' <=> Spoiled(l))
BY LinkOf DEF LinkState, Spoiled

LEMMA Stutters ==
  ASSUME \A l \in Links : LinkState(l)' = LinkState(l) /\ (Spoiled(l)' <=> Spoiled(l)), UNCHANGED <<sent, got>>
  PROVE  UNCHANGED Connection!vars
BY DEF Connection!vars

LEMMA SendsChannel ==
  ASSUME NEW l \in Links, UNCHANGED <<worker, client, conn, spoiled, got>>, Sends(l)
  PROVE  Connection!Next
<1>1. \A o \in Links : LinkState(o)' = LinkState(o) /\ (Spoiled(o)' <=> Spoiled(o))
  BY SameLinks
<1>2. Connection!Sends(l)
  BY <1>1 DEF Connection!Sends, Sends
<1> QED
  BY <1>2 DEF Connection!Next

\* A message that is handled is the next of its link.
LEMMA TakenChannel ==
  ASSUME TypeOK, NEW q \in Seq(Messages \cup {Garbled}), q # <<>>, Taken(q),
         \A w \in Workers : worker'[w] = "none" <=> worker[w] = "none",
         UNCHANGED <<client, conn, spoiled, sent>>,
         NEW l \in Links, Head(q) = Garbled \/ Head(q)[1] = l,
         Spoiled(l) \/ \E s, u, mode : Coming(mode, s, u, q, l, sent[l], Len(got[l]))
  PROVE  [Connection!Next]_Connection!vars
<1>1. \A o \in Links : LinkState(o)' = LinkState(o) /\ (Spoiled(o)' <=> Spoiled(o))
  BY SameLinks
<1>2. \A o \in Links : IF Head(q) # Garbled /\ Head(q)[1] = o THEN got'[o] = Append(got[o], Head(q)[2]) ELSE got'[o] = got[o]
  BY TakenGot
<1>3. CASE Spoiled(l) \/ Head(q) = Garbled
  <2>1. \A o \in Links : Spoiled(o) \/ got'[o] = got[o]
    BY <1>2, <1>3
  <2>2. UNCHANGED Connection!vars
    BY <1>1, <2>1 DEF Connection!vars
  <2> QED
    BY <2>2
<1>4. CASE ~Spoiled(l) /\ Head(q) # Garbled
  <2>1. sent[l] \in Nat /\ Len(got[l]) \in Nat
    <3>1. sent[l] \in 0 .. MaxSent /\ got[l] \in Seq(1 .. MaxSent) /\ MaxSent \in Nat
      BY BoundsAssumption DEF TypeOK
    <3> QED
      BY <3>1
  <2>2. Head(q)[2] = Len(got[l]) + 1 /\ Len(got[l]) + 1 <= sent[l]
    <3>1. PICK s, u, mode, n, a : n = sent[l] /\ a = Len(got[l]) /\ Coming(mode, s, u, q, l, n, a)
      BY <1>4
    <3>2. n \in Nat /\ a \in Nat /\ Coming(mode, s, u, q, l, n, a)
      BY <2>1, <3>1
    <3>3. /\ Head(q) # Garbled /\ Head(q)[1] = l =>
               Head(q)[2] = a + 1 /\ a + 1 <= n /\ Coming(mode, s, u, Tail(q), l, n, a + 1)
          /\ Head(q) = Garbled \/ Head(q)[1] # l => Coming(mode, s, u, Tail(q), l, n, a)
      BY <3>2, ComingHandled
    <3> QED
      BY <1>4, <3>1, <3>3
  <2>3. \A o \in Links : Heard(o)' = IF o = l THEN Append(Heard(l), Len(Heard(l)) + 1) ELSE Heard(o)
    BY <1>1, <1>2, <1>4, <2>2 DEF Heard
  <2>4. Connection!Delivers(l)
    <3>1. Len(Heard(l)) < sent[l]
      BY <1>4, <2>1, <2>2 DEF Heard
    <3>2. [o \in Links |-> Heard(o)]' = [[o \in Links |-> Heard(o)] EXCEPT ![l] = Append(@, Len(@) + 1)]
      BY <2>3
    <3>3. [o \in Links |-> LinkState(o)]' = [o \in Links |-> LinkState(o)]
      BY <1>1
    <3> QED
      BY <3>1, <3>2, <3>3 DEF Connection!Delivers, Heard
  <2> QED
    BY <2>4 DEF Connection!Next
<1> QED
  BY <1>3, <1>4

LEMMA HandlesChannel ==
  ASSUME TypeOK, ChannelInv, NEW c \in Clients, ClientHandles(c)
  PROVE  [Connection!Next]_Connection!vars
<1>1. PICK q : q = posted[c]
  OBVIOUS
<1>2. /\ UNCHANGED <<worker, client, conn, spoiled, sent>>
      /\ q \in Seq(Messages \cup {Garbled}) /\ q # <<>> /\ Taken(q)
  BY <1>1, ClientTypes DEF ClientHandles, Taken, server, ends
<1>3. CASE Head(q) = Garbled
  <2>1. UNCHANGED <<worker, client, conn, spoiled, sent, got>>
    BY <1>2, <1>3 DEF Taken
  <2> QED
    BY <2>1, SameLinks, Stutters
<1>4. CASE Head(q) # Garbled
  <2>1. 1 \in DOMAIN q /\ Head(q) = q[1]
    BY <1>2, QueueTail
  <2>2. PICK w \in Workers : Head(q)[1] = Down(w) /\ worker[w] # "none" /\ client[w] = c
    BY <1>1, <1>4, <2>1 DEF ChannelInv, Addressed
  <2>3. w \in spoiled \/ Coming(DownMode(w), received[c], down[w], q, Down(w), sent[Down(w)], Len(got[Down(w)]))
    BY <1>1, <2>2 DEF ChannelInv, Downwards, DownwardsOf
  <2>4. w \in spoiled => Spoiled(Down(w))
    BY DEF Spoiled, Down
  <2> QED
    BY <1>2, <2>2, <2>3, <2>4, LinkNames, TakenChannel
<1> QED
  BY <1>3, <1>4

LEMMA EventChannel ==
  ASSUME TypeOK, ChannelInv, ServerHandles
  PROVE  [Connection!Next]_Connection!vars
<1>1. /\ events # <<>> /\ events' = Tail(events) /\ Head(events).type = "message"
      /\ UNCHANGED <<worker, client, conn, spoiled, sent>>
  BY DEF ServerHandles, server, ends
<1>2. Said \in Seq(Messages \cup {Garbled}) /\ Said # <<>> /\ Head(Said) = Head(events).message
  BY <1>1, SaidTail, SaidType
<1>3. Taken(Said)
  BY <1>2 DEF ServerHandles, Taken
<1>4. PICK w : w = Head(events).from
  OBVIOUS
<1>5. w \in Workers /\ (Head(Said) = Garbled \/ Head(Said)[1] = Up(w))
  <2>1. events \in Seq(Events) /\ 1 \in DOMAIN events /\ Head(events) = events[1]
    BY <1>1 DEF TypeOK
  <2>2. events[1] \in Events
    BY <2>1
  <2> QED
    BY <1>1, <1>2, <1>4, <2>1, <2>2 DEF ChannelInv, Addressed, Events
<1>6. Coming(UpMode(w), reader[w], up[w], Said, Up(w), sent[Up(w)], Len(got[Up(w)]))
  BY <1>5 DEF ChannelInv, Upwards
<1> QED
  BY <1>1, <1>2, <1>3, <1>5, <1>6, LinkNames, TakenChannel

LEMMA IncomingChannel == ASSUME TypeOK, ChannelInv, incomingConnection PROVE Connection!Next
<1>1. PICK w \in Workers, t \in 1 .. Len(m_threadsLoad) + 1 : worker[w] = "none" /\ Accepts(w, Head(backlog), t)
  BY DEF incomingConnection
<1>2. PICK c : c = Head(backlog)
  OBVIOUS
<1>3. /\ c \in Clients /\ UNCHANGED <<sent, got>> /\ conn[c] = 0
      /\ \A v \in Workers : /\ worker'[v] = (IF v = w THEN "connected" ELSE worker[v])
                            /\ client'[v] = (IF v = w THEN c ELSE client[v])
      /\ \A d \in Clients : conn'[d] = IF d = c THEN w ELSE conn[d]
      /\ spoiled' = IF leftover[c] THEN spoiled \cup {w} ELSE spoiled
  <2>1. backlog \in Seq(Clients) /\ backlog # <<>> /\ UNCHANGED <<sent, got>>
    BY DEF TypeOK, incomingConnection
  <2>2. c \in Clients /\ c = backlog[1] /\ 1 \in DOMAIN backlog
    BY <1>2, <2>1
  <2>3. conn[c] = 0
    BY <2>2 DEF ChannelInv, Ties
  <2> QED
    BY <1>1, <1>2, <2>1, <2>2, <2>3 DEF Accepts, TypeOK
<1>4. ASSUME NEW v \in Workers, v # w, NEW l \in {Up(v), Down(v)}
      PROVE  LinkState(l)' = LinkState(l) /\ (Spoiled(l)' <=> Spoiled(l))
  <2>1. l[2] = v /\ v # 0 /\ (worker[v] # "none" => client[v] \in Clients)
    BY LinkNames DEF ChannelInv, Ties
  <2>2. Spoiled(l)' <=> Spoiled(l)
    BY <1>3, <1>4, <2>1 DEF Spoiled
  <2>3. CASE worker[v] = "none"
    BY <1>3, <1>4, <2>1, <2>2, <2>3 DEF LinkState
  <2>4. CASE worker[v] # "none"
    <3>1. conn'[client[v]] = v <=> conn[client[v]] = v
      BY <1>3, <1>4, <2>1, <2>4
    <3> QED
      BY <1>3, <1>4, <2>1, <2>2, <2>4, <3>1 DEF LinkState
  <2> QED
    BY <2>2, <2>3, <2>4
<1>5. ASSUME NEW l \in {Up(w), Down(w)}
      PROVE  LinkState(l) = "new" /\ LinkState(l)' \in {"new", "up"} /\ got[l] = <<>>
  <2>1. l[2] = w
    BY LinkNames
  <2> QED
    BY <1>1, <1>3, <2>1 DEF LinkState, ChannelInv, Unused
<1>6. \A l \in Links : /\ Heard(l)' = Heard(l)
                       /\ LinkState(l)' \in {"new", "up", "lost"}
                       /\ LinkState(l)' # LinkState(l) => LinkState(l) = "new" /\ LinkState(l)' = "up"
  <2> SUFFICES ASSUME NEW l \in Links
               PROVE  /\ Heard(l)' = Heard(l)
                      /\ LinkState(l)' \in {"new", "up", "lost"}
                      /\ LinkState(l)' # LinkState(l) => LinkState(l) = "new" /\ LinkState(l)' = "up"
    OBVIOUS
  <2>1. PICK v \in Workers : l \in {Up(v), Down(v)}
    BY LinkOf
  <2>2. CASE v = w
    BY <1>3, <1>5, <2>1, <2>2 DEF Heard
  <2>3. CASE v # w
    <3>1. LinkState(l)' = LinkState(l) /\ (Spoiled(l)' <=> Spoiled(l))
      BY <1>4, <2>1, <2>3
    <3>2. LinkState(l) \in {"new", "up", "lost"}
      BY DEF LinkState
    <3> QED
      BY <1>3, <3>1, <3>2 DEF Heard
  <2> QED
    BY <2>2, <2>3
<1>7. Connection!Changes
  BY <1>3, <1>6 DEF Connection!Changes, Heard
<1> QED
  BY <1>7 DEF Connection!Next

LEMMA LosesChannel ==
  ASSUME TypeOK, ChannelInv, NEW c \in Clients, disconnectFromHost(c) \/ ConnectionDrops(c)
  PROVE  Connection!Next
<1>1. /\ UNCHANGED <<worker, client, spoiled, sent, got>> /\ conn' = [conn EXCEPT ![c] = 0]
  BY DEF disconnectFromHost, ConnectionDrops, ClientLoses, server
<1>2. \A l \in Links : /\ Spoiled(l)' <=> Spoiled(l)
                       /\ LinkState(l)' \in {"new", "up", "lost"}
                       /\ LinkState(l)' # LinkState(l) => LinkState(l)' = "lost"
  <2> SUFFICES ASSUME NEW l \in Links
               PROVE  /\ Spoiled(l)' <=> Spoiled(l)
                      /\ LinkState(l)' \in {"new", "up", "lost"}
                      /\ LinkState(l)' # LinkState(l) => LinkState(l)' = "lost"
    OBVIOUS
  <2>1. PICK w \in Workers : l[2] = w
    BY LinkOf
  <2>2. Spoiled(l)' <=> Spoiled(l)
    BY <1>1 DEF Spoiled
  <2>3. worker[w] # "none" => client[w] \in Clients /\ w # 0
    BY LinkNames DEF ChannelInv, Ties
  <2>4. worker[w] # "none" /\ conn'[client[w]] = w => conn[client[w]] = w
    BY <1>1, <2>3 DEF TypeOK
  <2> QED
    BY <1>1, <2>1, <2>2, <2>4 DEF LinkState
<1>3. Connection!Changes
  BY <1>1, <1>2 DEF Connection!Changes
<1> QED
  BY <1>3 DEF Connection!Next

\* What neither sends nor handles a message, nor makes or ends a connection.
LEMMA RestChannel ==
  ASSUME TypeOK, EndIsLast,
         \/ ConnectionRefused \/ userDisconnected \/ UNCHANGED vars
         \/ \E c \in Clients : connectToServer(c) \/ ClientReads(c) \/ ClientReadsLate(c)
         \/ \E w \in Workers : WorkerReads(w) \/ WorkerDisconnected(w)
  PROVE  UNCHANGED Connection!vars
<1>1. CASE userDisconnected
  <2>1. worker[Head(events).from] = "gone" /\ worker' = [worker EXCEPT ![Head(events).from] = "deleted"]
    BY <1>1, TailEnd DEF EndIsLast, userDisconnected
  <2>2. \A w \in Workers : worker'[w] = "none" <=> worker[w] = "none"
    BY <2>1 DEF TypeOK
  <2>3. UNCHANGED <<client, conn, spoiled, sent, got>>
    BY <1>1 DEF userDisconnected, ends
  <2> QED
    BY <2>2, <2>3, SameLinks, Stutters
<1>2. ASSUME NEW w \in Workers, WorkerDisconnected(w) PROVE UNCHANGED Connection!vars
  <2>1. \A v \in Workers : worker'[v] = "none" <=> worker[v] = "none"
    BY <1>2 DEF WorkerDisconnected, TypeOK
  <2>2. UNCHANGED <<client, conn, spoiled, sent, got>>
    BY <1>2 DEF WorkerDisconnected, ends
  <2> QED
    BY <2>1, <2>2, SameLinks, Stutters
<1>3. CASE UNCHANGED <<worker, client, conn, spoiled, sent, got>>
  BY <1>3, SameLinks, Stutters
<1>4. CASE ConnectionRefused \/ UNCHANGED vars
  <2>1. UNCHANGED <<worker, client, conn, spoiled, sent, got>>
    BY <1>4 DEF ConnectionRefused, vars, server, ends
  <2> QED
    BY <1>3, <2>1, Zenon
<1>5. ASSUME NEW c \in Clients, connectToServer(c) \/ ClientReads(c) \/ ClientReadsLate(c)
      PROVE  UNCHANGED Connection!vars
  <2>1. UNCHANGED <<worker, client, conn, spoiled, sent, got>>
    BY <1>5 DEF connectToServer, ClientReads, ClientReadsLate, ClientHasRead, server
  <2> QED
    BY <1>3, <2>1, Zenon
<1>6. ASSUME NEW w \in Workers, WorkerReads(w) PROVE UNCHANGED Connection!vars
  <2>1. UNCHANGED <<worker, client, conn, spoiled, sent, got>>
    BY <1>6 DEF WorkerReads, server, ends
  <2> QED
    BY <1>3, <2>1, Zenon
<1> QED
  BY <1>1, <1>2, <1>4, <1>5, <1>6

LEMMA SendingChannel ==
  ASSUME TypeOK, \/ \E c \in Clients : ClientSends(c)
                 \/ \E w \in Workers : ServerSends(w)
  PROVE  Connection!Next
<1>1. CASE \E c \in Clients : ClientSends(c)
  <2>1. PICK c \in Clients : ClientSends(c)
    BY <1>1
  <2>2. conn[c] \in Workers /\ Sends(Up(conn[c])) /\ UNCHANGED <<worker, client, conn, spoiled, got>>
    BY <2>1, ClientTypes DEF ClientSends, server, ends
  <2> QED
    BY <2>2, LinkNames, SendsChannel
<1>2. CASE \E w \in Workers : ServerSends(w)
  <2>1. PICK w \in Workers : ServerSends(w)
    BY <1>2
  <2>2. Sends(Down(w)) /\ UNCHANGED <<worker, client, conn, spoiled, got>>
    BY <2>1 DEF ServerSends, server, ends
  <2> QED
    BY <2>2, LinkNames, SendsChannel
<1> QED
  BY <1>1, <1>2

LEMMA StepChannel ==
  ASSUME TypeOK, EndIsLast, ChannelInv, [Next]_vars
  PROVE  [Connection!Next]_Connection!vars
<1>1. CASE incomingConnection
  BY <1>1, IncomingChannel
<1>2. CASE ServerHandles
  BY <1>2, EventChannel
<1>3. CASE \/ \E c \in Clients : ClientSends(c)
           \/ \E w \in Workers : ServerSends(w)
  BY <1>3, SendingChannel
<1>4. ASSUME NEW c \in Clients, ClientHandles(c) PROVE [Connection!Next]_Connection!vars
  BY <1>4, HandlesChannel
<1>5. ASSUME NEW c \in Clients, disconnectFromHost(c) \/ ConnectionDrops(c) PROVE [Connection!Next]_Connection!vars
  BY <1>5, LosesChannel
<1>6. CASE \/ ConnectionRefused \/ userDisconnected \/ UNCHANGED vars
           \/ \E c \in Clients : connectToServer(c) \/ ClientReads(c) \/ ClientReadsLate(c)
           \/ \E w \in Workers : WorkerReads(w) \/ WorkerDisconnected(w)
  BY <1>6, RestChannel
<1> QED
  BY <1>1, <1>2, <1>3, <1>4, <1>5, <1>6 DEF Next, ClientNext, WorkerNext

\* A connection is a channel in each direction, in the sense of Channel: the
\* messages of a link are handled each once and in the order in which they were
\* sent, however the stream is cut into pieces and whenever a connection ends.
THEOREM IsChannelHolds == Spec => IsChannel
<1>1. Init => Connection!Init
  <2> SUFFICES ASSUME Init PROVE Connection!Init
    OBVIOUS
  <2>1. \A l \in Links : LinkState(l) = "new" /\ got[l] = <<>>
    BY LinkOf DEF Init, LinkState
  <2> QED
    BY <2>1 DEF Init, Connection!Init
<1>2. TypeOK /\ EndIsLast /\ ChannelInv /\ [Next]_vars => [Connection!Next]_Connection!vars
  BY StepChannel
<1> QED
  BY <1>1, <1>2, TypesKept, EndIsLastHolds, ChannelHolds, PTL DEF Spec, IsChannel, Connection!Spec
=============================================================================
