-------------------------------- MODULE Framing --------------------------------
(***************************************************************************)
(* The frames in which messages cross a connection (Utility/byte_reader.h, *)
(* used by the client and by each worker of the server): eight bytes of    *)
(* size, then the QByteArray of the message.  A byte is a pair of its      *)
(* message and its place in the frame; the lengths are scaled down.        *)
(***************************************************************************)
EXTENDS Integers, Sequences

CONSTANTS
  Messages,
  Header,   \* bytes of the size: 8 in the code
  Size(_)   \* the size written before a message: the bytes of its QByteArray

ASSUME HeaderAssumption == Header \in Nat \ {0}
ASSUME SizeAssumption == \A m \in Messages : Size(m) \in Nat \ {0}

Garbled == <<>>   \* what is read out of bytes that are not a frame
Endless == -1     \* a size that no stream reaches

\* What sendByteArray writes.
Frame(m) == [k \in 1 .. Header + Size(m) |-> <<m, k>>]

\* A reader keeps what it received and could not use yet, and the size of the
\* message it waits for, 0 when it has not read one.
Empty == [received |-> <<>>, expected |-> 0]

\* The size at the head of the bytes.  Bytes that are not the head of a frame
\* make any number: it is taken to be one so large that the reader waits for ever.
ReadSize(received) ==
  LET m == received[1][1]
  IN  IF SubSeq(received, 1, Header) = SubSeq(Frame(m), 1, Header) THEN Size(m) ELSE Endless

\* The message in the first `size' bytes after the header.
Parsed(received, size) ==
  LET m == received[1][1]
  IN  IF SubSeq(received, 1, Header + size) = Frame(m) THEN m ELSE Garbled

Reading ==
  [received : Seq(Messages \X (Nat \ {0})), expected : Nat \cup {Endless},
   emitted : Seq(Messages \cup {Garbled})]

\* Mutated form: whatever came after the message is dropped with it.
parseJsonAll(r, size) ==
  [received |-> <<>>, expected |-> 0, emitted |-> Append(r.emitted, Parsed(r.received, size))]

\* A complete message is emitted and removed.
parseJson(r, size) ==
  [received |-> SubSeq(r.received, Header + size + 1, Len(r.received)),
   expected |-> 0,
   emitted |-> Append(r.emitted, Parsed(r.received, size))]

\* The size of the message that the bytes begin with, read once; and whether
\* that message is all there.
Wanted(r) == IF r.expected = 0 THEN ReadSize(r.received) ELSE r.expected
Whole(r) == Len(r.received) >= Header /\ Wanted(r) \in 1 .. Len(r.received) - Header

Waiting(r) == IF Len(r.received) < Header THEN r ELSE [r EXCEPT !.expected = Wanted(r)]

\* Messages are taken from the bytes as long as there is a complete one.
ReadOn[r \in Reading] == IF Whole(r) THEN ReadOn[parseJson(r, Wanted(r))] ELSE Waiting(r)

\* A reader that receives some bytes; the messages it emits are in `emitted'.
\* Bytes that come while it works are as good as bytes that came before.
onReadyRead_helper(reader, bytes) ==
  ReadOn[[received |-> reader.received \o bytes, expected |-> reader.expected, emitted |-> <<>>]]

Reader(r) == [received |-> r.received, expected |-> r.expected]
=============================================================================
