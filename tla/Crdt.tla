---------------------------------- MODULE Crdt ----------------------------------
(***************************************************************************)
(* One editor's copy of a document: Client/CRDT.cpp, and the part of       *)
(* Client/editor.cpp that keeps the text edit in step with it.             *)
(*                                                                         *)
(* A replica is a record: the lines of symbols (_symbols), the count of    *)
(* symbols without the terminator (size), the characters the text edit     *)
(* shows (text) and what became of the program (state):                    *)
(*   "running"                                                             *)
(*   "aborted"  an index out of range, which QVector asserts in the debug  *)
(*              build and leaves undefined in a release build              *)
(*   "adrift"   a remote change was put at a place the text edit does not  *)
(*              have, or was taken for something the user typed: the       *)
(*              replica is not followed any further                        *)
(* Lines and indices count from 0, as in the code.                         *)
(*                                                                         *)
(* A position is a number: Lseq shows that a new one lies strictly between *)
(* its neighbours and belongs to the site that built it, which is all the  *)
(* code here uses of it.                                                   *)
(***************************************************************************)
EXTENDS Integers, FiniteSets, SequencesExt

CONSTANT MaxPos      \* bound: positions are 1 .. MaxPos
ASSUME MaxPosAssumption == MaxPos \in Nat

Positions == 1 .. MaxPos

NL == "NL"           \* '\n', the last symbol of every line but the last one
NUL == "NUL"         \* '\0', the terminator that ends the last line

NewReplica == [symbols |-> << <<>> >>, size |-> -1, text |-> <<>>,
               state |-> "running"]

InLine(lines, line, index) == line + 1 \in DOMAIN lines /\ index + 1 \in DOMAIN lines[line + 1]
At(lines, line, index) == lines[line + 1][index + 1]
Flatten(lines) == FlattenSeq(lines)
Abort(r) == [r EXCEPT !.state = "aborted"]

-----------------------------------------------------------------------------
(***************************************************************************)
(* The text edit.  A block is a line of the text, without its newline.     *)
(***************************************************************************)

\* QTextDocument::findBlockByNumber(line).position(), 0 for no such block.
BlockStart(text, line) ==
  LET ends == {i \in DOMAIN text : text[i] = NL}
      Before(i) == Cardinality({j \in ends : j <= i})
  IN  IF \E i \in ends : Before(i) = line THEN CHOOSE i \in ends : Before(i) = line
      ELSE 0

\* QTextCursor::blockNumber and positionInBlock of the cursor at an offset.
BlockNumber(text, offset) == Cardinality({i \in 1 .. offset : text[i] = NL})
PositionInBlock(text, offset) == offset - BlockStart(text, BlockNumber(text, offset))

\* Mutated form: the lengths compared strictly.
IsRemoteChangeStrict(before, after, size) ==
  \/ Len(after) > Len(before) /\ Len(after) < size
  \/ Len(after) < Len(before) /\ Len(after) > size

\* on_contentsChange tells a remote change from a local one by comparing the
\* length of the text with the size of the CRDT.
IsRemoteChange(before, after, size) ==
  \/ Len(after) > Len(before) /\ Len(after) <= size
  \/ Len(after) < Len(before) /\ Len(after) >= size

\* A change the text edit makes on behalf of a remote editor.
ShowRemote(r, text) ==
  IF text = r.text \/ IsRemoteChange(r.text, text, r.size)
  THEN [r EXCEPT !.text = text]
  ELSE [r EXCEPT !.state = "adrift"]

\* on_insert and on_insertGroup: the characters go in one piece to the place of
\* the first.
on_insertGroup(r, line, index, chars) ==
  LET offset == BlockStart(r.text, line) + index
  IN  IF r.state # "running" THEN r
      ELSE IF offset > Len(r.text) THEN [r EXCEPT !.state = "adrift"]
      ELSE ShowRemote(r, SubSeq(r.text, 1, offset) \o chars
                         \o SubSeq(r.text, offset + 1, Len(r.text)))

\* on_erase: `length' characters from the place of the first, or up to the end.
on_erase(r, line, index, length) ==
  LET offset == BlockStart(r.text, line) + index
  IN  IF r.state # "running" THEN r
      ELSE IF offset > Len(r.text) THEN [r EXCEPT !.state = "adrift"]
      ELSE ShowRemote(r, SubSeq(r.text, 1, offset)
                         \o SubSeq(r.text, offset + length + 1, Len(r.text)))

-----------------------------------------------------------------------------
(***************************************************************************)
(* Searching the lines.                                                    *)
(***************************************************************************)

\* Mutated form: the half that holds the middle element is dropped.
HalfPast(keys, p, w) ==
  LET mid == w[1] + (w[2] - w[1]) \div 2
  IN  IF w[1] + 1 >= w[2] THEN w
      ELSE IF p = keys[mid + 1] THEN <<mid, mid>>
      ELSE IF p < keys[mid + 1] THEN <<w[1], mid - 1>> ELSE <<mid, w[2]>>

\* One round of the loop over the window w: at most two elements are left, or
\* one half goes, or the element that is equal is what is left.
Half(keys, p, w) ==
  LET mid == w[1] + (w[2] - w[1]) \div 2
  IN  IF w[1] + 1 >= w[2] THEN w
      ELSE IF p = keys[mid + 1] THEN <<mid, mid>>
      ELSE IF p < keys[mid + 1] THEN <<w[1], mid>> ELSE <<mid, w[2]>>

\* The binary search the four functions below share, in as many rounds as it can
\* take: each leaves one element less, down to two.
Narrow(keys, p) ==
  LET window[n \in 0 .. Len(keys)] ==
        IF n = 0 THEN <<0, Len(keys) - 1>> ELSE Half(keys, p, window[n - 1])
  IN  window[IF Len(keys) <= 2 THEN 0 ELSE Len(keys) - 2]

LineKeys(lines) == [l \in DOMAIN lines |-> Last(lines[l]).pos]
IndexKeys(line) == [i \in DOMAIN line |-> line[i].pos]

\* The line whose last symbol is the first one not before p.
SearchLine(lines, p) ==
  LET keys == LineKeys(lines)
      w == Narrow(keys, p)
  IN  IF p <= keys[w[1] + 1] THEN w[1] ELSE w[2]

\* `false' at the end is the index 0; the line count stands for the line size.
findIndexInLine(lines, line, p) ==
  LET keys == IndexKeys(line)
      w == Narrow(keys, p)
  IN  IF line = <<>> \/ p < keys[1] THEN 0
      ELSE IF p > Last(keys) THEN Len(lines)
      ELSE IF p = keys[w[1] + 1] THEN w[1]
      ELSE IF p = keys[w[2] + 1] THEN w[2]
      ELSE 0

findInsertIndexInLine(lines, line, p) ==
  LET keys == IndexKeys(line)
      w == Narrow(keys, p)
  IN  IF line = <<>> \/ p < keys[1] THEN 0
      ELSE IF p > Last(keys) THEN Len(lines)
      ELSE IF p = keys[w[1] + 1] THEN w[1]
      ELSE w[2]

Place(line, index) == [kind |-> "found", line |-> line, index |-> index]
Absent == [kind |-> "absent"]
OutOfRange == [kind |-> "abort"]

\* The last symbol of an empty last line is read in both searches.
findPosition(lines, p) ==
  IF lines = <<>> THEN OutOfRange
  ELSE IF lines = << <<>> >> \/ p < At(lines, 0, 0).pos THEN Absent
  ELSE IF Last(lines) = <<>> THEN OutOfRange
  ELSE IF p > Last(Last(lines)).pos THEN Absent
  ELSE LET l == SearchLine(lines, p)
       IN  Place(l, findIndexInLine(lines, lines[l + 1], p))

findEndPosition(lines) ==
  IF Last(Last(lines)).val = NL THEN Place(Len(lines), 0)
  ELSE Place(Len(lines) - 1, Len(Last(lines)))

findInsertPosition(lines, p) ==
  IF lines = <<>> \/ lines = << <<>> >> THEN Place(0, 0)
  ELSE IF p <= At(lines, 0, 0).pos THEN Place(0, 0)
  ELSE IF Last(lines) = <<>> THEN OutOfRange
  ELSE IF p > Last(Last(lines)).pos THEN findEndPosition(lines)
  ELSE LET l == SearchLine(lines, p)
       IN  Place(l, findInsertIndexInLine(lines, lines[l + 1], p))

-----------------------------------------------------------------------------
(***************************************************************************)
(* Changing the lines.                                                     *)
(***************************************************************************)

SetLine(lines, l, line) == [lines EXCEPT ![l + 1] = line]

\* A newline splits the line and stays in the first half.
insertChar(lines, s, l, i) ==
  LET line == lines[l + 1]
      head == SubSeq(line, 1, i)
      tail == SubSeq(line, i + 1, Len(line))
  IN  IF s.val = NL
      THEN SubSeq(lines, 1, l) \o <<Append(head, s), tail>> \o SubSeq(lines, l + 2, Len(lines))
      ELSE SetLine(lines, l, head \o <<s>> \o tail)

\* The insertion a QVector accepts: an existing line, an index up to its size.
CanInsert(lines, at) ==
  at.kind = "found" /\ at.line < Len(lines) /\ at.index <= Len(lines[at.line + 1])

\* Without the symbol at l and i; a line that lost its newline absorbs the next.
EraseSymbol(lines, l, i, newLineRemoved) ==
  LET line == RemoveAt(lines[l + 1], i + 1)
  IN  IF newLineRemoved /\ l + 1 < Len(lines)
      THEN RemoveAt(SetLine(lines, l, line \o lines[l + 2]), l + 2)
      ELSE SetLine(lines, l, line)

-----------------------------------------------------------------------------
(***************************************************************************)
(* Operations of other editors.                                            *)
(***************************************************************************)

\* The part of handleRemoteInsert and handleRemotePaste that changes the CRDT.
InsertRemote(r, s) ==
  LET at == findInsertPosition(r.symbols, s.pos)
  IN  IF r.state # "running" THEN r
      ELSE IF ~CanInsert(r.symbols, at) THEN Abort(r)
      ELSE [r EXCEPT !.symbols = insertChar(@, s, at.line, at.index), !.size = @ + 1]

handleRemoteInsert(r, s) ==
  LET at == findInsertPosition(r.symbols, s.pos)
      done == InsertRemote(r, s)
  IN  IF s.val = NUL THEN done ELSE on_insertGroup(done, at.line, at.index, <<s.val>>)

\* The alignment of a line is kept by its last symbol, whichever symbol of the
\* line the operation names.
handleRemoteAlignChange(r, s) ==
  LET at == findPosition(r.symbols, s.pos)
  IN  IF r.state # "running" \/ at.kind = "absent" THEN r
      ELSE IF at.kind = "abort" THEN Abort(r)
      ELSE LET line == r.symbols[at.line + 1]
           IN  [r EXCEPT !.symbols =
                  SetLine(@, at.line, [line EXCEPT ![Len(line)].align = s.align])]

\* A symbol that ends a line brings the alignment of the line.
AlignLineEnd(r, s) == IF s.val \in {NL, NUL} THEN handleRemoteAlignChange(r, s) ELSE r

\* The characters for the text edit: the terminator is not one of them.
AppendChar(chars, s) == IF s.val = NUL THEN chars ELSE Append(chars, s.val)

handleRemotePaste(r, symbols) ==
  LET first == findInsertPosition(r.symbols, symbols[1].pos)
      inserted == FoldLeft(InsertRemote, r, symbols)
      partial == FoldLeft(AppendChar, <<>>, symbols)
  IN  FoldLeft(AlignLineEnd, on_insertGroup(inserted, first.line, first.index, partial), symbols)

\* One round of handleRemoteErase; `on' turns FALSE at the early return.
EraseRound(acc, s) ==
  LET at == findPosition(acc.r.symbols, s.pos)
      lines == acc.r.symbols
      emptied == at.index = 0 /\ Len(lines[at.line + 1]) = 1
      joins == s.val = NL /\ at.line + 1 < Len(lines)
  IN  IF ~acc.on THEN acc
      ELSE IF at.kind = "absent" THEN [acc EXCEPT !.on = FALSE]
      ELSE IF at.kind = "abort" THEN [r |-> Abort(acc.r), on |-> FALSE]
      ELSE [r |-> [acc.r EXCEPT !.symbols =
                                  IF emptied /\ ~joins THEN RemoveAt(@, at.line + 1)
                                  ELSE EraseSymbol(@, at.line, at.index, s.val = NL),
                                !.size = @ - 1],
            on |-> TRUE]

\* Mutated form: the text edit is not told.
handleRemoteEraseShort(r, symbols) ==
  LET acc == FoldLeft(EraseRound, [r |-> r, on |-> r.state = "running"], symbols)
  IN  acc.r

handleRemoteErase(r, symbols) ==
  LET first == findPosition(r.symbols, symbols[1].pos)
      acc == FoldLeft(EraseRound, [r |-> r, on |-> r.state = "running"], symbols)
  IN  IF acc.on THEN on_erase(acc.r, first.line, first.index, Len(symbols))
      ELSE acc.r

\* The symbol found is overwritten; a symbol that is not found ends the loop.
ChangeRound(acc, s) ==
  LET at == findPosition(acc.r.symbols, s.pos)
  IN  IF ~acc.on THEN acc
      ELSE IF at.kind = "absent" THEN [acc EXCEPT !.on = FALSE]
      ELSE IF at.kind = "abort" THEN [r |-> Abort(acc.r), on |-> FALSE]
      ELSE [r |-> [acc.r EXCEPT !.symbols[at.line + 1][at.index + 1] = s], on |-> TRUE]

handleRemoteChange(r, symbols) ==
  FoldLeft(ChangeRound, [r |-> r, on |-> r.state = "running"], symbols).r

-----------------------------------------------------------------------------
(***************************************************************************)
(* Operations of the user.  on_contentsChange runs after the text changed. *)
(***************************************************************************)

\* The positions around a place: 0 and MaxPos + 1 stand for the empty position.
findPosBefore(lines, l, i) ==
  IF i > 0 THEN At(lines, l, i - 1).pos
  ELSE IF l > 0 THEN Last(lines[l]).pos
  ELSE 0

findPosAfter(lines, l, i) ==
  IF l >= Len(lines) THEN MaxPos + 1
  ELSE IF i < Len(lines[l + 1]) THEN At(lines, l, i).pos
  ELSE IF l < Len(lines) - 1 THEN At(lines, l + 1, 0).pos
  ELSE MaxPos + 1

\* Mutated form: the place stays in the line that the newline ends.
LocalInsertRoundSameLine(acc, s) ==
  IF ~CanInsert(acc.lines, Place(acc.line, acc.index)) THEN [acc EXCEPT !.ok = FALSE]
  ELSE [acc EXCEPT !.lines = insertChar(acc.lines, s, acc.line, acc.index),
                   !.index = @ + 1]

\* The lines after localInsertGroup, which moves on to the next line after a
\* newline; localInsert is the group of one.
LocalInsertRound(acc, s) ==
  IF ~CanInsert(acc.lines, Place(acc.line, acc.index)) THEN [acc EXCEPT !.ok = FALSE]
  ELSE [lines |-> insertChar(acc.lines, s, acc.line, acc.index),
        line |-> IF s.val = NL THEN acc.line + 1 ELSE acc.line,
        index |-> IF s.val = NL THEN 0 ELSE acc.index + 1,
        ok |-> acc.ok]

localInsertGroup(r, line, index, symbols) ==
  LET acc == FoldLeft(LocalInsertRound,
                      [lines |-> r.symbols, line |-> line, index |-> index, ok |-> TRUE],
                      symbols)
  IN  IF acc.ok THEN [r EXCEPT !.symbols = acc.lines, !.size = @ + Len(symbols)]
      ELSE Abort(r)

\* localErase takes `length' symbols away at one place.
LocalEraseRound(acc, n) ==
  IF ~InLine(acc.lines, acc.line, acc.index) THEN [acc EXCEPT !.ok = FALSE]
  ELSE LET s == At(acc.lines, acc.line, acc.index)
       IN  [acc EXCEPT !.lines = EraseSymbol(@, acc.line, acc.index, s.val = NL),
                       !.gone = Append(@, s)]

\* The lines without the symbols, and the symbols for the broadcast.
LocalErased(r, line, index, length) ==
  FoldLeft(LocalEraseRound,
           [lines |-> r.symbols, line |-> line, index |-> index, gone |-> <<>>, ok |-> TRUE],
           [n \in 1 .. length |-> n])

localErase(r, line, index, length) ==
  LET acc == LocalErased(r, line, index, length)
  IN  IF acc.ok THEN [r EXCEPT !.symbols = acc.lines, !.size = @ - length]
      ELSE Abort(r)

\* localChangeGroup: every symbol from one place to another, newlines included.
InRange(l, i, l1, i1, l2, i2) ==
  /\ l > l1 \/ (l = l1 /\ i >= i1)
  /\ l < l2 \/ (l = l2 /\ i <= i2)

localChangeGroup(r, l1, i1, l2, i2, fmt) ==
  [r EXCEPT !.symbols =
     [l \in DOMAIN @ |-> [i \in DOMAIN @[l] |->
        IF InRange(l - 1, i - 1, l1, i1, l2, i2) THEN [@[l][i] EXCEPT !.fmt = fmt]
        ELSE @[l][i]]]]

\* The symbols of a range, for the broadcast.
SymbolsInRange(lines, l1, i1, l2, i2) ==
  FlattenSeq([l \in DOMAIN lines |->
    LET from == IF l - 1 = l1 THEN i1 + 1 ELSE 1
        to == IF l - 1 = l2 THEN i2 + 1 ELSE Len(lines[l])
    IN  IF l - 1 < l1 \/ l - 1 > l2 THEN <<>> ELSE SubSeq(lines[l], from, to)])

\* localChangeAlignment for each of some lines.
localChangeAlignment(r, lines, align) ==
  [r EXCEPT !.symbols = [l \in DOMAIN @ |->
     IF l - 1 \in lines THEN [@[l] EXCEPT ![Len(@[l])].align = align] ELSE @[l]]]
=============================================================================
