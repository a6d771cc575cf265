-------------------------------- MODULE MCCollab --------------------------------
(***************************************************************************)
(* Constants of the TLC runs of Collab.                                    *)
(***************************************************************************)
EXTENDS Collab

CONSTANTS c1, c2, c3

Char(p, v) == Symbol(p, v, "plain", "left")

\* A document with nothing but the terminator; one with two lines.
MCBlank == {Char(MaxPos, NUL)}
MCLines == {Char(1, "a"), Char(2, NL), Char(4, "b"), Char(MaxPos, NUL)}

\* The keys of the map sort like the positions; or the other way round below
\* the terminator.
MCKeyRank == [p \in Positions |-> p]
MCKeyRankMixed == [p \in Positions |-> IF p = MaxPos THEN p ELSE MaxPos - p]

\* Positions up to a bound alternate between the editors: between two of them
\* there is room for each editor.
Alternate(last, first, second) ==
  [p \in Positions |-> IF p > last /\ p # MaxPos THEN NoSite ELSE IF p % 2 = 1 THEN first ELSE second]
Thirds == [p \in Positions |-> IF p % 3 = 1 THEN c1 ELSE IF p % 3 = 2 THEN c2 ELSE c3]
\* One editor builds the positions between and after the symbols of MCLines.
Fresh(last, site) == [p \in Positions |-> IF p \in {1, 2, 4} \/ p > last THEN NoSite ELSE site]

\* Users touch what they typed; one user edits what all typed; all do.
Own(owner) == [c \in Clients |-> {p \in Positions : owner[p] = c}]
OnlyFirst == [c \in Clients |-> IF c = c1 THEN Positions ELSE {}]
All == [c \in Clients |-> Positions]
Do(editors, kinds) == [c \in Clients |-> IF c \in editors THEN kinds ELSE {}]

\* Two users, a symbol at a time.
Pair ==
  LET owner == Alternate(6, c1, c2)
  IN  [present |-> {c1, c2}, owner |-> owner, touch |-> Own(owner),
       kinds |-> Do({c1, c2}, {"insert", "erase", "format", "align"}),
       noted |-> {TRUE}, formats |-> Formats, aligns |-> {"right"}, ops |-> 3, group |-> 1]
\* One user, several symbols at a time, another who watches.
Watched ==
  [present |-> {c1, c2}, owner |-> Fresh(6, c1), touch |-> OnlyFirst,
   kinds |-> Do({c1}, {"insert", "erase", "format", "align"}),
   noted |-> {TRUE}, formats |-> {"bold"}, aligns |-> {"right"}, ops |-> 3, group |-> 2]
\* Three users who paste; one of them erases and formats.
Three ==
  [present |-> {c1, c2, c3}, owner |-> Thirds, touch |-> OnlyFirst,
   kinds |-> Do(Clients, {"insert", "erase", "format"}),
   noted |-> {TRUE}, formats |-> Formats, aligns |-> {"left"}, ops |-> 2, group |-> 3]
\* One user types while another opens the document, and closes it.
Joining ==
  LET owner == Alternate(8, c1, c2)
  IN  [present |-> {c1}, owner |-> owner, touch |-> Own(owner),
       kinds |-> Do({c1, c2}, {"insert", "open", "close"}),
       noted |-> {TRUE}, formats |-> {"plain"}, aligns |-> {"left"}, ops |-> 3, group |-> 1]
\* One user types over selections of any symbols, while another types.
Replacing ==
  [present |-> {c1, c2}, owner |-> Alternate(6, c1, c2), touch |-> OnlyFirst,
   kinds |-> [Do({c2}, {"insert"}) EXCEPT ![c1] = {"insert", "replace"}],
   noted |-> {TRUE}, formats |-> {"plain"}, aligns |-> {"left"}, ops |-> 3, group |-> 1]
\* One user types and pastes over selections of several, another watches.  With
\* BOOLEAN for noted a key with Shift over one symbol leaves the CRDT as it was.
Rewriting ==
  [present |-> {c1, c2}, owner |-> Alternate(5, c1, c1), touch |-> OnlyFirst, kinds |-> Do({c1}, {"replace"}),
   noted |-> {TRUE}, formats |-> {"plain"}, aligns |-> {"left"}, ops |-> 2, group |-> 2]
\* Two users erase the same symbols; two paste at the same place.
Erasing ==
  [present |-> {c1, c2}, owner |-> Alternate(4, c1, c2), touch |-> All, kinds |-> Do({c1, c2}, {"erase"}),
   noted |-> {TRUE}, formats |-> {"plain"}, aligns |-> {"left"}, ops |-> 2, group |-> 1]
Pasting ==
  [present |-> {c1, c2}, owner |-> Alternate(4, c1, c2), touch |-> All, kinds |-> Do({c1, c2}, {"insert"}),
   noted |-> {TRUE}, formats |-> {"plain"}, aligns |-> {"left"}, ops |-> 2, group |-> 2]

MCEditing == {Pair, Watched, Three, Joining, Replacing, Rewriting}
MCErasing == {Erasing}
MCPasting == {Pasting}
=============================================================================
