------------------------------ MODULE MCPresence ------------------------------
(***************************************************************************)
(* Constants of the TLC run of Presence.                                   *)
(***************************************************************************)
EXTENDS Presence

CONSTANTS f1

\* Three users who open a file each; one who comes back; two who open two files,
\* with the events handled in the middle of a load; users who take turns.
MCLimits ==
  {[files |-> {f1}, visits |-> 3, logins |-> 1, opened |-> 3, opens |-> 1, moves |-> 1, drops |-> 1, nested |-> FALSE],
   [files |-> {f1}, visits |-> 3, logins |-> 1, opened |-> 4, opens |-> 2, moves |-> 0, drops |-> 0, nested |-> FALSE],
   [files |-> Files, visits |-> 2, logins |-> 1, opened |-> 4, opens |-> 2, moves |-> 1, drops |-> 0, nested |-> TRUE],
   [files |-> {f1}, visits |-> 2, logins |-> 2, opened |-> 4, opens |-> 2, moves |-> 1, drops |-> 1, nested |-> FALSE]}

Symmetry == Permutations(Clients) \cup Permutations(Users)
=============================================================================
