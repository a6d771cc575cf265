-------------------------------- MODULE Channel --------------------------------
(***************************************************************************)
(* What a connection promises to the program that uses it: the messages    *)
(* sent over a link are handled one at a time, each once, in the order in  *)
(* which they were sent.  That all of them are is a liveness property of   *)
(* Network.                                                                *)
(***************************************************************************)
EXTENDS Naturals, Sequences

CONSTANT Links

VARIABLES
  sent,   \* how many messages were sent over a link: they are its 1st, 2nd...
  got,    \* the messages that were handled
  state   \* a link is "new", then "up", then "lost"

vars == <<sent, got, state>>

Init ==
  /\ sent = [l \in Links |-> 0]
  /\ got = [l \in Links |-> <<>>]
  /\ state = [l \in Links |-> "new"]

\* What is sent over a link that is lost may be lost.
Sends(l) ==
  /\ sent' = [sent EXCEPT ![l] = @ + 1]
  /\ UNCHANGED <<got, state>>

\* What arrived before the link was lost is handled all the same.
Delivers(l) ==
  /\ Len(got[l]) < sent[l]
  /\ got' = [got EXCEPT ![l] = Append(@, Len(@) + 1)]
  /\ UNCHANGED <<sent, state>>

\* Links come up and are lost, those of a connection together.
Changes ==
  /\ state' \in [Links -> {"new", "up", "lost"}]
  /\ \A l \in Links :
       state'[l] # state[l] => \/ state[l] = "new" /\ state'[l] = "up"
                             \/ state'[l] = "lost"
  /\ UNCHANGED <<sent, got>>

Next == Changes \/ \E l \in Links : Sends(l) \/ Delivers(l)

Spec == Init /\ [][Next]_vars
=============================================================================
