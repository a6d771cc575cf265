------------------------------- MODULE MCAccounts -------------------------------
(***************************************************************************)
(* Constants of the TLC run of Accounts.                                   *)
(***************************************************************************)
EXTENDS Accounts

\* One account; all user names begin with the same nickname.
MCRegistered == [u \in {"ann"} |-> "p"]
MCFirstPart == [u \in Users |-> "a"]

MCAnnAtHome == [c \in {"c1"} |-> "ann"]
MCTwoAndOne == [c \in Clients |-> IF c = "c1" THEN 2 ELSE 1]
MCOneUser == [c \in Clients |-> IF c = "c1" THEN 3 ELSE 0]

\* Two clients that begin with nothing; one that is logged in and may lose its
\* connection, beside another with one request; one alone, logged in or not, with
\* more requests.
MCStarts ==
  {[home |-> <<>>, drops |-> 0, requests |-> [c \in Clients |-> 2]],
   [home |-> MCAnnAtHome, drops |-> 1, requests |-> MCTwoAndOne],
   [home |-> MCAnnAtHome, drops |-> 0, requests |-> MCOneUser],
   [home |-> <<>>, drops |-> 1, requests |-> MCOneUser]}

\* Calls that fail, of those whose errors the server looks at.
MCFailing == {"login", "signup"} \X {"QUERY_ERROR"}
=============================================================================
