------------------------------ MODULE MCNetwork ------------------------------
(***************************************************************************)
(* Constants of the TLC run of Network.                                    *)
(***************************************************************************)
EXTENDS Network

MCMessages == Links \X (1 .. MaxSent)

\* The first message of a link is longer than the second: its QByteArray has a
\* byte of length and one or none of contents.
MCSize(m) == IF m[2] = 1 THEN 2 ELSE 1

\* Clients that come and go; one that comes back; one that stays; two at once.
MCLimits ==
  {[clients |-> Clients, workers |-> 4, sent |-> 0],
   [clients |-> {"c1"}, workers |-> 2, sent |-> 2],
   [clients |-> {"c1"}, workers |-> 1, sent |-> 3],
   [clients |-> {"c1", "c2"}, workers |-> 2, sent |-> 1]}
=============================================================================
