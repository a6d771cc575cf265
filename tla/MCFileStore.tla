------------------------------ MODULE MCFileStore ------------------------------
(***************************************************************************)
(* Constants of the TLC runs of FileStore.                                 *)
(***************************************************************************)
EXTENDS FileStore

CONSTANTS u1, u2

\* u1 is the author of every file; or each user is the author of one.
MCAuthorOne == [f \in Files |-> u1]
MCAuthorEach == [f \in Files |-> IF f = "f2,u2" THEN u2 ELSE u1]
=============================================================================
