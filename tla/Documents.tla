------------------------------- MODULE Documents -------------------------------
(***************************************************************************)
(* What the store of files promises to those who edit them: each file is   *)
(* one document, that changes by their operations and by nothing else,     *)
(* whoever has it open, comes or goes, and whenever it is saved or leaves  *)
(* the memory.  A crash takes every document back to its saved copy, and   *)
(* loses one at most: the one whose copy is just being replaced.           *)
(***************************************************************************)
EXTENDS Integers

CONSTANTS Files, NoFile

VARIABLES
  doc,    \* the operations that made each document, or NoFile
  saved   \* those of its saved copy, or NoFile

vars == <<doc, saved>>

Init == doc \in [Files -> Nat \cup {NoFile}] /\ saved = doc

\* Every document has a saved copy.
AllSaved == \A f \in Files : doc[f] # NoFile => saved[f] # NoFile

Creates(f) ==
  /\ AllSaved /\ doc[f] = NoFile
  /\ doc' = [doc EXCEPT ![f] = 0]
  /\ saved' = [saved EXCEPT ![f] = 0]

Edits(f) ==
  /\ AllSaved /\ doc[f] # NoFile
  /\ doc' = [doc EXCEPT ![f] = @ + 1]
  /\ UNCHANGED saved

\* A copy is replaced in two steps.
Deletes(f) ==
  /\ AllSaved /\ doc[f] # NoFile
  /\ saved' = [saved EXCEPT ![f] = NoFile]
  /\ UNCHANGED doc

Stores(f) ==
  /\ doc[f] # NoFile
  /\ saved' = [saved EXCEPT ![f] = doc[f]]
  /\ UNCHANGED doc

Crash == doc' = saved /\ UNCHANGED saved

Next == Crash \/ \E f \in Files : Creates(f) \/ Edits(f) \/ Deletes(f) \/ Stores(f)

Spec == Init /\ [][Next]_vars
=============================================================================
