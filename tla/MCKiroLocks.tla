----------------------------- MODULE MCKiroLocks ------------------------------
(***************************************************************************)
(* KiroLocks for TLC.  The clock's four values bound the boots that find a *)
(* lock of the one before; a program can be the second of its conversation *)
(* but not the third.                                                      *)
(***************************************************************************)
EXTENDS KiroLocks, TLC

CONSTANTS c1, c2

TwoConvs == {c1, c2}

Symmetry == Permutations(Conversation)
=============================================================================
