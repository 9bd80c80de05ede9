--------------------------- MODULE MCTabRestorePlan --------------------------
(***************************************************************************)
(* TabRestorePlan for TLC: two conversations, a step of the first, and an  *)
(* id that cannot be resumed.                                              *)
(***************************************************************************)
EXTENDS TabRestorePlan

CONSTANTS c1, c2, s1, m1

TwoConvs   == {c1, c2}
OneStep    == {s1}
OneBadId   == {m1}
LauncherOf == [s \in Step |-> c1]
=============================================================================
