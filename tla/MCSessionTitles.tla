--------------------------- MODULE MCSessionTitles ---------------------------
(***************************************************************************)
(* SessionTitles for TLC.  Tab ids are never reused, so TabId bounds the   *)
(* tabs of one run; every other variable is finite with it.                *)
(***************************************************************************)
EXTENDS SessionTitles

CONSTANTS a, b, c1, c2, s1

OneTab   == {a}
TwoTabs  == {a, b}
OneConv  == {c1}
TwoConvs == {c1, c2}
NoSteps  == {}
OneStep  == {s1}

\* Every step was launched by the first conversation.
LauncherOf == [s \in Step |-> c1]
=============================================================================
