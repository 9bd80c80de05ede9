--------------------------- MODULE MCWorkflowMarks ---------------------------
(***************************************************************************)
(* WorkflowMarks for TLC: a run launched from a conversation, whose step's *)
(* session the tab's mapping may name instead.                             *)
(***************************************************************************)
EXTENDS WorkflowMarks

CONSTANTS t1, t2, r1, r2, conversation, step

OneTab  == {t1}
OneRun  == {r1}
Sessions == {conversation, step}
FullCycle == {"running", "need_input", "ended"}
Launch   == [r \in Run |-> conversation]
=============================================================================
