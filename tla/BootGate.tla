------------------------------- MODULE BootGate -------------------------------
(***************************************************************************)
(* What the tools field promises to those who derive a gate from it (the   *)
(* comment on toolsStatus): it says syncing until the boot pass has a      *)
(* verdict, takes that verdict first and never says syncing again.         *)
(*                                                                         *)
(* ToolsStatus implements it; CreateGate, whose gate and whose restorer    *)
(* read the field, takes its step from it.                                 *)
(***************************************************************************)
CONSTANTS
    Verdicts,       \* what a boot pass or a job can come to
    Undecided       \* no verdict of the boot pass yet

VARIABLES
    field,          \* what /api/health says of the tools
    verdict         \* what the boot pass came to

vars == <<field, verdict>>

Init == field = "syncing" /\ verdict = Undecided

\* The boot pass comes to its verdict.
Decide ==
    /\ verdict = Undecided
    /\ verdict' \in Verdicts
    /\ UNCHANGED field

\* recordBoot: the gate lifts.
Lift ==
    /\ field = "syncing" /\ verdict # Undecided
    /\ field' = verdict
    /\ UNCHANGED verdict

\* Later jobs are folded in (observeJob).
Follow ==
    /\ field # "syncing"
    /\ field' \in Verdicts
    /\ UNCHANGED verdict

Next == Decide \/ Lift \/ Follow

Spec == Init /\ [][Next]_vars
=============================================================================
