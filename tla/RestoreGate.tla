----------------------------- MODULE RestoreGate ------------------------------
(***************************************************************************)
(* What restorePending promises to whoever opens a tab (main.go, the       *)
(* comment on restorePending; routes.go, restorePendingGate).              *)
(*                                                                         *)
(* A boot finds a saved set.  While it is pending a tab opens only because *)
(* it is in that set, and each one once; when all of them were handled the *)
(* gate lifts, for good, and tabs open as their user likes.                *)
(*                                                                         *)
(* TabPersistence, which has the restorer and the saves, and CreateGate,   *)
(* which has the pages that ask and the programs they start, both          *)
(* implement it.                                                           *)
(***************************************************************************)
CONSTANT Tab

VARIABLES
    pending,        \* the restore is not over
    todo,           \* the saved tabs not handled yet
    open            \* the tabs that run

gateVars == <<pending, todo, open>>

GateInit ==
    /\ todo \in SUBSET Tab
    /\ pending = (todo # {})
    /\ open = {}

\* A boot, or an end that leaves nothing.
Reboot ==
    /\ todo' \in SUBSET Tab
    /\ pending' = (todo' # {})
    /\ open' = {}

\* A saved tab comes back, or fails to.
Restore(t) ==
    /\ pending
    /\ t \in todo \ open
    /\ todo' = todo \ {t}
    /\ open' \in {open, open \cup {t}}
    /\ UNCHANGED pending

Lift ==
    /\ pending /\ todo = {}
    /\ pending' = FALSE
    /\ UNCHANGED <<todo, open>>

OpenNew(t) ==
    /\ ~pending
    /\ open' = open \cup {t}
    /\ UNCHANGED <<pending, todo>>

Close(t) ==
    /\ open' = open \ {t}
    /\ UNCHANGED <<pending, todo>>

GateNext ==
    \/ Reboot \/ Lift
    \/ \E t \in Tab : Restore(t) \/ OpenNew(t) \/ Close(t)

RestoreGateSpec == GateInit /\ [][GateNext]_gateVars
=============================================================================
