------------------------------ MODULE TabLedger ------------------------------
(***************************************************************************)
(* What the saved tab set promises, without how.                           *)
(*                                                                         *)
(* The ledger is the set of tabs the next boot brings back.  It changes in *)
(* two ways only: a snapshot taken while the open set was SETTLED (wholly  *)
(* the user's: everything that had to come back is back, and no shutdown   *)
(* is emptying it) is recorded, or the whole ledger is set aside before a  *)
(* run begins.  A run that never settles, whatever it opens, leaves it     *)
(* alone; a run can settle only on tabs the ledger itself brought back.    *)
(***************************************************************************)
CONSTANTS
    Tab,
    Nothing         \* no ledger, no snapshot: not a set of tabs

VARIABLES
    ledger,         \* what the next boot brings back: a set of tabs or Nothing
    settled,        \* the open set is the user's
    open,           \* the tabs that are open
    snapshot        \* a set about to be recorded, or Nothing

ledgerVars == <<ledger, settled, open, snapshot>>

LedgerInit ==
    /\ ledger = Nothing
    /\ settled = FALSE
    /\ open = {}
    /\ snapshot = Nothing

\* Tabs come and go: by the user's hand, or by a boot or a shutdown.
Move ==
    /\ open' \in SUBSET Tab
    /\ UNCHANGED <<ledger, settled, snapshot>>

Settle ==
    /\ ~settled
    /\ open \subseteq (IF ledger = Nothing THEN {} ELSE ledger)
    /\ settled' = TRUE
    /\ UNCHANGED <<ledger, open, snapshot>>

Snapshot ==
    /\ settled
    /\ snapshot' = open
    /\ UNCHANGED <<ledger, settled, open>>

Record ==
    /\ snapshot # Nothing
    /\ ledger' = snapshot
    /\ snapshot' = Nothing
    /\ UNCHANGED <<settled, open>>

\* The snapshot was not needed, could not be written, or came too late.
Forget ==
    /\ snapshot' = Nothing
    /\ UNCHANGED <<ledger, settled, open>>

\* A snapshot whose recording began may still be recorded after this.
Unsettle ==
    /\ settled' = FALSE
    /\ snapshot' \in {snapshot, Nothing}
    /\ open' \in {open, {}}
    /\ UNCHANGED ledger

SetAside ==
    /\ ~settled
    /\ snapshot = Nothing
    /\ ledger' = Nothing
    /\ UNCHANGED <<settled, open, snapshot>>

LedgerNext ==
    Move \/ Settle \/ Snapshot \/ Record \/ Forget \/ Unsettle \/ SetAside

LedgerSpec == LedgerInit /\ [][LedgerNext]_ledgerVars
=============================================================================
