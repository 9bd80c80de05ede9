-------------------------- MODULE MCTabPersistence --------------------------
(***************************************************************************)
(* TabPersistence for TLC.  Nothing is bounded: every variable is finite   *)
(* once Tab is, and boots, saves and restores repeat without limit.        *)
(***************************************************************************)
EXTENDS TabPersistence

CONSTANTS t1, t2

TwoTabs == {t1, t2}
=============================================================================
