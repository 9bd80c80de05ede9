----------------------------- MODULE MCCreateGate -----------------------------
(***************************************************************************)
(* CreateGate for TLC: two pages and a burst of one, so that the second    *)
(* creation meets an empty bucket; every page asks for one tab, which      *)
(* bounds the run.                                                         *)
(***************************************************************************)
EXTENDS CreateGate

CONSTANTS p1, p2, t1

TwoPages == {p1, p2}
OneTab   == {t1}

EveryReason  == {"installing", "retrying", "unavailable", "assertion"}
OneReason    == {"installing"}
=============================================================================
