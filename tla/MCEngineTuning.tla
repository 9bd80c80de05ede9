---------------------------- MODULE MCEngineTuning ----------------------------
(***************************************************************************)
(* EngineTuning for TLC.  Two versions of kiro-cli, one of them with the   *)
(* validated Node.js, and two tabs, so that one unpacks while another's    *)
(* check reads.                                                            *)
(***************************************************************************)
EXTENDS EngineTuning

CONSTANTS e1, e2, t1, t2

TwoEngines == {e1, e2}
OnlyFirst  == {e1}
TwoTabs    == {t1, t2}
=============================================================================
