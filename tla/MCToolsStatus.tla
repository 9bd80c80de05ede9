---------------------------- MODULE MCToolsStatus ----------------------------
(***************************************************************************)
(* ToolsStatus for TLC.  Every job runs at most once, so the sets of jobs  *)
(* bound the run.                                                          *)
(***************************************************************************)
EXTENDS ToolsStatus

CONSTANTS boot, refresh, update, install, gopls

OneJob   == {install}
Counts1  == {boot, install}
OneTool  == {gopls}
=============================================================================
