---------------------------- MODULE MCGitHubLimit -----------------------------
(***************************************************************************)
(* GitHubLimit for TLC: a minute of three ticks, and resets within it and  *)
(* beyond it.                                                              *)
(***************************************************************************)
EXTENDS GitHubLimit

WithinAndBeyond == {2, 4}
=============================================================================
