-------------------------- MODULE MCCommandManager --------------------------
(* Two workspaces, each started at most twice, for TLC.                      *)
EXTENDS CommandManager, TLC
=============================================================================
