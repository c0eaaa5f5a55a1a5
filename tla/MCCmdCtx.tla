------------------------------ MODULE MCCmdCtx ------------------------------
(* The main context and one New may make, with two paths for dot and two  *)
(* values for the environment.                                            *)
EXTENDS CmdCtx, TLC

CONSTANTS m, c1

TwoCtxs == {m, c1}
TwoVals == {"/", "/d"}
=============================================================================
