-------------------------------- MODULE MCIxEd -------------------------------
(* Instances of IxEd for TLC: command and file windows, two commands.      *)
EXTENDS IxEd, TLC

CONSTANTS c1, c2, w1, k1, k2

TwoCmdWins == {c1, c2}
AllEds == {c1, c2, w1}
OneCmdWin == {c1}
OneEdPair == {c1, w1}
TwoCmds == {k1, k2}
OneCmd == {k1}

Symmetry == Permutations(TwoCmds)
=============================================================================
