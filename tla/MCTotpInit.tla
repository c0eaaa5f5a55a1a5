----------------------------- MODULE MCTotpInit -----------------------------
(* Instances of TotpInit for TLC: two browser requests, so that one can   *)
(* wait in once.Do while the other runs its function.                     *)
EXTENDS TotpInit, TLC

CONSTANTS r1, r2

TwoRequests == {r1, r2}
=============================================================================
