----------------------------- MODULE MCInkLogin -----------------------------
(* Two concurrent login requests and two destinations.                    *)
EXTENDS InkLogin

CONSTANTS r1, r2, d1, d2

TwoReqs == {r1, r2}
TwoDsts == {d1, d2}
=============================================================================
