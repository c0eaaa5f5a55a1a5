------------------------------ MODULE MCRzxCall ------------------------------
(* Instances of RzxCall for TLC.  Envelopes on one mux share nothing but   *)
(* the mux's hangup, so one envelope, of any kind, is checked at a time.   *)
EXTENDS RzxCall, TLC

CONSTANTS e1

One == {e1}
AllOps == Kinds
AllModes == Modes
=============================================================================
