------------------------------ MODULE MCRzxDial ------------------------------
(* Instantiates RzxDial for TLC: one server endpoint that lists the tree   *)
(* "work" (and "main" by convention), a tree name "gone" it does not      *)
(* serve, three Fs structs and three connections; one or two callers.     *)
EXTENDS RzxDial, TLC

CONSTANTS p1, p2, h1, h2, h3, e1

TwoProcs == {p1, p2}
OneProc == {p1}
MCHandles == {h1, h2, h3}
TwoHandles == {h1, h2}
MCEndpoints == {e1}
MCTreeNames == {"main", "work", "gone"}
MCServed == [e \in MCEndpoints |-> {"work"}]
AllOps == {"redial", "close", "fsys"}
NoRedial == {"close", "fsys"}

Symmetry == Permutations(TwoProcs) \cup Permutations(MCHandles)
=============================================================================
