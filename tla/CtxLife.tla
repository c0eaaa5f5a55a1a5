------------------------------ MODULE CtxLife ------------------------------
(***************************************************************************)
(* What package cmd promises about a command context, whatever its         *)
(* goroutines do: a context is made once, by a live one; its function      *)
(* ends once, asking for an exit status; after that, and only after that,  *)
(* its wait channel is closed with that status, and once only.  The main   *)
(* context's end ends the process, with code 1 exactly when it asked for a *)
(* status.  After the process exits nothing happens.  CmdCtx implements    *)
(* this specification under the mapping CmdCtx!Life.                       *)
(***************************************************************************)
EXTENDS Integers

CONSTANTS Ctxs, Main

\* Exit statuses: none (""), a text ("e"), "failure".
Stss == {"", "e", "failure"}

\* The wait channel: open, closed with no error, or closed with one.
Open == <<"open", "">>
Nil == <<"nil", "">>

VARIABLES
    life,       \* [Ctxs -> "none", "live", "ended" or "closed"]
    want,       \* [Ctxs -> the status its end asked for, or "running"]
    wcs,        \* [Ctxs -> its wait channel]
    exited      \* the process's exit code, or -1

avars == <<life, want, wcs, exited>>

Running == exited = -1

\* How wc is closed for a status.
Closing(s) == IF s = "" THEN Nil ELSE <<"err", s>>

Init ==
    /\ life = [c \in Ctxs |-> IF c = Main THEN "live" ELSE "none"]
    /\ want = [c \in Ctxs |-> "running"]
    /\ wcs = [c \in Ctxs |-> Open]
    /\ exited = -1

\* A live context makes c.
Create(c) ==
    /\ Running /\ life[c] = "none" /\ \E a \in Ctxs : life[a] = "live"
    /\ life' = [life EXCEPT ![c] = "live"]
    /\ UNCHANGED <<want, wcs, exited>>

\* c's function ends, asking for status s.
End(c, s) ==
    /\ Running /\ life[c] = "live"
    /\ life' = [life EXCEPT ![c] = "ended"]
    /\ want' = [want EXCEPT ![c] = s]
    /\ UNCHANGED <<wcs, exited>>

\* c's wait channel is closed with the status its end asked for.
CloseCtx(c) ==
    /\ Running /\ life[c] = "ended"
    /\ life' = [life EXCEPT ![c] = "closed"]
    /\ wcs' = [wcs EXCEPT ![c] = Closing(want[c])]
    /\ UNCHANGED <<want, exited>>

\* main returns: its wait channel is closed and the process exits 0.
MainReturn ==
    /\ Running /\ life[Main] = "live"
    /\ life' = [life EXCEPT ![Main] = "closed"]
    /\ want' = [want EXCEPT ![Main] = ""]
    /\ wcs' = [wcs EXCEPT ![Main] = Nil]
    /\ exited' = 0

\* main, closed after an Exit or Fatal, exits: 1 for a status, else 0.
Exit ==
    /\ Running /\ life[Main] = "closed"
    /\ exited' = IF want[Main] = "" THEN 0 ELSE 1
    /\ UNCHANGED <<life, want, wcs>>

Next ==
    \/ \E c \in Ctxs : Create(c) \/ CloseCtx(c)
    \/ \E c \in Ctxs, s \in Stss : End(c, s)
    \/ MainReturn \/ Exit

\* A context whose function ended is closed, and a closed main exits.
Spec == Init /\ [][Next]_avars /\ \A c \in Ctxs : WF_avars(CloseCtx(c)) /\ WF_avars(Exit)

=============================================================================
