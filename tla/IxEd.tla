-------------------------------- MODULE IxEd --------------------------------
(***************************************************************************)
(* The window life cycle of the ix editor (src/unnamed/part_001, lines    *)
(* 149-930).  Each window (an Ed) runs its editLoop inside a command      *)
(* context created by newCmds or newEdit; when the loop ends the context  *)
(* goroutine waits on ed.waitc for a new loop.  Quitting a window runs    *)
(* delEd, which removes it from ix.eds and returns how many commands      *)
(* still run in it; with none, the loop closes waitc and the context      *)
(* ends.  A command started from a click (runCmd) is counted by addCmd    *)
(* and uncounted by delCmd; when it prints (Cmd.printf) into a window     *)
(* that is gone it reopens it: reopen re-adds the window and, holding     *)
(* ix.Lock, sends editLoop on waitc to the context goroutine.             *)
(*                                                                         *)
(* Text, marks, tags and the ink page are left out: a window is a model   *)
(* value, and a command is a model value that prints at most once.  A     *)
(* send on a closed channel fails without a panic, as in clive's Go.      *)
(***************************************************************************)
EXTENDS Naturals, Sequences, FiniteSets

LOCAL SeqX == INSTANCE SequencesExt

CONSTANTS
    Eds,      \* the windows
    CmdEds,   \* those made by newCmds (iscmd); the others by newEdit
    Cmds,     \* commands run from clicks
    NoEd,     \* nil *Ed
    NoCmd     \* nobody holds ix.Lock across steps

ASSUME CmdEds \subseteq Eds /\ NoEd \notin Eds /\ NoCmd \notin Cmds

VARIABLES
    eds,      \* ix.eds, in order
    gone,     \* [Eds -> BOOLEAN] ed.gone
    ncmds,    \* [Eds -> Nat] ed.ncmds
    dot,      \* ix.dot
    msgs,     \* ix.msgs
    ctx,      \* [Eds -> context goroutine]: "none" (not created), "loop"
              \* (running editLoop), "quit" (editLoop after delEd),
              \* "range" (waiting on waitc), "done"
    waitc,    \* [Eds -> {"open", "closed"}] ed.waitc
    qn,       \* [Eds -> Nat] what delEd returned to the quitting loop
    lk,       \* the command whose reopen holds ix.Lock, or NoCmd
    cst,      \* [Cmds -> control point of the command]
    ced,      \* [Cmds -> Eds \cup {NoEd}] c.ed
    failed    \* [Cmds -> BOOLEAN] run.CtxCmd failed

vars == <<eds, gone, ncmds, dot, msgs, ctx, waitc, qn, lk, cst, ced, failed>>

CtxStates == {"none", "loop", "quit", "range", "done"}
CmdStates == {"idle", "chosen", "added", "reopen", "send", "mark",
              "printed", "done"}

TypeOK ==
    /\ eds \in Seq(Eds)
    /\ gone \in [Eds -> BOOLEAN]
    /\ ncmds \in [Eds -> 0..Cardinality(Cmds)]
    /\ dot \in Eds \cup {NoEd} /\ msgs \in Eds \cup {NoEd}
    /\ ctx \in [Eds -> CtxStates] /\ waitc \in [Eds -> {"open", "closed"}]
    /\ qn \in [Eds -> 0..Cardinality(Cmds)]
    /\ lk \in Cmds \cup {NoCmd}
    /\ cst \in [Cmds -> CmdStates] /\ ced \in [Cmds -> Eds \cup {NoEd}]
    /\ failed \in [Cmds -> BOOLEAN]

\* The windows in ix.eds.
Listed == SeqX!ToSet(eds)

\* ix.Lock is free: no reopen is holding it across its send on waitc.
Unlocked == lk = NoCmd

-----------------------------------------------------------------------------
(* Windows                                                                 *)

\* newCmds: append to ix.eds, become ix.msgs if there is none, and start
\* the context whose main function runs editLoop.
NewCmds(e) ==
    /\ e \in CmdEds /\ ctx[e] = "none" /\ Unlocked
    /\ eds' = Append(eds, e)
    /\ msgs' = IF msgs = NoEd THEN e ELSE msgs
    /\ ctx' = [ctx EXCEPT ![e] = "loop"]
    /\ UNCHANGED <<gone, ncmds, dot, waitc, qn, lk, cst, ced, failed>>

\* newEdit: the same for a file window, which never becomes ix.msgs.
NewEdit(e) ==
    /\ e \notin CmdEds /\ ctx[e] = "none" /\ Unlocked
    /\ eds' = Append(eds, e)
    /\ ctx' = [ctx EXCEPT ![e] = "loop"]
    /\ UNCHANGED <<gone, ncmds, dot, msgs, waitc, qn, lk, cst, ced, failed>>

\* editLoop, "focus": ix.dot = ed (without ix.Lock).
Focus(e) ==
    /\ ctx[e] = "loop"
    /\ dot' = e
    /\ UNCHANGED <<eds, gone, ncmds, msgs, ctx, waitc, qn, lk, cst, ced, failed>>

\* delEd picks as the new ix.msgs the last other command window of ix.eds.
NextMsgs(e) ==
    LET i == SeqX!SelectLastInSeq(eds, LAMBDA x : x # e /\ x \in CmdEds)
    IN IF i = 0 THEN NoEd ELSE eds[i]

\* delEd that leaves ix.dot alone.
DelEdKeepDot(e) ==
    /\ ctx[e] = "loop" /\ Unlocked
    /\ gone' = [gone EXCEPT ![e] = TRUE]
    /\ msgs' = IF msgs = e THEN NextMsgs(e) ELSE msgs
    /\ eds' = SeqX!Remove(eds, e)
    /\ qn' = [qn EXCEPT ![e] = ncmds[e]]
    /\ ctx' = [ctx EXCEPT ![e] = "quit"]
    /\ UNCHANGED <<ncmds, dot, waitc, lk, cst, ced, failed>>

\* editLoop on "quit", or when the event channel ends: n := ix.delEd(ed),
\* which under ix.Lock marks the window gone, clears ix.dot and ix.msgs
\* if they are this window, and removes it from ix.eds.
DelEd(e) ==
    /\ ctx[e] = "loop" /\ Unlocked
    /\ gone' = [gone EXCEPT ![e] = TRUE]
    /\ dot' = IF dot = e THEN NoEd ELSE dot
    /\ msgs' = IF msgs = e THEN NextMsgs(e) ELSE msgs
    /\ eds' = SeqX!Remove(eds, e)
    /\ qn' = [qn EXCEPT ![e] = ncmds[e]]
    /\ ctx' = [ctx EXCEPT ![e] = "quit"]
    /\ UNCHANGED <<ncmds, waitc, lk, cst, ced, failed>>

\* The rest of the quit: if n == 0, close(ed.waitc), and the context,
\* ranging over waitc, ends; otherwise the context waits on waitc.
QuitEnd(e) ==
    /\ ctx[e] = "quit"
    /\ IF qn[e] = 0
       THEN waitc' = [waitc EXCEPT ![e] = "closed"]
            /\ ctx' = [ctx EXCEPT ![e] = "done"]
       ELSE ctx' = [ctx EXCEPT ![e] = "range"] /\ UNCHANGED waitc
    /\ UNCHANGED <<eds, gone, ncmds, dot, msgs, qn, lk, cst, ced, failed>>

-----------------------------------------------------------------------------
(* Commands                                                                *)

\* A click2 in window w runs `go ed.runCmd(...)`: a command in a command
\* window runs there; one in a file window runs in a command window that
\* ix.lookCmds finds, or in w when there is none.  run.CtxCmd may fail.
StartCmd(c) ==
    /\ cst[c] = "idle"
    /\ \E w \in Eds, f \in BOOLEAN :
         /\ ctx[w] = "loop"
         /\ \E t \in {w} \cup (IF w \in CmdEds THEN {} ELSE Listed \cap CmdEds) :
              ced' = [ced EXCEPT ![c] = t]
         /\ failed' = [failed EXCEPT ![c] = f]
    /\ cst' = [cst EXCEPT ![c] = "chosen"]
    /\ UNCHANGED <<eds, gone, ncmds, dot, msgs, ctx, waitc, qn, lk>>

\* ed.ix.addCmd(c): c.ed.ncmds++ under ix.Lock.
AddCmd(c) ==
    /\ cst[c] = "chosen" /\ ~failed[c] /\ Unlocked
    /\ ncmds' = [ncmds EXCEPT ![ced[c]] = @ + 1]
    /\ cst' = [cst EXCEPT ![c] = "added"]
    /\ UNCHANGED <<eds, gone, dot, msgs, ctx, waitc, qn, lk, ced, failed>>

\* c.printf: `if c.ed.gone { ix.reopen(c.ed) }`, read without ix.Lock.
\* A running command prints its output; a failed start prints the error.
CmdPrint(c) ==
    /\ cst[c] = "added" \/ (cst[c] = "chosen" /\ failed[c])
    /\ cst' = [cst EXCEPT ![c] = IF gone[ced[c]] THEN "reopen" ELSE "mark"]
    /\ UNCHANGED <<eds, gone, ncmds, dot, msgs, ctx, waitc, qn, lk, ced, failed>>

\* ix.reopen under ix.Lock: nothing to do if the window is not gone or is
\* still listed; otherwise mark it not gone, append it to ix.eds and go on
\* to send editLoop on waitc, still holding the lock.
Reopen(c) ==
    LET e == ced[c] IN
    /\ cst[c] = "reopen" /\ Unlocked
    /\ IF gone[e] /\ e \notin Listed
       THEN /\ gone' = [gone EXCEPT ![e] = FALSE]
            /\ eds' = Append(eds, e)
            /\ lk' = c
            /\ cst' = [cst EXCEPT ![c] = "send"]
       ELSE /\ gone' = [gone EXCEPT ![e] = FALSE]
            /\ cst' = [cst EXCEPT ![c] = "mark"]
            /\ UNCHANGED <<eds, lk>>
    /\ UNCHANGED <<ncmds, dot, msgs, ctx, waitc, qn, ced, failed>>

\* reopen's send that does not give up on a closed waitc.
ReopenSendBlocking(c) ==
    LET e == ced[c] IN
    /\ cst[c] = "send"
    /\ ctx[e] = "range" /\ waitc[e] = "open"
    /\ ctx' = [ctx EXCEPT ![e] = "loop"]
    /\ lk' = NoCmd
    /\ cst' = [cst EXCEPT ![c] = "mark"]
    /\ UNCHANGED <<eds, gone, ncmds, dot, msgs, waitc, qn, ced, failed>>

\* ed.waitc <- ed.editLoop: the context goroutine, waiting on waitc, takes
\* it and runs a new editLoop; on a closed waitc the send fails and no
\* loop runs.  Then ix.Lock is released.
ReopenSend(c) ==
    LET e == ced[c] IN
    /\ cst[c] = "send"
    /\ \/ /\ ctx[e] = "range" /\ waitc[e] = "open"
          /\ ctx' = [ctx EXCEPT ![e] = "loop"]
       \/ /\ waitc[e] = "closed"
          /\ UNCHANGED ctx
    /\ lk' = NoCmd
    /\ cst' = [cst EXCEPT ![c] = "mark"]
    /\ UNCHANGED <<eds, gone, ncmds, dot, msgs, waitc, qn, ced, failed>>

\* c.ed.win.MarkIns: the text goes to the window's output mark.  After a
\* failed start runCmd deletes the mark and returns.
MarkIns(c) ==
    /\ cst[c] = "mark"
    /\ cst' = [cst EXCEPT ![c] = IF failed[c] THEN "done" ELSE "printed"]
    /\ UNCHANGED <<eds, gone, ncmds, dot, msgs, ctx, waitc, qn, lk, ced, failed>>

\* delCmd also for a command whose start failed before addCmd.
DelCmdUnadded(c) ==
    /\ cst[c] \in {"chosen", "added", "printed"} /\ Unlocked
    /\ ncmds' = [ncmds EXCEPT ![ced[c]] = @ - 1]
    /\ cst' = [cst EXCEPT ![c] = "done"]
    /\ UNCHANGED <<eds, gone, dot, msgs, ctx, waitc, qn, lk, ced, failed>>

\* The command ends: ix.delCmd(c), c.ed.ncmds-- under ix.Lock.
CmdEnd(c) ==
    /\ cst[c] \in {"added", "printed"} /\ Unlocked
    /\ ncmds' = [ncmds EXCEPT ![ced[c]] = @ - 1]
    /\ cst' = [cst EXCEPT ![c] = "done"]
    /\ UNCHANGED <<eds, gone, dot, msgs, ctx, waitc, qn, lk, ced, failed>>

-----------------------------------------------------------------------------
Init ==
    /\ eds = <<>>
    /\ gone = [e \in Eds |-> FALSE]
    /\ ncmds = [e \in Eds |-> 0]
    /\ dot = NoEd /\ msgs = NoEd
    /\ ctx = [e \in Eds |-> "none"]
    /\ waitc = [e \in Eds |-> "open"]
    /\ qn = [e \in Eds |-> 0]
    /\ lk = NoCmd
    /\ cst = [c \in Cmds |-> "idle"]
    /\ ced = [c \in Cmds |-> NoEd]
    /\ failed = [c \in Cmds |-> FALSE]

\* No editLoop runs and every command has finished or never started.
Quiet ==
    /\ \A e \in Eds : ctx[e] \in {"range", "done"}
    /\ \A c \in Cmds : cst[c] \in {"idle", "done"}

Terminating == Quiet /\ UNCHANGED vars

Next ==
    \/ \E e \in Eds : NewCmds(e) \/ NewEdit(e) \/ Focus(e) \/ DelEd(e) \/ QuitEnd(e)
    \/ \E c \in Cmds : StartCmd(c) \/ AddCmd(c) \/ CmdPrint(c) \/ Reopen(c)
                       \/ ReopenSend(c) \/ MarkIns(c) \/ CmdEnd(c)
    \/ Terminating

\* The goroutines involved keep running: a quitting editLoop finishes, a
\* command that started printing finishes the print.  Users (clicks,
\* quits) and commands' lifetimes are not forced.
Fairness ==
    /\ \A e \in Eds : WF_vars(QuitEnd(e))
    /\ \A c \in Cmds : WF_vars(Reopen(c)) /\ WF_vars(ReopenSend(c))
                       /\ WF_vars(MarkIns(c))

Spec == Init /\ [][Next]_vars /\ Fairness

-----------------------------------------------------------------------------
(* Properties                                                             *)

\* ix.eds, ix.dot and ix.msgs agree with the windows' lives across quits
\* and reopens racing commands: ix.eds lists each window once, exactly
\* the created windows that are not gone; ix.dot is nil or a listed
\* window; ix.msgs is nil or a listed command window (delEd, reopen,
\* newCmds, and editLoop's unlocked "focus").
WindowsConsistent ==
    /\ SeqX!IsInjective(eds)
    /\ Listed = {e \in Eds : ctx[e] # "none" /\ ~gone[e]}
    /\ dot \in Listed \cup {NoEd}
    /\ msgs \in (Listed \cap CmdEds) \cup {NoEd}

\* A command that prints into a gone window gets through reopen: reopen
\* holds ix.Lock while it sends on waitc, and that send is eventually
\* taken or fails, so neither the command nor the others waiting for
\* ix.Lock block forever (Cmd.printf, IX.reopen, editLoop's quit).
PrintCompletes == \A c \in Cmds : cst[c] \in {"reopen", "send"} ~> cst[c] = "mark"

\* Every listed window has an editLoop, running or being handed to its
\* context by reopen: a window on the page always answers its events.
EdsHaveLoop ==
    \A e \in Listed :
        \/ ctx[e] = "loop"
        \/ \E c \in Cmds : cst[c] = "send" /\ ced[c] = e /\ waitc[e] = "open"

=============================================================================
