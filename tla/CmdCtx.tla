------------------------------- MODULE CmdCtx -------------------------------
(***************************************************************************)
(* The command context of package cmd (src/cmd/wr/tex.go, lines 477-1088). *)
(* Every application (a goroutine tree with its own runtime.AppId) has a   *)
(* Ctx, registered in the table ctxs under ctxlk.  A Ctx points to a name  *)
(* space, a dot, an environment and an io set.  New runs a function on a   *)
(* new Ctx in a new goroutine: the child copies its creator's pointers     *)
(* under the creator's lock, so it shares ns, dot and env, and dups the io *)
(* set; it registers itself, hands the Ctx back on the buffered ctxc and,  *)
(* if the creator passed wc, waits on it while the creator adjusts the new *)
(* Ctx.  Fork* replace one pointer by a dup.  Exit and Fatal reach         *)
(* appexit: the main Ctx closes itself and calls os.Exit; any other Ctx    *)
(* panics with "appexit"+status, and New's deferred recover closes it with *)
(* the status.  close closes wc, then the io set, then drops the id.       *)
(*                                                                         *)
(* Every Ctx runs one goroutine here: its function, or, while it is inside *)
(* New, the creator side of New.  A pointer is modelled by whom it is      *)
(* shared with: grp[c][k] is the set of contexts whose k pointer is c's.   *)
(* A write through the pointer reaches the whole group; a dup takes c out  *)
(* of it.  Paths and channels are members of small sets; of the          *)
(* environment only the variable "dot" is kept, of the io set only the    *)
(* "out" entry.  ns, cwd, envSet and ioSet are not in the repository:      *)
(* their dup copies the contents into a new object, and closing an io set *)
(* marks it closed.  cprintf and the accessors only read a Ctx.            *)
(***************************************************************************)
EXTENDS Integers

CONSTANTS
    Ctxs,       \* application ids; an id is used once (runtime.NewApp)
    Main,       \* the id of mainctx
    Vals,       \* paths: of dot, and the value of the environment's "dot"
    NoCtx

ASSUME Main \in Ctxs /\ NoCtx \notin Ctxs

Kinds == {"ns", "dot", "env", "io"}

\* What a context's function ends with: a return, or Exit or Fatal with
\* no argument (nil), "", another string, an error or another value.
Calls == {<<"return", "none">>} \cup ({"Exit", "Fatal"} \X {"nil", "empty", "str", "err", "other"})

\* Exit statuses: nil (""), the text of a string or error ("e"), "failure".
Stss == {"", "e", "failure"}

\* What an io set holds under "out": nothing, an open channel, or the
\* closed channel SetOut makes for a nil one.
Outs == {"none", "chan", "closedchan"}

\* wc not yet closed, closed with no error, or closed with an error.
Open == <<"open", "">>
Nil == <<"nil", "">>

VARIABLES
    gpc,        \* [Ctxs -> control point of the Ctx's goroutine]
    parent,     \* [Ctxs -> the Ctx that called New for it]
    kid,        \* [Ctxs -> the Ctx a creator is making in New]
    hasw,       \* [Ctxs -> New was called with wc]
    ctxs,       \* the ids registered in the table ctxs
    grp,        \* [Ctxs -> [Kinds -> the contexts sharing that object]]
    val,        \* [Ctxs -> [{"dot", "env"} -> its dot's path, its env's "dot"]]
    out,        \* [Ctxs -> the "out" entry of its io set]
    closed,     \* [Ctxs -> its io set has been closed]
    wc,         \* [Ctxs -> Open, Nil or <<"err", s>>]
    sts,        \* [Ctxs -> the status close is closing the Ctx with]
    pv,         \* [Ctxs -> the appexit status New's goroutine panics with, or "none"]
    asked,      \* [Ctxs -> the status the end of its function asked for, or "running"]
    exited      \* os.Exit was called with this code, or -1

vars == <<gpc, parent, kid, hasw, ctxs, grp, val, out, closed, wc, sts, pv,
          asked, exited>>

Pcs == {"free", "start", "wait", "run", "new", "adjust", "unwind",
        "closewc", "closeio", "delete", "osexit", "gone"}

\* Contexts that are set up and not being closed.
Active == {c \in Ctxs : gpc[c] \in {"wait", "run", "new", "adjust", "unwind"}}

Running == exited = -1

TypeOK ==
    /\ gpc \in [Ctxs -> Pcs]
    /\ parent \in [Ctxs -> Ctxs \cup {NoCtx}]
    /\ kid \in [Ctxs -> Ctxs \cup {NoCtx}]
    /\ hasw \in [Ctxs -> BOOLEAN]
    /\ ctxs \subseteq Ctxs
    /\ grp \in [Ctxs -> [Kinds -> SUBSET Ctxs]]
    /\ val \in [Ctxs -> [{"dot", "env"} -> Vals]]
    /\ out \in [Ctxs -> Outs] /\ closed \in [Ctxs -> BOOLEAN]
    /\ wc \in [Ctxs -> {Open, Nil} \cup ({"err"} \X (Stss \ {""}))]
    /\ sts \in [Ctxs -> Stss] /\ pv \in [Ctxs -> {"none"} \cup Stss]
    /\ asked \in [Ctxs -> {"running"} \cup Stss]
    /\ exited \in {-1, 0, 1}

-----------------------------------------------------------------------------
(* Helpers                                                                 *)

\* AppCtx: the registered Ctx of the id, or nil.
AppCtx(id) == IF id \in ctxs THEN id ELSE NoCtx

\* The Ctx an operation applies to: a running Ctx's own, or, between New
\* returning and close(wc), the new Ctx its creator adjusts.
Target(a) == IF gpc[a] = "adjust" THEN kid[a] ELSE a

CanAct(a) == gpc[a] \in {"run", "adjust"} /\ Running

\* c's k pointer now points where p's does.
ShareWith(g, c, p, k) ==
    [d \in Ctxs |-> IF d \in g[p][k] \cup {c}
                    THEN [g[d] EXCEPT ![k] = g[p][k] \cup {c}] ELSE g[d]]

\* c's k pointer now points to an object of its own.
Own(g, c, k) ==
    [d \in Ctxs |-> IF d = c THEN [g[d] EXCEPT ![k] = {c}]
                    ELSE [g[d] EXCEPT ![k] = @ \ {c}]]

\* A write of x through t's k pointer, seen by all who share it.
WriteVal(t, k, x) ==
    [d \in Ctxs |-> IF d \in grp[t][k] THEN [val[d] EXCEPT ![k] = x] ELSE val[d]]

WriteOut(t, x) == [d \in Ctxs |-> IF d \in grp[t]["io"] THEN x ELSE out[d]]

\* The status the function's end asks for, as Exit and Fatal document it:
\* nil for a return, Exit() or Exit(""), the string or the error's text,
\* "failure" for Exit of another value; Fatal as Exit but with "failure"
\* for an empty string.  It is recorded in the history variable asked.
Intended(call) ==
    CASE call[1] = "return"             -> ""
      [] call[2] = "nil"                -> ""
      [] call[2] = "empty"              -> IF call[1] = "Fatal" THEN "failure" ELSE ""
      [] call[2] \in {"str", "err"}     -> "e"
      [] call[2] = "other"              -> "failure"

\* Exit's status for its argument.
ExitSts(arg) ==
    CASE arg \in {"nil", "empty"} -> ""
      [] arg \in {"str", "err"}   -> "e"
      [] arg = "other"            -> "failure"

\* Fatal's status: as Exit, but an empty format string is a failure.
FatalSts(arg) ==
    CASE arg = "nil"            -> ""
      [] arg = "empty"          -> "failure"
      [] arg \in {"str", "err"} -> "e"
      [] arg = "other"          -> "failure"

-----------------------------------------------------------------------------
(* New                                                                     *)

\* New(fun, wc...): the running Ctx a makes ctxc, spawns the goroutine
\* that will be Ctx c, and blocks on <-ctxc.
New(a, c, w) ==
    /\ gpc[a] = "run" /\ gpc[c] = "free" /\ Running
    /\ gpc' = [gpc EXCEPT ![a] = "new", ![c] = "start"]
    /\ parent' = [parent EXCEPT ![c] = a]
    /\ kid' = [kid EXCEPT ![a] = c]
    /\ hasw' = [hasw EXCEPT ![c] = w]
    /\ UNCHANGED <<ctxs, grp, val, out, closed, wc, sts, pv, asked, exited>>

\* A New whose goroutine gives the new Ctx its creator's io set
\* instead of a dup.
NewStartShareIO(c) ==
    /\ gpc[c] = "start" /\ Running
    /\ LET old == AppCtx(parent[c])
           g == ShareWith(ShareWith(ShareWith(grp, c, old, "ns"), c, old, "dot"),
                          c, old, "env")
       IN /\ old # NoCtx
          /\ grp' = ShareWith(g, c, old, "io")
          /\ val' = [val EXCEPT ![c] = val[old]]
          /\ out' = [out EXCEPT ![c] = out[old]]
    /\ closed' = [closed EXCEPT ![c] = FALSE]
    /\ ctxs' = ctxs \cup {c}
    /\ wc' = [wc EXCEPT ![c] = Open]
    /\ gpc' = [gpc EXCEPT ![c] = IF hasw[c] THEN "wait" ELSE "run"]
    /\ UNCHANGED <<parent, kid, hasw, sts, pv, asked, exited>>

\* The new goroutine: old := ctx() (its AppId is still the creator's);
\* under old.lk it takes old's env, ns and dot and a dup of old's io; it
\* makes wc, takes a new AppId, registers it, sends the Ctx on ctxc, and
\* waits on w if there is one.
NewStart(c) ==
    /\ gpc[c] = "start" /\ Running
    /\ LET old == AppCtx(parent[c])
           g == ShareWith(ShareWith(ShareWith(grp, c, old, "ns"), c, old, "dot"),
                          c, old, "env")
       IN /\ old # NoCtx
          /\ grp' = [g EXCEPT ![c]["io"] = {c}]
          /\ val' = [val EXCEPT ![c] = val[old]]
          /\ out' = [out EXCEPT ![c] = out[old]]
    /\ closed' = [closed EXCEPT ![c] = FALSE]
    /\ ctxs' = ctxs \cup {c}
    /\ wc' = [wc EXCEPT ![c] = Open]
    /\ gpc' = [gpc EXCEPT ![c] = IF hasw[c] THEN "wait" ELSE "run"]
    /\ UNCHANGED <<parent, kid, hasw, sts, pv, asked, exited>>

\* A New that returns only once the new Ctx runs its function.
NewReturnAfterRun(a) ==
    /\ gpc[a] = "new" /\ gpc[kid[a]] = "run" /\ Running
    /\ gpc' = [gpc EXCEPT ![a] = IF hasw[kid[a]] THEN "adjust" ELSE "run"]
    /\ kid' = [kid EXCEPT ![a] = IF hasw[kid[a]] THEN @ ELSE NoCtx]
    /\ UNCHANGED <<parent, hasw, ctxs, grp, val, out, closed, wc, sts, pv,
                   asked, exited>>

\* return <-ctxc: the creator gets the new Ctx once it has been sent.
\* With wc, the creator may now adjust the Ctx before it closes wc.
NewReturn(a) ==
    /\ gpc[a] = "new" /\ gpc[kid[a]] # "start" /\ Running
    /\ gpc' = [gpc EXCEPT ![a] = IF hasw[kid[a]] THEN "adjust" ELSE "run"]
    /\ kid' = [kid EXCEPT ![a] = IF hasw[kid[a]] THEN @ ELSE NoCtx]
    /\ UNCHANGED <<parent, hasw, ctxs, grp, val, out, closed, wc, sts, pv,
                   asked, exited>>

\* The creator closes wc; the new goroutine's <-w returns and it runs fun.
Release(a) ==
    /\ gpc[a] = "adjust" /\ Running
    /\ gpc' = [gpc EXCEPT ![a] = "run", ![kid[a]] = "run"]
    /\ kid' = [kid EXCEPT ![a] = NoCtx]
    /\ UNCHANGED <<parent, hasw, ctxs, grp, val, out, closed, wc, sts, pv,
                   asked, exited>>

-----------------------------------------------------------------------------
(* Operations on a Ctx: by its own goroutine, or by its creator            *)

\* ForkNS, ForkDot, ForkEnv: under c.lk, the pointer becomes a dup, with
\* the same contents.
Fork(a, k) ==
    /\ CanAct(a) /\ k \in Kinds \ {"io"}
    /\ grp' = Own(grp, Target(a), k)
    /\ UNCHANGED <<gpc, parent, kid, hasw, ctxs, val, out, closed, wc, sts,
                   pv, asked, exited>>

\* ForkIO: under c.lk, c.io becomes a dup and the old set is closed.
ForkIO(a) ==
    /\ CanAct(a)
    /\ LET t == Target(a) IN
       /\ grp' = Own(grp, t, "io")
       /\ closed' = [d \in Ctxs |-> IF d = t THEN FALSE
                                    ELSE IF d \in grp[t]["io"] THEN TRUE
                                    ELSE closed[d]]
    /\ UNCHANGED <<gpc, parent, kid, hasw, ctxs, val, out, wc, sts, pv,
                   asked, exited>>

\* Cd: Stat(to) succeeded (a failing Stat changes nothing); d := c.dot
\* under c.lk, then d.set(path).
Cd(a, v) ==
    /\ CanAct(a)
    /\ val' = WriteVal(Target(a), "dot", v)
    /\ UNCHANGED <<gpc, parent, kid, hasw, ctxs, grp, out, closed, wc, sts,
                   pv, asked, exited>>

\* SetEnv("dot", v): c.env.set under c.lk.
SetEnv(a, v) ==
    /\ CanAct(a)
    /\ val' = WriteVal(Target(a), "env", v)
    /\ UNCHANGED <<gpc, parent, kid, hasw, ctxs, grp, out, closed, wc, sts,
                   pv, asked, exited>>

\* SetOut("out", ch): a nil ch is replaced by a closed channel; the io
\* pointer is read under c.lk and io.addOut called after.
SetOut(a, ch) ==
    /\ CanAct(a) /\ ch \in {"chan", "nil"}
    /\ out' = WriteOut(Target(a), IF ch = "nil" THEN "closedchan" ELSE "chan")
    /\ UNCHANGED <<gpc, parent, kid, hasw, ctxs, grp, val, closed, wc, sts,
                   pv, asked, exited>>

\* CloseIO("out"): io.del.
CloseIO(a) ==
    /\ CanAct(a)
    /\ out' = WriteOut(Target(a), "none")
    /\ UNCHANGED <<gpc, parent, kid, hasw, ctxs, grp, val, closed, wc, sts,
                   pv, asked, exited>>

-----------------------------------------------------------------------------
(* Exit, Fatal, the end of fun, and close                                  *)

\* The status appexit gets from the call fun ended with.
AppExitSts(call) == IF call[1] = "Exit" THEN ExitSts(call[2]) ELSE FatalSts(call[2])

\* fun returns, or calls Exit or Fatal: appexit in a Ctx other than main
\* panics with "appexit"+sts, unwinding to New's deferred function.
Finish(c, call) ==
    /\ gpc[c] = "run" /\ c # Main /\ Running
    /\ asked' = [asked EXCEPT ![c] = Intended(call)]
    /\ pv' = [pv EXCEPT ![c] = IF call[1] = "return" THEN "none" ELSE AppExitSts(call)]
    /\ gpc' = [gpc EXCEPT ![c] = "unwind"]
    /\ UNCHANGED <<parent, kid, hasw, ctxs, grp, val, out, closed, wc, sts,
                   exited>>

\* main returns: the runtime's AtExit closes wc, and the process exits 0.
\* Exit or Fatal in main: appexit calls mainctx.close(sts), then os.Exit.
MainFinish(call) ==
    /\ gpc[Main] = "run" /\ Running
    /\ asked' = [asked EXCEPT ![Main] = Intended(call)]
    /\ IF call[1] = "return"
       THEN /\ wc' = [wc EXCEPT ![Main] = Nil] /\ exited' = 0
            /\ UNCHANGED <<gpc, sts>>
       ELSE /\ sts' = [sts EXCEPT ![Main] = AppExitSts(call)]
            /\ gpc' = [gpc EXCEPT ![Main] = "closewc"]
            /\ UNCHANGED <<wc, exited>>
    /\ UNCHANGED <<parent, kid, hasw, ctxs, grp, val, out, closed, pv>>

\* A recover that closes the Ctx with "" whatever the panic said.
UnwindDropSts(c) ==
    /\ gpc[c] = "unwind" /\ Running
    /\ sts' = [sts EXCEPT ![c] = ""]
    /\ gpc' = [gpc EXCEPT ![c] = "closewc"]
    /\ UNCHANGED <<parent, kid, hasw, ctxs, grp, val, out, closed, wc, pv,
                   asked, exited>>

\* A recover that returns on an "appexit" panic without closing the Ctx.
UnwindNoClose(c) ==
    /\ gpc[c] = "unwind" /\ Running
    /\ sts' = [sts EXCEPT ![c] = IF pv[c] = "none" THEN "" ELSE pv[c]]
    /\ gpc' = [gpc EXCEPT ![c] = IF pv[c] = "none" THEN "closewc" ELSE "gone"]
    /\ UNCHANGED <<parent, kid, hasw, ctxs, grp, val, out, closed, wc, pv,
                   asked, exited>>

\* The deferred function: an "appexit" panic closes the Ctx with the
\* status after the prefix (s[7:]); no panic closes it with "".
Unwind(c) ==
    /\ gpc[c] = "unwind" /\ Running
    /\ sts' = [sts EXCEPT ![c] = IF pv[c] = "none" THEN "" ELSE pv[c]]
    /\ gpc' = [gpc EXCEPT ![c] = "closewc"]
    /\ UNCHANGED <<parent, kid, hasw, ctxs, grp, val, out, closed, wc, pv,
                   asked, exited>>

\* close that always closes wc with sts, an empty one included.
CloseWcNoNil(c) ==
    /\ gpc[c] = "closewc" /\ Running
    /\ wc' = [wc EXCEPT ![c] = <<"err", sts[c]>>]
    /\ gpc' = [gpc EXCEPT ![c] = "closeio"]
    /\ UNCHANGED <<parent, kid, hasw, ctxs, grp, val, out, closed, sts, pv,
                   asked, exited>>

\* close, first step: close(c.wc, sts), or close(c.wc) for "".
CloseWc(c) ==
    /\ gpc[c] = "closewc" /\ Running
    /\ wc' = [wc EXCEPT ![c] = IF sts[c] # "" THEN <<"err", sts[c]>> ELSE Nil]
    /\ gpc' = [gpc EXCEPT ![c] = "closeio"]
    /\ UNCHANGED <<parent, kid, hasw, ctxs, grp, val, out, closed, sts, pv,
                   asked, exited>>

\* close, second step: c.io.close().
CloseIo(c) ==
    /\ gpc[c] = "closeio" /\ Running
    /\ closed' = [d \in Ctxs |-> closed[d] \/ d \in grp[c]["io"]]
    /\ gpc' = [gpc EXCEPT ![c] = "delete"]
    /\ UNCHANGED <<parent, kid, hasw, ctxs, grp, val, out, wc, sts, pv,
                   asked, exited>>

\* close, last step: delete(ctxs, c.id) under ctxlk.  New's goroutine
\* then ends; main goes on to os.Exit.
Delete(c) ==
    /\ gpc[c] = "delete" /\ Running
    /\ ctxs' = ctxs \ {c}
    /\ grp' = [d \in Ctxs |-> [k \in Kinds |-> IF d = c THEN {} ELSE grp[d][k] \ {c}]]
    /\ gpc' = [gpc EXCEPT ![c] = IF c = Main THEN "osexit" ELSE "gone"]
    /\ UNCHANGED <<parent, kid, hasw, val, out, closed, wc, sts, pv,
                   asked, exited>>

\* appexit in main calling os.Exit(0) whatever the status.
OsExitZero ==
    /\ gpc[Main] = "osexit" /\ Running
    /\ exited' = 0
    /\ UNCHANGED <<gpc, parent, kid, hasw, ctxs, grp, val, out, closed, wc,
                   sts, pv, asked>>

\* appexit in main: os.Exit(1) for a status, os.Exit(0) for none.
OsExit ==
    /\ gpc[Main] = "osexit" /\ Running
    /\ exited' = IF sts[Main] # "" THEN 1 ELSE 0
    /\ UNCHANGED <<gpc, parent, kid, hasw, ctxs, grp, val, out, closed, wc,
                   sts, pv, asked>>

-----------------------------------------------------------------------------
(* The package's init: mainctx = mkCtx(), whose ns, dot, env and io are    *)
(* new objects, and Cd to the environment's dot, if set.                   *)

\* init(): mkCtx's dot is the process's working directory d; GetEnv of
\* "dot" gives e, and Cd(e) moves dot there if Stat(e) succeeds.
InitDot(d, e, statok) == IF statok THEN e ELSE d

Init ==
    /\ gpc = [c \in Ctxs |-> IF c = Main THEN "run" ELSE "free"]
    /\ parent = [c \in Ctxs |-> NoCtx] /\ kid = [c \in Ctxs |-> NoCtx]
    /\ hasw = [c \in Ctxs |-> FALSE]
    /\ ctxs = {Main}
    /\ grp = [c \in Ctxs |-> [k \in Kinds |-> IF c = Main THEN {Main} ELSE {}]]
    /\ \E d, e \in Vals, statok \in BOOLEAN :
          val = [c \in Ctxs |-> [x \in {"dot", "env"} |->
                   IF c # Main THEN CHOOSE y \in Vals : TRUE
                   ELSE IF x = "dot" THEN InitDot(d, e, statok) ELSE e]]
    /\ out = [c \in Ctxs |-> "chan"] /\ closed = [c \in Ctxs |-> FALSE]
    /\ wc = [c \in Ctxs |-> Open] /\ sts = [c \in Ctxs |-> ""]
    /\ pv = [c \in Ctxs |-> "none"] /\ asked = [c \in Ctxs |-> "running"]
    /\ exited = -1

\* The process has exited; nothing runs any more.
Terminating == ~Running /\ UNCHANGED vars

Next ==
    \/ \E a, c \in Ctxs, w \in BOOLEAN : New(a, c, w)
    \/ \E c \in Ctxs : NewStart(c) \/ NewReturn(c) \/ Release(c)
    \/ \E a \in Ctxs, k \in Kinds \ {"io"} : Fork(a, k)
    \/ \E a \in Ctxs : ForkIO(a) \/ CloseIO(a)
    \/ \E a \in Ctxs, v \in Vals : Cd(a, v) \/ SetEnv(a, v)
    \/ \E a \in Ctxs, ch \in {"chan", "nil"} : SetOut(a, ch)
    \/ \E c \in Ctxs, call \in Calls : Finish(c, call)
    \/ \E call \in Calls : MainFinish(call)
    \/ \E c \in Ctxs : Unwind(c) \/ CloseWc(c) \/ CloseIo(c) \/ Delete(c)
    \/ OsExit
    \/ Terminating

\* The steps of cmd's own code that a goroutine takes once it can: New's
\* goroutine and its creator, the deferred close, os.Exit.  A creator
\* that passed wc closes it once it has adjusted the new Ctx (New's doc
\* comment).  A function is not forced to end, nor to call anything.
Fairness ==
    /\ \A c \in Ctxs : /\ WF_vars(NewStart(c)) /\ WF_vars(NewReturn(c))
                      /\ WF_vars(Release(c)) /\ WF_vars(Unwind(c))
                      /\ WF_vars(CloseWc(c)) /\ WF_vars(CloseIo(c))
                      /\ WF_vars(Delete(c))
    /\ WF_vars(OsExit)

Spec == Init /\ [][Next]_vars /\ Fairness

-----------------------------------------------------------------------------
(* Properties                                                              *)

\* The exit status a waiter on Waitc() reads is the one the function's
\* end asked for (Intended): the status travels through Exit or Fatal,
\* appexit's panic, New's recover and close's two ways of closing wc.
WaitSeesStatus ==
    \A c \in Ctxs : wc[c] # Open =>
        wc[c] = IF asked[c] = "" THEN Nil ELSE <<"err", asked[c]>>

\* No two contexts that are set up and not yet closing hold the same io
\* set, and each holds an open one: New dups the creator's set, ForkIO
\* closes only the set it replaced, and a context's close closes only
\* its own (New, ForkIO, close).
OwnIO ==
    \A c, d \in Active :
        /\ c # d => d \notin grp[c]["io"]
        /\ ~closed[c]

\* Every New returns to its creator: the new goroutine hands the Ctx
\* over on the buffered ctxc before it waits on wc (New).
NewReturns ==
    \A a \in Ctxs : gpc[a] = "new" ~> (gpc[a] # "new" \/ ~Running)

\* A context whose function has ended is closed: its wc is closed and its
\* id leaves the table, unless the process exits first (New's deferred
\* function, close).
EndedIsClosed ==
    \A c \in Ctxs \ {Main} :
        asked[c] # "running" ~> ((wc[c] # Open /\ c \notin ctxs) \/ ~Running)

-----------------------------------------------------------------------------
(* Refinement: CmdCtx implements CtxLife.  A context is none until New's   *)
(* goroutine registers it, live until its function ends, ended until close *)
(* closes wc, and closed after.                                            *)

LifeOf ==
    [c \in Ctxs |-> CASE gpc[c] \in {"free", "start"} -> "none"
                      [] asked[c] = "running"         -> "live"
                      [] wc[c] = Open                 -> "ended"
                      [] OTHER                        -> "closed"]

Life == INSTANCE CtxLife WITH life <- LifeOf, want <- asked, wcs <- wc

\* The contexts New makes, their ends, close and main's os.Exit behave as
\* package cmd promises (CtxLife): close follows the end and carries its
\* status, and the process's exit code is 1 exactly when main asked for a
\* status (New, Exit, Fatal, appexit, close).
ImplementsCtxLife == Life!Spec


=============================================================================
