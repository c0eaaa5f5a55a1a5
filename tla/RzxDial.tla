------------------------------- MODULE RzxDial -------------------------------
(***************************************************************************)
(* The dial / redial lifecycle of the remote zx client (package rzx,      *)
(* src/unnamed/part_000): the process-wide dial cache `dials`, the Fs     *)
(* handles it holds, Dial, Redial, Close, Fsys, and the hangup watcher    *)
(* goroutine each successful Redial spawns.                               *)
(*                                                                         *)
(* Callers are goroutines in Procs.  A step of the model is what one      *)
(* goroutine does between two points where another can observe or block  *)
(* it: taking a lock, waiting on a channel, or writing a field another    *)
(* goroutine reads without the lock (fs.m is read so by Close, by Fsys    *)
(* and by every request envelope).  A mux is a connection: "open" until   *)
(* it is closed by the client (m.Close()) or hung up by the network, then *)
(* "hup", which is what wakes the watcher blocked on <-m.Hup.             *)
(***************************************************************************)
EXTENDS Naturals, FiniteSets

CONSTANTS
    Procs,      \* caller goroutines
    Handles,    \* identities for the Fs structs Dial and Fsys allocate
    Endpoints,  \* connection addresses network!host!port (FillAddr done)
    TreeNames,  \* tree names, "main" among them
    Served,     \* [Endpoints -> SUBSET TreeNames]: what Ttrees lists
    MaxMux,     \* bound on connections opened by MuxDial
    MaxOps,     \* bound on operations each caller starts
    CallerOps,  \* which of "redial", "close", "fsys" callers invoke
    NoHandle,   \* model value: no handle (nil *Fs, empty cache slot)
    NoMux       \* model value: fs.m == nil

ASSUME /\ "main" \in TreeNames
       /\ Served \in [Endpoints -> SUBSET TreeNames]
       /\ MaxMux \in Nat \ {0}
       /\ MaxOps \in Nat \ {0}
       /\ CallerOps \subseteq {"redial", "close", "fsys"}

MuxIds == 1..MaxMux
RAddrs == Endpoints \X TreeNames      \* raddr: address with its tree suffix

VARIABLES
    fs,         \* [Handles -> Fs record]: the fields of each Fs struct
    dials,      \* [RAddrs -> Handles \cup {NoHandle}]: the dial cache
    mux,        \* [MuxIds -> {"unused", "open", "hup"}]
    nwc,        \* closewc channels made so far (channel k is the k-th)
    wcClosed,   \* the closewc channels that have been closed
    wst,        \* [MuxIds -> watcher state]: the watcher of that mux
    wfs,        \* [MuxIds -> handle] the watcher's fs
    wwc,        \* [MuxIds -> Nat]  the closewc the watcher closes
    pc,         \* [Procs -> control point]
    op,         \* [Procs -> "dial" | "redial"] what the Redial steps return to
    cur,        \* [Procs -> handle] the fs a caller is redialing
    lm,         \* [Procs -> mux] Redial's local m
    terr,       \* [Procs -> BOOLEAN] getTrees returned an error
    held,       \* [Procs -> SUBSET Handles] handles a caller got back
    nops,       \* [Procs -> Nat] operations started
    panicked    \* a goroutine dereferenced a nil fs.m: the process died

vars == <<fs, dials, mux, nwc, wcClosed, wst, wfs, wwc,
          pc, op, cur, lm, terr, held, nops, panicked>>

FsRec == [addr: Endpoints, raddr: RAddrs, fsys: TreeNames,
          trees: SUBSET TreeNames, m: MuxIds \cup {NoMux},
          closed: BOOLEAN, closewc: Nat, locked: BOOLEAN]

TypeOK ==
    /\ fs \in [Handles -> FsRec]
    /\ dials \in [RAddrs -> Handles \cup {NoHandle}]
    /\ mux \in [MuxIds -> {"unused", "open", "hup"}]
    /\ nwc \in Nat /\ wcClosed \subseteq 1..nwc
    /\ wst \in [MuxIds -> {"none", "wait", "evict", "done"}]
    /\ wfs \in [MuxIds -> Handles \cup {NoHandle}]
    /\ wwc \in [MuxIds -> Nat]
    /\ pc \in [Procs -> {"idle", "lock", "wait", "dial", "trees", "fin"}]
    /\ op \in [Procs -> {"dial", "redial"}]
    /\ cur \in [Procs -> Handles \cup {NoHandle}]
    /\ lm \in [Procs -> MuxIds \cup {NoMux}]
    /\ terr \in [Procs -> BOOLEAN]
    /\ held \in [Procs -> SUBSET Handles]
    /\ nops \in [Procs -> 0..MaxOps]
    /\ panicked \in BOOLEAN

-----------------------------------------------------------------------------
(* Helpers                                                                 *)

\* The tree suffix and connection address splitaddr takes from a raddr.
TreeOf(a) == a[2]
AddrOf(a) == a[1]

\* m.Close(): a closed mux raises Hup; closing it again does nothing.
CloseMux(mx) == IF mux[mx] = "open" THEN [mux EXCEPT ![mx] = "hup"] ELSE mux

NextMux == CHOOSE i \in MuxIds : mux[i] = "unused"

\* Mutant of FreshWc: the new channel is taken to be the last one made.
StaleWc == nwc

\* make(chan bool): a closewc channel no goroutine has seen yet.
FreshWc == nwc + 1

\* Fs{...} as Dial builds it: closed, with a fresh closewc.
NewFs(a, wc) == [addr |-> AddrOf(a), raddr |-> a, fsys |-> TreeOf(a),
                 trees |-> {}, m |-> NoMux, closed |-> TRUE,
                 closewc |-> wc, locked |-> FALSE]

\* An Fs nobody can reach any more is garbage: its identity may be reused.
InUse == UNION {held[p] : p \in Procs} \cup {dials[a] : a \in RAddrs}
         \cup {cur[p] : p \in Procs}
         \cup {wfs[i] : i \in {j \in MuxIds : wst[j] \in {"wait", "evict"}}}
FreeHandles == Handles \ InUse

\* The caller's goroutine leaves Redial (defer fs.Unlock()).
Return(p, h, ok) ==
    /\ pc' = [pc EXCEPT ![p] = "idle"]
    /\ held' = [held EXCEPT ![p] = IF ok THEN @ \cup {h} ELSE @]
    /\ cur' = [cur EXCEPT ![p] = NoHandle]
    /\ lm' = [lm EXCEPT ![p] = NoMux]

Live == ~panicked
CanStart(p) == Live /\ pc[p] = "idle" /\ nops[p] < MaxOps
Started(p) == nops' = [nops EXCEPT ![p] = @ + 1]

-----------------------------------------------------------------------------
(* Dial(addr): a cache hit returns the cached handle; a miss builds a     *)
(* closed Fs and redials it.  The lookup and the insertion in Redial are  *)
(* separate critical sections of dialslk.                                 *)

Dial(p, a) ==
    /\ CanStart(p)
    /\ Started(p)
    /\ IF dials[a] # NoHandle
       THEN /\ held' = [held EXCEPT ![p] = @ \cup {dials[a]}]
            /\ UNCHANGED <<fs, nwc, pc, op, cur>>
       ELSE \E h \in FreeHandles :
            /\ fs' = [fs EXCEPT ![h] = NewFs(a, FreshWc)]
            /\ nwc' = nwc + 1
            /\ pc' = [pc EXCEPT ![p] = "lock"]
            /\ op' = [op EXCEPT ![p] = "dial"]
            /\ cur' = [cur EXCEPT ![p] = h]
            /\ UNCHANGED held
    /\ UNCHANGED <<dials, mux, wcClosed, wst, wfs, wwc, lm, terr, panicked>>

\* fs.Redial() called by a caller on a handle it holds.
StartRedial(p, h) ==
    /\ "redial" \in CallerOps
    /\ CanStart(p)
    /\ h \in held[p]
    /\ Started(p)
    /\ pc' = [pc EXCEPT ![p] = "lock"]
    /\ op' = [op EXCEPT ![p] = "redial"]
    /\ cur' = [cur EXCEPT ![p] = h]
    /\ UNCHANGED <<fs, dials, mux, nwc, wcClosed, wst, wfs, wwc,
                   lm, terr, held, panicked>>

\* fs.Lock(); if the fs is not closed, close its mux and go wait for the
\* watcher, or (no mux) drop the old incarnation at once.
RedialLock(p) ==
    LET h == cur[p] IN
    /\ Live /\ pc[p] = "lock"
    /\ ~fs[h].locked
    /\ IF fs[h].closed
       THEN /\ fs' = [fs EXCEPT ![h].locked = TRUE]
            /\ pc' = [pc EXCEPT ![p] = "dial"]
            /\ UNCHANGED <<mux, nwc>>
       ELSE IF fs[h].m # NoMux
       THEN /\ fs' = [fs EXCEPT ![h].locked = TRUE]
            /\ mux' = CloseMux(fs[h].m)
            /\ pc' = [pc EXCEPT ![p] = "wait"]
            /\ UNCHANGED nwc
       ELSE /\ fs' = [fs EXCEPT ![h].locked = TRUE, ![h].closed = TRUE,
                                ![h].closewc = FreshWc]
            /\ nwc' = nwc + 1
            /\ pc' = [pc EXCEPT ![p] = "dial"]
            /\ UNCHANGED mux
    /\ UNCHANGED <<dials, wcClosed, wst, wfs, wwc, op, cur, lm,
                   terr, held, nops, panicked>>

\* <-fs.closewc; fs.ai = nil; fs.closed = true; fs.closewc = make(chan bool)
RedialWait(p) ==
    LET h == cur[p] IN
    /\ Live /\ pc[p] = "wait"
    /\ fs[h].closewc \in wcClosed
    /\ fs' = [fs EXCEPT ![h].closed = TRUE, ![h].closewc = FreshWc]
    /\ nwc' = nwc + 1
    /\ pc' = [pc EXCEPT ![p] = "dial"]
    /\ UNCHANGED <<dials, mux, wcClosed, wst, wfs, wwc, op, cur,
                   lm, terr, held, nops, panicked>>

\* net.MuxDial and auth.AtClient.  Either fails (a failed auth closes the
\* new mux; "auth disabled" counts as success), or the new mux and auth
\* info are published in fs for getTrees.
RedialDial(p) ==
    LET h == cur[p] IN
    /\ Live /\ pc[p] = "dial"
    /\ \/ /\ fs' = [fs EXCEPT ![h].locked = FALSE]
          /\ Return(p, h, FALSE)
          /\ UNCHANGED mux
       \/ /\ \E i \in MuxIds : mux[i] = "unused"
          /\ mux' = [mux EXCEPT ![NextMux] = "open"]
          /\ fs' = [fs EXCEPT ![h].m = NextMux]
          /\ lm' = [lm EXCEPT ![p] = NextMux]
          /\ pc' = [pc EXCEPT ![p] = "trees"]
          /\ UNCHANGED <<held, cur>>
    /\ UNCHANGED <<dials, nwc, wcClosed, wst, wfs, wwc, op, terr,
                   nops, panicked>>

\* fs.getTrees() over the new mux, then fs.ai = nil; fs.m = nil.  On a
\* clean end of the Ttrees reply every served tree and "main" are added;
\* an error (hangup, bad message) leaves what was added before it.
RedialTrees(p) ==
    LET h == cur[p]
        srv == Served[fs[h].addr]
    IN
    /\ Live /\ pc[p] = "trees"
    /\ \/ /\ mux[lm[p]] = "open"
          /\ fs' = [fs EXCEPT ![h].trees = @ \cup srv \cup {"main"},
                              ![h].m = NoMux]
          /\ terr' = [terr EXCEPT ![p] = FALSE]
       \/ \E got \in SUBSET srv, conv \in {{}, {"main"}} :
          /\ fs' = [fs EXCEPT ![h].trees = @ \cup got \cup conv,
                              ![h].m = NoMux]
          /\ terr' = [terr EXCEPT ![p] = TRUE]
    /\ pc' = [pc EXCEPT ![p] = "fin"]
    /\ UNCHANGED <<dials, mux, nwc, wcClosed, wst, wfs, wwc, op,
                   cur, lm, held, nops, panicked>>

\* The end of Redial: fail if getTrees failed or fs.fsys is not served;
\* otherwise publish m, clear closed, install fs in the cache under
\* fs.raddr and spawn the hangup watcher on m with the current closewc.
RedialFin(p) ==
    LET h == cur[p]
        m == lm[p]
    IN
    /\ Live /\ pc[p] = "fin"
    /\ \/ /\ terr[p] \/ fs[h].fsys \notin fs[h].trees
          /\ mux' = CloseMux(m)
          /\ fs' = [fs EXCEPT ![h].locked = FALSE]
          /\ Return(p, h, FALSE)
          /\ UNCHANGED <<dials, wst, wfs, wwc>>
       \/ /\ ~terr[p] /\ fs[h].fsys \in fs[h].trees
          /\ fs' = [fs EXCEPT ![h].m = m, ![h].closed = FALSE,
                              ![h].locked = FALSE]
          /\ dials' = [dials EXCEPT ![fs[h].raddr] = h]
          /\ wst' = [wst EXCEPT ![m] = "wait"]
          /\ wfs' = [wfs EXCEPT ![m] = h]
          /\ wwc' = [wwc EXCEPT ![m] = fs[h].closewc]
          /\ Return(p, h, TRUE)
          /\ UNCHANGED mux
    /\ UNCHANGED <<nwc, wcClosed, op, terr, nops, panicked>>

\* fs.Close(): fs.m.Close() with no check that fs.m is set.
Close(p, h) ==
    /\ "close" \in CallerOps
    /\ CanStart(p)
    /\ h \in held[p]
    /\ Started(p)
    /\ IF fs[h].m = NoMux
       THEN panicked' = TRUE /\ UNCHANGED mux
       ELSE mux' = CloseMux(fs[h].m) /\ UNCHANGED panicked
    /\ UNCHANGED <<fs, dials, nwc, wcClosed, wst, wfs, wwc, pc,
                   op, cur, lm, terr, held>>

\* fs.Fsys(name): a shallow copy of *fs (its mutex state, closed, m,
\* closewc and raddr included) with fsys = name, kept if name is "main"
\* or a known tree.  The copy reads fs.trees without the lock.
Fsys(p, h, name) ==
    /\ "fsys" \in CallerOps
    /\ CanStart(p)
    /\ h \in held[p]
    /\ Started(p)
    /\ IF name = "main" \/ name \in fs[h].trees
       THEN \E nh \in FreeHandles :
            /\ fs' = [fs EXCEPT ![nh] = [fs[h] EXCEPT !.fsys = name]]
            /\ held' = [held EXCEPT ![p] = @ \cup {nh}]
       ELSE UNCHANGED <<fs, held>>
    /\ UNCHANGED <<dials, mux, nwc, wcClosed, wst, wfs, wwc, pc, op, cur, lm,
                   terr, panicked>>

-----------------------------------------------------------------------------
(* The hangup watcher of mux i: <-m.Hup; fs.Lock(); fs.closed = true;     *)
(* fs.Unlock(); then delete(dials, fs.raddr) under dialslk and            *)
(* close(closewc).                                                         *)

WatcherHup(i) ==
    LET h == wfs[i] IN
    /\ Live /\ wst[i] = "wait"
    /\ mux[i] = "hup"
    /\ ~fs[h].locked
    /\ fs' = [fs EXCEPT ![h].closed = TRUE]
    /\ wst' = [wst EXCEPT ![i] = "evict"]
    /\ UNCHANGED <<dials, mux, nwc, wcClosed, wfs, wwc, pc, op,
                   cur, lm, terr, held, nops, panicked>>

\* Mutant of Evict: the delete from the cache is forgotten.
EvictNothing(a) == dials

\* delete(dials, a)
Evict(a) == [dials EXCEPT ![a] = NoHandle]

\* close(closewc) of a channel already closed panics: the process dies.
WatcherEvict(i) ==
    /\ Live /\ wst[i] = "evict"
    /\ dials' = Evict(fs[wfs[i]].raddr)
    /\ wcClosed' = wcClosed \cup {wwc[i]}
    /\ panicked' = (wwc[i] \in wcClosed)
    /\ wst' = [wst EXCEPT ![i] = "done"]
    /\ UNCHANGED <<fs, mux, nwc, wfs, wwc, pc, op, cur, lm, terr,
                   held, nops>>

\* The network or the server drops a connection.
Hangup(i) ==
    /\ Live /\ mux[i] = "open"
    /\ mux' = [mux EXCEPT ![i] = "hup"]
    /\ UNCHANGED <<fs, dials, nwc, wcClosed, wst, wfs, wwc, pc, op,
                   cur, lm, terr, held, nops, panicked>>

-----------------------------------------------------------------------------

Init ==
    /\ fs = [h \in Handles |-> NewFs(CHOOSE a \in RAddrs : TRUE, 0)]
    /\ dials = [a \in RAddrs |-> NoHandle]
    /\ mux = [i \in MuxIds |-> "unused"]
    /\ nwc = 0
    /\ wcClosed = {}
    /\ wst = [i \in MuxIds |-> "none"]
    /\ wfs = [i \in MuxIds |-> NoHandle]
    /\ wwc = [i \in MuxIds |-> 0]
    /\ pc = [p \in Procs |-> "idle"]
    /\ op = [p \in Procs |-> "dial"]
    /\ cur = [p \in Procs |-> NoHandle]
    /\ lm = [p \in Procs |-> NoMux]
    /\ terr = [p \in Procs |-> FALSE]
    /\ held = [p \in Procs |-> {}]
    /\ nops = [p \in Procs |-> 0]
    /\ panicked = FALSE

\* Every caller has finished and every watcher that can run has run: the
\* program may sit here forever.  A panic ends the program as well.
Quiescent ==
    \/ panicked
    \/ /\ \A p \in Procs : pc[p] = "idle" /\ nops[p] = MaxOps
       /\ \A i \in MuxIds : mux[i] # "open" /\ wst[i] \in {"none", "done"}

Terminating == Quiescent /\ UNCHANGED vars

Next ==
    \/ \E p \in Procs :
          \/ \E a \in RAddrs : Dial(p, a)
          \/ \E h \in Handles : StartRedial(p, h) \/ Close(p, h)
          \/ \E h \in Handles, t \in TreeNames : Fsys(p, h, t)
          \/ RedialLock(p) \/ RedialWait(p) \/ RedialDial(p)
          \/ RedialTrees(p) \/ RedialFin(p)
    \/ \E i \in MuxIds : WatcherHup(i) \/ WatcherEvict(i) \/ Hangup(i)
    \/ Terminating

\* Goroutines are scheduled fairly: a watcher or a redialing caller that
\* can run eventually does.  Callers are not obliged to start operations,
\* and the network is not obliged to hang up.
Fairness ==
    /\ \A p \in Procs : WF_vars(RedialLock(p) \/ RedialWait(p) \/
                                RedialDial(p) \/ RedialTrees(p) \/
                                RedialFin(p))
    /\ \A i \in MuxIds : WF_vars(WatcherHup(i) \/ WatcherEvict(i))

Spec == Init /\ [][Next]_vars /\ Fairness

-----------------------------------------------------------------------------
(* Properties                                                              *)

\* The watcher of mux i is still to act on it.
WatcherLive(i) == wst[i] \in {"wait", "evict"}

\* A handle a caller is in the middle of redialing.
Redialing(h) == \E p \in Procs : cur[p] = h /\ pc[p] # "idle"

\* Dial never hands out a dead handle for good: a handle in the cache is
\* open, or the watcher of a hung-up connection is still to evict its
\* key, or a Redial of it is in progress.  (Dial returns the cached *Fs
\* without looking at fs.closed.)
CachedIsLiveOrEvicting ==
    \A a \in RAddrs : dials[a] # NoHandle =>
        \/ ~fs[dials[a]].closed
        \/ \E i \in MuxIds : /\ WatcherLive(i) /\ mux[i] = "hup"
                             /\ fs[wfs[i]].raddr = a
        \/ Redialing(dials[a])

\* Every Redial a caller starts returns (the wait on closewc ends).
RedialReturns == \A p \in Procs : [](pc[p] # "idle" => <>(pc[p] = "idle"))

\* After a connection hangs up, its watcher marks the handle closed and
\* the handle leaves the dial cache.
Evicted(i) ==
    /\ wfs[i] \in Handles
    /\ fs[wfs[i]].closed
    /\ dials[fs[wfs[i]].raddr] # wfs[i]

\* A Redial of the handle blocked on <-fs.closewc, holding the lock the
\* watcher of mux i needs (the deadlock of run redial_deadlock).
StuckBehindRedial(i) ==
    \E p \in Procs : /\ pc[p] = "wait" /\ cur[p] = wfs[i]
                    /\ wst[i] = "wait" /\ fs[wfs[i]].closewc = wwc[i]

\* The handle has been redialed onto another connection since.
MovedOn(i) == wfs[i] \in Handles /\ fs[wfs[i]].m \notin {i, NoMux}

OpenIsCached ==
    \A i \in MuxIds :
        (mux[i] = "open" /\ wst[i] = "wait" /\ fs[wfs[i]].m = i
         /\ ~fs[wfs[i]].closed)
           => dials[fs[wfs[i]].raddr] = wfs[i]

=============================================================================
