------------------------------- MODULE RzxCall -------------------------------
(***************************************************************************)
(* The request envelopes of the remote zx client (src/unnamed/part_000):  *)
(* dircall (Stat, Wstat), errcall (Remove, RemoveAll, Move, Link), Get,   *)
(* Put, Find and FindGet.  Each envelope is a goroutine that owns one     *)
(* call of the mux: c.Out carries the request (and Put's data) to the     *)
(* server, c.In carries the reply back, and rc carries the result to the  *)
(* caller.  Around it run the caller (reading rc, cancelling it, feeding  *)
(* Put's data channel dc), the server end of the call, and the network,   *)
(* which may hang the whole mux up.                                       *)
(*                                                                         *)
(* Channels follow the clive Go dialect: close(c, err) closes c with an   *)
(* error kept for cerror(c); closing a closed channel does nothing;       *)
(* `ok := c <- v` is FALSE once c is closed (by either side); a receive   *)
(* from a closed channel first drains what is buffered, then yields nil.  *)
(***************************************************************************)
EXTENDS Naturals, Sequences, FiniteSets

LOCAL SeqX == INSTANCE SequencesExt

CONSTANTS
    Envs,       \* the envelopes (requests) in flight
    Ops,        \* the envelope kinds callers use (a subset of Kinds)
    PutModes,   \* how Put is called (a subset of {"data", "nil", "dir"})
    NChunks,    \* data chunks a Put caller supplies
    MaxReply,   \* bound on the messages a server sends on one call
    BadServer,  \* the server may send a message of the wrong type
    CallerCancels \* callers of Get, Find and FindGet may cancel rc

Kinds == {"dir", "err", "get", "put", "find", "findget"}
StreamKinds == {"get", "find", "findget"}

\* Put's data channel and entry type: dc carries data; dc == nil; or
\* d["type"] == "d" while the caller still supplies a dc.
Modes == {"data", "nil", "dir"}

ASSUME /\ Ops \subseteq Kinds /\ Ops # {}
       /\ PutModes \subseteq Modes /\ PutModes # {}
       /\ NChunks \in Nat /\ MaxReply \in Nat
       /\ BadServer \in BOOLEAN /\ CallerCancels \in BOOLEAN

\* Messages: the request header, a directory entry, a data chunk (n says
\* which), a string (a message no envelope here expects).
Msgs == [t: {"hdr", "dir", "str", "data"}, n: 0..(NChunks + MaxReply)]
Msg(t) == [t |-> t, n |-> 0]
Chunk(k) == [t |-> "data", n |-> k]
IsChunk(m) == m.t = "data"
NoMsg == [t |-> "nil", n |-> 0]
\* Close reasons.  "none" is close(c) without an error.
Errs == {"none", "io", "srv", "bad", "cancel", "abort"}

Chan == [buf: Seq(Msgs), closed: BOOLEAN, err: Errs]
Open == [buf |-> <<>>, closed |-> FALSE, err |-> "none"]

VARIABLES
    op,      \* [Envs -> Kinds]: the operation that made the envelope
    mode,    \* [Envs -> Modes]: for Put, how it was called
    epc,     \* [Envs -> control point of the envelope goroutine]
    msg,     \* [Envs -> Msgs \cup {NoMsg}]: the message the envelope holds
    out,     \* [Envs -> Chan] c.Out
    in,      \* [Envs -> Chan] c.In
    rc,      \* [Envs -> Chan] the result channel the caller reads
    dc,      \* [Envs -> Chan] Put's data channel, fed by the caller
    hup,     \* the mux has hung up
    sgot,    \* [Envs -> Seq(Msgs)] what the server took from c.Out
    ssent,   \* [Envs -> Seq(Msgs)] what the server put on c.In
    got,     \* [Envs -> Seq(Msgs)] what the caller took from rc
    fed      \* [Envs -> Nat] chunks the Put caller has sent on dc

vars == <<op, mode, epc, msg, out, in, rc, dc, hup, sgot, ssent, got, fed>>

EPcs == {"rpc", "send", "closeout", "fwd", "fwdout", "recv", "check",
         "loop", "deliver", "after", "done"}

\* A channel holding at most n undelivered messages.
ChanOf(n) == {c \in Chan : Len(c.buf) <= n}

TypeOK ==
    /\ op \in [Envs -> Kinds] /\ mode \in [Envs -> Modes]
    /\ epc \in [Envs -> EPcs]
    /\ msg \in [Envs -> Msgs \cup {NoMsg}]
    /\ out \in [Envs -> ChanOf(2)] /\ in \in [Envs -> ChanOf(2)]
    /\ rc \in [Envs -> ChanOf(1)] /\ dc \in [Envs -> ChanOf(1)]
    /\ hup \in BOOLEAN
    /\ sgot \in [Envs -> Seq(Msgs)] /\ ssent \in [Envs -> Seq(Msgs)]
    /\ got \in [Envs -> Seq(Msgs)]
    /\ fed \in [Envs -> 0..NChunks]

-----------------------------------------------------------------------------
(* Channel operations                                                      *)

\* close(c, err): the first close wins.
Shut(c, e) == IF c.closed THEN c ELSE [c EXCEPT !.closed = TRUE, !.err = e]

\* c <- v on a channel with room: appended unless c is closed.
Put1(c, v) == IF c.closed THEN c ELSE [c EXCEPT !.buf = Append(@, v)]

\* cerror(c)
CError(c) == IF c.closed THEN c.err ELSE "none"

\* rc holds one message: make(chan zx.Dir, 1) and the like.
RcRoom(e) == Len(rc[e].buf) < 1
\* The mux and dc hold at most this many undelivered messages.
ChanRoom(c) == Len(c.buf) < 2

\* The reply a server sends, by envelope kind.
Replies(e) ==
    LET k == Len(ssent[e]) + 1
        wrong == IF BadServer THEN {Msg("str")} ELSE {}
    IN CASE op[e] \in {"dir", "put", "find"} -> {Msg("dir")} \cup wrong
         [] op[e] = "get"                   -> {Chunk(k)} \cup wrong
         [] op[e] = "findget"               -> {Msg("dir"), Chunk(k)}
         [] op[e] = "err"                   -> {}

\* A reply check that lets every message through.
ExpectedAny(e, m) == TRUE

\* The runtime type check each envelope makes on a reply message.
Expected(e, m) ==
    CASE op[e] \in {"dir", "put", "find"} -> m.t = "dir"
      [] op[e] = "get"                    -> IsChunk(m)
      [] op[e] \in {"findget", "err"}     -> TRUE

\* A Put whose data channel the envelope ignores (dc == nil or a
\* directory): the envelope reads its own closed channel instead.
OwnDc(e) == mode[e] \in {"nil", "dir"}

-----------------------------------------------------------------------------
(* The envelope goroutine                                                 *)

\* c := fs.m.Rpc(): on a mux that has hung up both halves come closed.
Rpc(e) ==
    /\ epc[e] = "rpc"
    /\ out' = [out EXCEPT ![e] = IF hup THEN Shut(@, "io") ELSE @]
    /\ in' = [in EXCEPT ![e] = IF hup THEN Shut(@, "io") ELSE @]
    /\ epc' = [epc EXCEPT ![e] = "send"]
    /\ UNCHANGED <<op, mode, msg, rc, dc, hup, sgot, ssent, got, fed>>

\* ok := c.Out <- m.  A failed send closes c.In with cerror(c.Out) and
\* returns: rc is left open.
SendReq(e) ==
    /\ epc[e] = "send"
    /\ \/ /\ out[e].closed
          /\ in' = [in EXCEPT ![e] = Shut(@, out[e].err)]
          /\ epc' = [epc EXCEPT ![e] = "done"]
          /\ UNCHANGED out
       \/ /\ ~out[e].closed /\ ChanRoom(out[e])
          /\ out' = [out EXCEPT ![e] = Put1(@, Msg("hdr"))]
          /\ epc' = [epc EXCEPT ![e] =
                IF op[e] = "put" /\ mode[e] # "dir" THEN "fwd"
                ELSE "closeout"]
          /\ UNCHANGED in
    /\ UNCHANGED <<op, mode, msg, rc, dc, hup, sgot, ssent, got, fed>>

\* close(c.Out), then wait for the reply.
CloseOut(e) ==
    /\ epc[e] = "closeout"
    /\ out' = [out EXCEPT ![e] = Shut(@, "none")]
    /\ epc' = [epc EXCEPT ![e] =
            IF op[e] \in StreamKinds THEN "loop" ELSE "recv"]
    /\ UNCHANGED <<op, mode, msg, in, rc, dc, hup, sgot, ssent, got, fed>>

\* Put: for m := range dc.  At the end, close(c.Out, cerror(dc)); an
\* error there also closes c.In and rc and returns.
PutFwd(e) ==
    LET d == IF OwnDc(e) THEN Shut(Open, "none") ELSE dc[e] IN
    /\ epc[e] = "fwd"
    /\ \/ /\ d.buf # <<>>
          /\ msg' = [msg EXCEPT ![e] = Head(d.buf)]
          /\ dc' = [dc EXCEPT ![e].buf = Tail(@)]
          /\ epc' = [epc EXCEPT ![e] = "fwdout"]
          /\ UNCHANGED <<out, in, rc>>
       \/ /\ d.buf = <<>> /\ d.closed
          /\ out' = [out EXCEPT ![e] = Shut(@, d.err)]
          /\ IF d.err = "none"
             THEN epc' = [epc EXCEPT ![e] = "recv"] /\ UNCHANGED <<in, rc>>
             ELSE /\ in' = [in EXCEPT ![e] = Shut(@, d.err)]
                  /\ rc' = [rc EXCEPT ![e] = Shut(@, d.err)]
                  /\ epc' = [epc EXCEPT ![e] = "done"]
          /\ UNCHANGED <<msg, dc>>
    /\ UNCHANGED <<op, mode, hup, sgot, ssent, got, fed>>

\* Put: ok := c.Out <- m; a failed send closes dc, c.In and rc with
\* cerror(c.Out) and returns.
PutFwdOut(e) ==
    /\ epc[e] = "fwdout"
    /\ \/ /\ out[e].closed
          /\ dc' = [dc EXCEPT ![e] = Shut(@, out[e].err)]
          /\ in' = [in EXCEPT ![e] = Shut(@, out[e].err)]
          /\ rc' = [rc EXCEPT ![e] = Shut(@, out[e].err)]
          /\ epc' = [epc EXCEPT ![e] = "done"]
          /\ UNCHANGED out
       \/ /\ ~out[e].closed /\ ChanRoom(out[e])
          /\ out' = [out EXCEPT ![e] = Put1(@, msg[e])]
          /\ epc' = [epc EXCEPT ![e] = "fwd"]
          /\ UNCHANGED <<dc, in, rc>>
    /\ UNCHANGED <<op, mode, msg, hup, sgot, ssent, got, fed>>

\* dircall, errcall, Put: m := <-c.In (nil once c.In is closed and empty).
Recv(e) ==
    /\ epc[e] = "recv"
    /\ in[e].buf # <<>> \/ in[e].closed
    /\ IF in[e].buf # <<>>
       THEN /\ msg' = [msg EXCEPT ![e] = Head(in[e].buf)]
            /\ in' = [in EXCEPT ![e].buf = Tail(@)]
       ELSE /\ msg' = [msg EXCEPT ![e] = NoMsg]
            /\ UNCHANGED in
    /\ epc' = [epc EXCEPT ![e] = "check"]
    /\ UNCHANGED <<op, mode, out, rc, dc, hup, sgot, ssent, got, fed>>

\* err := cerror(c.In), then
\*   errcall:       close(c.In, err); rc <- err; close(rc, err)
\*   dircall, Put:  a zx.Dir goes to rc if err is nil, anything else is
\*                  ErrBadMsg; close(rc, err); close(c.In, err).
\* The error errcall sends on rc is recorded as its close reason.
Check(e) ==
    LET err == CError(in[e])
        res == IF op[e] = "err" \/ err # "none" THEN err
               ELSE IF msg[e].t = "dir" THEN "none" ELSE "bad"
    IN
    /\ epc[e] = "check"
    /\ rc' = [rc EXCEPT ![e] =
              Shut(IF op[e] # "err" /\ res = "none" THEN Put1(@, Msg("dir"))
                   ELSE @, res)]
    /\ in' = [in EXCEPT ![e] = Shut(@, res)]
    /\ epc' = [epc EXCEPT ![e] = "done"]
    /\ UNCHANGED <<op, mode, msg, out, dc, hup, sgot, ssent, got, fed>>

\* Get, Find, FindGet: for m := range c.In.  A message of the wrong type
\* closes c.In and rc with ErrBadMsg and leaves the loop.
Loop(e) ==
    /\ epc[e] = "loop"
    /\ \/ /\ in[e].buf # <<>>
          /\ IF Expected(e, Head(in[e].buf))
             THEN /\ in' = [in EXCEPT ![e].buf = Tail(@)]
                  /\ msg' = [msg EXCEPT ![e] = Head(in[e].buf)]
                  /\ epc' = [epc EXCEPT ![e] = "deliver"]
                  /\ UNCHANGED rc
             ELSE /\ in' = [in EXCEPT ![e] = Shut([@ EXCEPT !.buf = Tail(@)],
                                                 "bad")]
                  /\ rc' = [rc EXCEPT ![e] = Shut(@, "bad")]
                  /\ epc' = [epc EXCEPT ![e] = "after"]
                  /\ UNCHANGED msg
       \/ /\ in[e].buf = <<>> /\ in[e].closed
          /\ epc' = [epc EXCEPT ![e] = "after"]
          /\ UNCHANGED <<in, rc, msg>>
    /\ UNCHANGED <<op, mode, out, dc, hup, sgot, ssent, got, fed>>

\* A forwarding step that does not wait for room on rc.
DeliverNoWait(e) ==
    /\ epc[e] = "deliver"
    /\ \/ /\ rc[e].closed
          /\ in' = [in EXCEPT ![e] = Shut(@, rc[e].err)]
          /\ epc' = [epc EXCEPT ![e] = "after"]
          /\ UNCHANGED rc
       \/ /\ ~rc[e].closed
          /\ rc' = [rc EXCEPT ![e] = Put1(@, msg[e])]
          /\ epc' = [epc EXCEPT ![e] = "loop"]
          /\ UNCHANGED in
    /\ UNCHANGED <<op, mode, msg, out, dc, hup, sgot, ssent, got, fed>>

\* ok := rc <- m; when the caller has closed rc, close(c.In, cerror(rc))
\* and leave the loop.
Deliver(e) ==
    /\ epc[e] = "deliver"
    /\ \/ /\ rc[e].closed
          /\ in' = [in EXCEPT ![e] = Shut(@, rc[e].err)]
          /\ epc' = [epc EXCEPT ![e] = "after"]
          /\ UNCHANGED rc
       \/ /\ ~rc[e].closed /\ RcRoom(e)
          /\ rc' = [rc EXCEPT ![e] = Put1(@, msg[e])]
          /\ epc' = [epc EXCEPT ![e] = "loop"]
          /\ UNCHANGED in
    /\ UNCHANGED <<op, mode, msg, out, dc, hup, sgot, ssent, got, fed>>

\* Leaving the loop without closing rc.
AfterNoClose(e) ==
    /\ epc[e] = "after"
    /\ epc' = [epc EXCEPT ![e] = "done"]
    /\ UNCHANGED <<op, mode, msg, out, in, rc, dc, hup, sgot, ssent, got, fed>>

\* close(rc, cerror(c.In))
After(e) ==
    /\ epc[e] = "after"
    /\ rc' = [rc EXCEPT ![e] = Shut(@, CError(in[e]))]
    /\ epc' = [epc EXCEPT ![e] = "done"]
    /\ UNCHANGED <<op, mode, msg, out, in, dc, hup, sgot, ssent, got, fed>>

-----------------------------------------------------------------------------
(* The server end of a call (the peer's zx server, outside src/).         *)

\* The server takes what the mux delivers from c.Out; nothing once the
\* connection is gone.
SrvRecv(e) ==
    /\ ~hup /\ out[e].buf # <<>>
    /\ sgot' = [sgot EXCEPT ![e] = Append(@, Head(out[e].buf))]
    /\ out' = [out EXCEPT ![e].buf = Tail(@)]
    /\ UNCHANGED <<op, mode, epc, msg, in, rc, dc, hup, ssent, got, fed>>

\* The request is whole: the header, and for Put every byte up to a clean
\* close of c.Out.
ReqWhole(e) ==
    /\ sgot[e] # <<>>
    /\ op[e] = "put" => out[e].closed /\ out[e].buf = <<>>
                         /\ out[e].err = "none"

\* Single-reply operations answer with one message, streams with up to
\* MaxReply.
ReplyBound(e) == IF op[e] \in {"dir", "put"} THEN 1 ELSE MaxReply

SrvReply(e) ==
    /\ ReqWhole(e) /\ ~in[e].closed /\ ChanRoom(in[e])
    /\ Len(ssent[e]) < ReplyBound(e)
    /\ \E r \in Replies(e) :
         /\ in' = [in EXCEPT ![e] = Put1(@, r)]
         /\ ssent' = [ssent EXCEPT ![e] = Append(@, r)]
    /\ UNCHANGED <<op, mode, epc, msg, out, rc, dc, hup, sgot, got, fed>>

\* The server ends the reply: cleanly once it has answered, or with an
\* error at any time after the request header.
SrvEnd(e) ==
    /\ sgot[e] # <<>> /\ ~in[e].closed
    /\ \E r \in {"none", "srv"} :
         /\ r = "none" => /\ ReqWhole(e)
                          /\ op[e] \in {"dir", "put"} => ssent[e] # <<>>
         /\ in' = [in EXCEPT ![e] = Shut(@, r)]
    /\ UNCHANGED <<op, mode, epc, msg, out, rc, dc, hup, sgot, ssent, got, fed>>

\* The connection drops: the mux closes both halves of every call with an
\* i/o error, after the messages already received.
Hangup ==
    /\ ~hup
    /\ hup' = TRUE
    /\ out' = [e \in Envs |-> Shut(out[e], "io")]
    /\ in' = [e \in Envs |-> Shut(in[e], "io")]
    /\ UNCHANGED <<op, mode, epc, msg, rc, dc, sgot, ssent, got, fed>>

-----------------------------------------------------------------------------
(* The caller of an envelope                                              *)

\* The caller drains rc (also after it is closed: buffered values first).
CallerRecv(e) ==
    /\ rc[e].buf # <<>>
    /\ got' = [got EXCEPT ![e] = Append(@, Head(rc[e].buf))]
    /\ rc' = [rc EXCEPT ![e].buf = Tail(@)]
    /\ UNCHANGED <<op, mode, epc, msg, out, in, dc, hup, sgot, ssent, fed>>

\* close(rc, err) by the reader of a stream: cooperative cancellation.
CallerCancel(e) ==
    /\ CallerCancels /\ op[e] \in StreamKinds /\ ~rc[e].closed
    /\ rc' = [rc EXCEPT ![e] = Shut(@, "cancel")]
    /\ UNCHANGED <<op, mode, epc, msg, out, in, dc, hup, sgot, ssent, got, fed>>

\* A Put caller that supplied dc sends its chunks on it (an unbuffered
\* channel: one chunk waits for the envelope); a send on a dc the
\* envelope closed fails and the caller stops.
CallerFeed(e) ==
    /\ op[e] = "put" /\ mode[e] # "nil"
    /\ fed[e] < NChunks /\ ~dc[e].closed /\ dc[e].buf = <<>>
    /\ dc' = [dc EXCEPT ![e] = Put1(@, Chunk(fed[e] + 1))]
    /\ fed' = [fed EXCEPT ![e] = @ + 1]
    /\ UNCHANGED <<op, mode, epc, msg, out, in, rc, hup, sgot, ssent, got>>

\* The caller closes dc: cleanly after its last chunk, or with an error
\* to abort the Put at any point.
CallerEndPut(e) ==
    /\ op[e] = "put" /\ mode[e] # "nil" /\ ~dc[e].closed
    /\ dc[e].buf = <<>>
    /\ \E r \in {"none", "abort"} :
         /\ r = "none" => fed[e] = NChunks
         /\ dc' = [dc EXCEPT ![e] = Shut(@, r)]
    /\ UNCHANGED <<op, mode, epc, msg, out, in, rc, hup, sgot, ssent, got, fed>>

-----------------------------------------------------------------------------
Init ==
    /\ op \in [Envs -> Ops]
    /\ mode \in [Envs -> PutModes]
    /\ epc = [e \in Envs |-> "rpc"]
    /\ msg = [e \in Envs |-> NoMsg]
    /\ out = [e \in Envs |-> Open] /\ in = [e \in Envs |-> Open]
    /\ rc = [e \in Envs |-> Open] /\ dc = [e \in Envs |-> Open]
    /\ hup = FALSE
    /\ sgot = [e \in Envs |-> <<>>] /\ ssent = [e \in Envs |-> <<>>]
    /\ got = [e \in Envs |-> <<>>]
    /\ fed = [e \in Envs |-> 0]

Envelope(e) ==
    \/ Rpc(e) \/ SendReq(e) \/ CloseOut(e) \/ PutFwd(e) \/ PutFwdOut(e)
    \/ Recv(e) \/ Check(e) \/ Loop(e) \/ Deliver(e) \/ After(e)

Server(e) == SrvRecv(e) \/ SrvReply(e) \/ SrvEnd(e)

Caller(e) == CallerRecv(e) \/ CallerCancel(e) \/ CallerFeed(e) \/ CallerEndPut(e)

\* Every envelope has returned; what is left for its caller is only reads.
Finished == \A e \in Envs : epc[e] = "done" /\ rc[e].buf = <<>>

Terminating == Finished /\ UNCHANGED vars

Next ==
    \/ \E e \in Envs : Envelope(e) \/ Server(e) \/ Caller(e)
    \/ Hangup
    \/ Terminating

\* Goroutines that can run do run: the envelope, the server until it ends
\* its reply, and a caller that drains rc and finishes feeding its data.
\* Neither a reply message nor a hangup nor a cancellation is forced.
Fairness ==
    \A e \in Envs :
        /\ WF_vars(Envelope(e))
        /\ WF_vars(SrvRecv(e)) /\ WF_vars(SrvEnd(e))
        /\ WF_vars(CallerRecv(e))
        /\ WF_vars(CallerFeed(e)) /\ WF_vars(CallerEndPut(e))

Spec == Init /\ [][Next]_vars /\ Fairness


-----------------------------------------------------------------------------
(* Properties                                                             *)

\* What the caller has seen on rc, including what it has not read yet.
Delivered(e) == got[e] \o rc[e].buf

\* The values each operation promises on its result channel.
WellTyped(e, m) ==
    CASE op[e] \in {"dir", "put", "find"} -> m = Msg("dir")
      [] op[e] = "get"                    -> m.t = "data"
      [] op[e] = "findget"                -> m.t \in {"dir", "data"}
      [] op[e] = "err"                    -> FALSE

\* The data a Put caller supplied before closing dc.
Supplied(e) == IF mode[e] = "data" THEN [i \in 1..fed[e] |-> Chunk(i)] ELSE <<>>

\* The result an envelope hands its caller is faithful to the reply: only
\* values of the operation's type; for streams, the server's messages in
\* order with none lost or repeated; for Stat, Wstat and Put at most one
\* entry.  A clean close of rc (no error) means the whole reply arrived:
\* a stream or error-only reply ended cleanly at the server and every
\* message reached the caller; a single reply delivered its entry; and a
\* Put server received exactly the bytes the caller supplied, which the
\* caller ended cleanly.  This is about Loop/Deliver (Get, Find, FindGet),
\* the cerror/type checks of dircall, errcall and Put, and Put's data
\* forwarding, each racing the server, the caller and a hangup.
ResultIsFaithful ==
    \A e \in Envs :
        LET d == Delivered(e) IN
        /\ \A i \in 1..Len(d) : WellTyped(e, d[i])
        /\ op[e] \in StreamKinds => SeqX!IsPrefix(d, ssent[e])
        /\ op[e] \in {"dir", "put"} => Len(d) <= 1
        /\ rc[e].closed /\ rc[e].err = "none" =>
             /\ op[e] \in StreamKinds \cup {"err"} =>
                    in[e].closed /\ in[e].err = "none"
             /\ op[e] \in StreamKinds => d = ssent[e]
             /\ op[e] \in {"dir", "put"} => d = <<Msg("dir")>>
             /\ op[e] = "put" =>
                    /\ sgot[e] = <<Msg("hdr")>> \o Supplied(e)
                    /\ mode[e] = "data" => dc[e].closed /\ dc[e].err = "none"

\* Once an envelope has sent its request, it closes the caller's result
\* channel: whatever the server, the caller or the network does, nobody
\* reading rc waits forever (dircall, errcall, Get, Put, Find, FindGet
\* after a successful c.Out <- m).
RepliedResultCloses ==
    \A e \in Envs : epc[e] \in {"closeout", "fwd"} ~> rc[e].closed

\* Every envelope closes the caller's result channel (spec: "every
\* envelope closes its result channel exactly once"), also when the
\* request cannot be sent because the mux has hung up.
ResultCloses == \A e \in Envs : <>rc[e].closed

=============================================================================
