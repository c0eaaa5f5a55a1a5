------------------------------ MODULE TotpInit ------------------------------
(***************************************************************************)
(* The start-up of totpinit (src/unnamed/part_001, lines 931-1078).        *)
(* main sets up the secret, then startImage spawns a goroutine that        *)
(* registers imageHandler and runs http.ListenAndServe, and waits one      *)
(* second for an error on `started`.  main then makes the `accessed`       *)
(* channel and waits on it; the first request's handler sends on it from   *)
(* inside once.Do.  After that main reads passcodes until one validates    *)
(* and writes the secret.  log.Fatalf and the return from main end the     *)
(* process, and with it every goroutine.                                   *)
(*                                                                         *)
(* The secret, the image and the text printed are left out.  The global    *)
(* `accessed` is written by main and read by handlers without              *)
(* synchronisation; a handler reads whichever value is there when it       *)
(* runs, nil before line 1056.                                             *)
(***************************************************************************)
EXTENDS Naturals

CONSTANTS
    Requests,   \* browser requests for the QR image
    MaxTries,   \* mistyped passcodes the user enters at most
    LateFail    \* ListenAndServe may fail after it has started serving

ASSUME MaxTries \in Nat /\ LateFail \in BOOLEAN

VARIABLES
    mpc,        \* main's control point
    srv,        \* the goroutine spawned by startImage
    acc,        \* the global `accessed`: "nil" or "chan"
    once,       \* sync.Once: "new", "running" (f in progress), "done"
    hpc,        \* [Requests -> control point of the request's handler]
    hch,        \* [Requests -> value of `accessed` the handler read]
    tries       \* invalid passcodes entered so far

vars == <<mpc, srv, acc, once, hpc, hch, tries>>

MainStates == {"setup", "start", "select", "make", "recv", "passcode",
               "write", "fatal", "exit"}
SrvStates == {"none", "listen", "serving", "ret", "done"}
HandlerStates == {"none", "once", "send", "copy", "done"}

\* log.Fatalf or the end of main: the process has exited.
Exited == mpc \in {"fatal", "exit"}

\* main is past `<-accessed`.
PastAccess == mpc \in {"passcode", "write", "exit"}

TypeOK ==
    /\ mpc \in MainStates /\ srv \in SrvStates
    /\ acc \in {"nil", "chan"} /\ once \in {"new", "running", "done"}
    /\ hpc \in [Requests -> HandlerStates]
    /\ hch \in [Requests -> {"nil", "chan"}]
    /\ tries \in 0..MaxTries

-----------------------------------------------------------------------------
(* main                                                                    *)

\* Account check, totp.Generate, key.Image and png.Encode: each failure
\* is a log.Fatalf.
Setup ==
    /\ mpc = "setup"
    /\ \E ok \in BOOLEAN : mpc' = IF ok THEN "start" ELSE "fatal"
    /\ UNCHANGED <<srv, acc, once, hpc, hch, tries>>

\* startImage: make `started`, spawn the server goroutine, enter select.
StartImage ==
    /\ mpc = "start"
    /\ mpc' = "select" /\ srv' = "listen"
    /\ UNCHANGED <<acc, once, hpc, hch, tries>>

\* The select's time.After case: after one second startImage returns nil.
Timeout ==
    /\ mpc = "select"
    /\ mpc' = "make"
    /\ UNCHANGED <<srv, acc, once, hpc, hch, tries>>

\* accessed = make(chan bool).
MakeAccessed ==
    /\ mpc = "make"
    /\ mpc' = "recv" /\ acc' = "chan"
    /\ UNCHANGED <<srv, once, hpc, hch, tries>>

\* A passcode loop that reads one more passcode after the valid one.
PasscodeOneMore ==
    /\ mpc = "passcode"
    /\ \/ tries < MaxTries /\ tries' = tries + 1 /\ UNCHANGED mpc
       \/ mpc' = "write" /\ tries' = tries + 1
    /\ UNCHANGED <<srv, acc, once, hpc, hch>>

\* The passcode loop: totp.Validate fails (another getPasscode) or
\* succeeds and main goes on to write the secret.
Passcode ==
    /\ mpc = "passcode"
    /\ \/ tries < MaxTries /\ tries' = tries + 1 /\ UNCHANGED mpc
       \/ mpc' = "write" /\ UNCHANGED tries
    /\ UNCHANGED <<srv, acc, once, hpc, hch>>

\* ioutil.WriteFile: on failure log.Fatalf, otherwise main returns.
WriteKey ==
    /\ mpc = "write"
    /\ \E ok \in BOOLEAN : mpc' = IF ok THEN "exit" ELSE "fatal"
    /\ UNCHANGED <<srv, acc, once, hpc, hch, tries>>

-----------------------------------------------------------------------------
(* The server goroutine of startImage                                      *)

\* http.HandleFunc and ListenAndServe: the listen fails at once, or the
\* server serves.
Listen ==
    /\ srv = "listen" /\ ~Exited
    /\ \E ok \in BOOLEAN : srv' = IF ok THEN "serving" ELSE "ret"
    /\ UNCHANGED <<mpc, acc, once, hpc, hch, tries>>

\* ListenAndServe returns an error while serving (accept fails).
ServeFails ==
    /\ LateFail /\ srv = "serving" /\ ~Exited
    /\ srv' = "ret"
    /\ UNCHANGED <<mpc, acc, once, hpc, hch, tries>>

\* e <- err on the unbuffered `started`: it is taken only by main's select,
\* which returns the error, and main calls log.Fatalf.
Report ==
    /\ srv = "ret" /\ mpc = "select"
    /\ srv' = "done" /\ mpc' = "fatal"
    /\ UNCHANGED <<acc, once, hpc, hch, tries>>

-----------------------------------------------------------------------------
(* imageHandler                                                            *)

\* A browser request reaches a serving server.
Arrive(r) ==
    /\ hpc[r] = "none" /\ srv = "serving" /\ ~Exited
    /\ hpc' = [hpc EXCEPT ![r] = "once"]
    /\ UNCHANGED <<mpc, srv, acc, once, hch, tries>>

\* once.Do: the first caller runs f, which reads the global `accessed`;
\* a caller while f runs waits for it; a later caller returns at once.
OnceDo(r) ==
    /\ hpc[r] = "once" /\ once # "running" /\ ~Exited
    /\ IF once = "new"
       THEN /\ once' = "running"
            /\ hch' = [hch EXCEPT ![r] = acc]
            /\ hpc' = [hpc EXCEPT ![r] = "send"]
       ELSE /\ hpc' = [hpc EXCEPT ![r] = "copy"]
            /\ UNCHANGED <<once, hch>>
    /\ UNCHANGED <<mpc, srv, acc, tries>>

\* f's send that leaves the Once running when f returns.
SendKeepRunning(r) ==
    /\ hpc[r] = "send" /\ hch[r] = "chan" /\ mpc = "recv"
    /\ mpc' = "passcode"
    /\ hpc' = [hpc EXCEPT ![r] = "copy"]
    /\ UNCHANGED <<srv, acc, once, hch, tries>>

\* accessed <- true meets main's <-accessed; f returns and the Once is
\* done.  On a nil channel the send blocks forever.
Send(r) ==
    /\ hpc[r] = "send" /\ hch[r] = "chan" /\ mpc = "recv"
    /\ mpc' = "passcode" /\ once' = "done"
    /\ hpc' = [hpc EXCEPT ![r] = "copy"]
    /\ UNCHANGED <<srv, acc, hch, tries>>

\* io.Copy of the image to the response.
Copy(r) ==
    /\ hpc[r] = "copy" /\ ~Exited
    /\ hpc' = [hpc EXCEPT ![r] = "done"]
    /\ UNCHANGED <<mpc, srv, acc, once, hch, tries>>

-----------------------------------------------------------------------------
Init ==
    /\ mpc = "setup" /\ srv = "none" /\ acc = "nil" /\ once = "new"
    /\ hpc = [r \in Requests |-> "none"]
    /\ hch = [r \in Requests |-> "nil"]
    /\ tries = 0

\* The process has exited; nothing runs any more.
Terminating == Exited /\ UNCHANGED vars

Next ==
    \/ Setup \/ StartImage \/ Timeout \/ MakeAccessed \/ Passcode \/ WriteKey
    \/ Listen \/ ServeFails \/ Report
    \/ \E r \in Requests : Arrive(r) \/ OnceDo(r) \/ Send(r) \/ Copy(r)
    \/ Terminating

\* Goroutines that can run do: main's own steps, the one-second timer, the
\* server goroutine's listen and report, and the handlers.  The user is
\* not forced to type a passcode, a browser to ask for the image, or the
\* network to fail.
Fairness ==
    /\ WF_vars(Setup) /\ WF_vars(StartImage) /\ WF_vars(Timeout)
    /\ WF_vars(MakeAccessed) /\ WF_vars(Listen) /\ WF_vars(Report)
    /\ \A r \in Requests : WF_vars(OnceDo(r)) /\ WF_vars(Send(r))
                           /\ WF_vars(Copy(r))

Spec == Init /\ [][Next]_vars /\ Fairness

-----------------------------------------------------------------------------
(* Properties                                                              *)

\* Once main has got past <-accessed, every request that reached the
\* server, including those that waited in once.Do while the first one
\* ran f, is eventually answered with the image, unless the process has
\* exited (imageHandler, sync.Once, main line 1057).
RequestsServedAfterAccess ==
    \A r \in Requests :
        (hpc[r] # "none" /\ PastAccess) ~> (hpc[r] = "done" \/ Exited)

\* A browser that asks for the QR image lets main go on: while main waits
\* on <-accessed with a request already made, it eventually gets past the
\* wait (main lines 1056-1057, imageHandler's send inside once.Do).
AccessUnblocksMain ==
    (mpc = "recv" /\ \E r \in Requests : hpc[r] # "none") ~> (mpc # "recv")

=============================================================================
