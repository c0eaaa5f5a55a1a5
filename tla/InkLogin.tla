------------------------------ MODULE InkLogin ------------------------------
(***************************************************************************)
(* The /login handler of serveLoginFor (src/net/ink/auth.go, lines        *)
(* 138-203).  net/http runs every request in a goroutine of its own.  The *)
(* handler function is a closure over serveLoginFor's parameter           *)
(* proceedto: a request whose query has a "dst" stores it there (lines    *)
(* 142-145), and then builds the page whose forms and https redirect send *)
(* the browser to proceedto (lines 146-201).  So proceedto is one         *)
(* variable shared by all login requests, written and read without a     *)
(* lock.                                                                   *)
(*                                                                         *)
(* A request is a goroutine with two steps: the query, and the page built *)
(* from proceedto.  The page's three uses of proceedto are one read (one  *)
(* string expression).  Pages, scripts and images are left out; a page   *)
(* is the destination it sends the browser to.                           *)
(***************************************************************************)
EXTENDS Naturals

CONSTANTS
    Reqs,       \* login requests
    Dsts,       \* destinations a query may name
    Default,    \* the proceedto serveLoginFor was called with
    NoDst       \* a query without "dst"

ASSUME Default \notin Dsts /\ NoDst \notin Dsts \cup {Default}

VARIABLES
    proceedto,  \* the closure's variable
    lpc,        \* [Reqs -> "idle", "page" or "done"]
    dst,        \* [Reqs -> the dst of the request's query, or NoDst]
    page        \* [Reqs -> where the page sent the browser, or NoDst]

vars == <<proceedto, lpc, dst, page>>

TypeOK ==
    /\ proceedto \in Dsts \cup {Default}
    /\ lpc \in [Reqs -> {"idle", "page", "done"}]
    /\ dst \in [Reqs -> Dsts \cup {NoDst}]
    /\ page \in [Reqs -> Dsts \cup {Default, NoDst}]

Init ==
    /\ proceedto = Default
    /\ lpc = [r \in Reqs |-> "idle"]
    /\ dst = [r \in Reqs |-> NoDst]
    /\ page = [r \in Reqs |-> NoDst]

\* vals := r.URL.Query(); if len(vals["dst"]) > 0 { proceedto = vals["dst"][0] }
LoginQuery(r, d) ==
    /\ lpc[r] = "idle"
    /\ lpc' = [lpc EXCEPT ![r] = "page"]
    /\ dst' = [dst EXCEPT ![r] = d]
    /\ proceedto' = IF d # NoDst THEN d ELSE proceedto
    /\ UNCHANGED page

\* The page: js := `...` + proceedto + `...`, written to w.
LoginPage(r) ==
    /\ lpc[r] = "page"
    /\ lpc' = [lpc EXCEPT ![r] = "done"]
    /\ page' = [page EXCEPT ![r] = proceedto]
    /\ UNCHANGED <<proceedto, dst>>

\* All requests answered; the server goes on waiting.
Served == \A r \in Reqs : lpc[r] = "done"

Next ==
    \/ \E r \in Reqs, d \in Dsts \cup {NoDst} : LoginQuery(r, d)
    \/ \E r \in Reqs : LoginPage(r)
    \/ Served /\ UNCHANGED vars

Spec == Init /\ [][Next]_vars /\ \A r \in Reqs : WF_vars(LoginPage(r))

-----------------------------------------------------------------------------
(* Properties                                                              *)

\* A login request that names a destination gets a page that proceeds to
\* that destination, as serveLoginFor's comment promises ("proceeding to
\* the indicated page after each login"), whatever other login requests
\* run at the same time.
LoginProceedsToDst ==
    \A r \in Reqs : lpc[r] = "done" /\ dst[r] # NoDst => page[r] = dst[r]

=============================================================================
