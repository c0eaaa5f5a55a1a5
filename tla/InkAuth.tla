------------------------------- MODULE InkAuth -------------------------------
(***************************************************************************)
(* The cookie checks of the ink web handlers (src/net/ink/auth.go).       *)
(* AuthHandler wraps an http.HandlerFunc, AuthWebSocketHandler a          *)
(* websocket.Handler; each has its own copy of the same test.  When       *)
(* auth.TLSserver is set and auth.Enabled, the "clive" cookie must hold   *)
(* either a time-based token "totp:code:time" that auth.TotpOk accepts,   *)
(* or a challenge-response token "challenge:response" that                 *)
(* auth.ChallengeResponseOk accepts.  A refused page request gets the     *)
(* logged-out page, which expires the cookie; a refused websocket gets    *)
(* 403.  The websocket server also refuses a handshake whose Origin       *)
(* header is missing or malformed (checkOrigin).                          *)
(*                                                                         *)
(* A cookie value is the sequence of its ":"-separated parts; each part   *)
(* is a word without ':'.  strings.SplitN(v, ":", 3) gives tokens; a      *)
(* token is a sequence of parts, so the third token keeps the ':' of      *)
(* everything after the second.  The auth package is not in the          *)
(* repository: TotpOk and ChallengeResponseOk are the sets of token       *)
(* pairs they accept.  The login page's forms (serveLoginFor) build the   *)
(* cookies the handlers read.                                              *)
(***************************************************************************)
EXTENDS Naturals, Sequences

CONSTANTS
    TotpGood,   \* the <<code, time>> token pairs auth.TotpOk accepts
    CRGood,     \* the <<challenge, response>> pairs auth.ChallengeResponseOk accepts
    NoCookie    \* r.Cookie("clive") fails

\* The server's auth settings: auth.TLSserver # nil, auth.Enabled.
Configs == [tls : BOOLEAN, enabled : BOOLEAN]

\* What the Origin header of a websocket request parses to.
Origins == {"none", "bad", "ok"}

\* strings.SplitN(v, ":", 3).
SplitN3(v) ==
    IF Len(v) <= 3 THEN [i \in DOMAIN v |-> <<v[i]>>]
    ELSE <<<<v[1]>>, <<v[2]>>, SubSeq(v, 3, Len(v))>>

-----------------------------------------------------------------------------
(* The handlers                                                            *)

\* checkOrigin: websocket.Origin fails on a malformed header and gives
\* nil for a missing one, which is refused as "null origin".
CheckOrigin(origin) == origin = "ok"

\* AuthWebSocketHandler asking for a cookie when either setting is on.
AuthWebSocketHandlerEither(cfg, cookie, origin) ==
    LET authOk ==
          \/ ~(cfg.tls \/ cfg.enabled)
          \/ /\ cookie # NoCookie
             /\ LET toks == SplitN3(cookie) IN
                CASE Len(toks) = 3 -> /\ toks[1] = <<"totp">>
                                      /\ <<toks[2], toks[3]>> \in TotpGood
                  [] Len(toks) = 2 -> <<toks[1], toks[2]>> \in CRGood
                  [] OTHER         -> FALSE
    IN IF ~authOk THEN "403"
       ELSE IF CheckOrigin(origin) THEN "serve" ELSE "handshake"

\* AuthWebSocketHandler: "serve" runs h, "403" is http.Error(w, "auth
\* failed", 403), "handshake" is the websocket server refusing the
\* handshake because checkOrigin failed.
AuthWebSocketHandler(cfg, cookie, origin) ==
    LET authOk ==
          \/ ~(cfg.tls /\ cfg.enabled)
          \/ /\ cookie # NoCookie
             /\ LET toks == SplitN3(cookie) IN
                CASE Len(toks) = 3 -> /\ toks[1] = <<"totp">>
                                      /\ <<toks[2], toks[3]>> \in TotpGood
                  [] Len(toks) = 2 -> <<toks[1], toks[2]>> \in CRGood
                  [] OTHER         -> FALSE
    IN IF ~authOk THEN "403"
       ELSE IF CheckOrigin(origin) THEN "serve" ELSE "handshake"

\* AuthHandler without the test that a three-token cookie starts with
\* "totp".
AuthHandlerAnyTag(cfg, cookie) ==
    IF ~cfg.tls \/ ~cfg.enabled THEN "fn"
    ELSE IF cookie = NoCookie THEN "loggedout"
    ELSE LET toks == SplitN3(cookie) IN
         CASE Len(toks) = 3 -> IF <<toks[2], toks[3]>> \in TotpGood
                               THEN "fn" ELSE "loggedout"
           [] Len(toks) = 2 -> IF <<toks[1], toks[2]>> \in CRGood
                               THEN "fn" ELSE "loggedout"
           [] OTHER         -> "loggedout"

\* AuthHandler: "fn" calls the wrapped handler, "loggedout" writes the
\* authFailed page.
AuthHandler(cfg, cookie) ==
    IF ~cfg.tls \/ ~cfg.enabled THEN "fn"
    ELSE IF cookie = NoCookie THEN "loggedout"
    ELSE LET toks == SplitN3(cookie) IN
         CASE Len(toks) = 3 -> IF toks[1] = <<"totp">> /\ <<toks[2], toks[3]>> \in TotpGood
                               THEN "fn" ELSE "loggedout"
           [] Len(toks) = 2 -> IF <<toks[1], toks[2]>> \in CRGood
                               THEN "fn" ELSE "loggedout"
           [] OTHER         -> "loggedout"

\* The totp form of the login page: "clive=totp:" + code + ":" + time.
TotpCookie(code, time) == <<"totp">> \o code \o time

\* The password form: "clive=" + challenge + ":" + ciphertext.
CRCookie(ch, resp) == ch \o resp


-----------------------------------------------------------------------------
(* The logged-out page                                                    *)

\* authFailed with a script that does not expire the cookie.
AuthFailedKeep(cookie) == cookie

\* authFailed, the page of /logout and of a refused AuthHandler request:
\* its script sets "clive=xxx" with an expiry in 1970, so the browser
\* drops the cookie.
AuthFailed(cookie) == NoCookie

\* A browser's step: submitting a login form with a token pair (the login
\* page's forms set the cookie), visiting /logout, or visiting a page
\* AuthHandler wraps.  The cookie after it, and the page's outcome.
BrowserStep(cfg, cookie, step) ==
    CASE step[1] = "totp"   -> [cookie |-> TotpCookie(step[2][1], step[2][2]), page |-> "login"]
      [] step[1] = "cr"     -> [cookie |-> CRCookie(step[2][1], step[2][2]), page |-> "login"]
      [] step[1] = "logout" -> [cookie |-> AuthFailed(cookie), page |-> "loggedout"]
      [] OTHER ->
           LET r == AuthHandler(cfg, cookie)
           IN [cookie |-> IF r = "loggedout" THEN AuthFailed(cookie) ELSE cookie, page |-> r]

=============================================================================
