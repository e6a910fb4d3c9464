----------------------------- MODULE SessionCookie -----------------------------
(***************************************************************************)
(* Sessions with the cookie that carries the token, internal/httpapi/      *)
(* cookie.go.  The answer to a login sets it, the answer to a logout       *)
(* clears it, and no other answer does either.  The browser drops it when  *)
(* it expires.                                                             *)
(***************************************************************************)
EXTENDS Sessions

VARIABLE cookies  \* when each token's cookie expires; NoTime: there is none

LoggedOut(t) ==
  \E p \in Procs : At(p, "end") /\ call[p].token = t /\ call'[p].answer = "ok"

\* setSessionCookie and clearSessionCookie.
CookieStep ==
  cookies' = [t \in Tokens |->
                IF t \in handed' \ handed THEN clock + TTL
                ELSE IF LoggedOut(t) THEN NoTime
                ELSE cookies[t]]

CookieSpec ==
  /\ Init
  /\ cookies = [t \in Tokens |-> NoTime]
  /\ [][Next /\ CookieStep]_<<vars, cookies>>

-----------------------------------------------------------------------------
(* What the code's comments say and the code does not do.                  *)

\* "SessionTTL is the sliding inactivity window.  Each authenticated request
\* extends expires_at to now+SessionTTL; a gap longer than this drops the
\* session" (auth.go:31).  A browser loses it without a gap: the cookie does
\* not slide (cookie.go:23), and it is dropped SessionTTL after the login.
CookieLastsAsLongAsSession ==
  \A t \in Tokens : (Live(t) /\ cookies[t] # NoTime) => clock < cookies[t]

=============================================================================
