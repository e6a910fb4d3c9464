---------------------------- MODULE SessionRegister ----------------------------
(***************************************************************************)
(* What the session service promises, with every operation atomic.         *)
(*                                                                         *)
(*  - A token opens one session, for one account on the staff.             *)
(*  - A session's end is pushed ahead, at most TTL from now and never to   *)
(*    less than TTL after its opening.                                     *)
(*  - A session ends by being closed, with its account, when everything is *)
(*    cleared, or by lapsing; what has ended does not open again.          *)
(***************************************************************************)
EXTENDS Naturals

CONSTANTS Users, Tokens, TTL

VARIABLES register,  \* the session of every token
          staff,     \* accounts that exist
          now        \* the time

registerVars == <<register, staff, now>>

OpenTokens == {t \in Tokens : register[t].state = "open"}

Over(S) ==
  \A t \in Tokens :
    IF t \in S THEN register'[t].state = "ended" ELSE register'[t] = register[t]

RegisterInit ==
  /\ \A t \in Tokens : register[t].state = "unissued"
  /\ staff = Users
  /\ now = 0

\* Opened is the second at which the password was accepted.
Admit(t, u, opened) ==
  /\ register[t].state = "unissued"
  /\ u \in staff
  /\ opened <= now
  /\ register' = [register EXCEPT ![t] =
                    [state |-> "open", user |-> u, created |-> opened,
                     expires |-> opened + TTL]]
  /\ UNCHANGED <<staff, now>>

Extend(t, until) ==
  /\ t \in OpenTokens
  /\ until <= now + TTL
  /\ register[t].created + TTL <= until
  /\ register' = [register EXCEPT ![t] = [@ EXCEPT !.expires = until]]
  /\ UNCHANGED <<staff, now>>

Close(t) ==
  /\ t \in OpenTokens
  /\ Over({t})
  /\ UNCHANGED <<staff, now>>

Lapse ==
  /\ \E S \in SUBSET {t \in OpenTokens : register[t].expires <= now} : Over(S)
  /\ UNCHANGED <<staff, now>>

Clear ==
  /\ Over(OpenTokens)
  /\ UNCHANGED <<staff, now>>

Leave(u) ==
  /\ u \in staff
  /\ staff' = staff \ {u}
  /\ Over({t \in OpenTokens : register[t].user = u})
  /\ UNCHANGED now

Pass ==
  /\ now' = now + 1
  /\ UNCHANGED <<register, staff>>

RegisterNext ==
  \/ \E t \in Tokens :
       \/ \E u \in staff, opened \in 0..now : Admit(t, u, opened)
       \/ \E until \in 0..(now + TTL) : Extend(t, until)
       \/ Close(t)
  \/ Lapse
  \/ Clear
  \/ \E u \in staff : Leave(u)
  \/ Pass

RegisterSpec == RegisterInit /\ [][RegisterNext]_registerVars

=============================================================================
