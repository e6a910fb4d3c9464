SPECIFICATION CookieSpec
CONSTANTS
  Procs = {p1}
  Users = {u1}
  Passwords = {w1}
  First = w1
  Tokens = {t1}
  TTL = 2
  MaxTime = 2
  NoUser = NoUser
  NoPassword = NoPassword
  NoToken = NoToken
  NoTime = NoTime
INVARIANT CookieLastsAsLongAsSession
