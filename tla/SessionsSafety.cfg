SPECIFICATION Spec
CONSTANTS
  Procs = {p1, p2}
  Users = {u1}
  Passwords = {w1, w2}
  First = w1
  Tokens = {t1, t2}
  TTL = 2
  MaxTime = 2
  NoUser = NoUser
  NoPassword = NoPassword
  NoToken = NoToken
  NoTime = NoTime
SYMMETRY Symmetry
INVARIANTS TypeOK LoginPasswordWasCurrent SettersWereAdmins SessionLastsItsTerm
PROPERTIES LiveSessionsEndForAReason LateRequestsDoNotRevive ImplementsRegister
