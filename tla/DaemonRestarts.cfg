SPECIFICATION FairDaemonSpec
CONSTANTS
  Procs = {p1}
  Users = {u1}
  Passwords = {w1}
  First = w1
  Tokens = {t1}
  TTL = 1
  MaxTime = 2
  NoUser = NoUser
  NoPassword = NoPassword
  NoToken = NoToken
  NoTime = NoTime
  Versions = {v1, v2}
  NoVersion = NoVersion
  Count = 2
  MaxStarts = 3
INVARIANTS DaemonTypeOK NewVersionStartsClean MigratedBeforeServing
PROPERTIES RestartsKeepSessions OnlyAnotherVersionWipes ExpiredSessionsGo
