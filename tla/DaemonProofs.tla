----------------------------- MODULE DaemonProofs -----------------------------
(***************************************************************************)
(* Theorems about Daemon, for any number of starts, versions, migrations,  *)
(* handlers and sessions.                                                  *)
(*                                                                         *)
(* First the composition: whatever main does, the tables move by steps of  *)
(* Sessions and the schema by steps of Migrations, so what is proved of    *)
(* either holds of the daemon.  Then the version check: unless one of its  *)
(* statements failed, the open sessions are those of the version recorded  *)
(* last (VersionInv), and the wipe is reached only by another version.     *)
(***************************************************************************)
EXTENDS Daemon, SessionsProofs, MigrationsProofs

\* Where main stands and where the migrations stand.
PhaseInv ==
  /\ phase # "down" => version \in Versions
  /\ phase \in {"down", "open"} => step.pc = "stopped"
  /\ phase = "migrate" => step.pc \notin {"stopped", "done"}
  /\ phase \notin {"down", "open", "migrate"} => step.pc = "done"

\* Whose the open sessions are.
VersionInv ==
  /\ phase = "wipe" => lastSeen \notin {version, NoVersion}
  /\ ~flawed =>
       /\ \A t \in Tokens : IsOpen(t) => /\ issuedBy[t] = lastSeen
                                         /\ lastSeen \in Versions
       /\ phase = "set" => \A t \in Tokens : ~IsOpen(t)
       /\ phase = "serving" => lastSeen = version

BootTypeOK ==
  /\ phase \in Phases
  /\ version \in Versions \cup {NoVersion}
  /\ lastSeen \in Versions \cup {NoVersion}
  /\ starts \in 0..MaxStarts
  /\ flawed \in BOOLEAN
  /\ issuedBy \in [Tokens -> Versions \cup {NoVersion}]

DaemonInv ==
  /\ IInv
  /\ MigrationsInv
  /\ BootTypeOK
  /\ PhaseInv
  /\ VersionInv

-----------------------------------------------------------------------------
(* The composition.                                                        *)

LEMMA DaemonStepsSessions == [DaemonNext]_daemonVars => [Next]_vars
  BY DEF DaemonNext, daemonVars, vars, StartStep, LoadConfig, OpenDatabase,
         Migrate, GetVersion, GetVersionFails, WipeSessions, WipeFails,
         SetVersion, SetVersionFails, ServeRequests, StopProcess, TimePasses,
         Next

LEMMA DaemonStepsMigrations ==
  [DaemonNext]_daemonVars => [MigrationsNext]_migrationVars
  BY DEF DaemonNext, daemonVars, migrationVars, StartStep, LoadConfig,
         OpenDatabase, Migrate, GetVersion, GetVersionFails, WipeSessions,
         WipeFails, SetVersion, SetVersionFails, ServeRequests, StopProcess,
         TimePasses, MigrationsNext

\* Over all its starts and stops the daemon keeps sessions as Sessions says
\* and migrates as Migrations says (main.go:42-139).
THEOREM DaemonComposes == DaemonSpec => Spec /\ MigrationsSpec
<1>1. DaemonInit => Init /\ MigrationsInit
  BY DEF DaemonInit
<1> QED
  BY <1>1, DaemonStepsSessions, DaemonStepsMigrations, PTL
  DEF DaemonSpec, Spec, MigrationsSpec

-----------------------------------------------------------------------------
(* The start.                                                              *)

LEMMA DaemonInvInit == DaemonInit => DaemonInv
<1> SUFFICES ASSUME DaemonInit PROVE DaemonInv
  OBVIOUS
<1>1. IInv /\ MigrationsInv
  BY InvInit, MigrationsInvInit DEF DaemonInit
<1>2. BootTypeOK
  <2>1. starts \in 0..MaxStarts
    BY DaemonAssumption DEF DaemonInit
  <2> QED
    BY <2>1 DEF DaemonInit, BootTypeOK, Phases
<1>3. PhaseInv
  BY DEF DaemonInit, PhaseInv, MigrationsInit, NotMigrating
<1>4. VersionInv
  <2>1. \A t \in Tokens : ~IsOpen(t)
    BY DEF DaemonInit, Init, IsOpen, Unissued
  <2> QED
    BY <2>1 DEF DaemonInit, VersionInv
<1> QED
  BY <1>1, <1>2, <1>3, <1>4 DEF DaemonInv

LEMMA BootTypeStep ==
  BootTypeOK /\ [DaemonNext]_daemonVars => BootTypeOK'
<1> SUFFICES ASSUME BootTypeOK, [DaemonNext]_daemonVars PROVE BootTypeOK'
  OBVIOUS
<1>1. CASE LoadConfig
  BY <1>1, DaemonAssumption DEF BootTypeOK, Phases, LoadConfig
<1>2. CASE OpenDatabase \/ Migrate
  BY <1>2 DEF BootTypeOK, Phases, OpenDatabase, Migrate
<1>3. CASE GetVersion \/ GetVersionFails \/ WipeSessions \/ WipeFails
             \/ SetVersion \/ SetVersionFails
  BY <1>3
  DEF BootTypeOK, Phases, GetVersion, GetVersionFails, WipeSessions,
      WipeFails, SetVersion, SetVersionFails
<1>4. CASE ServeRequests
  BY <1>4 DEF BootTypeOK, ServeRequests
<1>5. CASE StopProcess \/ TimePasses \/ UNCHANGED daemonVars
  BY <1>5 DEF BootTypeOK, Phases, StopProcess, TimePasses, bootVars, daemonVars
<1> QED
  BY <1>1, <1>2, <1>3, <1>4, <1>5 DEF DaemonNext, StartStep

LEMMA PhaseStep ==
  ASSUME MigrationsInv, BootTypeOK, PhaseInv, [DaemonNext]_daemonVars
  PROVE  PhaseInv'
<1>1. CASE LoadConfig
  BY <1>1 DEF LoadConfig, PhaseInv, migrationVars
<1>2. CASE OpenDatabase
  BY <1>2 DEF OpenDatabase, BeginMigrating, PhaseInv
<1>3. CASE Migrate
  BY <1>3 DEF Migrate, PhaseInv
<1>4. CASE GetVersion \/ GetVersionFails \/ WipeSessions \/ WipeFails
             \/ SetVersion \/ SetVersionFails
  BY <1>4 DEF PhaseInv, GetVersion, GetVersionFails, WipeSessions, WipeFails,
              SetVersion, SetVersionFails, migrationVars
<1>5. CASE ServeRequests \/ TimePasses \/ UNCHANGED daemonVars
  BY <1>5 DEF PhaseInv, ServeRequests, TimePasses, daemonVars, bootVars,
              migrationVars
<1>6. CASE StopProcess
  BY <1>6
  DEF StopProcess, PhaseInv, CutShort, RollBack, NotMigrating, migrationVars
<1> QED
  BY <1>1, <1>2, <1>3, <1>4, <1>5, <1>6 DEF DaemonNext, StartStep

\* A statement of a handler, or of the purge, opens a session only with a
\* token that was not issued before.
LEMMA ServingOpens ==
  ASSUME IInv, Serving, NEW t \in Tokens, IsOpen(t)', ~IsOpen(t)
  PROVE  sessions[t] = Unissued /\ sessions'[t] # Unissued
<1>1. sessions'[t] # Unissued
  BY DEF IsOpen, Unissued
<1>2. sessions'[t].state = "open" /\ sessions[t].state # "open"
  BY DEF IsOpen
<1>3. ASSUME NEW p \in Procs, LoginOpen(p) PROVE sessions[t] = Unissued
  BY <1>2, <1>3 DEF LoginOpen, IInv, TypeOK
<1>4. ASSUME NEW p \in Procs, LookupSlide(p) PROVE FALSE
  BY <1>2, <1>4 DEF LookupSlide, IInv, TypeOK, SlideMatches, IsOpen
<1>5. ASSUME NEW S, End(S) PROVE FALSE
  BY <1>2, <1>5 DEF End, Ended
<1> QED
  BY <1>1, <1>2, <1>3, <1>4, <1>5, SessionWriters
  DEF Next, LogoutEnd, DeleteAccount, PurgeDelete, Wipe

LEMMA VersionStep ==
  ASSUME IInv, BootTypeOK, PhaseInv, VersionInv, [DaemonNext]_daemonVars
  PROVE  VersionInv'
<1>1. CASE LoadConfig
  BY <1>1, DaemonAssumption DEF LoadConfig, VersionInv, vars, IsOpen
<1>2. CASE OpenDatabase \/ Migrate
  BY <1>2 DEF OpenDatabase, Migrate, VersionInv, vars, IsOpen
<1>3. CASE GetVersion
  <2>1. UNCHANGED <<sessions, version, lastSeen, flawed, issuedBy>>
    BY <1>3 DEF GetVersion, vars
  <2>2. (~flawed /\ lastSeen = NoVersion) => \A t \in Tokens : ~IsOpen(t)
    BY DaemonAssumption DEF VersionInv
  <2> QED
    BY <1>3, <2>1, <2>2 DEF GetVersion, VersionInv, IsOpen
<1>4. CASE GetVersionFails \/ WipeFails \/ SetVersionFails
  BY <1>4 DEF GetVersionFails, WipeFails, SetVersionFails, VersionInv
<1>5. CASE WipeSessions
  <2>1. \A t \in Tokens : ~IsOpen(t)'
    BY <1>5 DEF WipeSessions, Wipe, End, Ended, IsOpen
  <2> QED
    BY <1>5, <2>1 DEF WipeSessions, VersionInv
<1>6. CASE SetVersion
  BY <1>6 DEF SetVersion, VersionInv, vars, IsOpen
<1>7. CASE ServeRequests
  <2>1. phase = "serving" /\ UNCHANGED <<phase, version, lastSeen, flawed>>
    BY <1>7 DEF ServeRequests
  <2>2. ASSUME ~flawed, NEW t \in Tokens, IsOpen(t)'
        PROVE  issuedBy'[t] = lastSeen /\ lastSeen \in Versions
    <3>1. lastSeen = version /\ version \in Versions
      BY <2>1, <2>2 DEF VersionInv, PhaseInv
    <3>2. CASE IsOpen(t)
      <4>1. sessions[t] # Unissued
        BY <3>2 DEF IsOpen, Unissued
      <4> QED
        BY <1>7, <2>2, <3>1, <3>2, <4>1 DEF ServeRequests, VersionInv
    <3>3. CASE ~IsOpen(t)
      BY <1>7, <2>2, <3>1, <3>3, ServingOpens DEF ServeRequests
    <3> QED
      BY <3>2, <3>3
  <2> QED
    BY <2>1, <2>2 DEF VersionInv
<1>8. CASE StopProcess
  BY <1>8 DEF StopProcess, Crash, VersionInv, IsOpen
<1>9. CASE TimePasses \/ UNCHANGED daemonVars
  BY <1>9 DEF TimePasses, Tick, daemonVars, bootVars, vars, VersionInv, IsOpen
<1> QED
  BY <1>1, <1>2, <1>3, <1>4, <1>5, <1>6, <1>7, <1>8, <1>9
  DEF DaemonNext, StartStep

LEMMA DaemonInvStep == DaemonInv /\ [DaemonNext]_daemonVars => DaemonInv'
  BY InvStep, MigrationsInvStep, DaemonStepsSessions, DaemonStepsMigrations,
     BootTypeStep, PhaseStep, VersionStep
  DEF DaemonInv

THEOREM DaemonInvAlways == DaemonSpec => []DaemonInv
  BY DaemonInvInit, DaemonInvStep, PTL DEF DaemonSpec

\* Every variable of the daemon and of what it composes has its type.
THEOREM DaemonTypesHold == DaemonSpec => []DaemonTypeOK
<1>1. DaemonInv => DaemonTypeOK
  BY DEF DaemonInv, DaemonTypeOK, IInv, MigrationsInv, BootTypeOK
<1> QED
  BY <1>1, DaemonInvAlways, PTL

\* Whoever is served is served by a daemon that has applied every migration,
\* once (main.go:57-61, db.go:62-121).
THEOREM NobodyIsServedBeforeMigrating == DaemonSpec => []MigratedBeforeServing
<1>1. DaemonInv => MigratedBeforeServing
  BY DEF DaemonInv, PhaseInv, MigrationsInv, LoopInv, MigratedBeforeServing
<1> QED
  BY <1>1, DaemonInvAlways, PTL

\* No session outlives the version that issued it, however many starts of
\* however many versions were cut short where, unless a statement of the
\* version check has failed (main.go:70-90).
THEOREM NewVersionsStartClean == DaemonSpec => []NewVersionStartsClean
<1>1. DaemonInv => NewVersionStartsClean
  BY DEF DaemonInv, VersionInv, NewVersionStartsClean
<1> QED
  BY <1>1, DaemonInvAlways, PTL

LEMMA OtherStepsKeepSessions ==
  ASSUME [DaemonNext]_daemonVars, ~WipeSessions, ~ServeRequests
  PROVE  UNCHANGED sessions
  BY DEF DaemonNext, daemonVars, vars, StartStep, LoadConfig, OpenDatabase,
         Migrate, GetVersion, GetVersionFails, WipeFails, SetVersion,
         SetVersionFails, StopProcess, TimePasses, Crash, Tick

LEMMA KeepingStep ==
  ASSUME DaemonInv, [DaemonNext]_daemonVars, ~flawed,
         phase # "serving" \/ phase' # "serving",
         NEW t \in Tokens, IsOpen(t), issuedBy[t] = version
  PROVE  IsOpen(t)'
<1>1. CASE WipeSessions
  BY <1>1 DEF WipeSessions, DaemonInv, VersionInv
<1>2. CASE ServeRequests
  BY <1>2 DEF ServeRequests
<1>3. CASE ~WipeSessions /\ ~ServeRequests
  BY <1>3, OtherStepsKeepSessions DEF IsOpen
<1> QED
  BY <1>1, <1>2, <1>3

\* A restart of the same binary, and a start that is cut short, take no
\* session away (main.go:72).
THEOREM RestartsNeverEndSessions == DaemonSpec => RestartsKeepSessions
<1>1. DaemonInv /\ [DaemonNext]_daemonVars =>
        [(~flawed /\ (phase # "serving" \/ phase' # "serving"))
           => \A t \in Tokens :
                (IsOpen(t) /\ issuedBy[t] = version) => IsOpen(t)']_daemonVars
  BY KeepingStep
<1> QED
  BY <1>1, DaemonInvAlways, PTL DEF DaemonSpec, RestartsKeepSessions

LEMMA WipingStep ==
  ASSUME DaemonInv, [DaemonNext]_daemonVars,
         NEW t \in Tokens, Live(t), ~IsOpen(t)'
  PROVE  \/ phase = "serving" /\ EndedWhileServing(t)
         \/ phase = "wipe" /\ lastSeen \notin {version, NoVersion}
<1>1. CASE WipeSessions
  BY <1>1 DEF WipeSessions, DaemonInv, VersionInv
<1>2. CASE ServeRequests
  BY <1>2, ServingEnds DEF ServeRequests, DaemonInv
<1>3. CASE ~WipeSessions /\ ~ServeRequests
  BY <1>3, OtherStepsKeepSessions DEF Live, IsOpen
<1> QED
  BY <1>1, <1>2, <1>3

\* Whatever statement of whatever start has failed, a session that is still
\* good is lost only to a logout, to the end of its account or to a binary
\* that found another one recorded before it (main.go:70-90).
THEOREM OnlyAnotherVersionEverWipes == DaemonSpec => OnlyAnotherVersionWipes
<1>1. DaemonInv /\ [DaemonNext]_daemonVars =>
        [\A t \in Tokens :
           (Live(t) /\ ~IsOpen(t)') =>
             \/ phase = "serving" /\ \E p \in Procs : /\ At(p, "end")
                                                      /\ call[p].token = t
                                                      /\ call'[p].answer = "ok"
             \/ phase = "serving" /\ accounts'[sessions[t].user] = NoAccount
             \/ phase = "wipe" /\ lastSeen \notin {version, NoVersion}
        ]_daemonVars
  BY WipingStep DEF EndedWhileServing
<1> QED
  BY <1>1, DaemonInvAlways, PTL DEF DaemonSpec, OnlyAnotherVersionWipes

\* Over all its starts and stops, of whatever binaries, the daemon keeps one
\* register of sessions: no restart opens an ended one again or issues its
\* token anew (main.go:57-139, auth.go:244-343).
THEOREM DaemonKeepsOneRegister == DaemonSpec => ImplementsRegister
  BY DaemonComposes, ServiceImplementsRegister, PTL

=============================================================================
