-------------------------------- MODULE Daemon --------------------------------
(***************************************************************************)
(* The life of the process, cmd/sfworkflowd/main.go: start, migrate, wipe  *)
(* the sessions if the version is not the one seen last, serve, stop.  It  *)
(* composes Migrations and Sessions over the one database, which survives  *)
(* every stop.  The process may stop at any statement of the start, and    *)
(* may be started again with another binary.                               *)
(*                                                                         *)
(* A statement of the version check that fails is logged and the start     *)
(* goes on; flawed remembers that it has happened.                         *)
(***************************************************************************)
EXTENDS Sessions, Migrations

CONSTANTS Versions,   \* version.Current of the binaries there are
          NoVersion,  \* no value under daemon_version_last_seen
          MaxStarts   \* bound on the starts of the process

ASSUME DaemonAssumption ==
  /\ NoVersion \notin Versions
  /\ MaxStarts \in Nat

VARIABLES phase,     \* where main stands
          version,   \* version.Current of the process
          lastSeen,  \* node_state: daemon_version_last_seen
          starts,    \* how often the process was started
          flawed,    \* history: a statement of the version check has failed
          issuedBy   \* history: the version that issued each token

bootVars == <<phase, version, lastSeen, starts, flawed, issuedBy>>
daemonVars == <<vars, migrationVars, bootVars>>

Phases == {"down", "open", "migrate", "get", "wipe", "set", "serving"}

-----------------------------------------------------------------------------
(* Start.                                                                  *)

\* config.Load: a file that is missing is as good as one that can be read; any
\* other outcome ends the process.
\* Bound: the process is started MaxStarts times, and the last time it stays.
LoadConfig ==
  /\ phase = "down"
  /\ starts < MaxStarts
  /\ starts' = starts + 1
  /\ \E v \in Versions : version' = v
  /\ \/ phase' = "open"
     \/ phase' = "down" /\ starts' < MaxStarts
  /\ UNCHANGED <<vars, migrationVars, lastSeen, flawed, issuedBy>>

\* db.Open up to migrate; that it may fail is in StopProcess.
OpenDatabase ==
  /\ phase = "open"
  /\ BeginMigrating
  /\ phase' = "migrate"
  /\ UNCHANGED <<vars, version, lastSeen, starts, flawed, issuedBy>>

Migrate ==
  /\ phase = "migrate"
  /\ Advance
  /\ phase' = CASE step'.pc = "done"    -> "get"
                [] step'.pc = "stopped" -> "down"
                [] OTHER                -> "migrate"
  /\ UNCHANGED <<vars, version, lastSeen, starts, flawed, issuedBy>>

\* Variant: the version is recorded before the sessions are wiped.
GetVersionRecording ==
  /\ phase = "get"
  /\ lastSeen' = version
  /\ phase' = IF lastSeen \in {NoVersion, version} THEN "serving" ELSE "wipe"
  /\ UNCHANGED <<vars, migrationVars, version, starts, flawed, issuedBy>>

\* Variant: that no version is recorded counts as another one.
GetVersionUnrecorded ==
  /\ phase = "get"
  /\ phase' = IF lastSeen = version THEN "serving" ELSE "wipe"
  /\ UNCHANGED <<vars, migrationVars, version, lastSeen, starts, flawed, issuedBy>>

\* nodestate.Get, and the three cases of what it returns.
GetVersion ==
  /\ phase = "get"
  /\ phase' = CASE lastSeen = NoVersion -> "set"
                [] lastSeen = version   -> "serving"
                [] OTHER                -> "wipe"
  /\ UNCHANGED <<vars, migrationVars, version, lastSeen, starts, flawed, issuedBy>>

GetVersionFails ==
  /\ phase = "get"
  /\ phase' = "serving"
  /\ flawed' = TRUE
  /\ UNCHANGED <<vars, migrationVars, version, lastSeen, starts, issuedBy>>

WipeSessions ==
  /\ phase = "wipe"
  /\ Wipe
  /\ phase' = "set"
  /\ UNCHANGED <<migrationVars, version, lastSeen, starts, flawed, issuedBy>>

WipeFails ==
  /\ phase = "wipe"
  /\ phase' = "set"
  /\ flawed' = TRUE
  /\ UNCHANGED <<vars, migrationVars, version, lastSeen, starts, issuedBy>>

\* Variant: what is recorded is the number of the start.
SetStarts ==
  /\ phase = "set"
  /\ lastSeen' = starts
  /\ phase' = "serving"
  /\ UNCHANGED <<vars, migrationVars, version, starts, flawed, issuedBy>>

\* Variant: the version is only recorded on the very first start.
SetVersionOnce ==
  /\ phase = "set"
  /\ lastSeen' = IF lastSeen = NoVersion THEN version ELSE lastSeen
  /\ phase' = "serving"
  /\ UNCHANGED <<vars, migrationVars, version, starts, flawed, issuedBy>>

\* nodestate.Set.
SetVersion ==
  /\ phase = "set"
  /\ lastSeen' = version
  /\ phase' = "serving"
  /\ UNCHANGED <<vars, migrationVars, version, starts, flawed, issuedBy>>

SetVersionFails ==
  /\ phase = "set"
  /\ phase' = "serving"
  /\ flawed' = TRUE
  /\ UNCHANGED <<vars, migrationVars, version, lastSeen, starts, issuedBy>>

-----------------------------------------------------------------------------
(* Service and stop.                                                       *)

\* ListenAndServe and the purge ticker.
ServeRequests ==
  /\ phase = "serving"
  /\ Serving
  /\ issuedBy' = [t \in Tokens |->
                    IF sessions[t] = Unissued /\ sessions'[t] # Unissued
                      THEN version ELSE issuedBy[t]]
  /\ UNCHANGED <<clock, migrationVars, phase, version, lastSeen, starts, flawed>>

\* The process ends: a migration failed, it was killed, or a signal came.
\* Shutdown waits for the handlers, but not longer than ten seconds.
\* Bound: not the last time.
StopProcess ==
  /\ phase # "down"
  /\ starts < MaxStarts
  /\ Crash
  /\ IF phase = "open" THEN UNCHANGED migrationVars ELSE CutShort
  /\ phase' = "down"
  /\ UNCHANGED <<version, lastSeen, starts, flawed, issuedBy>>

TimePasses == Tick /\ UNCHANGED <<migrationVars, bootVars>>

-----------------------------------------------------------------------------
(* The specification.                                                      *)

DaemonInit ==
  /\ Init
  /\ MigrationsInit
  /\ phase = "down"
  /\ version = NoVersion
  /\ lastSeen = NoVersion
  /\ starts = 0
  /\ flawed = FALSE
  /\ issuedBy = [t \in Tokens |-> NoVersion]

StartStep ==
  \/ LoadConfig \/ OpenDatabase \/ Migrate \/ GetVersion \/ GetVersionFails
  \/ WipeSessions \/ WipeFails \/ SetVersion \/ SetVersionFails

DaemonNext == StartStep \/ ServeRequests \/ StopProcess \/ TimePasses

DaemonSpec == DaemonInit /\ [][DaemonNext]_daemonVars

\* A start goes on as long as nothing stops it, and somebody starts the process
\* again: systemd after a failure (deploy/sfworkflowd.service:10), the operator
\* after a clean exit, which the unit does not undo.  The ticker fires for ever,
\* and its DELETE does not fail every time.
DaemonFairness ==
  /\ WF_daemonVars(StartStep)
  /\ WF_daemonVars(ServeRequests /\ PurgeBegin)
  /\ SF_daemonVars(ServeRequests /\ PurgeDelete)

FairDaemonSpec == DaemonSpec /\ DaemonFairness

-----------------------------------------------------------------------------
(* Properties.                                                             *)

\* The type of every variable that Sessions and Migrations do not type.
DaemonTypeOK ==
  /\ TypeOK
  /\ MigrationsTypeOK
  /\ phase \in Phases
  /\ version \in Versions \cup {NoVersion}
  /\ lastSeen \in Versions \cup {NoVersion}
  /\ starts \in 0..MaxStarts
  /\ flawed \in BOOLEAN
  /\ issuedBy \in [Tokens -> Versions \cup {NoVersion}]

\* "If the version string changed since the last successful boot, drop all
\* sessions" (main.go:70): while the daemon serves, every session was issued
\* by a binary of its version, wherever earlier starts of other versions were
\* cut short, as long as no statement of the version check failed.
NewVersionStartsClean ==
  (phase = "serving" /\ ~flawed)
    => \A t \in Tokens : IsOpen(t) => issuedBy[t] = version

\* "Incidental restarts (same binary) keep sessions intact" (main.go:72): no
\* start and no stop ends a session that the same version issued.
RestartsKeepSessions ==
  [][(~flawed /\ (phase # "serving" \/ phase' # "serving"))
       => \A t \in Tokens :
            (IsOpen(t) /\ issuedBy[t] = version) => IsOpen(t)']_daemonVars

\* The same for a daemon whose version check may have failed at any of its
\* statements, now or in earlier starts: a session that is still good ends
\* only with a logout, with its account, or in the wipe of a start that found
\* another version recorded, and never on the very first one (main.go:81).  That
\* start may be of the very binary that issued the session, when an earlier one
\* of it could not record its version (main.go:82).
OnlyAnotherVersionWipes ==
  [][\A t \in Tokens :
       (Live(t) /\ ~IsOpen(t)') =>
         \/ phase = "serving" /\ \E p \in Procs : /\ At(p, "end")
                                                  /\ call[p].token = t
                                                  /\ call'[p].answer = "ok"
         \/ phase = "serving" /\ accounts'[sessions[t].user] = NoAccount
         \/ phase = "wipe" /\ lastSeen \notin {version, NoVersion}
    ]_daemonVars

\* Nobody is served by a daemon whose schema is not complete, and the record
\* of the migrations is right wherever a start was cut short.
MigratedBeforeServing ==
  /\ RecordMatchesSchema
  /\ phase \notin {"down", "open", "migrate"} => schema = Numbers

\* "Periodically purge expired sessions so the table doesn't grow forever"
\* (main.go:92): an expired session is revived by a waiting request or goes.
ExpiredSessionsGo ==
  \A t \in Tokens :
    (IsOpen(t) /\ ~Live(t)) ~> (~IsOpen(t) \/ Live(t))

=============================================================================
