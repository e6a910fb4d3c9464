----------------------------- MODULE AccountsApart -----------------------------
(***************************************************************************)
(* Accounts with the question what the overlapping of checked writes       *)
(* costs.  In a behaviour that starts with apart = TRUE no two setups are  *)
(* between the count and the INSERT, and no two deletions or role changes  *)
(* between finding their target and their write, as if each of the two     *)
(* sequences were a transaction; all the other statements come in between  *)
(* as they like.  With apart = FALSE nothing is restricted.                *)
(***************************************************************************)
EXTENDS Accounts

VARIABLE apart  \* whether checked writes of one kind keep apart

apartVars == <<vars, apart>>

\* Setup has seen that there are no accounts.
SettingUp(p) == At(p, "insert", "setup")

\* Delete or ChangeRole has found its target.
Managing(p) == call[p].pc \in {"admins", "write"}

Apart ==
  \A p, q \in Procs :
    (SettingUp(p) /\ SettingUp(q)) \/ (Managing(p) /\ Managing(q)) => p = q

ApartInit == Init /\ apart \in BOOLEAN

ApartNext == Next /\ UNCHANGED apart /\ (apart => Apart')

ApartSpec == ApartInit /\ [][ApartNext]_apartVars

-----------------------------------------------------------------------------
(* Properties.                                                             *)

\* While checked writes keep apart the service is the guarded directory: the
\* first account is an admin, and the last admin is neither removed nor
\* demoted, what was counted being still so at the write (auth.go:158-174).
ApartImplementsStrictDirectory ==
  /\ Strict!DirectoryInit
  /\ [][apart => Strict!DirectoryNext]_(Strict!directoryVars)

\* While checked writes keep apart there is an admin wherever there are
\* accounts (auth.go:151, 192).
ApartNeverLockedOut == apart => NotLockedOut

\* While checked writes keep apart setup makes the first account, also when
\* an admin's CreateUser overlaps with it (auth_handlers.go:27).
ApartSetupMakesTheFirst ==
  [][apart => \A p \in Procs :
       (SettingUp(p) /\ call'[p].pc = "login")
         => \A i \in Ids : ~Present(i)]_apartVars

=============================================================================
