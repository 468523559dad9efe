------------------------- MODULE InstallationProofs -------------------------
(***************************************************************************)
(* What the processes of one installation keep on its disk, for any        *)
(* releases, secrets, commands and number of failures.                     *)
(*                                                                         *)
(* The updater: UpdaterInv holds of every behaviour.  It is not inductive: *)
(* that a restored pointer leads to a whole and verified payload depends   *)
(* on what the pending and the rollback record still say of it.  The       *)
(* strengthening follows one payload, Home: the one the installation falls *)
(* back to as long as an activated update is not decided.                  *)
(*                                                                         *)
(* The first start: an installation can be made, killed and made again.    *)
(*                                                                         *)
(* The launcher: no process is lost, and PostgreSQL is stopped last.  The  *)
(* invariant says what a supervisor has started at each point of `up`, and *)
(* whom a stop command at each of its points may still not have seen.      *)
(***************************************************************************)
EXTENDS PayloadUpdater, Bootstrap, Launcher, FiniteSetTheorems, TLAPS

----------------------------------------------------------------------------
(* The updater: the inductive invariant.                                     *)

Installing == {"recover_tear", "recover_gone", "recover_unlink", "replace_tear",
               "replace_gone", "stage", "write_pending", "write_current",
               "undo_tear", "undo_gone", "undo_unlink"}

UpdaterPcs ==
    Installing \cup {"idle", "commit_unlink", "restore_unlink", "rollback_unlink"}

Packages == [release : Releases, build : Builds, prev : Pointers]

TypedUpdater ==
    /\ UpdaterTypeOK
    /\ pc \in UpdaterPcs /\ healthy \subseteq Releases
    /\ pc \in Installing => pkg \in Packages

Pending == pend # NoPend

Home == IF Pending /\ cur = pend.target THEN pend.prev ELSE cur

\* What an install has to go by: the launcher does not run, and the directory
\* it works on is neither active nor needed for the rollback.
InstallSafe ==
    pc \in Installing =>
       /\ running = "none" /\ pkg.prev = cur /\ cur # pkg.release
       /\ rb # NoRb /\ cur = rb.from => pkg.release # rb.to
       /\ Pending => pend = [prev |-> cur, target |-> pkg.release]
       /\ pc \in {"write_pending", "write_current"} => versions[pkg.release] \in Builds
       /\ pc \in {"replace_tear", "replace_gone", "stage", "write_pending"} => ~Pending
       /\ pc \in {"recover_tear", "recover_gone", "recover_unlink", "write_current"} => Pending

\* Between the two writes of complete and of rollback.
Halfway ==
    /\ pc = "commit_unlink" =>
          /\ Pending /\ cur = pend.target /\ pend.target \in healthy
          /\ rb = RollbackRecord
    /\ pc = "restore_unlink" => Pending /\ cur = pend.prev /\ running = "none"
    /\ pc = "rollback_unlink" => rb # NoRb /\ cur = rb.to /\ ~Pending /\ running = "none"

\* The pending update leads from the payload it replaces to another one.
PendingStep ==
    Pending => /\ pend.prev # pend.target
               /\ cur \in {pend.prev, pend.target}
               /\ rb # NoRb /\ Home = rb.from => pend.target # rb.to

\* The fallback is whole and verified, and so is the rollback's end.
HomeSafe ==
    /\ Intact(Home)
    /\ Home = "base" \/ Home \in healthy
    /\ rb # NoRb => /\ rb.from \in healthy
                    /\ rb.to = "base" \/ rb.to \in healthy
                    /\ Home = rb.to \/ (Home = rb.from /\ Intact(rb.to))

UpdaterIInv ==
    UpdaterInv /\ TypedUpdater /\ InstallSafe /\ Halfway /\ PendingStep /\ HomeSafe

\* The words the invariants are written in.
USE UpdaterBounds DEF Pointers, NoPend, NoRb, NoPkg, Packages, Installing, UpdaterPcs,
        Pending, Home, RollbackRecord, Intact

\* The first start: the base payload is active, its own fallback, and no
\* command runs.
LEMMA UpdaterInitHolds == UpdaterInit => UpdaterIInv
  BY DEF UpdaterInit, UpdaterIInv, UpdaterInv, TypedUpdater, UpdaterTypeOK, InstallSafe,
         Halfway, PendingStep, HomeSafe, ActivationDecidable, AlwaysBootable,
         RollbackIntact, UnverifiedIsPending

\* Install begins only while the launcher does not run, on a directory that is
\* missing, or staged and needed by neither pointer.
LEMMA InstallBeginsKeeps ==
  ASSUME UpdaterIInv, NEW r \in Releases, NEW b \in Builds, InstallBegins(r, b)
  PROVE  UpdaterIInv'
<1> USE DEF InstallBegins, Recoverable, Replaceable, Selectable, RuntimeFree
<1> USE DEF UpdaterIInv, TypedUpdater, UpdaterTypeOK
<1>1. TypedUpdater'
  BY DEF InstallSafe, Halfway
<1>2. InstallSafe'
  BY DEF InstallSafe, PendingStep, HomeSafe
<1>3. Halfway'
  BY DEF Halfway, PendingStep, InstallSafe
<1>4. PendingStep'
  BY DEF PendingStep, InstallSafe, Halfway, HomeSafe
<1>5. HomeSafe'
  BY DEF HomeSafe, PendingStep, InstallSafe, Halfway, UpdaterInv, ActivationDecidable
<1>6. UpdaterInv'
  BY <1>1, <1>4, <1>5 DEF UpdaterInv, ActivationDecidable, AlwaysBootable,
     RollbackIntact, UnverifiedIsPending, HomeSafe, PendingStep, InstallSafe, Halfway
<1> QED
  BY <1>1, <1>2, <1>3, <1>4, <1>5, <1>6

\* rmtree works on the directory of the package, which is not active.
LEMMA TearDownKeeps ==
  ASSUME UpdaterIInv, TearDown
  PROVE  UpdaterIInv'
<1> USE DEF TearDown
<1> USE DEF UpdaterIInv, TypedUpdater, UpdaterTypeOK
<1>1. TypedUpdater'
  BY DEF InstallSafe, Halfway
<1>2. InstallSafe'
  BY DEF InstallSafe, PendingStep, HomeSafe
<1>3. Halfway'
  BY DEF Halfway, PendingStep, InstallSafe
<1>4. PendingStep'
  BY DEF PendingStep, InstallSafe, Halfway, HomeSafe
<1>5. HomeSafe'
  BY DEF HomeSafe, PendingStep, InstallSafe, Halfway, UpdaterInv, ActivationDecidable
<1>6. UpdaterInv'
  BY <1>1, <1>4, <1>5 DEF UpdaterInv, ActivationDecidable, AlwaysBootable,
     RollbackIntact, UnverifiedIsPending, HomeSafe, PendingStep, InstallSafe, Halfway
<1> QED
  BY <1>1, <1>2, <1>3, <1>4, <1>5, <1>6

\* The half-removed directory is gone: nobody pointed to it.
LEMMA TornGoneKeeps ==
  ASSUME UpdaterIInv, TornGone
  PROVE  UpdaterIInv'
<1> USE DEF TornGone
<1> USE DEF UpdaterIInv, TypedUpdater, UpdaterTypeOK
<1>1. TypedUpdater'
  BY DEF InstallSafe, Halfway
<1>2. InstallSafe'
  BY DEF InstallSafe, PendingStep, HomeSafe
<1>3. Halfway'
  BY DEF Halfway, PendingStep, InstallSafe
<1>4. PendingStep'
  BY DEF PendingStep, InstallSafe, Halfway, HomeSafe
<1>5. HomeSafe'
  BY DEF HomeSafe, PendingStep, InstallSafe, Halfway, UpdaterInv, ActivationDecidable
<1>6. UpdaterInv'
  BY <1>1, <1>4, <1>5 DEF UpdaterInv, ActivationDecidable, AlwaysBootable,
     RollbackIntact, UnverifiedIsPending, HomeSafe, PendingStep, InstallSafe, Halfway
<1> QED
  BY <1>1, <1>2, <1>3, <1>4, <1>5, <1>6

\* The pending record that goes is one whose target was not activated.
LEMMA UnlinkPendingKeeps ==
  ASSUME UpdaterIInv, UnlinkPending
  PROVE  UpdaterIInv'
<1> USE DEF UnlinkPending
<1> USE DEF UpdaterIInv, TypedUpdater, UpdaterTypeOK
<1>1. TypedUpdater'
  BY DEF InstallSafe, Halfway
<1>2. InstallSafe'
  BY DEF InstallSafe, PendingStep, HomeSafe
<1>3. Halfway'
  BY DEF Halfway, PendingStep, InstallSafe
<1>4. PendingStep'
  BY DEF PendingStep, InstallSafe, Halfway, HomeSafe
<1>5. HomeSafe'
  BY DEF HomeSafe, PendingStep, InstallSafe, Halfway, UpdaterInv, ActivationDecidable
<1>6. UpdaterInv'
  BY <1>1, <1>4, <1>5 DEF UpdaterInv, ActivationDecidable, AlwaysBootable,
     RollbackIntact, UnverifiedIsPending, HomeSafe, PendingStep, InstallSafe, Halfway
<1> QED
  BY <1>1, <1>2, <1>3, <1>4, <1>5, <1>6

\* os.replace of the staged copy puts a whole payload where nothing was.
LEMMA PlaceVersionKeeps ==
  ASSUME UpdaterIInv, PlaceVersion
  PROVE  UpdaterIInv'
<1> USE DEF PlaceVersion
<1> USE DEF UpdaterIInv, TypedUpdater, UpdaterTypeOK
<1>1. TypedUpdater'
  BY DEF InstallSafe, Halfway
<1>2. InstallSafe'
  BY DEF InstallSafe, PendingStep, HomeSafe
<1>3. Halfway'
  BY DEF Halfway, PendingStep, InstallSafe
<1>4. PendingStep'
  BY DEF PendingStep, InstallSafe, Halfway, HomeSafe
<1>5. HomeSafe'
  BY DEF HomeSafe, PendingStep, InstallSafe, Halfway, UpdaterInv, ActivationDecidable
<1>6. UpdaterInv'
  BY <1>1, <1>4, <1>5 DEF UpdaterInv, ActivationDecidable, AlwaysBootable,
     RollbackIntact, UnverifiedIsPending, HomeSafe, PendingStep, InstallSafe, Halfway
<1> QED
  BY <1>1, <1>2, <1>3, <1>4, <1>5, <1>6

\* pending.json first, current.json second: an unverified payload is pending
\* when it becomes active.
LEMMA InstallWritesKeeps ==
  ASSUME UpdaterIInv, InstallWrites
  PROVE  UpdaterIInv'
<1> USE DEF InstallWrites, WritePointers
<1> USE DEF UpdaterIInv, TypedUpdater, UpdaterTypeOK
<1>1. TypedUpdater'
  BY DEF InstallSafe, Halfway
<1>2. InstallSafe'
  BY DEF InstallSafe, PendingStep, HomeSafe
<1>3. Halfway'
  BY DEF Halfway, PendingStep, InstallSafe
<1>4. PendingStep'
  BY DEF PendingStep, InstallSafe, Halfway, HomeSafe
<1>5. HomeSafe'
  BY DEF HomeSafe, PendingStep, InstallSafe, Halfway, UpdaterInv, ActivationDecidable
<1>6. UpdaterInv'
  BY <1>1, <1>4, <1>5 DEF UpdaterInv, ActivationDecidable, AlwaysBootable,
     RollbackIntact, UnverifiedIsPending, HomeSafe, PendingStep, InstallSafe, Halfway
<1> QED
  BY <1>1, <1>2, <1>3, <1>4, <1>5, <1>6

\* A failed install leaves pointers and active payload as they were.
LEMMA InstallFailsKeeps ==
  ASSUME UpdaterIInv, InstallFails
  PROVE  UpdaterIInv'
<1> USE DEF InstallFails
<1> USE DEF UpdaterIInv, TypedUpdater, UpdaterTypeOK
<1>1. TypedUpdater'
  BY DEF InstallSafe, Halfway
<1>2. InstallSafe'
  BY DEF InstallSafe, PendingStep, HomeSafe
<1>3. Halfway'
  BY DEF Halfway, PendingStep, InstallSafe
<1>4. PendingStep'
  BY DEF PendingStep, InstallSafe, Halfway, HomeSafe
<1>5. HomeSafe'
  BY DEF HomeSafe, PendingStep, InstallSafe, Halfway, UpdaterInv, ActivationDecidable
<1>6. UpdaterInv'
  BY <1>1, <1>4, <1>5 DEF UpdaterInv, ActivationDecidable, AlwaysBootable,
     RollbackIntact, UnverifiedIsPending, HomeSafe, PendingStep, InstallSafe, Halfway
<1> QED
  BY <1>1, <1>2, <1>3, <1>4, <1>5, <1>6

\* The commit makes the verified payload the fallback.
LEMMA CompleteHealthyKeeps ==
  ASSUME UpdaterIInv, CompleteHealthy
  PROVE  UpdaterIInv'
<1> USE DEF CompleteHealthy, PendingActive
<1> USE DEF UpdaterIInv, TypedUpdater, UpdaterTypeOK
<1>1. TypedUpdater'
  BY DEF InstallSafe, Halfway
<1>2. InstallSafe'
  BY DEF InstallSafe, PendingStep, HomeSafe
<1>3. Halfway'
  BY DEF Halfway, PendingStep, InstallSafe
<1>4. PendingStep'
  BY DEF PendingStep, InstallSafe, Halfway, HomeSafe
<1>5. HomeSafe'
  BY DEF HomeSafe, PendingStep, InstallSafe, Halfway, UpdaterInv, ActivationDecidable
<1>6. UpdaterInv'
  BY <1>1, <1>4, <1>5 DEF UpdaterInv, ActivationDecidable, AlwaysBootable,
     RollbackIntact, UnverifiedIsPending, HomeSafe, PendingStep, InstallSafe, Halfway
<1> QED
  BY <1>1, <1>2, <1>3, <1>4, <1>5, <1>6

\* The restore goes back to the fallback.
LEMMA CompleteFailedKeeps ==
  ASSUME UpdaterIInv, CompleteFailed
  PROVE  UpdaterIInv'
<1> USE DEF CompleteFailed, PendingActive, RuntimeFree
<1> USE DEF UpdaterIInv, TypedUpdater, UpdaterTypeOK
<1>1. TypedUpdater'
  BY DEF InstallSafe, Halfway
<1>2. InstallSafe'
  BY DEF InstallSafe, PendingStep, HomeSafe
<1>3. Halfway'
  BY DEF Halfway, PendingStep, InstallSafe
<1>4. PendingStep'
  BY DEF PendingStep, InstallSafe, Halfway, HomeSafe
<1>5. HomeSafe'
  BY DEF HomeSafe, PendingStep, InstallSafe, Halfway, UpdaterInv, ActivationDecidable
<1>6. UpdaterInv'
  BY <1>1, <1>4, <1>5 DEF UpdaterInv, ActivationDecidable, AlwaysBootable,
     RollbackIntact, UnverifiedIsPending, HomeSafe, PendingStep, InstallSafe, Halfway
<1> QED
  BY <1>1, <1>2, <1>3, <1>4, <1>5, <1>6

\* The rollback ends at a payload that is whole and was verified.
LEMMA RollbackKeeps ==
  ASSUME UpdaterIInv, Rollback
  PROVE  UpdaterIInv'
<1> USE DEF Rollback, RuntimeFree
<1> USE DEF UpdaterIInv, TypedUpdater, UpdaterTypeOK
<1>1. TypedUpdater'
  BY DEF InstallSafe, Halfway
<1>2. InstallSafe'
  BY DEF InstallSafe, PendingStep, HomeSafe
<1>3. Halfway'
  BY DEF Halfway, PendingStep, InstallSafe
<1>4. PendingStep'
  BY DEF PendingStep, InstallSafe, Halfway, HomeSafe
<1>5. HomeSafe'
  BY DEF HomeSafe, PendingStep, InstallSafe, Halfway, UpdaterInv, ActivationDecidable
<1>6. UpdaterInv'
  BY <1>1, <1>4, <1>5 DEF UpdaterInv, ActivationDecidable, AlwaysBootable,
     RollbackIntact, UnverifiedIsPending, HomeSafe, PendingStep, InstallSafe, Halfway
<1> QED
  BY <1>1, <1>2, <1>3, <1>4, <1>5, <1>6

\* The launcher starts what the active pointer names.
LEMMA RunLauncherKeeps ==
  ASSUME UpdaterIInv, RunLauncher
  PROVE  UpdaterIInv'
<1> USE DEF RunLauncher, RuntimeFree
<1> USE DEF UpdaterIInv, TypedUpdater, UpdaterTypeOK
<1>1. TypedUpdater'
  BY DEF InstallSafe, Halfway
<1>2. InstallSafe'
  BY DEF InstallSafe, PendingStep, HomeSafe
<1>3. Halfway'
  BY DEF Halfway, PendingStep, InstallSafe
<1>4. PendingStep'
  BY DEF PendingStep, InstallSafe, Halfway, HomeSafe
<1>5. HomeSafe'
  BY DEF HomeSafe, PendingStep, InstallSafe, Halfway, UpdaterInv, ActivationDecidable
<1>6. UpdaterInv'
  BY <1>1, <1>4, <1>5 DEF UpdaterInv, ActivationDecidable, AlwaysBootable,
     RollbackIntact, UnverifiedIsPending, HomeSafe, PendingStep, InstallSafe, Halfway
<1> QED
  BY <1>1, <1>2, <1>3, <1>4, <1>5, <1>6

\* The processes of the active payload end; no file changes.
LEMMA LauncherEndsKeeps ==
  ASSUME UpdaterIInv, LauncherEnds
  PROVE  UpdaterIInv'
<1> USE DEF LauncherEnds
<1> USE DEF UpdaterIInv, TypedUpdater, UpdaterTypeOK
<1>1. TypedUpdater'
  BY DEF InstallSafe, Halfway
<1>2. InstallSafe'
  BY DEF InstallSafe, PendingStep, HomeSafe
<1>3. Halfway'
  BY DEF Halfway, PendingStep, InstallSafe
<1>4. PendingStep'
  BY DEF PendingStep, InstallSafe, Halfway, HomeSafe
<1>5. HomeSafe'
  BY DEF HomeSafe, PendingStep, InstallSafe, Halfway, UpdaterInv, ActivationDecidable
<1>6. UpdaterInv'
  BY <1>1, <1>4, <1>5 DEF UpdaterInv, ActivationDecidable, AlwaysBootable,
     RollbackIntact, UnverifiedIsPending, HomeSafe, PendingStep, InstallSafe, Halfway
<1> QED
  BY <1>1, <1>2, <1>3, <1>4, <1>5, <1>6

\* A cut leaves the files as they are, and no command under way.
LEMMA PowerFailsKeeps ==
  ASSUME UpdaterIInv, PowerFails
  PROVE  UpdaterIInv'
<1> USE DEF PowerFails
<1> USE DEF UpdaterIInv, TypedUpdater, UpdaterTypeOK
<1>1. TypedUpdater'
  BY DEF InstallSafe, Halfway
<1>2. InstallSafe'
  BY DEF InstallSafe, PendingStep, HomeSafe
<1>3. Halfway'
  BY DEF Halfway, PendingStep, InstallSafe
<1>4. PendingStep'
  BY DEF PendingStep, InstallSafe, Halfway, HomeSafe
<1>5. HomeSafe'
  BY DEF HomeSafe, PendingStep, InstallSafe, Halfway, UpdaterInv, ActivationDecidable
<1>6. UpdaterInv'
  BY <1>1, <1>4, <1>5 DEF UpdaterInv, ActivationDecidable, AlwaysBootable,
     RollbackIntact, UnverifiedIsPending, HomeSafe, PendingStep, InstallSafe, Halfway
<1> QED
  BY <1>1, <1>2, <1>3, <1>4, <1>5, <1>6

\* Wherever an update, a decision or a rollback is cut off, the next start finds a
\* whole payload and can decide what to do with it: UpdaterInv holds for any
\* releases, builds and number of power failures.
THEOREM UpdaterCorrect == UpdaterSpec => []UpdaterInv
<1>1. UpdaterIInv /\ [UpdaterNext]_updaterVars => UpdaterIInv'
  <2> SUFFICES ASSUME UpdaterIInv, [UpdaterNext]_updaterVars PROVE UpdaterIInv'
    OBVIOUS
  <2>1. CASE UNCHANGED updaterVars
    BY <2>1 DEF updaterVars, UpdaterIInv, UpdaterInv, TypedUpdater, UpdaterTypeOK,
       InstallSafe, Halfway, PendingStep, HomeSafe, ActivationDecidable, AlwaysBootable,
       RollbackIntact, UnverifiedIsPending
  <2>2. CASE UpdaterNext
    BY <2>2, InstallBeginsKeeps, TearDownKeeps, TornGoneKeeps, UnlinkPendingKeeps,
       PlaceVersionKeeps, InstallWritesKeeps, InstallFailsKeeps, CompleteHealthyKeeps,
       CompleteFailedKeeps, RollbackKeeps, RunLauncherKeeps, LauncherEndsKeeps,
       PowerFailsKeeps
    DEF UpdaterNext
  <2> QED
    BY <2>1, <2>2
<1>2. UpdaterIInv => UpdaterInv
  BY DEF UpdaterIInv
<1> QED
  BY <1>1, <1>2, UpdaterInitHolds, PTL DEF UpdaterSpec

----------------------------------------------------------------------------
(* Bootstrap: the inductive invariant.                                       *)

\* Without --force a secret is generated into a file that was missing, and a
\* file that is open for writing is not full.
Making ==
    /\ cmd.open => cmd.kind = "init" /\ cmd.at \in Secrets
    /\ ~cmd.forced =>
          /\ ~cmd.force
          /\ \A f \in Secrets : files[f].gen = (IF files[f].state = "full" THEN 1 ELSE 0)
          /\ cmd.open => files[cmd.at].state # "full"

\* A cluster is ready from initdb on, which is the only time it has a password
\* for its superuser, and only a ready one runs.
Clustered ==
    /\ cmd.at = "initdb" => pgsql.state = "absent"
    /\ cmd.at = "role" => pgsql.state = "ready"
    /\ pgsql.running \/ pgsql.role # 0 => pgsql.state = "ready"
    /\ pgsql.state = "ready" => pgsql.super # 0

\* Without --force the passwords and keys in use are those in the files.
Keyed ==
    ~cmd.forced =>
       /\ pgsql.state = "ready" => pgsql.super = Read("super")
       /\ \A r \in Refs : rows.key[r] \in {0, Read("master")}
       /\ \A p \in Processes : store[p].key \in {0, Read("master")}

\* Every secret handed out or about to be is in the records.
Returning == {p \in Processes : store[p].pc = "returning"}

Audited == rows.returned + Cardinality(Returning) <= rows.audited

BootstrapIInv == BootstrapTypeOK /\ Making /\ Clustered /\ Keyed /\ Audited


----------------------------------------------------------------------------
(* Every step keeps the invariant.                                           *)

\* A command that is given is one.
LEMMA GivenIs ==
  ASSUME cmd \in Commands, NEW kind \in {"init", "pgup", "pgstop", "alembic"},
         NEW first \in {"master", "initdb", "start", "end"}, NEW force \in BOOLEAN,
         Gives(kind, first, force)
  PROVE  cmd' \in Commands
<1>1. PICK b \in BOOLEAN : b = (cmd.forced \/ force)
  BY Zenon DEF Commands
<1>2. cmd.given + 1 \in Nat
  BY DEF Commands
<1>3. cmd' = [cmd EXCEPT !.kind = kind, !.at = first, !.force = force, !.open = FALSE,
                         !.given = cmd.given + 1, !.forced = b]
  BY <1>1 DEF Gives, Commands
<1> QED
  BY <1>2, <1>3 DEF Commands, Secrets

\* One process more or less that is about to hand out a secret.
LEMMA ReturningIs ==
  ASSUME NEW S, NEW p, S \subseteq Processes, p \in Processes
  PROVE  /\ Cardinality(S) \in Nat /\ Cardinality(S \ {p}) \in Nat
         /\ p \in S => Cardinality(S) = Cardinality(S \ {p}) + 1
         /\ p \notin S => Cardinality(S \union {p}) = Cardinality(S) + 1
<1>1. IsFiniteSet(S)
  BY FS_Subset, BootstrapBounds
<1>2. IsFiniteSet(S \ {p})
  BY <1>1, FS_Subset
<1>3. Cardinality(S) \in Nat /\ Cardinality(S \ {p}) \in Nat
  BY <1>1, <1>2, FS_CardinalityType
<1>4. Cardinality(S \ {p}) = IF p \in S THEN Cardinality(S) - 1 ELSE Cardinality(S)
  BY <1>1, FS_RemoveElement
<1>5. Cardinality(S \union {p}) = IF p \in S THEN Cardinality(S) ELSE Cardinality(S) + 1
  BY <1>1, FS_AddElement
<1> QED
  BY <1>3, <1>4, <1>5


\* A command is killed.
LEMMA CommandKilledKeeps ==
  ASSUME BootstrapIInv, CommandKilled
  PROVE  BootstrapIInv'
<1>1. BootstrapTypeOK'
  BY DEF BootstrapIInv, BootstrapTypeOK, SecretFiles, Clusters, Commands,
     SecretStores, Secrets, Goes, serving, CommandKilled
<1>2. Making'
  BY DEF BootstrapIInv, Making, BootstrapTypeOK, Secrets, SecretFiles, Clusters,
     Commands, SecretStores, Goes, serving, CommandKilled
<1>3. Clustered'
  BY DEF BootstrapIInv, Clustered, BootstrapTypeOK, SecretFiles, Clusters,
     Commands, SecretStores, Secrets, Goes, serving, CommandKilled
<1>4. Keyed'
  BY DEF BootstrapIInv, Keyed, BootstrapTypeOK, Making, Clustered, Read,
     SecretFiles, Clusters, Commands, SecretStores, Secrets, Goes, serving,
     CommandKilled
<1>5. Audited'
  BY DEF BootstrapIInv, Audited, BootstrapTypeOK, Returning, SecretFiles,
     Clusters, Commands, SecretStores, Secrets, Goes, serving, CommandKilled
<1> QED
  BY <1>1, <1>2, <1>3, <1>4, <1>5 DEF BootstrapIInv

\* bootstrap-init is given.
LEMMA InitGivenKeeps ==
  ASSUME BootstrapIInv, InitGiven
  PROVE  BootstrapIInv'
<1>1. BootstrapTypeOK'
  <2>1. cmd' \in Commands
    BY GivenIs DEF BootstrapIInv, BootstrapTypeOK, InitGiven
  <2> QED
    BY <2>1 DEF BootstrapIInv, BootstrapTypeOK, InitGiven, serving
<1>2. Making'
  BY DEF BootstrapIInv, Making, BootstrapTypeOK, Secrets, SecretFiles, Clusters,
     Commands, SecretStores, Gives, serving, InitGiven
<1>3. Clustered'
  BY DEF BootstrapIInv, Clustered, BootstrapTypeOK, SecretFiles, Clusters,
     Commands, SecretStores, Secrets, Gives, serving, InitGiven
<1>4. Keyed'
  BY DEF BootstrapIInv, Keyed, BootstrapTypeOK, Making, Clustered, Read,
     SecretFiles, Clusters, Commands, SecretStores, Secrets, Gives, serving,
     InitGiven
<1>5. Audited'
  BY DEF BootstrapIInv, Audited, BootstrapTypeOK, Returning, SecretFiles,
     Clusters, Commands, SecretStores, Secrets, Gives, serving, InitGiven
<1> QED
  BY <1>1, <1>2, <1>3, <1>4, <1>5 DEF BootstrapIInv

\* pg-up is given.
LEMMA PgUpGivenKeeps ==
  ASSUME BootstrapIInv, PgUpGiven
  PROVE  BootstrapIInv'
<1>1. BootstrapTypeOK'
  <2>1. cmd' \in Commands
    BY GivenIs DEF BootstrapIInv, BootstrapTypeOK, PgUpGiven
  <2> QED
    BY <2>1 DEF BootstrapIInv, BootstrapTypeOK, PgUpGiven, serving
<1>2. Making'
  BY DEF BootstrapIInv, Making, BootstrapTypeOK, Secrets, SecretFiles, Clusters,
     Commands, SecretStores, Gives, serving, PgUpGiven
<1>3. Clustered'
  BY DEF BootstrapIInv, Clustered, BootstrapTypeOK, SecretFiles, Clusters,
     Commands, SecretStores, Secrets, Gives, serving, PgUpGiven
<1>4. Keyed'
  BY DEF BootstrapIInv, Keyed, BootstrapTypeOK, Making, Clustered, Read,
     SecretFiles, Clusters, Commands, SecretStores, Secrets, Gives, serving,
     PgUpGiven
<1>5. Audited'
  BY DEF BootstrapIInv, Audited, BootstrapTypeOK, Returning, SecretFiles,
     Clusters, Commands, SecretStores, Secrets, Gives, serving, PgUpGiven
<1> QED
  BY <1>1, <1>2, <1>3, <1>4, <1>5 DEF BootstrapIInv

\* initdb.
LEMMA InitDbKeeps ==
  ASSUME BootstrapIInv, InitDb
  PROVE  BootstrapIInv'
<1>1. BootstrapTypeOK'
  <2>1. cmd' \in Commands
    BY ZenonT(60) DEF BootstrapIInv, BootstrapTypeOK, InitDb, Goes, Commands
  <2>2. Read("super") \in Nat
    BY DEF BootstrapIInv, BootstrapTypeOK, SecretFiles, Secrets, Read
  <2>3. pgsql' \in Clusters
    BY <2>2 DEF BootstrapIInv, BootstrapTypeOK, InitDb, Clusters
  <2> QED
    BY <2>1, <2>3 DEF BootstrapIInv, BootstrapTypeOK, InitDb, serving
<1>2. Making'
  BY ZenonT(60) DEF BootstrapIInv, Making, BootstrapTypeOK, Secrets, SecretFiles, Clusters,
     Commands, SecretStores, Goes, At, Read, serving, InitDb
<1>3. Clustered'
  <2>1. cmd \in Commands /\ pgsql \in Clusters /\ Clustered /\ cmd.at = "initdb"
    BY DEF BootstrapIInv, BootstrapTypeOK, InitDb, At
  <2>2. cmd'.at \in {"start", "end"}
    BY <2>1 DEF InitDb, Goes, Commands
  <2>3. CASE Read("super") # 0
    <3>1. pgsql' = [pgsql EXCEPT !.state = "ready", !.super = Read("super")]
      BY <2>3 DEF InitDb
    <3>2. pgsql'.state = "ready" /\ pgsql'.super # 0
      BY <2>1, <2>3, <3>1 DEF Clusters
    <3> QED
      BY <2>2, <3>2 DEF Clustered
  <2>4. CASE Read("super") = 0
    <3>1. pgsql' = pgsql
      BY <2>4 DEF InitDb
    <3> QED
      BY <2>1, <2>2, <3>1 DEF Clustered
  <2> QED
    BY <2>3, <2>4
<1>4. Keyed'
  BY ZenonT(60) DEF BootstrapIInv, Keyed, BootstrapTypeOK, Making, Clustered, Read,
     SecretFiles, Clusters, Commands, SecretStores, Secrets, Goes, At, serving,
     InitDb
<1>5. Audited'
  BY DEF BootstrapIInv, Audited, BootstrapTypeOK, Returning, SecretFiles,
     Clusters, Commands, SecretStores, Secrets, Goes, At, Read, serving, InitDb
<1> QED
  BY <1>1, <1>2, <1>3, <1>4, <1>5 DEF BootstrapIInv

\* The cluster is started.
LEMMA StartPgKeeps ==
  ASSUME BootstrapIInv, StartPg
  PROVE  BootstrapIInv'
<1>1. BootstrapTypeOK'
  BY DEF BootstrapIInv, BootstrapTypeOK, SecretFiles, Clusters, Commands,
     SecretStores, Secrets, Goes, At, SuperLogsIn, serving, Read, StartPg
<1>2. Making'
  BY DEF BootstrapIInv, Making, BootstrapTypeOK, Secrets, SecretFiles, Clusters,
     Commands, SecretStores, Goes, At, SuperLogsIn, serving, Read, StartPg
<1>3. Clustered'
  BY DEF BootstrapIInv, Clustered, BootstrapTypeOK, SecretFiles, Clusters,
     Commands, SecretStores, Secrets, Goes, At, SuperLogsIn, serving, Read, StartPg
<1>4. Keyed'
  BY DEF BootstrapIInv, Keyed, BootstrapTypeOK, Making, Clustered, Read,
     SecretFiles, Clusters, Commands, SecretStores, Secrets, Goes, At, SuperLogsIn,
     serving, StartPg
<1>5. Audited'
  BY DEF BootstrapIInv, Audited, BootstrapTypeOK, Returning, SecretFiles,
     Clusters, Commands, SecretStores, Secrets, Goes, At, SuperLogsIn, serving,
     Read, StartPg
<1> QED
  BY <1>1, <1>2, <1>3, <1>4, <1>5 DEF BootstrapIInv

\* The role of the application.
LEMMA EnsureRoleKeeps ==
  ASSUME BootstrapIInv, EnsureRole
  PROVE  BootstrapIInv'
<1>1. BootstrapTypeOK'
  BY DEF BootstrapIInv, BootstrapTypeOK, SecretFiles, Clusters, Commands,
     SecretStores, Secrets, Goes, At, Read, serving, EnsureRole
<1>2. Making'
  BY DEF BootstrapIInv, Making, BootstrapTypeOK, Secrets, SecretFiles, Clusters,
     Commands, SecretStores, Goes, At, Read, serving, EnsureRole
<1>3. Clustered'
  BY DEF BootstrapIInv, Clustered, BootstrapTypeOK, SecretFiles, Clusters,
     Commands, SecretStores, Secrets, Goes, At, Read, serving, EnsureRole
<1>4. Keyed'
  BY DEF BootstrapIInv, Keyed, BootstrapTypeOK, Making, Clustered, Read,
     SecretFiles, Clusters, Commands, SecretStores, Secrets, Goes, At, serving,
     EnsureRole
<1>5. Audited'
  BY DEF BootstrapIInv, Audited, BootstrapTypeOK, Returning, SecretFiles,
     Clusters, Commands, SecretStores, Secrets, Goes, At, Read, serving, EnsureRole
<1> QED
  BY <1>1, <1>2, <1>3, <1>4, <1>5 DEF BootstrapIInv

\* Its database.
LEMMA EnsureDatabaseKeeps ==
  ASSUME BootstrapIInv, EnsureDatabase
  PROVE  BootstrapIInv'
<1>1. BootstrapTypeOK'
  BY DEF BootstrapIInv, BootstrapTypeOK, SecretFiles, Clusters, Commands,
     SecretStores, Secrets, Goes, At, serving, EnsureDatabase
<1>2. Making'
  BY DEF BootstrapIInv, Making, BootstrapTypeOK, Secrets, SecretFiles, Clusters,
     Commands, SecretStores, Goes, At, serving, EnsureDatabase
<1>3. Clustered'
  BY DEF BootstrapIInv, Clustered, BootstrapTypeOK, SecretFiles, Clusters,
     Commands, SecretStores, Secrets, Goes, At, serving, EnsureDatabase
<1>4. Keyed'
  BY DEF BootstrapIInv, Keyed, BootstrapTypeOK, Making, Clustered, Read,
     SecretFiles, Clusters, Commands, SecretStores, Secrets, Goes, At, serving,
     EnsureDatabase
<1>5. Audited'
  BY DEF BootstrapIInv, Audited, BootstrapTypeOK, Returning, SecretFiles,
     Clusters, Commands, SecretStores, Secrets, Goes, At, serving, EnsureDatabase
<1> QED
  BY <1>1, <1>2, <1>3, <1>4, <1>5 DEF BootstrapIInv

\* A command fails for want of a file.
LEMMA FileMissingKeeps ==
  ASSUME BootstrapIInv, FileMissing
  PROVE  BootstrapIInv'
<1>1. BootstrapTypeOK'
  BY DEF BootstrapIInv, BootstrapTypeOK, SecretFiles, Clusters, Commands,
     SecretStores, Secrets, Goes, At, serving, FileMissing
<1>2. Making'
  BY DEF BootstrapIInv, Making, BootstrapTypeOK, Secrets, SecretFiles, Clusters,
     Commands, SecretStores, Goes, At, serving, FileMissing
<1>3. Clustered'
  BY DEF BootstrapIInv, Clustered, BootstrapTypeOK, SecretFiles, Clusters,
     Commands, SecretStores, Secrets, Goes, At, serving, FileMissing
<1>4. Keyed'
  BY DEF BootstrapIInv, Keyed, BootstrapTypeOK, Making, Clustered, Read,
     SecretFiles, Clusters, Commands, SecretStores, Secrets, Goes, At, serving,
     FileMissing
<1>5. Audited'
  BY DEF BootstrapIInv, Audited, BootstrapTypeOK, Returning, SecretFiles,
     Clusters, Commands, SecretStores, Secrets, Goes, At, serving, FileMissing
<1> QED
  BY <1>1, <1>2, <1>3, <1>4, <1>5 DEF BootstrapIInv

\* pg-stop.
LEMMA PgStopKeeps ==
  ASSUME BootstrapIInv, PgStop
  PROVE  BootstrapIInv'
<1>1. BootstrapTypeOK'
  <2>1. cmd' \in Commands
    BY GivenIs DEF BootstrapIInv, BootstrapTypeOK, PgStop
  <2>2. pgsql' \in Clusters
    BY DEF BootstrapIInv, BootstrapTypeOK, PgStop, Clusters
  <2> QED
    BY <2>1, <2>2 DEF BootstrapIInv, BootstrapTypeOK, PgStop, serving
<1>2. Making'
  BY DEF BootstrapIInv, Making, BootstrapTypeOK, Secrets, SecretFiles, Clusters,
     Commands, SecretStores, Gives, serving, PgStop
<1>3. Clustered'
  BY DEF BootstrapIInv, Clustered, BootstrapTypeOK, SecretFiles, Clusters,
     Commands, SecretStores, Secrets, Gives, serving, PgStop
<1>4. Keyed'
  BY DEF BootstrapIInv, Keyed, BootstrapTypeOK, Making, Clustered, Read,
     SecretFiles, Clusters, Commands, SecretStores, Secrets, Gives, serving, PgStop
<1>5. Audited'
  BY DEF BootstrapIInv, Audited, BootstrapTypeOK, Returning, SecretFiles,
     Clusters, Commands, SecretStores, Secrets, Gives, serving, PgStop
<1> QED
  BY <1>1, <1>2, <1>3, <1>4, <1>5 DEF BootstrapIInv

\* alembic-up.
LEMMA AlembicUpKeeps ==
  ASSUME BootstrapIInv, AlembicUp
  PROVE  BootstrapIInv'
<1>1. BootstrapTypeOK'
  <2>1. cmd' \in Commands
    BY GivenIs DEF BootstrapIInv, BootstrapTypeOK, AlembicUp
  <2>2. PICK b \in BOOLEAN : b = (pgsql.schema \/ AppLogsIn)
    <3>1. pgsql.schema \in BOOLEAN /\ AppLogsIn \in BOOLEAN
      BY DEF BootstrapIInv, BootstrapTypeOK, Clusters, AppLogsIn
    <3> QED
      BY Zenon, <3>1
  <2>3. pgsql' = [pgsql EXCEPT !.schema = b]
    BY <2>2 DEF AlembicUp, BootstrapIInv, BootstrapTypeOK, Clusters
  <2>4. pgsql' \in Clusters
    BY <2>3 DEF BootstrapIInv, BootstrapTypeOK, Clusters
  <2> QED
    BY <2>1, <2>4 DEF BootstrapIInv, BootstrapTypeOK, AlembicUp, serving
<1>2. Making'
  BY DEF BootstrapIInv, Making, BootstrapTypeOK, Secrets, SecretFiles, Clusters,
     Commands, SecretStores, Gives, AppLogsIn, serving, Read, AlembicUp
<1>3. Clustered'
  BY DEF BootstrapIInv, Clustered, BootstrapTypeOK, SecretFiles, Clusters,
     Commands, SecretStores, Secrets, Gives, AppLogsIn, serving, Read, AlembicUp
<1>4. Keyed'
  BY DEF BootstrapIInv, Keyed, BootstrapTypeOK, Making, Clustered, Read,
     SecretFiles, Clusters, Commands, SecretStores, Secrets, Gives, AppLogsIn,
     serving, AlembicUp
<1>5. Audited'
  BY DEF BootstrapIInv, Audited, BootstrapTypeOK, Returning, SecretFiles,
     Clusters, Commands, SecretStores, Secrets, Gives, AppLogsIn, serving, Read,
     AlembicUp
<1> QED
  BY <1>1, <1>2, <1>3, <1>4, <1>5 DEF BootstrapIInv

\* A file that exists is kept.
LEMMA SecretKeptKeeps ==
  ASSUME BootstrapIInv, NEW f \in Secrets, SecretKept(f)
  PROVE  BootstrapIInv'
<1>1. BootstrapTypeOK'
  BY DEF BootstrapIInv, BootstrapTypeOK, SecretFiles, Clusters, Commands,
     SecretStores, Secrets, After, Goes, At, Keeps, serving, SecretKept
<1>2. Making'
  BY DEF BootstrapIInv, Making, BootstrapTypeOK, Secrets, SecretFiles, Clusters,
     Commands, SecretStores, After, Goes, At, Keeps, serving, SecretKept
<1>3. Clustered'
  BY DEF BootstrapIInv, Clustered, BootstrapTypeOK, SecretFiles, Clusters,
     Commands, SecretStores, Secrets, After, Goes, At, Keeps, serving, SecretKept
<1>4. Keyed'
  BY DEF BootstrapIInv, Keyed, BootstrapTypeOK, Making, Clustered, Read,
     SecretFiles, Clusters, Commands, SecretStores, Secrets, After, Goes, At,
     Keeps, serving, SecretKept
<1>5. Audited'
  BY DEF BootstrapIInv, Audited, BootstrapTypeOK, Returning, SecretFiles,
     Clusters, Commands, SecretStores, Secrets, After, Goes, At, Keeps, serving,
     SecretKept
<1> QED
  BY <1>1, <1>2, <1>3, <1>4, <1>5 DEF BootstrapIInv

\* A file is opened.
LEMMA SecretOpenedKeeps ==
  ASSUME BootstrapIInv, NEW f \in Secrets, SecretOpened(f)
  PROVE  BootstrapIInv'
<1>1. BootstrapTypeOK'
  <2>1. cmd' \in Commands
    BY DEF BootstrapIInv, BootstrapTypeOK, SecretOpened, Commands
  <2>2. files' \in [Secrets -> SecretFiles]
    BY DEF BootstrapIInv, BootstrapTypeOK, SecretOpened, SecretFiles
  <2> QED
    BY <2>1, <2>2 DEF BootstrapIInv, BootstrapTypeOK, SecretOpened, serving
<1>2. Making'
  BY DEF BootstrapIInv, Making, BootstrapTypeOK, Secrets, SecretFiles, Clusters,
     Commands, SecretStores, At, Keeps, serving, SecretOpened
<1>3. Clustered'
  BY DEF BootstrapIInv, Clustered, BootstrapTypeOK, SecretFiles, Clusters,
     Commands, SecretStores, Secrets, At, Keeps, serving, SecretOpened
<1>4. Keyed'
  BY DEF BootstrapIInv, Keyed, BootstrapTypeOK, Making, Clustered, Read,
     SecretFiles, Clusters, Commands, SecretStores, Secrets, At, Keeps, serving,
     SecretOpened
<1>5. Audited'
  BY DEF BootstrapIInv, Audited, BootstrapTypeOK, Returning, SecretFiles,
     Clusters, Commands, SecretStores, Secrets, At, Keeps, serving, SecretOpened
<1> QED
  BY <1>1, <1>2, <1>3, <1>4, <1>5 DEF BootstrapIInv

\* A file is written.
LEMMA SecretWrittenKeeps ==
  ASSUME BootstrapIInv, NEW f \in Secrets, SecretWritten(f)
  PROVE  BootstrapIInv'
<1>1. BootstrapTypeOK'
  <2>1. After(f) \in Secrets \union {"end"}
    BY DEF After, Secrets
  <2>2. cmd' \in Commands
    BY <2>1 DEF BootstrapIInv, BootstrapTypeOK, SecretWritten, Goes, Commands
  <2>3. files[f].gen + 1 \in Nat
    BY DEF BootstrapIInv, BootstrapTypeOK, SecretFiles
  <2>4. files' \in [Secrets -> SecretFiles]
    BY <2>3 DEF BootstrapIInv, BootstrapTypeOK, SecretWritten, SecretFiles
  <2> QED
    BY <2>2, <2>4 DEF BootstrapIInv, BootstrapTypeOK, SecretWritten, serving
<1>2. Making'
  BY DEF BootstrapIInv, Making, BootstrapTypeOK, Secrets, SecretFiles, Clusters,
     Commands, SecretStores, After, Goes, At, serving, SecretWritten
<1>3. Clustered'
  BY DEF BootstrapIInv, Clustered, BootstrapTypeOK, SecretFiles, Clusters,
     Commands, SecretStores, Secrets, After, Goes, At, serving, SecretWritten
<1>4. Keyed'
  BY DEF BootstrapIInv, Keyed, BootstrapTypeOK, Making, Clustered, Read,
     SecretFiles, Clusters, Commands, SecretStores, Secrets, After, Goes, At,
     serving, SecretWritten
<1>5. Audited'
  BY DEF BootstrapIInv, Audited, BootstrapTypeOK, Returning, SecretFiles,
     Clusters, Commands, SecretStores, Secrets, After, Goes, At, serving,
     SecretWritten
<1> QED
  BY <1>1, <1>2, <1>3, <1>4, <1>5 DEF BootstrapIInv

\* A process opens its store.
LEMMA StoreOpensKeeps ==
  ASSUME BootstrapIInv, NEW p \in Processes, StoreOpens(p)
  PROVE  BootstrapIInv'
<1>1. BootstrapTypeOK'
  BY DEF BootstrapIInv, BootstrapTypeOK, SecretFiles, Clusters, Commands,
     SecretStores, Secrets, Read, AppLogsIn, StoreOpens
<1>2. Keyed'
  BY DEF BootstrapIInv, Keyed, BootstrapTypeOK, Making, Clustered, Read,
     SecretFiles, Clusters, Commands, SecretStores, Secrets, AppLogsIn, StoreOpens
<1>3. Audited'
  BY DEF BootstrapIInv, Audited, BootstrapTypeOK, Returning, SecretFiles,
     Clusters, Commands, SecretStores, Secrets, Read, AppLogsIn, StoreOpens
<1>4. Making' /\ Clustered'
  BY DEF BootstrapIInv, Making, Clustered, Secrets, StoreOpens
<1> QED
  BY <1>1, <1>2, <1>3, <1>4 DEF BootstrapIInv

\* A process ends.
LEMMA StoreClosesKeeps ==
  ASSUME BootstrapIInv, NEW p \in Processes, StoreCloses(p)
  PROVE  BootstrapIInv'
<1>1. BootstrapTypeOK'
  BY DEF BootstrapIInv, BootstrapTypeOK, SecretFiles, Clusters, Commands,
     SecretStores, Secrets, NoStore, StoreCloses
<1>2. Keyed'
  BY DEF BootstrapIInv, Keyed, BootstrapTypeOK, Making, Clustered, Read,
     SecretFiles, Clusters, Commands, SecretStores, Secrets, NoStore, StoreCloses
<1>3. Audited'
  <2>1. Returning \subseteq Processes /\ Returning' = Returning \ {p}
    BY DEF Returning, BootstrapIInv, BootstrapTypeOK, SecretStores, NoStore, StoreCloses
  <2>2. /\ Cardinality(Returning) \in Nat /\ Cardinality(Returning \ {p}) \in Nat
        /\ p \in Returning => Cardinality(Returning) = Cardinality(Returning \ {p}) + 1
        /\ p \notin Returning => Cardinality(Returning \union {p}) = Cardinality(Returning) + 1
    BY <2>1, ReturningIs
  <2>3. p \in Returning \/ Returning \ {p} = Returning
    OBVIOUS
  <2>4. rows' = rows
    BY DEF StoreCloses
  <2>5. Cardinality(Returning') \in Nat /\ Cardinality(Returning') <= Cardinality(Returning)
    BY <2>1, <2>2, <2>3
  <2> QED
    BY <2>2, <2>4, <2>5 DEF BootstrapIInv, BootstrapTypeOK, Audited
<1>4. Making' /\ Clustered'
  BY DEF BootstrapIInv, Making, Clustered, Secrets, StoreCloses
<1> QED
  BY <1>1, <1>2, <1>3, <1>4 DEF BootstrapIInv

\* A reveal that cannot be recorded.
LEMMA AuditFailsKeeps ==
  ASSUME BootstrapIInv, NEW p \in Processes, AuditFails(p)
  PROVE  BootstrapIInv'
<1>1. BootstrapTypeOK'
  BY DEF BootstrapIInv, BootstrapTypeOK, SecretFiles, Clusters, Commands,
     SecretStores, Secrets, AuditFails
<1>2. Keyed'
  BY DEF BootstrapIInv, Keyed, BootstrapTypeOK, Making, Clustered, Read,
     SecretFiles, Clusters, Commands, SecretStores, Secrets, AuditFails
<1>3. Audited'
  BY DEF BootstrapIInv, Audited, BootstrapTypeOK, Returning, SecretFiles,
     Clusters, Commands, SecretStores, Secrets, AuditFails
<1>4. Making' /\ Clustered'
  BY DEF BootstrapIInv, Making, Clustered, Secrets, AuditFails
<1> QED
  BY <1>1, <1>2, <1>3, <1>4 DEF BootstrapIInv

\* A reveal is recorded.
LEMMA AuditsKeeps ==
  ASSUME BootstrapIInv, NEW p \in Processes, Audits(p)
  PROVE  BootstrapIInv'
<1>1. BootstrapTypeOK'
  BY DEF BootstrapIInv, BootstrapTypeOK, SecretFiles, Clusters, Commands,
     SecretStores, Secrets, Audits
<1>2. Keyed'
  BY DEF BootstrapIInv, Keyed, BootstrapTypeOK, Making, Clustered, Read,
     SecretFiles, Clusters, Commands, SecretStores, Secrets, Audits
<1>3. Audited'
  <2>1. Returning \subseteq Processes /\ Returning' = Returning \union {p}
    BY DEF Returning, BootstrapIInv, BootstrapTypeOK, SecretStores, NoStore, Audits
  <2>2. /\ Cardinality(Returning) \in Nat /\ Cardinality(Returning \ {p}) \in Nat
        /\ p \in Returning => Cardinality(Returning) = Cardinality(Returning \ {p}) + 1
        /\ p \notin Returning => Cardinality(Returning \union {p}) = Cardinality(Returning) + 1
    BY <2>1, ReturningIs
  <2>3. p \notin Returning
    BY DEF Returning, Audits
  <2>4. rows'.returned = rows.returned /\ rows'.audited = rows.audited + 1
    BY DEF BootstrapIInv, BootstrapTypeOK, Audits
  <2> QED
    BY <2>1, <2>2, <2>3, <2>4 DEF BootstrapIInv, BootstrapTypeOK, Audited
<1>4. Making' /\ Clustered'
  BY DEF BootstrapIInv, Making, Clustered, Secrets, Audits
<1> QED
  BY <1>1, <1>2, <1>3, <1>4 DEF BootstrapIInv

\* The secret is handed out.
LEMMA ReturnsKeeps ==
  ASSUME BootstrapIInv, NEW p \in Processes, Returns(p)
  PROVE  BootstrapIInv'
<1>1. BootstrapTypeOK'
  BY DEF BootstrapIInv, BootstrapTypeOK, SecretFiles, Clusters, Commands,
     SecretStores, Secrets, Returns
<1>2. Keyed'
  BY DEF BootstrapIInv, Keyed, BootstrapTypeOK, Making, Clustered, Read,
     SecretFiles, Clusters, Commands, SecretStores, Secrets, Returns
<1>3. Audited'
  <2>1. Returning \subseteq Processes /\ Returning' = Returning \ {p}
    BY DEF Returning, BootstrapIInv, BootstrapTypeOK, SecretStores, NoStore, Returns
  <2>2. /\ Cardinality(Returning) \in Nat /\ Cardinality(Returning \ {p}) \in Nat
        /\ p \in Returning => Cardinality(Returning) = Cardinality(Returning \ {p}) + 1
        /\ p \notin Returning => Cardinality(Returning \union {p}) = Cardinality(Returning) + 1
    BY <2>1, ReturningIs
  <2>3. p \in Returning
    BY DEF Returning, Returns
  <2>4. rows'.returned = rows.returned + 1 /\ rows'.audited = rows.audited
    BY DEF BootstrapIInv, BootstrapTypeOK, Returns
  <2> QED
    BY <2>1, <2>2, <2>3, <2>4 DEF BootstrapIInv, BootstrapTypeOK, Audited
<1>4. Making' /\ Clustered'
  BY DEF BootstrapIInv, Making, Clustered, Secrets, Returns
<1> QED
  BY <1>1, <1>2, <1>3, <1>4 DEF BootstrapIInv

\* A secret is stored.
LEMMA StoresSecretKeeps ==
  ASSUME BootstrapIInv, NEW p \in Processes, NEW r \in Refs, StoresSecret(p, r)
  PROVE  BootstrapIInv'
<1>1. BootstrapTypeOK'
  BY DEF BootstrapIInv, BootstrapTypeOK, SecretFiles, Clusters, Commands,
     SecretStores, Secrets, Encrypted, StoresSecret
<1>2. Keyed'
  BY DEF BootstrapIInv, Keyed, BootstrapTypeOK, Making, Clustered, Read,
     SecretFiles, Clusters, Commands, SecretStores, Secrets, Encrypted,
     StoresSecret
<1>3. Audited'
  BY DEF BootstrapIInv, Audited, BootstrapTypeOK, Returning, SecretFiles,
     Clusters, Commands, SecretStores, Secrets, Encrypted, StoresSecret
<1>4. Making' /\ Clustered'
  BY DEF BootstrapIInv, Making, Clustered, Secrets, StoresSecret
<1> QED
  BY <1>1, <1>2, <1>3, <1>4 DEF BootstrapIInv

\* A secret is deleted.
LEMMA DeletesKeeps ==
  ASSUME BootstrapIInv, NEW p \in Processes, NEW r \in Refs, Deletes(p, r)
  PROVE  BootstrapIInv'
<1>1. BootstrapTypeOK'
  BY DEF BootstrapIInv, BootstrapTypeOK, SecretFiles, Clusters, Commands,
     SecretStores, Secrets, Encrypted, Deletes
<1>2. Keyed'
  BY DEF BootstrapIInv, Keyed, BootstrapTypeOK, Making, Clustered, Read,
     SecretFiles, Clusters, Commands, SecretStores, Secrets, Encrypted, Deletes
<1>3. Audited'
  BY DEF BootstrapIInv, Audited, BootstrapTypeOK, Returning, SecretFiles,
     Clusters, Commands, SecretStores, Secrets, Encrypted, Deletes
<1>4. Making' /\ Clustered'
  BY DEF BootstrapIInv, Making, Clustered, Secrets, Deletes
<1> QED
  BY <1>1, <1>2, <1>3, <1>4 DEF BootstrapIInv

\* A secret is decrypted.
LEMMA DecryptsKeeps ==
  ASSUME BootstrapIInv, NEW p \in Processes, NEW r \in Refs, Decrypts(p, r)
  PROVE  BootstrapIInv'
<1>1. BootstrapTypeOK'
  BY DEF BootstrapIInv, BootstrapTypeOK, SecretFiles, Clusters, Commands,
     SecretStores, Secrets, Decrypts
<1>2. Keyed'
  BY DEF BootstrapIInv, Keyed, BootstrapTypeOK, Making, Clustered, Read,
     SecretFiles, Clusters, Commands, SecretStores, Secrets, Decrypts
<1>3. Audited'
  BY ZenonT(60) DEF BootstrapIInv, Audited, BootstrapTypeOK, Returning, SecretFiles,
     Clusters, Commands, SecretStores, Secrets, Decrypts
<1>4. Making' /\ Clustered'
  BY DEF BootstrapIInv, Making, Clustered, Secrets, Decrypts
<1> QED
  BY <1>1, <1>2, <1>3, <1>4 DEF BootstrapIInv

----------------------------------------------------------------------------
\* The step lemmas together.
LEMMA BootstrapStep ==
  ASSUME BootstrapIInv, [BootstrapNext]_bootstrapVars
  PROVE  BootstrapIInv'
<1>1. CASE UNCHANGED bootstrapVars
  BY <1>1 DEF BootstrapIInv, bootstrapVars, BootstrapTypeOK, Making, Clustered, Keyed, Read,
     Audited, Returning
<1>2. CASE CommandKilled
  BY <1>2, CommandKilledKeeps
<1>3. CASE InitGiven
  BY <1>3, InitGivenKeeps
<1>4. CASE PgUpGiven
  BY <1>4, PgUpGivenKeeps
<1>5. CASE InitDb
  BY <1>5, InitDbKeeps
<1>6. CASE StartPg
  BY <1>6, StartPgKeeps
<1>7. CASE EnsureRole
  BY <1>7, EnsureRoleKeeps
<1>8. CASE EnsureDatabase
  BY <1>8, EnsureDatabaseKeeps
<1>9. CASE FileMissing
  BY <1>9, FileMissingKeeps
<1>10. CASE PgStop
  BY <1>10, PgStopKeeps
<1>11. CASE AlembicUp
  BY <1>11, AlembicUpKeeps
<1>12. CASE \E f \in Secrets : SecretKept(f)
  BY <1>12, SecretKeptKeeps
<1>13. CASE \E f \in Secrets : SecretOpened(f)
  BY <1>13, SecretOpenedKeeps
<1>14. CASE \E f \in Secrets : SecretWritten(f)
  BY <1>14, SecretWrittenKeeps
<1>15. CASE \E p \in Processes : StoreOpens(p)
  BY <1>15, StoreOpensKeeps
<1>16. CASE \E p \in Processes : StoreCloses(p)
  BY <1>16, StoreClosesKeeps
<1>17. CASE \E p \in Processes : AuditFails(p)
  BY <1>17, AuditFailsKeeps
<1>18. CASE \E p \in Processes : Audits(p)
  BY <1>18, AuditsKeeps
<1>19. CASE \E p \in Processes : Returns(p)
  BY <1>19, ReturnsKeeps
<1>20. CASE \E p \in Processes, r \in Refs : StoresSecret(p, r)
  BY <1>20, StoresSecretKeeps
<1>21. CASE \E p \in Processes, r \in Refs : Deletes(p, r)
  BY <1>21, DeletesKeeps
<1>22. CASE \E p \in Processes, r \in Refs : Decrypts(p, r)
  BY <1>22, DecryptsKeeps
<1> QED
  BY <1>1, <1>2, <1>3, <1>4, <1>5, <1>6, <1>7, <1>8, <1>9, <1>10, <1>11, <1>12,
     <1>13, <1>14, <1>15, <1>16, <1>17, <1>18, <1>19, <1>20, <1>21, <1>22 DEF
     BootstrapNext

(* However often the commands that set an installation up are given, killed  *)
(* and given again, and whatever processes use it meanwhile: a bootstrap     *)
(* secret is generated once unless somebody forces it, what was set up with  *)
(* it stays reachable, and no secret is handed out off the record            *)
(* (app/launcher.py, LocalFileSecretStore).                                  *)
THEOREM BootstrapIsSafe == BootstrapSpec => []BootstrapInv
<1>1. BootstrapInit => BootstrapIInv
  <2> SUFFICES ASSUME BootstrapInit
               PROVE  BootstrapIInv
    OBVIOUS
  <2>1. BootstrapTypeOK
    BY DEF BootstrapInit, BootstrapTypeOK, SecretFiles, Clusters, Commands, SecretStores,
       NoFile, NoCluster, NoCommand, NoStore
  <2>2. Making /\ Clustered /\ Keyed
    BY DEF BootstrapInit, Making, Clustered, Keyed, Read, NoFile, NoCluster, NoCommand, NoStore
  <2>3. Returning = {}
    BY DEF BootstrapInit, Returning, NoStore
  <2>4. Audited
    BY <2>3, FS_EmptySet DEF BootstrapInit, Audited
  <2> QED
    BY <2>1, <2>2, <2>4 DEF BootstrapIInv
<1>2. BootstrapIInv /\ [BootstrapNext]_bootstrapVars => BootstrapIInv'
  BY BootstrapStep
<1>3. BootstrapIInv => BootstrapInv
  <2> SUFFICES ASSUME BootstrapIInv
               PROVE  BootstrapInv
    OBVIOUS
  <2>1. GeneratedOnce
    BY DEF BootstrapIInv, BootstrapTypeOK, Making, GeneratedOnce
  <2>2. NobodyIsLockedOut /\ RoleOnlyOnReady
    BY DEF BootstrapIInv, BootstrapTypeOK, Keyed, Clustered, NobodyIsLockedOut, RoleOnlyOnReady
  <2>3. Cardinality(Returning) \in Nat
    BY BootstrapBounds, FS_Subset, FS_CardinalityType DEF Returning
  <2>4. RevealsAreAudited
    BY <2>3 DEF BootstrapIInv, BootstrapTypeOK, Audited, RevealsAreAudited
  <2> QED
    BY <2>1, <2>2, <2>4 DEF BootstrapIInv, BootstrapInv
<1> QED
  BY <1>1, <1>2, <1>3, PTL DEF BootstrapSpec

----------------------------------------------------------------------------
(* The launcher: the inductive invariant.                                    *)

Living == {"up", "draining"}

\* What a supervisor has started and not yet seen end, at each point of `up`.
StageIs(at, c) ==
    /\ at \in {"idle", "pg", "schema", "spawnApi", "termWorker", "waitWorker", "unlink",
               "stopPg", "cleanup", "ended"} => c["api"] \notin Living
    /\ at \in {"idle", "pg", "schema", "spawnApi", "recordApi", "spawnWorker", "unlink",
               "stopPg", "cleanup", "ended"} => c["worker"] \notin Living

Staged == \A u \in Ups : StageIs(sup[u].pc, child[u])

\* One `up` after the other.
InTurn == \A u, v \in Ups : u < v /\ sup[v].pc # "idle" => sup[u].pc # "idle" /\ ~sup[u].alive

\* A pid file names an `up` that was started.
Named == \A k \in Kinds : pidFile[k] # NoPid => sup[pidFile[k]].pc # "idle"

\* A stop command that is past the supervisor has found none alive, or not looked at it.
Searched ==
    /\ stop.pc \in {"waitLauncher", "waitApi", "waitWorker"} => stop.target \in Ups
    /\ \A u \in Ups : StopRuns /\ sup[u].alive =>
          u \in stop.unseen \/ (stop.pc = "waitLauncher" /\ u = stop.target)

\* A pid file it has dealt with is gone, unless a supervisor it has not seen wrote it.
Swept ==
    /\ stop.pc = "waitApi" => pidFile["api"] \in {NoPid, stop.target} \union stop.unseen
    /\ stop.pc \in {"termWorker", "waitWorker", "stopPg"} =>
          pidFile["api"] \in {NoPid} \union stop.unseen
    /\ stop.pc = "waitWorker" => pidFile["worker"] \in {NoPid, stop.target} \union stop.unseen
    /\ stop.pc = "stopPg" => pidFile["worker"] \in {NoPid} \union stop.unseen

LauncherIInv ==
    LauncherTypeOK /\ Staged /\ InTurn /\ Named /\ Searched /\ Swept /\ NoLostChild

\* The clauses that every step of a supervisor keeps: it touches its own process, its own
\* children and the pid files.
LEMMA UpKeeps ==
  ASSUME LauncherIInv, LauncherTypeOK', NEW u \in Ups, sup[u].alive, UNCHANGED stop,
         sup'[u].pc # "idle",
         \A w \in Ups : w # u => sup'[w] = sup[w] /\ child'[w] = child[w],
         \A k \in Kinds : pidFile'[k] \in {pidFile[k], u, NoPid},
         StageIs(sup'[u].pc, child'[u]),
         \A k \in Kinds : child'[u][k] \in Living =>
            pidFile'[k] = u \/ sup'[u].pc = (IF k = "api" THEN "recordApi" ELSE "recordWorker")
            \/ u \in stop.unseen
  PROVE  LauncherIInv'
<1>1. /\ LauncherTypeOK /\ Staged /\ InTurn /\ Named /\ Searched /\ Swept /\ NoLostChild
  BY DEF LauncherIInv
<1>2. sup[u].pc # "idle" /\ u \in Nat \ {0}
  BY <1>1, LauncherBounds DEF LauncherTypeOK, Ups
<1>3. Staged'
  BY <1>1 DEF Staged
<1>4. InTurn'
  BY <1>1, <1>2 DEF InTurn
<1>5. \A w \in Ups : sup'[w].pc = "idle" <=> sup[w].pc = "idle"
  BY <1>2
<1>6. Named'
  <2> SUFFICES ASSUME NEW k \in Kinds, pidFile'[k] # NoPid PROVE sup'[pidFile'[k]].pc # "idle"
    BY DEF Named
  <2>1. pidFile'[k] \in Ups
    BY DEF LauncherTypeOK
  <2>2. CASE pidFile'[k] = u
    BY <2>2
  <2>3. CASE pidFile'[k] = pidFile[k]
    BY <1>1, <1>5, <2>1, <2>3 DEF Named
  <2> QED
    BY <2>2, <2>3
<1>7. Searched'
  BY <1>1 DEF Searched, StopRuns
<1>8. Swept'
  <2>1. StopRuns /\ stop.pc # "waitLauncher" => u \in stop.unseen
    BY <1>1 DEF Searched
  <2>2. stop.pc \in {"waitApi", "termWorker", "waitWorker", "stopPg"} => u \in stop.unseen
    BY <2>1 DEF StopRuns
  <2>3. "api" \in Kinds /\ "worker" \in Kinds
    BY DEF Kinds
  <2>4. /\ pidFile'["api"] \in {pidFile["api"], u, NoPid}
        /\ pidFile'["worker"] \in {pidFile["worker"], u, NoPid}
    BY <2>3
  <2> QED
    BY <1>1, <2>2, <2>4 DEF Swept
<1>9. NoLostChild'
  <2> SUFFICES ASSUME NEW w \in Ups, NEW k \in Kinds, child'[w][k] \in Living
               PROVE  \/ pidFile'[k] = w
                      \/ sup'[w].pc = (IF k = "api" THEN "recordApi" ELSE "recordWorker")
                      \/ Overtaken(w)' \/ w \in stop.unseen
    BY DEF NoLostChild, Alive, Living, Recorded
  <2>1. CASE w = u
    BY <2>1
  <2>2. CASE w < u
    BY <2>2 DEF Overtaken
  <2>3. CASE u < w
    <3>1. sup[w].pc = "idle" /\ child'[w] = child[w]
      BY <1>1, <1>2, <2>3 DEF InTurn
    <3> QED
      BY <1>1, <3>1 DEF Staged, StageIs, Kinds
  <2> QED
    BY <1>2, <2>1, <2>2, <2>3 DEF Ups
<1> QED
  BY <1>3, <1>4, <1>6, <1>7, <1>8, <1>9 DEF LauncherIInv

\* A step of a child, of a user or of the stop command: nobody starts, a child may end.
LEMMA EndingKeeps ==
  ASSUME LauncherIInv, LauncherTypeOK', Named', Searched', Swept',
         \A u \in Ups : sup'[u].pc = sup[u].pc /\ (sup'[u].alive => sup[u].alive),
         \A u \in Ups, k \in Kinds : child'[u][k] \in Living =>
            /\ child[u][k] \in Living
            /\ pidFile[k] = u => pidFile'[k] = u \/ u \in stop'.unseen,
         stop.unseen \subseteq stop'.unseen
  PROVE  LauncherIInv'
<1>1. Staged /\ InTurn /\ NoLostChild
  BY DEF LauncherIInv
<1>2. Staged'
  <2>1. "api" \in Kinds /\ "worker" \in Kinds
    BY DEF Kinds
  <2> QED
    BY <1>1, <2>1 DEF Staged, StageIs
<1>3. InTurn'
  BY <1>1 DEF InTurn
<1>4. NoLostChild'
  <2> SUFFICES ASSUME NEW u \in Ups, NEW k \in Kinds, child'[u][k] \in Living
               PROVE  \/ pidFile'[k] = u
                      \/ sup'[u].pc = (IF k = "api" THEN "recordApi" ELSE "recordWorker")
                      \/ Overtaken(u)' \/ u \in stop'.unseen
    BY DEF NoLostChild, Alive, Living, Recorded
  <2>1. \/ pidFile[k] = u
        \/ sup[u].pc = (IF k = "api" THEN "recordApi" ELSE "recordWorker")
        \/ Overtaken(u) \/ u \in stop.unseen
    BY <1>1 DEF NoLostChild, Alive, Living, Recorded
  <2>2. Overtaken(u) => Overtaken(u)'
    BY DEF Overtaken
  <2> QED
    BY <2>1, <2>2
<1> QED
  BY <1>2, <1>3, <1>4 DEF LauncherIInv

\* The supervisors after one of them has moved on.
Shifted(u, at) == [sup EXCEPT ![u].pc = at]

LEMMA Moved ==
  ASSUME LauncherTypeOK, NEW u \in Ups, NEW at \in UpPcs
  PROVE  /\ Shifted(u, at) \in
               [Ups -> [pc : UpPcs, alive : BOOLEAN, asked : BOOLEAN, failing : BOOLEAN]]
         /\ \A w \in Ups : w # u => Shifted(u, at)[w] = sup[w]
         /\ Shifted(u, at)[u].pc = at
<1> DEFINE Sups == [pc : UpPcs, alive : BOOLEAN, asked : BOOLEAN, failing : BOOLEAN]
<1>1. sup \in [Ups -> Sups]
  BY DEF LauncherTypeOK
<1>2. PICK s \in Sups : s = sup[u]
  BY <1>1
<1>3. PICK q : q = [s EXCEPT !.pc = at] /\ Shifted(u, at) = [sup EXCEPT ![u] = q]
  BY <1>1, <1>2 DEF Shifted
<1>4. q \in Sups /\ q.pc = at
  BY <1>2, <1>3
<1> QED
  BY <1>1, <1>3, <1>4

\* The supervisor moves on, or ends.
LEMMA SupervisorMoves ==
  ASSUME LauncherTypeOK, NEW u \in Ups, sup[u].alive,
         \/ \E at \in UpPcs \ {"idle", "ended"} :
               sup' = [sup EXCEPT ![u].pc = at]
         \/ End(u)
  PROVE  /\ sup' \in [Ups -> [pc : UpPcs, alive : BOOLEAN, asked : BOOLEAN, failing : BOOLEAN]]
         /\ \A w \in Ups : w # u => sup'[w] = sup[w]
         /\ \A w \in Ups : sup'[w].alive => sup'[w].pc \notin {"idle", "ended"}
         /\ sup'[u].pc # "idle"
         /\ End(u) => sup'[u].pc = "ended"
         /\ \A at \in UpPcs \ {"idle", "ended"} :
               sup' = [sup EXCEPT ![u].pc = at] => sup'[u].pc = at
<1>1. "ended" \in UpPcs
  BY DEF UpPcs
<1>2. CASE End(u)
  BY <1>1, <1>2 DEF LauncherTypeOK, End
<1>3. CASE \E at \in UpPcs \ {"idle", "ended"} : sup' = [sup EXCEPT ![u].pc = at]
  <2>1. PICK at \in UpPcs \ {"idle", "ended"} : sup' = [sup EXCEPT ![u].pc = at]
    BY <1>3
  <2>2. /\ sup' \in [Ups -> [pc : UpPcs, alive : BOOLEAN, asked : BOOLEAN, failing : BOOLEAN]]
        /\ \A w \in Ups : w # u => sup'[w] = sup[w]
        /\ sup'[u].pc = at
    <3>1. sup' = Shifted(u, at)
      BY <2>1 DEF Shifted
    <3> QED
      BY <3>1, Moved
  <2>3. \A w \in Ups : sup'[w].alive => sup'[w].pc \notin {"idle", "ended"}
    BY <2>2 DEF LauncherTypeOK
  <2>4. End(u) => sup'[u].pc = "ended"
    BY DEF End, LauncherTypeOK
  <2>5. \A q \in UpPcs \ {"idle", "ended"} : sup' = [sup EXCEPT ![u].pc = q] => sup'[u].pc = q
    BY DEF LauncherTypeOK
  <2> QED
    BY <2>2, <2>3, <2>4, <2>5
<1> QED
  BY <1>2, <1>3

\* The supervisor's own facts, as a step of it finds them.
LEMMA AtWork ==
  ASSUME LauncherIInv, NEW u \in Ups, sup[u].alive
  PROVE  /\ LauncherTypeOK /\ StageIs(sup[u].pc, child[u]) /\ sup[u].pc # "idle"
         /\ \A k \in Kinds : child[u][k] \in Living =>
               \/ pidFile[k] = u
               \/ sup[u].pc = (IF k = "api" THEN "recordApi" ELSE "recordWorker")
               \/ u \in stop.unseen
<1>1. LauncherTypeOK /\ Staged /\ InTurn /\ NoLostChild
  BY DEF LauncherIInv
<1>2. ~Overtaken(u)
  BY <1>1, LauncherBounds DEF InTurn, Overtaken, Ups
<1>3. sup[u].pc # "idle"
  BY <1>1 DEF LauncherTypeOK
<1> QED
  BY <1>1, <1>2, <1>3 DEF Staged, NoLostChild, Alive, Living, Recorded

\* A step that starts and ends no process, and takes no child's pid file away.
LEMMA SupervisorSteps ==
  ASSUME LauncherIInv, NEW u \in Ups, sup[u].alive, LauncherTypeOK', UNCHANGED <<child, stop>>,
         sup'[u].pc # "idle", \A w \in Ups : w # u => sup'[w] = sup[w],
         \A k \in Kinds : pidFile'[k] = pidFile[k],
         StageIs(sup'[u].pc, child[u]),
         sup[u].pc \notin {"recordApi", "recordWorker"}
  PROVE  LauncherIInv'
<1>1. /\ \A k \in Kinds : child[u][k] \in Living => pidFile[k] = u \/ u \in stop.unseen
  BY AtWork
<1> QED
  BY <1>1, UpKeeps

\* The supervisor is asked to end, or killed.
LEMMA SupervisorTold ==
  ASSUME LauncherTypeOK, NEW u \in Ups,
         \/ sup' = [sup EXCEPT ![u].asked = TRUE]
         \/ sup' = [sup EXCEPT ![u].alive = FALSE]
  PROVE  /\ sup' \in [Ups -> [pc : UpPcs, alive : BOOLEAN, asked : BOOLEAN, failing : BOOLEAN]]
         /\ \A w \in Ups : w # u => sup'[w] = sup[w]
         /\ \A w \in Ups : sup'[w].pc = sup[w].pc /\ (sup'[w].alive => sup[w].alive)
         /\ sup' = [sup EXCEPT ![u].alive = FALSE] => ~sup'[u].alive
<1> DEFINE Sups == [pc : UpPcs, alive : BOOLEAN, asked : BOOLEAN, failing : BOOLEAN]
<1>1. sup \in [Ups -> Sups]
  BY DEF LauncherTypeOK
<1>2. PICK s \in Sups : s = sup[u]
  BY <1>1
<1>3. sup' = [sup EXCEPT ![u].alive = FALSE] => ~sup'[u].alive
  BY <1>1
<1>4. CASE sup' = [sup EXCEPT ![u].asked = TRUE]
  <2>1. PICK q : q = [s EXCEPT !.asked = TRUE] /\ sup' = [sup EXCEPT ![u] = q]
    BY <1>1, <1>2, <1>4
  <2>2. q \in Sups /\ q.pc = s.pc /\ q.alive = s.alive
    BY <1>2, <2>1
  <2> QED
    BY <1>1, <1>2, <1>3, <2>1, <2>2
<1>5. CASE sup' = [sup EXCEPT ![u].alive = FALSE]
  <2>1. PICK q : q = [s EXCEPT !.alive = FALSE] /\ sup' = [sup EXCEPT ![u] = q]
    BY <1>1, <1>2, <1>5
  <2>2. q \in Sups /\ q.pc = s.pc /\ q.alive = FALSE
    BY <1>2, <2>1
  <2> QED
    BY <1>1, <1>2, <1>3, <2>1, <2>2
<1> QED
  BY <1>4, <1>5

LEMMA UpPgKeeps ==
  ASSUME LauncherIInv, NEW u \in Ups, UpPg(u) \/ UpSchema(u) \/ UpFails(u)
  PROVE  LauncherIInv'
<1>1. /\ sup[u].alive /\ sup[u].pc \in {"pg", "schema"}
      /\ UNCHANGED <<platform, child, stop, used>>
  BY DEF UpPg, UpSchema, UpFails, Supervises
<1>2. LauncherTypeOK /\ StageIs(sup[u].pc, child[u])
  BY <1>1, AtWork
<1>3. child[u]["api"] \notin Living /\ child[u]["worker"] \notin Living
  BY <1>1, <1>2 DEF StageIs
<1>4. End(u) \/ SupervisorAt(u, "schema") \/ SupervisorAt(u, "spawnApi")
  BY DEF UpPg, UpSchema, UpFails, Withdraw
<1>5. {"schema", "spawnApi"} \subseteq UpPcs \ {"idle", "ended"}
  BY DEF UpPcs, Startup
<1>6. /\ sup' \in [Ups -> [pc : UpPcs, alive : BOOLEAN, asked : BOOLEAN, failing : BOOLEAN]]
      /\ \A w \in Ups : w # u => sup'[w] = sup[w]
      /\ \A w \in Ups : sup'[w].alive => sup'[w].pc \notin {"idle", "ended"}
      /\ sup'[u].pc # "idle"
  BY <1>1, <1>2, <1>4, <1>5, SupervisorMoves DEF SupervisorAt
<1>7. StageIs(sup'[u].pc, child[u])
  BY <1>3 DEF StageIs
<1>8. /\ pidFile' \in [Kinds \union {"launcher"} -> Ups \union {NoPid}]
      /\ \A k \in Kinds : pidFile'[k] = pidFile[k]
  BY <1>2 DEF LauncherTypeOK, UpPg, UpSchema, UpFails, Withdraw, Kinds
<1>9. stopFile' \in BOOLEAN /\ (platform' = "posix" => ~stopFile')
  <2>1. stopFile \in BOOLEAN /\ (platform = "posix" => ~stopFile)
    BY <1>2 DEF LauncherTypeOK
  <2>2. stopFile' = FALSE \/ stopFile' = stopFile
    BY Zenon DEF UpPg, UpSchema, UpFails, Withdraw
  <2>3. CASE stopFile' = FALSE
    BY <2>3
  <2>4. CASE stopFile' = stopFile
    BY <1>1, <2>1, <2>4
  <2> QED
    BY <2>2, <2>3, <2>4
<1>10. pg' \in BOOLEAN
  <2>1. pg \in BOOLEAN
    BY <1>2 DEF LauncherTypeOK
  <2> QED
    BY <2>1, Zenon DEF UpPg, UpSchema, UpFails
<1>11. LauncherTypeOK'
  BY <1>1, <1>2, <1>6, <1>8, <1>9, <1>10 DEF LauncherTypeOK
<1> QED
  BY <1>1, <1>6, <1>7, <1>8, <1>11, SupervisorSteps

\* Popen, then the pid file.
LEMMA SpawnKeeps ==
  ASSUME LauncherIInv, NEW u \in Ups, UpSpawnApi(u) \/ UpSpawnWorker(u)
  PROVE  LauncherIInv'
<1>1. PICK k \in Kinds, from \in UpPcs, to \in UpPcs \ {"idle", "ended"} :
         /\ Spawn(u, k, from, to)
         /\ \/ k = "api" /\ from = "spawnApi" /\ to = "recordApi"
            \/ k = "worker" /\ from = "spawnWorker" /\ to = "recordWorker"
  BY DEF UpSpawnApi, UpSpawnWorker, Kinds, UpPcs, Startup
<1>2. /\ sup[u].alive /\ sup[u].pc = from /\ sup' = [sup EXCEPT ![u].pc = to]
      /\ child' = [child EXCEPT ![u][k] = "up"]
      /\ UNCHANGED <<platform, pidFile, stopFile, pg, stop, used>>
  BY <1>1 DEF Spawn, Supervises, SupervisorAt
<1>3. /\ LauncherTypeOK /\ StageIs(sup[u].pc, child[u])
      /\ \A i \in Kinds : child[u][i] \in Living => pidFile[i] = u \/ u \in stop.unseen
  BY <1>1, <1>2, AtWork
<1>4. /\ sup' \in [Ups -> [pc : UpPcs, alive : BOOLEAN, asked : BOOLEAN, failing : BOOLEAN]]
      /\ \A w \in Ups : w # u => sup'[w] = sup[w]
      /\ \A w \in Ups : sup'[w].alive => sup'[w].pc \notin {"idle", "ended"}
      /\ sup'[u].pc = to
  BY <1>2, <1>3, SupervisorMoves
<1>5. /\ child' \in [Ups -> [Kinds -> {"none", "up", "draining", "dead"}]]
      /\ \A w \in Ups : w # u => child'[w] = child[w]
      /\ child'[u][k] = "up" /\ \A i \in Kinds : i # k => child'[u][i] = child[u][i]
  BY <1>2, <1>3 DEF LauncherTypeOK
<1>6. StageIs(sup'[u].pc, child'[u])
  BY <1>1, <1>2, <1>3, <1>4, <1>5 DEF StageIs, Kinds
<1>7. LauncherTypeOK'
  BY <1>2, <1>3, <1>4, <1>5 DEF LauncherTypeOK
<1>8. \A i \in Kinds : child'[u][i] \in Living =>
        \/ pidFile'[i] = u \/ sup'[u].pc = (IF i = "api" THEN "recordApi" ELSE "recordWorker")
        \/ u \in stop.unseen
  BY <1>1, <1>2, <1>3, <1>4, <1>5
<1>9. /\ sup[u].alive /\ UNCHANGED stop /\ sup'[u].pc # "idle"
      /\ \A i \in Kinds : pidFile'[i] \in {pidFile[i], u, NoPid}
  BY <1>1, <1>2, <1>4
<1> QED
  BY <1>4, <1>5, <1>6, <1>7, <1>8, <1>9, UpKeeps

LEMMA RecordKeeps ==
  ASSUME LauncherIInv, NEW u \in Ups, UpRecordApi(u) \/ UpRecordWorker(u)
  PROVE  LauncherIInv'
<1>1. PICK k \in Kinds, from \in UpPcs, to \in UpPcs \ {"idle", "ended"} :
         /\ Record(u, k, from, to)
         /\ \/ k = "api" /\ from = "recordApi" /\ to = "spawnWorker"
            \/ k = "worker" /\ from = "recordWorker" /\ to = "handlers"
  BY DEF UpRecordApi, UpRecordWorker, Kinds, UpPcs, Startup
<1>2. /\ sup[u].alive /\ sup[u].pc = from /\ sup' = [sup EXCEPT ![u].pc = to]
      /\ pidFile' = [pidFile EXCEPT ![k] = u]
      /\ UNCHANGED <<platform, child, stopFile, pg, stop, used>>
  BY <1>1 DEF Record, Supervises, SupervisorAt
<1>3. /\ LauncherTypeOK /\ StageIs(sup[u].pc, child[u])
      /\ \A i \in Kinds : child[u][i] \in Living =>
            pidFile[i] = u \/ i = k \/ u \in stop.unseen
  BY <1>1, <1>2, AtWork DEF Kinds
<1>4. /\ sup' \in [Ups -> [pc : UpPcs, alive : BOOLEAN, asked : BOOLEAN, failing : BOOLEAN]]
      /\ \A w \in Ups : w # u => sup'[w] = sup[w]
      /\ \A w \in Ups : sup'[w].alive => sup'[w].pc \notin {"idle", "ended"}
      /\ sup'[u].pc = to
  BY <1>2, <1>3, SupervisorMoves
<1>5. /\ pidFile' \in [Kinds \union {"launcher"} -> Ups \union {NoPid}]
      /\ \A i \in Kinds : pidFile'[i] = IF i = k THEN u ELSE pidFile[i]
  BY <1>2, <1>3 DEF LauncherTypeOK
<1>6. StageIs(sup'[u].pc, child'[u])
  BY <1>1, <1>2, <1>3, <1>4 DEF StageIs
<1>7. LauncherTypeOK'
  BY <1>2, <1>3, <1>4, <1>5 DEF LauncherTypeOK
<1>8. /\ \A i \in Kinds : pidFile'[i] \in {pidFile[i], u, NoPid}
      /\ \A i \in Kinds : child'[u][i] \in Living => pidFile'[i] = u \/ u \in stop.unseen
  BY <1>2, <1>3, <1>5
<1> QED
  BY <1>1, <1>2, <1>4, <1>6, <1>7, <1>8, UpKeeps

\* The watch loop.
LEMMA WatchKeeps ==
  ASSUME LauncherIInv, NEW u \in Ups,
         UpHandlers(u) \/ UpSeesStop(u) \/ UpSeesExit(u) \/ Interrupt(u)
  PROVE  LauncherIInv'
<1>1. /\ sup[u].alive /\ sup[u].pc \in {"handlers", "watch"}
      /\ UNCHANGED <<platform, child, pidFile, stopFile, pg, stop, used>>
  BY DEF UpHandlers, UpSeesStop, UpSeesExit, Interrupt, Supervises
<1>2. LauncherTypeOK
  BY <1>1, AtWork
<1>3. {"watch", "termApi"} \subseteq UpPcs \ {"idle", "ended"}
  BY DEF UpPcs, Stopping
<1>4. /\ sup' \in [Ups -> [pc : UpPcs, alive : BOOLEAN, asked : BOOLEAN, failing : BOOLEAN]]
      /\ \A w \in Ups : w # u => sup'[w] = sup[w]
      /\ sup'[u].pc \in {"watch", "termApi"}
  <2>1. CASE UpHandlers(u)
    <3>1. sup' = Shifted(u, "watch")
      BY <2>1 DEF UpHandlers, SupervisorAt, Shifted
    <3> QED
      BY <1>2, <1>3, <3>1, Moved
  <2>2. CASE UpSeesStop(u)
    <3>1. sup' = Shifted(u, "termApi")
      BY <2>2 DEF UpSeesStop, SupervisorAt, Shifted
    <3> QED
      BY <1>2, <1>3, <3>1, Moved
  <2>3. CASE UpSeesExit(u)
    <3>1. sup' = [sup EXCEPT ![u].pc = "termApi", ![u].failing = TRUE]
      BY <2>3 DEF UpSeesExit
    <3>2. PICK mid : mid = Shifted(u, "termApi")
      OBVIOUS
    <3>3. /\ mid \in [Ups -> [pc : UpPcs, alive : BOOLEAN, asked : BOOLEAN, failing : BOOLEAN]]
          /\ \A w \in Ups : w # u => mid[w] = sup[w]
          /\ mid[u].pc = "termApi"
      BY <1>2, <1>3, <3>2, Moved
    <3>4. sup' = [mid EXCEPT ![u].failing = TRUE]
      BY <3>1, <3>2 DEF Shifted
    <3> QED
      BY <3>3, <3>4
  <2>4. CASE Interrupt(u)
    <3>1. sup' = [sup EXCEPT ![u].asked = TRUE] /\ sup[u].pc = "watch"
      BY <2>4 DEF Interrupt, Supervises
    <3> QED
      BY <1>2, <3>1, SupervisorTold
  <2> QED
    BY <2>1, <2>2, <2>3, <2>4
<1>5. \A w \in Ups : sup'[w].alive => sup'[w].pc \notin {"idle", "ended"}
  BY <1>2, <1>4 DEF LauncherTypeOK
<1>6. LauncherTypeOK'
  BY <1>1, <1>2, <1>4, <1>5 DEF LauncherTypeOK
<1>7. StageIs(sup'[u].pc, child[u]) /\ sup'[u].pc # "idle"
  BY <1>4 DEF StageIs
<1> QED
  BY <1>1, <1>4, <1>6, <1>7, SupervisorSteps

\* A signal or a kill ends a child or lets it drain.
LEMMA ChildTold ==
  ASSUME LauncherTypeOK, NEW u \in Ups, NEW k \in Kinds,
         child' = Signalled(u, k) \/ child' = Killed(u, k)
  PROVE  /\ child' \in [Ups -> [Kinds -> {"none", "up", "draining", "dead"}]]
         /\ \A w \in Ups : w # u => child'[w] = child[w]
         /\ \A i \in Kinds : child'[u][i] \in Living => child[u][i] \in Living
         /\ child' = Killed(u, k) => child'[u][k] \notin Living
<1>1. \A i \in Kinds : i # k => child'[u][i] = child[u][i]
  BY DEF Signalled, Killed, LauncherTypeOK
<1>2. CASE child' = Signalled(u, k)
  <2>1. child'[u][k] = IF child[u][k] = "up" THEN "draining" ELSE child[u][k]
    BY <1>2 DEF Signalled, LauncherTypeOK
  <2>2. child' \in [Ups -> [Kinds -> {"none", "up", "draining", "dead"}]]
    BY <1>2 DEF Signalled, LauncherTypeOK
  <2>3. \A w \in Ups : w # u => child'[w] = child[w]
    BY <1>2 DEF Signalled, LauncherTypeOK
  <2>4. child' = Killed(u, k) => child'[u][k] \notin Living
    BY DEF Killed, LauncherTypeOK, Living
  <2> QED
    BY <1>1, <2>1, <2>2, <2>3, <2>4 DEF Living
<1>3. CASE child' = Killed(u, k)
  <2>1. child'[u][k] = IF child[u][k] = "none" THEN "none" ELSE "dead"
    BY <1>3 DEF Killed, LauncherTypeOK
  <2>2. child' \in [Ups -> [Kinds -> {"none", "up", "draining", "dead"}]]
    BY <1>3 DEF Killed, LauncherTypeOK
  <2>3. \A w \in Ups : w # u => child'[w] = child[w]
    BY <1>3 DEF Killed, LauncherTypeOK
  <2> QED
    BY <1>1, <2>1, <2>2, <2>3 DEF Living
<1> QED
  BY <1>2, <1>3

LEMMA UpTermKeeps ==
  ASSUME LauncherIInv, NEW u \in Ups, UpTermApi(u) \/ UpTermWorker(u)
  PROVE  LauncherIInv'
<1>1. PICK k \in Kinds, from \in UpPcs, to \in UpPcs \ {"idle", "ended"} :
         /\ UpTerm(u, k, from, to)
         /\ \/ k = "api" /\ from = "termApi" /\ to = "waitApi"
            \/ k = "worker" /\ from = "termWorker" /\ to = "waitWorker"
  BY DEF UpTermApi, UpTermWorker, Kinds, UpPcs, Stopping
<1>2. /\ sup[u].alive /\ sup[u].pc = from /\ sup' = [sup EXCEPT ![u].pc = to]
      /\ child' = Signalled(u, k)
      /\ UNCHANGED <<platform, pidFile, stopFile, pg, stop, used>>
  BY <1>1 DEF UpTerm, Supervises, SupervisorAt
<1>3. /\ LauncherTypeOK /\ StageIs(sup[u].pc, child[u])
      /\ \A i \in Kinds : child[u][i] \in Living => pidFile[i] = u \/ u \in stop.unseen
  BY <1>1, <1>2, AtWork
<1>4. /\ sup' \in [Ups -> [pc : UpPcs, alive : BOOLEAN, asked : BOOLEAN, failing : BOOLEAN]]
      /\ \A w \in Ups : w # u => sup'[w] = sup[w]
      /\ \A w \in Ups : sup'[w].alive => sup'[w].pc \notin {"idle", "ended"}
      /\ sup'[u].pc = to
  BY <1>2, <1>3, SupervisorMoves
<1>5. /\ child' \in [Ups -> [Kinds -> {"none", "up", "draining", "dead"}]]
      /\ \A w \in Ups : w # u => child'[w] = child[w]
      /\ \A i \in Kinds : child'[u][i] \in Living => child[u][i] \in Living
  BY <1>2, <1>3, ChildTold
<1>6. StageIs(sup'[u].pc, child'[u])
  BY <1>1, <1>2, <1>3, <1>4, <1>5 DEF StageIs, Kinds
<1>7. LauncherTypeOK'
  BY <1>2, <1>3, <1>4, <1>5 DEF LauncherTypeOK
<1> QED
  BY <1>1, <1>2, <1>3, <1>4, <1>5, <1>6, <1>7, UpKeeps

LEMMA UpWaitKeeps ==
  ASSUME LauncherIInv, NEW u \in Ups, UpWaitApi(u) \/ UpWaitWorker(u)
  PROVE  LauncherIInv'
<1>1. PICK k \in Kinds, force \in BOOLEAN, from \in UpPcs, to \in UpPcs \ {"idle", "ended"} :
         /\ UpWait(u, k, force, from, to)
         /\ \/ k = "api" /\ from = "waitApi" /\ to = "termWorker"
            \/ k = "worker" /\ from = "waitWorker" /\ to \in {"stopPg", "unlink"}
  <2>1. CASE UpWaitApi(u)
    BY <2>1 DEF UpWaitApi, Kinds, UpPcs, Stopping
  <2>2. CASE UpWaitWorker(u)
    <3> DEFINE force == sup[u].failing
               to == IF force THEN "stopPg" ELSE "unlink"
    <3>1. UpWait(u, "worker", force, "waitWorker", to)
      BY <2>2 DEF UpWaitWorker
    <3>2. force \in BOOLEAN
      BY DEF LauncherIInv, LauncherTypeOK
    <3>3. to \in {"stopPg", "unlink"} /\ to \in UpPcs \ {"idle", "ended"}
      BY <3>2 DEF UpPcs, Stopping
    <3>4. "worker" \in Kinds /\ "waitWorker" \in UpPcs
      BY DEF Kinds, UpPcs, Stopping
    <3> HIDE DEF force, to
    <3> QED
      BY <3>1, <3>2, <3>3, <3>4
  <2> QED
    BY <2>1, <2>2
<1>2. /\ sup[u].alive /\ sup[u].pc = from
      /\ UNCHANGED <<platform, pidFile, stopFile, pg, stop, used>>
  BY <1>1 DEF UpWait, Supervises
<1>3. /\ LauncherTypeOK /\ StageIs(sup[u].pc, child[u])
      /\ \A i \in Kinds : child[u][i] \in Living => pidFile[i] = u \/ u \in stop.unseen
  BY <1>1, <1>2, AtWork
<1>4. CASE Alive(u, k) /\ ~force
  <2>1. sup' = [sup EXCEPT ![u].alive = FALSE] /\ UNCHANGED child
    BY <1>1, <1>4 DEF UpWait
  <2>2. /\ sup' \in [Ups -> [pc : UpPcs, alive : BOOLEAN, asked : BOOLEAN, failing : BOOLEAN]]
        /\ \A w \in Ups : w # u => sup'[w] = sup[w]
        /\ \A w \in Ups : sup'[w].alive => sup'[w].pc \notin {"idle", "ended"}
        /\ sup'[u].pc = from
    <3>1. \A w \in Ups : sup[w].alive => sup[w].pc \notin {"idle", "ended"}
      BY <1>3 DEF LauncherTypeOK
    <3> QED
      BY <1>2, <1>3, <2>1, <3>1, SupervisorTold
  <2>3. LauncherTypeOK'
    BY <1>2, <1>3, <2>1, <2>2 DEF LauncherTypeOK
  <2> QED
    BY <1>1, <1>2, <1>3, <2>1, <2>2, <2>3, SupervisorSteps
<1>5. CASE ~(Alive(u, k) /\ ~force)
  <2>1. sup' = [sup EXCEPT ![u].pc = to] /\ child' = Killed(u, k)
    BY <1>1, <1>5 DEF UpWait, SupervisorAt
  <2>2. /\ sup' \in [Ups -> [pc : UpPcs, alive : BOOLEAN, asked : BOOLEAN, failing : BOOLEAN]]
        /\ \A w \in Ups : w # u => sup'[w] = sup[w]
        /\ \A w \in Ups : sup'[w].alive => sup'[w].pc \notin {"idle", "ended"}
        /\ sup'[u].pc = to
    BY <1>2, <1>3, <2>1, SupervisorMoves
  <2>3. /\ child' \in [Ups -> [Kinds -> {"none", "up", "draining", "dead"}]]
        /\ \A w \in Ups : w # u => child'[w] = child[w]
        /\ \A i \in Kinds : child'[u][i] \in Living => child[u][i] \in Living
        /\ child'[u][k] \notin Living
    BY <1>3, <2>1, ChildTold
  <2>4. StageIs(sup'[u].pc, child'[u])
    BY <1>1, <1>2, <1>3, <2>2, <2>3 DEF StageIs, Kinds
  <2>5. LauncherTypeOK'
    BY <1>2, <1>3, <2>2, <2>3 DEF LauncherTypeOK
  <2> QED
    BY <1>1, <1>2, <1>3, <2>2, <2>3, <2>4, <2>5, UpKeeps
<1> QED
  BY <1>4, <1>5

\* What the supervisor does last.
LEMMA UpLeavesKeeps ==
  ASSUME LauncherIInv, NEW u \in Ups, UpUnlink(u) \/ UpStopPg(u) \/ UpCleanup(u)
  PROVE  LauncherIInv'
<1>1. /\ sup[u].alive /\ sup[u].pc \in {"unlink", "stopPg", "cleanup"}
      /\ UNCHANGED <<platform, child, stop, used>>
  BY DEF UpUnlink, UpStopPg, UpCleanup, Supervises
<1>2. LauncherTypeOK /\ StageIs(sup[u].pc, child[u])
  BY <1>1, AtWork
<1>3. \A k \in Kinds : child[u][k] \notin Living
  BY <1>1, <1>2 DEF StageIs, Kinds, LauncherIInv, Staged
<1>4. End(u) \/ SupervisorAt(u, "stopPg") \/ SupervisorAt(u, "cleanup")
  BY DEF UpUnlink, UpStopPg, UpCleanup
<1>5. {"stopPg", "cleanup"} \subseteq UpPcs \ {"idle", "ended"}
  BY DEF UpPcs, Stopping
<1>6. /\ sup' \in [Ups -> [pc : UpPcs, alive : BOOLEAN, asked : BOOLEAN, failing : BOOLEAN]]
      /\ \A w \in Ups : w # u => sup'[w] = sup[w]
      /\ \A w \in Ups : sup'[w].alive => sup'[w].pc \notin {"idle", "ended"}
      /\ sup'[u].pc # "idle"
  BY <1>1, <1>2, <1>4, <1>5, SupervisorMoves DEF SupervisorAt
<1>7. StageIs(sup'[u].pc, child[u])
  BY <1>3 DEF StageIs, Kinds
<1>8. /\ pidFile' \in [Kinds \union {"launcher"} -> Ups \union {NoPid}]
      /\ \A k \in Kinds : pidFile'[k] \in {pidFile[k], NoPid}
  BY <1>2 DEF LauncherTypeOK, UpUnlink, UpStopPg, UpCleanup, Kinds
<1>9. stopFile' \in BOOLEAN /\ (platform' = "posix" => ~stopFile')
  <2>1. stopFile \in BOOLEAN /\ (platform = "posix" => ~stopFile)
    BY <1>2 DEF LauncherTypeOK
  <2>2. stopFile' = FALSE \/ stopFile' = stopFile
    BY Zenon DEF UpUnlink, UpStopPg, UpCleanup
  <2>3. CASE stopFile' = FALSE
    BY <2>3
  <2>4. CASE stopFile' = stopFile
    BY <1>1, <2>1, <2>4
  <2> QED
    BY <2>2, <2>3, <2>4
<1>10. pg' \in BOOLEAN
  <2>1. pg \in BOOLEAN
    BY <1>2 DEF LauncherTypeOK
  <2> QED
    BY <2>1, Zenon DEF UpUnlink, UpStopPg, UpCleanup
<1>11. LauncherTypeOK'
  BY <1>1, <1>2, <1>6, <1>8, <1>9, <1>10 DEF LauncherTypeOK
<1> QED
  BY <1>1, <1>3, <1>6, <1>7, <1>8, <1>11, UpKeeps

LEMMA UpStartKeeps ==
  ASSUME LauncherIInv, NEW u \in Ups, UpStart(u)
  PROVE  LauncherIInv'
<1>1. /\ LauncherTypeOK /\ Staged /\ InTurn /\ Named /\ NoLostChild
  BY DEF LauncherIInv
<1>2. /\ sup[u].pc = "idle" /\ ~StopRuns
      /\ \A v \in 1..(u - 1) : sup[v].pc # "idle" /\ ~sup[v].alive
      /\ UNCHANGED <<platform, child, stopFile, pg, stop, used>>
  BY DEF UpStart
<1>3. u \in Nat \ {0} /\ \A v \in Ups : v \in Nat \ {0} /\ (v < u => v \in 1..(u - 1))
  BY LauncherBounds DEF Ups
<1>4. /\ sup' \in [Ups -> [pc : UpPcs, alive : BOOLEAN, asked : BOOLEAN, failing : BOOLEAN]]
      /\ \A w \in Ups : w # u => sup'[w] = sup[w]
      /\ sup'[u].pc = "pg"
  <2>1. PICK mid : mid = Shifted(u, "pg")
    OBVIOUS
  <2>2. /\ mid \in [Ups -> [pc : UpPcs, alive : BOOLEAN, asked : BOOLEAN, failing : BOOLEAN]]
        /\ \A w \in Ups : w # u => mid[w] = sup[w]
        /\ mid[u].pc = "pg"
    BY <1>1, <2>1, Moved DEF UpPcs, Startup
  <2>3. sup' = [mid EXCEPT ![u].alive = TRUE]
    BY <2>1 DEF UpStart, Shifted
  <2> QED
    BY <2>2, <2>3
<1>5. \A w \in Ups : sup'[w].alive => sup'[w].pc \notin {"idle", "ended"}
  BY <1>1, <1>4 DEF LauncherTypeOK
<1>6. /\ pidFile' \in [Kinds \union {"launcher"} -> Ups \union {NoPid}]
      /\ \A k \in Kinds : pidFile'[k] = pidFile[k]
  BY <1>1 DEF LauncherTypeOK, UpStart, Kinds
<1>7. LauncherTypeOK'
  BY <1>1, <1>2, <1>4, <1>5, <1>6 DEF LauncherTypeOK
<1>8. Staged'
  BY <1>1, <1>2, <1>4 DEF Staged, StageIs
<1>9. InTurn'
  BY <1>1, <1>2, <1>3, <1>4 DEF InTurn
<1>10. Named'
  <2>1. \A w \in Ups : sup[w].pc # "idle" => sup'[w].pc # "idle"
    BY <1>4
  <2> QED
    BY <1>1, <1>6, <2>1 DEF Named, LauncherTypeOK
<1>11. Searched' /\ Swept'
  BY <1>2 DEF Searched, Swept, StopRuns
<1>12. NoLostChild'
  <2> SUFFICES ASSUME NEW w \in Ups, NEW k \in Kinds, child[w][k] \in Living
               PROVE  \/ pidFile'[k] = w
                      \/ sup'[w].pc = (IF k = "api" THEN "recordApi" ELSE "recordWorker")
                      \/ Overtaken(w)' \/ w \in stop.unseen
    BY <1>2 DEF NoLostChild, Alive, Living, Recorded
  <2>1. w # u
    BY <1>1, <1>2 DEF Staged, StageIs, Kinds
  <2>2. \/ pidFile[k] = w
        \/ sup[w].pc = (IF k = "api" THEN "recordApi" ELSE "recordWorker")
        \/ Overtaken(w) \/ w \in stop.unseen
    BY <1>1 DEF NoLostChild, Alive, Living, Recorded
  <2>3. Overtaken(w) => Overtaken(w)'
    BY <1>2, <1>4 DEF Overtaken
  <2> QED
    BY <1>4, <1>6, <2>1, <2>2, <2>3
<1> QED
  BY <1>7, <1>8, <1>9, <1>10, <1>11, <1>12 DEF LauncherIInv

LEMMA ChildEndsKeeps ==
  ASSUME LauncherIInv, NEW u \in Ups, NEW k \in Kinds, ChildDrained(u, k) \/ ChildCrashes(u, k)
  PROVE  LauncherIInv'
<1>1. /\ LauncherTypeOK /\ Named /\ Searched /\ Swept
  BY DEF LauncherIInv
<1>2. /\ child' = [child EXCEPT ![u][k] = "dead"]
      /\ UNCHANGED <<platform, sup, pidFile, stopFile, pg, stop>>
  BY DEF ChildDrained, ChildCrashes
<1>3. /\ child' \in [Ups -> [Kinds -> {"none", "up", "draining", "dead"}]]
      /\ \A w \in Ups, i \in Kinds : child'[w][i] \in Living => child[w][i] \in Living
  BY <1>1, <1>2 DEF LauncherTypeOK, Living
<1>4. used' \in [stops : 0..MaxStops, crashes : 0..MaxKills]
  BY <1>1, LauncherBounds DEF LauncherTypeOK, ChildDrained, ChildCrashes
<1>5. LauncherTypeOK'
  BY <1>1, <1>2, <1>3, <1>4 DEF LauncherTypeOK
<1>6. Named' /\ Searched' /\ Swept'
  BY <1>1, <1>2 DEF Named, Searched, Swept, StopRuns
<1> QED
  BY <1>2, <1>3, <1>5, <1>6, EndingKeeps

LEMMA StopBeginKeeps ==
  ASSUME LauncherIInv, NEW force \in BOOLEAN, StopBegin(force)
  PROVE  LauncherIInv'
<1>1. LauncherTypeOK /\ Named
  BY DEF LauncherIInv
<1>2. PICK u \in Ups \union {NoPid} : u = pidFile["launcher"]
  BY <1>1 DEF LauncherTypeOK
<1> DEFINE found == u # NoPid /\ sup[u].alive
           unseen == stop.unseen \union {v \in Ups : sup[v].alive /\ v # u}
<1>3. found \in BOOLEAN
  OBVIOUS
<1>4. unseen \in SUBSET Ups /\ stop.unseen \subseteq unseen
  BY <1>1 DEF LauncherTypeOK
<1>5. \A v \in Ups : sup[v].alive => v \in unseen \/ (v = u /\ found)
  BY LauncherBounds DEF Ups, NoPid
<1>6. /\ stop' = [pc |-> IF found THEN "waitLauncher" ELSE "termApi", force |-> force,
                  target |-> IF found THEN u ELSE NoPid, unseen |-> unseen]
      /\ stopFile' = (stopFile \/ (found /\ Windows))
      /\ sup' = IF found /\ ~Windows THEN Terminated(u) ELSE sup
      /\ used' = [used EXCEPT !.stops = used.stops + 1] /\ used.stops < MaxStops
      /\ UNCHANGED <<platform, child, pidFile, pg>>
  BY <1>2 DEF StopBegin
<1>7. found => u \in Ups
  OBVIOUS
<1> HIDE DEF unseen, found
<1>8. /\ stop' \in [pc : StopPcs, force : BOOLEAN, target : Ups \union {NoPid},
                  unseen : SUBSET Ups]
      /\ stop'.unseen = unseen
      /\ stop'.pc = IF found THEN "waitLauncher" ELSE "termApi"
      /\ stop'.target = IF found THEN u ELSE NoPid
  <2>1. {"waitLauncher", "termApi"} \subseteq StopPcs
    BY DEF StopPcs
  <2>2. CASE found
    BY <1>4, <1>6, <1>7, <2>1, <2>2
  <2>3. CASE ~found
    BY <1>4, <1>6, <2>1, <2>3
  <2> QED
    BY <1>3, <2>2, <2>3
<1>9. /\ sup' \in [Ups -> [pc : UpPcs, alive : BOOLEAN, asked : BOOLEAN, failing : BOOLEAN]]
      /\ \A w \in Ups : sup'[w].pc = sup[w].pc /\ (sup'[w].alive => sup[w].alive)
  <2>1. CASE sup' = sup
    BY <1>1, <2>1 DEF LauncherTypeOK
  <2>2. CASE found /\ sup' = Terminated(u)
    <3>1. u \in Ups
      BY <1>7, <2>2
    <3>2. \/ sup' = [sup EXCEPT ![u].asked = TRUE]
          \/ sup' = [sup EXCEPT ![u].alive = FALSE]
      BY <2>2 DEF Terminated
    <3> QED
      BY <1>1, <3>1, <3>2, SupervisorTold
  <2> QED
    BY <1>6, <2>1, <2>2, Zenon
<1>10. \A w \in Ups : sup'[w].alive => sup'[w].pc \notin {"idle", "ended"}
  BY <1>1, <1>9 DEF LauncherTypeOK
<1>11. used' \in [stops : 0..MaxStops, crashes : 0..MaxKills]
  BY <1>1, <1>6, LauncherBounds DEF LauncherTypeOK
<1>12. stopFile' \in BOOLEAN /\ (platform' = "posix" => ~stopFile')
  <2>1. stopFile \in BOOLEAN /\ (platform = "posix" => ~stopFile)
    BY <1>1 DEF LauncherTypeOK
  <2>2. platform = "posix" => ~Windows
    BY DEF Windows
  <2> QED
    BY <1>6, <2>1, <2>2, Zenon
<1>13. LauncherTypeOK'
  BY <1>1, <1>6, <1>8, <1>9, <1>10, <1>11, <1>12 DEF LauncherTypeOK
<1>14. Named'
  BY <1>1, <1>6, <1>9 DEF Named, LauncherTypeOK, Kinds
<1>15. Searched'
  BY <1>3, <1>5, <1>7, <1>8, <1>9 DEF Searched
<1>16. Swept'
  BY <1>8 DEF Swept
<1> QED
  BY <1>4, <1>6, <1>8, <1>9, <1>13, <1>14, <1>15, <1>16, EndingKeeps

LEMMA NamedStays ==
  ASSUME Named, LauncherTypeOK, \A u \in Ups : sup'[u].pc = sup[u].pc,
         \A k \in Kinds : pidFile'[k] \in {pidFile[k], NoPid}
  PROVE  Named'
<1>1. \A k \in Kinds : pidFile[k] \in Ups \union {NoPid}
  BY DEF LauncherTypeOK
<1> QED
  BY <1>1 DEF Named

\* The stop command is past the supervisor, or gives up.
LEMMA StopWaitsLauncherKeeps ==
  ASSUME LauncherIInv, StopWaitsLauncher
  PROVE  LauncherIInv'
<1>1. LauncherTypeOK /\ Named /\ Searched /\ Swept
  BY DEF LauncherIInv
<1>2. stop.pc = "waitLauncher" /\ UNCHANGED <<platform, pg, used>>
  BY DEF StopWaitsLauncher
<1>3. PICK t \in Ups : t = stop.target
  BY <1>1, <1>2 DEF Searched
<1>4. /\ \A u \in Ups : sup[u].alive => u \in stop.unseen \/ u = t
      /\ StopRuns
  BY <1>1, <1>2, <1>3 DEF Searched, StopRuns
<1>5. {"error", "ok", "termApi"} \subseteq StopPcs
  BY DEF StopPcs
<1>6. CASE sup[t].alive /\ ~stop.force
  <2>1. /\ stop' = [stop EXCEPT !.pc = "error"]
        /\ UNCHANGED <<sup, child, pidFile, stopFile>>
    BY <1>3, <1>6 DEF StopWaitsLauncher
  <2>2. /\ stop' \in [pc : StopPcs, force : BOOLEAN, target : Ups \union {NoPid},
                    unseen : SUBSET Ups]
        /\ stop'.pc = "error" /\ stop'.unseen = stop.unseen
    BY <1>1, <1>5, <2>1 DEF LauncherTypeOK
  <2>3. LauncherTypeOK'
    BY <1>1, <1>2, <2>1, <2>2 DEF LauncherTypeOK
  <2>4. Named' /\ Searched' /\ Swept'
    BY <1>1, <2>1, <2>2 DEF Named, Searched, Swept, StopRuns
  <2> QED
    BY <2>1, <2>2, <2>3, <2>4, EndingKeeps
<1>7. CASE ~(sup[t].alive /\ ~stop.force)
  <2>1. /\ sup' = [sup EXCEPT ![t].alive = FALSE]
        /\ child' = IF sup[t].alive THEN KilledTree(t) ELSE child
        /\ SupervisorGone(child')
    BY <1>3, <1>7 DEF StopWaitsLauncher
  <2>2. /\ sup' \in [Ups -> [pc : UpPcs, alive : BOOLEAN, asked : BOOLEAN, failing : BOOLEAN]]
        /\ \A w \in Ups : sup'[w].pc = sup[w].pc /\ (sup'[w].alive => sup[w].alive /\ w # t)
    BY <1>1, <2>1, SupervisorTold
  <2>3. \A w \in Ups : sup'[w].alive => sup'[w].pc \notin {"idle", "ended"}
    BY <1>1, <2>2 DEF LauncherTypeOK
  <2>4. /\ child' \in [Ups -> [Kinds -> {"none", "up", "draining", "dead"}]]
        /\ \A w \in Ups, k \in Kinds : child'[w][k] \in Living => child[w][k] \in Living
    <3>1. CASE child' = child
      BY <1>1, <3>1 DEF LauncherTypeOK
    <3>2. CASE child' = [child EXCEPT ![t] = [k \in Kinds |->
                            IF child[t][k] = "none" THEN "none" ELSE "dead"]]
      BY <1>1, <3>2 DEF LauncherTypeOK, Living
    <3> QED
      BY <2>1, <3>1, <3>2 DEF KilledTree
  <2>5. /\ stop' \in [pc : StopPcs, force : BOOLEAN, target : Ups \union {NoPid},
                    unseen : SUBSET Ups]
        /\ stop'.pc \in {"ok", "termApi"} /\ stop'.unseen = stop.unseen
    <3>1. \/ stop' = [stop EXCEPT !.pc = "ok"]
          \/ stop' = [stop EXCEPT !.pc = "termApi"]
      BY <2>1 DEF SupervisorGone
    <3> QED
      BY <1>1, <1>5, <3>1 DEF LauncherTypeOK
  <2>6. /\ pidFile' \in [Kinds \union {"launcher"} -> Ups \union {NoPid}]
        /\ \A k \in Kinds : pidFile'[k] \in {pidFile[k], NoPid}
        /\ \A w \in Ups, k \in Kinds :
              child'[w][k] \in Living /\ pidFile[k] = w => pidFile'[k] = w
    <3>1. CASE Leftovers(child') = {}
      <4>1. pidFile' = [f \in Kinds \union {"launcher"} |-> NoPid]
        BY <1>1, <2>1, <3>1 DEF SupervisorGone, LauncherTypeOK
      <4>2. \A w \in Ups, k \in Kinds : child'[w][k] \in Living => pidFile[k] # w
        BY <3>1, LauncherBounds DEF Leftovers, Living, Ups, NoPid
      <4> QED
        BY <4>1, <4>2
    <3>2. CASE Leftovers(child') # {}
      <4>1. pidFile' = [pidFile EXCEPT !["launcher"] = NoPid]
        BY <2>1, <3>2 DEF SupervisorGone
      <4> QED
        BY <1>1, <4>1 DEF LauncherTypeOK, Kinds
    <3> QED
      BY <3>1, <3>2
  <2>7. stopFile' = FALSE
    BY <2>1 DEF SupervisorGone
  <2>8. LauncherTypeOK'
    BY <1>1, <1>2, <2>2, <2>3, <2>4, <2>5, <2>6, <2>7 DEF LauncherTypeOK
  <2>9. Named'
    BY <1>1, <2>2, <2>6, NamedStays
  <2>10. Searched' /\ Swept'
    BY <1>4, <2>2, <2>5 DEF Searched, Swept
  <2> QED
    BY <2>2, <2>4, <2>5, <2>6, <2>8, <2>9, <2>10, EndingKeeps
<1> QED
  BY <1>6, <1>7

LEMMA StopStopsPgKeeps ==
  ASSUME LauncherIInv, StopStopsPg
  PROVE  LauncherIInv'
<1>1. LauncherTypeOK /\ Named
  BY DEF LauncherIInv
<1>2. /\ stop' = [stop EXCEPT !.pc = "ok"] /\ pg' = FALSE
      /\ pidFile' = [pidFile EXCEPT !["launcher"] = NoPid]
      /\ UNCHANGED <<platform, sup, child, stopFile, used>>
  BY DEF StopStopsPg
<1>3. /\ stop' \in [pc : StopPcs, force : BOOLEAN, target : Ups \union {NoPid},
                  unseen : SUBSET Ups]
      /\ stop'.pc = "ok" /\ stop'.unseen = stop.unseen
  BY <1>1, <1>2 DEF LauncherTypeOK, StopPcs
<1>4. /\ pidFile' \in [Kinds \union {"launcher"} -> Ups \union {NoPid}]
      /\ \A k \in Kinds : pidFile'[k] = pidFile[k]
  BY <1>1, <1>2 DEF LauncherTypeOK, Kinds
<1>5. LauncherTypeOK'
  BY <1>1, <1>2, <1>3, <1>4 DEF LauncherTypeOK
<1>6. Named'
  BY <1>1, <1>2, <1>4, NamedStays
<1>7. Searched' /\ Swept'
  BY <1>3 DEF Searched, Swept, StopRuns
<1> QED
  BY <1>2, <1>3, <1>4, <1>5, <1>6, <1>7, EndingKeeps

LEMMA StopTermKeeps ==
  ASSUME LauncherIInv, StopTermApi \/ StopTermWorker
  PROVE  LauncherIInv'
<1>1. LauncherTypeOK /\ Named /\ Searched /\ Swept
  BY DEF LauncherIInv
<1>2. PICK k \in Kinds, force \in BOOLEAN, from \in StopPcs, wait \in StopPcs, next \in StopPcs :
        /\ StopTerm(k, force, from, wait, next)
        /\ \/ k = "api" /\ from = "termApi" /\ wait = "waitApi" /\ next = "termWorker"
           \/ k = "worker" /\ from = "termWorker" /\ wait = "waitWorker" /\ next = "stopPg"
  <2>1. {"termApi", "waitApi", "termWorker", "waitWorker", "stopPg"} \subseteq StopPcs
        /\ "api" \in Kinds /\ "worker" \in Kinds
    BY DEF StopPcs, Kinds
  <2>2. CASE StopTermApi
    BY <2>1, <2>2 DEF StopTermApi
  <2>3. CASE StopTermWorker
    <3>1. PICK force \in BOOLEAN : force = stop.force
      BY <1>1 DEF LauncherTypeOK
    <3> QED
      BY <2>1, <2>3, <3>1 DEF StopTermWorker
  <2> QED
    BY <2>2, <2>3
<1>3. stop.pc = from /\ UNCHANGED <<platform, sup, stopFile, pg, used>>
  BY <1>2 DEF StopTerm
<1>4. \A v \in Ups : sup[v].alive => v \in stop.unseen
  BY <1>1, <1>2, <1>3 DEF Searched, StopRuns
<1>5. PICK u \in Ups \union {NoPid} : u = pidFile[k]
  BY <1>1 DEF LauncherTypeOK
<1>6. u \in Ups => u # NoPid
  BY LauncherBounds DEF Ups, NoPid
<1>7. CASE u = NoPid \/ ~Alive(u, k) \/ (Windows /\ force)
  <2>1. /\ child' = IF u = NoPid THEN child ELSE Killed(u, k)
        /\ pidFile' = [pidFile EXCEPT ![k] = NoPid]
        /\ stop' = [stop EXCEPT !.pc = next, !.target = NoPid]
    BY <1>2, <1>5, <1>7 DEF StopTerm
  <2>2. /\ stop' \in [pc : StopPcs, force : BOOLEAN, target : Ups \union {NoPid},
                    unseen : SUBSET Ups]
        /\ stop'.pc = next /\ stop'.unseen = stop.unseen
    BY <1>1, <2>1 DEF LauncherTypeOK
  <2>3. /\ pidFile' \in [Kinds \union {"launcher"} -> Ups \union {NoPid}]
        /\ \A i \in Kinds : pidFile'[i] = IF i = k THEN NoPid ELSE pidFile[i]
    BY <1>1, <2>1 DEF LauncherTypeOK
  <2>4. /\ child' \in [Ups -> [Kinds -> {"none", "up", "draining", "dead"}]]
        /\ \A w \in Ups, i \in Kinds : child'[w][i] \in Living =>
              child[w][i] \in Living /\ ~(w = u /\ i = k)
    <3>1. CASE u = NoPid
      BY <1>1, <1>6, <2>1, <3>1 DEF LauncherTypeOK
    <3>2. CASE u \in Ups
      <4>1. child' = Killed(u, k)
        BY <1>6, <2>1, <3>2
      <4> QED
        BY <1>1, <3>2, <4>1, ChildTold
    <3> QED
      BY <3>1, <3>2
  <2>5. LauncherTypeOK'
    BY <1>1, <1>3, <2>2, <2>3, <2>4 DEF LauncherTypeOK
  <2>6. Named'
    BY <1>1, <1>3, <2>3, NamedStays
  <2>7. Searched'
    BY <1>2, <1>3, <1>4, <2>2 DEF Searched
  <2>8. Swept'
    BY <1>1, <1>2, <1>3, <2>2, <2>3 DEF Swept, Kinds
  <2> QED
    BY <1>3, <1>5, <2>2, <2>3, <2>4, <2>5, <2>6, <2>7, <2>8, EndingKeeps
<1>8. CASE ~(u = NoPid \/ ~Alive(u, k) \/ (Windows /\ force))
  <2>1. /\ child' = IF Windows THEN child ELSE Signalled(u, k)
        /\ stop' = [stop EXCEPT !.pc = wait, !.target = u]
        /\ UNCHANGED pidFile
    BY <1>2, <1>5, <1>8 DEF StopTerm
  <2>2. u \in Ups
    BY <1>8
  <2>3. /\ stop' \in [pc : StopPcs, force : BOOLEAN, target : Ups \union {NoPid},
                    unseen : SUBSET Ups]
        /\ stop'.pc = wait /\ stop'.unseen = stop.unseen /\ stop'.target = u
    BY <1>1, <2>1 DEF LauncherTypeOK
  <2>4. /\ child' \in [Ups -> [Kinds -> {"none", "up", "draining", "dead"}]]
        /\ \A w \in Ups, i \in Kinds : child'[w][i] \in Living => child[w][i] \in Living
    <3>1. CASE child' = child
      BY <1>1, <3>1 DEF LauncherTypeOK
    <3>2. CASE child' = Signalled(u, k)
      BY <1>1, <2>2, <3>2, ChildTold
    <3> QED
      BY <2>1, <3>1, <3>2
  <2>5. LauncherTypeOK'
    BY <1>1, <1>3, <2>1, <2>3, <2>4 DEF LauncherTypeOK
  <2>6. Named'
    BY <1>1, <1>3, <2>1, NamedStays
  <2>7. Searched'
    BY <1>2, <1>3, <1>4, <2>2, <2>3 DEF Searched
  <2>8. Swept'
    BY <1>1, <1>2, <1>3, <1>5, <2>1, <2>3 DEF Swept
  <2> QED
    BY <1>3, <2>1, <2>3, <2>4, <2>5, <2>6, <2>7, <2>8, EndingKeeps
<1> QED
  BY <1>7, <1>8

LEMMA StopWaitKeeps ==
  ASSUME LauncherIInv, StopWaitApi \/ StopWaitWorker
  PROVE  LauncherIInv'
<1>1. LauncherTypeOK /\ Named /\ Searched /\ Swept
  BY DEF LauncherIInv
<1>2. PICK k \in Kinds, force \in BOOLEAN, from \in StopPcs, next \in StopPcs :
        /\ StopWait(k, force, from, next)
        /\ \/ k = "api" /\ from = "waitApi" /\ next = "termWorker"
           \/ k = "worker" /\ from = "waitWorker" /\ next = "stopPg"
  <2>1. {"waitApi", "termWorker", "waitWorker", "stopPg"} \subseteq StopPcs
        /\ "api" \in Kinds /\ "worker" \in Kinds
    BY DEF StopPcs, Kinds
  <2>2. CASE StopWaitApi
    BY <2>1, <2>2 DEF StopWaitApi
  <2>3. CASE StopWaitWorker
    <3>1. PICK force \in BOOLEAN : force = stop.force
      BY <1>1 DEF LauncherTypeOK
    <3> QED
      BY <2>1, <2>3, <3>1 DEF StopWaitWorker
  <2> QED
    BY <2>2, <2>3
<1>3. stop.pc = from /\ UNCHANGED <<platform, sup, stopFile, pg, used>>
  BY <1>2 DEF StopWait
<1>4. \A v \in Ups : sup[v].alive => v \in stop.unseen
  BY <1>1, <1>2, <1>3 DEF Searched, StopRuns
<1>5. PICK t \in Ups : t = stop.target
  BY <1>1, <1>2, <1>3 DEF Searched
<1>6. pidFile[k] \in {NoPid, t} \union stop.unseen
  BY <1>1, <1>2, <1>3, <1>5 DEF Swept
<1>7. CASE Alive(t, k) /\ ~force
  <2>1. stop' = [stop EXCEPT !.pc = "error"] /\ UNCHANGED <<child, pidFile>>
    BY <1>2, <1>5, <1>7 DEF StopWait
  <2>2. /\ stop' \in [pc : StopPcs, force : BOOLEAN, target : Ups \union {NoPid},
                    unseen : SUBSET Ups]
        /\ stop'.pc = "error" /\ stop'.unseen = stop.unseen
    BY <1>1, <2>1 DEF LauncherTypeOK, StopPcs
  <2>3. LauncherTypeOK'
    BY <1>1, <1>3, <2>1, <2>2 DEF LauncherTypeOK
  <2>4. Named' /\ Searched' /\ Swept'
    BY <1>1, <1>3, <2>1, <2>2 DEF Named, Searched, Swept, StopRuns
  <2> QED
    BY <1>3, <2>1, <2>2, <2>3, <2>4, EndingKeeps
<1>8. CASE ~(Alive(t, k) /\ ~force)
  <2>1. /\ child' = Killed(t, k)
        /\ pidFile' = [pidFile EXCEPT ![k] = NoPid]
        /\ stop' = [stop EXCEPT !.pc = next]
    BY <1>2, <1>5, <1>8 DEF StopWait
  <2>2. /\ stop' \in [pc : StopPcs, force : BOOLEAN, target : Ups \union {NoPid},
                    unseen : SUBSET Ups]
        /\ stop'.pc = next /\ stop'.unseen = stop.unseen
    BY <1>1, <2>1 DEF LauncherTypeOK
  <2>3. /\ pidFile' \in [Kinds \union {"launcher"} -> Ups \union {NoPid}]
        /\ \A i \in Kinds : pidFile'[i] = IF i = k THEN NoPid ELSE pidFile[i]
    BY <1>1, <2>1 DEF LauncherTypeOK
  <2>4. /\ child' \in [Ups -> [Kinds -> {"none", "up", "draining", "dead"}]]
        /\ \A w \in Ups : w # t => child'[w] = child[w]
        /\ \A i \in Kinds : child'[t][i] \in Living => child[t][i] \in Living
        /\ child'[t][k] \notin Living
    BY <1>1, <2>1, ChildTold
  <2>5. \A w \in Ups, i \in Kinds : child'[w][i] \in Living =>
          /\ child[w][i] \in Living
          /\ pidFile[i] = w => pidFile'[i] = w \/ w \in stop'.unseen
    BY <1>6, <2>2, <2>3, <2>4, LauncherBounds DEF Ups, NoPid
  <2>6. LauncherTypeOK'
    BY <1>1, <1>3, <2>2, <2>3, <2>4 DEF LauncherTypeOK
  <2>7. Named'
    BY <1>1, <1>3, <2>3, NamedStays
  <2>8. Searched'
    BY <1>2, <1>3, <1>4, <2>2 DEF Searched
  <2>9. Swept'
    BY <1>1, <1>2, <1>3, <2>2, <2>3 DEF Swept, Kinds
  <2> QED
    BY <1>3, <2>2, <2>5, <2>6, <2>7, <2>8, <2>9, EndingKeeps
<1> QED
  BY <1>7, <1>8

LEMMA LauncherKept == LauncherIInv /\ [LauncherNext]_launcherVars => LauncherIInv'
<1> SUFFICES ASSUME LauncherIInv, [LauncherNext]_launcherVars PROVE LauncherIInv'
  OBVIOUS
<1>1. CASE \E u \in Ups : UpStart(u)
  BY <1>1, UpStartKeeps
<1>2. CASE \E u \in Ups : UpStep(u)
  BY <1>2, UpPgKeeps, SpawnKeeps, RecordKeeps, WatchKeeps, UpTermKeeps, UpWaitKeeps,
     UpLeavesKeeps DEF UpStep
<1>3. CASE \E u \in Ups : Interrupt(u)
  BY <1>3, WatchKeeps
<1>4. CASE \E u \in Ups, k \in Kinds : ChildDrained(u, k) \/ ChildCrashes(u, k)
  BY <1>4, ChildEndsKeeps
<1>5. CASE \E force \in BOOLEAN : StopBegin(force)
  BY <1>5, StopBeginKeeps
<1>6. CASE StopStep
  BY <1>6, StopWaitsLauncherKeeps, StopTermKeeps, StopWaitKeeps, StopStopsPgKeeps DEF StopStep
<1>7. CASE UNCHANGED launcherVars
  <2>1. UNCHANGED <<platform, sup, child, pidFile, stopFile, pg, stop, used>>
    BY <1>7 DEF launcherVars
  <2>2. LauncherTypeOK' /\ Named' /\ Searched' /\ Swept'
    BY <2>1 DEF LauncherIInv, LauncherTypeOK, Named, Searched, Swept, StopRuns
  <2> QED
    BY <2>1, <2>2, EndingKeeps
<1> QED
  BY <1>1, <1>2, <1>3, <1>4, <1>5, <1>6, <1>7 DEF LauncherNext

LEMMA LauncherBegins == LauncherInit => LauncherIInv
<1> SUFFICES ASSUME LauncherInit PROVE LauncherIInv
  OBVIOUS
<1>1. /\ \A u \in Ups : sup[u].pc = "idle" /\ ~sup[u].alive
      /\ \A u \in Ups, k \in Kinds : child[u][k] = "none"
      /\ \A k \in Kinds : pidFile[k] = NoPid
      /\ stop.pc = "idle"
  BY DEF LauncherInit
<1>2. LauncherTypeOK
  <2>1. sup \in [Ups -> [pc : UpPcs, alive : BOOLEAN, asked : BOOLEAN, failing : BOOLEAN]]
    BY DEF LauncherInit, UpPcs
  <2>2. child \in [Ups -> [Kinds -> {"none", "up", "draining", "dead"}]]
    BY DEF LauncherInit
  <2>3. pidFile \in [Kinds \union {"launcher"} -> Ups \union {NoPid}]
    BY DEF LauncherInit
  <2>4. stop \in [pc : StopPcs, force : BOOLEAN, target : Ups \union {NoPid}, unseen : SUBSET Ups]
    BY DEF LauncherInit, StopPcs
  <2>5. used \in [stops : 0..MaxStops, crashes : 0..MaxKills]
    BY LauncherBounds DEF LauncherInit
  <2>6. /\ platform \in {"posix", "windows"} /\ stopFile \in BOOLEAN /\ pg \in BOOLEAN
        /\ platform = "posix" => ~stopFile
    BY DEF LauncherInit
  <2> QED
    BY <1>1, <2>1, <2>2, <2>3, <2>4, <2>5, <2>6 DEF LauncherTypeOK
<1>3. Staged /\ NoLostChild
  BY <1>1 DEF Staged, StageIs, Living, Kinds, NoLostChild, Alive
<1>4. InTurn /\ Named /\ Searched /\ Swept
  BY <1>1 DEF InTurn, Named, Searched, Swept, StopRuns
<1> QED
  BY <1>2, <1>3, <1>4 DEF LauncherIInv

\* Who stops PostgreSQL: a supervisor without children, or a stop command at its end.
LEMMA PgStops ==
  ASSUME LauncherIInv, [LauncherNext]_launcherVars, pg, ~pg'
  PROVE  \/ \E u \in Ups : sup[u].alive /\ sup[u].pc \in {"pg", "schema", "stopPg"}
         \/ stop.pc = "stopPg"
<1>1. CASE \E u \in Ups : UpStep(u)
  <2>1. PICK u \in Ups : UpStep(u)
    BY <1>1
  <2>2. ~UpFails(u)
    <3>1. UpFails(u) => (pg' = pg \/ pg' = (pg \/ sup[u].pc = "pg"))
      BY Zenon DEF UpFails
    <3> QED
      BY <3>1, Zenon
  <2>3. UpPg(u) \/ UpSchema(u) \/ UpStopPg(u)
    BY <2>1, <2>2, Zenon DEF UpStep, UpSpawnApi, UpSpawnWorker, UpRecordApi, UpRecordWorker, Spawn,
       Record, UpHandlers, UpSeesStop, UpSeesExit, UpTermApi, UpTermWorker, UpTerm, UpWaitApi,
       UpWaitWorker, UpWait, UpUnlink, UpCleanup
  <2> QED
    BY <2>3 DEF UpPg, UpSchema, UpStopPg, Supervises
<1>2. CASE \E u \in Ups : UpStart(u) \/ Interrupt(u)
  BY <1>2, Zenon DEF UpStart, Interrupt
<1>3. CASE \E u \in Ups, k \in Kinds : ChildDrained(u, k) \/ ChildCrashes(u, k)
  BY <1>3, Zenon DEF ChildDrained, ChildCrashes
<1>4. CASE \E force \in BOOLEAN : StopBegin(force)
  BY <1>4, Zenon DEF StopBegin
<1>5. CASE StopStep
  <2>1. StopStopsPg
    BY <1>5, Zenon DEF StopStep, StopWaitsLauncher, StopTermApi, StopTermWorker, StopTerm,
       StopWaitApi, StopWaitWorker, StopWait
  <2> QED
    BY <2>1 DEF StopStopsPg
<1>6. CASE UNCHANGED launcherVars
  BY <1>6, Zenon DEF launcherVars
<1> QED
  BY <1>1, <1>2, <1>3, <1>4, <1>5, <1>6 DEF LauncherNext

LEMMA PgLast ==
  ASSUME LauncherIInv, [LauncherNext]_launcherVars, pg, ~pg'
  PROVE  \A u \in Ups, k \in Kinds :
            Alive(u, k) /\ Recorded(u, k) => u \in stop.unseen \/ Overtaken(u)
<1>1. /\ LauncherTypeOK /\ Staged /\ InTurn /\ Named /\ Swept
  BY DEF LauncherIInv
<1> SUFFICES ASSUME NEW w \in Ups, NEW k \in Kinds, Alive(w, k), Recorded(w, k)
             PROVE  w \in stop.unseen \/ Overtaken(w)
  OBVIOUS
<1>2. child[w][k] \in Living /\ pidFile[k] = w /\ w \in Nat \ {0}
  BY LauncherBounds DEF Alive, Living, Recorded, Ups
<1>3. sup[w].pc # "idle"
  BY <1>1, <1>2 DEF Named, NoPid
<1>4. CASE \E u \in Ups : sup[u].alive /\ sup[u].pc \in {"pg", "schema", "stopPg"}
  <2>1. PICK u \in Ups : sup[u].alive /\ sup[u].pc \in {"pg", "schema", "stopPg"}
    BY <1>4
  <2>2. u # w
    BY <1>1, <1>2, <2>1 DEF Staged, StageIs, Kinds
  <2>3. ~(u < w)
    BY <1>1, <1>3, <2>1 DEF InTurn
  <2>4. w < u
    BY <1>2, <2>2, <2>3 DEF Ups
  <2> QED
    BY <2>1, <2>4 DEF Overtaken
<1>5. CASE stop.pc = "stopPg"
  BY <1>1, <1>2, <1>5 DEF Swept, Kinds, NoPid
<1> QED
  BY <1>4, <1>5, PgStops

\* Whatever `up`, `stop`, kills of the supervisor and exits of its children do, a live
\* API or worker process has a pid file by which a later `stop` finds it, but for the
\* three cases NoLostChild names (command_up, command_stop).
THEOREM LauncherIsSafe == LauncherSpec => []LauncherInv
<1>1. LauncherIInv => LauncherInv
  BY DEF LauncherIInv, LauncherInv
<1> QED
  BY <1>1, LauncherBegins, LauncherKept, PTL DEF LauncherSpec

\* No step of `up` or `stop` stops the metadata PostgreSQL while a child that a pid file
\* names is alive, but for supervisors a stop command could not find and children a later
\* `up` was started over (command_pg_stop and its callers).
THEOREM PostgresGoesLast == LauncherSpec => PgOutlivesChildren
<1>1. LauncherIInv /\ [LauncherNext]_launcherVars =>
        [pg /\ ~pg' => \A u \in Ups, k \in Kinds :
            Alive(u, k) /\ Recorded(u, k) => u \in stop.unseen \/ Overtaken(u)]_launcherVars
  BY PgLast
<1> QED
  BY <1>1, LauncherBegins, LauncherKept, PTL DEF LauncherSpec, PgOutlivesChildren
=============================================================================
