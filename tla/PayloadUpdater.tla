--------------------------- MODULE PayloadUpdater ---------------------------
(***************************************************************************)
(* The signed payload updater (updater/core.py): versions/<release_id>,    *)
(* and the three pointer files current.json, pending.json, rollback.json.  *)
(* Every pointer is replaced atomically, but a command replaces several    *)
(* and removes directories between them; the power may fail before any of  *)
(* these steps.  transaction.lock makes a command exclusive (`pc`),        *)
(* runtime.lock is held while the launcher runs.                           *)
(***************************************************************************)
EXTENDS Naturals, FiniteSets

CONSTANTS
    Releases,   \* release ids that packages are signed for
    Builds,     \* contents two packages of one release id may have
    MaxCrashes  \* bound: power failures

\* A release id is a version, and a directory that is gone or torn has no build.
ASSUME UpdaterBounds ==
    /\ MaxCrashes \in Nat
    /\ "base" \notin Releases /\ "none" \notin Releases
    /\ "none" \notin Builds /\ "torn" \notin Builds

VARIABLES
    versions,  \* versions/<release_id>: "none", "torn" or the build in it
    cur,       \* current.json
    pend,      \* pending.json
    rb,        \* rollback.json
    pc,        \* the command under way and its next step
    pkg,       \* the package an install works on: [release, build, prev]
    running,   \* the payload the launcher runs from; it holds runtime.lock
    healthy,   \* releases a health verification has accepted
    crashes

updaterVars == <<versions, cur, pend, rb, pc, pkg, running, healthy, crashes>>

Pointers == Releases \cup {"base"}
NoPend == [prev |-> "none", target |-> "none"]
NoRb == [from |-> "none", to |-> "none"]
NoPkg == [release |-> "none", build |-> "none", prev |-> "none"]

UpdaterInit ==
    /\ versions = [r \in Releases |-> "none"]
    /\ cur = "base" /\ pend = NoPend /\ rb = NoRb
    /\ pc = "idle" /\ pkg = NoPkg
    /\ running = "none" /\ healthy = {} /\ crashes = 0

(* _selection: the directory is there; what is in it is not looked at.     *)
Selectable(p) == p = "base" \/ (p \in Releases /\ versions[p] # "none")

RuntimeFree == running = "none"

(***************************************************************************)
(* install, after _verify_package; a refused package changes nothing.      *)
(***************************************************************************)

\* Mutant of Recoverable: whether the pointer has moved is not looked at.
RecoverableActive(r, b) ==
    /\ Selectable(pend.prev) /\ Selectable(pend.target)
    /\ pend.target = r /\ versions[r] = b

(* _recover_incomplete_pending: an activation that was cut short before    *)
(* the pointer moved may be repeated with the very same package.           *)
Recoverable(r, b) ==
    /\ Selectable(pend.prev) /\ Selectable(pend.target)
    /\ cur = pend.prev /\ pend.target = r /\ versions[r] = b

(* A staged directory may be replaced when neither the active pointer nor  *)
(* the rollback refers to it and its signed metadata is the same.          *)
Replaceable(r, b) ==
    /\ cur # r
    /\ rb # NoRb => Selectable(rb.from) /\ Selectable(rb.to) /\ r \notin {rb.from, rb.to}
    /\ versions[r] = b

InstallBegins(r, b) ==
    /\ pc = "idle" /\ RuntimeFree
    /\ Selectable(cur)
    /\ \/ /\ pend # NoPend /\ Recoverable(r, b)
          /\ pc' = "recover_tear"
       \/ /\ pend = NoPend /\ versions[r] # "none" /\ Replaceable(r, b)
          /\ pc' = "replace_tear"
       \/ /\ pend = NoPend /\ versions[r] = "none"
          /\ pc' = "stage"
    /\ pkg' = [release |-> r, build |-> b, prev |-> cur]
    /\ UNCHANGED <<versions, cur, pend, rb, running, healthy, crashes>>

(* shutil.rmtree: a directory is torn before it is gone.                   *)
TearDown ==
    /\ \/ pc = "recover_tear" /\ pc' = "recover_gone"
       \/ pc = "replace_tear" /\ pc' = "replace_gone"
       \/ pc = "undo_tear" /\ pc' = "undo_gone"
    /\ versions' = [versions EXCEPT ![pkg.release] = "torn"]
    /\ UNCHANGED <<cur, pend, rb, pkg, running, healthy, crashes>>

TornGone ==
    /\ \/ pc = "recover_gone" /\ pc' = "recover_unlink"
       \/ pc = "replace_gone" /\ pc' = "stage"
       \/ pc = "undo_gone" /\ pc' = "undo_unlink"
    /\ versions' = [versions EXCEPT ![pkg.release] = "none"]
    /\ UNCHANGED <<cur, pend, rb, pkg, running, healthy, crashes>>

(* The pending record of the recovered, or of the undone, install.         *)
UnlinkPending ==
    /\ \/ pc = "recover_unlink" /\ pc' = "stage" /\ pkg' = pkg
       \/ pc = "undo_unlink" /\ pc' = "idle" /\ pkg' = NoPkg
    /\ pend' = NoPend
    /\ UNCHANGED <<versions, cur, rb, running, healthy, crashes>>

(* The verified files are extracted beside the versions and moved there in *)
(* one step.                                                               *)
PlaceVersion ==
    /\ pc = "stage"
    /\ versions' = [versions EXCEPT ![pkg.release] = pkg.build]
    /\ pc' = "write_pending"
    /\ UNCHANGED <<cur, pend, rb, pkg, running, healthy, crashes>>

WritePointers ==
    \/ /\ pc = "write_pending" /\ pc' = "write_current"
       /\ pend' = [prev |-> pkg.prev, target |-> pkg.release] /\ UNCHANGED <<cur, pkg>>
    \/ /\ pc = "write_current" /\ pc' = "idle" /\ pkg' = NoPkg
       /\ cur' = pkg.release /\ UNCHANGED pend

InstallWrites ==
    /\ WritePointers
    /\ UNCHANGED <<versions, rb, running, healthy, crashes>>

(* An exception in one of these steps: what was placed is removed again as *)
(* long as the pointer has not moved.                                      *)
InstallFails ==
    /\ pc \in {"stage", "write_pending", "write_current"}
    /\ IF versions[pkg.release] # "none"
       THEN pc' = "undo_tear" /\ pkg' = pkg
       ELSE pc' = "idle" /\ pkg' = NoPkg
    /\ UNCHANGED <<versions, cur, pend, rb, running, healthy, crashes>>

(***************************************************************************)
(* complete: commit or restore after the health probe of the activated     *)
(* payload.  A commit leaves the launcher running.                         *)
(***************************************************************************)
PendingActive == /\ pend # NoPend /\ cur = pend.target
                 /\ Selectable(pend.prev) /\ Selectable(pend.target)

RollbackRecord == [from |-> pend.target, to |-> pend.prev]

CompleteHealthy ==
    \/ /\ pc = "idle" /\ PendingActive
       /\ rb' = RollbackRecord
       /\ healthy' = healthy \cup {pend.target}
       /\ pc' = "commit_unlink"
       /\ UNCHANGED <<versions, cur, pend, pkg, running, crashes>>
    \/ /\ pc = "commit_unlink"
       /\ pend' = NoPend /\ pc' = "idle"
       /\ UNCHANGED <<versions, cur, rb, pkg, running, healthy, crashes>>

CompleteFailed ==
    \/ /\ pc = "idle" /\ RuntimeFree /\ PendingActive
       /\ cur' = pend.prev
       /\ pc' = "restore_unlink"
       /\ UNCHANGED <<versions, pend, rb, pkg, running, healthy, crashes>>
    \/ /\ \/ pc = "restore_unlink"
          \/ /\ pc = "idle" /\ RuntimeFree /\ pend # NoPend /\ cur = pend.prev
             /\ Selectable(pend.prev) /\ Selectable(pend.target)
       /\ pend' = NoPend /\ pc' = "idle"
       /\ UNCHANGED <<versions, cur, rb, pkg, running, healthy, crashes>>

(* rollback consumes the one retained pointer.                             *)
Rollback ==
    \/ /\ pc = "idle" /\ RuntimeFree
       /\ pend = NoPend /\ rb # NoRb /\ cur = rb.from
       /\ Selectable(rb.from) /\ Selectable(rb.to)
       /\ cur' = rb.to
       /\ pc' = "rollback_unlink"
       /\ UNCHANGED <<versions, pend, rb, pkg, running, healthy, crashes>>
    \/ /\ pc = "rollback_unlink"
       /\ rb' = NoRb /\ pc' = "idle"
       /\ UNCHANGED <<versions, cur, pend, pkg, running, healthy, crashes>>

RunLauncher ==
    /\ pc = "idle" /\ RuntimeFree /\ Selectable(cur)
    /\ running' = cur
    /\ UNCHANGED <<versions, cur, pend, rb, pc, pkg, healthy, crashes>>

LauncherEnds ==
    /\ running # "none"
    /\ running' = "none"
    /\ UNCHANGED <<versions, cur, pend, rb, pc, pkg, healthy, crashes>>

PowerFails ==
    /\ crashes < MaxCrashes /\ (pc # "idle" \/ running # "none")
    /\ crashes' = crashes + 1
    /\ pc' = "idle" /\ pkg' = NoPkg /\ running' = "none"
    /\ UNCHANGED <<versions, cur, pend, rb, healthy>>

UpdaterNext ==
    \/ \E r \in Releases, b \in Builds : InstallBegins(r, b)
    \/ TearDown \/ TornGone \/ UnlinkPending \/ PlaceVersion \/ InstallWrites
    \/ InstallFails \/ CompleteHealthy \/ CompleteFailed \/ Rollback
    \/ RunLauncher \/ LauncherEnds \/ PowerFails

UpdaterSpec == UpdaterInit /\ [][UpdaterNext]_updaterVars

-----------------------------------------------------------------------------

UpdaterTypeOK ==
    /\ versions \in [Releases -> Builds \cup {"none", "torn"}]
    /\ cur \in Pointers /\ running \in Pointers \cup {"none"}
    /\ pend = NoPend \/ pend \in [prev : Pointers, target : Releases]
    /\ rb = NoRb \/ rb \in [from : Releases, to : Pointers]

Intact(p) == p = "base" \/ versions[p] \in Builds

(* Whatever the updater was doing when the power failed, the active        *)
(* pointer leads to a whole payload, and the launcher's payload is not     *)
(* taken away under it (the order of the writes in _install_unlocked, and  *)
(* runtime.lock).                                                          *)
AlwaysBootable ==
    /\ Intact(cur)
    /\ running # "none" => Intact(running)

(* As long as the active payload is the one the retained rollback starts   *)
(* from, both payloads it names are whole, so it can be used               *)
(* (_rollback_references).                                                 *)
RollbackIntact == rb # NoRb /\ cur = rb.from => Intact(rb.from) /\ Intact(rb.to)

(* A payload that no health verification has accepted is active only while *)
(* it is pending, so it can still be taken back (pending.json is written   *)
(* before current.json, and removed after it).                             *)
UnverifiedIsPending ==
    cur # "base" /\ cur \notin healthy => pend # NoPend /\ pend.target = cur

(* An activated update can be decided either way: what it came from and    *)
(* what it leads to are whole (complete reads both).                       *)
ActivationDecidable ==
    pend # NoPend /\ cur = pend.target => Intact(pend.prev) /\ Intact(pend.target)

(* Wherever an update or a rollback is cut off, the next start can decide   *)
(* what to do with it: the pointer names a payload that is there, an        *)
(* activation found half done can be told from one that was not begun, and  *)
(* the way back is intact (_install_unlocked, complete, rollback,           *)
(* _recover_incomplete_pending).                                            *)
UpdaterInv ==
    /\ UpdaterTypeOK
    /\ ActivationDecidable
    /\ AlwaysBootable
    /\ RollbackIntact
    /\ UnverifiedIsPending
=============================================================================
