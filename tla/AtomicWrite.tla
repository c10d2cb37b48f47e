---------------------------- MODULE AtomicWrite -----------------------------
(***************************************************************************)
(* The output transaction of biasweave/_output.py: atomic_write_many and   *)
(* its rollback.                                                           *)
(*                                                                         *)
(* A transaction installs one new file per target.  It stages every        *)
(* payload in a temporary file, moves the targets that exist aside to      *)
(* backups (with force only), links every temporary file to its target,    *)
(* and then discards the backups.  Whatever fails before the last target   *)
(* is installed is rolled back, guided by file identities.                 *)
(*                                                                         *)
(* Other programs, which know nothing of the claims, may replace or remove *)
(* a target between any two file-system calls.  They do not touch the      *)
(* temporary files and the backups, whose names are random.  An exception  *)
(* may arrive between any two calls, in the rollback too, also between the *)
(* creation of a file and its being recorded, and the process may die      *)
(* between any two.  The transaction knows a file by its device and inode, *)
(* which the file system may give to a new file once the old one is gone.  *)
(***************************************************************************)
EXTENDS Integers, FiniteSets

CONSTANTS Count,      \* the number of targets
          None,       \* no file
          MaxForeign, \* bound: what other programs do to the targets
          MaxFaults   \* bound: exceptions and deaths

ASSUME AtomicWriteAssumption ==
    /\ Count \in Nat \ {0}
    /\ MaxForeign \in Nat
    /\ MaxFaults \in Nat

Targets == 1 .. Count

Old(t) == [by |-> "before", number |-> t]
New(t) == [by |-> "transaction", number |-> t]
Foreign(n) == [by |-> "another", number |-> n]

ForeignFiles == {Foreign(n) : n \in 1 .. MaxForeign}
Files == {Old(t) : t \in Targets} \cup {New(t) : t \in Targets} \cup ForeignFiles

ASSUME NoneAssumption == None \notin Files

VARIABLES
    force,     \* whether existing targets may be replaced
    before,    \* the targets that existed when the transaction started
    target,    \* the file at each target
    backup,    \* the file at each backup path
    temps,     \* the targets whose temporary file exists
    reserved,  \* the targets at whose backup path the empty file of mkstemp is
    identity,  \* the (st_dev, st_ino) of each file, named after the first file that had it
    staged,    \* the targets whose temporary file is recorded
    original,  \* the file whose identity each _Backup entry holds, None where there is none
    installed, \* the targets with an _Installed entry
    pc, at,    \* where the transaction is, and at which target
    failing,   \* whether an exception is on its way out
    foreign,   \* how often other programs acted
    displaced, \* the files other programs replaced or removed themselves
    faults

files   == <<target, backup, temps, reserved, identity>>
records == <<staged, original, installed>>
vars    == <<force, before, files, records, pc, at, failing, foreign, displaced, faults>>

Init ==
    /\ force \in BOOLEAN
    /\ before \in SUBSET Targets
    /\ target = [t \in Targets |-> IF t \in before THEN Old(t) ELSE None]
    /\ backup = [t \in Targets |-> None]
    /\ temps = {}
    /\ reserved = {}
    /\ identity = [f \in Files |-> IF \E t \in before : f = Old(t) THEN f ELSE None]
    /\ staged = {}
    /\ original = [t \in Targets |-> None]
    /\ installed = {}
    /\ pc = "preflight"
    /\ at = 1
    /\ failing = FALSE
    /\ foreign = 0
    /\ displaced = {}
    /\ faults = 0

Environment == <<force, before, foreign, displaced, faults>>

Exists(f) == \E t \in Targets : target[t] = f \/ backup[t] = f \/ (t \in temps /\ New(t) = f)

\* A new file gets an identity no file has now: a new one, or that of a file that is gone.
Create(f) ==
    \E i \in ({f} \cup {identity[g] : g \in Files}) \ {None} :
        /\ \A g \in Files : Exists(g) => identity[g] # i
        /\ identity' = [identity EXCEPT ![f] = i]

\* _same_file_identity: there is a file, and it has the identity of that one.
Same(f, g) == f # None /\ g # None /\ identity[f] = identity[g]

\* An exception before the commit point: the rollback starts with the last target.
Fail == pc' = "undo installed" /\ at' = Count /\ failing' = TRUE

\* The next target from here, or, after the last one, the next phase.
NextTarget(here, after) ==
    IF at < Count THEN pc' = here /\ at' = at + 1 ELSE pc' = after /\ at' = 1

(***************************************************************************)
(* preflight_outputs, once every claim is held.                            *)
(***************************************************************************)
Preflight ==
    /\ pc = "preflight"
    /\ pc' = IF force \/ \A t \in Targets : target[t] = None THEN "stage" ELSE "refused"
    /\ UNCHANGED <<Environment, files, records, at, failing>>

CreateTemporary ==
    /\ pc = "stage"
    /\ Create(New(at))
    /\ temps' = temps \cup {at}
    /\ pc' = "staged"
    /\ UNCHANGED <<Environment, target, backup, reserved, records, at, failing>>

RecordTemporary ==
    /\ pc = "staged"
    /\ staged' = staged \cup {at}
    /\ NextTarget("stage", IF force THEN "back up" ELSE "record")
    /\ UNCHANGED <<Environment, files, original, installed, failing>>

(***************************************************************************)
(* Back one target up, if there is one: note its identity, reserve a path  *)
(* for it and free the path again, move it aside, and check that what was  *)
(* moved is what was noted and that the name is free.  The _Backup entry   *)
(* is appended when the path is free: nothing uses the identity before.    *)
(***************************************************************************)
FindTarget ==
    /\ pc = "back up"
    /\ IF target[at] = None THEN NextTarget("back up", "record")
                            ELSE pc' = "note" /\ at' = at
    /\ UNCHANGED <<Environment, files, records, failing>>

NoteOriginal ==
    /\ pc = "note"
    /\ IF target[at] = None
       THEN Fail /\ UNCHANGED original
       ELSE /\ original' = [original EXCEPT ![at] = target[at]]
            /\ pc' = "reserve"
            /\ UNCHANGED <<at, failing>>
    /\ UNCHANGED <<Environment, files, staged, installed>>

Reserve ==
    /\ pc = "reserve"
    /\ reserved' = reserved \cup {at}
    /\ pc' = "free"
    /\ UNCHANGED <<Environment, target, backup, temps, identity, records, at, failing>>

FreeBackupPath ==
    /\ pc = "free"
    /\ reserved' = reserved \ {at}
    /\ pc' = "move"
    /\ UNCHANGED <<Environment, target, backup, temps, identity, records, at, failing>>

MoveAside ==
    /\ pc = "move"
    /\ IF target[at] = None
       THEN Fail /\ UNCHANGED <<target, backup>>
       ELSE /\ backup' = [backup EXCEPT ![at] = target[at]]
            /\ target' = [target EXCEPT ![at] = None]
            /\ pc' = "moved"
            /\ UNCHANGED <<at, failing>>
    /\ UNCHANGED <<Environment, temps, reserved, identity, records>>

\* Mutation: the backup is discarded as soon as its target has been moved aside.
CheckMoved_Discards ==
    /\ pc = "moved"
    /\ IF Same(backup[at], original[at]) /\ target[at] = None
       THEN NextTarget("back up", "record") /\ UNCHANGED failing
       ELSE Fail
    /\ backup' = [backup EXCEPT ![at] = None]
    /\ UNCHANGED <<Environment, target, temps, reserved, identity, records>>

CheckMoved ==
    /\ pc = "moved"
    /\ IF Same(backup[at], original[at]) /\ target[at] = None
       THEN NextTarget("back up", "record") /\ UNCHANGED failing
       ELSE Fail
    /\ UNCHANGED <<Environment, files, records>>

(***************************************************************************)
(* Install one target: record it, link the temporary file to it, which     *)
(* fails if the name is taken, and check what is there now.                *)
(***************************************************************************)
\* Mutation: the target is recorded after it has been linked.
Record_Late ==
    /\ pc = "record"
    /\ pc' = "link"
    /\ installed' = installed \cup {t \in Targets : t < at}
    /\ UNCHANGED <<Environment, files, staged, original, at, failing>>

Record ==
    /\ pc = "record"
    /\ installed' = installed \cup {at}
    /\ pc' = "link"
    /\ UNCHANGED <<Environment, files, staged, original, at, failing>>

\* Mutation: the temporary file is renamed over the target.
Link_Clobbers ==
    /\ pc = "link"
    /\ target' = [target EXCEPT ![at] = New(at)]
    /\ pc' = "linked"
    /\ UNCHANGED <<Environment, backup, temps, reserved, identity, records, at, failing>>

Link ==
    /\ pc = "link"
    /\ IF target[at] # None
       THEN Fail /\ UNCHANGED target
       ELSE /\ target' = [target EXCEPT ![at] = New(at)]
            /\ pc' = "linked"
            /\ UNCHANGED <<at, failing>>
    /\ UNCHANGED <<Environment, backup, temps, reserved, identity, records>>

CheckLinked ==
    /\ pc = "linked"
    /\ IF Same(target[at], New(at))
       THEN NextTarget("record", "clean up") /\ UNCHANGED failing
       ELSE Fail
    /\ UNCHANGED <<Environment, files, records>>

(***************************************************************************)
(* _rollback, first loop: a target that had no backup is unlinked if it is *)
(* still the file this transaction installed.                              *)
(***************************************************************************)
\* After the rollback, the clean-up starts with the first target again.
PreviousBackup ==
    IF at > 1 THEN pc' = "undo backups" /\ at' = at - 1 ELSE pc' = "clean up" /\ at' = 1

PreviousInstalled ==
    IF at > 1 THEN pc' = "undo installed" /\ at' = at - 1 ELSE pc' = "undo backups" /\ at' = Count

CheckInstalled ==
    /\ pc = "undo installed"
    /\ IF at \in installed /\ original[at] = None /\ Same(target[at], New(at))
       THEN pc' = "unlink" /\ at' = at
       ELSE PreviousInstalled
    /\ UNCHANGED <<Environment, files, records, failing>>

Unlink ==
    /\ pc = "unlink"
    /\ target' = [target EXCEPT ![at] = None]
    /\ PreviousInstalled
    /\ UNCHANGED <<Environment, backup, temps, reserved, identity, records, failing>>

(***************************************************************************)
(* _rollback, second loop, and _restore_foreign_backup.  A backup goes     *)
(* back over the file this transaction installed, or to the free name.  If *)
(* the file moved aside was not the one noted, it goes back to the free    *)
(* name.  Otherwise the backup is left where it is.                        *)
(***************************************************************************)
Ours(t) == t \in installed /\ Same(target[t], New(t))

CheckBackup ==
    /\ pc = "undo backups"
    /\ \/ /\ Same(backup[at], original[at]) /\ Ours(at)
          /\ pc' = "replace" /\ at' = at
       \/ /\ backup[at] # None /\ target[at] = None
          /\ pc' = "relink" /\ at' = at
       \/ /\ \/ backup[at] = None
             \/ target[at] # None /\ ~(Same(backup[at], original[at]) /\ Ours(at))
          /\ PreviousBackup
    /\ UNCHANGED <<Environment, files, records, failing>>

ReplaceByBackup ==
    /\ pc = "replace"
    /\ target' = [target EXCEPT ![at] = backup[at]]
    /\ backup' = [backup EXCEPT ![at] = None]
    /\ PreviousBackup
    /\ UNCHANGED <<Environment, temps, reserved, identity, records, failing>>

Relink ==
    /\ pc = "relink"
    /\ IF target[at] = None
       THEN /\ target' = [target EXCEPT ![at] = backup[at]]
            /\ pc' = "relinked" /\ at' = at
       ELSE PreviousBackup /\ UNCHANGED target
    /\ UNCHANGED <<Environment, backup, temps, reserved, identity, records, failing>>

\* A displaced file is dropped from its backup only if the target still is it.
DropBackup ==
    /\ pc = "relinked"
    /\ backup' = [backup EXCEPT ![at] =
                    IF Same(@, original[at]) \/ Same(target[at], @) THEN None ELSE @]
    /\ PreviousBackup
    /\ UNCHANGED <<Environment, target, temps, reserved, identity, records, failing>>

(***************************************************************************)
(* The temporary files that were recorded are removed in any case.  With   *)
(* no exception on its way the transaction is now committed, and discards  *)
(* its backups; a backup that is left makes it raise an error at its end.  *)
(***************************************************************************)
NextRemoval == NextTarget("clean up", IF failing THEN "failed" ELSE "discard")

CleanUp ==
    /\ pc = "clean up"
    /\ temps' = IF at \in staged THEN temps \ {at} ELSE temps
    /\ NextRemoval
    /\ UNCHANGED <<Environment, target, backup, reserved, identity, records, failing>>

NextDiscard ==
    NextTarget("discard", IF \A t \in Targets : backup'[t] = None THEN "committed" ELSE "cut")

Discard ==
    /\ pc = "discard"
    /\ backup' = [backup EXCEPT ![at] = IF Same(@, original[at]) THEN None ELSE @]
    /\ NextDiscard
    /\ UNCHANGED <<Environment, target, temps, reserved, identity, records, failing>>

(***************************************************************************)
(* Exceptions: before the commit point one starts the rollback, in the     *)
(* rollback one ends it, and afterwards one ends the transaction.          *)
(***************************************************************************)
Staging     == {"stage", "staged"}
BackingUp   == {"back up", "note", "reserve", "free", "move", "moved"}
Installing  == {"record", "link", "linked"}
Trying      == Staging \cup BackingUp \cup Installing
Undoing     == {"undo installed", "unlink"}
Restoring   == {"undo backups", "replace", "relink", "relinked"}
RollingBack == Undoing \cup Restoring
Running     == Trying \cup RollingBack \cup {"preflight", "clean up", "discard"}
Ended       == {"refused", "failed", "committed", "cut", "dead"}

Fault == faults < MaxFaults /\ faults' = faults + 1

Interrupt ==
    /\ pc \in Trying
    /\ Fault
    /\ Fail
    /\ UNCHANGED <<force, before, files, records, foreign, displaced>>

InterruptRollback ==
    /\ pc \in RollingBack
    /\ Fault
    /\ pc' = "clean up" /\ at' = 1
    /\ UNCHANGED <<force, before, files, records, failing, foreign, displaced>>

InterruptEnd ==
    /\ pc \in {"clean up", "discard"}
    /\ Fault
    /\ pc' = IF failing THEN "failed" ELSE "cut"
    /\ UNCHANGED <<force, before, files, records, at, failing, foreign, displaced>>

\* A call of the rollback, the clean-up or the discarding fails: the loop goes on without it.
Skip ==
    /\ Fault
    /\ UNCHANGED <<force, before, files, records, failing, foreign, displaced>>
    /\ \/ pc \in Undoing /\ PreviousInstalled
       \/ pc \in Restoring /\ PreviousBackup
       \/ pc = "clean up" /\ NextRemoval
       \/ pc = "discard" /\ NextDiscard

Die ==
    /\ pc \in Running
    /\ Fault
    /\ pc' = IF pc = "discard" THEN "cut" ELSE "dead"
    /\ UNCHANGED <<force, before, files, records, at, failing, foreign, displaced>>

(***************************************************************************)
(* Another program replaces or removes a target while the transaction runs.*)
(***************************************************************************)
ForeignActs(t) ==
    /\ pc \in Running
    /\ foreign < MaxForeign
    /\ foreign' = foreign + 1
    /\ \/ target' = [target EXCEPT ![t] = None] /\ UNCHANGED identity
       \/ target' = [target EXCEPT ![t] = Foreign(foreign + 1)] /\ Create(Foreign(foreign + 1))
    /\ displaced' = displaced \cup ({target[t]} \ {None})
    /\ UNCHANGED <<force, before, backup, temps, reserved, records, pc, at, failing, faults>>

-----------------------------------------------------------------------------
Forward  == Preflight \/ CreateTemporary \/ RecordTemporary
              \/ FindTarget \/ NoteOriginal \/ Reserve \/ FreeBackupPath \/ MoveAside \/ CheckMoved
              \/ Record \/ Link \/ CheckLinked \/ CleanUp \/ Discard

Rollback == CheckInstalled \/ Unlink \/ CheckBackup \/ ReplaceByBackup \/ Relink \/ DropBackup

Next ==
    \/ Forward \/ Rollback
    \/ Interrupt \/ InterruptRollback \/ InterruptEnd \/ Skip \/ Die
    \/ \E t \in Targets : ForeignActs(t)

Spec == Init /\ [][Next]_vars

-----------------------------------------------------------------------------
(* Properties.                                                             *)

TypeOK ==
    /\ force \in BOOLEAN /\ failing \in BOOLEAN
    /\ before \subseteq Targets
    /\ target \in [Targets -> Files \cup {None}]
    /\ backup \in [Targets -> Files \cup {None}]
    /\ identity \in [Files -> Files \cup {None}]
    /\ original \in [Targets -> Files \cup {None}]
    /\ temps \subseteq Targets /\ reserved \subseteq Targets
    /\ staged \subseteq Targets /\ installed \subseteq Targets
    /\ pc \in Running \cup Ended
    /\ at \in Targets
    /\ foreign \in 0 .. MaxForeign /\ faults \in 0 .. MaxFaults
    /\ displaced \subseteq Files

(***************************************************************************)
(* All or nothing.  A transaction nobody else interferes with, which fails *)
(* at any point for one reason, leaves every target as it was, no backup   *)
(* and none of the temporary files it recorded: at most the one file stays *)
(* whose creation was interrupted before it was recorded.  One that gets   *)
(* to the commit point leaves every target new; when it returns no backup  *)
(* is left, and no temporary file but those whose removal failed.          *)
(***************************************************************************)
AllOrNothing ==
    foreign = 0 =>
        /\ (pc \in {"refused", "failed"} /\ faults <= 1) =>
             /\ \A t \in Targets : target[t] = (IF t \in before THEN Old(t) ELSE None)
             /\ \A t \in Targets : backup[t] = None
             /\ staged \cap temps = {}
             /\ \A s, t \in temps \cup reserved : s = t
             /\ temps = {} \/ reserved = {}
        /\ pc \in {"committed", "cut"} => \A t \in Targets : target[t] = New(t)
        /\ pc = "committed" =>
             /\ \A t \in Targets : backup[t] = None
             /\ reserved = {}
             /\ Cardinality(temps) <= faults

(***************************************************************************)
(* Until every target is installed no earlier output is lost: whatever is  *)
(* interrupted, dies or interferes, it is at its name or in a backup, if   *)
(* no other program replaced it.                                           *)
(***************************************************************************)
Committed == ~failing /\ pc \in {"discard", "committed", "cut"}

OriginalsKept ==
    \A t \in before :
        \/ Exists(Old(t))
        \/ Old(t) \in displaced
        \/ Committed

(***************************************************************************)
(* What another program wrote is lost to the transaction in three cases    *)
(* only: it was there when its target was noted, so that force covers it;  *)
(* it has the identity of a file that was noted and that another program   *)
(* removed before it was moved aside; or it came between a comparison of   *)
(* identities, which found the file the transaction had installed, and the *)
(* call that relies on it.                                                 *)
(***************************************************************************)
Lost(f) == Exists(f) /\ ~Exists(f)' /\ f \notin displaced'

LostWithOriginal(f) ==
    \E t \in Targets :
        /\ Same(f, original[t])
        /\ f = original[t] \/ original[t] \in displaced

ReplacementsKept ==
    [][/\ \A f \in ForeignFiles :
            Lost(f) => \/ Committed /\ LostWithOriginal(f)
                       \/ pc \in {"unlink", "replace"} /\ target[at] = f
       /\ pc' \in {"unlink", "replace"} /\ pc' # pc => target'[at'] = New(at')]_vars

(***************************************************************************)
(* README: rollback touches only identities installed by the transaction,  *)
(* so a concurrent replacement is never deleted as cleanup.                *)
(***************************************************************************)
ReplacementNeverDeleted ==
    [][pc \notin RollingBack \/ \A f \in ForeignFiles : ~Lost(f)]_vars
=============================================================================
