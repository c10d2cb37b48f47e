------------------------- MODULE AtomicWrite_proofs -------------------------
(***************************************************************************)
(* Proofs about the output transaction, for any number of targets, any     *)
(* number of faults and whatever other programs do to the targets.         *)
(*                                                                         *)
(* The inductive invariant has two halves.  The first holds in any company *)
(* and says where a file may be overwritten, only where nothing is or      *)
(* where the transaction compared identities just before; which files      *)
(* exist that no record names; and that no two files there are have one    *)
(* identity, although the identity of a file that is gone may come back.   *)
(* The second says how far each target has come when nobody else           *)
(* interferes, on the way forward and on the way back.                     *)
(***************************************************************************)
EXTENDS AtomicWrite, FiniteSetTheorems, TLAPS

\* What was at a target when the transaction started.
Before(t) == IF t \in before THEN Old(t) ELSE None

(***************************************************************************)
(* A target is moved aside to a backup path that is free, a target that is *)
(* about to be unlinked or replaced is no earlier output, and a backup is  *)
(* dropped after it went back to its name.                                 *)
(***************************************************************************)
PlacesInv ==
    /\ pc \in {"preflight"} \cup Staging => \A t \in Targets : backup[t] = None
    /\ pc \in BackingUp \ {"moved"} => \A t \in Targets : t >= at => backup[t] = None
    /\ pc = "moved" => \A t \in Targets : t > at => backup[t] = None
    /\ pc \in {"unlink", "replace"} => \A t \in Targets : target[at] # Old(t)
    /\ pc = "relinked" =>
         backup[at] = None \/ target[at] = backup[at] \/ backup[at] \in displaced

\* The commit point is reached with every target installed.
CommitInv ==
    /\ pc \in Trying \cup {"preflight"} => ~failing
    /\ pc \in RollingBack => failing
    /\ pc = "record" => \A t \in Targets : t < at => t \in installed
    /\ pc \in {"link", "linked"} => \A t \in Targets : t <= at => t \in installed
    /\ pc = "clean up" /\ ~failing => installed = Targets
    /\ pc = "discard" => ~failing /\ installed = Targets
    /\ pc = "committed" => ~failing

(***************************************************************************)
(* What is recorded exists until the clean-up, and at most one file exists *)
(* that is not: the one that is being created, or whose creation was       *)
(* interrupted.                                                            *)
(***************************************************************************)
OneStray ==
    \/ temps \subseteq staged /\ \E t \in Targets : reserved \subseteq {t}
    \/ reserved = {} /\ \E t \in Targets : temps \ staged \subseteq {t}

NoStray == temps \subseteq staged /\ reserved = {}

TempsInv ==
    /\ installed \subseteq staged
    /\ pc \in {"preflight", "refused"} => staged = {}
    /\ pc \in {"preflight"} \cup Trying \cup RollingBack => staged \subseteq temps
    /\ pc \in {"preflight"} \cup Staging => \A t \in Targets : t < at => t \in staged
    /\ pc \in BackingUp \cup Installing => staged = Targets
    /\ pc = "staged" => at \in temps /\ temps \ staged \subseteq {at} /\ reserved = {}
    /\ pc = "free" => temps \subseteq staged /\ reserved \subseteq {at}
    /\ pc \in ({"preflight"} \cup Trying) \ {"staged", "free"} => NoStray
    /\ pc \in {"clean up", "discard", "committed"} /\ ~failing => NoStray
    /\ OneStray

\* Of the temporary files that the clean-up has passed only those are left whose removal failed.
Passed == {t \in temps : t \in staged /\ t < at}

RemovalInv ==
    /\ pc = "clean up" => Cardinality(Passed) <= faults
    /\ pc \in {"discard", "committed"} => Cardinality(temps) <= faults

(***************************************************************************)
(* No two files there are have one identity, and a file that was noted     *)
(* stays at its target or in its backup, until it is discarded, if no      *)
(* other program removes it.                                               *)
(***************************************************************************)
IdentityInv ==
    /\ \A f, g \in Files : Exists(f) /\ Exists(g) /\ identity[f] = identity[g] => f = g
    /\ \A f \in Files : Exists(f) => identity[f] # None
    /\ \A t \in Targets : original[t] # None => identity[original[t]] # None

NotedIsKept(t) ==
    \/ original[t] \in displaced \cup {None}
    \/ target[t] = original[t]
    \/ backup[t] = original[t]

NotedInv ==
    /\ pc \in {"preflight"} \cup Staging => \A t \in Targets : original[t] = None
    /\ pc \in BackingUp \cup Installing => \A t \in Targets : NotedIsKept(t)
    /\ pc = "clean up" /\ ~failing => \A t \in Targets : NotedIsKept(t)
    /\ pc = "discard" => \A t \in Targets : t >= at => NotedIsKept(t)

-----------------------------------------------------------------------------
(* How far a target has come, when nobody else interferes.                 *)

Untouched(t) == target[t] = Before(t) /\ backup[t] = None /\ original[t] = None

MovedAside(t) == target[t] = None /\ backup[t] = Before(t) /\ original[t] = Before(t)

Installed(t) == target[t] = New(t) /\ backup[t] = Before(t) /\ original[t] = Before(t)

Restored(t) ==
    target[t] = Before(t) /\ backup[t] = None /\ original[t] \in {None, Before(t)}

Recoverable(t) ==
    \/ Restored(t)
    \/ MovedAside(t)
    \/ Installed(t) /\ t \in installed

\* The way forward.
ForwardInv ==
    /\ pc \in {"preflight"} \cup Staging => \A t \in Targets : Untouched(t)
    /\ pc \in Staging /\ ~force => before = {}
    /\ pc \in BackingUp =>
         \A t \in Targets : /\ t < at => MovedAside(t)
                            /\ t > at => Untouched(t)
    /\ pc = "back up" => Untouched(at)
    /\ pc = "note" => at \in before /\ Untouched(at)
    /\ pc \in {"reserve", "free", "move"} =>
         at \in before /\ Restored(at) /\ original[at] = Before(at)
    /\ pc = "moved" => at \in before /\ MovedAside(at)
    /\ pc \in Installing =>
         \A t \in Targets : /\ t < at => Installed(t)
                            /\ t > at => MovedAside(t)
    /\ pc \in {"record", "link"} => MovedAside(at)
    /\ pc = "linked" => Installed(at)
    /\ pc = "clean up" /\ ~failing => \A t \in Targets : Installed(t)
    /\ pc \in {"discard", "committed", "cut"} => \A t \in Targets : target[t] = New(t)
    /\ pc = "committed" => \A t \in Targets : backup[t] = None
    /\ pc = "refused" => \A t \in Targets : Untouched(t)

\* The way back, after one fault: first the targets without a backup, then the rest.
Unwound(t) == target[t] = New(t) => original[t] # None

BackwardInv ==
    /\ pc \in RollingBack \ {"relinked"} => \A t \in Targets : Recoverable(t)
    /\ pc \in {"undo installed", "unlink"} => \A t \in Targets : t > at => Unwound(t)
    /\ pc = "unlink" => target[at] = New(at) /\ original[at] = None
    /\ pc \in {"undo backups", "replace", "relink", "relinked"} =>
         \A t \in Targets : /\ t > at => Restored(t)
                            /\ t < at => Recoverable(t) /\ Unwound(t)
    /\ pc \in {"undo backups", "replace", "relink"} => Unwound(at)
    /\ pc = "replace" => Installed(at) /\ backup[at] # None
    /\ pc = "relink" => MovedAside(at) /\ backup[at] # None
    /\ pc = "relinked" =>
         target[at] = Before(at) /\ backup[at] = Before(at) /\ original[at] = Before(at)
    /\ pc = "clean up" /\ failing => Passed = {} /\ \A t \in Targets : Restored(t)
    /\ pc = "failed" => staged \cap temps = {} /\ \A t \in Targets : Restored(t)

\* Nothing but a fault makes a transaction fail that is alone.
FailureInv ==
    /\ failing => faults >= 1
    /\ pc = "failed" => failing

\* No file takes over the identity of another: none that had one is gone when one is created.
OwnIdentityInv ==
    /\ \A f \in Files : identity[f] \in {f, None}
    /\ pc \in {"preflight"} \cup Staging => \A f \in Files : identity[f] # None => Exists(f)

AloneInv ==
    foreign = 0 => OwnIdentityInv /\ ForwardInv /\ FailureInv /\ (faults <= 1 => BackwardInv)

SafetyInv ==
    TypeOK /\ PlacesInv /\ CommitInv /\ TempsInv /\ RemovalInv /\ IdentityInv /\ NotedInv

IInv == SafetyInv /\ AloneInv
-----------------------------------------------------------------------------
(* Files and steps.                                                        *)

USE AtomicWriteAssumption DEF Targets, Staging, BackingUp, Installing, Undoing, Restoring

\* The files of before and of the transaction differ from each other and from none.
LEMMA FileFacts ==
    ASSUME NEW s \in Targets, NEW t \in Targets
    PROVE  /\ Old(t) \in Files /\ New(t) \in Files
           /\ Old(t) # None /\ New(t) # None
           /\ Old(s) # New(t) /\ Before(s) # New(t)
           /\ Old(s) = Old(t) => s = t
           /\ New(s) = New(t) => s = t
           /\ Before(t) \in Files \cup {None}
           /\ Before(t) # None => t \in before
<1>1. Old(t) \in Files /\ New(t) \in Files
  BY DEF Files
<1>2. /\ Old(s) # New(t)
      /\ Old(s) = Old(t) => s = t
      /\ New(s) = New(t) => s = t
  BY DEF Old, New
<1> QED  BY <1>1, <1>2, NoneAssumption DEF Before

\* A file of another program is none of the transaction's or of before.
LEMMA ForeignFacts ==
    ASSUME NEW t \in Targets, NEW f \in ForeignFiles
    PROVE  f \in Files /\ f # None /\ f # Old(t) /\ f # New(t)
<1>1. f \in Files
  BY DEF Files
<1>2. f # Old(t) /\ f # New(t)
  BY DEF ForeignFiles, Foreign, Old, New
<1> QED  BY <1>1, <1>2, NoneAssumption

LEMMA ForeignNext ==
    ASSUME TypeOK, foreign < MaxForeign
    PROVE  Foreign(foreign + 1) \in ForeignFiles /\ foreign + 1 \in 0 .. MaxForeign
BY DEF TypeOK, ForeignFiles

\* The identity a new file gets is of no file there is.
LEMMA CreateFacts ==
    ASSUME TypeOK, NEW f \in Files, Create(f)
    PROVE  \E i \in Files :
              /\ identity' = [identity EXCEPT ![f] = i]
              /\ \A g \in Files : Exists(g) => identity[g] # i
              /\ i = f \/ \E g \in Files : i = identity[g]
<1>1. PICK i \in ({f} \cup {identity[g] : g \in Files}) \ {None} :
           /\ \A g \in Files : Exists(g) => identity[g] # i
           /\ identity' = [identity EXCEPT ![f] = i]
  BY Zenon DEF Create
<1>2. i = f \/ \E g \in Files : i = identity[g]
  BY <1>1
<1>3. i \in Files
  BY <1>1, <1>2 DEF TypeOK
<1> QED  BY <1>1, <1>2, <1>3

LEMMA CreateType ==
    ASSUME TypeOK, NEW f \in Files, Create(f)
    PROVE  identity' \in [Files -> Files \cup {None}]
<1>1. PICK i \in Files : identity' = [identity EXCEPT ![f] = i]
  BY CreateFacts
<1>2. identity \in [Files -> Files \cup {None}]
  BY DEF TypeOK
<1> QED  BY <1>1, <1>2

\* Which targets come before and after the one a loop goes on with.
Onward  == \A t \in Targets : (t < at' <=> t <= at) /\ (t >= at' <=> t > at)
Rewound == \A t \in Targets : t <= at /\ t >= at'
Back    == \A t \in Targets : (t > at' <=> t >= at) /\ (t <= at' <=> t < at)
AtLast  == \A t \in Targets : t <= at'
AtFirst == \A t \in Targets : t >= at' /\ ~(t < at')

LEMMA FirstTarget ==
    ASSUME at' = 1
    PROVE  at' \in Targets /\ AtFirst
<1>1. at' \in Targets
  OBVIOUS
<1>2. ASSUME NEW t \in Targets PROVE t >= 1 /\ ~(t < 1)
  OBVIOUS
<1> QED  BY <1>1, <1>2 DEF AtFirst

LEMMA LastTargets ==
    ASSUME at \in Targets
    PROVE  /\ at' = at - 1 /\ at > 1 => at' \in Targets /\ Back
           /\ at' = Count => at' \in Targets /\ AtLast
           /\ ~(at > 1) => \A t \in Targets : t >= at
<1>1. ASSUME at' = at - 1, at > 1 PROVE at' \in Targets /\ Back
  <2>1. at' \in Targets
    BY <1>1
  <2>2. ASSUME NEW t \in Targets
        PROVE  (t > at' <=> t >= at) /\ (t <= at' <=> t < at)
    BY <1>1
  <2> QED  BY <2>1, <2>2 DEF Back
<1>2. ASSUME at' = Count PROVE at' \in Targets /\ AtLast
  <2>1. at' \in Targets
    BY <1>2
  <2>2. ASSUME NEW t \in Targets PROVE t <= at'
    BY <1>2
  <2> QED  BY <2>1, <2>2 DEF AtLast
<1>3. ASSUME ~(at > 1), NEW t \in Targets PROVE t >= at
  BY <1>3
<1> QED  BY <1>1, <1>2, <1>3

LEMMA NextTargetStep ==
    ASSUME at \in Targets, NEW here, NEW after, NextTarget(here, after)
    PROVE  /\ at' \in Targets
           /\ (pc' = here /\ Onward) \/ (pc' = after /\ Rewound /\ AtFirst)
<1>1. CASE at < Count
  BY <1>1 DEF NextTarget, Onward
<1>2. CASE ~(at < Count)
  <2>1. pc' = after /\ at' = 1
    BY <1>2, Zenon DEF NextTarget
  <2>2. at' \in Targets /\ Rewound /\ AtFirst
    BY <1>2, <2>1 DEF Rewound, AtFirst
  <2> QED  BY <2>1, <2>2
<1> QED  BY <1>1, <1>2

LEMMA PreviousInstalledStep ==
    ASSUME at \in Targets, PreviousInstalled
    PROVE  /\ at' \in Targets
           /\ \/ pc' = "undo installed" /\ Back
              \/ pc' = "undo backups" /\ AtLast /\ \A t \in Targets : t >= at
<1>1. CASE at > 1
  <2>1. pc' = "undo installed" /\ at' = at - 1
    BY <1>1, Zenon DEF PreviousInstalled
  <2>2. at' \in Targets /\ Back
    BY <1>1, <2>1, LastTargets
  <2> QED  BY <2>1, <2>2
<1>2. CASE ~(at > 1)
  <2>1. pc' = "undo backups" /\ at' = Count
    BY <1>2, Zenon DEF PreviousInstalled
  <2>2. at' \in Targets /\ AtLast /\ \A t \in Targets : t >= at
    BY <1>2, <2>1, LastTargets
  <2> QED  BY <2>1, <2>2
<1> QED  BY <1>1, <1>2

LEMMA PreviousBackupStep ==
    ASSUME at \in Targets, PreviousBackup
    PROVE  /\ at' \in Targets
           /\ \/ pc' = "undo backups" /\ Back
              \/ pc' = "clean up" /\ AtFirst /\ \A t \in Targets : t >= at
<1>1. CASE at > 1
  <2>1. pc' = "undo backups" /\ at' = at - 1
    BY <1>1, Zenon DEF PreviousBackup
  <2>2. at' \in Targets /\ Back
    BY <1>1, <2>1, LastTargets
  <2> QED  BY <2>1, <2>2
<1>2. CASE ~(at > 1)
  <2>1. pc' = "clean up" /\ at' = 1
    BY <1>2, Zenon DEF PreviousBackup
  <2>2. at' \in Targets /\ AtFirst
    BY <2>1, FirstTarget
  <2>3. \A t \in Targets : t >= at
    BY <1>2
  <2> QED  BY <2>1, <2>2, <2>3
<1> QED  BY <1>1, <1>2

\* A rollback starts with the last target.
LEMMA FailStep ==
    ASSUME Fail
    PROVE  at' \in Targets /\ pc' = "undo installed" /\ failing' = TRUE /\ AtLast
<1>1. at' = Count /\ pc' = "undo installed" /\ failing' = TRUE
  BY Zenon DEF Fail
<1>2. Count \in Targets /\ \A t \in Targets : t <= Count
  OBVIOUS
<1> QED  BY <1>1, <1>2, Zenon DEF AtLast

LEMMA Order ==
    ASSUME NEW i \in Targets, NEW t \in Targets
    PROVE  /\ t < i \/ t = i \/ t > i
           /\ t <= i <=> t < i \/ t = i
           /\ t >= i <=> t > i \/ t = i
           /\ ~(t < i /\ t >= i) /\ ~(t > i /\ t <= i)
OBVIOUS

\* Where each step leads to.
LEMMA ForwardPositions ==
    ASSUME at \in Targets, Forward
    PROVE  /\ at' \in Targets
           /\ Preflight => pc' \in {"stage", "refused"} /\ at' = at /\ UNCHANGED failing
           /\ CreateTemporary => pc' = "staged" /\ at' = at /\ UNCHANGED failing
           /\ RecordTemporary =>
                /\ UNCHANGED failing
                /\ \/ pc' = "stage" /\ Onward
                   \/ pc' \in {"back up", "record"} /\ Rewound /\ AtFirst
           /\ FindTarget =>
                /\ UNCHANGED failing
                /\ \/ pc' = "note" /\ at' = at
                   \/ pc' = "back up" /\ Onward
                   \/ pc' = "record" /\ Rewound /\ AtFirst
           /\ NoteOriginal =>
                \/ pc' = "reserve" /\ at' = at /\ UNCHANGED failing
                \/ pc' = "undo installed" /\ failing' = TRUE /\ AtLast
           /\ Reserve => pc' = "free" /\ at' = at /\ UNCHANGED failing
           /\ FreeBackupPath => pc' = "move" /\ at' = at /\ UNCHANGED failing
           /\ MoveAside =>
                \/ pc' = "moved" /\ at' = at /\ UNCHANGED failing
                \/ pc' = "undo installed" /\ failing' = TRUE /\ AtLast
           /\ CheckMoved =>
                \/ pc' = "back up" /\ Onward /\ UNCHANGED failing
                \/ pc' = "record" /\ Rewound /\ AtFirst /\ UNCHANGED failing
                \/ pc' = "undo installed" /\ failing' = TRUE /\ AtLast
           /\ Record => pc' = "link" /\ at' = at /\ UNCHANGED failing
           /\ Link =>
                \/ pc' = "linked" /\ at' = at /\ UNCHANGED failing
                \/ pc' = "undo installed" /\ failing' = TRUE /\ AtLast
           /\ CheckLinked =>
                \/ pc' = "record" /\ Onward /\ UNCHANGED failing
                \/ pc' = "clean up" /\ Rewound /\ AtFirst /\ UNCHANGED failing
                \/ pc' = "undo installed" /\ failing' = TRUE /\ AtLast
           /\ CleanUp =>
                /\ UNCHANGED failing
                /\ \/ pc' = "clean up" /\ Onward
                   \/ pc' = "failed" /\ failing /\ Rewound
                   \/ pc' = "discard" /\ ~failing /\ Rewound /\ AtFirst
           /\ Discard =>
                /\ UNCHANGED failing
                /\ \/ pc' = "discard" /\ Onward
                   \/ pc' \in {"committed", "cut"} /\ Rewound
<1>1. ASSUME Preflight
      PROVE  pc' \in {"stage", "refused"} /\ at' = at /\ UNCHANGED failing
  BY <1>1 DEF Preflight
<1>2. ASSUME CreateTemporary PROVE pc' = "staged" /\ at' = at /\ UNCHANGED failing
  BY <1>2 DEF CreateTemporary
<1>3. ASSUME RecordTemporary
      PROVE  /\ at' \in Targets /\ UNCHANGED failing
             /\ \/ pc' = "stage" /\ Onward
                \/ pc' \in {"back up", "record"} /\ Rewound /\ AtFirst
  BY <1>3, NextTargetStep DEF RecordTemporary
<1>4. ASSUME FindTarget
      PROVE  /\ at' \in Targets /\ UNCHANGED failing
             /\ \/ pc' = "note" /\ at' = at
                \/ pc' = "back up" /\ Onward
                \/ pc' = "record" /\ Rewound /\ AtFirst
  BY <1>4, NextTargetStep DEF FindTarget
<1>5. ASSUME NoteOriginal
      PROVE  /\ at' \in Targets
             /\ \/ pc' = "reserve" /\ at' = at /\ UNCHANGED failing
                \/ pc' = "undo installed" /\ failing' = TRUE /\ AtLast
  BY <1>5, FailStep, Zenon DEF NoteOriginal
<1>6. ASSUME Reserve PROVE pc' = "free" /\ at' = at /\ UNCHANGED failing
  BY <1>6 DEF Reserve
<1>7. ASSUME FreeBackupPath PROVE pc' = "move" /\ at' = at /\ UNCHANGED failing
  BY <1>7 DEF FreeBackupPath
<1>8. ASSUME MoveAside
      PROVE  /\ at' \in Targets
             /\ \/ pc' = "moved" /\ at' = at /\ UNCHANGED failing
                \/ pc' = "undo installed" /\ failing' = TRUE /\ AtLast
  BY <1>8, FailStep, Zenon DEF MoveAside
<1>9. ASSUME CheckMoved
      PROVE  /\ at' \in Targets
             /\ \/ pc' = "back up" /\ Onward /\ UNCHANGED failing
                \/ pc' = "record" /\ Rewound /\ AtFirst /\ UNCHANGED failing
                \/ pc' = "undo installed" /\ failing' = TRUE /\ AtLast
  BY <1>9, NextTargetStep, FailStep, Zenon DEF CheckMoved
<1>10. ASSUME Record PROVE pc' = "link" /\ at' = at /\ UNCHANGED failing
  BY <1>10 DEF Record
<1>11. ASSUME Link
       PROVE  /\ at' \in Targets
              /\ \/ pc' = "linked" /\ at' = at /\ UNCHANGED failing
                 \/ pc' = "undo installed" /\ failing' = TRUE /\ AtLast
  BY <1>11, FailStep, Zenon DEF Link
<1>12. ASSUME CheckLinked
       PROVE  /\ at' \in Targets
              /\ \/ pc' = "record" /\ Onward /\ UNCHANGED failing
                 \/ pc' = "clean up" /\ Rewound /\ AtFirst /\ UNCHANGED failing
                 \/ pc' = "undo installed" /\ failing' = TRUE /\ AtLast
  BY <1>12, NextTargetStep, FailStep, Zenon DEF CheckLinked
<1>13. ASSUME CleanUp
       PROVE  /\ at' \in Targets /\ UNCHANGED failing
              /\ \/ pc' = "clean up" /\ Onward
                 \/ pc' = "failed" /\ failing /\ Rewound
                 \/ pc' = "discard" /\ ~failing /\ Rewound /\ AtFirst
  BY <1>13, NextTargetStep, Zenon DEF CleanUp, NextRemoval
<1>14. ASSUME Discard
       PROVE  /\ at' \in Targets /\ UNCHANGED failing
              /\ \/ pc' = "discard" /\ Onward
                 \/ pc' \in {"committed", "cut"} /\ Rewound
  BY <1>14, NextTargetStep DEF Discard, NextDiscard
<1>15. at' \in Targets
  BY <1>1, <1>2, <1>3, <1>4, <1>5, <1>6, <1>7, <1>8, <1>9, <1>10, <1>11, <1>12, <1>13, <1>14,
     Zenon DEF Forward
<1> QED
  BY <1>1, <1>2, <1>3, <1>4, <1>5, <1>6, <1>7, <1>8, <1>9, <1>10, <1>11, <1>12, <1>13, <1>14,
     <1>15, Zenon

\* A rollback goes on to its end, and the exception it follows is not forgotten.
LEMMA RollbackPositions ==
    ASSUME at \in Targets, Rollback
    PROVE  /\ at' \in Targets /\ pc \in RollingBack /\ UNCHANGED failing
           /\ CheckInstalled \/ Unlink =>
                \/ pc' = "unlink" /\ at' = at
                \/ pc' = "undo installed" /\ Back
                \/ pc' = "undo backups" /\ AtLast
           /\ CheckBackup \/ Relink \/ ReplaceByBackup \/ DropBackup =>
                \/ pc' \in {"replace", "relink", "relinked"} /\ at' = at
                \/ pc' = "undo backups" /\ Back
                \/ pc' = "clean up" /\ AtFirst
<1>1. ASSUME CheckInstalled \/ Unlink
      PROVE  /\ at' \in Targets /\ pc \in RollingBack /\ UNCHANGED failing
             /\ \/ pc' = "unlink" /\ at' = at
                \/ pc' = "undo installed" /\ Back
                \/ pc' = "undo backups" /\ AtLast
  BY <1>1, PreviousInstalledStep DEF CheckInstalled, Unlink, RollingBack
<1>2. ASSUME CheckBackup \/ Relink \/ ReplaceByBackup \/ DropBackup
      PROVE  /\ at' \in Targets /\ pc \in RollingBack /\ UNCHANGED failing
             /\ \/ pc' \in {"replace", "relink", "relinked"} /\ at' = at
                \/ pc' = "undo backups" /\ Back
                \/ pc' = "clean up" /\ AtFirst
  <2>1. CASE CheckBackup
    BY <2>1, PreviousBackupStep DEF CheckBackup, RollingBack
  <2>2. CASE Relink
    BY <2>2, PreviousBackupStep DEF Relink, RollingBack
  <2>3. CASE ReplaceByBackup \/ DropBackup
    BY <2>3, PreviousBackupStep DEF ReplaceByBackup, DropBackup, RollingBack
  <2> QED  BY <1>2, <2>1, <2>2, <2>3
<1> QED  BY <1>1, <1>2, Zenon DEF Rollback

\* An exception or a death only moves the transaction.
FaultStep == Interrupt \/ InterruptRollback \/ InterruptEnd \/ Skip \/ Die

LEMMA FaultPositions ==
    ASSUME TypeOK, FaultStep
    PROVE  /\ UNCHANGED <<force, before, files, records, foreign, displaced>>
           /\ at' \in Targets /\ faults' = faults + 1 /\ faults' \in 0 .. MaxFaults
           /\ \/ pc \in Trying /\ pc' = "undo installed" /\ failing' = TRUE /\ AtLast
              \/ /\ pc \in RollingBack /\ UNCHANGED failing
                 /\ \/ pc' = "undo installed" /\ Back
                    \/ pc' = "undo backups"
                    \/ pc' = "clean up" /\ AtFirst
              \/ /\ pc = "clean up" /\ UNCHANGED failing
                 /\ \/ pc' = "clean up" /\ Onward
                    \/ pc' = "failed" /\ failing
                    \/ pc' = "discard" /\ ~failing /\ Rewound /\ AtFirst
                    \/ pc' = "cut" /\ ~failing
              \/ /\ pc = "discard" /\ UNCHANGED failing
                 /\ \/ pc' = "discard" /\ Onward
                    \/ pc' = "committed" /\ \A t \in Targets : backup'[t] = None
                    \/ pc' = "cut"
                    \/ pc' = "failed" /\ failing
              \/ pc \in Running \ {"discard"} /\ pc' = "dead" /\ UNCHANGED failing
<1>1. at \in Targets
  BY DEF TypeOK
<1>2. faults' = faults + 1 /\ faults' \in 0 .. MaxFaults
  <2>1. Fault
    BY Zenon DEF FaultStep, Interrupt, InterruptRollback, InterruptEnd, Skip, Die
  <2> QED  BY <2>1 DEF Fault, TypeOK
<1>3. CASE Interrupt
  BY <1>2, <1>3, FailStep, Zenon DEF Interrupt
<1>4. CASE InterruptRollback
  <2>1. /\ pc \in RollingBack /\ pc' = "clean up" /\ at' = 1
        /\ UNCHANGED <<force, before, files, records, failing, foreign, displaced>>
    BY <1>4, Zenon DEF InterruptRollback
  <2>2. at' \in Targets /\ AtFirst
    BY <2>1, FirstTarget
  <2> QED  BY <1>2, <2>1, <2>2, Zenon
<1>5. CASE InterruptEnd
  <2>1. /\ pc \in {"clean up", "discard"} /\ at' \in Targets
        /\ (pc' = "failed" /\ failing) \/ (pc' = "cut" /\ ~failing)
        /\ UNCHANGED <<force, before, files, records, failing, foreign, displaced>>
    BY <1>1, <1>5, Zenon DEF InterruptEnd
  <2>2. pc = "clean up" \/ pc = "discard"
    BY <2>1
  <2> QED  BY <1>2, <2>1, <2>2, Zenon
<1>6. CASE Skip
  <2>1. UNCHANGED <<force, before, files, records, failing, foreign, displaced>>
    BY <1>6 DEF Skip
  <2>2. CASE pc \in Undoing /\ PreviousInstalled
    <3>1. pc \in RollingBack
      BY <2>2 DEF RollingBack
    <3> QED  BY <1>1, <1>2, <2>1, <2>2, <3>1, PreviousInstalledStep, Zenon
  <2>3. CASE pc \in Restoring /\ PreviousBackup
    <3>1. pc \in RollingBack
      BY <2>3 DEF RollingBack
    <3> QED  BY <1>1, <1>2, <2>1, <2>3, <3>1, PreviousBackupStep, Zenon
  <2>4. CASE pc = "clean up" /\ NextRemoval
    BY <1>1, <1>2, <2>1, <2>4, NextTargetStep, Zenon DEF NextRemoval
  <2>5. CASE pc = "discard" /\ NextDiscard
    BY <1>1, <1>2, <2>1, <2>5, NextTargetStep, Zenon DEF NextDiscard
  <2> QED  BY <1>6, <2>2, <2>3, <2>4, <2>5, Zenon DEF Skip
<1>7. CASE Die
  <2>1. /\ pc \in Running /\ at' \in Targets
        /\ pc' = IF pc = "discard" THEN "cut" ELSE "dead"
        /\ UNCHANGED <<force, before, files, records, failing, foreign, displaced>>
    BY <1>1, <1>7, Zenon DEF Die
  <2>2. \/ pc = "discard" /\ pc' = "cut"
        \/ pc \in Running \ {"discard"} /\ pc' = "dead"
    BY <2>1
  <2> QED  BY <1>2, <2>1, <2>2, Zenon
<1> QED  BY <1>3, <1>4, <1>5, <1>6, <1>7, Zenon DEF FaultStep

\* The steps there are, of the transaction and of others.
LEMMA Steps ==
    ASSUME [Next]_vars
    PROVE  \/ Forward \/ Rollback \/ FaultStep \/ UNCHANGED vars
           \/ \E t \in Targets : ForeignActs(t)
BY Zenon DEF Next, FaultStep

-----------------------------------------------------------------------------
(* Types.                                                                  *)

Positions == Running \cup Ended

LEMMA PositionsAre ==
    Positions = {"stage", "staged", "back up", "note", "reserve", "free", "move", "moved",
                 "record", "link", "linked",
                 "undo installed", "unlink", "undo backups", "replace", "relink", "relinked",
                 "preflight", "clean up", "discard",
                 "refused", "failed", "committed", "cut", "dead"}
BY DEF Positions, Running, Ended, Trying, RollingBack

LEMMA InitType == Init => TypeOK
<1> SUFFICES ASSUME Init PROVE TypeOK
  OBVIOUS
<1>1. target \in [Targets -> Files \cup {None}]
  BY FileFacts DEF Init
<1>2. pc \in Positions
  BY PositionsAre DEF Init
<1>3. at \in Targets
  BY DEF Init
<1>4. force \in BOOLEAN /\ failing \in BOOLEAN
  BY DEF Init
<1>5. foreign \in 0 .. MaxForeign /\ faults \in 0 .. MaxFaults
  BY DEF Init
<1>6. identity \in [Files -> Files \cup {None}]
  BY DEF Init
<1> QED  BY <1>1, <1>2, <1>3, <1>4, <1>5, <1>6 DEF Init, TypeOK, Positions

\* The position, the one part of the types that every step changes.
LEMMA NextPosition ==
    ASSUME TypeOK, Forward \/ Rollback \/ FaultStep
    PROVE  pc' \in Positions /\ at' \in Targets /\ failing' \in BOOLEAN
<1>1. at \in Targets /\ failing \in BOOLEAN
  BY DEF TypeOK
<1>2. CASE Forward
  <2>1. at' \in Targets /\ failing' \in BOOLEAN
    BY <1>1, <1>2, ForwardPositions DEF Forward
  <2>2. pc' \in {"stage", "refused", "staged", "back up", "record", "note", "reserve", "free",
                 "undo installed", "move", "moved", "link", "linked", "clean up", "failed",
                 "discard", "committed", "cut"}
    BY <1>1, <1>2, ForwardPositions DEF Forward
  <2> QED  BY <2>1, <2>2, PositionsAre
<1>3. CASE Rollback
  <2>1. at' \in Targets /\ failing' \in BOOLEAN
    BY <1>1, <1>3, RollbackPositions
  <2>2. pc' \in {"unlink", "undo installed", "undo backups", "replace", "relink", "relinked",
                 "clean up"}
    BY <1>1, <1>3, RollbackPositions DEF Rollback
  <2> QED  BY <2>1, <2>2, PositionsAre
<1>4. CASE FaultStep
  <2>1. at' \in Targets /\ failing' \in BOOLEAN
    BY <1>1, <1>4, FaultPositions
  <2>2. pc' \in {"undo installed", "undo backups", "clean up", "failed", "discard", "cut",
                 "committed", "dead"}
    BY <1>4, FaultPositions
  <2> QED  BY <2>1, <2>2, PositionsAre
<1> QED  BY <1>2, <1>3, <1>4

LEMMA ForwardType == TypeOK /\ Forward => TypeOK'
<1> SUFFICES ASSUME TypeOK, Forward PROVE TypeOK'
  OBVIOUS
<1>1. pc' \in Running \cup Ended /\ at' \in Targets /\ failing' \in BOOLEAN
  BY NextPosition DEF Positions
<1>2. at \in Targets /\ New(at) \in Files
  BY FileFacts DEF TypeOK
<1>3. CASE Preflight \/ CheckMoved \/ CheckLinked \/ FindTarget
  BY <1>1, <1>3 DEF Preflight, CheckMoved, CheckLinked, FindTarget, Environment, files, records,
                    TypeOK
<1>4. CASE CreateTemporary
  <2>1. identity' \in [Files -> Files \cup {None}]
    BY <1>2, <1>4, CreateType DEF CreateTemporary
  <2> QED  BY <1>1, <1>2, <1>4, <2>1 DEF CreateTemporary, Environment, records, TypeOK
<1>5. CASE RecordTemporary
  BY <1>1, <1>2, <1>5 DEF RecordTemporary, Environment, files, TypeOK
<1>6. CASE NoteOriginal
  <2>1. original' \in [Targets -> Files \cup {None}]
    BY <1>2, <1>6 DEF NoteOriginal, TypeOK
  <2> QED  BY <1>1, <1>6, <2>1 DEF NoteOriginal, Environment, files, TypeOK
<1>7. CASE Reserve \/ FreeBackupPath
  BY <1>1, <1>2, <1>7 DEF Reserve, FreeBackupPath, Environment, records, TypeOK
<1>8. CASE MoveAside
  <2>1. /\ target' \in [Targets -> Files \cup {None}]
        /\ backup' \in [Targets -> Files \cup {None}]
    BY <1>2, <1>8 DEF MoveAside, TypeOK
  <2> QED  BY <1>1, <1>8, <2>1 DEF MoveAside, Environment, records, TypeOK
<1>9. CASE Record
  BY <1>1, <1>2, <1>9 DEF Record, Environment, files, TypeOK
<1>10. CASE Link
  <2>1. target' \in [Targets -> Files \cup {None}]
    BY <1>2, <1>10 DEF Link, TypeOK
  <2> QED  BY <1>1, <1>10, <2>1 DEF Link, Environment, records, TypeOK
<1>11. CASE CleanUp
  BY <1>1, <1>11 DEF CleanUp, Environment, records, TypeOK
<1>12. CASE Discard
  BY <1>1, <1>12 DEF Discard, Environment, records, TypeOK
<1> QED
  BY <1>3, <1>4, <1>5, <1>6, <1>7, <1>8, <1>9, <1>10, <1>11, <1>12 DEF Forward

LEMMA RollbackType == TypeOK /\ Rollback => TypeOK'
<1> SUFFICES ASSUME TypeOK, Rollback PROVE TypeOK'
  OBVIOUS
<1>1. pc' \in Running \cup Ended /\ at' \in Targets
  BY NextPosition DEF Positions
<1>2. at \in Targets
  BY DEF TypeOK
<1>3. /\ target' \in [Targets -> Files \cup {None}]
      /\ backup' \in [Targets -> Files \cup {None}]
  BY <1>2 DEF Rollback, CheckInstalled, Unlink, CheckBackup, ReplaceByBackup, Relink, DropBackup,
         files, TypeOK
<1>4. UNCHANGED <<force, before, temps, reserved, identity, records, failing, foreign, displaced,
                  faults>>
  BY DEF Rollback, CheckInstalled, Unlink, CheckBackup, ReplaceByBackup, Relink, DropBackup,
         files, Environment
<1> QED  BY <1>1, <1>3, <1>4 DEF TypeOK, records

\* What another program does to a target.
LEMMA ForeignStep ==
    ASSUME TypeOK, NEW t \in Targets, ForeignActs(t)
    PROVE  /\ UNCHANGED <<force, before, backup, temps, reserved, records, pc, at, failing, faults>>
           /\ foreign' = foreign + 1 /\ foreign' \in 0 .. MaxForeign
           /\ displaced' = displaced \cup ({target[t]} \ {None})
           /\ \/ target' = [target EXCEPT ![t] = None] /\ UNCHANGED identity
              \/ \E f \in ForeignFiles :
                    /\ f \in Files
                    /\ target' = [target EXCEPT ![t] = f]
                    /\ Create(f)
<1>1. Foreign(foreign + 1) \in ForeignFiles /\ foreign + 1 \in 0 .. MaxForeign
  BY ForeignNext DEF ForeignActs
<1>2. Foreign(foreign + 1) \in Files
  BY <1>1 DEF Files
<1>3. /\ UNCHANGED <<force, before, backup, temps, reserved, records, pc, at, failing, faults>>
      /\ foreign' = foreign + 1
      /\ displaced' = displaced \cup ({target[t]} \ {None})
  BY Zenon DEF ForeignActs
<1>4. \/ target' = [target EXCEPT ![t] = None] /\ UNCHANGED identity
      \/ target' = [target EXCEPT ![t] = Foreign(foreign + 1)] /\ Create(Foreign(foreign + 1))
  BY Zenon DEF ForeignActs
<1> QED  BY <1>1, <1>2, <1>3, <1>4, Zenon

LEMMA ForeignType == TypeOK /\ (\E t \in Targets : ForeignActs(t)) => TypeOK'
<1> SUFFICES ASSUME TypeOK, NEW t \in Targets, ForeignActs(t) PROVE TypeOK'
  OBVIOUS
<1>1. /\ target' \in [Targets -> Files \cup {None}]
      /\ identity' \in [Files -> Files \cup {None}]
  <2>1. CASE target' = [target EXCEPT ![t] = None] /\ UNCHANGED identity
    BY <2>1 DEF TypeOK
  <2>2. ASSUME NEW f \in Files, target' = [target EXCEPT ![t] = f], Create(f)
        PROVE  /\ target' \in [Targets -> Files \cup {None}]
               /\ identity' \in [Files -> Files \cup {None}]
    <3>1. identity' \in [Files -> Files \cup {None}]
      BY <2>2, CreateType
    <3> QED  BY <2>2, <3>1 DEF TypeOK
  <2> QED  BY <2>1, <2>2, ForeignStep, Zenon
<1>2. displaced' \subseteq Files
  BY ForeignStep DEF TypeOK
<1> QED  BY <1>1, <1>2, ForeignStep DEF TypeOK, records

LEMMA NextType == TypeOK /\ [Next]_vars => TypeOK'
<1> SUFFICES ASSUME TypeOK, [Next]_vars PROVE TypeOK'
  OBVIOUS
<1>1. CASE FaultStep
  <2>1. pc' \in Running \cup Ended /\ failing' \in BOOLEAN
    BY <1>1, NextPosition DEF Positions
  <2> QED  BY <1>1, <2>1, FaultPositions DEF files, records, TypeOK
<1>2. CASE UNCHANGED vars
  BY <1>2 DEF vars, files, records, TypeOK
<1> QED  BY <1>1, <1>2, Steps, ForwardType, RollbackType, ForeignType
-----------------------------------------------------------------------------
(* Where a file may be overwritten.                                        *)

LEMMA InitPlaces == Init => PlacesInv /\ CommitInv
<1> SUFFICES ASSUME Init PROVE PlacesInv /\ CommitInv
  OBVIOUS
<1>1. pc = "preflight" /\ ~failing /\ \A t \in Targets : backup[t] = None
  BY DEF Init
<1>2. PlacesInv
  BY <1>1 DEF PlacesInv
<1>3. CommitInv
  BY <1>1 DEF CommitInv, Trying, RollingBack
<1> QED  BY <1>2, <1>3

\* What has the identity of a file this transaction installed is that file.
LEMMA OursIsNew ==
    ASSUME TypeOK, TempsInv, IdentityInv, pc \in RollingBack, NEW t \in Targets, t \in installed,
           Same(target[t], New(t))
    PROVE  target[t] = New(t)
<1>1. t \in temps
  BY Zenon DEF TempsInv
<1>2. target[t] \in Files /\ New(t) \in Files
  BY FileFacts DEF TypeOK, Same
<1>3. Exists(target[t]) /\ Exists(New(t))
  BY <1>1 DEF Exists
<1> QED  BY <1>2, <1>3, Zenon DEF IdentityInv, Same

LEMMA ForwardPlaces == TypeOK /\ PlacesInv /\ Forward => PlacesInv'
<1> SUFFICES ASSUME TypeOK, PlacesInv, Forward PROVE PlacesInv'
  OBVIOUS
<1>1. /\ at \in Targets /\ at' \in Targets
      /\ backup \in [Targets -> Files \cup {None}]
  BY ForwardType DEF TypeOK
<1>2. CASE Preflight \/ CreateTemporary \/ RecordTemporary
  <2>1. pc' \in {"refused", "stage", "staged", "back up", "record"} /\ UNCHANGED backup
    BY <1>1, <1>2, ForwardPositions DEF Preflight, CreateTemporary, RecordTemporary, files
  <2>2. \A t \in Targets : backup[t] = None
    BY <1>2 DEF Preflight, CreateTemporary, RecordTemporary, PlacesInv
  <2> QED  BY <2>1, <2>2 DEF PlacesInv
<1>3. CASE FindTarget \/ NoteOriginal \/ Reserve \/ FreeBackupPath
  <2>1. \/ pc' \in {"note", "reserve", "free", "move"} /\ at' = at
        \/ pc' = "back up" /\ Onward
        \/ pc' \in {"record", "undo installed"}
    BY <1>1, <1>3, ForwardPositions
  <2>2. UNCHANGED backup /\ \A t \in Targets : t >= at => backup[t] = None
    BY <1>3 DEF FindTarget, NoteOriginal, Reserve, FreeBackupPath, PlacesInv, files
  <2>3. CASE pc' \in {"note", "reserve", "free", "move"} /\ at' = at
    <3>1. \A t \in Targets : t >= at' => backup'[t] = None
      BY <2>2, <2>3
    <3> QED  BY <2>3, <3>1 DEF PlacesInv
  <2>4. CASE pc' = "back up" /\ Onward
    <3>1. \A t \in Targets : t >= at' => backup'[t] = None
      BY <1>1, <2>2, <2>4, Order DEF Onward
    <3> QED  BY <2>4, <3>1 DEF PlacesInv
  <2>5. CASE pc' \in {"record", "undo installed"}
    BY <2>5 DEF PlacesInv
  <2> QED  BY <2>1, <2>3, <2>4, <2>5
<1>4. CASE MoveAside
  <2>1. \A t \in Targets : t >= at => backup[t] = None
    BY <1>4 DEF MoveAside, PlacesInv
  <2>2. CASE target[at] = None
    <3>1. pc' = "undo installed"
      BY <1>4, <2>2, FailStep, Zenon DEF MoveAside
    <3> QED  BY <3>1 DEF PlacesInv
  <2>3. CASE target[at] # None
    <3>1. pc' = "moved" /\ at' = at /\ backup' = [backup EXCEPT ![at] = target[at]]
      BY <1>4, <2>3, Zenon DEF MoveAside
    <3>2. \A t \in Targets : t > at' => backup'[t] = None
      BY <1>1, <2>1, <3>1
    <3>3. pc' = "moved"
      BY <3>1
    <3> QED  BY <3>2, <3>3 DEF PlacesInv
  <2> QED  BY <2>2, <2>3
<1>5. CASE CheckMoved
  <2>1. \/ pc' = "back up" /\ Onward
        \/ pc' \in {"record", "undo installed"}
    BY <1>1, <1>5, ForwardPositions
  <2>2. UNCHANGED backup /\ \A t \in Targets : t > at => backup[t] = None
    BY <1>5 DEF CheckMoved, PlacesInv, files
  <2>3. CASE pc' = "back up" /\ Onward
    <3>1. \A t \in Targets : t >= at' => backup'[t] = None
      BY <1>1, <2>2, <2>3, Order DEF Onward
    <3> QED  BY <2>3, <3>1 DEF PlacesInv
  <2>4. CASE pc' \in {"record", "undo installed"}
    BY <2>4 DEF PlacesInv
  <2> QED  BY <2>1, <2>3, <2>4
<1>6. CASE Record \/ Link \/ CheckLinked \/ CleanUp \/ Discard
  <2>1. pc' \in {"link", "linked", "undo installed", "record", "clean up", "failed", "discard",
                 "committed", "cut"}
    BY <1>1, <1>6, ForwardPositions
  <2> QED  BY <2>1 DEF PlacesInv
<1> QED  BY <1>2, <1>3, <1>4, <1>5, <1>6 DEF Forward

LEMMA RollbackPlaces == TypeOK /\ PlacesInv /\ TempsInv /\ IdentityInv /\ Rollback => PlacesInv'
<1> SUFFICES ASSUME TypeOK, PlacesInv, TempsInv, IdentityInv, Rollback PROVE PlacesInv'
  OBVIOUS
<1>1. at \in Targets /\ target \in [Targets -> Files \cup {None}] /\ pc \in RollingBack
  BY RollbackPositions DEF TypeOK
<1>2. CASE CheckInstalled
  <2>1. \/ pc' = "unlink" /\ at' = at /\ at \in installed /\ Same(target[at], New(at))
        \/ pc' \in {"undo installed", "undo backups"}
    BY <1>1, <1>2, PreviousInstalledStep DEF CheckInstalled
  <2>2. UNCHANGED target
    BY <1>2 DEF CheckInstalled, files
  <2>3. CASE pc' = "unlink" /\ at' = at /\ at \in installed /\ Same(target[at], New(at))
    <3>1. target'[at'] = New(at)
      BY <1>1, <2>2, <2>3, OursIsNew
    <3> QED  BY <1>1, <2>3, <3>1, FileFacts DEF PlacesInv
  <2>4. CASE pc' \in {"undo installed", "undo backups"}
    BY <2>4 DEF PlacesInv
  <2> QED  BY <2>1, <2>3, <2>4
<1>3. CASE Unlink
  <2>1. pc' \in {"undo installed", "undo backups"}
    BY <1>1, <1>3, PreviousInstalledStep DEF Unlink
  <2> QED  BY <2>1 DEF PlacesInv
<1>4. CASE CheckBackup
  <2>1. \/ pc' = "replace" /\ at' = at /\ Ours(at)
        \/ pc' \in {"relink", "undo backups", "clean up"}
    BY <1>1, <1>4, PreviousBackupStep DEF CheckBackup
  <2>2. UNCHANGED target
    BY <1>4 DEF CheckBackup, files
  <2>3. CASE pc' = "replace" /\ at' = at /\ Ours(at)
    <3>1. target'[at'] = New(at)
      BY <1>1, <2>2, <2>3, OursIsNew DEF Ours
    <3> QED  BY <1>1, <2>3, <3>1, FileFacts DEF PlacesInv
  <2>4. CASE pc' \in {"relink", "undo backups", "clean up"}
    BY <2>4 DEF PlacesInv
  <2> QED  BY <2>1, <2>3, <2>4
<1>5. CASE ReplaceByBackup
  <2>1. pc' \in {"undo backups", "clean up"}
    BY <1>1, <1>5, PreviousBackupStep DEF ReplaceByBackup
  <2> QED  BY <2>1 DEF PlacesInv
<1>6. CASE Relink
  <2>1. CASE target[at] = None
    <3>1. pc' = "relinked" /\ at' = at /\ target'[at'] = backup'[at']
      BY <1>1, <1>6, <2>1 DEF Relink
    <3> QED  BY <3>1 DEF PlacesInv
  <2>2. CASE target[at] # None
    <3>1. pc' \in {"undo backups", "clean up"}
      BY <1>1, <1>6, <2>2, PreviousBackupStep DEF Relink
    <3> QED  BY <3>1 DEF PlacesInv
  <2> QED  BY <2>1, <2>2
<1>7. CASE DropBackup
  <2>1. pc' \in {"undo backups", "clean up"}
    BY <1>1, <1>7, PreviousBackupStep DEF DropBackup
  <2> QED  BY <2>1 DEF PlacesInv
<1> QED  BY <1>2, <1>3, <1>4, <1>5, <1>6, <1>7 DEF Rollback

LEMMA ForeignPlaces == TypeOK /\ PlacesInv /\ (\E t \in Targets : ForeignActs(t)) => PlacesInv'
<1> SUFFICES ASSUME TypeOK, PlacesInv, NEW t \in Targets, ForeignActs(t) PROVE PlacesInv'
  OBVIOUS
<1>1. /\ UNCHANGED <<pc, at, backup>>
      /\ displaced' = displaced \cup ({target[t]} \ {None})
      /\ at \in Targets /\ target \in [Targets -> Files \cup {None}]
  BY ForeignStep DEF TypeOK
<1>2. PICK f \in ForeignFiles \cup {None} : target' = [target EXCEPT ![t] = f]
  BY ForeignStep
<1>3. \A s \in Targets : target'[s] = IF s = t THEN f ELSE target[s]
  BY <1>1, <1>2
<1>4. \A s \in Targets : f # Old(s)
  BY FileFacts, ForeignFacts
<1> QED  BY <1>1, <1>3, <1>4 DEF PlacesInv

LEMMA NextPlaces == TypeOK /\ PlacesInv /\ TempsInv /\ IdentityInv /\ [Next]_vars => PlacesInv'
<1> SUFFICES ASSUME TypeOK, PlacesInv, TempsInv, IdentityInv, [Next]_vars PROVE PlacesInv'
  OBVIOUS
<1>1. CASE FaultStep
  <2>1. pc' \in {"undo installed", "undo backups", "clean up", "failed", "discard", "cut",
                 "committed", "dead"}
    BY <1>1, FaultPositions
  <2> QED  BY <2>1 DEF PlacesInv
<1>2. CASE UNCHANGED vars
  BY <1>2 DEF vars, files, PlacesInv
<1> QED  BY <1>1, <1>2, Steps, ForwardPlaces, RollbackPlaces, ForeignPlaces

-----------------------------------------------------------------------------
(* The commit point.                                                       *)

LEMMA ForwardCommit == TypeOK /\ CommitInv /\ Forward => CommitInv'
<1> SUFFICES ASSUME TypeOK, CommitInv, Forward PROVE CommitInv'
  OBVIOUS
<1>1. /\ at \in Targets /\ at' \in Targets
      /\ installed \subseteq Targets
      /\ failing \in BOOLEAN /\ failing' \in BOOLEAN
  BY ForwardType DEF TypeOK
<1> USE DEF Trying, RollingBack
<1>2. CASE Preflight \/ CreateTemporary \/ RecordTemporary \/ FindTarget \/ NoteOriginal
           \/ Reserve \/ FreeBackupPath \/ MoveAside \/ CheckMoved
  <2>1. \/ pc' = "undo installed" /\ failing' = TRUE
        \/ /\ pc' \in {"refused", "stage", "staged", "back up", "note", "reserve", "free", "move",
                       "moved"}
           /\ UNCHANGED failing
        \/ pc' = "record" /\ AtFirst /\ UNCHANGED failing
    BY <1>1, <1>2, ForwardPositions
  <2>2. ~failing
    BY <1>2 DEF Preflight, CreateTemporary, RecordTemporary, FindTarget, NoteOriginal, Reserve,
                FreeBackupPath, MoveAside, CheckMoved, CommitInv
  <2>3. pc' = "record" => \A t \in Targets : ~(t < at')
    BY <2>1 DEF AtFirst
  <2>4. \/ pc' = "undo installed" /\ failing'
        \/ /\ pc' \in {"refused", "stage", "staged", "back up", "note", "reserve", "free", "move",
                       "moved", "record"}
           /\ ~failing'
    BY <2>1, <2>2
  <2> QED  BY <2>3, <2>4 DEF CommitInv
<1>3. CASE Record
  <2>1. /\ pc = "record" /\ pc' = "link" /\ at' = at
        /\ installed' = installed \cup {at} /\ UNCHANGED failing
    BY <1>3 DEF Record
  <2>2. \A t \in Targets : t <= at => t \in installed'
    BY <1>1, <2>1 DEF CommitInv
  <2> QED  BY <2>1, <2>2 DEF CommitInv
<1>4. CASE Link
  <2>1. \/ pc' = "undo installed" /\ failing' = TRUE
        \/ pc' = "linked" /\ UNCHANGED <<at, failing>>
    BY <1>1, <1>4, ForwardPositions
  <2>2. CASE pc' = "undo installed" /\ failing' = TRUE
    BY <2>2 DEF CommitInv
  <2>3. CASE pc' = "linked" /\ UNCHANGED <<at, failing>>
    <3>1. ~failing /\ UNCHANGED installed /\ \A t \in Targets : t <= at => t \in installed
      BY <1>4 DEF Link, CommitInv, records
    <3> QED  BY <2>3, <3>1 DEF CommitInv
  <2> QED  BY <2>1, <2>2, <2>3
<1>5. CASE CheckLinked
  <2>1. UNCHANGED installed /\ \A t \in Targets : t <= at => t \in installed
    BY <1>5 DEF CheckLinked, CommitInv, records
  <2>2. \/ pc' = "undo installed" /\ failing' = TRUE
        \/ pc' = "record" /\ Onward /\ UNCHANGED failing
        \/ pc' = "clean up" /\ Rewound
    BY <1>1, <1>5, ForwardPositions
  <2>3. CASE pc' = "undo installed" /\ failing' = TRUE
    BY <2>3 DEF CommitInv
  <2>4. CASE pc' = "record" /\ Onward /\ UNCHANGED failing
    <3>1. \A t \in Targets : t < at' => t \in installed'
      BY <1>1, <2>1, <2>4 DEF Onward
    <3>2. ~failing'
      BY <1>5, <2>4, Zenon DEF CheckLinked, CommitInv
    <3> QED  BY <2>4, <3>1, <3>2 DEF CommitInv
  <2>5. CASE pc' = "clean up" /\ Rewound
    <3>1. installed' = Targets
      BY <1>1, <2>1, <2>5 DEF Rewound
    <3> QED  BY <2>5, <3>1 DEF CommitInv
  <2> QED  BY <2>2, <2>3, <2>4, <2>5
<1>6. CASE CleanUp
  <2>1. /\ pc = "clean up" /\ UNCHANGED <<failing, installed>>
        /\ pc' \in {"clean up", "failed", "discard"}
        /\ pc' = "discard" => ~failing
    BY <1>1, <1>6, ForwardPositions DEF CleanUp, records
  <2> QED  BY <2>1 DEF CommitInv
<1>7. CASE Discard
  <2>1. pc' \in {"discard", "committed", "cut"}
    BY <1>1, <1>7, ForwardPositions
  <2>2. ~failing' /\ installed' = Targets
    BY <1>7 DEF Discard, CommitInv, records
  <2> QED  BY <2>1, <2>2 DEF CommitInv
<1> QED  BY <1>2, <1>3, <1>4, <1>5, <1>6, <1>7 DEF Forward

LEMMA NextCommit == TypeOK /\ CommitInv /\ [Next]_vars => CommitInv'
<1> SUFFICES ASSUME TypeOK, CommitInv, [Next]_vars PROVE CommitInv'
  OBVIOUS
<1> USE DEF Trying, RollingBack
<1>1. CASE Rollback
  <2>1. /\ failing /\ UNCHANGED failing
        /\ pc' \in {"unlink", "undo installed", "undo backups", "replace", "relink", "relinked",
                    "clean up"}
    BY <1>1, RollbackPositions DEF Rollback, CommitInv, TypeOK
  <2> QED  BY <2>1 DEF CommitInv
<1>2. CASE FaultStep
  <2>1. UNCHANGED installed
    BY <1>2, FaultPositions DEF records
  <2>2. \/ pc' \in {"undo installed", "undo backups", "clean up"} /\ failing'
        \/ pc' \in {"failed", "cut", "dead"}
        \/ pc' \in {"clean up", "discard", "committed"} /\ ~failing' /\ installed = Targets
    <3>1. CASE pc \in Trying
      BY <1>2, <3>1, FaultPositions
    <3>2. CASE pc \in RollingBack
      BY <1>2, <3>2, FaultPositions DEF CommitInv
    <3>3. CASE pc = "clean up"
      BY <1>2, <3>3, FaultPositions DEF CommitInv, TypeOK
    <3>4. CASE pc = "discard"
      BY <1>2, <3>4, FaultPositions DEF CommitInv
    <3>5. CASE pc \notin Trying \cup RollingBack \cup {"clean up", "discard"}
      BY <1>2, <3>5, FaultPositions
    <3> QED  BY <3>1, <3>2, <3>3, <3>4, <3>5
  <2> QED  BY <2>1, <2>2 DEF CommitInv
<1>3. ASSUME NEW t \in Targets, ForeignActs(t) PROVE CommitInv'
  BY <1>3 DEF ForeignActs, CommitInv, records
<1>4. CASE UNCHANGED vars
  BY <1>4 DEF vars, files, records, CommitInv
<1> QED  BY <1>1, <1>2, <1>3, <1>4, Steps, ForwardCommit
-----------------------------------------------------------------------------
(* Temporary files and records.                                            *)

LEMMA InitTemps == Init => TempsInv /\ RemovalInv
<1> SUFFICES ASSUME Init PROVE TempsInv /\ RemovalInv
  OBVIOUS
<1>1. /\ pc = "preflight" /\ temps = {} /\ reserved = {} /\ staged = {} /\ installed = {}
      /\ at = 1
  BY DEF Init
<1>2. \A t \in Targets : ~(t < at)
  BY <1>1
<1>3. OneStray /\ NoStray
  BY <1>1 DEF OneStray, NoStray
<1> QED  BY <1>1, <1>2, <1>3 DEF TempsInv, RemovalInv, RollingBack

\* Nothing of what TempsInv is about changes but the position.
LEMMA SameTemps ==
    ASSUME TempsInv, UNCHANGED <<temps, reserved, staged>>,
           installed' \subseteq staged,
           pc' \notin {"preflight", "refused"},
           pc' \in {"preflight"} \cup Trying \cup RollingBack => staged \subseteq temps,
           pc' \in {"preflight"} \cup Staging => \A t \in Targets : t < at' => t \in staged,
           pc' \in BackingUp \cup Installing => staged = Targets,
           pc' \notin {"staged", "free"},
           pc' \in {"preflight"} \cup Trying => NoStray,
           pc' \in {"clean up", "discard", "committed"} /\ ~failing' => NoStray
    PROVE  TempsInv'
BY DEF TempsInv, OneStray, NoStray, Trying, RollingBack

LEMMA ForwardTemps == TypeOK /\ TempsInv /\ Forward => TempsInv'
<1> SUFFICES ASSUME TypeOK, TempsInv, Forward PROVE TempsInv'
  OBVIOUS
<1>1. /\ at \in Targets /\ at' \in Targets
      /\ temps \subseteq Targets /\ reserved \subseteq Targets
      /\ staged \subseteq Targets /\ installed \subseteq Targets
  BY ForwardType DEF TypeOK
<1> USE DEF Trying, RollingBack
<1>2. CASE Preflight
  <2>1. pc = "preflight" /\ UNCHANGED <<temps, reserved, staged, installed, at>>
    BY <1>2 DEF Preflight, files, records
  <2>2. pc' \in {"stage", "refused"}
    BY <1>1, <1>2, ForwardPositions
  <2>3. /\ NoStray /\ staged = {} /\ staged \subseteq temps
        /\ \A t \in Targets : t < at => t \in staged
    BY <2>1 DEF TempsInv
  <2> QED  BY <2>1, <2>2, <2>3 DEF TempsInv, OneStray, NoStray
<1>3. CASE CreateTemporary
  <2>1. /\ pc = "stage" /\ pc' = "staged" /\ temps' = temps \cup {at}
        /\ UNCHANGED <<reserved, staged, installed, at>>
    BY <1>3 DEF CreateTemporary, records
  <2>2. NoStray /\ staged \subseteq temps /\ \A t \in Targets : t < at => t \in staged
    BY <2>1 DEF TempsInv
  <2>3. at' \in temps' /\ temps' \ staged' \subseteq {at'} /\ reserved' = {}
    BY <2>1, <2>2 DEF NoStray
  <2>4. OneStray'
    BY <1>1, <2>3 DEF OneStray
  <2>5. pc' = "staged"
    BY <2>1
  <2> QED  BY <2>1, <2>2, <2>3, <2>4, <2>5 DEF TempsInv
<1>4. CASE RecordTemporary
  <2>1. /\ pc = "staged" /\ staged' = staged \cup {at}
        /\ UNCHANGED <<temps, reserved, installed>>
    BY <1>4 DEF RecordTemporary, files
  <2>2. /\ staged \subseteq temps /\ at \in temps /\ temps \ staged \subseteq {at}
        /\ reserved = {} /\ \A t \in Targets : t < at => t \in staged
    BY <2>1 DEF TempsInv
  <2>3. NoStray' /\ staged' \subseteq temps'
    BY <2>1, <2>2 DEF NoStray
  <2>4. OneStray'
    BY <1>1, <2>3 DEF OneStray, NoStray
  <2>5. \A t \in Targets : t <= at => t \in staged'
    BY <1>1, <2>1, <2>2, Order
  <2>6. \/ pc' = "stage" /\ Onward
        \/ pc' \in {"back up", "record"} /\ Rewound
    BY <1>1, <1>4, ForwardPositions
  <2>7. CASE pc' = "stage" /\ Onward
    <3>1. \A t \in Targets : t < at' => t \in staged'
      BY <2>5, <2>7 DEF Onward
    <3> QED  BY <2>1, <2>3, <2>4, <2>7, <3>1 DEF TempsInv
  <2>8. CASE pc' \in {"back up", "record"} /\ Rewound
    <3>1. staged' = Targets
      BY <1>1, <2>1, <2>5, <2>8 DEF Rewound
    <3> QED  BY <2>1, <2>3, <2>4, <2>8, <3>1 DEF TempsInv
  <2> QED  BY <2>6, <2>7, <2>8
<1>5. CASE FindTarget \/ NoteOriginal \/ FreeBackupPath \/ MoveAside \/ CheckMoved
           \/ Record \/ Link \/ CheckLinked
  <2>1. /\ staged = Targets /\ staged \subseteq temps /\ installed \subseteq staged
        /\ UNCHANGED <<temps, staged>>
    BY <1>5 DEF FindTarget, NoteOriginal, FreeBackupPath, MoveAside, CheckMoved, Record, Link,
                CheckLinked, files, records, TempsInv
  <2>2. NoStray'
    <3>1. CASE FreeBackupPath
      <4>1. pc = "free" /\ reserved' = reserved \ {at} /\ UNCHANGED <<temps, staged>>
        BY <3>1 DEF FreeBackupPath, records
      <4>2. temps \subseteq staged /\ reserved \subseteq {at}
        BY <4>1 DEF TempsInv
      <4> QED  BY <4>1, <4>2 DEF NoStray
    <3>2. CASE ~FreeBackupPath
      <4>1. /\ pc \in (BackingUp \cup Installing) \ {"free"}
            /\ UNCHANGED <<temps, staged, reserved>>
        BY <1>5, <3>2 DEF FindTarget, NoteOriginal, MoveAside, CheckMoved, Record, Link,
                          CheckLinked, files, records
      <4>2. NoStray
        BY <4>1 DEF TempsInv
      <4> QED  BY <4>1, <4>2 DEF NoStray
    <3> QED  BY <3>1, <3>2
  <2>3. installed' \subseteq staged'
    <3>1. CASE Record
      BY <1>1, <2>1, <3>1 DEF Record
    <3>2. CASE ~Record
      BY <1>5, <2>1, <3>2 DEF FindTarget, NoteOriginal, FreeBackupPath, MoveAside, CheckMoved,
                              Link, CheckLinked, records
    <3> QED  BY <3>1, <3>2
  <2>4. pc' \in {"note", "reserve", "back up", "record", "move", "moved", "link", "linked",
                 "clean up", "undo installed"}
    BY <1>1, <1>5, ForwardPositions
  <2>5. OneStray'
    BY <1>1, <2>2 DEF OneStray, NoStray
  <2> QED  BY <2>1, <2>2, <2>3, <2>4, <2>5 DEF TempsInv
<1>6. CASE Reserve
  <2>1. /\ pc = "reserve" /\ pc' = "free" /\ at' = at /\ reserved' = reserved \cup {at}
        /\ UNCHANGED <<temps, staged, installed>>
    BY <1>6 DEF Reserve, records
  <2>2. /\ staged = Targets /\ staged \subseteq temps /\ installed \subseteq staged /\ NoStray
    BY <2>1 DEF TempsInv
  <2>3. temps' \subseteq staged' /\ reserved' \subseteq {at'}
    BY <2>1, <2>2 DEF NoStray
  <2>4. OneStray'
    BY <1>1, <2>3 DEF OneStray
  <2>5. pc' = "free"
    BY <2>1
  <2> QED  BY <2>1, <2>2, <2>3, <2>4, <2>5 DEF TempsInv
<1>7. CASE CleanUp
  <2>1. pc = "clean up" /\ temps' \subseteq temps /\ UNCHANGED <<reserved, staged, installed, failing>>
    BY <1>7 DEF CleanUp, records
  <2>2. pc' \in {"clean up", "failed", "discard"}
    BY <1>1, <1>7, ForwardPositions
  <2>3. OneStray'
    <3>1. temps' \ staged' \subseteq temps \ staged
      BY <2>1
    <3> QED  BY <2>1, <3>1 DEF TempsInv, OneStray
  <2>4. ~failing' => NoStray'
    BY <2>1 DEF TempsInv, NoStray
  <2> QED  BY <2>1, <2>2, <2>3, <2>4 DEF TempsInv
<1>8. CASE Discard
  <2>1. pc = "discard" /\ UNCHANGED <<temps, reserved, staged, installed, failing>>
    BY <1>8 DEF Discard, records
  <2>2. pc' \in {"discard", "committed", "cut"}
    BY <1>1, <1>8, ForwardPositions
  <2>3. ~failing' => NoStray'
    BY <2>1 DEF TempsInv, NoStray
  <2> QED  BY <2>1, <2>2, <2>3 DEF TempsInv, OneStray
<1> QED  BY <1>2, <1>3, <1>4, <1>5, <1>6, <1>7, <1>8 DEF Forward

LEMMA NextTemps == TypeOK /\ CommitInv /\ TempsInv /\ [Next]_vars => TempsInv'
<1> SUFFICES ASSUME TypeOK, CommitInv, TempsInv, [Next]_vars PROVE TempsInv'
  OBVIOUS
<1>1. CASE Rollback
  <2>1. /\ UNCHANGED <<temps, reserved, staged, installed>>
        /\ installed \subseteq staged
    BY <1>1 DEF Rollback, CheckInstalled, Unlink, CheckBackup, ReplaceByBackup, Relink,
                DropBackup, files, records, TempsInv
  <2>2. staged \subseteq temps /\ failing'
    BY <1>1, RollbackPositions DEF TypeOK, CommitInv, TempsInv
  <2>3. pc' \in {"unlink", "undo installed", "undo backups", "replace", "relink", "relinked",
                 "clean up"}
    BY <1>1, RollbackPositions DEF Rollback, TypeOK
  <2> QED  BY <2>1, <2>2, <2>3, SameTemps DEF Trying
<1>2. CASE FaultStep
  <2>1. UNCHANGED <<temps, reserved, staged, installed>> /\ installed \subseteq staged
    BY <1>2, FaultPositions DEF files, records, TempsInv
  <2>2. \/ pc' \in {"undo installed", "undo backups"} /\ staged \subseteq temps
        \/ pc' = "clean up" /\ failing'
        \/ pc' \in {"failed", "cut", "dead"}
        \/ pc' \in {"clean up", "discard", "committed"} /\ (~failing' => NoStray)
    <3>1. CASE pc \in Trying
      BY <1>2, <3>1, FaultPositions DEF TempsInv, Trying, RollingBack
    <3>2. CASE pc \in RollingBack
      BY <1>2, <3>2, FaultPositions DEF CommitInv, TempsInv, RollingBack, Trying
    <3>3. CASE pc \in {"clean up", "discard"}
      BY <1>2, <3>3, FaultPositions DEF TempsInv, Trying, RollingBack
    <3>4. CASE pc \notin Trying \cup RollingBack \cup {"clean up", "discard"}
      BY <1>2, <3>4, FaultPositions
    <3> QED  BY <3>1, <3>2, <3>3, <3>4
  <2>3. CASE pc' \in {"undo installed", "undo backups"} /\ staged \subseteq temps
    BY <2>1, <2>3, SameTemps DEF Trying
  <2>4. CASE pc' = "clean up" /\ failing'
    BY <2>1, <2>4, SameTemps DEF Trying, RollingBack
  <2>5. CASE pc' \in {"failed", "cut", "dead"}
    BY <2>1, <2>5, SameTemps DEF Trying, RollingBack
  <2>6. CASE pc' \in {"clean up", "discard", "committed"} /\ (~failing' => NoStray)
    BY <2>1, <2>6, SameTemps DEF Trying, RollingBack
  <2> QED  BY <2>2, <2>3, <2>4, <2>5, <2>6
<1>3. ASSUME NEW t \in Targets, ForeignActs(t) PROVE TempsInv'
  <2>1. UNCHANGED <<temps, reserved, staged, installed, pc, at, failing>>
    BY <1>3, ForeignStep DEF records
  <2> QED  BY <2>1 DEF TempsInv, OneStray, NoStray
<1>4. CASE UNCHANGED vars
  BY <1>4 DEF vars, files, records, TempsInv, OneStray, NoStray
<1> QED  BY <1>1, <1>2, <1>3, <1>4, Steps, ForwardTemps

-----------------------------------------------------------------------------
(* How many temporary files are left.                                      *)

LEMMA TempsFinite ==
    ASSUME TypeOK
    PROVE  /\ IsFiniteSet(temps) /\ Cardinality(temps) \in Nat
           /\ IsFiniteSet(Passed) /\ Cardinality(Passed) \in Nat
<1>1. IsFiniteSet(Targets)
  BY FS_Interval
<1>2. temps \subseteq Targets /\ Passed \subseteq Targets
  BY DEF TypeOK, Passed
<1>3. IsFiniteSet(temps) /\ IsFiniteSet(Passed)
  BY <1>1, <1>2, FS_Subset
<1> QED  BY <1>3, FS_CardinalityType

\* One more file is left.
LEMMA OneMore ==
    ASSUME TypeOK, NEW S, S \subseteq Passed \cup {at}
    PROVE  Cardinality(S) \in Nat /\ Cardinality(S) <= Cardinality(Passed) + 1
<1>1. IsFiniteSet(Passed) /\ Cardinality(Passed) \in Nat
  BY TempsFinite
<1>2. /\ IsFiniteSet(Passed \cup {at})
      /\ Cardinality(Passed \cup {at}) \in Nat
      /\ Cardinality(Passed \cup {at}) <= Cardinality(Passed) + 1
  <2>1. IsFiniteSet(Passed \cup {at})
    BY <1>1, FS_AddElement
  <2>2. CASE at \in Passed
    <3>1. Passed \cup {at} = Passed
      BY <2>2
    <3> QED  BY <1>1, <2>1, <3>1
  <2>3. CASE at \notin Passed
    <3>1. Cardinality(Passed \cup {at}) = Cardinality(Passed) + 1
      BY <1>1, <2>3, FS_AddElement
    <3> QED  BY <1>1, <2>1, <3>1
  <2> QED  BY <2>2, <2>3
<1>3. Cardinality(S) \in Nat /\ Cardinality(S) <= Cardinality(Passed \cup {at})
  <2>1. IsFiniteSet(S) /\ Cardinality(S) <= Cardinality(Passed \cup {at})
    BY <1>2, FS_Subset
  <2> QED  BY <2>1, FS_CardinalityType
<1> QED  BY <1>1, <1>2, <1>3


\* The clean-up starts.
LEMMA RemovalStarts ==
    ASSUME temps' \subseteq Targets, 0 <= faults', AtFirst, pc' = "clean up"
    PROVE  RemovalInv'
<1>1. \A t \in Targets : ~(t < at')
  BY Zenon DEF AtFirst
<1>2. Passed' = {}
  BY <1>1 DEF Passed
<1>3. Cardinality({}) = 0
  BY FS_EmptySet
<1>4. Cardinality(Passed') <= faults'
  BY <1>2, <1>3, Zenon
<1> QED  BY <1>4 DEF RemovalInv

\* Neither the clean-up nor the discarding goes on.
LEMMA NoRemoval ==
    ASSUME pc' \notin {"clean up", "discard", "committed"}
    PROVE  RemovalInv'
BY DEF RemovalInv

LEMMA NextRemovals ==
    TypeOK /\ CommitInv /\ TempsInv /\ RemovalInv /\ [Next]_vars => RemovalInv'
<1> SUFFICES ASSUME TypeOK, CommitInv, TempsInv, RemovalInv, [Next]_vars PROVE RemovalInv'
  OBVIOUS
<1>1. /\ at \in Targets /\ temps \subseteq Targets /\ temps' \subseteq Targets
      /\ faults \in Nat /\ faults' \in Nat /\ 0 <= faults'
  BY NextType DEF TypeOK
<1>2. Cardinality(Passed) \in Nat /\ Cardinality(temps) \in Nat
  BY TempsFinite
<1>3. CASE Forward
  <2>1. CASE CleanUp
    <3>1. /\ pc = "clean up" /\ UNCHANGED <<faults, staged>>
          /\ temps' = IF at \in staged THEN temps \ {at} ELSE temps
      BY <2>1 DEF CleanUp, Environment, records
    <3>2. Cardinality(Passed) <= faults
      BY <3>1 DEF RemovalInv
    <3>3. {t \in temps' : t \in staged /\ t <= at} = Passed
      <4>1. ASSUME NEW t \in Targets
            PROVE  t \in temps' /\ t \in staged /\ t <= at <=> t \in temps /\ t \in staged /\ t < at
        BY <1>1, <3>1, Order
      <4>2. temps' \subseteq Targets
        BY <1>1, <3>1
      <4> QED  BY <1>1, <4>1, <4>2 DEF Passed
    <3>4. \/ pc' = "clean up" /\ Onward
          \/ pc' = "failed"
          \/ pc' = "discard" /\ ~failing /\ Rewound
      BY <1>1, <1>3, <2>1, ForwardPositions
    <3>5. CASE pc' = "clean up" /\ Onward
      <4>1. Passed' = {t \in temps' : t \in staged /\ t <= at}
        BY <1>1, <3>1, <3>5 DEF Passed, Onward, TypeOK
      <4> QED  BY <3>1, <3>2, <3>3, <3>5, <4>1 DEF RemovalInv
    <3>6. CASE pc' = "discard" /\ ~failing /\ Rewound
      <4>1. temps \subseteq staged
        BY <3>1, <3>6 DEF TempsInv, NoStray
      <4>2. temps' = {t \in temps' : t \in staged /\ t <= at}
        BY <1>1, <3>1, <3>6, <4>1 DEF Rewound
      <4> QED  BY <3>1, <3>2, <3>3, <3>6, <4>2 DEF RemovalInv
    <3>7. CASE pc' = "failed"
      BY <3>7, NoRemoval
    <3> QED  BY <3>4, <3>5, <3>6, <3>7
  <2>2. CASE Discard
    <3>1. pc = "discard" /\ UNCHANGED <<temps, faults>>
      BY <2>2 DEF Discard, Environment
    <3>2. pc' \in {"discard", "committed", "cut"}
      BY <1>1, <1>3, <2>2, ForwardPositions
    <3> QED  BY <3>1, <3>2 DEF RemovalInv
  <2>3. CASE CheckLinked
    <3>1. \/ pc' = "clean up" /\ AtFirst
          \/ pc' \in {"record", "undo installed"}
      BY <1>1, <1>3, <2>3, ForwardPositions
    <3> QED  BY <1>1, <3>1, RemovalStarts, NoRemoval
  <2>4. CASE ~(CleanUp \/ Discard \/ CheckLinked)
    <3>1. pc' \in {"stage", "refused", "staged", "back up", "record", "note", "reserve", "free",
                   "undo installed", "move", "moved", "link", "linked"}
      BY <1>1, <1>3, <2>4, ForwardPositions DEF Forward
    <3> QED  BY <3>1, NoRemoval
  <2> QED  BY <2>1, <2>2, <2>3, <2>4
<1>4. CASE Rollback
  <2>1. \/ pc' = "clean up" /\ AtFirst
        \/ pc' \in {"unlink", "undo installed", "undo backups", "replace", "relink", "relinked"}
    BY <1>1, <1>4, RollbackPositions DEF Rollback
  <2> QED  BY <1>1, <2>1, RemovalStarts, NoRemoval
<1>5. CASE FaultStep
  <2>1. UNCHANGED <<temps, staged>> /\ faults' = faults + 1
    BY <1>5, FaultPositions DEF files, records
  <2>2. CASE pc \in Trying \cup RollingBack
    <3>1. \/ pc' = "clean up" /\ AtFirst
          \/ pc' \in {"undo installed", "undo backups", "dead"}
      BY <1>5, <2>2, FaultPositions DEF Trying, RollingBack
    <3> QED  BY <1>1, <3>1, RemovalStarts, NoRemoval
  <2>3. CASE pc = "clean up"
    <3>1. Cardinality(Passed) <= faults
      BY <2>3 DEF RemovalInv
    <3>2. \/ pc' = "clean up" /\ Onward
          \/ pc' = "discard" /\ ~failing /\ Rewound
          \/ pc' \in {"failed", "cut", "dead"}
      BY <1>5, <2>3, FaultPositions DEF Trying, RollingBack
    <3>3. CASE pc' = "clean up" /\ Onward
      <4>1. Passed' \subseteq Passed \cup {at}
        BY <1>1, <2>1, <3>3, Order DEF Passed, Onward
      <4>2. Cardinality(Passed') \in Nat /\ Cardinality(Passed') <= Cardinality(Passed) + 1
        BY <4>1, OneMore
      <4>3. Cardinality(Passed') <= faults'
        BY <1>1, <1>2, <2>1, <3>1, <4>2
      <4> QED  BY <3>3, <4>3 DEF RemovalInv
    <3>4. CASE pc' = "discard" /\ ~failing /\ Rewound
      <4>1. temps \subseteq staged
        BY <2>3, <3>4 DEF TempsInv, NoStray
      <4>2. temps \subseteq Passed \cup {at}
        BY <1>1, <3>4, <4>1, Order DEF Passed, Rewound
      <4>3. Cardinality(temps) <= Cardinality(Passed) + 1
        BY <4>2, OneMore
      <4>4. Cardinality(temps') <= faults'
        BY <1>1, <1>2, <2>1, <3>1, <4>3
      <4> QED  BY <3>4, <4>4 DEF RemovalInv
    <3>5. CASE pc' \in {"failed", "cut", "dead"}
      BY <3>5, NoRemoval
    <3> QED  BY <3>2, <3>3, <3>4, <3>5
  <2>4. CASE pc = "discard"
    <3>1. Cardinality(temps') <= faults'
      BY <1>1, <1>2, <2>1, <2>4 DEF RemovalInv
    <3>2. pc' # "clean up"
      BY <1>5, <2>4, FaultPositions DEF Trying, RollingBack
    <3> QED  BY <3>1, <3>2 DEF RemovalInv
  <2>5. CASE pc \notin Trying \cup RollingBack \cup {"clean up", "discard"}
    <3>1. pc' = "dead"
      BY <1>5, <2>5, FaultPositions
    <3> QED  BY <3>1, NoRemoval
  <2> QED  BY <2>2, <2>3, <2>4, <2>5
<1>6. ASSUME NEW t \in Targets, ForeignActs(t) PROVE RemovalInv'
  BY <1>6, ForeignStep DEF RemovalInv, Passed, records
<1>7. CASE UNCHANGED vars
  BY <1>7 DEF vars, files, records, RemovalInv, Passed
<1> QED  BY <1>3, <1>4, <1>5, <1>6, <1>7, Steps

-----------------------------------------------------------------------------
(* Identities.                                                             *)

LEMMA InitIdentity == Init => IdentityInv
<1> SUFFICES ASSUME Init PROVE IdentityInv
  OBVIOUS
<1>1. /\ target = [t \in Targets |-> IF t \in before THEN Old(t) ELSE None]
      /\ backup = [t \in Targets |-> None] /\ temps = {}
      /\ original = [t \in Targets |-> None]
      /\ identity = [f \in Files |-> IF \E t \in before : f = Old(t) THEN f ELSE None]
  BY DEF Init
<1>2. ASSUME NEW f \in Files, Exists(f) PROVE identity[f] = f
  <2>1. PICK t \in Targets : target[t] = f \/ backup[t] = f
    BY <1>1, <1>2 DEF Exists
  <2>2. t \in before /\ f = Old(t)
    BY <1>1, <2>1, NoneAssumption
  <2> QED  BY <1>1, <2>2
<1>3. \A f \in Files : Exists(f) => identity[f] # None
  BY <1>2, NoneAssumption
<1>4. \A f, g \in Files : Exists(f) /\ Exists(g) /\ identity[f] = identity[g] => f = g
  BY <1>2
<1>5. \A t \in Targets : original[t] = None
  BY <1>1
<1> QED  BY <1>3, <1>4, <1>5 DEF IdentityInv

\* A new file has an identity that no other file has.
LEMMA CreateKeeps ==
    ASSUME TypeOK, IdentityInv, NEW f \in Files, Create(f), UNCHANGED original,
           \A g \in Files : Exists(g)' => Exists(g) \/ g = f
    PROVE  IdentityInv'
<1>1. PICK i \in Files :
         /\ identity' = [identity EXCEPT ![f] = i]
         /\ \A g \in Files : Exists(g) => identity[g] # i
  BY CreateFacts
<1>2. \A g \in Files : identity'[g] = IF g = f THEN i ELSE identity[g]
  BY <1>1 DEF TypeOK
<1>3. i # None
  BY NoneAssumption
<1>4. \A g \in Files : Exists(g)' => identity'[g] # None
  BY <1>2, <1>3 DEF IdentityInv
<1>5. ASSUME NEW g \in Files, NEW h \in Files, Exists(g)', Exists(h)', identity'[g] = identity'[h]
      PROVE  g = h
  <2>1. (Exists(g) \/ g = f) /\ (Exists(h) \/ h = f)
    BY <1>5
  <2>2. CASE g = f
    BY <1>1, <1>2, <1>5, <2>1, <2>2
  <2>3. CASE h = f
    BY <1>1, <1>2, <1>5, <2>1, <2>3
  <2>4. CASE g # f /\ h # f
    BY <1>2, <1>5, <2>1, <2>4, Zenon DEF IdentityInv
  <2> QED  BY <2>2, <2>3, <2>4
<1>6. \A t \in Targets : original'[t] # None => identity'[original'[t]] # None
  BY <1>2, <1>3 DEF IdentityInv, TypeOK
<1> QED  BY <1>4, <1>5, <1>6, Zenon DEF IdentityInv

\* A transaction creates no file but its temporary ones.
NoNewFile == UNCHANGED identity /\ \A f \in Files : Exists(f)' => Exists(f)

LEMMA Moves ==
    ASSUME UNCHANGED identity, temps' \subseteq temps,
           \A t \in Targets : /\ target'[t] # None => Exists(target'[t])
                              /\ backup'[t] # None => Exists(backup'[t])
    PROVE  NoNewFile
<1>1. ASSUME NEW f \in Files, Exists(f)' PROVE Exists(f)
  <2>1. f # None
    BY NoneAssumption
  <2>2. PICK t \in Targets : target'[t] = f \/ backup'[t] = f \/ (t \in temps' /\ New(t) = f)
    BY <1>1 DEF Exists
  <2>3. CASE target'[t] = f \/ backup'[t] = f
    BY <2>1, <2>2, <2>3
  <2>4. CASE t \in temps' /\ New(t) = f
    BY <2>4 DEF Exists
  <2> QED  BY <2>2, <2>3, <2>4
<1> QED  BY <1>1 DEF NoNewFile

LEMMA SameFiles ==
    ASSUME UNCHANGED <<target, backup, temps, identity>>
    PROVE  NoNewFile /\ \A f : Exists(f)' <=> Exists(f)
BY DEF NoNewFile, Exists

LEMMA ForwardFiles == TypeOK /\ TempsInv /\ Forward /\ ~CreateTemporary => NoNewFile
<1> SUFFICES ASSUME TypeOK, TempsInv, Forward, ~CreateTemporary PROVE NoNewFile
  OBVIOUS
<1>1. /\ at \in Targets
      /\ target \in [Targets -> Files \cup {None}]
      /\ backup \in [Targets -> Files \cup {None}]
  BY DEF TypeOK
<1>2. CASE Preflight \/ RecordTemporary \/ FindTarget \/ NoteOriginal \/ Reserve \/ FreeBackupPath
           \/ CheckMoved \/ Record \/ CheckLinked
  BY <1>2, SameFiles DEF Preflight, RecordTemporary, FindTarget, NoteOriginal, Reserve,
                         FreeBackupPath, CheckMoved, Record, CheckLinked, files
<1>3. CASE MoveAside
  <2>1. UNCHANGED <<temps, identity>>
    BY <1>3 DEF MoveAside
  <2>2. CASE target[at] = None
    BY <1>3, <2>1, <2>2, SameFiles DEF MoveAside
  <2>3. CASE target[at] # None
    <3>1. /\ backup' = [backup EXCEPT ![at] = target[at]]
          /\ target' = [target EXCEPT ![at] = None]
      BY <1>3, <2>3 DEF MoveAside
    <3>2. \A t \in Targets : /\ target'[t] \in {None, target[t]}
                             /\ backup'[t] = backup[t] \/ backup'[t] = target[t]
      BY <1>1, <3>1
    <3> QED  BY <2>1, <3>2, Moves DEF Exists
  <2> QED  BY <2>2, <2>3
<1>4. CASE Link
  <2>1. UNCHANGED <<temps, identity, backup>> /\ at \in temps
    BY <1>1, <1>4 DEF Link, TempsInv, Trying
  <2>2. \A t \in Targets : target'[t] = target[t] \/ (t = at /\ target'[t] = New(at))
    BY <1>1, <1>4 DEF Link
  <2> QED  BY <1>1, <2>1, <2>2, Moves DEF Exists
<1>5. CASE CleanUp
  <2>1. UNCHANGED <<target, backup, identity>> /\ temps' \subseteq temps
    BY <1>5 DEF CleanUp
  <2> QED  BY <2>1, Moves DEF Exists
<1>6. CASE Discard
  <2>1. UNCHANGED <<target, temps, identity>>
    BY <1>6 DEF Discard
  <2>2. \A t \in Targets : backup'[t] \in {None, backup[t]}
    BY <1>1, <1>6 DEF Discard
  <2> QED  BY <2>1, <2>2, Moves DEF Exists
<1> QED  BY <1>2, <1>3, <1>4, <1>5, <1>6 DEF Forward

LEMMA RollbackFiles == TypeOK /\ Rollback => NoNewFile
<1> SUFFICES ASSUME TypeOK, Rollback PROVE NoNewFile
  OBVIOUS
<1>1. /\ at \in Targets
      /\ target \in [Targets -> Files \cup {None}]
      /\ backup \in [Targets -> Files \cup {None}]
  BY DEF TypeOK
<1>2. UNCHANGED <<temps, identity>>
  BY DEF Rollback, CheckInstalled, Unlink, CheckBackup, ReplaceByBackup, Relink, DropBackup, files
<1>3. ASSUME NEW t \in Targets
      PROVE  /\ target'[t] \in {None, target[t], backup[t]}
             /\ backup'[t] \in {None, backup[t]}
  BY <1>1 DEF Rollback, CheckInstalled, Unlink, CheckBackup, ReplaceByBackup, Relink, DropBackup,
              files
<1> QED  BY <1>2, <1>3, Moves DEF Exists

LEMMA NextIdentity ==
    TypeOK /\ TempsInv /\ IdentityInv /\ [Next]_vars => IdentityInv'
<1> SUFFICES ASSUME TypeOK, TempsInv, IdentityInv, [Next]_vars PROVE IdentityInv'
  OBVIOUS
<1>1. /\ at \in Targets
      /\ target \in [Targets -> Files \cup {None}]
      /\ original \in [Targets -> Files \cup {None}]
  BY DEF TypeOK
<1>2. ASSUME NoNewFile,
             \A t \in Targets : \/ original'[t] = original[t]
                                \/ original'[t] = target[t]
      PROVE  IdentityInv'
  <2>1. \A t \in Targets : original'[t] # None => identity[original'[t]] # None
    <3>1. ASSUME NEW t \in Targets, target[t] # None PROVE identity[target[t]] # None
      BY <1>1, <3>1 DEF IdentityInv, Exists
    <3> QED  BY <1>2, <3>1 DEF IdentityInv
  <2>2. \A f \in Files : Exists(f)' => Exists(f)
    BY <1>2 DEF NoNewFile
  <2>3. UNCHANGED identity
    BY <1>2 DEF NoNewFile
  <2> QED  BY <2>1, <2>2, <2>3, Zenon DEF IdentityInv
<1>3. CASE CreateTemporary
  <2>1. Create(New(at)) /\ temps' = temps \cup {at} /\ UNCHANGED <<target, backup, original>>
    BY <1>3 DEF CreateTemporary, records
  <2>2. New(at) \in Files
    BY <1>1, FileFacts
  <2>3. \A g \in Files : Exists(g)' => Exists(g) \/ g = New(at)
    BY <2>1 DEF Exists
  <2> QED  BY <2>1, <2>2, <2>3, CreateKeeps
<1>4. CASE Forward /\ ~CreateTemporary
  <2>1. \A t \in Targets : original'[t] = original[t] \/ original'[t] = target[t]
    BY <1>1, <1>4 DEF Forward, Preflight, RecordTemporary, FindTarget, NoteOriginal, Reserve,
         FreeBackupPath, MoveAside, CheckMoved, Record, Link, CheckLinked, CleanUp, Discard, records
  <2> QED  BY <1>2, <1>4, <2>1, ForwardFiles
<1>5. CASE Rollback
  <2>1. UNCHANGED original
    BY <1>5 DEF Rollback, CheckInstalled, Unlink, CheckBackup, ReplaceByBackup, Relink, DropBackup,
                records
  <2> QED  BY <1>2, <1>5, <2>1, RollbackFiles
<1>6. CASE FaultStep
  BY <1>2, <1>6, FaultPositions, SameFiles DEF files, records
<1>7. ASSUME NEW t \in Targets, ForeignActs(t) PROVE IdentityInv'
  <2>1. UNCHANGED <<backup, temps, original>>
    BY <1>7, ForeignStep DEF records
  <2>2. CASE target' = [target EXCEPT ![t] = None] /\ UNCHANGED identity
    <3>1. \A s \in Targets : target'[s] \in {None, target[s]}
      BY <1>1, <2>2
    <3>2. NoNewFile
      BY <2>1, <2>2, <3>1, Moves DEF Exists
    <3> QED  BY <1>2, <2>1, <3>2
  <2>3. ASSUME NEW f \in Files, target' = [target EXCEPT ![t] = f], Create(f)
        PROVE  IdentityInv'
    <3>1. \A s \in Targets : target'[s] = target[s] \/ target'[s] = f
      BY <1>1, <2>3
    <3>2. \A g \in Files : Exists(g)' => Exists(g) \/ g = f
      BY <2>1, <3>1 DEF Exists
    <3> QED  BY <2>1, <2>3, <3>2, CreateKeeps
  <2> QED  BY <1>7, <2>2, <2>3, ForeignStep, Zenon
<1>8. CASE UNCHANGED vars
  BY <1>2, <1>8, SameFiles DEF vars, files, records
<1> QED  BY <1>3, <1>4, <1>5, <1>6, <1>7, <1>8, Steps

-----------------------------------------------------------------------------
(* Noted files.                                                            *)

LEMMA InitNoted == Init => NotedInv
<1> SUFFICES ASSUME Init PROVE NotedInv
  OBVIOUS
<1>1. pc = "preflight" /\ \A t \in Targets : original[t] = None
  BY DEF Init
<1> QED  BY <1>1 DEF NotedInv

LEMMA SameNoted ==
    ASSUME UNCHANGED <<target, backup, original, displaced>>, NEW t \in Targets
    PROVE  NotedIsKept(t)' <=> NotedIsKept(t)
BY DEF NotedIsKept

LEMMA ForwardNoted == TypeOK /\ CommitInv /\ PlacesInv /\ NotedInv /\ Forward => NotedInv'
<1> SUFFICES ASSUME TypeOK, CommitInv, PlacesInv, NotedInv, Forward PROVE NotedInv'
  OBVIOUS
<1>1. /\ at \in Targets /\ at' \in Targets
      /\ target \in [Targets -> Files \cup {None}]
      /\ backup \in [Targets -> Files \cup {None}]
      /\ original \in [Targets -> Files \cup {None}]
  BY ForwardType DEF TypeOK
<1>2. CASE Preflight \/ CreateTemporary \/ RecordTemporary
  <2>1. UNCHANGED original /\ \A t \in Targets : original[t] = None
    BY <1>2 DEF Preflight, CreateTemporary, RecordTemporary, records, NotedInv
  <2>2. \A t \in Targets : NotedIsKept(t)'
    BY <2>1 DEF NotedIsKept
  <2>3. pc' \in {"refused", "stage", "staged", "back up", "record"}
    BY <1>1, <1>2, ForwardPositions
  <2> QED  BY <2>1, <2>2, <2>3 DEF NotedInv
<1>3. CASE FindTarget \/ NoteOriginal \/ Reserve \/ FreeBackupPath \/ MoveAside \/ CheckMoved
           \/ Record \/ Link \/ CheckLinked
  <2>1. \A t \in Targets : NotedIsKept(t)
    BY <1>3 DEF FindTarget, NoteOriginal, Reserve, FreeBackupPath, MoveAside, CheckMoved, Record,
                Link, CheckLinked, NotedInv
  <2>2. ASSUME NEW t \in Targets PROVE NotedIsKept(t)'
    <3>1. CASE NoteOriginal
      <4>1. UNCHANGED <<target, backup, displaced>>
        BY <3>1 DEF NoteOriginal, Environment, files
      <4>2. original'[t] = original[t] \/ original'[t] = target[t]
        BY <1>1, <3>1 DEF NoteOriginal
      <4> QED  BY <2>1, <4>1, <4>2 DEF NotedIsKept
    <3>2. CASE MoveAside
      <4>1. UNCHANGED <<original, displaced>>
        BY <3>2 DEF MoveAside, Environment, records
      <4>2. \/ target'[t] = target[t] /\ backup'[t] = backup[t]
            \/ t = at /\ backup'[t] = target[t]
        BY <1>1, <3>2 DEF MoveAside
      <4>3. backup[at] = None
        BY <1>1, <3>2 DEF MoveAside, PlacesInv
      <4> QED  BY <2>1, <4>1, <4>2, <4>3 DEF NotedIsKept
    <3>3. CASE Link
      <4>1. UNCHANGED <<original, displaced, backup>>
        BY <3>3 DEF Link, Environment, records
      <4>2. target'[t] = target[t] \/ target[t] = None
        BY <1>1, <3>3 DEF Link
      <4> QED  BY <2>1, <4>1, <4>2 DEF NotedIsKept
    <3>4. CASE ~(NoteOriginal \/ MoveAside \/ Link)
      <4>1. UNCHANGED <<target, backup, original, displaced>>
        BY <1>3, <3>4 DEF FindTarget, Reserve, FreeBackupPath, CheckMoved, Record, CheckLinked,
                          Environment, files, records
      <4> QED  BY <2>1, <4>1, SameNoted
    <3> QED  BY <3>1, <3>2, <3>3, <3>4
  <2>3. pc' \in {"note", "back up", "record", "reserve", "free", "move", "moved", "link",
                 "linked", "clean up", "undo installed"}
    BY <1>1, <1>3, ForwardPositions
  <2> QED  BY <2>2, <2>3 DEF NotedInv
<1>4. CASE CleanUp
  <2>1. pc = "clean up" /\ UNCHANGED <<target, backup, original, displaced, failing>>
    BY <1>4 DEF CleanUp, Environment, records
  <2>2. ~failing => \A t \in Targets : NotedIsKept(t)'
    BY <2>1, SameNoted DEF NotedInv
  <2>3. \/ pc' \in {"clean up", "failed"}
        \/ pc' = "discard" /\ ~failing
    BY <1>1, <1>4, ForwardPositions
  <2> QED  BY <2>1, <2>2, <2>3 DEF NotedInv
<1>5. CASE Discard
  <2>1. /\ pc = "discard" /\ UNCHANGED <<target, original, displaced>>
        /\ \A t \in Targets : t # at => backup'[t] = backup[t]
    BY <1>1, <1>5 DEF Discard, Environment, records
  <2>2. \/ pc' = "discard" /\ Onward
        \/ pc' \in {"committed", "cut"}
    BY <1>1, <1>5, ForwardPositions
  <2>3. CASE pc' = "discard" /\ Onward
    <3>1. ASSUME NEW t \in Targets, t >= at' PROVE NotedIsKept(t)'
      <4>1. t # at /\ t >= at
        BY <1>1, <2>3, <3>1, Order, Zenon DEF Onward
      <4>2. NotedIsKept(t)
        BY <2>1, <4>1 DEF NotedInv
      <4> QED  BY <2>1, <4>1, <4>2 DEF NotedIsKept
    <3> QED  BY <2>3, <3>1 DEF NotedInv
  <2>4. CASE pc' \in {"committed", "cut"}
    BY <2>4 DEF NotedInv
  <2> QED  BY <2>2, <2>3, <2>4
<1> QED  BY <1>2, <1>3, <1>4, <1>5 DEF Forward

LEMMA NextNoted ==
    TypeOK /\ CommitInv /\ PlacesInv /\ NotedInv /\ [Next]_vars => NotedInv'
<1> SUFFICES ASSUME TypeOK, CommitInv, PlacesInv, NotedInv, [Next]_vars PROVE NotedInv'
  OBVIOUS
<1>1. /\ at \in Targets /\ at' \in Targets
      /\ target \in [Targets -> Files \cup {None}]
  BY NextType DEF TypeOK
<1>2. CASE Rollback
  <2>1. failing'
    BY <1>1, <1>2, RollbackPositions DEF CommitInv
  <2>2. pc' \in {"unlink", "undo installed", "undo backups", "replace", "relink", "relinked",
                 "clean up"}
    BY <1>1, <1>2, RollbackPositions DEF Rollback
  <2> QED  BY <2>1, <2>2 DEF NotedInv
<1>3. CASE FaultStep
  <2>1. UNCHANGED <<target, backup, original, displaced>>
    BY <1>3, FaultPositions DEF files, records
  <2>2. CASE pc \in Trying
    <3>1. pc' \in {"undo installed", "dead"}
      BY <1>3, <2>2, FaultPositions DEF Trying, RollingBack
    <3> QED  BY <3>1 DEF NotedInv
  <2>3. CASE pc \in RollingBack
    <3>1. \/ pc' \in {"undo installed", "undo backups", "dead"}
          \/ pc' = "clean up" /\ failing'
      BY <1>3, <2>3, FaultPositions DEF Trying, RollingBack, CommitInv
    <3> QED  BY <3>1 DEF NotedInv
  <2>4. CASE pc = "clean up"
    <3>1. \/ ~failing' => ~failing
          \/ pc' = "dead"
      BY <1>3, <2>4, FaultPositions DEF Trying, RollingBack
    <3>2. \/ pc' \in {"clean up", "failed", "cut", "dead"}
          \/ pc' = "discard" /\ ~failing
      BY <1>3, <2>4, FaultPositions DEF Trying, RollingBack
    <3>3. ASSUME ~failing, NEW t \in Targets PROVE NotedIsKept(t)'
      <4>1. NotedIsKept(t)
        BY <2>4, <3>3 DEF NotedInv
      <4> QED  BY <2>1, <3>3, <4>1, SameNoted
    <3>4. CASE pc' \in {"failed", "cut", "dead"}
      BY <3>4 DEF NotedInv
    <3>5. CASE pc' = "clean up"
      <4>1. ~failing' => \A t \in Targets : NotedIsKept(t)'
        BY <3>1, <3>3, <3>5
      <4> QED  BY <3>5, <4>1 DEF NotedInv
    <3>6. CASE pc' = "discard" /\ ~failing
      BY <3>3, <3>6 DEF NotedInv
    <3> QED  BY <3>2, <3>4, <3>5, <3>6
  <2>5. CASE pc = "discard"
    <3>1. \/ pc' = "discard" /\ Onward
          \/ pc' \in {"failed", "committed", "cut"}
      BY <1>3, <2>5, FaultPositions DEF Trying, RollingBack
    <3>2. CASE pc' = "discard" /\ Onward
      <4>1. ASSUME NEW t \in Targets, t >= at' PROVE NotedIsKept(t)'
        <5>1. t >= at
          BY <1>1, <3>2, <4>1, Order, Zenon DEF Onward
        <5> QED  BY <2>1, <2>5, <5>1, SameNoted DEF NotedInv
      <4> QED  BY <3>2, <4>1 DEF NotedInv
    <3>3. CASE pc' \in {"failed", "committed", "cut"}
      BY <3>3 DEF NotedInv
    <3> QED  BY <3>1, <3>2, <3>3
  <2>6. CASE pc \notin Trying \cup RollingBack \cup {"clean up", "discard"}
    <3>1. pc' = "dead"
      BY <1>3, <2>6, FaultPositions
    <3> QED  BY <3>1 DEF NotedInv
  <2> QED  BY <2>2, <2>3, <2>4, <2>5, <2>6
<1>4. ASSUME NEW t \in Targets, ForeignActs(t) PROVE NotedInv'
  <2>1. /\ UNCHANGED <<pc, at, failing, backup, original>>
        /\ displaced' = displaced \cup ({target[t]} \ {None})
        /\ \A s \in Targets : target'[s] = target[s] \/ s = t
    BY <1>1, <1>4, ForeignStep DEF records
  <2>2. ASSUME NEW s \in Targets, NotedIsKept(s) PROVE NotedIsKept(s)'
    BY <2>1, <2>2 DEF NotedIsKept
  <2> QED  BY <2>1, <2>2 DEF NotedInv
<1>5. CASE UNCHANGED vars
  BY <1>5, SameNoted DEF vars, files, records, NotedInv
<1> QED  BY <1>2, <1>3, <1>4, <1>5, Steps, ForwardNoted

-----------------------------------------------------------------------------
(* In any company.                                                         *)

LEMMA InitSafety == Init => SafetyInv
BY InitType, InitPlaces, InitTemps, InitIdentity, InitNoted, Zenon DEF SafetyInv

LEMMA NextSafety == SafetyInv /\ [Next]_vars => SafetyInv'
BY NextType, NextPlaces, NextCommit, NextTemps, NextRemovals, NextIdentity, NextNoted,
   Zenon DEF SafetyInv

\* The invariant that needs no assumption about other programs.
THEOREM SafetyHolds == Spec => []SafetyInv
<1>1. SafetyInv /\ [Next]_vars => SafetyInv'
  BY NextSafety
<1> QED  BY <1>1, InitSafety, PTL DEF Spec

\* The types hold.
THEOREM TypeCorrect == Spec => []TypeOK
<1>1. SafetyInv => TypeOK
  BY DEF SafetyInv
<1> QED  BY <1>1, SafetyHolds, PTL

-----------------------------------------------------------------------------
(* What is lost.                                                           *)

\* The only steps that change what is at a target or in a backup.
LEMMA OtherSteps ==
    ASSUME TypeOK, [Next]_vars, target' # target \/ backup' # backup
    PROVE  \/ MoveAside \/ Link \/ Discard
           \/ Unlink \/ ReplaceByBackup \/ Relink \/ DropBackup
           \/ \E t \in Targets : ForeignActs(t)
<1>1. CASE Forward
  BY <1>1 DEF Forward, Preflight, CreateTemporary, RecordTemporary, FindTarget, NoteOriginal,
              Reserve, FreeBackupPath, CheckMoved, Record, CheckLinked, CleanUp, files
<1>2. CASE Rollback
  BY <1>2 DEF Rollback, CheckInstalled, CheckBackup, files
<1>3. CASE FaultStep
  BY <1>3, FaultPositions DEF files
<1>4. CASE UNCHANGED vars
  BY <1>4 DEF vars, files
<1> QED  BY <1>1, <1>2, <1>3, <1>4, Steps

\* A step after which a file is nowhere that no other program removed and the transaction did not
\* write.
LEMMA WhatIsLost ==
    ASSUME SafetyInv, [Next]_vars, NEW f \in Files, \A t \in Targets : f # New(t), Lost(f)
    PROVE  \/ pc = "discard" /\ backup[at] = f /\ Same(f, original[at])
           \/ pc \in {"unlink", "replace"} /\ target[at] = f
<1>1. /\ TypeOK /\ at \in Targets /\ f # None
      /\ target \in [Targets -> Files \cup {None}] /\ backup \in [Targets -> Files \cup {None}]
  BY NoneAssumption DEF SafetyInv, TypeOK
<1>2. PICK t \in Targets : target[t] = f \/ backup[t] = f
  BY DEF Lost, Exists
<1>3. f \notin displaced' /\ \A s \in Targets : target'[s] # f /\ backup'[s] # f
  BY DEF Lost, Exists
<1>4. target' # target \/ backup' # backup
  BY <1>2, <1>3
<1>5. CASE MoveAside
  <2>1. backup[at] = None
    BY <1>1, <1>5, Order DEF MoveAside, SafetyInv, PlacesInv
  <2>2. target[at] # None
    BY <1>4, <1>5, Zenon DEF MoveAside
  <2>3. /\ backup' = [backup EXCEPT ![at] = target[at]]
        /\ target' = [target EXCEPT ![at] = None]
    BY <1>5, <2>2, Zenon DEF MoveAside
  <2> QED  BY <1>1, <1>2, <1>3, <2>1, <2>3
<1>6. CASE Link
  <2>1. target[at] = None /\ target' = [target EXCEPT ![at] = New(at)] /\ UNCHANGED backup
    BY <1>4, <1>6, Zenon DEF Link
  <2> QED  BY <1>1, <1>2, <1>3, <2>1
<1>7. CASE Discard
  <2>1. /\ pc = "discard" /\ UNCHANGED target
        /\ \A s \in Targets : backup'[s] = backup[s] \/ (s = at /\ Same(backup[s], original[s]))
    BY <1>1, <1>7 DEF Discard
  <2> QED  BY <1>1, <1>2, <1>3, <2>1
<1>8. CASE Unlink
  <2>1. pc = "unlink" /\ UNCHANGED backup /\ target' = [target EXCEPT ![at] = None]
    BY <1>8 DEF Unlink
  <2> QED  BY <1>1, <1>2, <1>3, <2>1
<1>9. CASE ReplaceByBackup
  <2>1. /\ pc = "replace"
        /\ target' = [target EXCEPT ![at] = backup[at]]
        /\ backup' = [backup EXCEPT ![at] = None]
    BY <1>9 DEF ReplaceByBackup
  <2> QED  BY <1>1, <1>2, <1>3, <2>1
<1>10. CASE Relink
  <2>1. target[at] = None /\ target' = [target EXCEPT ![at] = backup[at]] /\ UNCHANGED backup
    BY <1>4, <1>10, Zenon DEF Relink
  <2> QED  BY <1>1, <1>2, <1>3, <2>1
<1>11. CASE DropBackup
  <2>1. /\ pc = "relinked" /\ UNCHANGED <<target, displaced>>
        /\ \A s \in Targets : s # at => backup'[s] = backup[s]
    BY <1>1, <1>11 DEF DropBackup, Environment
  <2>2. t = at /\ backup[at] = f
    BY <1>2, <1>3, <2>1
  <2>3. target[at] = f \/ f \in displaced
    BY <1>1, <2>1, <2>2 DEF SafetyInv, PlacesInv
  <2> QED  BY <1>1, <1>3, <2>1, <2>3
<1>12. ASSUME NEW s \in Targets, ForeignActs(s) PROVE FALSE
  <2>1. PICK g : target' = [target EXCEPT ![s] = g]
    BY <1>12 DEF ForeignActs
  <2>2. UNCHANGED backup /\ displaced' = displaced \cup ({target[s]} \ {None})
    BY <1>12 DEF ForeignActs
  <2> QED  BY <1>1, <1>2, <1>3, <2>1, <2>2
<1> QED  BY <1>1, <1>4, <1>5, <1>6, <1>7, <1>8, <1>9, <1>10, <1>11, <1>12, OtherSteps

\* A transaction that is committed stays so, however it ends.
LEMMA CommittedStays ==
    ASSUME SafetyInv, [Next]_vars, Committed
    PROVE  Committed'
<1>1. TypeOK /\ at \in Targets /\ ~failing /\ pc \in {"discard", "committed", "cut"}
  BY DEF SafetyInv, TypeOK, Committed
<1>2. CASE Forward
  <2>1. Discard
    BY <1>1, <1>2 DEF Forward, Preflight, CreateTemporary, RecordTemporary, FindTarget,
         NoteOriginal, Reserve, FreeBackupPath, MoveAside, CheckMoved, Record, Link, CheckLinked,
         CleanUp
  <2>2. UNCHANGED failing /\ pc' \in {"discard", "committed", "cut"}
    BY <1>1, <1>2, <2>1, ForwardPositions
  <2> QED  BY <1>1, <2>2 DEF Committed
<1>3. CASE Rollback
  BY <1>1, <1>3, RollbackPositions DEF RollingBack
<1>4. CASE FaultStep
  <2>1. UNCHANGED failing /\ pc' \in {"discard", "committed", "cut"}
    BY <1>1, <1>4, FaultPositions DEF Running, Trying, RollingBack
  <2> QED  BY <1>1, <2>1 DEF Committed
<1>5. CASE (\E t \in Targets : ForeignActs(t)) \/ UNCHANGED vars
  BY <1>1, <1>5 DEF ForeignActs, vars, Committed
<1> QED  BY <1>2, <1>3, <1>4, <1>5, Steps

\* Earlier outputs are kept: what the rollback unlinks or replaces is none of them.
LEMMA NextOriginals ==
    SafetyInv /\ OriginalsKept /\ [Next]_vars => OriginalsKept'
<1> SUFFICES ASSUME SafetyInv, OriginalsKept, [Next]_vars, NEW t \in before'
             PROVE  Exists(Old(t))' \/ Old(t) \in displaced' \/ Committed'
  BY DEF OriginalsKept
<1>1. UNCHANGED before /\ displaced \subseteq displaced'
  <2>1. CASE Forward
    BY <2>1 DEF Forward, Preflight, CreateTemporary, RecordTemporary, FindTarget, NoteOriginal,
                Reserve, FreeBackupPath, MoveAside, CheckMoved, Record, Link, CheckLinked, CleanUp,
                Discard, Environment
  <2>2. CASE Rollback
    BY <2>2 DEF Rollback, CheckInstalled, Unlink, CheckBackup, ReplaceByBackup, Relink,
                DropBackup, Environment
  <2>3. CASE FaultStep
    BY <2>3, FaultPositions DEF SafetyInv
  <2>4. CASE (\E s \in Targets : ForeignActs(s)) \/ UNCHANGED vars
    BY <2>4 DEF ForeignActs, vars
  <2> QED  BY <2>1, <2>2, <2>3, <2>4, Steps
<1>2. t \in before /\ t \in Targets /\ Old(t) \in Files /\ \A s \in Targets : Old(t) # New(s)
  BY <1>1, FileFacts DEF SafetyInv, TypeOK
<1>3. CASE Old(t) \in displaced
  BY <1>1, <1>3
<1>4. CASE Committed
  BY <1>4, CommittedStays
<1>5. CASE Exists(Old(t))
  <2>1. SUFFICES ASSUME Lost(Old(t)) PROVE Committed'
    BY <1>5 DEF Lost
  <2>2. \/ pc = "discard"
        \/ pc \in {"unlink", "replace"} /\ target[at] = Old(t)
    BY <1>2, <2>1, WhatIsLost
  <2>3. pc = "discard"
    BY <1>2, <2>2 DEF SafetyInv, PlacesInv
  <2>4. Committed
    BY <2>3 DEF SafetyInv, CommitInv, Committed
  <2> QED  BY <2>4, CommittedStays
<1> QED  BY <1>2, <1>3, <1>4, <1>5 DEF OriginalsKept

(***************************************************************************)
(* Until the commit point atomic_write_many and _rollback lose no earlier  *)
(* output, whatever fails, dies or interferes, and however often.          *)
(***************************************************************************)
THEOREM OriginalsAreKept == Spec => []OriginalsKept
<1>1. Init => OriginalsKept
  BY DEF Init, OriginalsKept, Exists
<1>2. SafetyInv /\ OriginalsKept /\ [Next]_vars => OriginalsKept'
  BY NextOriginals
<1> QED  BY <1>1, <1>2, SafetyHolds, PTL DEF Spec

\* A backup that is discarded is the noted file, or the noted file was removed by others.
LEMMA DiscardedIsNoted ==
    ASSUME SafetyInv, NEW f \in Files, pc = "discard", backup[at] = f, Same(f, original[at])
    PROVE  LostWithOriginal(f)
<1>1. /\ at \in Targets /\ NotedIsKept(at) /\ IdentityInv
      /\ original \in [Targets -> Files \cup {None}]
  BY Order DEF SafetyInv, TypeOK, NotedInv
<1>2. original[at] \in Files
  BY <1>1 DEF Same
<1>3. Exists(f)
  BY <1>1 DEF Exists
<1>4. CASE target[at] = original[at] \/ backup[at] = original[at]
  <2>1. Exists(original[at])
    BY <1>1, <1>4 DEF Exists
  <2>2. f = original[at]
    BY <1>1, <1>2, <1>3, <2>1, Zenon DEF IdentityInv, Same
  <2> QED  BY <1>1, <2>2, Zenon DEF LostWithOriginal
<1>5. CASE original[at] \in displaced
  BY <1>1, <1>5, Zenon DEF LostWithOriginal
<1> QED  BY <1>1, <1>2, <1>4, <1>5, NoneAssumption DEF NotedIsKept

\* A comparison of identities that lets a target be unlinked or replaced found this
\* transaction's file there.
LEMMA ComparedIsNew ==
    ASSUME SafetyInv, [Next]_vars, pc' \in {"unlink", "replace"}, pc' # pc
    PROVE  target'[at'] = New(at')
<1>1. TypeOK /\ TempsInv /\ IdentityInv /\ at \in Targets
  BY DEF SafetyInv, TypeOK
<1>2. CheckInstalled \/ CheckBackup
  <2>1. ~Forward
    BY <1>1, ForwardPositions DEF Forward
  <2>2. ~FaultStep
    BY <1>1, FaultPositions DEF Trying, RollingBack
  <2>3. ~(Unlink \/ ReplaceByBackup \/ Relink \/ DropBackup)
    BY <1>1, PreviousInstalledStep, PreviousBackupStep
    DEF Unlink, ReplaceByBackup, Relink, DropBackup
  <2>4. ~(UNCHANGED vars \/ \E t \in Targets : ForeignActs(t))
    BY DEF vars, ForeignActs
  <2> QED  BY <2>1, <2>2, <2>3, <2>4, Steps DEF Rollback
<1>3. pc \in RollingBack /\ UNCHANGED target
  BY <1>2 DEF CheckInstalled, CheckBackup, files, RollingBack
<1>4. at' = at /\ at \in installed /\ Same(target[at], New(at))
  BY <1>1, <1>2, PreviousInstalledStep, PreviousBackupStep DEF CheckInstalled, CheckBackup, Ours
<1> QED  BY <1>1, <1>3, <1>4, OursIsNew

(***************************************************************************)
(* What another program writes to a target is lost to the transaction only *)
(* where force covers it, where it has the identity of a noted file that   *)
(* another program removed, or between a comparison of identities that     *)
(* found the transaction's own file and the unlink or replace that relies  *)
(* on it; also when the identities of removed files are used again.        *)
(***************************************************************************)
THEOREM ReplacementsAreKept == Spec => ReplacementsKept
<1>1. SafetyInv /\ [Next]_vars =>
        /\ \A f \in ForeignFiles :
              Lost(f) => \/ Committed /\ LostWithOriginal(f)
                         \/ pc \in {"unlink", "replace"} /\ target[at] = f
        /\ pc' \in {"unlink", "replace"} /\ pc' # pc => target'[at'] = New(at')
  <2> SUFFICES ASSUME SafetyInv, [Next]_vars
               PROVE  /\ \A f \in ForeignFiles :
                            Lost(f) => \/ Committed /\ LostWithOriginal(f)
                                       \/ pc \in {"unlink", "replace"} /\ target[at] = f
                      /\ pc' \in {"unlink", "replace"} /\ pc' # pc => target'[at'] = New(at')
    OBVIOUS
  <2>1. ASSUME NEW f \in ForeignFiles, Lost(f)
        PROVE  \/ Committed /\ LostWithOriginal(f)
               \/ pc \in {"unlink", "replace"} /\ target[at] = f
    <3>1. f \in Files /\ \A t \in Targets : f # New(t)
      BY ForeignFacts DEF Files
    <3>2. \/ pc = "discard" /\ backup[at] = f /\ Same(f, original[at])
          \/ pc \in {"unlink", "replace"} /\ target[at] = f
      BY <2>1, <3>1, WhatIsLost
    <3>3. pc = "discard" => Committed
      BY DEF SafetyInv, CommitInv, Committed
    <3> QED  BY <3>1, <3>2, <3>3, DiscardedIsNoted
  <2> QED  BY <2>1, ComparedIsNew
<1> QED  BY <1>1, SafetyHolds, PTL DEF Spec, ReplacementsKept

-----------------------------------------------------------------------------
(* The identities of a transaction that is alone.                          *)

LEMMA InitOwnIdentity == Init => OwnIdentityInv
<1> SUFFICES ASSUME Init PROVE OwnIdentityInv
  OBVIOUS
<1>1. /\ identity = [f \in Files |-> IF \E t \in before : f = Old(t) THEN f ELSE None]
      /\ target = [t \in Targets |-> IF t \in before THEN Old(t) ELSE None]
      /\ before \subseteq Targets
  BY DEF Init
<1>2. \A f \in Files : identity[f] \in {f, None}
  BY <1>1
<1>3. ASSUME NEW f \in Files, identity[f] # None PROVE Exists(f)
  <2>1. PICK t \in before : f = Old(t)
    BY <1>1, <1>3
  <2> QED  BY <1>1, <2>1 DEF Exists
<1> QED  BY <1>2, <1>3 DEF OwnIdentityInv

\* While files are staged every file that ever was still is: no identity is used again.
LEMMA CreateOwnIdentity == TypeOK /\ OwnIdentityInv /\ CreateTemporary => OwnIdentityInv'
<1> SUFFICES ASSUME TypeOK, OwnIdentityInv, CreateTemporary PROVE OwnIdentityInv'
  OBVIOUS
<1>1. /\ pc = "stage" /\ Create(New(at)) /\ temps' = temps \cup {at}
      /\ UNCHANGED <<target, backup>>
  BY DEF CreateTemporary
<1>2. at \in Targets /\ New(at) \in Files
  BY FileFacts DEF TypeOK
<1>3. PICK i \in Files :
         /\ identity' = [identity EXCEPT ![New(at)] = i]
         /\ \A g \in Files : Exists(g) => identity[g] # i
         /\ i = New(at) \/ \E g \in Files : i = identity[g]
  BY <1>1, <1>2, CreateFacts
<1>4. i = New(at)
  <2>1. \A g \in Files : identity[g] # None => Exists(g)
    BY <1>1 DEF OwnIdentityInv
  <2>2. i # None
    BY NoneAssumption
  <2> QED  BY <1>3, <2>1, <2>2
<1>5. \A f \in Files : identity'[f] = IF f = New(at) THEN f ELSE identity[f]
  BY <1>2, <1>3, <1>4 DEF TypeOK
<1>6. \A f \in Files : identity'[f] \in {f, None}
  BY <1>5 DEF OwnIdentityInv
<1>7. \A f \in Files : Exists(f) \/ f = New(at) => Exists(f)'
  BY <1>1, <1>2 DEF Exists
<1>8. \A f \in Files : identity'[f] # None => Exists(f)'
  BY <1>1, <1>5, <1>7 DEF OwnIdentityInv
<1> QED  BY <1>6, <1>8 DEF OwnIdentityInv

LEMMA NextOwnIdentity ==
    ASSUME TypeOK, OwnIdentityInv, Forward \/ Rollback \/ FaultStep
    PROVE  OwnIdentityInv'
<1>1. at \in Targets
  BY DEF TypeOK
<1>2. CASE CreateTemporary
  BY <1>2, CreateOwnIdentity
<1>3. CASE Preflight \/ RecordTemporary
  <2>1. UNCHANGED <<target, backup, temps, identity>> /\ pc \in {"preflight"} \cup Staging
    BY <1>3 DEF Preflight, RecordTemporary, files
  <2>2. \A f \in Files : Exists(f) => Exists(f)'
    BY <2>1 DEF Exists
  <2> QED  BY <2>1, <2>2 DEF OwnIdentityInv
<1>4. CASE ~(CreateTemporary \/ Preflight \/ RecordTemporary)
  <2>1. UNCHANGED identity
    <3>1. CASE Forward
      BY <1>4, <3>1 DEF Forward, FindTarget, NoteOriginal, Reserve, FreeBackupPath, MoveAside,
                        CheckMoved, Record, Link, CheckLinked, CleanUp, Discard, files
    <3>2. CASE Rollback
      BY <3>2, RollbackFiles DEF NoNewFile
    <3>3. CASE FaultStep
      BY <3>3, FaultPositions DEF files
    <3> QED  BY <3>1, <3>2, <3>3
  <2>2. pc' \notin {"preflight"} \cup Staging
    <3>1. CASE Forward
      BY <1>1, <1>4, <3>1, ForwardPositions DEF Forward
    <3>2. CASE Rollback
      BY <1>1, <3>2, RollbackPositions DEF Rollback
    <3>3. CASE FaultStep
      BY <3>3, FaultPositions
    <3> QED  BY <3>1, <3>2, <3>3
  <2> QED  BY <2>1, <2>2 DEF OwnIdentityInv
<1> QED  BY <1>2, <1>3, <1>4

\* A file that has the identity of another is that file.
LEMMA SameIsEqual ==
    ASSUME TypeOK, OwnIdentityInv, NEW f \in Files \cup {None}, NEW g \in Files \cup {None},
           f # None => identity[f] # None
    PROVE  Same(f, g) <=> f # None /\ f = g
<1>1. ASSUME Same(f, g) PROVE f # None /\ f = g
  <2>1. f \in Files /\ g \in Files /\ identity[f] = identity[g] /\ identity[f] # None
    BY <1>1 DEF Same
  <2>2. identity[f] = f /\ identity[g] = g
    BY <2>1 DEF OwnIdentityInv
  <2> QED  BY <2>1, <2>2, NoneAssumption
<1>2. ASSUME f # None, f = g PROVE Same(f, g)
  BY <1>2 DEF Same
<1> QED  BY <1>1, <1>2

LEMMA Compared ==
    ASSUME SafetyInv, OwnIdentityInv, NEW t \in Targets
    PROVE  /\ Same(backup[t], original[t]) <=> backup[t] # None /\ backup[t] = original[t]
           /\ Same(target[t], backup[t]) <=> target[t] # None /\ target[t] = backup[t]
           /\ Same(target[t], New(t)) <=> target[t] = New(t)
<1>1. /\ TypeOK
      /\ target[t] \in Files \cup {None} /\ backup[t] \in Files \cup {None}
      /\ original[t] \in Files \cup {None} /\ New(t) \in Files \cup {None} /\ New(t) # None
  BY FileFacts DEF SafetyInv, TypeOK
<1>2. /\ target[t] # None => identity[target[t]] # None
      /\ backup[t] # None => identity[backup[t]] # None
  BY <1>1 DEF SafetyInv, IdentityInv, Exists
<1> QED  BY <1>1, <1>2, SameIsEqual

-----------------------------------------------------------------------------
(* The way forward of a transaction that is alone.                         *)

\* Nothing happens to a target, its backup or its entry.
Kept(t) ==
    /\ target'[t] = target[t] /\ backup'[t] = backup[t] /\ original'[t] = original[t]
    /\ UNCHANGED before

LEMMA KeptFacts ==
    ASSUME NEW t \in Targets, Kept(t)
    PROVE  /\ Untouched(t) => Untouched(t)'
           /\ MovedAside(t) => MovedAside(t)'
           /\ Installed(t) => Installed(t)'
           /\ Restored(t) => Restored(t)'
           /\ Unwound(t) => Unwound(t)'
BY DEF Kept, Untouched, MovedAside, Installed, Restored, Unwound, Before

LEMMA PreflightAlone == SafetyInv /\ ForwardInv /\ Preflight => ForwardInv'
<1> SUFFICES ASSUME SafetyInv, ForwardInv, Preflight PROVE ForwardInv'
  OBVIOUS
<1>1. \A t \in Targets : Untouched(t) /\ Kept(t)
  BY DEF Preflight, ForwardInv, Environment, files, records, Kept
<1>2. \A t \in Targets : Untouched(t)'
  BY <1>1, KeptFacts
<1>3. CASE pc' = "stage"
  <2>1. ~force' => before' = {}
    <3>1. UNCHANGED <<force, before>> /\ (force \/ \A t \in Targets : target[t] = None)
      BY <1>3, Zenon DEF Preflight, Environment
    <3>2. before \subseteq Targets
      BY DEF SafetyInv, TypeOK
    <3> QED  BY <1>1, <3>1, <3>2, FileFacts DEF Untouched, Before
  <2> QED  BY <1>2, <1>3, <2>1 DEF ForwardInv
<1>4. CASE pc' = "refused"
  BY <1>2, <1>4 DEF ForwardInv
<1> QED  BY <1>3, <1>4 DEF Preflight

LEMMA StageAlone ==
    SafetyInv /\ ForwardInv /\ (CreateTemporary \/ RecordTemporary) => ForwardInv'
<1> SUFFICES ASSUME SafetyInv, ForwardInv, CreateTemporary \/ RecordTemporary PROVE ForwardInv'
  OBVIOUS
<1>1. at \in Targets /\ at' \in Targets
  BY ForwardType DEF Forward, SafetyInv, TypeOK
<1>2. /\ \A t \in Targets : Untouched(t) /\ Kept(t)
      /\ ~force => before = {}
      /\ UNCHANGED <<force, before>>
  BY DEF CreateTemporary, RecordTemporary, ForwardInv, Environment, files, records, Kept
<1>3. \A t \in Targets : Untouched(t)'
  BY <1>2, KeptFacts
<1>4. \/ pc' \in {"stage", "staged"}
      \/ pc' = "back up" /\ Rewound
      \/ pc' = "record" /\ ~force /\ Rewound
  BY <1>1, NextTargetStep DEF CreateTemporary, RecordTemporary
<1>5. CASE pc' \in {"stage", "staged"}
  BY <1>2, <1>3, <1>5 DEF ForwardInv
<1>6. CASE pc' = "back up" /\ Rewound
  <2>1. \A t \in Targets : ~(t < at')
    BY <1>1, <1>6, Order DEF Rewound
  <2> QED  BY <1>1, <1>3, <1>6, <2>1 DEF ForwardInv
<1>7. CASE pc' = "record" /\ ~force /\ Rewound
  <2>1. \A t \in Targets : ~(t < at')
    BY <1>1, <1>7, Order DEF Rewound
  <2>2. \A t \in Targets : MovedAside(t)'
    BY <1>2, <1>3, <1>7 DEF Untouched, MovedAside, Before
  <2> QED  BY <1>1, <1>7, <2>1, <2>2 DEF ForwardInv
<1> QED  BY <1>4, <1>5, <1>6, <1>7

\* All targets up to this one have been moved aside: on to the next one or to the links.
LEMMA NextMove ==
    ASSUME at \in Targets, at' \in Targets, NextTarget("back up", "record"),
           \A t \in Targets : t <= at => MovedAside(t)',
           \A t \in Targets : t > at => Untouched(t)'
    PROVE  ForwardInv'
<1>1. \/ pc' = "back up" /\ Onward
      \/ pc' = "record" /\ Rewound
  BY NextTargetStep
<1>2. CASE pc' = "back up" /\ Onward
  <2>1. \A t \in Targets : (t < at' => MovedAside(t)') /\ (t > at' => Untouched(t)')
    BY <1>2, Order DEF Onward
  <2>2. Untouched(at)'
    BY <1>2, Order DEF Onward
  <2> QED  BY <1>2, <2>1, <2>2 DEF ForwardInv
<1>3. CASE pc' = "record" /\ Rewound
  <2>1. \A t \in Targets : ~(t < at') /\ MovedAside(t)'
    BY <1>3, Order DEF Rewound
  <2> QED  BY <1>3, <2>1 DEF ForwardInv
<1> QED  BY <1>1, <1>2, <1>3

BackUp == FindTarget \/ NoteOriginal \/ Reserve \/ FreeBackupPath \/ MoveAside \/ CheckMoved

LEMMA BackUpAlone ==
    SafetyInv /\ OwnIdentityInv /\ ForwardInv /\ BackUp => ForwardInv' /\ UNCHANGED failing
<1> SUFFICES ASSUME SafetyInv, OwnIdentityInv, ForwardInv, BackUp
             PROVE  ForwardInv' /\ UNCHANGED failing
  OBVIOUS
<1>1. /\ at \in Targets /\ at' \in Targets
      /\ target \in [Targets -> Files \cup {None}]
      /\ backup \in [Targets -> Files \cup {None}]
      /\ original \in [Targets -> Files \cup {None}]
  BY ForwardType DEF BackUp, Forward, SafetyInv, TypeOK
<1>2. \A t \in Targets : t # at => Kept(t)
  BY <1>1 DEF BackUp, FindTarget, NoteOriginal, Reserve, FreeBackupPath, MoveAside, CheckMoved,
              Environment, files, records, Kept
<1>3. \A t \in Targets : /\ t < at => MovedAside(t)
                         /\ t > at => Untouched(t)
  BY DEF BackUp, FindTarget, NoteOriginal, Reserve, FreeBackupPath, MoveAside, CheckMoved,
         ForwardInv
<1>4. \A t \in Targets : /\ t < at => MovedAside(t)'
                         /\ t > at => Untouched(t)'
  BY <1>1, <1>2, <1>3, KeptFacts, Order
<1>5. UNCHANGED before
  BY DEF BackUp, FindTarget, NoteOriginal, Reserve, FreeBackupPath, MoveAside, CheckMoved,
         Environment
<1>6. CASE FindTarget
  <2>1. Untouched(at) /\ Kept(at) /\ UNCHANGED <<target, failing>>
    BY <1>6 DEF FindTarget, ForwardInv, Environment, files, records, Kept
  <2>2. CASE target[at] = None
    <3>1. NextTarget("back up", "record")
      BY <1>6, <2>2, Zenon DEF FindTarget
    <3>2. \A t \in Targets : t = at => MovedAside(t)'
      BY <1>1, <2>1, <2>2 DEF Untouched, MovedAside, Before, Kept
    <3>3. \A t \in Targets : t <= at => MovedAside(t)'
      BY <1>1, <1>4, <3>2, Order
    <3> QED  BY <1>1, <1>4, <2>1, <3>1, <3>3, NextMove
  <2>3. CASE target[at] # None
    <3>1. pc' = "note" /\ at' = at
      BY <1>6, <2>3, Zenon DEF FindTarget
    <3>2. at \in before
      BY <1>1, <2>1, <2>3, FileFacts DEF Untouched
    <3>3. (Untouched(at) /\ at \in before)'
      BY <1>5, <2>1, <3>1, <3>2 DEF Untouched, Before, Kept
    <3>4. \A t \in Targets : (t < at' => MovedAside(t)') /\ (t > at' => Untouched(t)')
      BY <1>4, <3>1
    <3> QED  BY <2>1, <3>1, <3>3, <3>4 DEF ForwardInv
  <2> QED  BY <2>2, <2>3
<1>7. CASE NoteOriginal
  <2>1. at \in before /\ Untouched(at) /\ UNCHANGED <<target, backup>>
    BY <1>7 DEF NoteOriginal, ForwardInv, files
  <2>2. target[at] # None
    BY <1>1, <2>1, FileFacts DEF Untouched, Before
  <2>3. /\ pc' = "reserve" /\ at' = at /\ UNCHANGED failing
        /\ original' = [original EXCEPT ![at] = target[at]]
    BY <1>7, <2>2, Zenon DEF NoteOriginal
  <2>4. original'[at] = target[at]
    BY <1>1, <2>3
  <2>5. (at \in before /\ Restored(at) /\ original[at] = Before(at))'
    BY <1>5, <2>1, <2>3, <2>4 DEF Untouched, Restored, Before
  <2> QED  BY <1>4, <2>3, <2>5 DEF ForwardInv
<1>8. CASE Reserve \/ FreeBackupPath
  <2>1. /\ at \in before /\ Restored(at) /\ original[at] = Before(at)
        /\ UNCHANGED <<target, backup, original, at, failing>> /\ pc' \in {"free", "move"}
    BY <1>8 DEF Reserve, FreeBackupPath, ForwardInv, records
  <2>2. (at \in before /\ Restored(at) /\ original[at] = Before(at))'
    BY <1>5, <2>1 DEF Restored, Before
  <2> QED  BY <1>4, <2>1, <2>2 DEF ForwardInv
<1>9. CASE MoveAside
  <2>1. at \in before /\ Restored(at) /\ original[at] = Before(at)
    BY <1>9 DEF MoveAside, ForwardInv
  <2>2. target[at] # None
    BY <1>1, <2>1, FileFacts DEF Restored, Before
  <2>3. /\ pc' = "moved" /\ UNCHANGED <<original, at, failing>>
        /\ backup' = [backup EXCEPT ![at] = target[at]]
        /\ target' = [target EXCEPT ![at] = None]
    BY <1>9, <2>2, Zenon DEF MoveAside, records
  <2>4. (at \in before /\ MovedAside(at))'
    BY <1>1, <1>5, <2>1, <2>3 DEF Restored, MovedAside, Before
  <2> QED  BY <1>4, <2>3, <2>4 DEF ForwardInv
<1>10. CASE CheckMoved
  <2>1. at \in before /\ MovedAside(at) /\ UNCHANGED <<target, backup, original>>
    BY <1>10 DEF CheckMoved, ForwardInv, files, records
  <2>2. Same(backup[at], original[at]) /\ target[at] = None
    BY <1>1, <2>1, Compared, FileFacts DEF MovedAside, Before
  <2>3. NextTarget("back up", "record") /\ UNCHANGED failing
    BY <1>10, <2>2, Zenon DEF CheckMoved
  <2>4. \A t \in Targets : t = at => MovedAside(t)'
    BY <1>1, <1>5, <2>1 DEF MovedAside, Before
  <2>5. \A t \in Targets : t <= at => MovedAside(t)'
    BY <1>1, <1>4, <2>4, Order
  <2> QED  BY <1>1, <1>4, <2>3, <2>5, NextMove
<1> QED  BY <1>6, <1>7, <1>8, <1>9, <1>10 DEF BackUp

Install == Record \/ Link \/ CheckLinked

LEMMA InstallAlone ==
    SafetyInv /\ OwnIdentityInv /\ ForwardInv /\ Install => ForwardInv' /\ UNCHANGED failing
<1> SUFFICES ASSUME SafetyInv, OwnIdentityInv, ForwardInv, Install
             PROVE  ForwardInv' /\ UNCHANGED failing
  OBVIOUS
<1>1. /\ at \in Targets /\ at' \in Targets
      /\ target \in [Targets -> Files \cup {None}]
  BY ForwardType DEF Install, Forward, SafetyInv, TypeOK
<1>2. \A t \in Targets : t # at => Kept(t)
  BY <1>1 DEF Install, Record, Link, CheckLinked, Environment, files, records, Kept
<1>3. \A t \in Targets : /\ t < at => Installed(t)
                         /\ t > at => MovedAside(t)
  BY DEF Install, Record, Link, CheckLinked, ForwardInv
<1>4. \A t \in Targets : /\ t < at => Installed(t)'
                         /\ t > at => MovedAside(t)'
  BY <1>1, <1>2, <1>3, KeptFacts, Order
<1>5. UNCHANGED before
  BY DEF Install, Record, Link, CheckLinked, Environment
<1>6. CASE Record
  <2>1. MovedAside(at) /\ pc' = "link" /\ UNCHANGED <<target, backup, original, at, failing>>
    BY <1>6 DEF Record, ForwardInv, files
  <2>2. MovedAside(at)'
    BY <1>5, <2>1 DEF MovedAside, Before
  <2> QED  BY <1>4, <2>1, <2>2 DEF ForwardInv
<1>7. CASE Link
  <2>1. MovedAside(at)
    BY <1>7 DEF Link, ForwardInv
  <2>2. /\ pc' = "linked" /\ UNCHANGED <<backup, original, at, failing>>
        /\ target' = [target EXCEPT ![at] = New(at)]
    BY <1>7, <2>1, Zenon DEF Link, MovedAside, records
  <2>3. Installed(at)'
    BY <1>1, <1>5, <2>1, <2>2 DEF MovedAside, Installed, Before
  <2> QED  BY <1>4, <2>2, <2>3 DEF ForwardInv
<1>8. CASE CheckLinked
  <2>1. Installed(at) /\ UNCHANGED <<target, backup, original>>
    BY <1>8 DEF CheckLinked, ForwardInv, files, records
  <2>2. Same(target[at], New(at))
    BY <1>1, <2>1, Compared DEF Installed
  <2>3. NextTarget("record", "clean up") /\ UNCHANGED failing
    BY <1>8, <2>2, Zenon DEF CheckLinked
  <2>4. \A t \in Targets : t = at => Installed(t)'
    BY <1>1, <1>5, <2>1 DEF Installed, Before
  <2>5. \A t \in Targets : t <= at => Installed(t)'
    BY <1>1, <1>4, <2>4, Order
  <2>6. \/ pc' = "record" /\ Onward
        \/ pc' = "clean up" /\ Rewound
    BY <1>1, <2>3, NextTargetStep
  <2>7. CASE pc' = "record" /\ Onward
    <3>1. \A t \in Targets : (t < at' => Installed(t)') /\ (t >= at' => MovedAside(t)')
      BY <1>1, <1>4, <2>5, <2>7, Order DEF Onward
    <3>2. \A t \in Targets : (t < at' => Installed(t)') /\ (t > at' => MovedAside(t)')
      BY <1>1, <3>1, Order
    <3>3. MovedAside(at)'
      BY <1>1, <3>1, Order
    <3> QED  BY <2>3, <2>7, <3>2, <3>3 DEF ForwardInv
  <2>8. CASE pc' = "clean up" /\ Rewound
    <3>1. \A t \in Targets : Installed(t)'
      BY <2>5, <2>8 DEF Rewound
    <3> QED  BY <2>3, <2>8, <3>1 DEF ForwardInv
  <2> QED  BY <2>6, <2>7, <2>8
<1> QED  BY <1>6, <1>7, <1>8 DEF Install

LEMMA EndAlone == SafetyInv /\ ForwardInv /\ (CleanUp \/ Discard) => ForwardInv'
<1> SUFFICES ASSUME SafetyInv, ForwardInv, CleanUp \/ Discard PROVE ForwardInv'
  OBVIOUS
<1>1. at \in Targets
  BY DEF SafetyInv, TypeOK
<1>2. CASE CleanUp
  <2>1. pc = "clean up" /\ UNCHANGED <<target, backup, original, before, failing>>
    BY <1>2 DEF CleanUp, Environment, records
  <2>2. \A t \in Targets : Installed(t) => Installed(t)' /\ target'[t] = New(t)
    BY <2>1, KeptFacts DEF Kept, Installed
  <2>3. pc' \in {"clean up", "failed"} \/ (pc' = "discard" /\ ~failing)
    BY <1>1, <1>2, ForwardPositions DEF Forward
  <2>4. ~failing => \A t \in Targets : Installed(t)' /\ target'[t] = New(t)
    BY <2>1, <2>2 DEF ForwardInv
  <2>5. CASE pc' = "failed"
    BY <2>5 DEF ForwardInv
  <2>6. CASE pc' = "discard" /\ ~failing
    BY <2>4, <2>6 DEF ForwardInv
  <2>7. CASE pc' = "clean up"
    <3>1. ~failing' => \A t \in Targets : Installed(t)'
      BY <2>1, <2>4
    <3> QED  BY <2>7, <3>1 DEF ForwardInv
  <2> QED  BY <2>3, <2>5, <2>6, <2>7
<1>3. CASE Discard
  <2>1. \A t \in Targets : target'[t] = New(t)
    BY <1>3 DEF Discard, ForwardInv
  <2>2. \/ pc' \in {"discard", "cut"}
        \/ pc' = "committed" /\ \A t \in Targets : backup'[t] = None
    BY <1>1, <1>3, NextTargetStep DEF Discard, NextDiscard
  <2> QED  BY <2>1, <2>2 DEF ForwardInv
<1> QED  BY <1>2, <1>3

-----------------------------------------------------------------------------
(* The way back of a transaction that is alone, after one fault.           *)

\* A transaction that tries can be taken back wherever it is.
LEMMA TryingIsRecoverable ==
    ASSUME SafetyInv, ForwardInv, pc \in Trying, NEW t \in Targets
    PROVE  Recoverable(t)
<1>1. at \in Targets
  BY DEF SafetyInv, TypeOK
<1>2. t < at \/ t = at \/ t > at
  BY <1>1, Order
<1>3. Untouched(t) => Restored(t)
  BY DEF Untouched, Restored
<1>4. CASE pc \in Staging
  BY <1>3, <1>4 DEF ForwardInv, Recoverable
<1>5. CASE pc \in BackingUp
  <2>1. /\ t < at => MovedAside(t)
        /\ t > at => Untouched(t)
    BY <1>5 DEF ForwardInv
  <2>2. Untouched(at) \/ Restored(at) \/ MovedAside(at)
    BY <1>5 DEF ForwardInv
  <2> QED  BY <1>2, <1>3, <2>1, <2>2 DEF Recoverable
<1>6. CASE pc \in Installing
  <2>1. t < at => t \in installed
    BY <1>1, <1>6, Order DEF SafetyInv, CommitInv
  <2>2. pc = "linked" => at \in installed
    BY <1>1, <1>6, Order DEF SafetyInv, CommitInv
  <2>3. /\ t < at => Installed(t)
        /\ t > at => MovedAside(t)
    BY <1>6 DEF ForwardInv
  <2>4. MovedAside(at) \/ (pc = "linked" /\ Installed(at))
    BY <1>6 DEF ForwardInv
  <2> QED  BY <1>2, <2>1, <2>2, <2>3, <2>4 DEF Recoverable
<1> QED  BY <1>4, <1>5, <1>6 DEF Trying

\* A file of before is none of the transaction's, so what is restored is unwound.
LEMMA RestoredIsUnwound ==
    ASSUME NEW t \in Targets
    PROVE  /\ Restored(t) => Recoverable(t) /\ Unwound(t)
           /\ MovedAside(t) => Recoverable(t) /\ Unwound(t)
BY FileFacts DEF Restored, MovedAside, Recoverable, Unwound

LEMMA KeptRecoverable ==
    ASSUME NEW t \in Targets, Kept(t), UNCHANGED installed, Recoverable(t)
    PROVE  Recoverable(t)'
BY KeptFacts DEF Recoverable

\* The first loop goes on: this target is unwound.
LEMMA NextUnwound ==
    ASSUME at \in Targets, at' \in Targets, PreviousInstalled,
           \A t \in Targets : Recoverable(t)',
           \A t \in Targets : t >= at => Unwound(t)'
    PROVE  BackwardInv'
<1>1. \/ pc' = "undo installed" /\ Back
      \/ pc' = "undo backups" /\ AtLast /\ \A t \in Targets : t >= at
  BY PreviousInstalledStep
<1>2. CASE pc' = "undo installed" /\ Back
  <2>1. \A t \in Targets : t > at' => Unwound(t)'
    BY <1>2 DEF Back
  <2> QED  BY <1>2, <2>1 DEF BackwardInv
<1>3. CASE pc' = "undo backups" /\ AtLast /\ \A t \in Targets : t >= at
  <2>1. \A t \in Targets : ~(t > at') /\ Unwound(t)'
    BY <1>3, Order DEF AtLast
  <2> QED  BY <1>3, <2>1 DEF BackwardInv
<1> QED  BY <1>1, <1>2, <1>3

LEMMA UndoInstalledAlone ==
    SafetyInv /\ OwnIdentityInv /\ BackwardInv /\ (CheckInstalled \/ Unlink) => BackwardInv'
<1> SUFFICES ASSUME SafetyInv, OwnIdentityInv, BackwardInv, CheckInstalled \/ Unlink
             PROVE  BackwardInv'
  OBVIOUS
<1>1. /\ at \in Targets /\ at' \in Targets
      /\ target \in [Targets -> Files \cup {None}]
  BY RollbackType DEF Rollback, SafetyInv, TypeOK
<1>2. UNCHANGED installed /\ \A t \in Targets : t # at => Kept(t)
  BY <1>1 DEF CheckInstalled, Unlink, Environment, files, records, Kept
<1>3. \A t \in Targets : Recoverable(t) /\ (t > at => Unwound(t))
  BY DEF CheckInstalled, Unlink, BackwardInv, RollingBack
<1>4. \A t \in Targets : /\ t # at => Recoverable(t)'
                         /\ t > at => Unwound(t)'
  BY <1>1, <1>2, <1>3, KeptFacts, KeptRecoverable, Order
<1>5. UNCHANGED before
  BY DEF CheckInstalled, Unlink, Environment
<1>6. CASE CheckInstalled
  <2>1. Kept(at)
    BY <1>6 DEF CheckInstalled, Environment, files, records, Kept
  <2>2. \A t \in Targets : Recoverable(t)'
    BY <1>2, <1>3, <1>4, <2>1, KeptRecoverable
  <2>3. Same(target[at], New(at)) <=> target[at] = New(at)
    BY <1>1, Compared
  <2>4. CASE at \in installed /\ original[at] = None /\ target[at] = New(at)
    <3>1. pc' = "unlink" /\ at' = at /\ UNCHANGED <<target, original>>
      BY <1>6, <2>3, <2>4, Zenon DEF CheckInstalled, files, records
    <3>2. (target[at] = New(at) /\ original[at] = None)'
      BY <2>4, <3>1
    <3> QED  BY <1>4, <2>2, <3>1, <3>2 DEF BackwardInv
  <2>5. CASE ~(at \in installed /\ original[at] = None /\ target[at] = New(at))
    <3>1. PreviousInstalled
      BY <1>6, <2>3, <2>5, Zenon DEF CheckInstalled
    <3>2. Unwound(at)
      BY <1>1, <1>3, <2>5, RestoredIsUnwound DEF Recoverable, Unwound
    <3>3. \A t \in Targets : t = at => Unwound(t)'
      BY <1>1, <2>1, <3>2, KeptFacts
    <3>4. \A t \in Targets : t >= at => Unwound(t)'
      BY <1>1, <1>4, <3>3, Order
    <3> QED  BY <1>1, <2>2, <3>1, <3>4, NextUnwound
  <2> QED  BY <2>4, <2>5
<1>7. CASE Unlink
  <2>1. /\ target' = [target EXCEPT ![at] = None]
        /\ PreviousInstalled
        /\ UNCHANGED <<backup, original>>
    BY <1>7 DEF Unlink, records
  <2>2. target[at] = New(at) /\ original[at] = None
    BY <1>7 DEF Unlink, BackwardInv
  <2>3. backup[at] = None /\ Before(at) = None
    BY <1>1, <1>3, <2>2, FileFacts DEF Recoverable, Restored, MovedAside, Installed
  <2>4. \A t \in Targets : t = at => Restored(t)'
    BY <1>1, <1>5, <2>1, <2>2, <2>3 DEF Restored, Before
  <2>5. \A t \in Targets : t = at => Recoverable(t)' /\ Unwound(t)'
    <3>1. \A t \in Targets : t = at => target'[t] = None
      BY <1>1, <2>1
    <3> QED  BY <2>4, <3>1, FileFacts DEF Recoverable, Unwound
  <2>6. /\ \A t \in Targets : Recoverable(t)'
        /\ \A t \in Targets : t >= at => Unwound(t)'
    BY <1>1, <1>4, <2>5, Order
  <2> QED  BY <1>1, <2>1, <2>6, NextUnwound
<1> QED  BY <1>6, <1>7

\* The second loop goes on: this target is restored.
LEMMA NextRestored ==
    ASSUME at \in Targets, at' \in Targets, temps' \subseteq Targets, PreviousBackup,
           \A t \in Targets : t >= at => Restored(t)',
           \A t \in Targets : t < at => Recoverable(t)' /\ Unwound(t)'
    PROVE  BackwardInv'
<1>1. \/ pc' = "undo backups" /\ Back
      \/ pc' = "clean up" /\ AtFirst /\ \A t \in Targets : t >= at
  BY PreviousBackupStep
<1>2. \A t \in Targets : Restored(t)' => Recoverable(t)' /\ Unwound(t)'
  <2> SUFFICES ASSUME NEW t \in Targets PROVE Restored(t)' => Recoverable(t)' /\ Unwound(t)'
    OBVIOUS
  <2>1. Before(t)' # New(t)
    BY FileFacts DEF Before
  <2> QED  BY <2>1 DEF Restored, Recoverable, Unwound
<1>3. CASE pc' = "undo backups" /\ Back
  <2>1. \A t \in Targets : Recoverable(t)' /\ Unwound(t)'
    BY <1>2, Order
  <2>2. \A t \in Targets : t > at' => Restored(t)'
    BY <1>3 DEF Back
  <2> QED  BY <1>3, <2>1, <2>2 DEF BackwardInv
<1>4. CASE pc' = "clean up" /\ AtFirst /\ \A t \in Targets : t >= at
  <2>1. \A t \in Targets : Restored(t)'
    BY <1>4
  <2>2. Passed' = {}
    BY <1>4 DEF AtFirst, Passed
  <2>3. pc' = "clean up"
    BY <1>4
  <2> QED  BY <2>1, <2>2, <2>3, Zenon DEF BackwardInv, RollingBack
<1> QED  BY <1>1, <1>3, <1>4

LEMMA UndoBackupsAlone ==
    SafetyInv /\ OwnIdentityInv /\ BackwardInv
      /\ (CheckBackup \/ ReplaceByBackup \/ Relink \/ DropBackup) => BackwardInv'
<1> SUFFICES ASSUME SafetyInv, OwnIdentityInv, BackwardInv,
                    CheckBackup \/ ReplaceByBackup \/ Relink \/ DropBackup
             PROVE  BackwardInv'
  OBVIOUS
<1>1. /\ at \in Targets /\ at' \in Targets /\ temps' \subseteq Targets
      /\ target \in [Targets -> Files \cup {None}]
      /\ backup \in [Targets -> Files \cup {None}]
  BY RollbackType DEF Rollback, SafetyInv, TypeOK
<1>2. /\ UNCHANGED <<installed, original, before>>
      /\ \A t \in Targets : t # at => Kept(t)
  BY <1>1 DEF CheckBackup, ReplaceByBackup, Relink, DropBackup, Environment, files, records, Kept
<1>3. \A t \in Targets : /\ t > at => Restored(t)
                         /\ t < at => Recoverable(t) /\ Unwound(t)
  BY DEF CheckBackup, ReplaceByBackup, Relink, DropBackup, BackwardInv
<1>4. \A t \in Targets : /\ t > at => Restored(t)'
                         /\ t < at => Recoverable(t)' /\ Unwound(t)'
  BY <1>1, <1>2, <1>3, KeptFacts, KeptRecoverable, Order
<1>5. ASSUME PreviousBackup, Restored(at), Kept(at)
      PROVE  BackwardInv'
  <2>1. \A t \in Targets : t = at => Restored(t)'
    BY <1>1, <1>5, KeptFacts
  <2>2. \A t \in Targets : t >= at => Restored(t)'
    BY <1>1, <1>4, <2>1, Order
  <2> QED  BY <1>1, <1>4, <1>5, <2>2, NextRestored
<1>6. CASE CheckBackup
  <2>1. Kept(at) /\ UNCHANGED <<target, backup>>
    BY <1>6 DEF CheckBackup, Environment, files, records, Kept
  <2>2. Recoverable(at) /\ Unwound(at)
    BY <1>1, <1>6 DEF CheckBackup, BackwardInv, RollingBack
  <2>3. \A t \in Targets : Recoverable(t)' /\ (t > at => Restored(t)') /\ (t <= at => Unwound(t)')
    BY <1>1, <1>2, <1>4, <2>1, <2>2, KeptFacts, KeptRecoverable, RestoredIsUnwound, <1>3, Order
  <2>4. /\ Same(backup[at], original[at]) <=> backup[at] # None /\ backup[at] = original[at]
        /\ Ours(at) <=> at \in installed /\ target[at] = New(at)
    BY <1>1, Compared DEF Ours
  <2>5. CASE Same(backup[at], original[at]) /\ Ours(at) /\ pc' = "replace" /\ at' = at
    <3>1. Installed(at) /\ backup[at] # None
      BY <1>1, <2>2, <2>4, <2>5, FileFacts DEF Recoverable, Restored, MovedAside
    <3>2. (Installed(at) /\ backup[at] # None /\ Unwound(at))'
      BY <1>2, <2>1, <2>2, <2>5, <3>1 DEF Installed, Before, Unwound
    <3>3. \A t \in Targets : /\ t > at' => Restored(t)'
                             /\ t < at' => Recoverable(t)' /\ Unwound(t)'
      BY <1>4, <2>5
    <3> QED  BY <2>3, <2>5, <3>2, <3>3 DEF BackwardInv
  <2>6. CASE backup[at] # None /\ target[at] = None /\ pc' = "relink" /\ at' = at
    <3>1. MovedAside(at)
      BY <1>1, <2>2, <2>6, FileFacts DEF Recoverable, Restored, Installed
    <3>2. (MovedAside(at) /\ backup[at] # None /\ Unwound(at))'
      BY <1>2, <2>1, <2>2, <2>6, <3>1 DEF MovedAside, Before, Unwound
    <3>3. \A t \in Targets : /\ t > at' => Restored(t)'
                             /\ t < at' => Recoverable(t)' /\ Unwound(t)'
      BY <1>4, <2>6
    <3> QED  BY <2>3, <2>6, <3>2, <3>3 DEF BackwardInv
  <2>7. CASE /\ \/ backup[at] = None
                \/ target[at] # None /\ ~(Same(backup[at], original[at]) /\ Ours(at))
             /\ PreviousBackup
    <3>1. Restored(at)
      BY <1>1, <2>2, <2>4, <2>7, FileFacts
         DEF Recoverable, Unwound, Restored, MovedAside, Installed
    <3> QED  BY <1>5, <2>1, <2>7, <3>1
  <2> QED  BY <1>6, <2>5, <2>6, <2>7, Zenon DEF CheckBackup
<1>7. CASE ReplaceByBackup
  <2>1. Installed(at) /\ PreviousBackup
    BY <1>7 DEF ReplaceByBackup, BackwardInv
  <2>2. /\ target' = [target EXCEPT ![at] = backup[at]]
        /\ backup' = [backup EXCEPT ![at] = None]
    BY <1>7 DEF ReplaceByBackup
  <2>3. \A t \in Targets : t = at => Restored(t)'
    BY <1>1, <1>2, <2>1, <2>2 DEF Installed, Restored, Before
  <2>4. \A t \in Targets : t >= at => Restored(t)'
    BY <1>1, <1>4, <2>3, Order
  <2> QED  BY <1>1, <1>4, <2>1, <2>4, NextRestored
<1>8. CASE Relink
  <2>1. MovedAside(at)
    BY <1>8 DEF Relink, BackwardInv
  <2>2. /\ pc' = "relinked" /\ at' = at /\ UNCHANGED backup
        /\ target' = [target EXCEPT ![at] = backup[at]]
    BY <1>8, <2>1, Zenon DEF Relink, MovedAside
  <2>3. (target[at] = Before(at) /\ backup[at] = Before(at) /\ original[at] = Before(at))'
    BY <1>1, <1>2, <2>1, <2>2 DEF MovedAside, Before
  <2>4. \A t \in Targets : /\ t > at' => Restored(t)'
                           /\ t < at' => Recoverable(t)' /\ Unwound(t)'
    BY <1>4, <2>2
  <2>5. pc' = "relinked"
    BY <2>2
  <2> QED  BY <2>3, <2>4, <2>5 DEF BackwardInv
<1>9. CASE DropBackup
  <2>1. target[at] = Before(at) /\ backup[at] = Before(at) /\ original[at] = Before(at)
    BY <1>9 DEF DropBackup, BackwardInv
  <2>2. /\ PreviousBackup /\ UNCHANGED target
        /\ backup' = [backup EXCEPT ![at] =
                        IF Same(@, original[at]) \/ Same(target[at], @) THEN None ELSE @]
    BY <1>9 DEF DropBackup
  <2>3. Same(backup[at], original[at]) <=> backup[at] # None /\ backup[at] = original[at]
    BY <1>1, Compared
  <2>4. backup'[at] = None
    BY <1>1, <2>1, <2>2, <2>3
  <2>5. \A t \in Targets : t = at => Restored(t)'
    BY <1>1, <1>2, <2>1, <2>2, <2>4 DEF Restored, Before
  <2>6. \A t \in Targets : t >= at => Restored(t)'
    BY <1>1, <1>4, <2>5, Order
  <2> QED  BY <1>1, <1>4, <2>2, <2>6, NextRestored
<1> QED  BY <1>6, <1>7, <1>8, <1>9

-----------------------------------------------------------------------------
(* The transaction that is alone, as a whole.                              *)

\* Nothing but a fault makes it fail.
LEMMA ForwardSucceeds ==
    ASSUME SafetyInv, OwnIdentityInv, ForwardInv, Forward
    PROVE  UNCHANGED failing
<1>1. at \in Targets
  BY DEF SafetyInv, TypeOK
<1>2. CASE BackUp \/ Install
  BY <1>2, BackUpAlone, InstallAlone
<1>3. CASE ~(BackUp \/ Install)
  BY <1>1, <1>3, ForwardPositions DEF Forward, BackUp, Install
<1> QED  BY <1>2, <1>3

LEMMA NextFailure ==
    ASSUME SafetyInv, OwnIdentityInv, ForwardInv, FailureInv, Forward \/ Rollback
    PROVE  FailureInv' /\ UNCHANGED <<failing, faults>>
<1>1. at \in Targets
  BY DEF SafetyInv, TypeOK
<1>2. UNCHANGED failing
  BY <1>1, ForwardSucceeds, RollbackPositions
<1>3. UNCHANGED faults
  BY DEF Forward, Rollback, Preflight, CreateTemporary, RecordTemporary, FindTarget, NoteOriginal,
         Reserve, FreeBackupPath, MoveAside, CheckMoved, Record, Link, CheckLinked, CleanUp,
         Discard, CheckInstalled, Unlink, CheckBackup, ReplaceByBackup, Relink, DropBackup,
         Environment
<1>4. pc' = "failed" => failing
  <2>1. CASE Forward
    BY <1>1, <2>1, ForwardPositions DEF Forward
  <2>2. CASE Rollback
    BY <1>1, <2>2, RollbackPositions DEF Rollback
  <2> QED  BY <2>1, <2>2
<1> QED  BY <1>2, <1>3, <1>4, Zenon DEF FailureInv

\* Where nothing is asked of the way back, and where it has ended.
LEMMA NoWayBack ==
    ASSUME pc' \notin RollingBack \cup {"clean up", "failed"}
    PROVE  BackwardInv'
BY DEF BackwardInv, RollingBack

LEMMA NoWayBackYet ==
    ASSUME pc' = "clean up", ~failing'
    PROVE  BackwardInv'
BY DEF BackwardInv, RollingBack

\* The clean-up leaves none of the temporary files it has passed.
LEMMA CleanUpPasses ==
    ASSUME TypeOK, CleanUp, Passed = {}
    PROVE  /\ Onward => Passed' = {}
           /\ Rewound => staged' \cap temps' = {}
<1>1. /\ at \in Targets /\ temps \subseteq Targets /\ UNCHANGED staged
      /\ temps' = IF at \in staged THEN temps \ {at} ELSE temps
  BY DEF CleanUp, records, TypeOK
<1>2. ASSUME NEW t \in Targets, t <= at PROVE ~(t \in temps' /\ t \in staged)
  <2>1. CASE t = at
    BY <1>1, <2>1
  <2>2. CASE t < at
    BY <1>1, <2>2 DEF Passed
  <2> QED  BY <1>1, <1>2, <2>1, <2>2, Order
<1>3. temps' \subseteq Targets
  BY <1>1
<1>4. ASSUME Onward PROVE Passed' = {}
  BY <1>1, <1>2, <1>3, <1>4 DEF Passed, Onward
<1>5. ASSUME Rewound PROVE staged' \cap temps' = {}
  BY <1>1, <1>2, <1>3, <1>5 DEF Rewound
<1> QED  BY <1>4, <1>5

LEMMA ForwardAlone ==
    ASSUME SafetyInv, OwnIdentityInv, ForwardInv, Forward, failing => BackwardInv
    PROVE  BackwardInv'
<1>1. at \in Targets /\ TypeOK
  BY DEF SafetyInv, TypeOK
<1>2. UNCHANGED failing
  BY ForwardSucceeds
<1>3. CASE CleanUp
  <2>1. CASE failing
    <3>1. pc = "clean up" /\ UNCHANGED <<target, backup, original, before>>
      BY <1>3 DEF CleanUp, Environment, records
    <3>2. Passed = {} /\ \A t \in Targets : Restored(t)
      BY <2>1, <3>1 DEF BackwardInv
    <3>3. \A t \in Targets : Restored(t)'
      BY <3>1, <3>2, KeptFacts DEF Kept
    <3>4. (pc' = "clean up" /\ Onward) \/ (pc' = "failed" /\ Rewound)
      BY <1>1, <1>3, <2>1, ForwardPositions
    <3>5. CASE pc' = "clean up" /\ Onward
      <4>1. Passed' = {}
        BY <1>1, <1>3, <3>2, <3>5, CleanUpPasses
      <4>2. pc' = "clean up"
        BY <3>5
      <4> QED  BY <3>3, <4>1, <4>2, Zenon DEF BackwardInv, RollingBack
    <3>6. CASE pc' = "failed" /\ Rewound
      <4>1. staged' \cap temps' = {}
        BY <1>1, <1>3, <3>2, <3>6, CleanUpPasses
      <4>2. pc' = "failed"
        BY <3>6
      <4> QED  BY <3>3, <4>1, <4>2, Zenon DEF BackwardInv, RollingBack
    <3> QED  BY <3>4, <3>5, <3>6
  <2>2. CASE ~failing
    <3>1. pc' = "discard" \/ (pc' = "clean up" /\ ~failing')
      BY <1>1, <1>2, <1>3, <2>2, ForwardPositions
    <3> QED  BY <3>1, NoWayBack, NoWayBackYet DEF RollingBack
  <2> QED  BY <2>1, <2>2
<1>4. CASE ~CleanUp
  <2>1. ~failing
    BY <1>4 DEF Forward, Preflight, CreateTemporary, RecordTemporary, FindTarget, NoteOriginal,
                Reserve, FreeBackupPath, MoveAside, CheckMoved, Record, Link, CheckLinked, Discard,
                SafetyInv, CommitInv, Trying
  <2>2. ~failing'
    BY <1>2, <2>1, Zenon
  <2>3. pc' # "undo installed"
    BY <2>2, NextSafety DEF SafetyInv, CommitInv, RollingBack, Next
  <2>4. pc' \in {"refused", "stage", "staged", "back up", "note", "reserve", "free", "move", "moved",
                 "record", "link", "linked", "clean up", "discard", "committed", "cut"}
    BY <1>1, <1>4, <2>3, ForwardPositions DEF Forward
  <2>5. pc' = "clean up" \/ pc' \notin RollingBack \cup {"clean up", "failed"}
    BY <2>4 DEF RollingBack
  <2> QED  BY <2>2, <2>5, NoWayBack, NoWayBackYet, Zenon
<1> QED  BY <1>3, <1>4

LEMMA RollbackAlone ==
    ASSUME SafetyInv, OwnIdentityInv, BackwardInv, Rollback
    PROVE  BackwardInv'
BY UndoInstalledAlone, UndoBackupsAlone DEF Rollback

\* Once the transaction is on its way back nothing is asked of the way forward.
LEMMA NoWayForward ==
    ASSUME failing', pc' \in RollingBack \cup {"clean up"}
    PROVE  ForwardInv'
<1>1. ~(pc' = "clean up" /\ ~failing')
  OBVIOUS
<1>2. pc' \in {"undo installed", "unlink", "undo backups", "replace", "relink", "relinked",
               "clean up"}
  BY DEF RollingBack
<1> QED  BY <1>1, <1>2 DEF ForwardInv

LEMMA InitAlone == Init => AloneInv
<1> SUFFICES ASSUME Init PROVE AloneInv
  OBVIOUS
<1>1. pc = "preflight" /\ ~failing /\ \A t \in Targets : Untouched(t)
  BY DEF Init, Untouched, Before
<1>2. ForwardInv
  BY <1>1, Zenon DEF ForwardInv
<1>3. BackwardInv
  BY <1>1, Zenon DEF BackwardInv, RollingBack
<1>4. FailureInv
  BY <1>1, Zenon DEF FailureInv
<1> QED  BY <1>2, <1>3, <1>4, InitOwnIdentity DEF AloneInv

\* A first fault, which is an exception before the commit point.
LEMMA InterruptAlone ==
    ASSUME SafetyInv, ForwardInv, Interrupt, FaultStep
    PROVE  ForwardInv' /\ BackwardInv' /\ failing' /\ pc' = "undo installed"
<1>1. pc \in Trying /\ Fail /\ UNCHANGED <<before, target, backup, original, installed>>
  BY DEF Interrupt, files, records
<1>2. \A t \in Targets : Recoverable(t)'
  BY <1>1, TryingIsRecoverable, KeptRecoverable DEF Kept
<1>3. pc' = "undo installed" /\ failing' /\ \A t \in Targets : ~(t > at')
  BY <1>1, FailStep, Order DEF AtLast
<1>4. BackwardInv'
  BY <1>2, <1>3, Zenon DEF BackwardInv, RollingBack
<1>5. ForwardInv'
  BY <1>3, NoWayForward DEF RollingBack
<1> QED  BY <1>3, <1>4, <1>5

\* What a fault leaves of the way forward.
LEMMA FaultForward ==
    ASSUME SafetyInv, ForwardInv, FaultStep
    PROVE  ForwardInv'
<1>1. /\ TypeOK /\ at \in Targets /\ at' \in Targets
      /\ UNCHANGED <<before, target, backup, original>>
  BY FaultPositions DEF SafetyInv, TypeOK, files, records
<1>2. CASE pc' = "undo installed" \/ pc' = "undo backups"
  BY <1>2 DEF ForwardInv
<1>3. CASE pc' = "clean up"
  <2>1. failing' \/ (~failing /\ pc = "clean up")
    BY <1>1, <1>3, FaultPositions DEF SafetyInv, CommitInv, RollingBack
  <2>2. ASSUME ~failing, pc = "clean up" PROVE \A t \in Targets : Installed(t)'
    BY <1>1, <2>2, KeptFacts DEF ForwardInv, Kept
  <2> QED  BY <1>3, <2>1, <2>2 DEF ForwardInv
<1>4. CASE pc' \in {"discard", "cut", "committed"}
  <2>1. /\ pc = "discard" \/ (pc = "clean up" /\ ~failing)
        /\ pc' = "committed" => \A t \in Targets : backup'[t] = None
    BY <1>1, <1>4, FaultPositions DEF RollingBack
  <2>2. \A t \in Targets : target'[t] = New(t)
    BY <1>1, <2>1 DEF ForwardInv, Installed
  <2> QED  BY <1>4, <2>1, <2>2 DEF ForwardInv
<1>5. CASE pc' \in {"failed", "dead"}
  BY <1>5 DEF ForwardInv
<1> QED  BY <1>1, <1>2, <1>3, <1>4, <1>5, FaultPositions

\* A fault that is not the first excuses the way back.
LEMMA FaultBackward ==
    ASSUME SafetyInv, ForwardInv, FailureInv, FaultStep
    PROVE  FailureInv' /\ (faults' <= 1 => BackwardInv')
<1>1. TypeOK /\ faults \in Nat /\ faults' = faults + 1
  <2>1. TypeOK /\ faults \in Nat
    BY DEF SafetyInv, TypeOK
  <2> QED  BY <2>1, FaultPositions, Zenon
<1>2. faults' >= 1
  BY <1>1
<1>3. ASSUME pc' = "failed" PROVE failing'
  <2>1. failing /\ UNCHANGED failing
    BY <1>1, <1>3, FaultPositions DEF RollingBack
  <2> QED  BY <2>1, Zenon
<1>4. FailureInv'
  BY <1>2, <1>3, Zenon DEF FailureInv
<1>5. CASE Interrupt
  BY <1>4, <1>5, InterruptAlone
<1>6. CASE failing
  <2>1. faults >= 1
    BY <1>6, Zenon DEF FailureInv
  <2>2. ~(faults' <= 1)
    BY <1>1, <2>1
  <2> QED  BY <1>4, <2>2
<1>7. CASE ~failing /\ ~Interrupt
  <2>1. pc' \in {"discard", "committed", "cut", "dead"} \/ (pc' = "clean up" /\ ~failing')
    <3>1. pc \notin RollingBack
      BY <1>7 DEF SafetyInv, CommitInv
    <3>2. CASE pc \in Trying
      BY <1>7, <3>1, <3>2 DEF FaultStep, InterruptRollback, InterruptEnd, Skip, Die, Trying,
                              RollingBack
    <3>3. CASE pc \notin Trying
      BY <1>1, <1>7, <3>1, <3>3, FaultPositions
    <3> QED  BY <3>2, <3>3
  <2> QED  BY <1>4, <2>1, NoWayBack, NoWayBackYet DEF RollingBack
<1> QED  BY <1>5, <1>6, <1>7

LEMMA NextAlone == SafetyInv /\ AloneInv /\ [Next]_vars => AloneInv'
<1> SUFFICES ASSUME SafetyInv, AloneInv, [Next]_vars, foreign' = 0
             PROVE  /\ OwnIdentityInv' /\ ForwardInv' /\ FailureInv'
                    /\ faults' <= 1 => BackwardInv'
  BY DEF AloneInv
<1>1. TypeOK /\ foreign \in Nat /\ faults \in Nat /\ faults' \in Nat
  BY NextSafety DEF SafetyInv, TypeOK
<1>2. ASSUME NEW t \in Targets, ForeignActs(t) PROVE FALSE
  BY <1>1, <1>2 DEF ForeignActs
<1>3. foreign = 0
  <2>1. CASE Forward \/ Rollback
    BY <2>1 DEF Forward, Rollback, Preflight, CreateTemporary, RecordTemporary, FindTarget,
                NoteOriginal, Reserve, FreeBackupPath, MoveAside, CheckMoved, Record, Link,
                CheckLinked, CleanUp, Discard, CheckInstalled, Unlink, CheckBackup,
                ReplaceByBackup, Relink, DropBackup, Environment
  <2>2. CASE FaultStep
    BY <1>1, <2>2, FaultPositions
  <2> QED  BY <1>2, <2>1, <2>2, Steps DEF vars
<1>4. OwnIdentityInv /\ ForwardInv /\ FailureInv /\ (faults <= 1 => BackwardInv)
  BY <1>3 DEF AloneInv
<1>5. CASE Forward
  <2>1. ForwardInv'
    BY <1>4, <1>5, PreflightAlone, StageAlone, BackUpAlone, InstallAlone, EndAlone
       DEF Forward, BackUp, Install
  <2>2. FailureInv' /\ faults' = faults
    BY <1>4, <1>5, NextFailure
  <2>3. faults <= 1 => BackwardInv'
    BY <1>4, <1>5, ForwardAlone
  <2>4. OwnIdentityInv'
    BY <1>1, <1>4, <1>5, NextOwnIdentity
  <2> QED  BY <2>1, <2>2, <2>3, <2>4
<1>6. CASE Rollback
  <2>1. at \in Targets /\ failing
    BY <1>1, <1>6, RollbackPositions DEF SafetyInv, CommitInv, TypeOK
  <2>2. failing' /\ pc' \in RollingBack \cup {"clean up"}
    BY <1>6, <2>1, RollbackPositions DEF Rollback, RollingBack
  <2>3. OwnIdentityInv'
    BY <1>1, <1>4, <1>6, NextOwnIdentity
  <2> QED  BY <1>4, <1>6, <2>2, <2>3, NextFailure, RollbackAlone, NoWayForward
<1>7. CASE FaultStep
  BY <1>1, <1>4, <1>7, FaultForward, FaultBackward, NextOwnIdentity
<1>8. CASE UNCHANGED vars
  <2>1. /\ OwnIdentityInv' <=> OwnIdentityInv
        /\ ForwardInv' <=> ForwardInv
        /\ FailureInv' <=> FailureInv
        /\ BackwardInv' <=> BackwardInv
    BY <1>8 DEF vars, files, records, OwnIdentityInv, ForwardInv, FailureInv, BackwardInv, Exists,
                Untouched, MovedAside, Installed, Restored, Recoverable, Unwound, Before, Passed,
                RollingBack
  <2> QED  BY <1>4, <1>8, <2>1 DEF vars
<1> QED  BY <1>2, <1>5, <1>6, <1>7, <1>8, Steps

\* Both halves of the invariant hold, the second as long as no other program acts.
THEOREM Invariance == Spec => []IInv
<1>1. Init => IInv
  BY InitSafety, InitAlone DEF IInv
<1>2. IInv /\ [Next]_vars => IInv'
  BY NextSafety, NextAlone DEF IInv
<1> QED  BY <1>1, <1>2, PTL DEF Spec

\* At most one file is left that no record names.
LEMMA AtMostOneStray ==
    ASSUME OneStray, staged \cap temps = {}
    PROVE  /\ \A s, t \in temps \cup reserved : s = t
           /\ temps = {} \/ reserved = {}
<1>1. CASE temps \subseteq staged /\ \E t \in Targets : reserved \subseteq {t}
  BY <1>1
<1>2. CASE reserved = {} /\ \E t \in Targets : temps \ staged \subseteq {t}
  BY <1>2
<1> QED  BY <1>1, <1>2 DEF OneStray

(***************************************************************************)
(* A transaction nobody interferes with, which fails at any point for one  *)
(* reason, leaves every target as it was, no backup, none of the temporary *)
(* files it recorded and at most one that it did not; one that gets to the *)
(* commit point leaves every target new, and, when it returns, no backup   *)
(* and no more temporary files than removals failed.                       *)
(***************************************************************************)
THEOREM AllOrNothingHolds == Spec => []AllOrNothing
<1>1. IInv => AllOrNothing
  <2> SUFFICES ASSUME IInv, foreign = 0
               PROVE  /\ (pc \in {"refused", "failed"} /\ faults <= 1) =>
                           /\ \A t \in Targets : target[t] = Before(t)
                           /\ \A t \in Targets : backup[t] = None
                           /\ staged \cap temps = {}
                           /\ \A s, t \in temps \cup reserved : s = t
                           /\ temps = {} \/ reserved = {}
                      /\ pc \in {"committed", "cut"} => \A t \in Targets : target[t] = New(t)
                      /\ pc = "committed" =>
                           /\ \A t \in Targets : backup[t] = None
                           /\ reserved = {}
                           /\ Cardinality(temps) <= faults
    BY DEF AllOrNothing, Before
  <2>1. ForwardInv /\ (faults <= 1 => BackwardInv) /\ CommitInv /\ TempsInv /\ RemovalInv
    BY DEF IInv, AloneInv, SafetyInv
  <2>2. ASSUME pc = "refused"
        PROVE  /\ \A t \in Targets : target[t] = Before(t) /\ backup[t] = None
               /\ staged \cap temps = {}
    BY <2>1, <2>2 DEF ForwardInv, Untouched, TempsInv
  <2>3. ASSUME pc = "failed", faults <= 1
        PROVE  /\ \A t \in Targets : target[t] = Before(t) /\ backup[t] = None
               /\ staged \cap temps = {}
    BY <2>1, <2>3, Zenon DEF BackwardInv, Restored
  <2>4. staged \cap temps = {} =>
          /\ \A s, t \in temps \cup reserved : s = t
          /\ temps = {} \/ reserved = {}
    BY <2>1, AtMostOneStray DEF TempsInv
  <2>5. pc = "committed" =>
          /\ \A t \in Targets : backup[t] = None
          /\ Cardinality(temps) <= faults
    BY <2>1, Zenon DEF ForwardInv, RemovalInv
  <2>6. pc = "committed" => reserved = {}
    BY <2>1 DEF CommitInv, TempsInv, NoStray
  <2>7. pc \in {"committed", "cut"} => \A t \in Targets : target[t] = New(t)
    BY <2>1, Zenon DEF ForwardInv
  <2> QED  BY <2>2, <2>3, <2>4, <2>5, <2>6, <2>7, Zenon
<1> QED  BY <1>1, Invariance, PTL
=============================================================================
