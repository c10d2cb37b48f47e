------------------------- MODULE WriterClaim_proofs -------------------------
(***************************************************************************)
(* Proofs about WriterClaim, for every set of writers and of identities.   *)
(***************************************************************************)
EXTENDS WriterClaim, TLAPS

\* The claim on disk exists while a writer holds it, and a file is in it only
\* while it exists.
DirectoryInv ==
    directory = None => owner = NoOwner /\ \A w \in Writers : pc[w] \notin Holding

\* What a writer has learned about the claim is what the disk holds, because
\* nobody else touches the claim before the writer ends.
KnowledgeInv ==
    \A w \in Writers :
        /\ pc[w] = "new" => dirId[w] = None /\ ownerId[w] = None
        /\ pc[w] = "made" => owner = NoOwner /\ dirId[w] = None /\ ownerId[w] = None
        /\ pc[w] = "identified" => dirId[w] = directory /\ owner = NoOwner /\ ownerId[w] = None
        /\ pc[w] = "opened" => dirId[w] = directory /\ owner.id # None /\ ownerId[w] = None
        /\ pc[w] = "stamped" => dirId[w] = directory /\ owner.id # None /\ ownerId[w] = owner.id

IInv == TypeOK /\ MutualExclusion /\ DirectoryInv /\ KnowledgeInv /\ ActiveOwns

\* The invariant holds when no writer has started.
LEMMA InitIInv == Init => IInv
BY ClaimAssumption
   DEF Init, IInv, TypeOK, MutualExclusion, DirectoryInv, KnowledgeInv, ActiveOwns,
       NoOwner, Places, Holding, Entering, Leaving

\* Entry keeps the invariant: only the writer that made the directory goes on.
LEMMA EnterIInv == ASSUME IInv, NEW w \in Writers, Enter(w) PROVE IInv'
<1> USE ClaimAssumption
    DEF IInv, TypeOK, MutualExclusion, DirectoryInv, KnowledgeInv, ActiveOwns, Owns,
        SameDirectory, SameOwner, NoOwner, Places, Holding, Entering, Leaving, Goto, Free
<1>1. CASE MakeDirectory(w)
  BY <1>1 DEF MakeDirectory
<1>2. CASE Refuse(w)
  BY <1>2 DEF Refuse
<1>3. CASE IdentifyDirectory(w)
  BY <1>3 DEF IdentifyDirectory
<1>4. CASE CreateOwner(w)
  BY <1>4 DEF CreateOwner
<1>5. CASE IdentifyOwner(w)
  BY <1>5 DEF IdentifyOwner
<1>6. CASE WriteNonce(w)
  BY <1>6 DEF WriteNonce
<1>7. QED
  BY <1>1, <1>2, <1>3, <1>4, <1>5, <1>6 DEF Enter

\* Release and undo keep the invariant: they remove only the writer's own files.
LEMMA LeaveIInv == ASSUME IInv, NEW w \in Writers, Leave(w) PROVE IInv'
<1> USE ClaimAssumption
    DEF IInv, TypeOK, MutualExclusion, DirectoryInv, KnowledgeInv, ActiveOwns, Owns,
        SameDirectory, SameOwner, NoOwner, Places, Holding, Entering, Leaving, Goto
<1>1. CASE CheckRelease(w)
  BY <1>1 DEF CheckRelease
<1>2. CASE UnlinkOwner(w)
  BY <1>2 DEF UnlinkOwner
<1>3. CASE RemoveDirectory(w)
  BY <1>3 DEF RemoveDirectory
<1>4. CASE UndoEntry(w)
  BY <1>4 DEF UndoEntry
<1>5. QED
  BY <1>1, <1>2, <1>3, <1>4 DEF Leave

\* Failures and the operator keep the invariant.
LEMMA FailIInv == ASSUME IInv, NEW w \in Writers, Fail(w) PROVE IInv'
<1> USE ClaimAssumption
    DEF IInv, TypeOK, MutualExclusion, DirectoryInv, KnowledgeInv, ActiveOwns, Owns,
        SameDirectory, SameOwner, NoOwner, Places, Holding, Entering, Leaving, Goto
<1>1. CASE InterruptEntry(w)
  BY <1>1 DEF InterruptEntry
<1>2. CASE InterruptLeave(w)
  BY <1>2 DEF InterruptLeave
<1>3. CASE Die(w)
  BY <1>3 DEF Die
<1>4. QED
  BY <1>1, <1>2, <1>3 DEF Fail

LEMMA OperatorIInv == ASSUME IInv, OperatorClears PROVE IInv'
BY ClaimAssumption
   DEF IInv, TypeOK, MutualExclusion, DirectoryInv, KnowledgeInv, ActiveOwns, Owns,
       SameDirectory, SameOwner, NoOwner, Places, Holding, Entering, Leaving, OperatorClears

LEMMA NextIInv == IInv /\ [Next]_vars => IInv'
<1> SUFFICES ASSUME IInv, [Next]_vars PROVE IInv'
  OBVIOUS
<1>1. CASE \E w \in Writers : Enter(w) \/ Leave(w) \/ Fail(w)
  BY <1>1, EnterIInv, LeaveIInv, FailIInv
<1>2. CASE OperatorClears
  BY <1>2, OperatorIInv
<1>3. CASE UNCHANGED vars
  BY <1>3
     DEF vars, IInv, TypeOK, MutualExclusion, DirectoryInv, KnowledgeInv, ActiveOwns, Owns,
         SameDirectory, SameOwner
<1>4. QED
  BY <1>1, <1>2, <1>3 DEF Next

\* The inductive invariant holds throughout.
THEOREM Invariance == Spec => []IInv
<1>1. QED
  BY InitIInv, NextIInv, PTL DEF Spec

\* At most one writer is inside the claim, for any number of writers.
THEOREM Exclusion == Spec => []MutualExclusion
<1>1. IInv => MutualExclusion
  BY DEF IInv
<1>2. QED
  BY <1>1, Invariance, PTL

\* The active writer keeps owning what is on disk until it releases it.
THEOREM Ownership == Spec => []ActiveOwns
<1>1. IInv => ActiveOwns
  BY DEF IInv
<1>2. QED
  BY <1>1, Invariance, PTL

\* The identities a writer notes and those on disk have their types, and every
\* writer is at one of the places of the protocol.
THEOREM TypeCorrect == Spec => []TypeOK
<1>1. IInv => TypeOK
  BY DEF IInv
<1>2. QED
  BY <1>1, Invariance, PTL

\* What a writer that leaves still knows: an undo knows either too little or what
\* the disk holds, and a claim that was emptied is empty or was noted too late.
TraceInv ==
    \A w \in Writers :
        /\ pc[w] \in Holding => dirId[w] \in {None, directory}
        /\ pc[w] = "undoing" => None \in {dirId[w], ownerId[w]} \/ ownerId[w] = owner.id
        /\ pc[w] = "emptied" => owner = NoOwner \/ ownerId[w] = None

\* Each step of one writer keeps that, for it and for the others, which do not hold.
LEMMA TraceStep == ASSUME IInv, TraceInv, [Next]_vars PROVE TraceInv'
<1> USE ClaimAssumption
    DEF IInv, TypeOK, MutualExclusion, KnowledgeInv, ActiveOwns, TraceInv, Places, Holding,
        Entering, Leaving, Goto, Owns, SameDirectory, SameOwner, NoOwner
<1>1. ASSUME NEW w \in Writers, Enter(w) PROVE TraceInv'
  <2>1. CASE MakeDirectory(w)
    BY <2>1 DEF MakeDirectory, DirectoryInv
  <2>2. CASE Refuse(w)
    BY <2>2 DEF Refuse
  <2>3. CASE IdentifyDirectory(w)
    BY <2>3 DEF IdentifyDirectory
  <2>4. CASE CreateOwner(w)
    BY <2>4 DEF CreateOwner
  <2>5. CASE IdentifyOwner(w)
    BY <2>5 DEF IdentifyOwner
  <2>6. CASE WriteNonce(w)
    BY <2>6 DEF WriteNonce
  <2>7. QED
    BY <1>1, <2>1, <2>2, <2>3, <2>4, <2>5, <2>6 DEF Enter
<1>2. ASSUME NEW w \in Writers, Leave(w) PROVE TraceInv'
  <2>1. CASE CheckRelease(w)
    BY <2>1 DEF CheckRelease
  <2>2. CASE UnlinkOwner(w)
    BY <2>2 DEF UnlinkOwner
  <2>3. CASE RemoveDirectory(w)
    BY <2>3 DEF RemoveDirectory
  <2>4. CASE UndoEntry(w)
    BY <2>4 DEF UndoEntry
  <2>5. QED
    BY <1>2, <2>1, <2>2, <2>3, <2>4 DEF Leave
<1>3. ASSUME NEW w \in Writers, Fail(w) PROVE TraceInv'
  <2>1. CASE InterruptEntry(w)
    BY <2>1 DEF InterruptEntry
  <2>2. CASE InterruptLeave(w)
    BY <2>2 DEF InterruptLeave
  <2>3. CASE Die(w)
    BY <2>3 DEF Die
  <2>4. QED
    BY <1>3, <2>1, <2>2, <2>3 DEF Fail
<1>4. CASE OperatorClears
  BY <1>4 DEF OperatorClears
<1>5. CASE UNCHANGED vars
  BY <1>5 DEF vars
<1>6. QED
  BY <1>1, <1>2, <1>3, <1>4, <1>5 DEF Next

\* A writer that stops holding the claim has removed the directory, or is one that
\* may leave it.
LEMMA HolderLeaves ==
    ASSUME IInv, TraceInv, NEW w \in Writers, Leave(w) \/ Fail(w)
    PROVE  \/ pc'[w] \in Holding \/ directory' = None
           \/ /\ dirId'[w] \in {None, directory'}
              /\ \/ pc'[w] \in {"dead", "cut"}
                 \/ pc'[w] = "left" /\ None \in {dirId'[w], ownerId'[w]}
<1> USE ClaimAssumption
    DEF IInv, TypeOK, ActiveOwns, TraceInv, Places, Holding, Entering, Leaving, Goto, Owns,
        SameDirectory, SameOwner
<1>1. CASE CheckRelease(w)
  BY <1>1 DEF CheckRelease
<1>2. CASE UnlinkOwner(w)
  BY <1>2 DEF UnlinkOwner
<1>3. CASE RemoveDirectory(w)
  BY <1>3 DEF RemoveDirectory
<1>4. CASE UndoEntry(w)
  BY <1>4 DEF UndoEntry
<1>5. CASE InterruptEntry(w)
  BY <1>5 DEF InterruptEntry
<1>6. CASE InterruptLeave(w)
  BY <1>6 DEF InterruptLeave
<1>7. CASE Die(w)
  BY <1>7 DEF Die
<1>8. QED
  BY <1>1, <1>2, <1>3, <1>4, <1>5, <1>6, <1>7 DEF Leave, Fail

\* Entering holds the claim, or is refused and changes nothing.
LEMMA EntererHolds ==
    ASSUME TypeOK, NEW w \in Writers, Enter(w)
    PROVE  \/ pc'[w] \in Holding
           \/ /\ UNCHANGED <<directory, dirId, ownerId>>
              /\ pc[w] = "new" /\ pc' = [pc EXCEPT ![w] = "refused"]
<1> USE DEF TypeOK, Places, Holding, Entering, Leaving, Goto
<1>1. CASE Refuse(w)
  BY <1>1 DEF Refuse
<1>2. CASE MakeDirectory(w)
  BY <1>2 DEF MakeDirectory
<1>3. CASE IdentifyDirectory(w)
  BY <1>3 DEF IdentifyDirectory
<1>4. CASE CreateOwner(w)
  BY <1>4 DEF CreateOwner
<1>5. CASE IdentifyOwner(w)
  BY <1>5 DEF IdentifyOwner
<1>6. CASE WriteNonce(w)
  BY <1>6 DEF WriteNonce
<1>7. QED
  BY <1>1, <1>2, <1>3, <1>4, <1>5, <1>6 DEF Enter

LEMMA NoLeakStep == ASSUME IInv, TraceInv, NoLeak, [Next]_vars PROVE NoLeak'
<1>1. ASSUME NEW w \in Writers, Enter(w) PROVE NoLeak'
  <2>1. CASE pc'[w] \in Holding
    BY <2>1 DEF NoLeak
  <2>2. CASE /\ UNCHANGED <<directory, dirId, ownerId>>
             /\ pc[w] = "new" /\ pc' = [pc EXCEPT ![w] = "refused"]
    BY <2>2 DEF NoLeak, IInv, TypeOK, Holding, Entering, Leaving
  <2>3. QED
    BY <1>1, <2>1, <2>2, EntererHolds DEF IInv
<1>2. ASSUME NEW w \in Writers, Leave(w) \/ Fail(w) PROVE NoLeak'
  BY <1>2, HolderLeaves DEF NoLeak
<1>3. CASE OperatorClears
  BY <1>3 DEF OperatorClears, NoLeak
<1>4. CASE UNCHANGED vars
  BY <1>4 DEF vars, NoLeak
<1>5. QED
  BY <1>1, <1>2, <1>3, <1>4 DEF Next

\* An abandoned claim was left by the writer that made it, which died, was cut short in
\* leaving or failed before it had noted what it had made: for any number of writers.
THEOREM NothingLeaks == Spec => []NoLeak
<1>1. Init => NoLeak /\ TraceInv
  BY DEF Init, NoLeak, TraceInv, Holding, Entering, Leaving
<1>2. QED
  BY <1>1, TraceStep, NoLeakStep, Invariance, PTL DEF Spec

-----------------------------------------------------------------------------
(* The claim implements the lock of module Claim.                          *)
Held == \E w \in Writers : pc[w] \in Holding

Status == IF directory = None THEN "free" ELSE IF Held THEN "held" ELSE "abandoned"

\* A step of the one holder that leaves the directory: the lock stays held or
\* becomes abandoned.
LEMMA HolderStep ==
    ASSUME IInv, NEW w \in Writers, pc[w] \in Holding,
           NEW to \in Places, pc' = [pc EXCEPT ![w] = to], directory' = directory
    PROVE  /\ Status = "held"
           /\ Status' = IF to \in Holding THEN "held" ELSE "abandoned"
<1> USE DEF IInv, TypeOK, DirectoryInv
<1>1. directory # None /\ Held
  BY DEF Held
<1>2. \A v \in Writers : v # w => pc[v] \notin Holding /\ pc'[v] = pc[v]
  BY DEF MutualExclusion
<1>3. Held' <=> to \in Holding
  BY <1>2 DEF Held
<1>4. QED
  BY <1>1, <1>3 DEF Status

\* Each step acquires, releases, abandons or clears the lock, or leaves it.
LEMMA StepImplements ==
    ASSUME IInv, [Next]_vars PROVE [Locked!ClaimNext]_Status
<1> USE DEF Goto, Places, Holding, Entering, Leaving
<1> DEFINE Map == [Locked!ClaimNext]_Status
<1>a. \/ Status' = Status
      \/ Status = "free" /\ Status' = "held"
      \/ Status = "held" /\ Status' = "free"
      \/ Status = "held" /\ Status' = "abandoned"
      \/ Status = "abandoned" /\ Status' = "free"
      => Map
  BY DEF Locked!ClaimNext, Locked!Acquire, Locked!Release, Locked!Abandon, Locked!Clear,
         Status, Held
<1>1. ASSUME NEW w \in Writers, Enter(w) \/ Leave(w) \/ Fail(w) PROVE Map
  <2>1. CASE MakeDirectory(w)
    <3>1. directory = None /\ directory' # None
      BY <2>1, ClaimAssumption DEF MakeDirectory, Free
    <3>2. pc'[w] = "made"
      BY <2>1 DEF MakeDirectory, IInv, TypeOK
    <3>3. QED
      BY <3>1, <3>2, <1>a DEF Status, Held
  <2>2. CASE Refuse(w)
    <3>1. Held' <=> Held
      BY <2>2 DEF Refuse, IInv, TypeOK, Held
    <3>2. QED
      BY <2>2, <3>1, <1>a DEF Refuse, Status
  <2>3. CASE RemoveDirectory(w)
    <3>1. CASE owner = NoOwner
      <4>1. Status = "held"
        BY <2>3 DEF RemoveDirectory, IInv, DirectoryInv, Status, Held
      <4>2. Status' = "free"
        BY <2>3, <3>1 DEF RemoveDirectory, Status
      <4>3. QED
        BY <4>1, <4>2, <1>a
    <3>2. CASE owner # NoOwner
      BY <2>3, <3>2, <1>a, HolderStep DEF RemoveDirectory
    <3>3. QED
      BY <3>1, <3>2
  <2>4. CASE \/ IdentifyDirectory(w) \/ CreateOwner(w) \/ IdentifyOwner(w) \/ WriteNonce(w)
             \/ CheckRelease(w) \/ UnlinkOwner(w) \/ UndoEntry(w) \/ Fail(w)
    <3>1. PICK to \in Places : pc' = [pc EXCEPT ![w] = to]
      BY <2>4 DEF IdentifyDirectory, CreateOwner, IdentifyOwner, WriteNonce, CheckRelease,
                  UnlinkOwner, UndoEntry, Fail, InterruptEntry, InterruptLeave, Die
    <3>2. pc[w] \in Holding /\ directory' = directory
      BY <2>4 DEF IdentifyDirectory, CreateOwner, IdentifyOwner, WriteNonce, CheckRelease,
                  UnlinkOwner, UndoEntry, Fail, InterruptEntry, InterruptLeave, Die
    <3>3. QED
      BY <3>1, <3>2, <1>a, HolderStep
  <2>5. QED
    BY <1>1, <2>1, <2>2, <2>3, <2>4 DEF Enter, Leave
<1>2. CASE OperatorClears
  BY <1>2, <1>a DEF OperatorClears, Status, Held
<1>3. CASE UNCHANGED vars
  <2>1. Status' = Status
    BY <1>3 DEF vars, Status, Held
  <2>2. QED
    BY <2>1, <1>a
<1>4. QED
  BY <1>1, <1>2, <1>3 DEF Next

\* The file-system protocol implements the lock, for any number of writers.
THEOREM Implementation == Spec => ImplementsClaim
<1>1. Init => Locked!ClaimInit
  BY DEF Init, Locked!ClaimInit
<1>2. IInv /\ [Next]_vars => [Locked!ClaimNext]_Status
  BY StepImplements
<1>3. QED
  BY <1>1, <1>2, Invariance, PTL DEF Spec, ImplementsClaim, Locked!ClaimSpec, Status, Held
=============================================================================
