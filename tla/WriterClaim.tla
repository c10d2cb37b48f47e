---------------------------- MODULE WriterClaim -----------------------------
(***************************************************************************)
(* The single-writer claim of biasweave/_output.py: a directory that only  *)
(* one process can make, with an owner file in it that holds the nonce of  *)
(* the claim.                                                              *)
(*                                                                         *)
(* A writer here is one WriterClaim object: it enters once, writes while   *)
(* it is active, and is released once.  Every file-system call is a step   *)
(* of its own, so writers interleave between any two calls.  Files are     *)
(* known by their identity (device and inode), and the file system may     *)
(* give the identity of a removed file to a new one.  An exception may     *)
(* arrive between any two calls, and a process may die between any two.    *)
(***************************************************************************)
EXTENDS Integers, FiniteSets

CONSTANTS Writers,    \* the claim objects of all processes
          Identities, \* file identities
          None        \* no file, no identity, no nonce

ASSUME ClaimAssumption == None \notin Writers /\ None \notin Identities

VARIABLES
    directory, \* identity of the claim directory, or None
    owner,     \* the owner file in it: its identity and the nonce it holds
    pc,        \* where each writer is
    dirId,     \* _directory_identity of each writer
    ownerId    \* _owner_identity of each writer

vars == <<directory, owner, pc, dirId, ownerId>>

NoOwner == [id |-> None, nonce |-> None]

\* Writers that made the directory and have not ended since.
Entering == {"made", "identified", "opened", "stamped"}
Leaving  == {"releasing", "undoing", "emptied"}
Holding  == Entering \cup {"active"} \cup Leaving

Init ==
    /\ directory = None
    /\ owner = NoOwner
    /\ pc = [w \in Writers |-> "new"]
    /\ dirId = [w \in Writers |-> None]
    /\ ownerId = [w \in Writers |-> None]

Goto(w, from, to) == pc[w] \in from /\ pc' = [pc EXCEPT ![w] = to]

Free == Identities \ {directory, owner.id}

(***************************************************************************)
(* __enter__: mkdir, stat the directory, create the owner file             *)
(* exclusively, stat it, write the nonce and fsync.                        *)
(***************************************************************************)
\* Mutation: a directory that already exists is accepted (exist_ok=True).
MakeDirectory_ExistOk(w) ==
    /\ Goto(w, {"new"}, "made")
    /\ directory' \in IF directory = None THEN Free ELSE {directory}
    /\ UNCHANGED <<owner, dirId, ownerId>>

MakeDirectory(w) ==
    /\ directory = None
    /\ Goto(w, {"new"}, "made")
    /\ directory' \in Free
    /\ UNCHANGED <<owner, dirId, ownerId>>

\* Mutation: a claim that cannot be taken is cleaned up like an incomplete one.
Refuse_Undoes(w) ==
    /\ directory # None
    /\ Goto(w, {"new"}, "undoing")
    /\ dirId' = [dirId EXCEPT ![w] = directory]
    /\ UNCHANGED <<directory, owner, ownerId>>

\* FileExistsError: another writer holds the claim.
Refuse(w) ==
    /\ directory # None
    /\ Goto(w, {"new"}, "refused")
    /\ UNCHANGED <<directory, owner, dirId, ownerId>>

IdentifyDirectory(w) ==
    /\ Goto(w, {"made"}, "identified")
    /\ dirId' = [dirId EXCEPT ![w] = directory]
    /\ UNCHANGED <<directory, owner, ownerId>>

CreateOwner(w) ==
    /\ directory # None /\ owner = NoOwner
    /\ Goto(w, {"identified"}, "opened")
    /\ \E i \in Free : owner' = [id |-> i, nonce |-> None]
    /\ UNCHANGED <<directory, dirId, ownerId>>

IdentifyOwner(w) ==
    /\ Goto(w, {"opened"}, "stamped")
    /\ ownerId' = [ownerId EXCEPT ![w] = owner.id]
    /\ UNCHANGED <<directory, owner, dirId>>

\* The nonce goes to the open file, wherever its name points by now.
WriteNonce(w) ==
    /\ Goto(w, {"stamped"}, "active")
    /\ owner' = IF owner.id = ownerId[w] THEN [owner EXCEPT !.nonce = w] ELSE owner
    /\ UNCHANGED <<directory, dirId, ownerId>>

(***************************************************************************)
(* owns: the directory and the owner file are still the ones made at       *)
(* entry, and the owner file still holds this claim's nonce.               *)
(***************************************************************************)
SameDirectory(w) == dirId[w] # None /\ directory = dirId[w]
SameOwner(w)     == ownerId[w] # None /\ owner.id = ownerId[w]
Owns(w)          == SameDirectory(w) /\ SameOwner(w) /\ owner.nonce = w

(***************************************************************************)
(* _release: check ownership, unlink the owner file, remove the directory. *)
(* A claim whose ownership changed is left alone.                          *)
(***************************************************************************)
CheckRelease(w) ==
    /\ Goto(w, {"active"}, IF Owns(w) THEN "releasing" ELSE "left")
    /\ UNCHANGED <<directory, owner, dirId, ownerId>>

UnlinkOwner(w) ==
    /\ Goto(w, {"releasing"}, "emptied")
    /\ owner' = NoOwner
    /\ UNCHANGED <<directory, dirId, ownerId>>

\* Mutation: rmdir is tried until the directory is empty.
RemoveDirectory_Retries(w) ==
    /\ owner = NoOwner
    /\ Goto(w, {"emptied"}, "done")
    /\ directory' = None
    /\ UNCHANGED <<owner, dirId, ownerId>>

\* rmdir fails on a directory that is not empty, which is then left.
RemoveDirectory(w) ==
    /\ Goto(w, {"emptied"}, IF owner = NoOwner THEN "done" ELSE "left")
    /\ directory' = IF owner = NoOwner THEN None ELSE directory
    /\ UNCHANGED <<owner, dirId, ownerId>>

(***************************************************************************)
(* _remove_incomplete_claim: an exception during entry unlinks the owner   *)
(* file and removes the directory if they are known to be this writer's.   *)
(***************************************************************************)
UndoEntry(w) ==
    /\ Goto(w, {"undoing"}, IF SameDirectory(w) THEN "emptied" ELSE "left")
    /\ owner' = IF SameDirectory(w) /\ SameOwner(w) THEN NoOwner ELSE owner
    /\ UNCHANGED <<directory, dirId, ownerId>>

(***************************************************************************)
(* Exceptions.  During entry one starts the undo.  In the body of the      *)
(* with statement one is an ordinary release.  During a release or an undo *)
(* one cuts it short, and leaves what is still there; that the handler of  *)
(* _release removes a directory it had emptied is RemoveDirectory.         *)
(***************************************************************************)
\* Mutation: an exception during entry is not cleaned up after.
InterruptEntry_NoUndo(w) ==
    /\ Goto(w, Entering, "left")
    /\ UNCHANGED <<directory, owner, dirId, ownerId>>

InterruptEntry(w) ==
    /\ Goto(w, Entering, "undoing")
    /\ UNCHANGED <<directory, owner, dirId, ownerId>>

InterruptLeave(w) ==
    /\ Goto(w, Leaving, "cut")
    /\ UNCHANGED <<directory, owner, dirId, ownerId>>

Die(w) ==
    /\ Goto(w, Holding, "dead")
    /\ UNCHANGED <<directory, owner, dirId, ownerId>>

(***************************************************************************)
(* The operator removes a claim after making sure nobody holds it.         *)
(***************************************************************************)
OperatorClears ==
    /\ directory # None
    /\ \A w \in Writers : pc[w] \notin Holding
    /\ directory' = None
    /\ owner' = NoOwner
    /\ UNCHANGED <<pc, dirId, ownerId>>

-----------------------------------------------------------------------------
Enter(w) == MakeDirectory(w) \/ Refuse(w) \/ IdentifyDirectory(w) \/ CreateOwner(w)
               \/ IdentifyOwner(w) \/ WriteNonce(w)

Leave(w) == CheckRelease(w) \/ UnlinkOwner(w) \/ RemoveDirectory(w) \/ UndoEntry(w)

Fail(w) == InterruptEntry(w) \/ InterruptLeave(w) \/ Die(w)

Next == (\E w \in Writers : Enter(w) \/ Leave(w) \/ Fail(w)) \/ OperatorClears

Spec == Init /\ [][Next]_vars

FairSpec == Spec /\ \A w \in Writers : WF_vars(Enter(w) \/ Leave(w))

-----------------------------------------------------------------------------
(* Properties.                                                             *)
Places == Holding \cup {"new", "refused", "done", "left", "cut", "dead"}

TypeOK ==
    /\ directory \in Identities \cup {None}
    /\ owner \in [id : Identities \cup {None}, nonce : Writers \cup {None}]
    /\ pc \in [Writers -> Places]
    /\ dirId \in [Writers -> Identities \cup {None}]
    /\ ownerId \in [Writers -> Identities \cup {None}]

(***************************************************************************)
(* No two writers are ever inside the claim, entering and leaving          *)
(* included, however their file-system calls interleave.                   *)
(***************************************************************************)
MutualExclusion ==
    \A v, w \in Writers : pc[v] \in Holding /\ pc[w] \in Holding => v = w

(***************************************************************************)
(* An active writer still owns the directory, the owner file and the nonce *)
(* on disk: no other writer's undo or release ever removed them, even if   *)
(* the file system reuses identities.  So no write that checks owns() is   *)
(* refused to the rightful writer.                                         *)
(***************************************************************************)
ActiveOwns == \A w \in Writers : pc[w] \in {"active", "releasing"} => Owns(w)

(***************************************************************************)
(* A claim whose holder died or gave up is never taken over or removed by  *)
(* a writer: the implementation is a lock that may be left abandoned.      *)
(***************************************************************************)
Locked ==
    INSTANCE Claim WITH
        claim <- IF directory = None THEN "free"
                 ELSE IF \E w \in Writers : pc[w] \in Holding THEN "held"
                 ELSE "abandoned"

ImplementsClaim == Locked!ClaimSpec

(***************************************************************************)
(* A claim on disk that nobody holds was left there by the writer that     *)
(* made it, and only because that writer died, or its release or undo was  *)
(* cut short, or an exception struck before it had noted the identity of   *)
(* what it had just made.  So an exception at any other point of entering  *)
(* leaves nothing behind, whatever earlier writers left.                   *)
(***************************************************************************)
NoLeak ==
    (directory # None /\ \A w \in Writers : pc[w] \notin Holding) =>
        \E w \in Writers :
            /\ dirId[w] \in {None, directory}
            /\ \/ pc[w] \in {"dead", "cut"}
               \/ pc[w] = "left" /\ None \in {dirId[w], ownerId[w]}

\* Every writer that starts to enter ends, one way or another.
EveryWriterEnds == \A w \in Writers : pc[w] \in Holding ~> pc[w] \notin Holding
=============================================================================
