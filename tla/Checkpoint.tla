----------------------------- MODULE Checkpoint -----------------------------
(***************************************************************************)
(* The resumable weave run: biasweave/engine.py over biasweave/ledger.py.  *)
(*                                                                         *)
(* One run owns a directory with an append-only trial ledger               *)
(* (trials.jsonl), a checkpoint (run.json) and a report (frontier.json and *)
(* summary.md, installed together).  A process claims the directory,       *)
(* starts or resumes the run, and repeats: propose a batch, record its     *)
(* keys as pending in run.json, evaluate it, append it to the ledger,      *)
(* commit it in run.json.  A process may be interrupted (an exception      *)
(* unwinds, output transactions roll back, the claim is released) or may   *)
(* crash (nothing is undone and the claim stays until an operator removes  *)
(* it).  A ledger append may stop part-way through a record.               *)
(*                                                                         *)
(* Replacing an existing file takes two steps, as in atomic_write_many:    *)
(* the file is moved aside to a backup, then the new one is linked in.     *)
(* Between the two no file has the target's name.                          *)
(***************************************************************************)
EXTENDS Proposal

CONSTANTS
    Budgets,        \* the total budgets a start or a resume may ask for
    BatchSize,
    MaxStagnation,  \* 0: no stagnation limit
    WallTime,       \* whether the run has a wall-time limit
    MaxNodes,       \* how many batch ends and pending keys fit in run.json
    LedgerFits(_),  \* whether trials fit the limits of trials.jsonl and of its records
    MaxFaults       \* bound: interruptions, crashes and cut appends

ASSUME CheckpointAssumption ==
    /\ Budgets \subseteq Nat \ {0}
    /\ BatchSize \in Nat \ {0}
    /\ MaxStagnation \in Nat
    /\ WallTime \in BOOLEAN
    /\ MaxNodes \in Nat
    /\ MaxFaults \in Nat

VARIABLES
    (* the run's directory *)
    ledgerFile, \* whether trials.jsonl exists
    ledger,     \* its complete records
    tail,       \* how it ends: a newline, a record lacking it, or a fragment
    metaFile,   \* whether run.json exists
    meta,       \* its content, or that of its backup while it is moved aside
    report,     \* the installed report
    claim,      \* the run-scoped writer claim
    (* the process that holds the claim *)
    pc, budget, trials, gen, stagnation, batchEnds,
    points,     \* the points to evaluate
    start,      \* where in the trials the current batch starts
    batch,      \* the evaluated trials to append
    refused,    \* why the last resume was refused
    faults      \* how many faults happened

disk   == <<ledgerFile, ledger, tail, metaFile, meta, report>>
search == <<budget, trials, gen, stagnation, batchEnds, points, start, batch>>
vars   == <<disk, claim, pc, search, refused, faults>>

-----------------------------------------------------------------------------
\* TrialLedger.read: a missing file is an empty ledger, a fragment is ignored.
Durable == IF ledgerFile THEN ledger ELSE <<>>

Metadata(pending) ==
    [completed |-> Len(trials), stagnation |-> stagnation, generator |-> gen,
     batchEnds |-> batchEnds, pending |-> pending]

Nodes(m) == Len(m.batchEnds) + Len(m.pending)

NewMetadata ==
    [completed |-> 0, stagnation |-> 0, generator |-> NewGenerator,
     batchEnds |-> <<>>, pending |-> <<>>]

(***************************************************************************)
(* _reconstruct_generator: propose and observe every committed batch anew, *)
(* comparing the points proposed with the trials recorded.                 *)
(***************************************************************************)
AfterBatch(before, i, ts, ends) ==
    LET cursor == IF i = 1 THEN 0 ELSE ends[i - 1]
        actual == Slice(ts, cursor + 1, ends[i])
        replay == Batch(before.generator, ends[i] - cursor, Slice(ts, 1, cursor))
    IN  [generator  |-> Observe(replay.generator, Grew(actual)),
         stagnation |-> Stagnation(before.stagnation, actual),
         reproduced |-> before.reproduced /\ replay.points = KeysOf(actual)]

ReplayBatch(earlier, i, ts, ends) ==
    The({AfterBatch(before, i, ts, ends) : before \in {earlier}})

Reconstruct(ts, ends) ==
    LET after[i \in 0 .. Len(ends)] ==
          IF i = 0
          THEN [generator |-> NewGenerator, stagnation |-> 0, reproduced |-> TRUE]
          ELSE ReplayBatch(after[i - 1], i, ts, ends)
    IN  after[Len(ends)]

IsPrefixOf(s, t) == Len(s) <= Len(t) /\ \A i \in DOMAIN s : s[i] = t[i]

(***************************************************************************)
(* What a resume with total budget b reads and recomputes.  The batch to   *)
(* recover is the recorded one or, should the ledger be ahead of a         *)
(* checkpoint that records none, the batch that the budget implies         *)
(* (_replay_ledger_tail).                                                  *)
(***************************************************************************)
Committed == Slice(Durable, 1, meta.completed)
Ahead     == Slice(Durable, meta.completed + 1, Len(Durable))

ToRecover(b) ==
    IF meta.pending # <<>> THEN Len(meta.pending)
    ELSE IF Ahead # <<>> THEN AtMost(BatchSize, b - meta.completed)
    ELSE 0

Replay(generator, n) ==
    IF n = 0 THEN [points |-> <<>>, generator |-> generator]
    ELSE Batch(generator, n, Committed)

\* Why a resume is refused, in the order of the code's checks, given the
\* rebuilt search and the batch replayed from it.
Refusal(b, rebuilt, replayed) ==
    LET pending == meta.pending # <<>>
        state   == IF pending THEN replayed.generator ELSE rebuilt.generator
    IN  IF ~metaFile THEN "no metadata"
        ELSE IF meta.completed > Len(Durable) THEN "ledger is short"
        ELSE IF ~rebuilt.reproduced THEN "sequence not reproducible"
        ELSE IF pending /\ replayed.points # meta.pending THEN "pending not reproducible"
        ELSE IF state # meta.generator \/ rebuilt.stagnation # meta.stagnation
        THEN "state disagrees"
        ELSE IF pending /\ b < meta.completed + Len(meta.pending) THEN "budget"
        ELSE IF ~IsPrefixOf(KeysOf(Ahead), replayed.points) THEN "tail disagrees"
        ELSE IF b < Len(Durable) THEN "budget"
        ELSE "none"

Recovery(b) ==
    The({The({[proposed  |-> replayed.points,
               generator |-> replayed.generator,
               refusal   |-> Refusal(b, rebuilt, replayed)] :
                replayed \in {Replay(rebuilt.generator, ToRecover(b))}}) :
          rebuilt \in {Reconstruct(Committed, meta.batchEnds)}})

-----------------------------------------------------------------------------
Idle ==
    /\ pc' = "idle"
    /\ budget' = 0
    /\ trials' = <<>>
    /\ gen' = NewGenerator
    /\ stagnation' = 0
    /\ batchEnds' = <<>>
    /\ points' = <<>>
    /\ start' = 0
    /\ batch' = <<>>

Init ==
    /\ ledgerFile = FALSE
    /\ ledger = <<>>
    /\ tail = "newline"
    /\ metaFile = FALSE
    /\ meta = NewMetadata
    /\ report = [reason |-> "absent", count |-> 0]
    /\ claim = "free"
    /\ pc = "idle"
    /\ budget = 0
    /\ trials = <<>>
    /\ gen = NewGenerator
    /\ stagnation = 0
    /\ batchEnds = <<>>
    /\ points = <<>>
    /\ start = 0
    /\ batch = <<>>
    /\ refused = "none"
    /\ faults = 0

(***************************************************************************)
(* A fresh run: every artifact must be absent; the four files are one      *)
(* no-clobber transaction, linked one after the other.                     *)
(***************************************************************************)
\* Mutation: existing artifacts are not looked at.
StartFresh_Clobbers(b) ==
    /\ pc = "idle"
    /\ claim = "free"
    /\ claim' = "held"
    /\ budget' = b
    /\ pc' = "install ledger"
    /\ refused' = "none"
    /\ UNCHANGED <<disk, trials, gen, stagnation, batchEnds, points, start, batch, faults>>

StartFresh(b) ==
    /\ pc = "idle"
    /\ claim = "free"
    /\ ~ledgerFile /\ ~metaFile /\ report.reason = "absent"
    /\ claim' = "held"
    /\ budget' = b
    /\ pc' = "install ledger"
    /\ refused' = "none"
    /\ UNCHANGED <<disk, trials, gen, stagnation, batchEnds, points, start, batch, faults>>

InstallLedger ==
    /\ pc = "install ledger"
    /\ ledgerFile' = TRUE
    /\ ledger' = <<>>
    /\ tail' = "newline"
    /\ pc' = "install metadata"
    /\ UNCHANGED <<metaFile, meta, report, claim, search, refused, faults>>

InstallMetadata ==
    /\ pc = "install metadata"
    /\ metaFile' = TRUE
    /\ meta' = NewMetadata
    /\ pc' = "install report"
    /\ UNCHANGED <<ledgerFile, ledger, tail, report, claim, search, refused, faults>>

InstallReport ==
    /\ pc = "install report"
    /\ report' = [reason |-> "in_progress", count |-> 0]
    /\ pc' = "loop"
    /\ UNCHANGED <<ledgerFile, ledger, tail, metaFile, meta, claim, search, refused, faults>>

(***************************************************************************)
(* A resume reads run.json and the ledger, rebuilds the search and either  *)
(* refuses, finds the pending batch complete and commits it, evaluates the *)
(* rest of the pending batch, or continues the loop.                       *)
(***************************************************************************)
ResumeRefused(r) ==
    /\ r.refusal # "none"
    /\ refused' = r.refusal
    /\ UNCHANGED <<disk, claim, pc, search, faults>>

Restore(b, r) ==
    /\ r.refusal = "none"
    /\ refused' = "none"
    /\ claim' = "held"
    /\ budget' = b
    /\ trials' = Durable
    /\ UNCHANGED <<disk, batch, faults>>

\* Mutation: the generator does not observe the batch found complete.
ResumeSettled_Unobserved(b, r) ==
    /\ r.proposed # <<>> /\ Len(Ahead) = Len(r.proposed)
    /\ gen' = r.generator
    /\ stagnation' = Stagnation(meta.stagnation, Ahead)
    /\ batchEnds' = Append(meta.batchEnds, Len(Durable))
    /\ start' = meta.completed
    /\ points' = <<>>
    /\ pc' = "commit"
    /\ Restore(b, r)

ResumeSettled(b, r) ==
    /\ r.proposed # <<>> /\ Len(Ahead) = Len(r.proposed)
    /\ gen' = Observe(r.generator, Grew(Ahead))
    /\ stagnation' = Stagnation(meta.stagnation, Ahead)
    /\ batchEnds' = Append(meta.batchEnds, Len(Durable))
    /\ start' = meta.completed
    /\ points' = <<>>
    /\ pc' = "commit"
    /\ Restore(b, r)

\* Mutation: the whole pending batch is evaluated again, not its rest.
ResumeUnsettled_Whole(b, r) ==
    /\ Len(Ahead) < Len(r.proposed)
    /\ gen' = r.generator
    /\ stagnation' = meta.stagnation
    /\ batchEnds' = meta.batchEnds
    /\ start' = meta.completed
    /\ points' = r.proposed
    /\ pc' = "evaluate"
    /\ Restore(b, r)

\* Mutation: the pending batch is dropped and the loop goes on.
ResumeUnsettled_Dropped(b, r) ==
    /\ Len(Ahead) < Len(r.proposed)
    /\ gen' = r.generator
    /\ stagnation' = meta.stagnation
    /\ batchEnds' = meta.batchEnds
    /\ start' = meta.completed
    /\ points' = <<>>
    /\ pc' = "loop"
    /\ Restore(b, r)

\* Mutation: the batch is taken to start with its rest.
ResumeUnsettled_LateStart(b, r) ==
    /\ Len(Ahead) < Len(r.proposed)
    /\ gen' = r.generator
    /\ stagnation' = meta.stagnation
    /\ batchEnds' = meta.batchEnds
    /\ start' = Len(Durable)
    /\ points' = SubSeq(r.proposed, Len(Ahead) + 1, Len(r.proposed))
    /\ pc' = "evaluate"
    /\ Restore(b, r)

ResumeUnsettled(b, r) ==
    /\ Len(Ahead) < Len(r.proposed)
    /\ gen' = r.generator
    /\ stagnation' = meta.stagnation
    /\ batchEnds' = meta.batchEnds
    /\ start' = meta.completed
    /\ points' = SubSeq(r.proposed, Len(Ahead) + 1, Len(r.proposed))
    /\ pc' = "evaluate"
    /\ Restore(b, r)

ResumeClean(b, r) ==
    /\ r.proposed = <<>>
    /\ gen' = r.generator
    /\ stagnation' = meta.stagnation
    /\ batchEnds' = meta.batchEnds
    /\ start' = Len(Durable)
    /\ points' = <<>>
    /\ pc' = "loop"
    /\ Restore(b, r)

Resume(b) ==
    /\ pc = "idle"
    /\ claim = "free"
    /\ \E r \in {Recovery(b)} :
          \/ ResumeRefused(r)
          \/ ResumeSettled(b, r)
          \/ ResumeUnsettled(b, r)
          \/ ResumeClean(b, r)

(***************************************************************************)
(* The search loop.                                                        *)
(***************************************************************************)
Stagnated == MaxStagnation # 0 /\ stagnation >= MaxStagnation

Wanted == AtMost(BatchSize, budget - Len(trials))

Propose ==
    /\ pc = "loop"
    /\ Len(trials) < budget
    /\ ~Stagnated
    /\ LET proposed == Batch(gen, Wanted, trials)
       IN  /\ proposed.points # <<>>
           /\ points' = proposed.points
           /\ gen' = proposed.generator
    /\ start' = Len(trials)
    /\ pc' = "record"
    /\ UNCHANGED <<disk, claim, budget, trials, stagnation, batchEnds, batch, refused, faults>>

\* Mutation: the size of run.json is not checked before the evaluation.
RecordBackup_Unchecked ==
    /\ pc = "record"
    /\ metaFile' = FALSE
    /\ pc' = "recording"
    /\ UNCHANGED <<ledgerFile, ledger, tail, meta, report, claim, search, refused, faults>>

\* write_metadata with the pending keys: back run.json up, then link the new.
RecordBackup ==
    /\ pc = "record"
    /\ Nodes(Metadata(points)) <= MaxNodes
    /\ metaFile' = FALSE
    /\ pc' = "recording"
    /\ UNCHANGED <<ledgerFile, ledger, tail, meta, report, claim, search, refused, faults>>

RecordInstall ==
    /\ pc = "recording"
    /\ metaFile' = TRUE
    /\ meta' = Metadata(points)
    /\ pc' = "evaluate"
    /\ UNCHANGED <<ledgerFile, ledger, tail, report, claim, search, refused, faults>>

\* Mutation: the checkpoint is written before the ledger.
Evaluate_CommitFirst(gains) ==
    /\ pc = "evaluate"
    /\ batch' = NewTrials(Len(trials), points, gains)
    /\ trials' = trials \o batch'
    /\ LET whole == SubSeq(trials', start + 1, Len(trials'))
       IN  /\ gen' = Observe(gen, Grew(whole))
           /\ stagnation' = Stagnation(stagnation, whole)
    /\ batchEnds' = Append(batchEnds, Len(trials'))
    /\ points' = <<>>
    /\ pc' = "commit"
    /\ UNCHANGED <<disk, claim, budget, start, refused, faults>>

\* Mutation: a resumed batch is judged by the trials evaluated now alone.
Evaluate_RestOnly(gains) ==
    /\ pc = "evaluate"
    /\ batch' = NewTrials(Len(trials), points, gains)
    /\ trials' = trials \o batch'
    /\ gen' = Observe(gen, Grew(batch'))
    /\ stagnation' = Stagnation(stagnation, batch')
    /\ batchEnds' = Append(batchEnds, Len(trials'))
    /\ points' = <<>>
    /\ pc' = "append"
    /\ UNCHANGED <<disk, claim, budget, start, refused, faults>>

Evaluate(gains) ==
    /\ pc = "evaluate"
    /\ batch' = NewTrials(Len(trials), points, gains)
    /\ trials' = trials \o batch'
    /\ LET whole == SubSeq(trials', start + 1, Len(trials'))
       IN  /\ gen' = Observe(gen, Grew(whole))
           /\ stagnation' = Stagnation(stagnation, whole)
    /\ batchEnds' = Append(batchEnds, Len(trials'))
    /\ points' = <<>>
    /\ pc' = "append"
    /\ UNCHANGED <<disk, claim, budget, start, refused, faults>>

\* What an append checks before it opens the file: the trials go on where the
\* ledger ends, and with them it stays within its limits.
Appends ==
    /\ pc = "append"
    /\ batch[1].id = Len(Durable)
    /\ LedgerFits(Durable \o batch)

\* Mutation: the checkpoint is not written after the ledger.
AppendDirect_Uncommitted ==
    /\ Appends
    /\ tail # "fragment" \/ ~ledgerFile
    /\ ledgerFile' = TRUE
    /\ ledger' = Durable \o batch
    /\ tail' = "newline"
    /\ pc' = "loop"
    /\ batch' = <<>>
    /\ UNCHANGED <<metaFile, meta, report, claim, budget, trials, gen, stagnation,
                   batchEnds, points, start, refused, faults>>

\* TrialLedger.append onto a ledger whose last record is complete.
AppendDirect ==
    /\ Appends
    /\ tail # "fragment" \/ ~ledgerFile
    /\ ledgerFile' = TRUE
    /\ ledger' = Durable \o batch
    /\ tail' = "newline"
    /\ pc' = "commit"
    /\ batch' = <<>>
    /\ UNCHANGED <<metaFile, meta, report, claim, budget, trials, gen, stagnation,
                   batchEnds, points, start, refused, faults>>

\* A ledger that ends in a fragment is replaced as a whole, fragment dropped.
RepairBackup ==
    /\ Appends
    /\ ledgerFile /\ tail = "fragment"
    /\ ledgerFile' = FALSE
    /\ pc' = "repairing"
    /\ UNCHANGED <<ledger, tail, metaFile, meta, report, claim, search, refused, faults>>

RepairInstall ==
    /\ pc = "repairing"
    /\ ledgerFile' = TRUE
    /\ ledger' = ledger \o batch
    /\ tail' = "newline"
    /\ pc' = "commit"
    /\ batch' = <<>>
    /\ UNCHANGED <<metaFile, meta, report, claim, budget, trials, gen, stagnation,
                   batchEnds, points, start, refused, faults>>

\* write_metadata with no pending keys.
CommitBackup ==
    /\ pc = "commit"
    /\ Nodes(Metadata(<<>>)) <= MaxNodes
    /\ metaFile' = FALSE
    /\ pc' = "committing"
    /\ UNCHANGED <<ledgerFile, ledger, tail, meta, report, claim, search, refused, faults>>

CommitInstall ==
    /\ pc = "committing"
    /\ metaFile' = TRUE
    /\ meta' = Metadata(<<>>)
    /\ pc' = "loop"
    /\ UNCHANGED <<ledgerFile, ledger, tail, report, claim, search, refused, faults>>

(***************************************************************************)
(* The loop's ends, in the order the code tests them, and write_result.    *)
(***************************************************************************)
Finish(reason) ==
    /\ pc = "loop"
    /\ report' = [reason |-> reason, count |-> Len(trials)]
    /\ claim' = "free"
    /\ Idle
    /\ UNCHANGED <<ledgerFile, ledger, tail, metaFile, meta, refused, faults>>

\* Mutation: the loop is left only beyond the budget.
FinishBudget_OffByOne == Len(trials) > budget /\ Finish("budget")

FinishBudget == Len(trials) >= budget /\ Finish("budget")

FinishWallTime == Len(trials) < budget /\ WallTime /\ Finish("wall_time")

FinishStagnation == Len(trials) < budget /\ Stagnated /\ Finish("stagnation")

FinishEmpty ==
    /\ Len(trials) < budget
    /\ ~Stagnated
    /\ LET proposed == Batch(gen, Wanted, trials)
       IN  proposed.points = <<>> /\ Finish(proposed.reason)

(***************************************************************************)
(* Failures.  TooLarge: run.json or the ledger would not fit its reader's  *)
(* limits, so write_metadata or append raises before it touches the file;  *)
(* append does after the evaluation.  An interruption rolls the open       *)
(* output transaction back; a crash does not.  A cut append leaves a       *)
(* prefix of the batch and perhaps a fragment; it is an I/O error of a     *)
(* process that lives on to release its claim, or a crash.                 *)
(***************************************************************************)
TooLarge ==
    /\ \/ pc = "record" /\ Nodes(Metadata(points)) > MaxNodes
       \/ pc = "append" /\ ~LedgerFits(Durable \o batch)
       \/ pc = "commit" /\ Nodes(Metadata(<<>>)) > MaxNodes
    /\ claim' = "free"
    /\ Idle
    /\ UNCHANGED <<disk, refused, faults>>

Fault == faults < MaxFaults /\ faults' = faults + 1

\* Mutation: the claim is not released when an exception unwinds.
Interrupt_KeepsClaim ==
    /\ pc # "idle"
    /\ Fault
    /\ LET fresh == pc \in {"install ledger", "install metadata", "install report"}
       IN  /\ ledgerFile' = (~fresh /\ (ledgerFile \/ pc = "repairing"))
           /\ metaFile' = (~fresh /\ (metaFile \/ pc \in {"recording", "committing"}))
    /\ claim' = "held"
    /\ Idle
    /\ UNCHANGED <<ledger, tail, meta, report, refused>>

Interrupt ==
    /\ pc # "idle"
    /\ Fault
    /\ LET fresh == pc \in {"install ledger", "install metadata", "install report"}
       IN  /\ ledgerFile' = (~fresh /\ (ledgerFile \/ pc = "repairing"))
           /\ metaFile' = (~fresh /\ (metaFile \/ pc \in {"recording", "committing"}))
    /\ claim' = "free"
    /\ Idle
    /\ UNCHANGED <<ledger, tail, meta, report, refused>>

Crash ==
    /\ pc # "idle"
    /\ Fault
    /\ claim' = "abandoned"
    /\ Idle
    /\ UNCHANGED <<disk, refused>>

AppendCut ==
    /\ Appends
    /\ tail # "fragment" \/ ~ledgerFile
    /\ Fault
    /\ \E k \in 0 .. Len(batch) :
         /\ ledger' = Durable \o SubSeq(batch, 1, k)
         /\ tail' \in {"newline"}
              \cup (IF k < Len(batch) THEN {"fragment"} ELSE {})
              \cup (IF k > 0 THEN {"no newline"} ELSE {})
    /\ ledgerFile' = TRUE
    /\ claim' \in {"free", "abandoned"}
    /\ Idle
    /\ UNCHANGED <<metaFile, meta, report, refused>>

OperatorClears ==
    /\ claim = "abandoned"
    /\ claim' = "free"
    /\ UNCHANGED <<disk, pc, search, refused, faults>>

-----------------------------------------------------------------------------
Step ==
    \/ InstallLedger \/ InstallMetadata \/ InstallReport
    \/ Propose \/ RecordBackup \/ RecordInstall
    \/ \E gains \in [DOMAIN points -> BOOLEAN] : Evaluate(gains)
    \/ AppendDirect \/ RepairBackup \/ RepairInstall
    \/ CommitBackup \/ CommitInstall
    \/ FinishBudget \/ FinishWallTime \/ FinishStagnation \/ FinishEmpty
    \/ TooLarge

Next ==
    \/ \E b \in Budgets : StartFresh(b) \/ Resume(b)
    \/ Step
    \/ Interrupt \/ Crash \/ AppendCut
    \/ OperatorClears

Spec == Init /\ [][Next]_vars

-----------------------------------------------------------------------------
(* Properties.                                                             *)

Trial == [id : Nat, key : Keys, gain : BOOLEAN]

Checkpoints ==
    [completed : Nat, stagnation : Nat, generator : Generator,
     batchEnds : Seq(Nat \ {0}), pending : Seq(Keys)]

TypeOK ==
    /\ ledgerFile \in BOOLEAN /\ metaFile \in BOOLEAN
    /\ ledger \in Seq(Trial)
    /\ tail \in {"newline", "no newline", "fragment"}
    /\ meta \in Checkpoints
    /\ report.count \in Nat
    /\ claim \in {"free", "held", "abandoned"}
    /\ pc \in {"idle", "install ledger", "install metadata", "install report", "loop",
               "record", "recording", "evaluate", "append", "repairing", "commit",
               "committing"}
    /\ budget \in Budgets \cup {0}
    /\ trials \in Seq(Trial) /\ batch \in Seq(Trial)
    /\ gen \in Generator
    /\ stagnation \in Nat /\ start \in Nat
    /\ batchEnds \in Seq(Nat \ {0})
    /\ points \in Seq(Keys)
    /\ faults \in 0 .. MaxFaults

(***************************************************************************)
(* The ledger covers what run.json says is completed, and what it holds    *)
(* beyond that is a prefix of the batch run.json records as pending: what  *)
(* a resume needs to finish the batch it interrupts.  Excepted is the      *)
(* ledger whose repair was cut by a crash: it is missing as a whole.       *)
(***************************************************************************)
LedgerMatchesCheckpoint ==
    (ledgerFile /\ meta.batchEnds \o meta.pending # <<>>) =>
        /\ meta.completed <= Len(ledger)
        /\ IsPrefixOf(KeysOf(SubSeq(ledger, meta.completed + 1, Len(ledger))),
                      meta.pending)

(***************************************************************************)
(* No point is ever recorded twice, and ids count from zero: neither a     *)
(* re-evaluated batch nor a repaired ledger repeats or skips a trial.      *)
(***************************************************************************)
TrialsAreDistinct ==
    \A i \in DOMAIN ledger :
        /\ ledger[i].id = i - 1
        /\ \A j \in 1 .. i - 1 : ledger[j].key # ledger[i].key

(***************************************************************************)
(* In a domain that can be enumerated, a resume is refused as              *)
(* irreproducible only when the search had already exhausted the domain:   *)
(* otherwise replaying the committed batches gives back the recorded       *)
(* generator, stagnation and pending batch.                                *)
(***************************************************************************)
Irreproducible ==
    {"sequence not reproducible", "pending not reproducible", "state disagrees",
     "tail disagrees"}

RefusedOnlyWhenExhausted ==
    Enumeration # <<>> /\ refused \in Irreproducible =>
        \A k \in Keys :
            \/ k \in Seen(ledger)
            \/ \E i \in DOMAIN meta.pending : meta.pending[i] = k

\* README: a checkpoint contains enough state to continue the same search.
NeverRefused == refused \notin Irreproducible

(***************************************************************************)
(* run.json is atomically replaced: once the run is initialised, every     *)
(* process that ends, by whatever failure, leaves a run.json behind.       *)
(***************************************************************************)
CheckpointSurvives == (pc = "idle" /\ report.reason # "absent") => metaFile

(***************************************************************************)
(* A batch is evaluated only when the checkpoint that commits it will fit  *)
(* the limits of run.json: recording the pending keys takes at least as    *)
(* much room as the batch end that replaces them.  (The limits of the      *)
(* ledger itself are checked after the evaluation: PendingIsCommitted.)    *)
(***************************************************************************)
CommitFits == pc \in {"append", "repairing", "commit"} => Nodes(Metadata(<<>>)) <= MaxNodes

(***************************************************************************)
(* The stagnation counter counts evaluations since the last frontier       *)
(* change, short of at most the batch that changed it, whatever was        *)
(* interrupted, resumed or evaluated again in between.                     *)
(***************************************************************************)
LastGain(ts) ==
    LET at == {i \in DOMAIN ts : ts[i].gain}
    IN  IF at = {} THEN 0 ELSE CHOOSE i \in at : \A j \in at : j <= i

StagnationCounts ==
    metaFile /\ ledgerFile =>
        LET since == meta.completed - LastGain(Slice(ledger, 1, meta.completed))
        IN  /\ meta.stagnation <= since
            /\ since < meta.stagnation + BatchSize

(***************************************************************************)
(* The batch ends in run.json increase and end with what is completed: a   *)
(* resume, which refuses any others (_require_metadata), never refuses the *)
(* ones a run wrote, through whatever resumes it went.                     *)
(***************************************************************************)
BoundariesAccepted ==
    LET ends == meta.batchEnds
    IN  /\ \A i \in DOMAIN ends, j \in DOMAIN ends : i < j => ends[i] < ends[j]
        /\ meta.completed = IF ends = <<>> THEN 0 ELSE ends[Len(ends)]

(***************************************************************************)
(* A report never describes a trial that a later resume could lose.        *)
(***************************************************************************)
ReportIsCommitted == report.count <= meta.completed

(***************************************************************************)
(* What run.json calls completed is never taken back: the committed trials *)
(* stay the same records in the same order, whatever fails.                *)
(***************************************************************************)
CommittedIsFinal ==
    [][/\ meta.completed <= meta'.completed
       /\ ledgerFile' => Slice(ledger', 1, meta.completed) = Slice(ledger, 1, meta.completed)]_vars

(***************************************************************************)
(* A pending batch is only ever replaced by its own completion: no resume  *)
(* drops or reorders proposals the generator has already accounted for.    *)
(***************************************************************************)
PendingIsFinished ==
    [][(meta.pending # <<>> /\ meta' # meta) =>
        /\ meta'.completed = meta.completed + Len(meta.pending)
        /\ KeysOf(Slice(ledger', meta.completed + 1, meta'.completed)) = meta.pending]_vars

(***************************************************************************)
(* The committed run is one that an uninterrupted search could have made:  *)
(* interruptions, crashes and cut appends change neither the points, nor   *)
(* their order, nor the generator, resumes with other budgets only where   *)
(* a batch ends, and no batch recorded as pending is dropped.              *)
(***************************************************************************)
Uninterrupted ==
    INSTANCE Search WITH
        history <- Slice(ledger, 1, meta.completed),
        generator <- meta.generator,
        stagnation <- meta.stagnation,
        offered <- meta.pending

ImplementsSearch == Uninterrupted!SearchSpec

-----------------------------------------------------------------------------
(* Liveness.  The process is one thread whose steps are never blocked by   *)
(* another, an operator removes an abandoned claim sooner or later, and a  *)
(* run that stopped is resumed again and again with the largest budget.    *)
Largest == CHOOSE b \in Budgets : \A c \in Budgets : c <= b

FairSpec ==
    /\ Spec
    /\ WF_vars(Step)
    /\ WF_vars(OperatorClears)
    /\ SF_vars(Resume(Largest))

\* Every process that starts ends.
EveryProcessEnds == pc # "idle" ~> pc = "idle"

(***************************************************************************)
(* A batch recorded as pending is committed in the end, or the directory   *)
(* is one that every resume refuses: a crash took a file away, or the      *)
(* domain is exhausted.  Excepted is the batch that some outcome of its    *)
(* evaluation makes too large for the ledger: run.json records it before   *)
(* that is known, and every resume may evaluate it in vain.                *)
(***************************************************************************)
Stuck == pc = "idle" /\ (~metaFile \/ ~ledgerFile \/ refused \in Irreproducible)

MayOverflow ==
    \E gains \in [DOMAIN meta.pending -> BOOLEAN] :
        LET evaluated == NewTrials(meta.completed, meta.pending, gains)
        IN  ~LedgerFits(Durable \o SubSeq(evaluated, Len(Ahead) + 1, Len(evaluated)))

PendingIsCommitted ==
    meta.pending # <<>> ~> (meta.pending = <<>> \/ Stuck \/ MayOverflow)
=============================================================================
