# Verification of BiasWeave

BiasWeave searches device sizings: it proposes points, has an evaluator measure
them, keeps the Pareto front, and records every trial so that an interrupted run
can be resumed. This directory holds TLA+ models of the parts of it that keep
durable state, share it between processes or threads, or carry the logic of the
search; TLC configurations that check them on small instances; and TLAPS proofs
about them. Paths without a directory are
below `src/src/biasweave/`; the repository's own README and documents are cited
as `README.md` and `docs/...` of the repository.

    tlc -workers 2 -config MCCheckpoint.cfg MCCheckpoint
    tlapm Checkpoint_proofs.tla

## 1. The system

### Components

| component | state | operations | what makes it correct |
|---|---|---|---|
| resumable weave run, `engine.py` | in memory: trials, generator, stagnation, batch ends, the batch in flight | start, resume, the loop (propose, record as pending, evaluate, append, commit), the stop conditions | whatever is interrupted, the committed run is one an uninterrupted search makes; nothing committed is lost; nothing pending is dropped |
| trial ledger and checkpoint, `ledger.py` | `trials.jsonl`, `run.json` | read (ignores a torn tail), append (bounded, repairs a torn tail), `write_metadata` (bounded) | the ledger covers the checkpoint, and beyond it holds only the pending batch |
| reports, `results.py` | `frontier.json`, `summary.md` | `write_result`, `result_outputs` | never describe more than is committed |
| writer claim, `_output.py` 50–199 | a claim directory and an owner file | enter, owns, release, undo | one writer at a time; a live writer is never evicted |
| output transaction, `_output.py` 241–468 | targets, backups, temporary files | preflight, stage, back up, install, roll back, discard | all or nothing; nothing is lost that the transaction did not create |
| proposal generator, `proposal.py` | draw counters, random state, radius, domain cursor | propose, observe, snapshot, restore | new points only; a batch is a function of the snapshot and the trials |
| finite-domain enumerator, `search_space.py` | cursor | `next_unseen` | walks every point once; exhaustion is proved, not guessed |
| archive and dominance, `archive.py`, `dominance.py` | the trials and the front | assess, add, signature, anchors; compare, frontier | every feasible trial is covered by the front; a batch counts as progress only if a trial of it stays |
| command evaluator, `evaluator.py` | a child process, two readers, one stdin writer, an event queue, byte counts | call | a result is whole, the verdict is about all that happened, bounded output, the child reaped, no call that hangs |
| ranking, `optimizers/ranking.py` | none | prefer, sort into fronts, crowd, select | preference is a total order; a selection follows the fronts |
| ask/tell optimizers, `optimizers/` | a pending batch and each strategy's population, windows or chain | ask, tell | asks and tells alternate; generations are neither lost nor repeated over partial batches; feasibility is never traded |
| strategy runner, `strategy.py` | one in-memory run and a pool of workers | ask, evaluate, tell, stop, write artifacts | exact budget, trials in proposal order, a true reason for the end |
| problem, encoding and model, `problem.py`, `encoding.py`, `model.py` | none (values) | parse, decode, encode, key | decoded points lie in the domain; no choice or integer is encoded as another one |
| front quality, `quality.py` | none | reference point, hypervolume, coverage, attainment, comparison | the exact volume; an attainment curve that ends at the front |
| surrogate, `surrogate.py` | none | fit and predict | numeric identities |
| command line, `cli.py` | none of its own | run, resume, front, quality, ... | the total budget it computes for a resume |
| strict JSON and errors | none | bounded parsing | bounds |
| benchmark, demo, release tooling | none | offline | - |

### How they interact

`cli.py` opens a run. `engine.py` takes the run's *writer claim* before it looks
at the directory and holds it to the end, so all that is read and written in
between belongs to one process. It asks the *generator* for a batch, records the
keys as pending in `run.json`, evaluates the batch on a thread pool whose
results come back in proposal order, appends the trials to the *ledger*, lets
the generator observe whether the *archive* changed, and commits by writing
`run.json` again. Every file except an ordinary ledger append goes through the
*output transaction*, under a claim per target. At the end the *report* is
written by a transaction of its own.

The catalog (`strategy.py`) is the other runner: it asks one of the optimizers
for a batch, evaluates it on its own thread pool, tells the trials back in the
order of the proposal, and stops for one of five reasons. It keeps everything in
memory and publishes it at the end in one output transaction. Both runners use
the same archive, and an evaluator that runs a command starts one child per call
with three threads of its own. The quality indicators read finished runs.

A resume trusts nothing in `run.json` that it can recompute: it rebuilds the
generator by replaying every committed batch, compares, and refuses on any
difference.

### What is hard

- Crashes between the steps of a batch: the ledger and `run.json` are two files
  that cannot be replaced together, and a run may stop between any two calls.
- A torn append, and a crash while the tear is being repaired.
- A batch evaluated by more than one process must be observed as a whole.
- Replacing a file is two calls, so there is a moment with no file.
- The claim protocol relies on file identities, which file systems reuse.
- A rollback acts on identities it compared a moment earlier, next to programs
  that ignore the claims, and may itself be interrupted.
- A file is created in one call and recorded for the clean-up in another, and
  removals may fail without failing the transaction.
- Bounds: the finite domain, the sizes of `run.json` and of the ledger (the
  latter checked after an evaluation only), the budget against the batch, the
  stagnation limit, the floats there are between 0 and 1.
- A child that floods a pipe, never reads, dies just before its deadline, or
  leaves a descendant that keeps its pipes open, against three threads and a
  queue that is emptied before the threads are asked whether they are alive.
- Batches that end inside a generation, for strategies that change trials by
  slots and generations.
- Ties: equal violations, duplicate vectors, reference points on the boundary.
- A walk that proves exhaustion while draws anticipate it.

`PROJECT.json` lists the hazards one by one, each at its line.

## 2. The modules

| module | what it is |
|---|---|
| `Claim` | abstract: a lock that its holder may abandon |
| `WriterClaim` | `WriterClaim` of `_output.py`, call by call; implements `Claim` |
| `AtomicWrite` | `atomic_write_many` and `_rollback`, call by call |
| `Proposal` | pure: `ProposalGenerator.propose` and `observe`, and the finite walk |
| `Search` | abstract: the search nothing ever interrupts |
| `Checkpoint` | the resumable run; uses `Proposal`, implements `Search` |
| `CommandEvaluator` | one call of the command evaluator, with its child and threads |
| `Dominance` | pure: trials, their assessment, dominance, the front |
| `Archive` | the archive as both runners drive it, batch by batch; uses `Dominance` |
| `Preference` | pure: the order of preference of `ranking.py`; uses `Dominance` |
| `Ranking` | pure: sort into fronts, crowding, selection, on top of `Preference` |
| `ArchivePreference` | what `Preference` and `Ranking` promise about the trials of every run of `Archive` |
| `Rounding` | pure: Python's `round` and `ceil` |
| `Quality` | pure: the indicators of `quality.py` |
| `Report` | `ArchivePreference`, and what `Quality` promises about the same runs |
| `CatalogSearch` | abstract: the catalog run as one thread would carry it out |
| `StrategyRun` | the catalog runner with its pool; implements `CatalogSearch` |
| `Optimizers` | pure: what each strategy may answer, and what it learns; uses `Ranking` |
| `Strategies` | `StrategyRun` with the strategies of `Optimizers` |
| `Encoding` | pure: variables, links, decode and encode |
| `SearchSpace` | the walk over a finite domain, among random draws; uses `Encoding` |
| `MC...` | instances for TLC |
| `..._proofs` | theorems and proofs; `Checkpoint_proofs` covers `Proposal` too, `SearchSpace_proofs` covers `Encoding` and `Rounding`, `Ranking_proofs` holds the lemmas on `Dominance`, `Preference` and `Ranking` that `Archive_proofs` and `Strategies_proofs` share, and `Strategies_proofs` is about `StrategyRun`, `Optimizers` and `Strategies` |

In each module some definitions end in an underscore and a word
(`Evaluate_CommitFirst`): they are plausible bugs, kept to show that each
property notices the bug it is there for. No specification uses them.

### WriterClaim

A writer is one `WriterClaim` object: it enters once and is released once. The
variables `directory` and `owner` are the claim directory and the owner file
with the nonce in it; `dirId` and `ownerId` are `_directory_identity` and
`_owner_identity`. `MakeDirectory` to `WriteNonce` are the calls of
`__enter__`, `CheckRelease` to `RemoveDirectory` those of `_release`, and
`UndoEntry` is `_remove_incomplete_claim`. `InterruptEntry`, `InterruptLeave`
and `Die` put an exception or the death of the process between any two calls.
A new file takes any identity that is not in use, also that of a removed file.
A writer whose release or undo is cut ends at "cut", one that gives up by itself
at "left"; `NoLeak` tells them apart. The handler of `_release` that removes a
directory it had emptied (168-183) is `RemoveDirectory`, so `InterruptLeave` is the
exception that cuts the handler too.
`OperatorClears` is the documented way out of an abandoned claim: a person
removes it after making sure that nobody holds it.

The ownership check of `_release` and of an undo is one step, although the code
makes several `lstat` calls and a read. Nothing but the writer itself changes a
claim while the writer is inside (that is `MutualExclusion`, which is proved),
so no other step could come in between and be noticed.

### AtomicWrite

One transaction over `Count` targets.

| variable | code |
|---|---|
| `target`, `backup` | the file under each target's name, and under each backup's |
| `temps`, `reserved` | the temporary files there are, and the empty files which `mkstemp` makes at the backups' paths |
| `identity` | the device and inode of each file, as `_file_identity` returns them |
| `staged`, `original`, `installed` | the list `staged`, the `_Backup` and the `_Installed` entries |
| `displaced` | the files that other programs removed themselves, which are not held against the transaction |

A step is a file-system call with what follows it up to the next. Creating a file
and recording it are two (`CreateTemporary` and `RecordTemporary`, lines 300 and
308; `Reserve` and `FreeBackupPath`, 318 and 321-324), so an exception in between
leaves a file that no clean-up knows of. A new file gets an identity that no
file has at the moment, be it new or that of a file that is gone (`Create`), and
the transaction compares identities, never files (`Same`). A phase of the code
that loops over the targets handles the target `at` and moves on with
`NextTarget`, `PreviousBackup`, `PreviousInstalled`, `NextRemoval` or
`NextDiscard`. In the loops of the clean-up, the rollback and the discard an
`OSError` skips the entry and the loop goes on (`Skip`: lines 372, 401, 430, 466).
Other programs replace or remove targets between any two calls (`ForeignActs`),
exceptions arrive between any two calls, in the rollback and the clean-up too,
and the process may die. Symbolic links, hard links and names that differ only in
case (`paths_alias`) are not modelled: every target is a file name of its own.

### Proposal

A point is its key. A strand's draw is deterministic: it follows from the
random state and the counters, the radius, and the trials the archive holds.
That is the constant operator `Candidate(draws, radius, trials)`, about which
nothing is assumed except, for the proofs, that it yields keys of the domain.
`proposal_index`, `coverage_index` and the random state move together and are
the one number `draws`.

`Batch(g, n, trials)` is a call of `propose`: the draws that *hit* (a key
neither seen earlier nor drawn earlier in this call), up to
`n * AttemptsPerPoint` attempts, then the walk over `Enumeration` from the
cursor. The code finds the hits in a loop; the model describes the set of hits
and takes its smallest elements, which can be proved about without recursion.
Whether a batch changed the frontier is a Boolean per trial, `gain`, chosen
freely when a trial is evaluated: the archive's signature changes with a batch
exactly when one of its trials enters the front. (The members it displaces leave
because a new one came in.)

### Checkpoint and Search

| variable | code |
|---|---|
| `ledgerFile`, `ledger`, `tail` | `trials.jsonl`: whether it exists, its complete records, how it ends |
| `metaFile`, `meta` | `run.json`: whether it exists, its content (or that of its backup meanwhile) |
| `report` | `frontier.json` and `summary.md`, installed by one transaction: stop reason and number of trials |
| `claim` | the run's claim, as in `Claim` |
| `trials`, `gen`, `stagnation`, `batchEnds`, `points`, `start`, `batch` | the locals of `_optimize_coordinated` |
| `refused` | the error of the last resume |

One action per step of the loop that changes memory or disk. Replacing
`run.json`, and repairing the ledger, are two actions each (`...Backup`,
`...Install`), since a crash in between matters. `Resume` is one step: the
process holds the claim, so nothing changes while it reads. `Recovery` is what
the resume computes; `Refusal` is the ladder of its checks in the order of the
code. `Interrupt` is an exception that unwinds (the open transaction rolls back,
the claim is released), `Crash` the death of the process (nothing is undone and
the claim stays), `AppendCut` an append that stops part-way through.

Simplifications, all of which give the model the same or more behaviours:

- `claim` stands for the run's claim and for the claims per target; the latter
  are only taken by the holder of the former.
- A process that is refused the claim changes nothing, so it is no action.
- The gains of a trial do not depend on its point, so any front may arise.
- An interruption of a fresh start, before the commit point of its transaction,
  removes all four files. The two report files are one.
- The size of `run.json` is counted in batch ends and pending keys, the parts
  that grow. The limits of the ledger (bytes, lines, records and nodes, of a
  record and in total) are the constant operator `LedgerFits` on the trials it
  holds, about which nothing is assumed: whether a batch fits may depend on what
  its evaluation gives. The code checks them in `append` (`Appends`), after the
  evaluation, and the process ends with an error (`TooLarge`).

Not modelled: a fresh start with `--force` over an earlier run, and the
validation of a restored record against the problem (the problem document does
not change between the sessions of a run here).

`Search` is the promise: batches are offered, completed and observed; no files,
no failures. Its variables are read off the committed part of the disk: the
trials that `run.json` counts, its generator, its stagnation counter, and its
pending keys as the batch offered. Its operators are parameters, which
`Checkpoint` fills with those of `Proposal`. It offers a batch of any size up to
the batch size, because a resume may change the budget.

### CommandEvaluator

| variable | code |
|---|---|
| `child`, `status`, `killed` | the `Popen` object and the process behind it |
| `holders` | which processes have an end of each pipe: the child and one descendant that may outlive it |
| `unread`, `fed` | what is in the pipes, in chunks; whether stdin took the request |
| `thread`, `read`, `events` | the two `drain` threads and `feed`; the lengths of their chunks; the queue |
| `pc`, `at`, `raised`, `late`, `taken`, `verdict` | the calling thread: where it is, the exception in flight, the joins that timed out, the events it took, how the call ended |

`Write`, `ReadRequest`, `Spawn`, `DescendantEnds`, `ChildExits` are whatever the
child does; `ReadChunk` to `FeedEnds` are the threads, call by call;
`Popen` to `Decide` are the lines of `__call__`. `Kill` polls first, as
`Popen.kill` does. `Interrupt` is an exception in the calling thread at any
point after the child has started. The deadline may pass at any moment of the wait, and a join may time
out whenever its thread has not ended. An answer of the right size stands for a
JSON object, any other size for text that is none; the JSON itself, the
environment and the preparation of the request are not modelled. One descendant
stands for all, since only whether somebody holds a pipe matters.

### Dominance and Archive

`Dominance` has `constraint_violation`, `assess`, `dominates`, `pareto_front`
and the two anchors. Metrics, limits and scales are integers, a scale being
given by its reciprocal; `Largest` is the largest finite number, so that a total
that overflows fails the trial as in the code. `Archive` drives them as the
runners do: `Add` is one call of the archive's `add`, and `EndBatch` compares the
front with the one the batch started from and decides whether the run
stagnates. A batch may end short, as after exhaustion.

### Preference, Ranking, Quality and Report

`Preference` and `Ranking` are `ranking.py`. The loop that peels the fronts is a
function of its rounds: `EmitFront` is one of them, with the counts of
dominators that it lowers. The hyperbolic tangent is replaced by
a function that is monotone and saturates (`Saturation` is where): the code's
properties must not rest on more, since `tanh` of a double does saturate.
`Quality` has the
three hypervolume algorithms, derived reference points, coverage, the epsilon
indicator, the cuts of the attainment curve and `measure_run`, on integers. Left
out: spacing and extent (roots of floats), the limit on the size of a front in
three or more dimensions, and the guard that nudges a rounded reference point by
one float (`quality.py` 404), which integers do not need.

`ArchivePreference` and `Report` add no step to `Archive`: each of their properties
quantifies over the
trials of the run, so that TLC compares the algorithms with their definitions on
every sequence of trials that an archive can hold.

### StrategyRun, CatalogSearch, Optimizers and Strategies

`StrategyRun` is the loop of `run_strategy`: `StopAtBudget`, `StopInTime`,
`StopStagnated`, `Ask` (with the checks of `AskTellOptimizer.ask`), `Break` (they
fail), `StopEmpty`, `Evaluate` (one of the running jobs of the pool is finished),
`Tell`, and the publication of the artifacts as one step, which is the transaction
of `AtomicWrite`. The strategy is a parameter: what it may propose and what it
may become. `CatalogSearch` is the same run without a pool; the refinement reads
its batch off the results that are complete.

`Optimizers` fills the parameters. A strategy is one record (population,
offspring, windows, slots, next slot, ideal point, cursor), and `Asked` and
`Told` follow `ask` and `tell` of each module of `optimizers/`: which points it
may answer, for which slots, and what each trial changes. A draw, a crossover, a
particle's move or an acquisition function yields *any* key of
`Drawn(unseen)`, and an attempt that finds nothing falls back to the walk, so
every sequence of points such numbers can produce is allowed. The loops that fill
a batch are functions of their rounds (`OneMore`, `VisitSlot`), each of which maps
an answer to those it may become. A population is a sequence where the code's
list has slots; that of NSGA-II, of which only random draws read the order, is
kept by id. Weight vectors of
MOEA/D are computed as in the code, in units of a millionth. Velocities and
random states are left out, since nothing of them is visible in what is checked.

### Encoding and SearchSpace

`Encoding` is the tables of variables with their implicit defaults and checks,
the check of links (chains, unknown sources, cycles), quantization, decode and
encode. Numbers are integers in units of the spacing of floats, a coordinate is a
fraction. A table is typed (`Tables`), as `_variable` makes sure of; a chain of links
is followed for as many rounds as there are variables (`Leads`), after which one
without a free variable at its end is seen to be a cycle or to leave the document.
A coordinate that is computed from a value is rounded to a multiple of
1 / `Precision` (`Float`; floats near 1 are 2^-53 apart), so two integers may get the same one; an
integer that its coordinate does not decode to is `Refused`, as in
`encoding.py` 196-200. For a real variable the code rounds several times in each
direction (`_linear_coordinate`, `_linear_interpolate`), so a value need not come
back from its coordinate, and the model says nothing of whether it does.
Left out: logarithmic scales and the checks that a float is finite. `SearchSpace` is `FiniteDomainEnumerator`: the axes
from the levels of a quantum, the limit on the size, the mixed-radix walk. Its
steps are the calls a strategy makes: the default point, draws, `next_unseen`.

## 3. What TLC checks

| run | distinct states | question |
|---|---|---|
| `writer_claim` | 489,640 | is the claim a lock that nobody takes over, and does every writer end? |
| `atomic_write` | 2,618,956 | is a transaction all or nothing, and when at all does it lose what it did not create? |
| `checkpoint` | 59,324 | is the committed run one that an uninterrupted search makes? |
| `checkpoint_live` | 22,461 | does every process end, and is every pending batch that fits the ledger committed? |
| `command_evaluator` | 1,350,584 | is a result whole, is every failure seen, is the child reaped, and does every call end? |
| `report` | 14,501 | does the front cover the trials, and do ranking and indicators agree with their definitions? |
| `strategies` | 89,169 | is a catalog run with workers the sequential search, does its reason tell the truth, and does it end? |
| `search_space` | 5,352 | is the end of the walk a proof of exhaustion, and is no choice or integer encoded as another one? |
| `checkpoint_refused` | violated | does a checkpoint always allow the run to continue? |
| `checkpoint_survives` | violated | is `run.json` there whenever no process is at work? |
| `atomic_write_race` | violated | does a rollback never delete a concurrent replacement? |
| `report_derivation` | violated | do the parts of a report agree on whether the reference point was derived? |

**Bounds.** `writer_claim`: three writers, so that a third can meet what two
left behind, and three identities, one more than a claim uses, so that an
identity may or may not be reused. `atomic_write`: three targets, so that there
is one behind and one ahead of the one being handled; two acts of other
programs, the second of which can hit what the rollback of the first relies on;
two faults, so that the second can arrive in the rollback from the first; a fault
is an exception, a death or a failed removal. With two acts a file can be removed
and another put in its place that has its identity.
`checkpoint`: a domain of five points with strands that revisit points, two
attempts per point and batches of two, so that batches are drawn, drawn and
walked, and only walked, and the domain is used up within a batch. The budgets
3, 4 and 6 end inside a batch, at its end, and beyond the domain. Three faults
let a resume be interrupted while it finishes a batch of which an earlier
resume already finished a part, over a torn tail. The radius moves by unequal
steps between clips, so that one observation too many or too few shows.
`MaxNodes` does not bind in `checkpoint`. The ledger has room for `Room` units; a
trial takes one, or two if it is a gain, so that whether a batch fits is only
known when it is evaluated. In `checkpoint_live` the domain has seven points, and
both limits bind only after a first batch is committed: of the three nodes a pending
key and a batch end take one each, so that a third batch fits `run.json` if it is of
one point, and the ledger holds three to six trials.

`command_evaluator`: an answer of two chunks through a pipe of one, as large as
stdout's limit, so that both a whole answer and one chunk too many pass through a
full pipe; a limit of zero on stderr; one fault, an interrupt or a read error.
The bound in `Write` is one chunk beyond the limit, which is where a reader
stops. `report`: four trials in batches of two, of two problems with two and
three objectives. The vectors are chosen for fronts of three, ties, duplicates,
points outside of a reference, and trials behind a front; the constraints for
equal totals with different worst violations, a tolerance that is exactly met,
and a total that overflows. Some components lie beyond the saturation point, so that vectors which dominance
tells apart have equal sums of squashed components. The first trials have fewer
outcomes than the later ones, which only bounds the number of runs. `strategies`: ten points, a
population of five, batches of three and six (so that a batch ends inside, at
and after a generation), budgets of 8 and 11 (below and above the domain), one
and two workers, with and without a walk and a stagnation limit, for the eight
strategies and one foreign strategy that repeats points. The neighbourhoods are
smaller than the population and the window smaller than the run.
`search_space`: 88 documents of one, two or three variables, with intervals up
to 7 and quanta up to 5 (with and without a remainder, and larger than the
interval), links over two hops and cycles, a limit of 16 points that one
document exceeds, and two draws, one before and one within the walk; nine floats from 0 to 1,
so that integers with more values than that are refused, and others, choices
too, have coordinates that are rounded.

**What the invariants say.** `LedgerMatchesCheckpoint` relates the two files at
every moment, `TrialsAreDistinct` the ledger to itself, `StagnationCounts` the
counter to the trials that it summarises, `ReportIsCommitted` the reports to the
checkpoint. `CommitFits` says that the check of `run.json` before an evaluation is enough for
the commit after it. Of the ledger's limits that is not true: `PendingIsCommitted`
excepts a batch that some outcome of its evaluation makes too large
(`MayOverflow`), which every resume evaluates again and may never commit. `CommittedIsFinal` and `PendingIsFinished` say what no
step may do; `ImplementsSearch` and `ImplementsClaim` are refinements.
`RefusedOnlyWhenExhausted` bounds the first finding below: in an enumerable
domain, a resume calls a checkpoint irreproducible only after exhaustion.
`OriginalsKept` says that a file a transaction found is never lost, whoever
interferes, `ReplacementsKept` in which three cases a foreign file is, and `AllOrNothing`
what a transaction that nobody interferes with leaves behind: after one fault the
targets as they were and at most the one file whose creation was cut before it was
recorded; when it returns, no backup, and no temporary file but those whose removal
failed. `NoLeak` says of a claim that nobody holds by whom it was left and why.

`DecidedOnEverything` says that the verdict of a call whose joins all ended follows
from all that happened, a flooded pipe before the exit status it caused.
`ResultIsWhole` holds even if a join timed out and a reader reports between the queue,
which is emptied first, and `is_alive`, which is asked afterwards. `ChildIsReaped` excludes only
a call whose clean-up is cut by an exception. `FrontCovers` relates the front,
which is kept incrementally, to all trials; `ProgressIsANewTrial` says that trials
which enter and leave within a batch do not reset the count of stagnation.
`PreferenceIsTotal`, `SelectionFollowsTheFronts`, `VolumeIsExact`,
`CurveEndsAtTheFront` and `ComparisonIsMonotone` compare an algorithm with its
definition (a hypervolume with the number of unit cells it covers).
`BookkeepingIsExact` derives from the whole history of trials what a strategy
must hold, across all batch boundaries; `FeasibilityIsNeverTraded` follows what
a catalog strategy keeps (for a swarm the personal bests) over every step; `StagnationIsMeasured` says that the counter, which
compares neighbouring fronts only, tells how far back the front last changed;
`StopReasonIsTrue` relates the reason given for the
end to the trials, the domain and the history of the front.
`ExhaustionIsProof` says that when the walk ends, every point that any
coordinates decode to was evaluated; `CanonicalPoint` that points are within bounds,
that encoding takes no choice or integer for another one, and that it refuses an
integer only if its variable has more values than floats tell apart. The front and
its properties are on integers: a violation of floats that is too small rounds to
none (`dominance.py` 59), of which nothing is said.

**Fairness.** `writer_claim`: weak fairness of each writer's own calls
(`Enter \/ Leave`); a writer is a thread that never waits for another, and an
exception or a death ends it as well. `checkpoint_live`: weak fairness of the
process's steps, for the same reason (an evaluation ends because the command
evaluator has a deadline; a Python evaluator must return); weak fairness of the
operator who clears an abandoned claim; strong fairness of a resume with the
largest budget, which says that the run is resumed again and again rather than
given up. The latter two are assumptions about people, and without them nothing
is promised: an interrupted run stays interrupted. `command_evaluator`: weak
fairness of the calling thread, which waits with a deadline or for a child it has
killed, and of the delivery of SIGKILL (`ChildDies`); none of the child, of its
descendant or of the three daemon threads, which may hang for ever. `strategies`:
weak fairness of the loop, of the workers and of the delivery of a complete batch
(an evaluation ends as above). Faults are bounded and not
fair. There is no fairness in the other runs.

**Deadlock** is checked in the `checkpoint` runs. A claim, a transaction, a call
of the evaluator, a run over a fixed budget and a walk end, so the other
configurations switch the check off.

## 4. What is proved

| theorem | module | says, for all values of the constants |
|---|---|---|
| `Exclusion` | `WriterClaim_proofs` | at most one writer inside |
| `Ownership` | `WriterClaim_proofs` | an active writer owns what is on disk |
| `Implementation` | `WriterClaim_proofs` | `WriterClaim` implements `Claim` |
| `TypeCorrect`, `NothingLeaks` | `WriterClaim_proofs` | types; a claim nobody holds was left by the writer that made it, by its death, a cut release, or an exception before it knew the identity |
| `TypeCorrect` | `AtomicWrite_proofs` | type invariant |
| `OriginalsAreKept` | `AtomicWrite_proofs` | a file a transaction found is at its place, in its backup, or was replaced by somebody else, until the commit |
| `ReplacementsAreKept` | `AtomicWrite_proofs` | a foreign file is lost only as the original of a committed transaction, with the identity of such an original that somebody else removed, or between a comparison and the call that relies on it |
| `AllOrNothingHolds` | `AtomicWrite_proofs` | alone, a transaction installs everything or, after one fault, restores every target; which files it may leave behind |
| `BatchIsNew` | `Checkpoint_proofs` | a batch holds new, distinct points, and no more than asked for |
| `BatchCovers` | `Checkpoint_proofs` | what the cursor passes is proposed, and a short batch leaves the cursor at the end |
| `TypeCorrect` | `Checkpoint_proofs` | type invariant |
| `LedgerMatches` | `Checkpoint_proofs` | the ledger covers the checkpoint, plus a prefix of the pending batch |
| `DistinctTrials` | `Checkpoint_proofs` | no point twice, ids without gaps |
| `ReportsAreCommitted` | `Checkpoint_proofs` | reports describe committed trials |
| `CommittedTrialsAreFinal` | `Checkpoint_proofs` | what is committed stays |
| `PendingBatchesAreFinished` | `Checkpoint_proofs` | a pending batch is only replaced by its completion |
| `RefinesSearch` | `Checkpoint_proofs` | `Checkpoint` implements `Search` |
| `CommitsFit` | `Checkpoint_proofs` | an evaluated batch can be committed within the limit of `run.json` |
| `StagnationIsCounted` | `Checkpoint_proofs` | the recorded counter counts evaluations since the last change of the front |
| `BoundariesAreAccepted` | `Checkpoint_proofs` | the recorded batch ends increase and end with what is completed |
| `RefusalMeansExhaustion` | `Checkpoint_proofs` | in an enumerable domain, a resume is refused as irreproducible only after exhaustion |
| `TypeCorrect` | `CommandEvaluator_proofs` | type invariant |
| `ResultsAreWhole` | `CommandEvaluator_proofs` | a result is read to its end, from a child that exited with 0 |
| `VerdictsAreAboutEverything` | `CommandEvaluator_proofs` | unless a join timed out, the verdict is about all that happened |
| `ChildrenAreReaped` | `CommandEvaluator_proofs` | no child is left behind, unless the clean-up itself is cut |
| `CapturesAreBounded` | `CommandEvaluator_proofs` | no reader keeps more than its limit |
| `TypeCorrect` | `Archive_proofs` | type invariant |
| `FrontAlwaysCovers` | `Archive_proofs` | every feasible trial is on the front or dominated by one on it |
| `ProgressNeedsANewTrial` | `Archive_proofs` | stagnation is reset exactly when a trial of the batch is on the new front |
| `AnchorsAreBest` | `Archive_proofs` | each anchor exists when it should, is one trial, and nothing of its kind dominates it |
| `PreferenceIsAStrictOrder` | `Archive_proofs` | preference is a strict total order on the trials of a run |
| `SelectionIsExact` | `Archive_proofs` | the fronts are what is left undominated, and a selection takes them in order, whole but for the last |
| `BudgetIsExact` | `Strategies_proofs` | no point twice, no id skipped, never beyond the budget, whatever the strategy answers |
| `StagnationCountIsExact` | `Strategies_proofs` | the stagnation counter tells how far back the front last changed |
| `RefinesCatalogSearch` | `Strategies_proofs` | any number of workers implements the sequential search |
| `StopReasonIsExact` | `Strategies_proofs` | the reason a run gives for its end is true, and catalog strategies never break the contract |
| `KindsAreNeverTraded` | `Strategies_proofs` | no step of a catalog strategy gives up a feasible or a measured trial for one of a worse kind |
| `BookkeepingHolds` | `Strategies_proofs` | what a catalog strategy holds is what the whole history of trials determines |
| `PointsAreCanonical` | `SearchSpace_proofs` | a point is within its bounds and has followed its links; with any number of floats, no choice or integer is encoded as another one, and an integer is refused only when there are too few floats |
| `ExhaustionIsProved` | `SearchSpace_proofs` | a walk that has ended leaves nothing to be drawn, with one index per point and no more than the limit |

**Assumptions.** `ClaimAssumption` (`None` is neither a writer nor an
identity), `AtomicWriteAssumption` (at least one target; bounds are naturals) and
`NoneAssumption` (`None` is not a file), `ProposalAssumption` (the walk, if the
domain has one, visits every point and none twice: `search_space.py` takes the
product of the axes, whose values it keys in a dict; the radius stays among its
values), `SaturationAssumption` (a natural), `PrecisionAssumption` (a positive one),
`CheckpointAssumption`, `EvaluatorAssumption` (types of the parameters; an answer
is not empty and fits its limit), `ArchiveAssumption` (the trials an evaluation
gives have the id they were evaluated for, and as many components as there are
objectives), `StrategyRunAssumption` (budgets, batches and pools are not empty,
and an evaluation gives the id it was asked for), and `CandidateAssumption`, a
hypothesis of the theorems about `Checkpoint`: what a strand draws is a point of
the domain. It is a hypothesis and not an assumption of the module because it
quantifies over every sequence of trials, which TLC cannot enumerate. Nothing
is assumed finite there but the walk, which is a sequence. `OptimizersAssumption`
are the limits the constructors check (populations of four or more, neighborhoods
no larger, windows of two or more) and that what is drawn is unseen;
`NothingAssumption` that "no point" is not a point; `StrategiesAssumption` that
evaluations give trials. `CatalogIsOptimizers(foreign)` is the hypothesis of the last
three theorems, for the same reason as `CandidateAssumption`: the strategies of the
catalog start as `NewOptimizer` makes them, over a walk that meets every point
once or over none, and ask and tell as `Asked` and `Told` say; the strategies in
`foreign`, written by somebody else, may do anything except become one of the
catalog, and always have a point to propose, since the reason they would give for
having none is theirs. `MCStrategies` satisfies it, with its one `Careless` strategy
as `foreign`. `SearchSpaceAssumption` is about the inputs of `SearchSpace`: documents
are sequences of `Tables`, a choice has fewer values than there are floats (which the
limits on the size of a document ensure), the limit is a natural, and what a draw may
yield for a variable are fractions, among them one for every value in its axis if it has one.
The last part is only needed to count the points; that none is left unseen does not
rest on it. `ProposalAssumption` takes for granted of the walk what
`ExhaustionIsProved` shows of the enumerator.

**WriterClaim.** Mutual exclusion is not inductive: a step that removes the
directory has to be known to be the holder's own. The invariant adds that the
directory exists while a writer is inside (`DirectoryInv`) and that what a
writer noted of the claim is what is on disk (`KnowledgeInv`, `ActiveOwns`).
Identities need no assumption of uniqueness over time: a stale identity belongs
to a writer that has ended. For `NoLeak`, `TraceInv` adds that an
undo which can tell its directory by its identity also knows the owner file in it, if
there is one, or was hit before it had noted that one; so only then can `rmdir` find
something there.

**AtomicWrite.** There are two invariants, because there are two promises. In any
company only `SafetyInv` holds: which backups are taken at which stage
(`PlacesInv`), what was installed when the transaction passes the point of no
return (`CommitInv`), that at most one file exists which is not recorded (`TempsInv`,
`OneStray`), and that as many temporary files stay as removals failed (`RemovalInv`).
Identities are unique among the files there are, not over time (`IdentityInv`), so
what a comparison with a noted identity says of a file depends on whether the
noted one is still there: it is at its target or in its backup unless another program
removed it (`NotedInv`). With them, a step that takes a file from its target has put
it into its backup or has seen somebody else's file there; that is
`OriginalsKept`, and a case analysis over the steps after which a file is
nowhere any more gives the three cases of `ReplacementsKept`. When nobody interferes
no file is gone before the last one is created, so no identity is taken over
(`OwnIdentityInv`), and the state of every target is known (`AloneInv`): while going
forward, each is untouched, moved aside or installed depending on its place relative
to `at` (`ForwardInv`); in a rollback, each is recoverable and, behind the hand of the
rollback, unwound or restored (`BackwardInv`). The latter needs that no second fault
has hit, which is the condition `AllOrNothing` states too.

**Proposal.** `Ith(S, i)`, the i-th smallest element, exists for
`i <= Cardinality(S)`: were no element to have exactly i-1 smaller ones, the map
from elements to the number of smaller ones would be an injection into too small
a set. From it follow that hits are distinct and new, that walked points are
distinct and neither seen nor drawn, and that the cursor stays in the domain. If
a batch is short, then fewer points than needed lay ahead of the cursor, and the
walk ended where the domain does (`BatchCovers`).

**Checkpoint.** The invariant `IInv` has a part about the disk at any time
and a part for each stage of the process. The disk: beyond the committed trials
the ledger holds a prefix of the pending keys (`LedgerInv`); a ledger is missing
only before the run starts or under a pending batch (`FilesInv`, the crash
during a repair); committed and pending keys are distinct, ids count up
(`DistinctInv`). The stages: in the loop memory and disk agree (`LoopInv`); a
proposed batch follows from the committed generator and the ledger
(`RecordInv`); the points to evaluate are the rest of the pending batch
(`EvaluateInv`); what is about to be committed is the pending batch, observed
*as a whole* from the committed generator and counter (`Completes`), however
many processes evaluated it. The last is what makes the refinement go through: a
commit then is `Search`'s `Complete`, a record its `Offer`, and everything else
stutters. A crash may fall between any two steps, so the disk part must carry by
itself everything that a resume rebuilds the stages from, and the lemma
`Resumed` shows that it does.

It is worth noting what this proof does *not* need: that a replay reproduces the
generator. A resume checks this and refuses otherwise, and the theorems
so far hold of every resume that is not refused. Whether it is
refused without reason is what `ResumeInv` answers.

**Resume.** `ResumeInv` is about the committed history and `run.json` alone. What
the cursor has passed is proposed (`CursorInv`); batch ends increase and end with
what is completed (`EndsInv`); the counter is measured against the
last gain (`CountInv`); the room for a commit is reserved before its evaluation
(`RoomInv`); and replaying the committed batches gives the recorded generator and
counter, or the domain is used up (`ReplayInv`). The step that matters is a
commit. If its batch was full, asking for as many points as it holds is what the
original call asked, and the replay gets the same generator. If it was short,
the cursor is at the end, by `BatchCovers`, and every point has been proposed.
All other checks of a resume pass, by the invariant above, so
that a refusal has exactly the one reason of the first finding below.
`Reconstruct` is a recursive function over the batch ends; that it is defined at
all, and goes on from the replay of one batch less, is shown by taking the least
number of batches at which it would fail.

**CommandEvaluator.** That a result is whole is not inductive, for it says
nothing of the time before the verdict. The invariant follows the information to
the caller: a reader has put an event on the queue exactly if it has stopped
reading, and one that read too much has said so (`ReportInv`); what an event
says of its pipe stays true, since a pipe that nobody holds gets no new holder
(`EventsInv`: only a child that holds all its pipes starts a descendant); a join
that did not time out, or a thread seen not alive, has ended (`CallerInv`), and
a thread that has ended reports nothing more. So an empty queue after three joins
is all there will ever be. The first failure on the queue exists because a
nonempty set of naturals has a least element.

**Archive.** The front covers the trials because dominance, with the exact
tolerance of zero, is transitive: what a new trial displaces is dominated by it,
and what was displaced earlier is dominated by something still there.

An anchor is chosen by least violation, then worst violation, then id, or by
greatest distance and then id. That there is exactly one rests on every set of
naturals having a least element, every finite one a greatest, and ids being
distinct. Distances are sums over the components of a vector, which the
community modules define as a fold that takes its elements in *any* order;
`SumIs` shows that it has a value whatever the order, again from a least
counterexample, on the number of elements.

**Preference.** Dominance and the key could contradict each other, for the key
looks at a sum of squashed components. They do not: squashing is monotone, so a
dominating vector has a sum that is no greater, and where saturation makes the
sums equal the vectors themselves are compared next, component by component, of
which dominance makes the first that differs smaller (`KeyDecides`). So
`Preferred` is the lexicographic order of the keys, which is irreflexive and
transitive, and total because the keys end in ids and two keys of the same kind
are of the same length.

**Ranking.** The invariant of the peeling loop (`Ranking_proofs`) says that
after some rounds the emitted fronts are those of the definition, that the count
of a trial left is the number of its dominators that are left, and that the
pending trials are those of count zero. So the rounds may stop when nothing is
pending: dominance is irreflexive and transitive on a finite set, something left
would have an undominated element. A loop is a function of its rounds, defined
with `CHOOSE`; that it exists, and that a property kept by each round holds after
all of them, is shown once (`RoundsExist`, `RoundsKeep`). That a selection has
exactly the size asked for follows from the order by distance and key being a
strict total order, on a set with ranks (`Truncated`), for which what crowding
computes is of no matter as long as it is an integer.

**StrategyRun.** (In `Strategies_proofs`.) The checks of `ask` make a batch new and no larger than what is
left of the budget; while it is being evaluated, the results sit at the places of
their points with the ids of these places (`ResultsFit`), in whatever order the
workers finish. Hence `Tell` is the abstract step that observes the whole batch.
The stagnation counter is exact because the front of a prefix of the trials is
not affected by what is appended: a batch that leaves the front alone moves both
the end of the run and the counter by its length, and one that changes the front
is itself the witness, since it is no longer than the batch size (`MeasuredInv`).

**Strategies.** `RunInv` says what an optimizer knows, from which the three
theorems are read off. The part that carries the others is `Kept`: the
population, the offspring and the windows are trials the run was told, at their
sizes for the number told; the slots of a pending batch are as many as its points
and none is taken twice; and what lies behind the cursor of the walk is seen or
pending. Each strategy's `ask` is followed through the rounds of its loop
(`CatalogReplies`: new points, none twice, no more than asked for; an answer
without points only when the walk ended, and then with the reason that is true),
and each `tell` trial by trial (`ToldFollows`). For NSGA-II a generation changes by
`SelectPopulation`, whose exact size and whose order of fronts give the count of
the population and, because feasible trials dominate the others, that no
generation has fewer of them. For the Bayesian optimizer the best trial of a kind is
preferred to all told, and its window is short of that one at most
(`Learns`). The ideal of MOEA/D is the minimum over the told trials, component by
component. A transition of annealing is either to a preferred trial, whose kind
is no worse, or within a kind.

**SearchSpace.** What one variable decodes to and is encoded as is arithmetic of
rounding: what a real variable decodes to is an end of its interval or a multiple of
the quantum above the lower end; the float nearest to an integer's coordinate is off
by half a spacing at most, so that it decodes to that integer if there are as many
spacings as steps between integers (`FloatIs`, `IntegerBack`), and otherwise the check
decides; the float nearest to the middle of a choice's share falls into that share
(`FloatChosen`). The linked values follow from the free ones.
That they do needs that following the links is well defined, however they are
ordered in the document: the parser has seen every chain end at a free variable
(`Resolved`), and the values can be computed in rounds, each of which settles the
names that are one link further away, until nothing changes any more
(`LinkedExists`).

For the walk, an axis has one representative for each value that *any* fraction
decodes to (`AxisIs`). For a real variable this is the argument that no level of the
quantum is forgotten: a coordinate rounds to a level of at most `MaximumLevel` or to an
end of the interval, and a level below the end contains the middle of an
interval of coordinates that is not empty (`MiddleRounds`). The lower end is among
the candidates twice, so the number of values is no more than `AxisSize`, though there may be
one more candidate. The index of a point is a number in a mixed radix with the
lengths of the axes: its digits determine it and can be any (`DigitsDetermine`,
`DigitsExist`), from which a point has exactly one index (`OneIndexPerPoint`,
`EveryPointHasIndex`). `ExhaustionIsProof` is not inductive, as it says nothing
before the end; `WalkInvariant` says that all indices before the cursor were seen, that
what was seen was decoded from some coordinates, and that variables and axes come
from an accepted document. It speaks of all fractions, so it is not checked by a
run; the two properties are.

`Cardinal <= MaxEnumerable` also means that the second check of the size
(`search_space.py` 106), made when the axes are known, can never fail after the
first one (line 42), for the variables modelled here: those with a linear scale.

**Only proved.** The type invariants, which no run checks a second time, and
`BoundariesAccepted`, a part of `ResumeInv`.

**Only model-checked.** Liveness under fairness, which is beyond this prover:
`EveryWriterEnds`, `EveryProcessEnds`, `PendingIsCommitted`, `EveryCallEnds`,
`RunEnds`. And what rests on a recursion over data: `VolumeIsExact`,
`CurveEndsAtTheFront` and `ComparisonIsMonotone` of `Report`, all of which need the
exact volume or that it is monotone: the hypervolume of a front in three or more dimensions is a recursion over its points and objectives,
and its definition reaches operators with which the SMT backend does not work.
Induction over data
would need theorems that take an operator as a parameter. Where this project
needs such an induction (`Reconstruct`, sums, products, folds, rounds of a loop), it
argues from a least counterexample.

## 5. What was found

**A run that exhausts its domain cannot be resumed** (`checkpoint_refused`;
`engine.py` 228, 376 and 384). A batch is proposed for
`min(batch_size, remaining)` points. A resume replays it by asking for as many
points as the batch *holds*. When the domain ran out, or when the generator
stalled in a domain that is not enumerable, the batch is shorter than what was
asked for: the original call spent all its attempts and moved the cursor to the
end, the replay stops as soon as it has the last point, the snapshots differ,
and the resume raises "checkpoint metadata and proposal-generator state disagree
with the trial ledger". No fault is needed. A resume is refused although
`README.md` line 37 says that a checkpoint contains enough state to continue,
and an interruption between the recording of such a batch and its commit can
no longer be recovered from.

**There is a moment without `run.json`** (`checkpoint_survives`;
`_output.py` 325). The old file is moved aside before the new one is linked, so a
crash in between leaves none, and a resume reports that the checkpoint does not
exist. `README.md` line 274 calls the file atomically replaced. The content is not
lost: it is in the backup, as `OriginalsKept` says.

**A rollback can delete a replacement** (`atomic_write_race`; `_output.py` 400
and 420). Identities are compared in one call and relied on in the next.
`README.md` line 283 says that a concurrent replacement is never deleted.
`ReplacementsKept` shows when else a foreign file can be lost: as an original that
`--force` covers, or with a reused identity, when another program removes the
original after it was noted (317) and puts a file in its place that gets the
original's inode, and that file is moved aside, passes the check at 326 and is
discarded.

**The parts of a report disagree** (`report_derivation`; `quality.py` 774).
`measure_run` derives one reference point and hands it to `attainment_curve` as
if it had been supplied, so the attainment part says that the reference was not
derived while the report and its front say that it was. The docstring at
`quality.py` 561–568 corrects exactly this for the comparison.

## 6. What is not modelled

- `surrogate.py`, `benchmark.py`, `demo.py`: linear algebra and circuit formulas
  on floats, without control state; what they would compute is any point or any
  trial in the models.
- `cli.py`: parsing of arguments. The budget that `resume` computes from a
  count read outside the claim (`cli.py` 214) may be stale; `Checkpoint` allows a
  resume with any budget, so that its properties do not depend on it.
- `_strict_json.py`, `_failure.py`, `errors.py`: bounded parsing and messages;
  the text and number limits of `problem.py`.
- The release tooling (`dco.py`, `release_gate.py`, `release_artifacts.py`):
  offline checks of commits and archives.
- In the modules above: a fresh start with `--force`, aliases of paths,
  logarithmic scales, how often a real value is rounded on its way to a coordinate
  and back, violations that underflow, spacing and extent of a front, velocities of particles.

What could follow: an attempt-by-attempt model of the proposal loop that
implements `Batch`; an abstract replacement of one file, implemented by
`AtomicWrite` and used by `Checkpoint`; and `Quality` without recursive operators,
so that the proof of `VolumeIsExact` can be tried.
