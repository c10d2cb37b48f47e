-------------------------- MODULE CommandEvaluator --------------------------
(***************************************************************************)
(* One call of CommandEvaluator (biasweave/evaluator.py): a child process, *)
(* three daemon threads of the parent - two readers that drain stdout and  *)
(* stderr under a limit each, a writer that feeds stdin - and the calling  *)
(* thread, which waits with a deadline, reaps the child, joins the threads *)
(* with a deadline each, empties the queue of reader events and decides.   *)
(*                                                                         *)
(* The child may start one descendant, which inherits any of the pipes and *)
(* may outlive it.  Data is counted in chunks.  The answer is what the     *)
(* child is expected to print: Answer chunks on stdout are a JSON object,  *)
(* more or fewer are not.                                                  *)
(***************************************************************************)
EXTENDS Integers, Sequences

CONSTANTS
    OutLimit, ErrLimit, \* how many chunks the readers accept
    Answer,             \* the chunks of a well-formed answer on stdout
    PipeSize,           \* how many chunks a pipe holds
    MaxFaults           \* bound: interrupts and read errors

ASSUME EvaluatorAssumption ==
    /\ OutLimit \in Nat
    /\ ErrLimit \in Nat
    /\ Answer \in Nat \ {0}
    /\ Answer <= OutLimit
    /\ PipeSize \in Nat \ {0}
    /\ MaxFaults \in Nat

Readers == {"stdout", "stderr"}
Threads == Readers \cup {"stdin"} \* a thread is named after its pipe

Events == [kind : {"limit", "data", "error"}, stream : Readers]

Joined == <<"stdin", "stdout", "stderr">> \* the order of the joins and of is_alive

Limit(s) == IF s = "stdout" THEN OutLimit ELSE ErrLimit

VARIABLES
    (* the child and its descendant *)
    child,   \* "none", "running", "exited" (a zombie) or "reaped"
    status,  \* its exit status, once it has exited
    killed,  \* whether it was sent SIGKILL
    holders, \* which processes hold their end of each pipe
    unread,  \* how many chunks are in each pipe that is read by the parent
    fed,     \* whether stdin took the whole request, which it does at once if small
    (* the threads *)
    thread,  \* the state of each
    read,    \* how much each reader has read
    events,  \* what the readers put on the queue
    (* the caller *)
    pc, at,
    raised,  \* the exception on its way through the finally block
    late,    \* the threads whose join timed out
    taken,   \* how many events were taken off the queue
    verdict, \* how the call ended
    faults

process == <<child, status, killed, holders, unread, fed>>
threads == <<thread, read, events>>
caller  == <<pc, at, raised, late, taken, verdict>>
vars    == <<process, threads, caller, faults>>

Init ==
    /\ child = "none" /\ status = "none" /\ killed = FALSE
    /\ holders = [p \in Threads |-> {}]
    /\ unread = [s \in Readers |-> 0]
    /\ fed \in BOOLEAN
    /\ thread = [t \in Threads |-> "none"]
    /\ read = [s \in Readers |-> 0]
    /\ events = <<>>
    /\ pc = "popen" /\ at = 1 /\ raised = "none" /\ late = {} /\ taken = 0
    /\ verdict = "none"
    /\ faults = 0

-----------------------------------------------------------------------------
(***************************************************************************)
(* The child and its descendant.                                           *)
(***************************************************************************)
Write(s) ==
    /\ holders[s] # {}
    /\ unread[s] < PipeSize
    /\ read[s] + unread[s] <= Limit(s) \* bound: one chunk beyond the limit
    /\ unread' = [unread EXCEPT ![s] = @ + 1]
    /\ UNCHANGED <<child, status, killed, holders, fed, threads, caller, faults>>

ReadRequest ==
    /\ holders["stdin"] # {}
    /\ ~fed
    /\ fed' = TRUE
    /\ UNCHANGED <<child, status, killed, holders, unread, threads, caller, faults>>

\* The child starts a descendant, which inherits some of its pipes.
Spawn ==
    /\ child = "running"
    /\ \A p \in Threads : holders[p] = {"child"}
    /\ \E inherited \in SUBSET Threads :
         /\ inherited # {}
         /\ holders' = [p \in Threads |-> IF p \in inherited THEN {"child", "descendant"}
                                                             ELSE {"child"}]
    /\ UNCHANGED <<child, status, killed, unread, fed, threads, caller, faults>>

DescendantEnds ==
    /\ \E p \in Threads : "descendant" \in holders[p]
    /\ holders' = [p \in Threads |-> holders[p] \ {"descendant"}]
    /\ UNCHANGED <<child, status, killed, unread, fed, threads, caller, faults>>

EndWith(code) ==
    /\ child = "running"
    /\ child' = "exited"
    /\ status' = code
    /\ holders' = [p \in Threads |-> holders[p] \ {"child"}]
    /\ UNCHANGED <<killed, unread, fed, threads, caller, faults>>

ChildExits == ~killed /\ \E code \in {"zero", "nonzero"} : EndWith(code)

ChildDies == killed /\ EndWith("killed")

\* Popen.kill polls first: a child that has exited is reaped and not signalled.
Kill ==
    /\ killed' = (killed \/ child = "running")
    /\ child' = IF child = "exited" THEN "reaped" ELSE child

-----------------------------------------------------------------------------
(***************************************************************************)
(* The readers (drain) and the writer (feed).                              *)
(***************************************************************************)
Report(s, kind) == events' = Append(events, [kind |-> kind, stream |-> s])

\* Mutation: the limit is compared with the size before this chunk.
ReadChunk_Late(s) ==
    /\ thread[s] = "running"
    /\ \E n \in 1 .. unread[s] :
         /\ read' = [read EXCEPT ![s] = @ + n]
         /\ unread' = [unread EXCEPT ![s] = @ - n]
         /\ IF read[s] > Limit(s)
            THEN Report(s, "limit") /\ thread' = [thread EXCEPT ![s] = "killing"]
            ELSE UNCHANGED <<events, thread>>
    /\ UNCHANGED <<child, status, killed, holders, fed, caller, faults>>

ReadChunk(s) ==
    /\ thread[s] = "running"
    /\ \E n \in 1 .. unread[s] :
         /\ read' = [read EXCEPT ![s] = @ + n]
         /\ unread' = [unread EXCEPT ![s] = @ - n]
         /\ IF read[s] + n > Limit(s)
            THEN Report(s, "limit") /\ thread' = [thread EXCEPT ![s] = "killing"]
            ELSE UNCHANGED <<events, thread>>
    /\ UNCHANGED <<child, status, killed, holders, fed, caller, faults>>

\* Mutation: an empty pipe is taken for the end of the stream.
ReadEnd_Early(s) ==
    /\ thread[s] = "running"
    /\ unread[s] = 0
    /\ Report(s, "data")
    /\ thread' = [thread EXCEPT ![s] = "closing"]
    /\ UNCHANGED <<process, read, caller, faults>>

ReadEnd(s) ==
    /\ thread[s] = "running"
    /\ unread[s] = 0
    /\ holders[s] = {}
    /\ Report(s, "data")
    /\ thread' = [thread EXCEPT ![s] = "closing"]
    /\ UNCHANGED <<process, read, caller, faults>>

ReadError(s) ==
    /\ thread[s] = "running"
    /\ faults < MaxFaults
    /\ faults' = faults + 1
    /\ Report(s, "error")
    /\ thread' = [thread EXCEPT ![s] = "killing"]
    /\ UNCHANGED <<process, read, caller>>

ReaderKills(s) ==
    /\ thread[s] = "killing"
    /\ Kill
    /\ thread' = [thread EXCEPT ![s] = "closing"]
    /\ UNCHANGED <<status, holders, unread, fed, read, events, caller, faults>>

Close(s) ==
    /\ thread[s] = "closing"
    /\ thread' = [thread EXCEPT ![s] = "ended"]
    /\ UNCHANGED <<process, read, events, caller, faults>>

\* All is sent, or the pipe is broken, which is not an error.
FeedEnds ==
    /\ thread["stdin"] = "running"
    /\ fed \/ holders["stdin"] = {}
    /\ thread' = [thread EXCEPT !["stdin"] = "ended"]
    /\ UNCHANGED <<process, read, events, caller, faults>>

-----------------------------------------------------------------------------
(***************************************************************************)
(* The caller.                                                             *)
(***************************************************************************)
End(answer) == pc' = "done" /\ verdict' = answer

Popen ==
    /\ pc = "popen"
    /\ \/ /\ child' = "running"
          /\ holders' = [p \in Threads |-> {"child"}]
          /\ pc' = "start"
          /\ UNCHANGED verdict
       \/ End("not started") /\ UNCHANGED <<child, holders>>
    /\ UNCHANGED <<status, killed, unread, fed, threads, at, raised, late, taken, faults>>

StartThreads ==
    /\ pc = "start"
    /\ thread' = [t \in Threads |-> "running"]
    /\ pc' = "wait"
    /\ UNCHANGED <<process, read, events, at, raised, late, taken, verdict, faults>>

Wait ==
    /\ pc \in {"wait", "reap"}
    /\ child \in {"exited", "reaped"}
    /\ child' = "reaped"
    /\ pc' = "poll"
    /\ UNCHANGED <<status, killed, holders, unread, fed, threads, at, raised, late, taken, verdict,
                   faults>>

\* Mutation: the child is killed and left to the joins.
Timeout_NoWait ==
    /\ pc = "wait"
    /\ raised' = "timeout"
    /\ Kill
    /\ pc' = "join"
    /\ UNCHANGED <<status, holders, unread, fed, threads, at, late, taken, verdict, faults>>

\* The deadline passes, maybe just after the child exited: kill, then wait.
Timeout ==
    /\ pc = "wait"
    /\ raised' = "timeout"
    /\ Kill
    /\ pc' = "reap"
    /\ UNCHANGED <<status, holders, unread, fed, threads, at, late, taken, verdict, faults>>

\* The finally block: a child that is still running is killed and waited for.
Poll ==
    /\ pc = "poll"
    /\ Kill
    /\ pc' = IF child = "running" THEN "reap" ELSE "join"
    /\ UNCHANGED <<status, holders, unread, fed, threads, at, raised, late, taken, verdict, faults>>

\* After one join comes the next; after the last, the exception or the queue.
NextJoin ==
    IF at < 3 THEN at' = at + 1 /\ UNCHANGED <<pc, verdict>>
    ELSE /\ at' = 1
         /\ IF raised = "none" THEN pc' = "collect" /\ UNCHANGED verdict ELSE End(raised)

Join ==
    /\ pc = "join"
    /\ thread[Joined[at]] = "ended"
    /\ NextJoin
    /\ UNCHANGED <<process, threads, raised, late, taken, faults>>

\* Mutation: the joins have no deadline.
JoinTimesOut_Never ==
    /\ pc = "join"
    /\ thread[Joined[at]] = "ended"
    /\ late' = late \cup {Joined[at]}
    /\ NextJoin
    /\ UNCHANGED <<process, threads, raised, taken, faults>>

JoinTimesOut ==
    /\ pc = "join"
    /\ thread[Joined[at]] # "ended"
    /\ late' = late \cup {Joined[at]}
    /\ NextJoin
    /\ UNCHANGED <<process, threads, raised, taken, faults>>

Collect ==
    /\ pc = "collect"
    /\ IF taken < Len(events) THEN taken' = taken + 1 /\ UNCHANGED pc
                              ELSE pc' = "alive" /\ UNCHANGED taken
    /\ UNCHANGED <<process, threads, at, raised, late, verdict, faults>>

CheckAlive ==
    /\ pc = "alive"
    /\ IF thread[Joined[at]] # "ended" THEN End("not cleaned up") /\ UNCHANGED at
       ELSE IF at < 3 THEN at' = at + 1 /\ UNCHANGED <<pc, verdict>>
       ELSE at' = 1 /\ pc' = "decide" /\ UNCHANGED verdict
    /\ UNCHANGED <<process, threads, raised, late, taken, faults>>

Failures(reported) == {i \in DOMAIN reported : reported[i].kind # "data"}

Captured(reported, s) ==
    \E i \in DOMAIN reported : reported[i] = [kind |-> "data", stream |-> s]

\* What is decided on the given events: the first failure, then the exit
\* status, then whether stdout holds an answer.
\* Mutation: the exit status is looked at before the failures.
Judgement_StatusFirst(reported) ==
    IF status # "zero" THEN "failed"
    ELSE IF Failures(reported) # {}
    THEN reported[CHOOSE i \in Failures(reported) :
                    \A j \in Failures(reported) : i <= j].kind
    ELSE IF Captured(reported, "stdout") /\ read["stdout"] = Answer THEN "result"
    ELSE "malformed"

Judgement(reported) ==
    IF Failures(reported) # {}
    THEN reported[CHOOSE i \in Failures(reported) :
                    \A j \in Failures(reported) : i <= j].kind
    ELSE IF status # "zero" THEN "failed"
    ELSE IF Captured(reported, "stdout") /\ read["stdout"] = Answer THEN "result"
    ELSE "malformed"

Decide ==
    /\ pc = "decide"
    /\ End(Judgement(SubSeq(events, 1, taken)))
    /\ UNCHANGED <<process, threads, at, raised, late, taken, faults>>

\* An exception in the calling thread.  While the threads are started, or in
\* the finally block, it leaves the call at once ("cut").
Interrupt ==
    /\ pc # "done"
    /\ pc # "popen"
    /\ faults < MaxFaults
    /\ faults' = faults + 1
    /\ IF pc = "wait" \/ (pc = "reap" /\ raised = "timeout")
       THEN raised' = "interrupted" /\ pc' = "poll" /\ UNCHANGED verdict
       ELSE /\ End(IF pc \in {"start", "reap", "poll", "join"} THEN "cut" ELSE "interrupted")
            /\ UNCHANGED raised
    /\ UNCHANGED <<process, threads, at, late, taken>>

-----------------------------------------------------------------------------
Environment ==
    \/ \E s \in Readers : Write(s)
    \/ ReadRequest \/ Spawn \/ DescendantEnds \/ ChildExits

Pump ==
    \/ \E s \in Readers :
         ReadChunk(s) \/ ReadEnd(s) \/ ReadError(s) \/ ReaderKills(s) \/ Close(s)
    \/ FeedEnds

Caller ==
    \/ Popen \/ StartThreads \/ Wait \/ Timeout \/ Poll \/ Join \/ JoinTimesOut
    \/ Collect \/ CheckAlive \/ Decide

Next == Environment \/ ChildDies \/ Pump \/ Caller \/ Interrupt

(***************************************************************************)
(* The operating system delivers SIGKILL, and the calling thread goes on:  *)
(* whenever it waits, it waits with a deadline or for a killed child.      *)
(* Nothing is assumed of the child, its descendant or the daemon threads.  *)
(***************************************************************************)
Spec == Init /\ [][Next]_vars /\ WF_vars(Caller) /\ WF_vars(ChildDies)

-----------------------------------------------------------------------------
Verdicts ==
    {"none", "not started", "cut", "interrupted", "timeout", "not cleaned up", "limit", "error",
     "failed", "malformed", "result"}

\* Types; the queue is read no further than its end.
TypeOK ==
    /\ child \in {"none", "running", "exited", "reaped"}
    /\ status \in {"none", "zero", "nonzero", "killed"}
    /\ killed \in BOOLEAN
    /\ holders \in [Threads -> SUBSET {"child", "descendant"}]
    /\ unread \in [Readers -> Nat]
    /\ fed \in BOOLEAN
    /\ thread \in [Threads -> {"none", "running", "killing", "closing", "ended"}]
    /\ read \in [Readers -> Nat]
    /\ events \in Seq(Events)
    /\ pc \in {"popen", "start", "wait", "reap", "poll", "join", "collect", "alive", "decide",
               "done"}
    /\ at \in 1 .. 3
    /\ raised \in {"none", "timeout", "interrupted"}
    /\ late \in SUBSET Threads
    /\ taken \in 0 .. Len(events)
    /\ verdict \in Verdicts
    /\ faults \in Nat

\* A call that returns metrics has read everything that anybody wrote to
\* stdout, up to the end of the stream, and the child exited with status 0:
\* a result is never the part that happened to arrive in time.
ResultIsWhole ==
    verdict = "result" =>
        /\ status = "zero"
        /\ holders["stdout"] = {} /\ unread["stdout"] = 0
        /\ read["stdout"] = Answer

Trouble ==
    \/ \E s \in Readers : read[s] > Limit(s)
    \/ \E i \in DOMAIN events : events[i].kind = "error"

\* The race between the queue and is_alive is confined: unless a join timed
\* out, the verdict is about all that happened.  A flooded or broken pipe is
\* reported as such, and not as the exit status of the child that was killed
\* for it; an exit status is reported if it is the only trouble; and an answer
\* is called malformed only if stdout does not hold one.
DecidedOnEverything ==
    pc = "done" /\ late = {}
    => /\ verdict # "not cleaned up"
       /\ verdict \in {"limit", "error"} => Trouble
       /\ verdict = "failed" => ~Trouble /\ status # "zero"
       /\ verdict = "malformed" => ~Trouble /\ status = "zero" /\ read["stdout"] # Answer
       /\ verdict = "result" => ~Trouble

\* Unless an exception cuts the clean-up itself short, no call leaves its
\* child behind, running or as a zombie: not after a timeout, an overflow or
\* an interrupted wait.
ChildIsReaped == pc = "done" /\ verdict \notin {"not started", "cut"} => child = "reaped"

\* No reader keeps more than its limit, and what it hands on is within it.
CaptureIsBounded ==
    \A s \in Readers :
        thread[s] = "running" \/ Captured(events, s) => read[s] <= Limit(s)

\* Every call ends, although the child may hang, ignore its stdin, flood a
\* pipe, or leave a descendant behind that holds the pipes open for ever.
EveryCallEnds == <>(pc = "done")
=============================================================================
