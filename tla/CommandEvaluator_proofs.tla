---------------------- MODULE CommandEvaluator_proofs ----------------------
(***************************************************************************)
(* Proofs about a call of the command evaluator, for all limits, all sizes *)
(* of pipes and answers, and any number of faults.                         *)
(***************************************************************************)
EXTENDS CommandEvaluator, WellFoundedInduction, TLAPS

\* Where the child is, by where the caller is.
ChildInv ==
    /\ pc = "popen" => child = "none"
    /\ pc \notin {"popen", "done"} => child # "none"
    /\ child \in {"none", "running"} => status = "none"
    /\ pc \in {"join", "collect", "alive", "decide"} => child = "reaped"

\* Nothing was read before the threads are started.
StartInv ==
    pc \in {"popen", "start"} =>
        \A t \in Threads : thread[t] = "none" /\ (t \in Readers => read[t] = 0)

\* A reader reports once it has stopped reading, and no earlier.
ReportInv ==
    \A s \in Readers :
        /\ thread[s] \in {"none", "running"} =>
             (read[s] <= Limit(s) /\ \A i \in DOMAIN events : events[i].stream # s)
        /\ thread[s] \notin {"none", "running"} => \E i \in DOMAIN events : events[i].stream = s
        /\ read[s] > Limit(s) => \E i \in DOMAIN events : events[i] = [kind |-> "limit", stream |-> s]

\* What it reports is still true.
StillTrue(e) ==
    /\ e.kind = "limit" => read[e.stream] > Limit(e.stream)
    /\ e.kind = "data" => /\ holders[e.stream] = {} /\ unread[e.stream] = 0
                          /\ read[e.stream] <= Limit(e.stream)

EventsInv == \A i \in DOMAIN events : StillTrue(events[i])

Ended(t) == thread[t] = "ended"

\* What the caller knows of the threads it has joined, and then looked at.
CallerInv ==
    /\ pc \notin {"join", "alive", "done"} => at = 1
    /\ pc = "join" /\ late = {} => \A i \in 1 .. at - 1 : Ended(Joined[i])
    /\ pc \in {"collect", "alive", "decide"} /\ late = {} => \A t \in Threads : Ended(t)
    /\ pc = "alive" => \A i \in 1 .. at - 1 : Ended(Joined[i])
    /\ pc = "decide" => \A t \in Threads : Ended(t)
    /\ pc \in {"alive", "decide"} /\ late = {} => taken = Len(events)

\* Verdicts that are about the events are given when no thread is left.
VerdictInv ==
    /\ verdict = "none" <=> pc # "done"
    /\ verdict \in {"failed", "malformed", "result"} => \A t \in Threads : Ended(t)

IInv ==
    /\ TypeOK /\ ChildInv /\ StartInv /\ ReportInv /\ EventsInv /\ CallerInv /\ VerdictInv
    /\ ResultIsWhole /\ DecidedOnEverything /\ ChildIsReaped

-----------------------------------------------------------------------------
(***************************************************************************)
(* Types.                                                                  *)
(***************************************************************************)
\* What a report on the queue adds to it.
LEMMA Reported ==
    ASSUME events \in Seq(Events), NEW s \in Readers, NEW kind \in {"limit", "data", "error"},
           Report(s, kind)
    PROVE  /\ events' \in Seq(Events)
           /\ Len(events') = Len(events) + 1
           /\ DOMAIN events = 1 .. Len(events)
           /\ DOMAIN events' = 1 .. Len(events) + 1
           /\ Len(events) \in Nat
           /\ events'[Len(events) + 1] = [kind |-> kind, stream |-> s]
           /\ \A i \in DOMAIN events : events'[i] = events[i]
<1> DEFINE e == [kind |-> kind, stream |-> s]
<1>1. e \in Events
  BY DEF Events
<1>2. events' = Append(events, e)
  BY DEF Report
<1> HIDE DEF e
<1>3. /\ events' \in Seq(Events)
      /\ Len(events') = Len(events) + 1
      /\ events'[Len(events) + 1] = e
      /\ \A i \in 1 .. Len(events) : events'[i] = events[i]
  BY <1>1, <1>2
<1> QED  BY <1>3 DEF e

\* The same, for the type invariant.
LEMMA ReportedTypes ==
    ASSUME TypeOK, NEW s \in Readers, NEW kind \in {"limit", "data", "error"}, Report(s, kind)
    PROVE  events' \in Seq(Events) /\ taken \in 0 .. Len(events')
<1>1. events \in Seq(Events) /\ taken \in 0 .. Len(events)
  BY DEF TypeOK, Events
<1>2. events' \in Seq(Events) /\ Len(events') = Len(events) + 1 /\ Len(events) \in Nat
  BY <1>1, Reported
<1> QED  BY <1>1, <1>2

LEMMA InitTypes == Init => TypeOK
<1> SUFFICES ASSUME Init PROVE TypeOK
  OBVIOUS
<1>1. events \in Seq(Events) /\ taken \in 0 .. Len(events)
  BY DEF Init
<1>2. /\ holders \in [Threads -> SUBSET {"child", "descendant"}]
      /\ unread \in [Readers -> Nat] /\ read \in [Readers -> Nat]
      /\ thread \in [Threads -> {"none", "running", "killing", "closing", "ended"}]
  BY DEF Init
<1>3. verdict = "none" /\ "none" \in Verdicts
  BY DEF Init, Verdicts
<1>4. at = 1 /\ faults = 0 /\ killed = FALSE /\ fed \in BOOLEAN /\ late = {}
  BY DEF Init
<1>5. /\ child = "none" /\ status = "none" /\ pc = "popen" /\ raised = "none"
  BY DEF Init
<1>6. at \in 1 .. 3 /\ faults \in Nat /\ killed \in BOOLEAN /\ late \in SUBSET Threads
  <2>1. at \in 1 .. 3 /\ faults \in Nat
    BY <1>4
  <2>2. killed \in BOOLEAN /\ late \in SUBSET Threads
    BY <1>4, Zenon
  <2> QED  BY <2>1, <2>2
<1>7. /\ child \in {"none", "running", "exited", "reaped"}
      /\ status \in {"none", "zero", "nonzero", "killed"}
      /\ pc \in {"popen", "start", "wait", "reap", "poll", "join", "collect", "alive", "decide",
                 "done"}
      /\ raised \in {"none", "timeout", "interrupted"}
      /\ fed \in BOOLEAN /\ verdict \in Verdicts
  BY <1>3, <1>4, <1>5
<1> QED  BY <1>1, <1>2, <1>6, <1>7, Zenon DEF TypeOK

LEMMA EnvironmentTypes == TypeOK /\ (Environment \/ ChildDies) => TypeOK'
<1> SUFFICES ASSUME TypeOK, Environment \/ ChildDies PROVE TypeOK'
  OBVIOUS
<1> USE DEF TypeOK, threads, caller
<1>1. ASSUME NEW s \in Readers, Write(s) PROVE TypeOK'
  BY <1>1 DEF Write
<1>2. CASE ReadRequest
  BY <1>2 DEF ReadRequest
<1>3. CASE Spawn
  BY <1>3 DEF Spawn
<1>4. CASE DescendantEnds
  BY <1>4 DEF DescendantEnds
<1>5. CASE ChildExits
  BY <1>5 DEF ChildExits, EndWith
<1>6. CASE ChildDies
  BY <1>6 DEF ChildDies, EndWith
<1> QED  BY <1>1, <1>2, <1>3, <1>4, <1>5, <1>6 DEF Environment

ThreadStates == {"none", "running", "killing", "closing", "ended"}

\* One thread moves.
LEMMA ThreadTypes ==
    ASSUME TypeOK, NEW s \in Threads, NEW state \in ThreadStates,
           thread' = [thread EXCEPT ![s] = state]
    PROVE  thread' \in [Threads -> ThreadStates]
<1>1. thread \in [Threads -> ThreadStates]
  BY DEF TypeOK, ThreadStates
<1> QED  BY <1>1

LEMMA PumpTypes == TypeOK /\ Pump => TypeOK'
<1> SUFFICES ASSUME TypeOK, Pump PROVE TypeOK'
  OBVIOUS
<1>0. /\ \A s \in Readers : s \in Threads
      /\ "stdin" \in Threads
      /\ {"killing", "closing", "ended"} \subseteq ThreadStates
  BY DEF Threads, ThreadStates
<1>1. ASSUME NEW s \in Readers, ReadChunk(s) PROVE TypeOK'
  <2>1. PICK n \in 1 .. unread[s] :
          /\ read' = [read EXCEPT ![s] = @ + n]
          /\ unread' = [unread EXCEPT ![s] = @ - n]
    BY <1>1 DEF ReadChunk
  <2>2. /\ read[s] \in Nat /\ unread[s] \in Nat /\ n \in Nat /\ n <= unread[s]
        /\ unread \in [Readers -> Nat] /\ read \in [Readers -> Nat]
    BY <2>1 DEF TypeOK
  <2>3. read' \in [Readers -> Nat] /\ unread' \in [Readers -> Nat]
    BY <2>1, <2>2
  <2>4. thread' \in [Threads -> ThreadStates]
    <3>1. UNCHANGED thread \/ thread' = [thread EXCEPT ![s] = "killing"]
      BY <1>1 DEF ReadChunk
    <3>2. thread \in [Threads -> ThreadStates]
      BY DEF TypeOK, ThreadStates
    <3> QED  BY <1>0, <3>1, <3>2, ThreadTypes
  <2>5. UNCHANGED events \/ Report(s, "limit")
    BY <1>1 DEF ReadChunk
  <2>6. events' \in Seq(Events) /\ taken \in 0 .. Len(events')
    <3>1. CASE UNCHANGED events
      BY <3>1 DEF TypeOK
    <3>2. CASE Report(s, "limit")
      BY <3>2, ReportedTypes
    <3> QED  BY <2>5, <3>1, <3>2
  <2> QED  BY <1>1, <2>3, <2>4, <2>6 DEF ReadChunk, TypeOK, ThreadStates, caller
<1>2. ASSUME NEW s \in Readers, ReadEnd(s) PROVE TypeOK'
  <2>1. events' \in Seq(Events) /\ taken \in 0 .. Len(events')
    BY <1>2, ReportedTypes DEF ReadEnd
  <2>2. thread' \in [Threads -> ThreadStates]
    BY <1>0, <1>2, ThreadTypes DEF ReadEnd
  <2> QED  BY <1>2, <2>1, <2>2 DEF ReadEnd, TypeOK, ThreadStates, process, caller
<1>3. ASSUME NEW s \in Readers, ReadError(s) PROVE TypeOK'
  <2>1. events' \in Seq(Events) /\ taken \in 0 .. Len(events')
    BY <1>3, ReportedTypes DEF ReadError
  <2>2. faults' \in Nat
    BY <1>3 DEF ReadError, TypeOK
  <2>3. thread' \in [Threads -> ThreadStates]
    BY <1>0, <1>3, ThreadTypes DEF ReadError
  <2> QED  BY <1>3, <2>1, <2>2, <2>3 DEF ReadError, TypeOK, ThreadStates, process, caller
<1>4. ASSUME NEW s \in Readers, ReaderKills(s) PROVE TypeOK'
  <2>1. thread' \in [Threads -> ThreadStates]
    BY <1>0, <1>4, ThreadTypes DEF ReaderKills
  <2> QED  BY <1>4, <2>1 DEF ReaderKills, Kill, TypeOK, ThreadStates, caller
<1>5. ASSUME NEW s \in Readers, Close(s) PROVE TypeOK'
  <2>1. thread' \in [Threads -> ThreadStates]
    BY <1>0, <1>5, ThreadTypes DEF Close
  <2> QED  BY <1>5, <2>1 DEF Close, TypeOK, ThreadStates, process, caller
<1>6. CASE FeedEnds
  <2>1. thread' \in [Threads -> ThreadStates]
    BY <1>0, <1>6, ThreadTypes DEF FeedEnds
  <2> QED  BY <1>6, <2>1 DEF FeedEnds, TypeOK, ThreadStates, process, caller
<1> QED  BY <1>1, <1>2, <1>3, <1>4, <1>5, <1>6 DEF Pump

-----------------------------------------------------------------------------
(***************************************************************************)
(* What is decided on the events: the first of the failures, if there are  *)
(* any, has a place among the naturals and so exists.                      *)
(***************************************************************************)
LEMMA LeastExists ==
    ASSUME NEW S, S \subseteq Nat, S # {}
    PROVE  \E i \in S : \A j \in S : i <= j
<1>1. PICK x \in S : \A y \in S : ~ (<<y, x>> \in OpToRel(<, Nat))
  BY NatLessThanWellFounded, WFMin
<1>2. ASSUME NEW y \in S PROVE x <= y
  <2>1. x \in Nat /\ y \in Nat /\ <<y, x>> \in Nat \X Nat
    OBVIOUS
  <2>2. ~ (y < x)
    BY <1>1, <2>1 DEF OpToRel
  <2> QED  BY <2>1, <2>2
<1> QED  BY <1>2

LEMMA JudgementFacts ==
    ASSUME NEW reported \in Seq(Events)
    PROVE  /\ Failures(reported) = {} =>
                \/ /\ Judgement(reported) = "failed"
                   /\ status # "zero"
                \/ /\ Judgement(reported) = "result"
                   /\ status = "zero" /\ Captured(reported, "stdout") /\ read["stdout"] = Answer
                \/ /\ Judgement(reported) = "malformed"
                   /\ status = "zero"
                   /\ ~(Captured(reported, "stdout") /\ read["stdout"] = Answer)
           /\ Failures(reported) # {} =>
                \E i \in Failures(reported) : Judgement(reported) = reported[i].kind
<1>1. CASE Failures(reported) = {}
  BY <1>1 DEF Judgement
<1>2. CASE Failures(reported) # {}
  <2>1. Failures(reported) \subseteq Nat
    BY DEF Failures
  <2>2. \E i \in Failures(reported) : \A j \in Failures(reported) : i <= j
    BY <1>2, <2>1, LeastExists
  <2> DEFINE first == CHOOSE i \in Failures(reported) : \A j \in Failures(reported) : i <= j
  <2>3. first \in Failures(reported)
    BY <2>2
  <2>4. Judgement(reported) = reported[first].kind
    BY <1>2 DEF Judgement
  <2> QED  BY <1>2, <2>3, <2>4
<1> QED  BY <1>1, <1>2

\* A failure that was reported has one of two names.
LEMMA NoFailureNamedSo ==
    ASSUME NEW reported \in Seq(Events), NEW i \in Failures(reported)
    PROVE  reported[i].kind \in {"limit", "error"}
<1>1. i \in DOMAIN reported /\ reported[i].kind # "data"
  BY DEF Failures
<1>2. reported[i] \in Events
  BY <1>1
<1> QED  BY <1>1, <1>2 DEF Events

\* What was taken off the queue is the beginning of what was put on it.
LEMMA TakenEvents ==
    ASSUME TypeOK
    PROVE  /\ SubSeq(events, 1, taken) \in Seq(Events)
           /\ \A i \in DOMAIN SubSeq(events, 1, taken) :
                i \in DOMAIN events /\ SubSeq(events, 1, taken)[i] = events[i]
           /\ taken = Len(events) => SubSeq(events, 1, taken) = events
<1>1. events \in Seq(Events) /\ taken \in 0 .. Len(events) /\ Len(events) \in Nat
  BY DEF TypeOK
<1>2. \A i \in 1 .. taken : events[i] \in Events
  BY <1>1
<1> QED  BY <1>1, <1>2

LEMMA JudgementTypes ==
    ASSUME NEW reported \in Seq(Events)
    PROVE  Judgement(reported) \in {"limit", "error", "failed", "malformed", "result"}
<1>1. \A i \in Failures(reported) : reported[i].kind \in {"limit", "error"}
  BY NoFailureNamedSo
<1> QED  BY <1>1, JudgementFacts

LEMMA KnownVerdicts ==
    /\ {"not started", "cut", "interrupted", "timeout", "not cleaned up"} \subseteq Verdicts
    /\ {"limit", "error", "failed", "malformed", "result"} \subseteq Verdicts
  BY DEF Verdicts

\* Where the caller can be.
Stages == {"popen", "start", "wait", "reap", "poll", "join", "collect", "alive", "decide", "done"}

LEMMA NextJoinTypes ==
    ASSUME TypeOK, NextJoin
    PROVE  pc' \in Stages /\ at' \in 1 .. 3 /\ verdict' \in Verdicts
<1>1. at \in 1 .. 3 /\ pc \in Stages /\ verdict \in Verdicts
  BY DEF TypeOK, Stages
<1>2. CASE at < 3
  BY <1>1, <1>2 DEF NextJoin
<1>3. CASE ~(at < 3)
  <2>1. at' = 1
    BY <1>3 DEF NextJoin
  <2>2. pc' \in {"collect", "done"}
    BY <1>3 DEF NextJoin, End
  <2>3. verdict' = verdict \/ verdict' \in {"timeout", "interrupted"}
    BY <1>3 DEF NextJoin, End, TypeOK
  <2>4. verdict' \in Verdicts
    BY <1>1, <2>3, KnownVerdicts
  <2> QED  BY <2>1, <2>2, <2>4 DEF Stages
<1> QED  BY <1>2, <1>3

LEMMA CallerTypes == TypeOK /\ (Caller \/ Interrupt) => TypeOK'
<1> SUFFICES ASSUME TypeOK, Caller \/ Interrupt PROVE TypeOK'
  OBVIOUS
<1> USE DEF process, threads
<1>1. CASE Popen
  <2>0. holders \in [Threads -> SUBSET {"child", "descendant"}]
    BY DEF TypeOK
  <2>1. holders' \in [Threads -> SUBSET {"child", "descendant"}]
    BY <1>1, <2>0 DEF Popen
  <2>2. verdict' \in Verdicts /\ pc' \in Stages
    BY <1>1, KnownVerdicts DEF Popen, End, TypeOK, Stages
  <2>3. child' \in {"none", "running", "exited", "reaped"}
    BY <1>1 DEF Popen, TypeOK
  <2> QED  BY <1>1, <2>1, <2>2, <2>3 DEF Popen, TypeOK, Stages
<1>2. CASE StartThreads
  BY <1>2 DEF StartThreads, TypeOK
<1>3. CASE Wait
  BY <1>3 DEF Wait, TypeOK
<1>4. CASE Timeout
  BY <1>4 DEF Timeout, Kill, TypeOK
<1>5. CASE Poll
  BY <1>5 DEF Poll, Kill, TypeOK
<1>6. CASE Join
  BY <1>6, NextJoinTypes DEF Join, TypeOK, Stages
<1>7. CASE JoinTimesOut
  <2>1. at = 1 \/ at = 2 \/ at = 3
    BY DEF TypeOK
  <2>2. Joined[at] \in Threads
    BY <2>1 DEF Joined, Threads, Readers
  <2> QED  BY <1>7, <2>2, NextJoinTypes DEF JoinTimesOut, TypeOK, Stages
<1>8. CASE Collect
  <2>1. Len(events) \in Nat
    BY DEF TypeOK
  <2> QED  BY <1>8, <2>1 DEF Collect, TypeOK
<1>9. CASE CheckAlive
  <2>1. at' \in 1 .. 3
    <3>1. at \in 1 .. 3 /\ (at' = at \/ (at < 3 /\ at' = at + 1) \/ at' = 1)
      BY <1>9 DEF CheckAlive, End, TypeOK
    <3> QED  BY <3>1
  <2>2. pc' \in Stages
    BY <1>9 DEF CheckAlive, End, TypeOK, Stages
  <2>3. verdict' \in Verdicts
    BY <1>9, KnownVerdicts DEF CheckAlive, End, TypeOK
  <2> QED  BY <1>9, <2>1, <2>2, <2>3 DEF CheckAlive, TypeOK, Stages
<1>10. CASE Decide
  <2>1. SubSeq(events, 1, taken) \in Seq(Events)
    BY DEF TypeOK
  <2>2. verdict' \in {"limit", "error", "failed", "malformed", "result"} /\ pc' = "done"
    BY <1>10, <2>1, JudgementTypes DEF Decide, End
  <2> QED  BY <1>10, <2>2, KnownVerdicts DEF Decide, TypeOK
<1>11. CASE Interrupt
  <2>1. pc' \in Stages /\ raised' \in {"none", "timeout", "interrupted"}
    BY <1>11 DEF Interrupt, End, TypeOK, Stages
  <2>2. verdict' \in Verdicts
    BY <1>11, KnownVerdicts DEF Interrupt, End, TypeOK
  <2>3. faults' \in Nat
    BY <1>11 DEF Interrupt, TypeOK
  <2> QED  BY <1>11, <2>1, <2>2, <2>3 DEF Interrupt, TypeOK, Stages
<1> QED  BY <1>1, <1>2, <1>3, <1>4, <1>5, <1>6, <1>7, <1>8, <1>9, <1>10, <1>11 DEF Caller

LEMMA TypesPreserved == TypeOK /\ [Next]_vars => TypeOK'
<1>1. TypeOK /\ UNCHANGED vars => TypeOK'
  BY DEF TypeOK, vars, process, threads, caller
<1> QED  BY <1>1, EnvironmentTypes, PumpTypes, CallerTypes DEF Next

\* Every variable keeps its type.
THEOREM TypeCorrect == Spec => []TypeOK
  BY InitTypes, TypesPreserved, PTL DEF Spec

\* The same, about the places of the queue.
LEMMA ReportedPlaces ==
    ASSUME events \in Seq(Events), NEW s \in Readers, NEW kind \in {"limit", "data", "error"},
           Report(s, kind)
    PROVE  /\ \A i \in DOMAIN events : i \in DOMAIN events' /\ events'[i] = events[i]
           /\ \A i \in DOMAIN events' :
                \/ i \in DOMAIN events
                \/ events'[i] = [kind |-> kind, stream |-> s] /\ events'[i].stream = s
           /\ \E i \in DOMAIN events' : events'[i] = [kind |-> kind, stream |-> s]
<1>1. /\ Len(events) \in Nat
      /\ DOMAIN events = 1 .. Len(events) /\ DOMAIN events' = 1 .. Len(events) + 1
      /\ events'[Len(events) + 1] = [kind |-> kind, stream |-> s]
      /\ \A i \in DOMAIN events : events'[i] = events[i]
  BY Reported
<1>2. /\ \A i \in 1 .. Len(events) : i \in 1 .. Len(events) + 1
      /\ \A i \in 1 .. Len(events) + 1 : i \in 1 .. Len(events) \/ i = Len(events) + 1
      /\ Len(events) + 1 \in 1 .. Len(events) + 1
  BY <1>1
<1> QED  BY <1>1, <1>2

-----------------------------------------------------------------------------
(***************************************************************************)
(* The inductive invariant.                                                *)
(***************************************************************************)
LEMMA InitInvariant == Init => IInv
<1> SUFFICES ASSUME Init PROVE IInv
  OBVIOUS
<1>1. TypeOK
  BY InitTypes
<1>2. \A s \in Readers : Limit(s) \in Nat
  BY EvaluatorAssumption DEF Limit
<1>3. ReportInv /\ EventsInv
  BY <1>2 DEF Init, ReportInv, EventsInv, Threads
<1>4. ChildInv /\ StartInv /\ CallerInv /\ VerdictInv
  BY DEF Init, ChildInv, StartInv, CallerInv, VerdictInv
<1>5. ResultIsWhole /\ DecidedOnEverything /\ ChildIsReaped
  BY DEF Init, ResultIsWhole, DecidedOnEverything, ChildIsReaped
<1> QED  BY <1>1, <1>3, <1>4, <1>5 DEF IInv

\* What a group of actions leaves alone.
LEMMA EnvironmentFrame ==
    Environment \/ ChildDies => UNCHANGED <<killed, thread, read, events, caller, faults>>
  BY DEF Environment, ChildDies, Write, ReadRequest, Spawn, DescendantEnds, ChildExits, EndWith,
         threads

LEMMA PumpFrame == Pump => UNCHANGED <<status, holders, fed, caller>>
  BY DEF Pump, ReadChunk, ReadEnd, ReadError, ReaderKills, Close, FeedEnds, process

LEMMA CallerFrame ==
    Caller \/ Interrupt => /\ UNCHANGED <<status, unread, fed, read, events>>
                           /\ UNCHANGED thread \/ StartThreads
                           /\ UNCHANGED holders \/ Popen
  BY DEF Caller, Popen, StartThreads, Wait, Timeout, Poll, Join, JoinTimesOut, Collect,
         CheckAlive, Decide, Interrupt, process, threads

\* Threads that have ended stay so; when all have, none of them moves.
LEMMA EndedThreads ==
    ASSUME TypeOK, Pump
    PROVE  /\ \A t \in Threads : Ended(t) => Ended(t)'
           /\ \E t \in Threads : ~Ended(t)
<1>1. thread \in [Threads -> {"none", "running", "killing", "closing", "ended"}]
  BY DEF TypeOK
<1>2. \A s \in Readers : s \in Threads
  BY DEF Threads
<1>3. "stdin" \in Threads
  BY DEF Threads
<1>4. ASSUME NEW s \in Readers,
             ReadChunk(s) \/ ReadEnd(s) \/ ReadError(s) \/ ReaderKills(s) \/ Close(s)
      PROVE  /\ thread[s] # "ended"
             /\ \A t \in Threads : thread[t] = "ended" => thread'[t] = "ended"
  BY <1>1, <1>2, <1>4 DEF ReadChunk, ReadEnd, ReadError, ReaderKills, Close
<1>5. ASSUME FeedEnds
      PROVE  /\ thread["stdin"] # "ended"
             /\ \A t \in Threads : thread[t] = "ended" => thread'[t] = "ended"
  BY <1>1, <1>3, <1>5 DEF FeedEnds
<1> QED  BY <1>2, <1>3, <1>4, <1>5 DEF Pump, Ended

\* The joins, and the checks after them, are about every thread.
LEMMA AllJoined ==
    ASSUME \A i \in 1 .. 3 : Ended(Joined[i])'
    PROVE  \A t \in Threads : Ended(t)'
<1>1. Ended(Joined[1])' /\ Ended(Joined[2])' /\ Ended(Joined[3])'
  OBVIOUS
<1>2. Joined[1] = "stdin" /\ Joined[2] = "stdout" /\ Joined[3] = "stderr"
  BY DEF Joined
<1> QED  BY <1>1, <1>2 DEF Ended, Threads, Readers

LEMMA ChildPreserved == IInv /\ [Next]_vars => ChildInv'
<1> SUFFICES ASSUME IInv, [Next]_vars PROVE ChildInv'
  OBVIOUS
<1> USE DEF ChildInv
<1>0. ChildInv
  BY DEF IInv
<1>1. CASE Environment \/ ChildDies
  <2>1. UNCHANGED pc
    BY <1>1, EnvironmentFrame DEF caller
  <2>2. UNCHANGED <<child, status>> \/ (child = "running" /\ child' = "exited")
    BY <1>1 DEF Environment, ChildDies, Write, ReadRequest, Spawn, DescendantEnds, ChildExits,
                EndWith
  <2> QED  BY <1>0, <2>1, <2>2
<1>2. CASE Pump
  <2>1. UNCHANGED <<pc, status>>
    BY <1>2, PumpFrame DEF caller
  <2>2. UNCHANGED child \/ (child = "exited" /\ child' = "reaped")
    BY <1>2 DEF Pump, ReadChunk, ReadEnd, ReadError, ReaderKills, Close, FeedEnds, Kill, process
  <2> QED  BY <1>0, <2>1, <2>2
<1>3. CASE Popen
  BY <1>0, <1>3 DEF Popen, End
<1>4. CASE StartThreads
  BY <1>0, <1>4 DEF StartThreads, process
<1>5. CASE Wait
  BY <1>0, <1>5 DEF Wait
<1>6. CASE Timeout \/ Poll
  BY <1>0, <1>6 DEF IInv, TypeOK, Timeout, Poll, Kill
<1>7. CASE Join \/ JoinTimesOut
  BY <1>0, <1>7 DEF Join, JoinTimesOut, NextJoin, End, process
<1>8. CASE Collect \/ CheckAlive \/ Decide
  BY <1>0, <1>8 DEF Collect, CheckAlive, Decide, End, process
<1>9. CASE Interrupt
  BY <1>0, <1>9 DEF Interrupt, End, process
<1>10. CASE UNCHANGED vars
  BY <1>0, <1>10 DEF vars, process, caller
<1> QED  BY <1>1, <1>2, <1>3, <1>4, <1>5, <1>6, <1>7, <1>8, <1>9, <1>10 DEF Next, Caller

LEMMA StartPreserved == IInv /\ [Next]_vars => StartInv'
<1> SUFFICES ASSUME IInv, [Next]_vars PROVE StartInv'
  OBVIOUS
<1>0. StartInv
  BY DEF IInv
<1>1. CASE Environment \/ ChildDies \/ UNCHANGED vars
  BY <1>0, <1>1, EnvironmentFrame DEF StartInv, vars, threads, caller
<1>2. CASE Pump
  <2>1. UNCHANGED pc
    BY <1>2, PumpFrame DEF caller
  <2>2. \E t \in Threads : thread[t] # "none"
    BY <1>2 DEF Pump, ReadChunk, ReadEnd, ReadError, ReaderKills, Close, FeedEnds, Threads
  <2> QED  BY <1>0, <2>1, <2>2 DEF StartInv
<1>3. CASE Caller \/ Interrupt
  <2>1. UNCHANGED read /\ (UNCHANGED thread \/ StartThreads)
    BY <1>3, CallerFrame
  <2>2. pc' \in {"popen", "start"} => pc = "popen" /\ ~StartThreads
    BY <1>3 DEF Caller, Popen, StartThreads, Wait, Timeout, Poll, Join, JoinTimesOut, NextJoin,
                Collect, CheckAlive, Decide, Interrupt, End
  <2> QED  BY <1>0, <2>1, <2>2 DEF StartInv
<1> QED  BY <1>1, <1>2, <1>3 DEF Next

LEMMA ReportPreserved == IInv /\ [Next]_vars => ReportInv'
<1> SUFFICES ASSUME IInv, [Next]_vars PROVE ReportInv'
  OBVIOUS
<1>0. ReportInv /\ StartInv /\ TypeOK
  BY DEF IInv
<1>a. /\ thread \in [Threads -> {"none", "running", "killing", "closing", "ended"}]
      /\ read \in [Readers -> Nat] /\ unread \in [Readers -> Nat]
      /\ events \in Seq(Events)
      /\ \A s \in Readers : s \in Threads /\ s # "stdin" /\ Limit(s) \in Nat
  BY <1>0, EvaluatorAssumption DEF TypeOK, Threads, Readers, Limit
<1>1. CASE Environment \/ ChildDies \/ UNCHANGED vars
  BY <1>0, <1>1, EnvironmentFrame DEF ReportInv, vars, threads
<1>2. CASE Caller \/ Interrupt
  <2>1. UNCHANGED <<read, events>> /\ (UNCHANGED thread \/ StartThreads)
    BY <1>2, CallerFrame
  <2>2. CASE UNCHANGED thread
    BY <1>0, <2>1, <2>2 DEF ReportInv
  <2>3. CASE StartThreads
    <3>1. \A s \in Readers : thread[s] = "none" /\ thread'[s] = "running"
      BY <1>0, <1>a, <2>3 DEF StartThreads, StartInv
    <3> QED  BY <1>0, <2>1, <3>1 DEF ReportInv
  <2> QED  BY <2>1, <2>2, <2>3
<1>3. ASSUME NEW s \in Readers, ReadChunk(s) PROVE ReportInv'
  <2>1. PICK n \in 1 .. unread[s] :
          /\ read' = [read EXCEPT ![s] = @ + n]
          /\ \/ read[s] + n > Limit(s) /\ Report(s, "limit")
                /\ thread' = [thread EXCEPT ![s] = "killing"]
             \/ ~(read[s] + n > Limit(s)) /\ UNCHANGED <<events, thread>>
    BY <1>3 DEF ReadChunk
  <2>2. /\ thread[s] = "running"
        /\ read[s] \in Nat /\ n \in Nat /\ Limit(s) \in Nat
    BY <1>3, <1>a DEF ReadChunk
  <2>3. /\ read'[s] = read[s] + n
        /\ \A t \in Readers \ {s} : read'[t] = read[t]
    BY <1>a, <2>1
  <2>4. CASE /\ read[s] + n > Limit(s) /\ Report(s, "limit")
             /\ thread' = [thread EXCEPT ![s] = "killing"]
    <3>1. thread'[s] = "killing" /\ \A t \in Readers \ {s} : thread'[t] = thread[t]
      BY <1>a, <2>4
    <3>2. /\ \A i \in DOMAIN events : i \in DOMAIN events' /\ events'[i] = events[i]
          /\ \A i \in DOMAIN events' : i \in DOMAIN events \/ events'[i].stream = s
          /\ \E i \in DOMAIN events' : events'[i] = [kind |-> "limit", stream |-> s]
      BY <1>a, <2>4, ReportedPlaces
    <3> QED  BY <1>0, <2>3, <3>1, <3>2 DEF ReportInv
  <2>5. CASE ~(read[s] + n > Limit(s)) /\ UNCHANGED <<events, thread>>
    <3>1. read'[s] <= Limit(s) /\ ~(read'[s] > Limit(s))
      BY <2>2, <2>3, <2>5
    <3> QED  BY <1>0, <2>2, <2>3, <2>5, <3>1 DEF ReportInv
  <2> QED  BY <2>1, <2>4, <2>5
<1>4. ASSUME NEW s \in Readers, ReadEnd(s) \/ ReadError(s) PROVE ReportInv'
  <2>1. /\ thread[s] = "running" /\ thread'[s] \in {"closing", "killing"} /\ UNCHANGED read
        /\ \A t \in Readers \ {s} : thread'[t] = thread[t]
    BY <1>4, <1>a DEF ReadEnd, ReadError
  <2>2. PICK kind \in {"data", "error"} : Report(s, kind)
    BY <1>4 DEF ReadEnd, ReadError
  <2>3. /\ \A i \in DOMAIN events : i \in DOMAIN events' /\ events'[i] = events[i]
        /\ \A i \in DOMAIN events' : i \in DOMAIN events \/ events'[i].stream = s
        /\ \E i \in DOMAIN events' : events'[i] = [kind |-> kind, stream |-> s]
    BY <1>a, <2>2, ReportedPlaces
  <2>4. ~(read[s] > Limit(s))
    BY <1>0, <1>a, <2>1 DEF ReportInv
  <2> QED  BY <1>0, <2>1, <2>3, <2>4 DEF ReportInv
<1>5. ASSUME NEW s \in Readers, ReaderKills(s) \/ Close(s) PROVE ReportInv'
  <2>1. /\ thread[s] \notin {"none", "running"} /\ thread'[s] \notin {"none", "running"}
        /\ UNCHANGED <<read, events>> /\ \A t \in Readers \ {s} : thread'[t] = thread[t]
    BY <1>5, <1>a DEF ReaderKills, Close
  <2> QED  BY <1>0, <2>1 DEF ReportInv
<1>6. CASE FeedEnds
  <2>1. UNCHANGED <<read, events>> /\ \A t \in Readers : thread'[t] = thread[t]
    BY <1>6, <1>a DEF FeedEnds
  <2> QED  BY <1>0, <2>1 DEF ReportInv
<1> QED  BY <1>1, <1>2, <1>3, <1>4, <1>5, <1>6 DEF Next, Pump

LEMMA EventsPreserved == IInv /\ [Next]_vars => EventsInv'
<1> SUFFICES ASSUME IInv, [Next]_vars PROVE EventsInv'
  OBVIOUS
<1>0. EventsInv /\ ReportInv /\ StartInv /\ TypeOK
  BY DEF IInv
<1>a. /\ holders \in [Threads -> SUBSET {"child", "descendant"}]
      /\ read \in [Readers -> Nat] /\ unread \in [Readers -> Nat]
      /\ events \in Seq(Events)
      /\ \A i \in DOMAIN events : events[i].stream \in Readers
      /\ \A s \in Readers : s \in Threads /\ Limit(s) \in Nat
  <2>1. \A i \in DOMAIN events : events[i] \in Events
    BY <1>0 DEF TypeOK
  <2> QED  BY <1>0, <2>1, EvaluatorAssumption DEF TypeOK, Threads, Readers, Limit, Events
<1>1. CASE Environment \/ ChildDies
  <2>1. UNCHANGED <<read, events>>
    BY <1>1, EnvironmentFrame
  <2>2. SUFFICES ASSUME NEW s \in Readers, holders[s] = {}, unread[s] = 0
                 PROVE  holders'[s] = {} /\ unread'[s] = 0
    BY <1>0, <1>a, <2>1 DEF EventsInv, StillTrue
  <2>3. ASSUME NEW t \in Readers, Write(t) PROVE holders'[s] = {} /\ unread'[s] = 0
    BY <1>a, <2>2, <2>3 DEF Write
  <2>4. CASE ReadRequest
    BY <2>2, <2>4 DEF ReadRequest
  <2>5. CASE Spawn
    BY <1>a, <2>2, <2>5 DEF Spawn
  <2>6. CASE DescendantEnds
    BY <1>a, <2>2, <2>6 DEF DescendantEnds
  <2>7. CASE ChildExits \/ ChildDies
    BY <1>a, <2>2, <2>7 DEF ChildExits, ChildDies, EndWith
  <2> QED  BY <1>1, <2>3, <2>4, <2>5, <2>6, <2>7 DEF Environment
<1>2. CASE Caller \/ Interrupt
  <2>1. UNCHANGED <<read, events, unread>> /\ (UNCHANGED holders \/ Popen)
    BY <1>2, CallerFrame
  <2>2. CASE UNCHANGED holders
    BY <1>0, <2>1, <2>2 DEF EventsInv, StillTrue
  <2>3. CASE Popen
    <3>1. \A t \in Threads : thread[t] = "none"
      BY <1>0, <2>3 DEF Popen, StartInv
    <3>2. ASSUME NEW i \in DOMAIN events PROVE FALSE
      <4>1. events[i].stream \in Readers /\ thread[events[i].stream] = "none"
        BY <1>a, <3>1
      <4> QED  BY <1>0, <4>1 DEF ReportInv
    <3> QED  BY <2>1, <3>2 DEF EventsInv
  <2> QED  BY <2>1, <2>2, <2>3
<1>3. ASSUME NEW s \in Readers, ReadChunk(s) PROVE EventsInv'
  <2>1. PICK n \in 1 .. unread[s] :
          /\ read' = [read EXCEPT ![s] = @ + n]
          /\ unread' = [unread EXCEPT ![s] = @ - n]
          /\ \/ read[s] + n > Limit(s) /\ Report(s, "limit")
             \/ UNCHANGED events
    BY <1>3 DEF ReadChunk
  <2>2. thread[s] = "running" /\ UNCHANGED holders
    BY <1>3 DEF ReadChunk
  <2>3. \A i \in DOMAIN events : events[i].stream # s
    BY <1>0, <2>2 DEF ReportInv
  <2>4. \A t \in Readers \ {s} : read'[t] = read[t] /\ unread'[t] = unread[t]
    BY <1>a, <2>1
  <2>5. /\ \A i \in DOMAIN events : i \in DOMAIN events' /\ events'[i] = events[i]
        /\ \A i \in DOMAIN events' :
             \/ i \in DOMAIN events
             \/ /\ events'[i] = [kind |-> "limit", stream |-> s]
                /\ read[s] + n > Limit(s)
    BY <1>a, <2>1, ReportedPlaces
  <2>6. ASSUME NEW i \in DOMAIN events' PROVE StillTrue(events[i])'
    <3>1. CASE i \in DOMAIN events
      <4>1. events'[i] = events[i] /\ events[i].stream \in Readers \ {s}
        BY <1>a, <2>3, <2>5, <3>1
      <4> QED  BY <1>0, <2>2, <2>4, <3>1, <4>1 DEF EventsInv, StillTrue
    <3>2. CASE /\ events'[i] = [kind |-> "limit", stream |-> s]
               /\ read[s] + n > Limit(s)
      <4>1. read'[s] = read[s] + n
        BY <1>a, <2>1
      <4> QED  BY <3>2, <4>1 DEF StillTrue
    <3> QED  BY <2>5, <3>1, <3>2
  <2> QED  BY <2>6 DEF EventsInv
<1>4. ASSUME NEW s \in Readers, ReadEnd(s) \/ ReadError(s) PROVE EventsInv'
  <2>1. UNCHANGED <<holders, unread, read>> /\ thread[s] = "running"
    BY <1>4 DEF ReadEnd, ReadError, process
  <2>2. read[s] <= Limit(s)
    BY <1>0, <2>1 DEF ReportInv
  <2>3. PICK kind \in {"data", "error"} :
          /\ Report(s, kind)
          /\ kind = "data" => holders[s] = {} /\ unread[s] = 0
    BY <1>4 DEF ReadEnd, ReadError
  <2>4. /\ \A i \in DOMAIN events : i \in DOMAIN events' /\ events'[i] = events[i]
        /\ \A i \in DOMAIN events' :
             i \in DOMAIN events \/ events'[i] = [kind |-> kind, stream |-> s]
    BY <1>a, <2>3, ReportedPlaces
  <2>5. ASSUME NEW i \in DOMAIN events' PROVE StillTrue(events[i])'
    <3>1. CASE i \in DOMAIN events
      BY <1>0, <2>1, <2>4, <3>1 DEF EventsInv, StillTrue
    <3>2. CASE events'[i] = [kind |-> kind, stream |-> s]
      BY <2>1, <2>2, <2>3, <3>2 DEF StillTrue
    <3> QED  BY <2>4, <3>1, <3>2
  <2> QED  BY <2>5 DEF EventsInv
<1>5. CASE (\E s \in Readers : ReaderKills(s) \/ Close(s)) \/ FeedEnds
  <2>1. UNCHANGED <<holders, unread, read, events>>
    BY <1>5 DEF ReaderKills, Close, FeedEnds, process
  <2> QED  BY <1>0, <2>1 DEF EventsInv, StillTrue
<1>6. CASE UNCHANGED vars
  <2>1. UNCHANGED <<holders, unread, read, events>>
    BY <1>6 DEF vars, process, threads
  <2> QED  BY <1>0, <2>1 DEF EventsInv, StillTrue
<1> QED  BY <1>1, <1>2, <1>3, <1>4, <1>5, <1>6 DEF Next, Pump

LEMMA CallerPreserved == IInv /\ [Next]_vars => CallerInv'
<1> SUFFICES ASSUME IInv, [Next]_vars PROVE CallerInv'
  OBVIOUS
<1>0. CallerInv /\ TypeOK
  BY DEF IInv
<1>a. /\ at \in 1 .. 3 /\ late \in SUBSET Threads /\ taken \in 0 .. Len(events)
      /\ Len(events) \in Nat /\ \A i \in 1 .. at - 1 : Joined[i] \in Threads
  <2>1. /\ at \in 1 .. 3 /\ late \in SUBSET Threads /\ taken \in 0 .. Len(events)
        /\ events \in Seq(Events)
    BY <1>0 DEF TypeOK
  <2>2. \A i \in 1 .. 3 : Joined[i] \in Threads
    BY DEF Joined, Threads, Readers
  <2>3. \A i \in 1 .. at - 1 : i \in 1 .. 3
    BY <2>1
  <2> QED  BY <2>1, <2>2, <2>3
<1>1. CASE Environment \/ ChildDies \/ UNCHANGED vars
  <2>1. UNCHANGED <<thread, events, pc, at, late, taken>>
    BY <1>1, EnvironmentFrame DEF vars, threads, caller
  <2> QED  BY <1>0, <2>1 DEF CallerInv, Ended
<1>2. CASE Pump
  <2>1. UNCHANGED <<pc, at, late, taken>>
    BY <1>2, PumpFrame DEF caller
  <2>2. /\ \A t \in Threads : Ended(t) => Ended(t)'
        /\ ~(\A t \in Threads : Ended(t))
    BY <1>0, <1>2, EndedThreads
  <2>3. \A i \in 1 .. at - 1 : Ended(Joined[i]) => Ended(Joined[i])'
    BY <1>a, <2>2
  <2> QED  BY <1>0, <2>1, <2>2, <2>3 DEF CallerInv
<1>3. CASE Popen \/ StartThreads \/ Wait \/ Timeout \/ Poll
  <2>1. /\ UNCHANGED at /\ pc \notin {"join", "alive"}
        /\ pc' \notin {"collect", "alive", "decide"}
    BY <1>3 DEF Popen, StartThreads, Wait, Timeout, Poll, End
  <2>2. at' = 1 \/ pc' = "done"
    BY <1>0, <2>1, <1>3 DEF CallerInv, Popen, StartThreads, Wait, Timeout, Poll
  <2> QED  BY <1>a, <2>1, <2>2 DEF CallerInv
<1>4. CASE Join \/ JoinTimesOut
  <2>1. /\ UNCHANGED thread /\ pc = "join" /\ NextJoin
        /\ late' = {} => late = {} /\ Ended(Joined[at])
    BY <1>4, <1>a DEF Join, JoinTimesOut, threads, Ended
  <2>2. CASE at < 3
    <3>1. at' = at + 1 /\ pc' = "join"
      BY <2>1, <2>2 DEF NextJoin
    <3>2. at' - 1 = at /\ \A i \in 1 .. at : i \in 1 .. at - 1 \/ i = at
      BY <1>a, <3>1
    <3>3. late' = {} => \A i \in 1 .. at' - 1 : Ended(Joined[i])'
      BY <1>0, <2>1, <3>2 DEF CallerInv, Ended
    <3> QED  BY <3>1, <3>3 DEF CallerInv
  <2>3. CASE at = 3
    <3>1. at' = 1 /\ pc' \in {"collect", "done"}
      BY <2>1, <2>3 DEF NextJoin, End
    <3>2. late' = {} => \A i \in 1 .. 3 : Ended(Joined[i])'
      <4>1. \A i \in 1 .. 3 : i \in 1 .. at - 1 \/ i = at
        BY <2>3
      <4> QED  BY <1>0, <2>1, <4>1 DEF CallerInv, Ended
    <3>3. late' = {} => \A t \in Threads : Ended(t)'
      BY <3>2, AllJoined
    <3> QED  BY <3>1, <3>3 DEF CallerInv
  <2> QED  BY <1>a, <2>2, <2>3
<1>5. CASE Collect
  <2>1. UNCHANGED <<thread, events, at, late>> /\ pc = "collect" /\ at = 1
    BY <1>0, <1>5 DEF Collect, threads, CallerInv
  <2>2. \/ pc' = "collect"
        \/ pc' = "alive" /\ taken' = Len(events)
    BY <1>5, <1>a DEF Collect
  <2>3. \A i \in 1 .. at - 1 : FALSE
    BY <2>1
  <2> QED  BY <1>0, <2>1, <2>2, <2>3 DEF CallerInv, Ended
<1>6. CASE CheckAlive
  <2>1. UNCHANGED <<thread, events, late, taken>> /\ pc = "alive"
    BY <1>6 DEF CheckAlive, threads
  <2>2. CASE pc' = "done"
    BY <2>2 DEF CallerInv
  <2>3. CASE at < 3 /\ at' = at + 1 /\ pc' = pc /\ Ended(Joined[at])
    <3>1. at' - 1 = at /\ \A i \in 1 .. at : i \in 1 .. at - 1 \/ i = at
      BY <1>a, <2>3
    <3>2. \A i \in 1 .. at' - 1 : Ended(Joined[i])'
      BY <1>0, <2>1, <2>3, <3>1 DEF CallerInv, Ended
    <3> QED  BY <1>0, <2>1, <2>3, <3>2 DEF CallerInv, Ended
  <2>4. CASE at = 3 /\ at' = 1 /\ pc' = "decide" /\ Ended(Joined[at])
    <3>1. \A i \in 1 .. 3 : i \in 1 .. at - 1 \/ i = at
      BY <2>4
    <3>2. \A i \in 1 .. 3 : Ended(Joined[i])'
      BY <1>0, <2>1, <2>4, <3>1 DEF CallerInv, Ended
    <3>3. \A t \in Threads : Ended(t)'
      BY <3>2, AllJoined
    <3> QED  BY <1>0, <2>1, <2>4, <3>3 DEF CallerInv
  <2>5. at < 3 \/ at = 3
    BY <1>a
  <2>6. \/ pc' = "done"
        \/ at < 3 /\ at' = at + 1 /\ pc' = pc /\ Ended(Joined[at])
        \/ ~(at < 3) /\ at' = 1 /\ pc' = "decide" /\ Ended(Joined[at])
    BY <1>6 DEF CheckAlive, End, Ended
  <2> QED  BY <2>2, <2>3, <2>4, <2>5, <2>6
<1>7. CASE Decide \/ Interrupt
  <2>1. pc' \in {"done", "poll"} /\ (pc' = "poll" => UNCHANGED at /\ pc \in {"wait", "reap"})
    BY <1>7 DEF Decide, Interrupt, End
  <2> QED  BY <1>0, <2>1 DEF CallerInv
<1> QED  BY <1>1, <1>2, <1>3, <1>4, <1>5, <1>6, <1>7 DEF Next, Caller

\* No step follows the end of a call but those of the child's descendant and
\* of readers that are still alive.
LEMMA AfterTheEnd ==
    ASSUME IInv, [Next]_vars, pc = "done"
    PROVE  /\ UNCHANGED <<pc, late, verdict, status>> \/ child = "running"
           /\ UNCHANGED <<pc, late, verdict>>
           /\ child = "reaped" => UNCHANGED child
<1> SUFFICES /\ UNCHANGED <<pc, late, verdict>>
             /\ UNCHANGED status \/ child = "running"
             /\ child = "reaped" => UNCHANGED child
  OBVIOUS
<1>1. CASE Environment \/ ChildDies
  <2>1. UNCHANGED <<pc, late, verdict>>
    BY <1>1, EnvironmentFrame DEF caller
  <2>2. UNCHANGED <<child, status>> \/ child = "running"
    BY <1>1 DEF Environment, ChildDies, Write, ReadRequest, Spawn, DescendantEnds, ChildExits,
                EndWith
  <2> QED  BY <2>1, <2>2
<1>2. CASE Pump
  <2>1. UNCHANGED <<pc, late, verdict, status>>
    BY <1>2, PumpFrame DEF caller
  <2>2. UNCHANGED child \/ child = "exited"
    BY <1>2 DEF Pump, ReadChunk, ReadEnd, ReadError, ReaderKills, Close, FeedEnds, Kill, process
  <2> QED  BY <2>1, <2>2
<1>3. CASE Caller \/ Interrupt
  BY <1>3 DEF Caller, Popen, StartThreads, Wait, Timeout, Poll, Join, JoinTimesOut, Collect,
              CheckAlive, Decide, Interrupt
<1>4. CASE UNCHANGED vars
  BY <1>4 DEF vars, process, caller
<1> QED  BY <1>1, <1>2, <1>3, <1>4 DEF Next

\* How a call ends.
LEMMA TheEnd ==
    ASSUME IInv, [Next]_vars, pc # "done", pc' = "done"
    PROVE  \/ Popen /\ verdict' = "not started"
           \/ (Join \/ JoinTimesOut) /\ verdict' = raised /\ raised # "none"
           \/ CheckAlive /\ verdict' = "not cleaned up" /\ ~Ended(Joined[at])
           \/ Decide
           \/ Interrupt /\ verdict' = "cut"
           \/ Interrupt /\ verdict' = "interrupted" /\ pc \in {"collect", "alive", "decide"}
<1>1. CASE Environment \/ ChildDies \/ Pump \/ UNCHANGED vars
  BY <1>1, EnvironmentFrame, PumpFrame DEF vars, caller
<1>2. CASE Popen
  BY <1>2 DEF Popen, End
<1>3. CASE StartThreads \/ Wait \/ Timeout \/ Poll \/ Collect
  BY <1>3 DEF StartThreads, Wait, Timeout, Poll, Collect
<1>4. CASE Join \/ JoinTimesOut
  BY <1>4 DEF Join, JoinTimesOut, NextJoin, End
<1>5. CASE CheckAlive
  BY <1>5 DEF CheckAlive, End, Ended
<1>6. CASE Interrupt
  BY <1>6 DEF IInv, TypeOK, Interrupt, End
<1> QED  BY <1>1, <1>2, <1>3, <1>4, <1>5, <1>6 DEF Next, Caller

LEMMA ReapedPreserved == IInv /\ [Next]_vars => ChildIsReaped'
<1> SUFFICES ASSUME IInv, [Next]_vars PROVE ChildIsReaped'
  OBVIOUS
<1>0. ChildInv /\ ChildIsReaped
  BY DEF IInv
<1>1. CASE pc = "done"
  BY <1>0, <1>1, AfterTheEnd DEF ChildIsReaped
<1>2. CASE pc # "done" /\ pc' = "done"
  <2>1. CASE Popen \/ (Interrupt /\ verdict' = "cut")
    BY <1>2, <2>1 DEF Popen, End, ChildIsReaped
  <2>2. CASE \/ Join \/ JoinTimesOut \/ CheckAlive \/ Decide
             \/ (Interrupt /\ pc \in {"collect", "alive", "decide"})
    <3>1. child = "reaped"
      BY <1>0, <2>2 DEF ChildInv, Join, JoinTimesOut, CheckAlive, Decide
    <3>2. UNCHANGED child
      BY <2>2 DEF Join, JoinTimesOut, CheckAlive, Decide, Interrupt, process
    <3> QED  BY <3>1, <3>2 DEF ChildIsReaped
  <2> QED  BY <1>2, <2>1, <2>2, TheEnd
<1>3. CASE pc' # "done"
  BY <1>3 DEF ChildIsReaped
<1> QED  BY <1>1, <1>2, <1>3

LEMMA NoVerdictYet ==
    ASSUME [Next]_vars, pc' # "done"
    PROVE  UNCHANGED verdict
<1>1. CASE Environment \/ ChildDies \/ Pump \/ UNCHANGED vars
  BY <1>1, EnvironmentFrame, PumpFrame DEF vars, caller
<1>2. CASE Caller \/ Interrupt
  BY <1>2 DEF Caller, Popen, StartThreads, Wait, Timeout, Poll, Join, JoinTimesOut, NextJoin,
              Collect, CheckAlive, Decide, Interrupt, End
<1> QED  BY <1>1, <1>2 DEF Next

\* When all threads have ended, nothing is read or reported any more.
LEMMA AllEndedStays ==
    ASSUME IInv, [Next]_vars, pc = "done", \A t \in Threads : Ended(t)
    PROVE  UNCHANGED threads
<1>1. ~Pump
  BY EndedThreads DEF IInv
<1>2. CASE Environment \/ ChildDies
  BY <1>2, EnvironmentFrame DEF threads
<1>3. CASE Caller \/ Interrupt
  BY <1>3 DEF Caller, Popen, StartThreads, Wait, Timeout, Poll, Join, JoinTimesOut, Collect,
              CheckAlive, Decide, Interrupt
<1>4. CASE UNCHANGED vars
  BY <1>4 DEF vars
<1> QED  BY <1>1, <1>2, <1>3, <1>4 DEF Next

\* A pipe that is closed and empty stays so.
LEMMA ClosedPipeStays ==
    ASSUME IInv, [Next]_vars, pc = "done", \A t \in Threads : Ended(t), child # "running",
           NEW s \in Readers, holders[s] = {}, unread[s] = 0
    PROVE  holders'[s] = {} /\ unread'[s] = 0
<1>0. /\ holders \in [Threads -> SUBSET {"child", "descendant"}] /\ unread \in [Readers -> Nat]
      /\ s \in Threads
  BY DEF IInv, TypeOK, Threads
<1>1. ~Pump
  BY EndedThreads DEF IInv
<1>2. CASE \E t \in Readers : Write(t)
  BY <1>0, <1>2 DEF Write
<1>3. CASE ReadRequest \/ DescendantEnds
  BY <1>0, <1>3 DEF ReadRequest, DescendantEnds
<1>4. ~Spawn /\ ~ChildExits /\ ~ChildDies
  BY DEF Spawn, ChildExits, ChildDies, EndWith
<1>5. CASE Caller \/ Interrupt
  BY <1>5 DEF Caller, Popen, StartThreads, Wait, Timeout, Poll, Join, JoinTimesOut, Collect,
              CheckAlive, Decide, Interrupt
<1>6. CASE UNCHANGED vars
  BY <1>6 DEF vars, process
<1> QED  BY <1>1, <1>2, <1>3, <1>4, <1>5, <1>6 DEF Next, Environment

LEMMA VerdictPreserved == IInv /\ [Next]_vars => VerdictInv'
<1> SUFFICES ASSUME IInv, [Next]_vars PROVE VerdictInv'
  OBVIOUS
<1>0. VerdictInv /\ CallerInv /\ TypeOK
  BY DEF IInv
<1>1. CASE pc = "done"
  <2>1. UNCHANGED <<pc, verdict>>
    BY <1>1, AfterTheEnd
  <2>2. (\A t \in Threads : Ended(t)) => \A t \in Threads : Ended(t)'
    BY <1>1, AllEndedStays DEF threads, Ended
  <2> QED  BY <1>0, <2>1, <2>2 DEF VerdictInv
<1>2. CASE pc # "done" /\ pc' = "done"
  <2>1. CASE Decide
    <3>1. SubSeq(events, 1, taken) \in Seq(Events)
      BY <1>0 DEF TypeOK
    <3>2. verdict' \in {"limit", "error", "failed", "malformed", "result"}
      BY <2>1, <3>1, JudgementTypes DEF Decide, End
    <3>3. \A t \in Threads : Ended(t)'
      BY <1>0, <2>1 DEF CallerInv, Decide, threads, Ended
    <3> QED  BY <1>2, <3>2, <3>3 DEF VerdictInv
  <2>2. CASE ~Decide
    <3>1. verdict' \in {"not started", "timeout", "interrupted", "not cleaned up", "cut"}
      BY <1>0, <1>2, <2>2, TheEnd DEF TypeOK
    <3> QED  BY <1>2, <3>1 DEF VerdictInv
  <2> QED  BY <2>1, <2>2
<1>3. CASE pc # "done" /\ pc' # "done"
  <2>1. UNCHANGED verdict
    BY <1>3, NoVerdictYet
  <2> QED  BY <1>0, <1>3, <2>1 DEF VerdictInv
<1> QED  BY <1>1, <1>2, <1>3

LEMMA ResultPreserved == IInv /\ [Next]_vars => ResultIsWhole'
<1> SUFFICES ASSUME IInv, [Next]_vars, verdict' = "result"
             PROVE  /\ status' = "zero"
                    /\ holders'["stdout"] = {} /\ unread'["stdout"] = 0
                    /\ read'["stdout"] = Answer
  BY DEF ResultIsWhole
<1>0. /\ TypeOK /\ ChildInv /\ EventsInv /\ VerdictInv /\ ResultIsWhole
      /\ "stdout" \in Readers /\ "stdout" \in Threads
  BY DEF IInv, Readers, Threads
<1>1. CASE pc = "done"
  <2>1. /\ status = "zero" /\ holders["stdout"] = {} /\ unread["stdout"] = 0
        /\ read["stdout"] = Answer /\ \A t \in Threads : Ended(t)
    BY <1>0, <1>1, AfterTheEnd DEF ResultIsWhole, VerdictInv
  <2>2. child # "running"
    BY <1>0, <2>1 DEF ChildInv
  <2>3. status' = "zero"
    BY <1>1, <2>1, <2>2, AfterTheEnd
  <2>4. holders'["stdout"] = {} /\ unread'["stdout"] = 0
    BY <1>0, <1>1, <2>1, <2>2, ClosedPipeStays
  <2>5. UNCHANGED read
    BY <1>1, <2>1, AllEndedStays DEF threads
  <2> QED  BY <2>1, <2>3, <2>4, <2>5
<1>2. CASE pc # "done"
  <2>1. pc' = "done"
    BY <1>2, VerdictPreserved DEF VerdictInv
  <2>2. Decide
    BY <1>0, <1>2, <2>1, TheEnd DEF TypeOK
  <2> DEFINE reported == SubSeq(events, 1, taken)
  <2>3. /\ reported \in Seq(Events)
        /\ \A i \in DOMAIN reported : i \in DOMAIN events /\ reported[i] = events[i]
    BY <1>0, TakenEvents
  <2>4. Judgement(reported) = "result"
    BY <2>2 DEF Decide, End
  <2> HIDE DEF reported
  <2>5. /\ status = "zero" /\ Captured(reported, "stdout") /\ read["stdout"] = Answer
    BY <2>3, <2>4, JudgementFacts, NoFailureNamedSo
  <2>6. PICK i \in DOMAIN events : events[i] = [kind |-> "data", stream |-> "stdout"]
    BY <2>3, <2>5 DEF Captured
  <2>7. holders["stdout"] = {} /\ unread["stdout"] = 0
    BY <1>0, <2>6 DEF EventsInv, StillTrue
  <2> QED  BY <2>2, <2>5, <2>7 DEF Decide, process, threads
<1> QED  BY <1>1, <1>2

\* No reader saw trouble, or the queue says so.
LEMMA TroubleIsReported ==
    ASSUME ReportInv, EventsInv, TypeOK
    PROVE  Trouble <=> Failures(events) # {}
<1>1. \A i \in DOMAIN events : events[i] \in Events /\ events[i].stream \in Readers
  <2>1. \A i \in DOMAIN events : events[i] \in Events
    BY DEF TypeOK
  <2> QED  BY <2>1 DEF Events
<1>2. ASSUME Trouble PROVE Failures(events) # {}
  <2>1. CASE \E s \in Readers : read[s] > Limit(s)
    <3>1. PICK s \in Readers : read[s] > Limit(s)
      BY <2>1
    <3>2. PICK i \in DOMAIN events : events[i] = [kind |-> "limit", stream |-> s]
      BY <3>1 DEF ReportInv
    <3> QED  BY <3>2 DEF Failures
  <2>2. CASE \E i \in DOMAIN events : events[i].kind = "error"
    BY <2>2 DEF Failures
  <2> QED  BY <1>2, <2>1, <2>2 DEF Trouble
<1>3. ASSUME Failures(events) # {} PROVE Trouble
  <2>1. PICK i \in Failures(events) : TRUE
    BY <1>3
  <2>2. i \in DOMAIN events /\ events[i].kind \in {"limit", "error"}
    BY <2>1, NoFailureNamedSo DEF TypeOK, Failures
  <2> QED  BY <1>1, <2>2 DEF Trouble, EventsInv, StillTrue
<1> QED  BY <1>2, <1>3

\* The verdicts about the events, when the whole queue was read.
Right(v) ==
    /\ v # "not cleaned up"
    /\ v \in {"limit", "error"} => Trouble
    /\ v = "failed" => ~Trouble /\ status # "zero"
    /\ v = "malformed" => ~Trouble /\ status = "zero" /\ read["stdout"] # Answer
    /\ v = "result" => ~Trouble

LEMMA JudgementIsRight ==
    ASSUME IInv, pc = "decide", late = {}
    PROVE  Right(Judgement(SubSeq(events, 1, taken)))
<1>0. /\ TypeOK /\ ReportInv /\ EventsInv /\ CallerInv /\ events \in Seq(Events)
      /\ "stdout" \in Readers /\ "stdout" \in Threads
  BY DEF IInv, TypeOK, Readers, Threads
<1>1. SubSeq(events, 1, taken) = events
  BY <1>0, TakenEvents DEF CallerInv
<1>2. Trouble <=> Failures(events) # {}
  BY <1>0, TroubleIsReported
<1>3. CASE Failures(events) = {}
  <2>1. Captured(events, "stdout")
    <3>1. thread["stdout"] = "ended"
      BY <1>0 DEF CallerInv, Ended
    <3>2. PICK i \in DOMAIN events : events[i].stream = "stdout"
      BY <1>0, <3>1 DEF ReportInv
    <3>3. events[i].kind = "data" /\ events[i] \in Events
      BY <1>0, <1>3, <3>2 DEF Failures
    <3>4. events[i] = [kind |-> "data", stream |-> "stdout"]
      BY <3>2, <3>3 DEF Events
    <3> QED  BY <3>4 DEF Captured
  <2>2. ~Trouble
    BY <1>2, <1>3
  <2> DEFINE v == Judgement(events)
  <2>3. \/ v = "failed" /\ status # "zero"
        \/ v = "result"
        \/ v = "malformed" /\ status = "zero" /\ read["stdout"] # Answer
    BY <1>0, <1>3, <2>1, JudgementFacts
  <2> HIDE DEF v
  <2>4. Right(v)
    BY <2>2, <2>3 DEF Right
  <2> QED  BY <1>1, <2>4 DEF v
<1>4. CASE Failures(events) # {}
  <2>1. PICK i \in Failures(events) : Judgement(events) = events[i].kind
    BY <1>0, <1>4, JudgementFacts
  <2>2. Judgement(events) \in {"limit", "error"}
    BY <1>0, <2>1, NoFailureNamedSo
  <2>3. Trouble
    BY <1>2, <1>4
  <2> DEFINE v == Judgement(events)
  <2> HIDE DEF v
  <2>4. v \in {"limit", "error"} => Right(v)
    BY <2>3 DEF Right
  <2> QED  BY <1>1, <2>2, <2>4 DEF v
<1> QED  BY <1>1, <1>3, <1>4

\* What a reader has noticed is not forgotten.
LEMMA TroubleStays ==
    ASSUME IInv, [Next]_vars, Trouble
    PROVE  Trouble'
<1>0. /\ read \in [Readers -> Nat] /\ unread \in [Readers -> Nat] /\ events \in Seq(Events)
      /\ \A s \in Readers : Limit(s) \in Nat
  BY EvaluatorAssumption DEF IInv, TypeOK, Limit
<1>1. CASE UNCHANGED <<read, events>>
  BY <1>1 DEF Trouble
<1>2. ASSUME NEW s \in Readers, ReadChunk(s) PROVE Trouble'
  <2>1. PICK n \in 1 .. unread[s] :
          /\ read' = [read EXCEPT ![s] = @ + n]
          /\ UNCHANGED events \/ Report(s, "limit")
    BY <1>2 DEF ReadChunk
  <2>2. \A i \in DOMAIN events : i \in DOMAIN events' /\ events'[i] = events[i]
    BY <1>0, <2>1, ReportedPlaces
  <2>3. \A t \in Readers : read[t] \in Nat /\ read'[t] \in Nat /\ read[t] <= read'[t]
    BY <1>0, <2>1
  <2>4. ASSUME NEW t \in Readers, read[t] > Limit(t) PROVE read'[t] > Limit(t)
    BY <1>0, <2>3, <2>4
  <2> QED  BY <2>2, <2>4 DEF Trouble
<1>3. ASSUME NEW s \in Readers, ReadEnd(s) \/ ReadError(s) PROVE Trouble'
  <2>1. UNCHANGED read /\ \E kind \in {"data", "error"} : Report(s, kind)
    BY <1>3 DEF ReadEnd, ReadError
  <2>2. \A i \in DOMAIN events : i \in DOMAIN events' /\ events'[i] = events[i]
    BY <1>0, <2>1, ReportedPlaces
  <2> QED  BY <2>1, <2>2 DEF Trouble
<1>4. CASE (\E s \in Readers : ReaderKills(s) \/ Close(s)) \/ FeedEnds \/ UNCHANGED vars
  <2>1. UNCHANGED <<read, events>>
    BY <1>4 DEF ReaderKills, Close, FeedEnds, vars, threads
  <2> QED  BY <1>1, <2>1
<1> QED  BY <1>1, <1>2, <1>3, <1>4, EnvironmentFrame, CallerFrame DEF Next, Pump

\* A verdict about the events says that the child has ended.
LEMMA StatusOfTheEnded ==
    ASSUME ChildIsReaped, pc = "done", verdict \in {"failed", "malformed", "result"}
    PROVE  child # "running"
  BY DEF ChildIsReaped

LEMMA DecidedPreserved == IInv /\ [Next]_vars => DecidedOnEverything'
<1> SUFFICES ASSUME IInv, [Next]_vars, pc' = "done", late' = {}
             PROVE  Right(verdict)'
  BY DEF DecidedOnEverything, Right
<1>0. /\ TypeOK /\ ChildInv /\ CallerInv /\ VerdictInv /\ DecidedOnEverything
  BY DEF IInv
<1>1. CASE pc = "done"
  <2>1. UNCHANGED <<late, verdict>> /\ Right(verdict)
    BY <1>0, <1>1, AfterTheEnd DEF DecidedOnEverything, Right
  <2>2. Trouble => Trouble'
    BY TroubleStays
  <2>3. CASE verdict \in {"failed", "malformed", "result"}
    <3>1. UNCHANGED threads
      BY <1>0, <1>1, <2>3, AllEndedStays DEF VerdictInv
    <3>2. Trouble' <=> Trouble
      BY <3>1 DEF Trouble, threads
    <3>3. UNCHANGED status
      BY <1>0, <1>1, <2>1, <2>3, AfterTheEnd, StatusOfTheEnded DEF IInv
    <3> QED  BY <2>1, <3>1, <3>2, <3>3 DEF Right, threads
  <2>4. CASE verdict \notin {"failed", "malformed", "result"}
    BY <2>1, <2>2, <2>4 DEF Right
  <2> QED  BY <2>3, <2>4
<1>2. CASE pc # "done"
  <2>1. CASE Decide
    <3>1. Right(Judgement(SubSeq(events, 1, taken)))
      BY <2>1, JudgementIsRight DEF Decide
    <3>2. /\ verdict' = Judgement(SubSeq(events, 1, taken))
          /\ UNCHANGED <<status, read, events>>
      BY <2>1 DEF Decide, End, process, threads
    <3>3. Trouble' <=> Trouble
      BY <3>2 DEF Trouble
    <3> QED  BY <3>1, <3>2, <3>3 DEF Right
  <2>2. CASE CheckAlive /\ ~Ended(Joined[at])
    <3>1. late = {} /\ pc = "alive" /\ at \in 1 .. 3
      BY <1>0, <2>2 DEF CheckAlive, TypeOK
    <3>2. \A t \in Threads : Ended(t)
      BY <1>0, <3>1 DEF CallerInv
    <3>3. Joined[at] \in Threads
      <4>1. at = 1 \/ at = 2 \/ at = 3
        BY <3>1
      <4> QED  BY <4>1 DEF Joined, Threads, Readers
    <3> QED  BY <2>2, <3>2, <3>3
  <2>3. CASE verdict' \in {"not started", "timeout", "interrupted", "cut"}
    BY <2>3 DEF Right
  <2> QED  BY <1>0, <1>2, <2>1, <2>2, <2>3, TheEnd DEF TypeOK
<1> QED  BY <1>1, <1>2

-----------------------------------------------------------------------------
(***************************************************************************)
(* The theorems.                                                           *)
(***************************************************************************)
\* All parts of the invariant hold together of every call.
THEOREM Invariance == Spec => []IInv
<1>1. IInv /\ [Next]_vars => IInv'
  <2> SUFFICES ASSUME IInv, [Next]_vars PROVE IInv'
    OBVIOUS
  <2>1. TypeOK'
    BY TypesPreserved DEF IInv
  <2>2. ChildInv' /\ StartInv' /\ ReportInv' /\ EventsInv'
    BY ChildPreserved, StartPreserved, ReportPreserved, EventsPreserved
  <2>3. CallerInv' /\ VerdictInv'
    BY CallerPreserved, VerdictPreserved
  <2>4. ResultIsWhole' /\ DecidedOnEverything' /\ ChildIsReaped'
    BY ResultPreserved, DecidedPreserved, ReapedPreserved
  <2> QED  BY <2>1, <2>2, <2>3, <2>4 DEF IInv
<1> QED  BY <1>1, InitInvariant, PTL DEF Spec

\* A result is read to the end of the stream, from a child that exited with
\* status 0.
THEOREM ResultsAreWhole == Spec => []ResultIsWhole
<1>1. IInv => ResultIsWhole
  BY DEF IInv
<1> QED  BY <1>1, Invariance, PTL

\* Unless a join timed out, the verdict is about all that happened.
THEOREM VerdictsAreAboutEverything == Spec => []DecidedOnEverything
<1>1. IInv => DecidedOnEverything
  BY DEF IInv
<1> QED  BY <1>1, Invariance, PTL

\* No call leaves its child behind, unless an exception cuts its clean-up.
THEOREM ChildrenAreReaped == Spec => []ChildIsReaped
<1>1. IInv => ChildIsReaped
  BY DEF IInv
<1> QED  BY <1>1, Invariance, PTL

\* No reader keeps more than its limit.
THEOREM CapturesAreBounded == Spec => []CaptureIsBounded
<1>1. IInv => CaptureIsBounded
  <2> SUFFICES ASSUME IInv, NEW s \in Readers, thread[s] = "running" \/ Captured(events, s)
               PROVE  read[s] <= Limit(s)
    BY DEF CaptureIsBounded
  <2>1. CASE thread[s] = "running"
    BY <2>1 DEF IInv, ReportInv
  <2>2. CASE Captured(events, s)
    BY <2>2 DEF IInv, EventsInv, StillTrue, Captured
  <2> QED  BY <2>1, <2>2
<1> QED  BY <1>1, Invariance, PTL
=============================================================================
