------------------------ MODULE SchedulerSafety_proofs ------------------------
(***************************************************************************)
(* IInv of Scheduler_proofs is inductive, and implies the invariants the   *)
(* runs check.                                                             *)
(***************************************************************************)
EXTENDS Scheduler_proofs

(* What a step does to the sets of requests with some status.               *)

LEMMA SameRequests ==
  ASSUME status' = status,
         live' = live \/ \E r : live' = live \ {r} /\ IsFinished(status[r])
  PROVE  /\ Unfinished' = Unfinished /\ RunningReqs' = RunningReqs
         /\ QueuedReqs' = QueuedReqs /\ StreamingReqs' = StreamingReqs
<1>1. Unfinished' = Unfinished
  BY DEF Unfinished
<1> QED BY <1>1 DEF RunningReqs, QueuedReqs, StreamingReqs

LEMMA RequestMoves ==
  ASSUME TypeOK, NEW r \in Unfinished, NEW s \in Statuses, ~IsFinished(s),
         status' = [status EXCEPT ![r] = s], live' = live
  PROVE  /\ Unfinished' = Unfinished
         /\ RunningReqs' = IF s = "RUNNING" THEN RunningReqs \cup {r} ELSE RunningReqs \ {r}
         /\ QueuedReqs' = IF s \in QueuedStatuses THEN QueuedReqs \cup {r} ELSE QueuedReqs \ {r}
<1>1. status \in [Requests -> Statuses] /\ live \subseteq Requests /\ r \in live
  BY DEF TypeOK, Unfinished
<1>2. /\ status'[r] = s
      /\ \A q \in Requests : q # r => status'[q] = status[q]
  BY <1>1
<1>3. Unfinished' = Unfinished
  BY <1>1, <1>2 DEF Unfinished
<1> QED BY <1>1, <1>2, <1>3 DEF RunningReqs, QueuedReqs, Unfinished

LEMMA RequestFinishes ==
  ASSUME TypeOK, NEW r \in Unfinished, NEW s \in FinishedStatuses,
         status' = [status EXCEPT ![r] = s], live' = live \/ live' = live \ {r}
  PROVE  /\ Unfinished' = Unfinished \ {r}
         /\ RunningReqs' = RunningReqs \ {r} /\ QueuedReqs' = QueuedReqs \ {r}
         /\ StreamingReqs' = StreamingReqs \ {r}
<1>1. status \in [Requests -> Statuses] /\ live \subseteq Requests /\ r \in live
  BY DEF TypeOK, Unfinished
<1>2. /\ status'[r] = s
      /\ \A q \in Requests : q # r => status'[q] = status[q]
  BY <1>1
<1>3. Unfinished' = Unfinished \ {r}
  BY <1>1, <1>2 DEF Unfinished, IsFinished
<1> QED BY <1>1, <1>2, <1>3 DEF RunningReqs, QueuedReqs, StreamingReqs, Unfinished

LEMMA PopMembers ==
  ASSUME IInv, InWaitingLoop, PopCandidate
  PROVE  /\ Members(waiting') = Members(waiting) \ {Candidate}
         /\ Members(skipped') = Members(skipped) \ {Candidate}
         /\ NoDuplicates(waiting') /\ NoDuplicates(skipped')
         /\ Candidate \notin Members(stepSkipped) /\ Candidate \notin Members(running)
<1>1. TypeOK /\ QueueInv /\ waiting \in Seq(Requests) /\ skipped \in Seq(Requests)
  BY DEF IInv, TypeOK
<1>2. HeadIndex(HeadQueue) \in 1..Len(HeadQueue)
  BY <1>1, PopTypes DEF InWaitingLoop
<1>3. /\ Candidate \in Requests /\ Candidate \in QueuedReqs
      /\ \/ FromSkipped /\ Candidate \in Members(skipped)
         \/ ~FromSkipped /\ Candidate \in Members(waiting)
      /\ stoppedRunning = {} /\ stoppedPreempted = {}
  BY CandidateQueued
<1>4. /\ NoDuplicates(waiting) /\ NoDuplicates(skipped)
      /\ Members(waiting) \cap Members(skipped) = {}
      /\ Members(waiting) \cap Members(stepSkipped) = {}
      /\ Members(skipped) \cap Members(stepSkipped) = {}
      /\ Members(running) = RunningReqs
  BY <1>1, <1>3 DEF QueueInv
<1>5. Candidate \notin Members(stepSkipped) /\ Candidate \notin Members(running)
  BY <1>3, <1>4 DEF QueuedReqs, RunningReqs, QueuedStatuses, BlockedStatuses
<1>6. CASE FromSkipped
  <2>1. HeadIndex(skipped) \in 1..Len(skipped) /\ Candidate = skipped[HeadIndex(skipped)]
    BY <1>2, <1>6 DEF Candidate, HeadQueue
  <2>2. skipped' = RemoveAt(skipped, HeadIndex(skipped)) /\ waiting' = waiting
    BY <1>6 DEF PopCandidate
  <2>3. Members(skipped') = Members(skipped) \ {Candidate} /\ NoDuplicates(skipped')
    BY <1>1, <1>4, <2>1, <2>2, RemoveAtMembers
  <2> QED BY <1>3, <1>4, <1>5, <1>6, <2>2, <2>3
<1>7. CASE ~FromSkipped
  <2>1. HeadIndex(waiting) \in 1..Len(waiting) /\ Candidate = waiting[HeadIndex(waiting)]
    BY <1>2, <1>7 DEF Candidate, HeadQueue
  <2>2. waiting' = RemoveAt(waiting, HeadIndex(waiting)) /\ skipped' = skipped
    BY <1>7 DEF PopCandidate
  <2>3. Members(waiting') = Members(waiting) \ {Candidate} /\ NoDuplicates(waiting')
    BY <1>1, <1>4, <2>1, <2>2, RemoveAtMembers
  <2> QED BY <1>3, <1>4, <1>5, <1>7, <2>2, <2>3
<1> QED BY <1>6, <1>7

\* The request a sample belongs to runs, or was preempted and waits at the
\* front: in either case it is in one queue and has not been stopped yet.
LEMMA SampledRequest ==
  ASSUME IInv, NEW r \in Requests, GetsToken(r)
  PROVE  /\ pc = "update" /\ r \in Unfinished /\ r \in live /\ r \in arrived
         /\ tokens[r] = batch.pos[r]
         /\ r \notin stoppedRunning /\ r \notin stoppedPreempted
         /\ \/ status[r] = "RUNNING" /\ r \in RunningReqs /\ r \in Members(running)
               /\ r \notin Members(waiting) /\ computed[r] = tokens[r]
            \/ status[r] = "PREEMPTED" /\ MaxInFlight = 2 /\ r \in QueuedReqs
               /\ r \in Members(waiting) /\ r \notin Members(running)
         /\ r \notin Members(skipped) /\ r \notin Members(stepSkipped)
<1>1. pc = "update" /\ batch.pos[r] > 0 /\ r \in Unfinished /\ r \in live
  BY DEF GetsToken, Gone, Unfinished
<1>2. SampleOf(r, batch.pos[r])
  BY <1>1 DEF IInv, SamplesInv, PendingInv
<1>3. r \in arrived
  BY <1>1 DEF IInv, TypeOK
<1>4. r \notin stoppedRunning /\ r \notin stoppedPreempted
  BY <1>1 DEF IInv, StoppedInv
<1>5. /\ Members(running) \ stoppedRunning = RunningReqs
      /\ Members(waiting) \cap Members(skipped) \subseteq stoppedPreempted
      /\ Members(waiting) \cap Members(stepSkipped) = {}
      /\ (Members(waiting) \ stoppedPreempted) \cup Members(skipped) \cup Members(stepSkipped)
           = QueuedReqs
  BY DEF IInv, QueueInv
<1>6. CASE status[r] = "RUNNING" /\ computed[r] = tokens[r]
  <2>1. r \in RunningReqs /\ r \notin QueuedReqs
    BY <1>1, <1>6 DEF RunningReqs, QueuedReqs, QueuedStatuses, BlockedStatuses
  <2> QED BY <1>1, <1>2, <1>3, <1>4, <1>5, <1>6, <2>1 DEF SampleOf
<1>7. CASE status[r] = "PREEMPTED" /\ MaxInFlight = 2 /\ r \in Members(waiting)
  <2>1. r \in QueuedReqs /\ r \notin RunningReqs
    BY <1>1, <1>7 DEF RunningReqs, QueuedReqs, QueuedStatuses
  <2> QED BY <1>1, <1>2, <1>3, <1>4, <1>5, <1>7, <2>1 DEF SampleOf
<1> QED BY <1>2, <1>6, <1>7 DEF SampleOf

------------------------------------------------------------------------------
(* AtRest.                                                                  *)

LEMMA InitAtRest == Init => AtRest
BY DEF Init, AtRest, NoBatch, Scheduled, Planning

\* Steps within one phase of schedule() or of update_from_output().
LEMMA StepAtRest ==
  ASSUME IInv, [Next]_vars
  PROVE  AtRest'
<1>r. AtRest /\ TypeOK
  BY DEF IInv
<1> USE DEF queueVars, idVars, tokenVars, sessionVars, kvVars, stepVars, updateVars,
            hookVars, workerVars
<1>1. CASE Quiet
  <2>f. UNCHANGED <<stoppedRunning, stoppedPreempted, sched, preempted, newReqs,
                    resumedReqs, stepSkipped>>
    BY <1>1, QuietFrame DEF quietVars
  <2>1. CASE BeginSchedule \/ SkipRunning \/ PickRunning
    BY <1>r, <2>1, <2>f DEF AtRest, BeginSchedule, SkipRunning, PickRunning, InRunningLoop,
       Scheduled, Planning
  <2>2. CASE EndRunningLoop
    BY <1>r, <2>2, <2>f DEF AtRest, EndRunningLoop, RunningLoopOver, Scheduled, Planning
  <2>3. CASE LoadDoesNotFit \/ ChunkTooBig \/ NoBlocksLeft
    <3>1. pc = "waiting" /\ pc' = "output" /\ batch' = batch
      BY <2>3 DEF LoadDoesNotFit, ChunkTooBig, NoBlocksLeft, BreakWaiting, Schedulable,
         InWaitingLoop
    <3> QED BY <1>r, <2>f, <3>1 DEF AtRest, Scheduled, Planning
  <2>4. CASE BeginUpdate \/ EndUpdate \/ BeginReset \/ EndReset
    <3>1. /\ pc \in {"idle", "kv", "reset"} /\ pc' \in {"update", "idle", "reset"}
          /\ pc' = "update" \/ batch' = batch
      BY <2>4 DEF BeginUpdate, EndUpdate, BeginReset, EndReset, BetweenSteps
    <3> QED BY <1>r, <2>f, <3>1 DEF AtRest, Scheduled, Planning
  <2>5. CASE EndOutputs
    <3>1. pc = "update" /\ pc' = "remove" /\ batch' = batch /\ BatchReqs(batch) = {}
      BY <2>5 DEF EndOutputs
    <3>2. \A r \in Requests : batch.pos[r] \in Nat
      BY <1>r DEF TypeOK, Batches
    <3>3. \A r \in Requests : batch.pos[r] = 0
      BY <3>1, <3>2 DEF BatchReqs
    <3> QED BY <1>r, <2>f, <3>1, <3>3 DEF AtRest, Scheduled, Planning
  <2>6. ASSUME NEW r \in Requests, SkipOutput(r)
        PROVE  AtRest'
    BY <1>r, <2>f, <2>6 DEF AtRest, SkipOutput, Scheduled, Planning
  <2>7. ASSUME NEW r \in Requests, CompileGrammar(r) \/ SubmitToolResponse(r)
        PROVE  AtRest'
    BY <1>r, <2>f, <2>7 DEF AtRest, CompileGrammar, SubmitToolResponse, Scheduled, Planning
  <2>8. ASSUME NEW s \in PauseStates, SetPauseState(s)
        PROVE  AtRest'
    BY <1>r, <2>f, <2>8 DEF AtRest, SetPauseState, Scheduled, Planning
  <2>9. CASE UNCHANGED vars
    BY <1>r, <2>9 DEF AtRest, vars, Scheduled, Planning
  <2> QED BY <1>1, <2>1, <2>2, <2>3, <2>4, <2>5, <2>6, <2>7, <2>8, <2>9 DEF Quiet
<1>2. CASE ScheduleRunning
  BY <1>r, <1>2 DEF AtRest, ScheduleRunning, Planning
<1>3. CASE PreemptVictim
  <2>1. /\ pc = "alloc" /\ pc' \in {"alloc", "post"}
        /\ UNCHANGED <<newReqs, resumedReqs, stepSkipped, updateVars>>
    BY <1>3 DEF PreemptVictim
  <2> QED BY <1>r, <2>1 DEF AtRest, Planning
<1>4. CASE SkipStep
  BY <1>r, <1>4 DEF AtRest, SkipStep, SkipBlocked, SkipForLora, SkipForConnector,
     SkipCandidate, Schedulable, InWaitingLoop, Planning
<1>5. CASE PromoteBlocked
  BY <1>r, <1>5 DEF AtRest, PromoteBlocked, InWaitingLoop, Scheduled, Planning
<1>6. CASE StartLoad
  BY <1>r, <1>6 DEF AtRest, StartLoad, Schedulable, InWaitingLoop, Planning
<1>7. CASE AdmitCandidate
  <2>1. pc = "waiting" /\ UNCHANGED <<pc, preempted, updateVars>>
    BY <1>7 DEF AdmitCandidate, Schedulable, InWaitingLoop
  <2> QED BY <1>r, <2>1 DEF AtRest, Planning
<1>8. CASE FinishSchedule
  <2>1. /\ pc' = "idle" /\ preempted' = {} /\ newReqs' = {} /\ resumedReqs' = {}
        /\ stepSkipped' = <<>> /\ sched' = [r \in Requests |-> 0]
        /\ pc \in {"output", "waiting"} /\ UNCHANGED updateVars
    BY <1>8 DEF FinishSchedule, ScheduleOver
  <2> QED BY <1>r, <2>1 DEF AtRest, Scheduled, Planning
<1>9. CASE RemoveStoppedRunning \/ RemoveStoppedPreempted
  <2>1. pc = "remove" /\ UNCHANGED <<pc, stepVars, updateVars>>
    BY <1>9 DEF RemoveStoppedRunning, RemoveStoppedPreempted
  <2> QED BY <1>r, <2>1 DEF AtRest, Scheduled, Planning
<1>10. CASE EndRemoval
  BY <1>r, <1>10 DEF AtRest, EndRemoval, Scheduled, Planning
<1>11. CASE ResetPreempt
  BY <1>r, <1>11 DEF AtRest, ResetPreempt, Scheduled, Planning
<1>12. ASSUME NEW r \in Requests,
              KeepGoing(r) \/ FinishStopped(r) \/ ContinueSession(r) \/ AwaitSession(r)
                \/ CallTool(r)
       PROVE  AtRest'
  <2>1. pc = "update" /\ UNCHANGED <<pc, stepVars>>
    BY <1>12 DEF GetsToken, KeepGoing, FinishStopped, ContinueSession, AwaitSession, CallTool
  <2> QED BY <1>r, <2>1 DEF AtRest, Scheduled, Planning
<1>13. ASSUME NEW r \in Requests,
              FinishedRecving(r) \/ FinishedSending(r) \/ AddRequest(r) \/ AbortRequest(r)
                \/ CloseSession(r) \/ StartNextChunk(r)
                \/ QueueUpdate(r, "chunk") \/ QueueUpdate(r, "end")
       PROVE  AtRest'
  <2>1. UNCHANGED <<pc, stepVars, updateVars>>
    BY <1>13 DEF FinishedRecving, FinishedSending, AddRequest, AbortRequest, CloseSession,
       StartNextChunk, QueueUpdate, FinishRequest
  <2> QED BY <1>r, <2>1 DEF AtRest, Scheduled, Planning
<1> QED BY <1>1, <1>2, <1>3, <1>4, <1>5, <1>6, <1>7, <1>8, <1>9, <1>10, <1>11, <1>12,
           <1>13, StepCases

------------------------------------------------------------------------------
(* QueueInv.                                                                *)

LEMMA InitQueueInv == Init => QueueInv
BY EmptyQueue DEF Init, QueueInv, RunningReqs, QueuedReqs, Unfinished

\* The victim goes from running to the front of waiting.
LEMMA PreemptMembers ==
  ASSUME IInv, pc \notin {"update", "remove"}, NEW i \in 1..Len(running),
         PreemptRequest(running[i]), running' = RemoveAt(running, i), live' = live
  PROVE  /\ running[i] \in RunningReqs /\ running[i] \in Unfinished /\ running[i] \in Requests
         /\ Unfinished' = Unfinished
         /\ RunningReqs' = RunningReqs \ {running[i]}
         /\ QueuedReqs' = QueuedReqs \cup {running[i]}
         /\ Members(running') = Members(running) \ {running[i]} /\ NoDuplicates(running')
         /\ Members(waiting') = Members(waiting) \cup {running[i]} /\ NoDuplicates(waiting')
         /\ running[i] \notin Members(waiting) /\ running[i] \notin Members(skipped)
         /\ running[i] \notin Members(stepSkipped)
<1> DEFINE r == running[i]
<1>1. r \in RunningReqs /\ r \in Requests
  BY RunningAgrees
<1>2. r \in Unfinished /\ r \notin QueuedReqs
  BY <1>1 DEF RunningReqs, QueuedReqs, QueuedStatuses, BlockedStatuses
<1>3. TypeOK /\ QueueInv /\ stoppedPreempted = {} /\ waiting \in Seq(Requests)
      /\ running \in Seq(Requests)
  BY DEF IInv, AtRest, TypeOK
<1>4. r \notin Members(waiting) /\ r \notin Members(skipped) /\ r \notin Members(stepSkipped)
  BY <1>2, <1>3 DEF QueueInv
<1>5. Members(running') = Members(running) \ {r} /\ NoDuplicates(running')
  BY <1>3, RemoveAtMembers DEF QueueInv
<1>6. Members(waiting') = Members(waiting) \cup {r} /\ NoDuplicates(waiting')
  BY <1>1, <1>3, <1>4, PrependMembers DEF QueueInv, PreemptRequest, Prepend
<1>7. "PREEMPTED" \in Statuses /\ ~IsFinished("PREEMPTED") /\ "PREEMPTED" \in QueuedStatuses
  BY DEF Statuses, QueuedStatuses, IsFinished, FinishedStatuses
<1>8. status' = [status EXCEPT ![r] = "PREEMPTED"]
  BY DEF PreemptRequest
<1> HIDE DEF r
<1>9. /\ Unfinished' = Unfinished /\ RunningReqs' = RunningReqs \ {r}
      /\ QueuedReqs' = QueuedReqs \cup {r}
  BY <1>2, <1>3, <1>7, <1>8, RequestMoves
<1> QED BY <1>1, <1>2, <1>4, <1>5, <1>6, <1>9 DEF r

\* The queues of a stopped session or of a tool call.
LEMMA EnqueueMembers ==
  ASSUME TypeOK, QueueInv, NEW r \in Requests, NEW s, EnqueueWaitingRequest(r, s),
         IsBlockedWaiting(s) => r \notin Members(skipped),
         ~IsBlockedWaiting(s) => r \notin Members(waiting)
  PROVE  /\ NoDuplicates(waiting') /\ NoDuplicates(skipped')
         /\ IsBlockedWaiting(s) => /\ waiting' = waiting
                                   /\ Members(skipped') = Members(skipped) \cup {r}
         /\ ~IsBlockedWaiting(s) => /\ skipped' = skipped
                                    /\ Members(waiting') = Members(waiting) \cup {r}
<1>1. /\ waiting \in Seq(Requests) /\ skipped \in Seq(Requests)
      /\ NoDuplicates(waiting) /\ NoDuplicates(skipped)
  BY DEF TypeOK, QueueInv
<1>2. CASE IsBlockedWaiting(s)
  <2>1. skipped' = Append(skipped, r) /\ waiting' = waiting
    BY <1>2 DEF EnqueueWaitingRequest
  <2>2. NoDuplicates(skipped') /\ Members(skipped') = Members(skipped) \cup {r}
    BY <1>1, <1>2, <2>1, AppendMembers
  <2> QED BY <1>1, <1>2, <2>1, <2>2
<1>3. CASE ~IsBlockedWaiting(s)
  <2>1. waiting' = Append(waiting, r) /\ skipped' = skipped
    BY <1>3 DEF EnqueueWaitingRequest
  <2>2. NoDuplicates(waiting') /\ Members(waiting') = Members(waiting) \cup {r}
    BY <1>1, <1>3, <2>1, AppendMembers
  <2> QED BY <1>1, <1>3, <2>1, <2>2
<1> QED BY <1>2, <1>3

\* A finished request is in no queue.
LEMMA LeaveQueuesMembers ==
  ASSUME IInv, NEW r \in Requests, pc = "idle", r \in Unfinished, LeaveQueues(r)
  PROVE  /\ Members(running') = Members(running) \ {r} /\ NoDuplicates(running')
         /\ Members(waiting') = Members(waiting) \ {r} /\ NoDuplicates(waiting')
         /\ Members(skipped') = Members(skipped) \ {r} /\ NoDuplicates(skipped')
         /\ Len(running') <= Len(running)
<1>1. /\ TypeOK /\ QueueInv /\ stoppedRunning = {} /\ stoppedPreempted = {}
      /\ stepSkipped = <<>>
  BY DEF IInv, AtRest
<1>2. /\ waiting \in Seq(Requests) /\ skipped \in Seq(Requests) /\ running \in Seq(Requests)
      /\ NoDuplicates(waiting) /\ NoDuplicates(skipped) /\ NoDuplicates(running)
      /\ Len(running) \in Nat
  BY <1>1, LenProperties DEF TypeOK, QueueInv
<1>3. Members(running) = RunningReqs /\ Members(waiting) \subseteq QueuedReqs
      /\ Members(skipped) \subseteq QueuedReqs
  BY <1>1 DEF QueueInv
<1>4. CASE status[r] = "RUNNING"
  <2>1. running' = Without(running, r) /\ waiting' = waiting /\ skipped' = skipped
    BY <1>4 DEF LeaveQueues
  <2>2. r \notin QueuedReqs
    BY <1>4 DEF QueuedReqs, QueuedStatuses, BlockedStatuses
  <2> QED BY <1>2, <1>3, <2>1, <2>2, WithoutMembers
<1>5. CASE status[r] # "RUNNING"
  <2>1. running' = running /\ waiting' = Without(waiting, r) /\ skipped' = Without(skipped, r)
    BY <1>5 DEF LeaveQueues
  <2>2. r \notin RunningReqs
    BY <1>5 DEF RunningReqs
  <2> QED BY <1>2, <1>3, <2>1, <2>2, WithoutMembers
<1> QED BY <1>4, <1>5

LEMMA QueueInvFrame ==
  ASSUME QueueInv, UNCHANGED <<waiting, skipped, running, stepSkipped, status,
                               stoppedRunning, stoppedPreempted>>,
         live' = live \/ \E r : live' = live \ {r} /\ IsFinished(status[r])
  PROVE  QueueInv'
<1>1. RunningReqs' = RunningReqs /\ QueuedReqs' = QueuedReqs
  BY SameRequests
<1> HIDE DEF RunningReqs, QueuedReqs
<1>2. /\ Members(waiting)' = Members(waiting) /\ Members(skipped)' = Members(skipped)
      /\ Members(running)' = Members(running)
      /\ Members(stepSkipped)' = Members(stepSkipped)
  BY DEF Members
<1>3. /\ NoDuplicates(waiting)' = NoDuplicates(waiting)
      /\ NoDuplicates(skipped)' = NoDuplicates(skipped)
      /\ NoDuplicates(running)' = NoDuplicates(running)
      /\ NoDuplicates(stepSkipped)' = NoDuplicates(stepSkipped)
  BY DEF NoDuplicates
<1> QED BY <1>1, <1>2, <1>3 DEF QueueInv

LEMMA PlanQueueInv ==
  ASSUME IInv,
         PreemptVictim \/ SkipStep \/ PromoteBlocked \/ StartLoad \/ AdmitCandidate
           \/ FinishSchedule \/ ResetPreempt
  PROVE  QueueInv'
<1>q. QueueInv /\ TypeOK
  BY DEF IInv
<1> USE DEF queueVars, idVars, tokenVars, sessionVars, kvVars, stepVars, updateVars,
            hookVars, workerVars
<1>1. CASE PreemptVictim \/ ResetPreempt
  <2>1. PICK i \in 1..Len(running) :
          PreemptRequest(running[i]) /\ running' = RemoveAt(running, i)
    <3>1. CASE PreemptVictim
      BY <3>1, Zenon DEF PreemptVictim
    <3>2. CASE ResetPreempt
      <4>1. running \in Seq(Requests) /\ running # <<>>
        BY <1>q, <3>2 DEF TypeOK, ResetPreempt
      <4>2. Len(running) \in 1..Len(running)
        BY <4>1, EmptySeq
      <4> QED BY <3>2, <4>2 DEF ResetPreempt
    <3> QED BY <1>1, <3>1, <3>2
  <2>2. /\ pc \in {"alloc", "reset"}
        /\ UNCHANGED <<live, skipped, stepSkipped, stoppedRunning, stoppedPreempted>>
    BY <1>1 DEF PreemptVictim, ResetPreempt
  <2>3. stoppedRunning = {} /\ stoppedPreempted = {}
    BY <2>2 DEF IInv, AtRest
  <2>4. /\ running[i] \in RunningReqs
        /\ RunningReqs' = RunningReqs \ {running[i]}
        /\ QueuedReqs' = QueuedReqs \cup {running[i]}
        /\ Members(running') = Members(running) \ {running[i]} /\ NoDuplicates(running')
        /\ Members(waiting') = Members(waiting) \cup {running[i]} /\ NoDuplicates(waiting')
        /\ running[i] \notin Members(waiting) /\ running[i] \notin Members(skipped)
        /\ running[i] \notin Members(stepSkipped)
    BY <2>1, <2>2, PreemptMembers
  <2>5. Members(skipped)' = Members(skipped) /\ Members(stepSkipped)' = Members(stepSkipped)
        /\ NoDuplicates(skipped)' = NoDuplicates(skipped)
        /\ NoDuplicates(stepSkipped)' = NoDuplicates(stepSkipped)
    BY <2>2 DEF Members, NoDuplicates
  <2> QED BY <1>q, <2>2, <2>3, <2>4, <2>5 DEF QueueInv
<1>2. CASE SkipStep
  <2>1. InWaitingLoop /\ SkipCandidate /\ PopCandidate
        /\ stepSkipped' = Append(stepSkipped, Candidate)
        /\ UNCHANGED <<running, live, status, stoppedRunning, stoppedPreempted>>
    BY <1>2 DEF SkipStep, SkipBlocked, SkipForLora, SkipForConnector, SkipCandidate, Schedulable
  <2>2. Candidate \in Requests /\ Candidate \in QueuedReqs /\ stoppedPreempted = {}
        /\ Candidate \in Members(waiting) \cup Members(skipped)
    BY <2>1, CandidateQueued
  <2>3. /\ Members(waiting') = Members(waiting) \ {Candidate}
        /\ Members(skipped') = Members(skipped) \ {Candidate}
        /\ NoDuplicates(waiting') /\ NoDuplicates(skipped')
        /\ Candidate \notin Members(stepSkipped)
    BY <2>1, PopMembers
  <2>4. Members(stepSkipped') = Members(stepSkipped) \cup {Candidate} /\ NoDuplicates(stepSkipped')
    BY <1>q, <2>1, <2>2, <2>3, AppendMembers DEF TypeOK, QueueInv
  <2>5. RunningReqs' = RunningReqs /\ QueuedReqs' = QueuedReqs
        /\ Members(running)' = Members(running)
        /\ NoDuplicates(running)' = NoDuplicates(running)
    BY <2>1, SameRequests DEF Members, NoDuplicates
  <2> QED BY <1>q, <2>1, <2>2, <2>3, <2>4, <2>5 DEF QueueInv
<1>3. CASE PromoteBlocked
  <2>1. InWaitingLoop
        /\ UNCHANGED <<waiting, skipped, running, stepSkipped, live, stoppedRunning, stoppedPreempted>>
    BY <1>3 DEF PromoteBlocked
  <2>2. Candidate \in QueuedReqs /\ Candidate \in Unfinished /\ Candidate \notin RunningReqs
    BY <2>1, CandidateQueued DEF QueuedReqs, RunningReqs, QueuedStatuses, BlockedStatuses
  <2>3. PICK s \in {"WAITING", "PREEMPTED"} : status' = [status EXCEPT ![Candidate] = s]
    BY <1>3 DEF PromoteBlocked
  <2>4. s \in Statuses /\ ~IsFinished(s) /\ s \in QueuedStatuses /\ s # "RUNNING"
    BY DEF Statuses, QueuedStatuses, IsFinished, FinishedStatuses
  <2>5. RunningReqs' = RunningReqs \ {Candidate} /\ QueuedReqs' = QueuedReqs \cup {Candidate}
    BY <1>q, <2>1, <2>2, <2>3, <2>4, RequestMoves
  <2>6. RunningReqs' = RunningReqs /\ QueuedReqs' = QueuedReqs
    BY <2>2, <2>5
  <2>7. /\ Members(waiting)' = Members(waiting) /\ Members(skipped)' = Members(skipped)
        /\ Members(running)' = Members(running)
        /\ Members(stepSkipped)' = Members(stepSkipped)
    BY <2>1 DEF Members
  <2>8. /\ NoDuplicates(waiting)' = NoDuplicates(waiting)
        /\ NoDuplicates(skipped)' = NoDuplicates(skipped)
        /\ NoDuplicates(running)' = NoDuplicates(running)
        /\ NoDuplicates(stepSkipped)' = NoDuplicates(stepSkipped)
    BY <2>1 DEF NoDuplicates
  <2> QED BY <1>q, <2>1, <2>6, <2>7, <2>8 DEF QueueInv
<1>4. CASE StartLoad
  <2>1. InWaitingLoop /\ PopCandidate /\ stepSkipped' = Append(stepSkipped, Candidate)
        /\ status' = [status EXCEPT ![Candidate] = "WAITING_FOR_REMOTE_KVS"]
        /\ UNCHANGED <<running, live, stoppedRunning, stoppedPreempted>>
    BY <1>4 DEF StartLoad, Schedulable
  <2>2. Candidate \in Requests /\ Candidate \in QueuedReqs /\ stoppedPreempted = {}
        /\ Candidate \in Members(waiting) \cup Members(skipped)
    BY <2>1, CandidateQueued
  <2>3. /\ Members(waiting') = Members(waiting) \ {Candidate}
        /\ Members(skipped') = Members(skipped) \ {Candidate}
        /\ NoDuplicates(waiting') /\ NoDuplicates(skipped')
        /\ Candidate \notin Members(stepSkipped)
    BY <2>1, PopMembers
  <2>4. Members(stepSkipped') = Members(stepSkipped) \cup {Candidate} /\ NoDuplicates(stepSkipped')
    <3>1. /\ stepSkipped \in Seq(Requests) /\ NoDuplicates(stepSkipped)
          /\ stepSkipped' = Append(stepSkipped, Candidate)
      BY <1>q, <2>1 DEF TypeOK, QueueInv
    <3> QED BY <2>2, <2>3, <3>1, AppendMembers
  <2>5. /\ "WAITING_FOR_REMOTE_KVS" \in QueuedStatuses \cap Statuses
        /\ ~IsFinished("WAITING_FOR_REMOTE_KVS")
    BY DEF Statuses, QueuedStatuses, BlockedStatuses, IsFinished, FinishedStatuses
  <2>6. Candidate \in Unfinished /\ Candidate \notin RunningReqs
    BY <2>2 DEF QueuedReqs, RunningReqs, QueuedStatuses, BlockedStatuses
  <2>9. /\ RunningReqs' = RunningReqs \ {Candidate}
        /\ QueuedReqs' = QueuedReqs \cup {Candidate}
    BY <1>q, <2>1, <2>2, <2>5, <2>6, RequestMoves
  <2>7. RunningReqs' = RunningReqs /\ QueuedReqs' = QueuedReqs
    BY <2>2, <2>6, <2>9
  <2>8. Members(running)' = Members(running) /\ NoDuplicates(running)' = NoDuplicates(running)
    BY <2>1 DEF Members, NoDuplicates
  <2> QED BY <1>q, <2>1, <2>2, <2>3, <2>4, <2>7, <2>8 DEF QueueInv
<1>5. CASE AdmitCandidate
  <2>1. InWaitingLoop /\ PopCandidate /\ running' = Append(running, Candidate)
        /\ status' = [status EXCEPT ![Candidate] = "RUNNING"]
        /\ UNCHANGED <<live, stepSkipped, stoppedRunning, stoppedPreempted>>
    BY <1>5 DEF AdmitCandidate, Schedulable
  <2>2. Candidate \in Requests /\ Candidate \in QueuedReqs /\ stoppedPreempted = {}
        /\ stoppedRunning = {}
    BY <2>1, CandidateQueued
  <2>3. /\ Members(waiting') = Members(waiting) \ {Candidate}
        /\ Members(skipped') = Members(skipped) \ {Candidate}
        /\ NoDuplicates(waiting') /\ NoDuplicates(skipped')
        /\ Candidate \notin Members(stepSkipped) /\ Candidate \notin Members(running)
    BY <2>1, PopMembers
  <2>4. Members(running') = Members(running) \cup {Candidate} /\ NoDuplicates(running')
    <3>1. /\ running \in Seq(Requests) /\ NoDuplicates(running)
          /\ running' = Append(running, Candidate)
      BY <1>q, <2>1 DEF TypeOK, QueueInv
    <3> QED BY <2>2, <2>3, <3>1, AppendMembers
  <2>5. "RUNNING" \in Statuses /\ "RUNNING" \notin QueuedStatuses /\ ~IsFinished("RUNNING")
    BY DEF Statuses, QueuedStatuses, BlockedStatuses, IsFinished, FinishedStatuses
  <2>6. Candidate \in Unfinished
    BY <2>2 DEF QueuedReqs
  <2>7. RunningReqs' = RunningReqs \cup {Candidate} /\ QueuedReqs' = QueuedReqs \ {Candidate}
    BY <1>q, <2>1, <2>5, <2>6, RequestMoves
  <2>8. Members(stepSkipped)' = Members(stepSkipped)
        /\ NoDuplicates(stepSkipped)' = NoDuplicates(stepSkipped)
    BY <2>1 DEF Members, NoDuplicates
  <2> QED BY <1>q, <2>1, <2>2, <2>3, <2>4, <2>7, <2>8 DEF QueueInv
<1>6. CASE FinishSchedule
  <2>1. /\ skipped' = stepSkipped \o skipped /\ stepSkipped' = <<>>
        /\ pc \in {"output", "waiting"}
        /\ UNCHANGED <<waiting, running, live, status, stoppedRunning, stoppedPreempted>>
    BY <1>6 DEF FinishSchedule, ScheduleOver
  <2>2. stoppedPreempted = {}
    BY <2>1 DEF IInv, AtRest
  <2>3. /\ Members(skipped') = Members(stepSkipped) \cup Members(skipped)
        /\ NoDuplicates(skipped')
    <3>1. /\ stepSkipped \in Seq(Requests) /\ skipped \in Seq(Requests)
          /\ NoDuplicates(stepSkipped) /\ NoDuplicates(skipped)
          /\ Members(stepSkipped) \cap Members(skipped) = {}
      BY <1>q DEF TypeOK, QueueInv
    <3> QED BY <2>1, <3>1, ConcatMembers
  <2>4. Members(stepSkipped') = {} /\ NoDuplicates(stepSkipped')
    BY <2>1, EmptyQueue
  <2>5. RunningReqs' = RunningReqs /\ QueuedReqs' = QueuedReqs
        /\ Members(running)' = Members(running)
        /\ NoDuplicates(running)' = NoDuplicates(running)
        /\ Members(waiting)' = Members(waiting)
        /\ NoDuplicates(waiting)' = NoDuplicates(waiting)
    BY <2>1, SameRequests DEF Members, NoDuplicates
  <2> QED BY <1>q, <2>1, <2>2, <2>3, <2>4, <2>5 DEF QueueInv
<1> QED BY <1>1, <1>2, <1>3, <1>4, <1>5, <1>6

\* What a stopped request leaves behind in running, or in waiting.
LEMMA StoppedQueues ==
  ASSUME IInv, NEW r \in Requests, GetsToken(r), MarkStopped(r)
  PROVE  /\ status[r] = "RUNNING" => /\ stoppedRunning' = stoppedRunning \cup {r}
                                     /\ stoppedPreempted' = stoppedPreempted
         /\ status[r] # "RUNNING" => /\ stoppedRunning' = stoppedRunning
                                     /\ stoppedPreempted' = stoppedPreempted \cup {r}
BY DEF MarkStopped

LEMMA UpdateQueueInv ==
  ASSUME IInv, EngineAssumption, NEW r \in Requests,
         FinishStopped(r) \/ ContinueSession(r) \/ AwaitSession(r) \/ CallTool(r)
  PROVE  QueueInv'
<1>q. QueueInv /\ TypeOK
  BY DEF IInv
<1> USE DEF queueVars, idVars, tokenVars, sessionVars, kvVars, stepVars, updateVars,
            hookVars, workerVars
<1>g. GetsToken(r) /\ MarkStopped(r)
  BY DEF FinishStopped, ContinueSession, AwaitSession, CallTool
<1>u. UNCHANGED <<running, stepSkipped>>
  BY DEF FinishStopped, ContinueSession, AwaitSession, CallTool
<1>f. /\ Members(running)' = Members(running)
      /\ NoDuplicates(running)' = NoDuplicates(running)
      /\ Members(stepSkipped)' = Members(stepSkipped)
      /\ NoDuplicates(stepSkipped)' = NoDuplicates(stepSkipped)
  BY <1>u DEF Members, NoDuplicates
<1>s. /\ r \in Unfinished /\ r \notin stoppedRunning /\ r \notin stoppedPreempted
      /\ \/ status[r] = "RUNNING" /\ r \in RunningReqs /\ r \in Members(running)
            /\ r \notin Members(waiting)
         \/ status[r] = "PREEMPTED" /\ MaxInFlight = 2 /\ r \in QueuedReqs
            /\ r \in Members(waiting) /\ r \notin Members(running)
      /\ r \notin Members(skipped) /\ r \notin Members(stepSkipped)
  BY <1>g, SampledRequest
<1>x. r \in RunningReqs => r \notin QueuedReqs
  BY DEF RunningReqs, QueuedReqs, QueuedStatuses, BlockedStatuses
<1>y. r \in QueuedReqs => r \notin RunningReqs
  BY <1>x
<1>m. /\ status[r] = "RUNNING" => /\ stoppedRunning' = stoppedRunning \cup {r}
                                  /\ stoppedPreempted' = stoppedPreempted
      /\ status[r] # "RUNNING" => /\ stoppedRunning' = stoppedRunning
                                  /\ stoppedPreempted' = stoppedPreempted \cup {r}
  BY <1>g, StoppedQueues
<1>1. CASE FinishStopped(r)
  <2>1. PICK s \in StopStatuses(r) : status' = [status EXCEPT ![r] = s]
    BY <1>1, Zenon DEF FinishStopped
  <2>2. s \in FinishedStatuses
    BY <2>1 DEF StopStatuses, FinishedStatuses
  <2>3. UNCHANGED <<waiting, skipped>> /\ (live' = live \/ live' = live \ {r})
    BY <1>1 DEF FinishStopped, FreeRequest
  <2>4. RunningReqs' = RunningReqs \ {r} /\ QueuedReqs' = QueuedReqs \ {r}
    BY <1>q, <1>s, <2>1, <2>2, <2>3, RequestFinishes
  <2>5. /\ Members(waiting)' = Members(waiting) /\ Members(skipped)' = Members(skipped)
        /\ NoDuplicates(waiting)' = NoDuplicates(waiting)
        /\ NoDuplicates(skipped)' = NoDuplicates(skipped)
    BY <2>3 DEF Members, NoDuplicates
  <2>6. CASE status[r] = "RUNNING"
    BY <1>q, <1>f, <1>s, <1>x, <1>m, <2>4, <2>5, <2>6 DEF QueueInv
  <2>7. CASE status[r] = "PREEMPTED"
    BY <1>q, <1>f, <1>s, <1>y, <1>m, <2>4, <2>5, <2>7 DEF QueueInv
  <2> QED BY <1>s, <2>6, <2>7
<1>2. CASE ContinueSession(r)
  <2>1. MaxInFlight = 1
    BY <1>2 DEF ContinueSession, EngineAssumption
  <2>2. status[r] = "RUNNING" /\ r \in RunningReqs /\ r \notin Members(waiting)
    BY <1>s, <2>1
  <2>3. status' = [status EXCEPT ![r] = "WAITING"] /\ EnqueueWaitingRequest(r, "WAITING")
        /\ live' = live
    BY <1>2 DEF ContinueSession, UpdateRequestAsSession
  <2>4. "WAITING" \in Statuses \cap QueuedStatuses /\ ~IsFinished("WAITING")
        /\ ~IsBlockedWaiting("WAITING")
    BY DEF Statuses, QueuedStatuses, BlockedStatuses, IsFinished, FinishedStatuses,
       IsBlockedWaiting
  <2>5. RunningReqs' = RunningReqs \ {r} /\ QueuedReqs' = QueuedReqs \cup {r}
    BY <1>q, <1>s, <2>3, <2>4, RequestMoves
  <2>6. /\ NoDuplicates(waiting') /\ NoDuplicates(skipped')
        /\ skipped' = skipped /\ Members(waiting') = Members(waiting) \cup {r}
    BY <1>q, <2>2, <2>3, <2>4, EnqueueMembers
  <2>7. Members(skipped)' = Members(skipped)
    BY <2>6 DEF Members
  <2> QED BY <1>q, <1>f, <1>s, <1>m, <2>2, <2>5, <2>6, <2>7 DEF QueueInv
<1>3. ASSUME NEW s \in {"WAITING_FOR_STREAMING_REQ", "WAITING_FOR_TOOL_CALL"},
             status' = [status EXCEPT ![r] = s], EnqueueWaitingRequest(r, s), live' = live
      PROVE  QueueInv'
  <2>1. s \in Statuses /\ s \in QueuedStatuses /\ ~IsFinished(s) /\ IsBlockedWaiting(s)
        /\ s # "RUNNING"
    BY DEF Statuses, QueuedStatuses, BlockedStatuses, IsFinished, FinishedStatuses,
       IsBlockedWaiting
  <2>2. RunningReqs' = RunningReqs \ {r} /\ QueuedReqs' = QueuedReqs \cup {r}
    BY <1>q, <1>s, <1>3, <2>1, RequestMoves
  <2>3. /\ NoDuplicates(waiting') /\ NoDuplicates(skipped')
        /\ waiting' = waiting /\ Members(skipped') = Members(skipped) \cup {r}
    BY <1>q, <1>s, <1>3, <2>1, EnqueueMembers
  <2>4. Members(waiting)' = Members(waiting)
    BY <2>3 DEF Members
  <2>5. CASE status[r] = "RUNNING"
    BY <1>q, <1>f, <1>s, <1>m, <2>2, <2>3, <2>4, <2>5 DEF QueueInv
  <2>6. CASE status[r] = "PREEMPTED"
    BY <1>q, <1>f, <1>s, <1>y, <1>m, <2>2, <2>3, <2>4, <2>6 DEF QueueInv
  <2> QED BY <1>s, <2>5, <2>6
<1>4. CASE AwaitSession(r)
  BY <1>3, <1>4 DEF AwaitSession
<1>5. CASE CallTool(r)
  BY <1>3, <1>5 DEF CallTool
<1> QED BY <1>1, <1>2, <1>4, <1>5

LEMMA FinishRequestQueueInv ==
  ASSUME IInv, NEW r \in Requests, pc = "idle", FinishRequest(r)
  PROVE  QueueInv'
<1>1. /\ QueueInv /\ TypeOK /\ r \in Unfinished
      /\ stoppedRunning = {} /\ stoppedPreempted = {} /\ stepSkipped = <<>>
  BY DEF IInv, AtRest, FinishRequest, Unfinished
<1>2. /\ status' = [status EXCEPT ![r] = "FINISHED_ABORTED"]
      /\ live' = live \/ live' = live \ {r}
      /\ stepSkipped' = <<>> /\ stoppedRunning' = {} /\ stoppedPreempted' = {}
      /\ LeaveQueues(r)
  BY <1>1 DEF FinishRequest, FreeRequest, stepVars, updateVars
<1>3. RunningReqs' = RunningReqs \ {r} /\ QueuedReqs' = QueuedReqs \ {r}
  BY <1>1, <1>2, RequestFinishes DEF FinishedStatuses
<1>4. /\ Members(running') = Members(running) \ {r} /\ NoDuplicates(running')
      /\ Members(waiting') = Members(waiting) \ {r} /\ NoDuplicates(waiting')
      /\ Members(skipped') = Members(skipped) \ {r} /\ NoDuplicates(skipped')
  BY <1>1, <1>2, LeaveQueuesMembers
<1>5. Members(stepSkipped) = {} /\ Members(stepSkipped') = {} /\ NoDuplicates(stepSkipped')
  BY <1>1, <1>2, EmptyQueue
<1> QED BY <1>1, <1>2, <1>3, <1>4, <1>5 DEF QueueInv

LEMMA StepQueueInv ==
  ASSUME IInv, EngineAssumption, [Next]_vars
  PROVE  QueueInv'
<1>q. QueueInv /\ TypeOK
  BY DEF IInv
<1> USE DEF queueVars, idVars, tokenVars, sessionVars, kvVars, stepVars, updateVars,
            hookVars, workerVars
<1>1. CASE Quiet
  BY <1>q, <1>1, QuietFrame, QueueInvFrame DEF quietVars
<1>2. CASE ScheduleRunning
  BY <1>q, <1>2, QueueInvFrame DEF ScheduleRunning
<1>3. CASE RemoveStoppedRunning
  <2>1. PICK i \in 1..Len(running) : running[i] \in stoppedRunning
                                     /\ running' = RemoveAt(running, i)
    BY <1>3 DEF RemoveStoppedRunning
  <2>2. Members(running') = Members(running) \ {running[i]} /\ NoDuplicates(running')
    BY <1>q, <2>1, RemoveAtMembers DEF QueueInv, TypeOK
  <2>3. UNCHANGED <<waiting, skipped, stepSkipped, status, live, stoppedRunning, stoppedPreempted>>
    BY <1>3 DEF RemoveStoppedRunning
  <2>4. RunningReqs' = RunningReqs /\ QueuedReqs' = QueuedReqs
    BY <2>3, SameRequests
  <2>5. /\ Members(waiting)' = Members(waiting) /\ Members(skipped)' = Members(skipped)
        /\ Members(stepSkipped)' = Members(stepSkipped)
        /\ NoDuplicates(waiting)' = NoDuplicates(waiting)
        /\ NoDuplicates(skipped)' = NoDuplicates(skipped)
        /\ NoDuplicates(stepSkipped)' = NoDuplicates(stepSkipped)
    BY <2>3 DEF Members, NoDuplicates
  <2> QED BY <1>q, <2>1, <2>2, <2>3, <2>4, <2>5 DEF QueueInv
<1>4. CASE RemoveStoppedPreempted
  <2>1. PICK i \in 1..Len(waiting) : waiting[i] \in stoppedPreempted
                                     /\ waiting' = RemoveAt(waiting, i)
    BY <1>4 DEF RemoveStoppedPreempted
  <2>2. Members(waiting') = Members(waiting) \ {waiting[i]} /\ NoDuplicates(waiting')
    BY <1>q, <2>1, RemoveAtMembers DEF QueueInv, TypeOK
  <2>3. UNCHANGED <<running, skipped, stepSkipped, status, live, stoppedRunning, stoppedPreempted>>
    BY <1>4 DEF RemoveStoppedPreempted
  <2>4. RunningReqs' = RunningReqs /\ QueuedReqs' = QueuedReqs
    BY <2>3, SameRequests
  <2>5. /\ Members(running)' = Members(running) /\ Members(skipped)' = Members(skipped)
        /\ Members(stepSkipped)' = Members(stepSkipped)
        /\ NoDuplicates(running)' = NoDuplicates(running)
        /\ NoDuplicates(skipped)' = NoDuplicates(skipped)
        /\ NoDuplicates(stepSkipped)' = NoDuplicates(stepSkipped)
    BY <2>3 DEF Members, NoDuplicates
  <2> QED BY <1>q, <2>1, <2>2, <2>3, <2>4, <2>5 DEF QueueInv
<1>5. CASE EndRemoval
  <2>1. /\ Members(running) \cap stoppedRunning = {}
        /\ Members(waiting) \cap stoppedPreempted = {}
        /\ stoppedRunning' = {} /\ stoppedPreempted' = {}
        /\ UNCHANGED <<waiting, skipped, running, stepSkipped, status, live>>
    BY <1>5 DEF EndRemoval
  <2>2. RunningReqs' = RunningReqs /\ QueuedReqs' = QueuedReqs
    BY <2>1, SameRequests
  <2>3. /\ Members(waiting)' = Members(waiting) /\ Members(skipped)' = Members(skipped)
        /\ Members(stepSkipped)' = Members(stepSkipped) /\ Members(running)' = Members(running)
        /\ NoDuplicates(waiting)' = NoDuplicates(waiting)
        /\ NoDuplicates(skipped)' = NoDuplicates(skipped)
        /\ NoDuplicates(stepSkipped)' = NoDuplicates(stepSkipped)
        /\ NoDuplicates(running)' = NoDuplicates(running)
    BY <2>1 DEF Members, NoDuplicates
  <2> QED BY <1>q, <2>1, <2>2, <2>3 DEF QueueInv
<1>6. ASSUME NEW r \in Requests, KeepGoing(r) \/ QueueUpdate(r, "chunk") \/ QueueUpdate(r, "end")
      PROVE  QueueInv'
  BY <1>q, <1>6, QueueInvFrame DEF KeepGoing, QueueUpdate
<1>7. ASSUME NEW r \in Requests, FinishedRecving(r) \/ FinishedSending(r)
      PROVE  QueueInv'
  <2>1. live' = live \/ (live' = live \ {r} /\ IsFinished(status[r]))
    <3>1. CASE FinishedRecving(r)
      BY <3>1 DEF FinishedRecving, LoadEnds
    <3>2. CASE FinishedSending(r)
      BY <3>2 DEF FinishedSending, IInv, TransferInv
    <3> QED BY <1>7, <3>1, <3>2
  <2> QED BY <1>q, <1>7, <2>1, QueueInvFrame DEF FinishedRecving, FinishedSending
<1>8. ASSUME NEW r \in Requests, AddRequest(r)
      PROVE  QueueInv'
  <2>1. PICK s \in {"WAITING", "WAITING_FOR_STRUCTURED_OUTPUT_GRAMMAR"} :
          status' = [status EXCEPT ![r] = s] /\ EnqueueWaitingRequest(r, s)
    BY <1>8 DEF AddRequest
  <2>2. /\ pc = "idle" /\ r \notin live /\ live' = live \cup {r} /\ live \subseteq Requests
        /\ status \in [Requests -> Statuses]
        /\ stoppedRunning = {} /\ stoppedPreempted = {} /\ stepSkipped = <<>>
        /\ UNCHANGED <<running, stepSkipped, stoppedRunning, stoppedPreempted>>
    BY <1>q, <1>8 DEF AddRequest, BetweenSteps, IInv, AtRest, TypeOK
  <2>3. s \in QueuedStatuses /\ s # "RUNNING" /\ ~IsFinished(s)
    BY DEF QueuedStatuses, BlockedStatuses, IsFinished, FinishedStatuses
  <2>4. Unfinished' = Unfinished \cup {r}
    BY <2>1, <2>2, <2>3 DEF Unfinished
  <2>5. RunningReqs' = RunningReqs /\ QueuedReqs' = QueuedReqs \cup {r}
    BY <2>1, <2>2, <2>3, <2>4 DEF RunningReqs, QueuedReqs, Unfinished
  <2>6. r \notin QueuedReqs
    BY <2>2 DEF QueuedReqs, Unfinished
  <2>7. Members(stepSkipped) = {} /\ Members(stepSkipped') = {} /\ NoDuplicates(stepSkipped')
    BY <2>2, EmptyQueue
  <2>8. r \notin Members(waiting) /\ r \notin Members(skipped)
    BY <1>q, <2>2, <2>6 DEF QueueInv
  <2>9. Members(running)' = Members(running) /\ NoDuplicates(running)' = NoDuplicates(running)
    BY <2>2 DEF Members, NoDuplicates
  <2>10. /\ NoDuplicates(waiting') /\ NoDuplicates(skipped')
         /\ \/ waiting' = waiting /\ Members(skipped') = Members(skipped) \cup {r}
            \/ skipped' = skipped /\ Members(waiting') = Members(waiting) \cup {r}
    BY <1>q, <2>1, <2>8, EnqueueMembers
  <2>11. CASE waiting' = waiting /\ Members(skipped') = Members(skipped) \cup {r}
    BY <1>q, <2>2, <2>5, <2>7, <2>8, <2>9, <2>10, <2>11 DEF QueueInv
  <2>12. CASE skipped' = skipped /\ Members(waiting') = Members(waiting) \cup {r}
    BY <1>q, <2>2, <2>5, <2>7, <2>8, <2>9, <2>10, <2>12 DEF QueueInv
  <2> QED BY <2>10, <2>11, <2>12
<1>9. ASSUME NEW r \in Requests, AbortRequest(r) \/ CloseSession(r)
      PROVE  QueueInv'
  BY <1>9, FinishRequestQueueInv DEF AbortRequest, CloseSession, BetweenSteps
<1>10. ASSUME NEW r \in Requests, StartNextChunk(r)
       PROVE  QueueInv'
  <2>1. /\ status' = [status EXCEPT ![r] = "WAITING"] /\ r \in Unfinished
        /\ r \in QueuedReqs /\ r \notin RunningReqs
        /\ UNCHANGED <<waiting, skipped, running, stepSkipped, live, stoppedRunning,
                       stoppedPreempted>>
    BY <1>10 DEF StartNextChunk, UpdateRequestAsSession, Unfinished, RunningReqs, QueuedReqs,
       IsFinished, FinishedStatuses, QueuedStatuses, BlockedStatuses
  <2>2. "WAITING" \in Statuses \cap QueuedStatuses /\ ~IsFinished("WAITING")
    BY DEF Statuses, QueuedStatuses, IsFinished, FinishedStatuses
  <2>3. RunningReqs' = RunningReqs \ {r} /\ QueuedReqs' = QueuedReqs \cup {r}
    BY <1>q, <2>1, <2>2, RequestMoves
  <2>4. RunningReqs' = RunningReqs /\ QueuedReqs' = QueuedReqs
    BY <2>1, <2>3
  <2>5. /\ Members(waiting)' = Members(waiting) /\ Members(skipped)' = Members(skipped)
        /\ Members(stepSkipped)' = Members(stepSkipped) /\ Members(running)' = Members(running)
        /\ NoDuplicates(waiting)' = NoDuplicates(waiting)
        /\ NoDuplicates(skipped)' = NoDuplicates(skipped)
        /\ NoDuplicates(stepSkipped)' = NoDuplicates(stepSkipped)
        /\ NoDuplicates(running)' = NoDuplicates(running)
    BY <2>1 DEF Members, NoDuplicates
  <2> QED BY <1>q, <2>1, <2>4, <2>5 DEF QueueInv
<1> QED BY <1>1, <1>2, <1>3, <1>4, <1>5, <1>6, <1>7, <1>8, <1>9, <1>10, StepCases,
           PlanQueueInv, UpdateQueueInv

------------------------------------------------------------------------------
(* StoppedInv.                                                              *)

LEMMA InitStoppedInv == Init => StoppedInv
BY DEF Init, StoppedInv

LEMMA StoppedInvFrame ==
  ASSUME StoppedInv, UNCHANGED updateVars
  PROVE  StoppedInv'
BY DEF StoppedInv, updateVars

LEMMA StepStoppedInv ==
  ASSUME IInv, [Next]_vars
  PROVE  StoppedInv'
<1>i. StoppedInv /\ TypeOK /\ AtRest
  BY DEF IInv
<1> USE DEF queueVars, idVars, tokenVars, sessionVars, kvVars, stepVars, hookVars, workerVars
<1>1. CASE Quiet
  <2>1. stoppedRunning' = stoppedRunning /\ stoppedPreempted' = stoppedPreempted
    BY <1>1, QuietFrame DEF quietVars
  <2>2. CASE BeginUpdate
    <3>1. stoppedRunning = {} /\ stoppedPreempted = {}
      BY <1>i, <2>2 DEF BeginUpdate, AtRest
    <3> QED BY <2>1, <3>1 DEF StoppedInv
  <2>3. ASSUME NEW r \in Requests, SkipOutput(r)
        PROVE  StoppedInv'
    <3>1. \A s \in Requests : batch.pos[s] = 0 => batch'.pos[s] = 0
      BY <1>i, <2>3, DoneWithSample DEF SkipOutput
    <3>2. stoppedRunning \cup stoppedPreempted \subseteq Requests
      BY <1>i DEF TypeOK
    <3> QED BY <1>i, <2>1, <3>1, <3>2 DEF StoppedInv
  <2>4. CASE batch' = batch
    BY <1>i, <2>1, <2>4 DEF StoppedInv
  <2>5. CASE BeginSchedule \/ SkipRunning \/ PickRunning \/ EndRunningLoop
    BY <2>4, <2>5 DEF BeginSchedule, SkipRunning, PickRunning, EndRunningLoop, updateVars
  <2>6. CASE LoadDoesNotFit \/ ChunkTooBig \/ NoBlocksLeft
    BY <2>4, <2>6 DEF LoadDoesNotFit, ChunkTooBig, NoBlocksLeft, BreakWaiting, updateVars
  <2>7. CASE EndOutputs \/ EndUpdate \/ BeginReset \/ EndReset
    BY <2>4, <2>7 DEF EndOutputs, EndUpdate, BeginReset, EndReset, updateVars
  <2>8. ASSUME NEW r \in Requests, CompileGrammar(r) \/ SubmitToolResponse(r)
        PROVE  batch' = batch
    BY <2>8 DEF CompileGrammar, SubmitToolResponse, updateVars
  <2>9. ASSUME NEW s \in PauseStates, SetPauseState(s)
        PROVE  batch' = batch
    BY <2>9 DEF SetPauseState, updateVars
  <2>10. CASE UNCHANGED vars
    BY <2>4, <2>10 DEF vars, updateVars
  <2> QED BY <1>1, <2>2, <2>3, <2>4, <2>5, <2>6, <2>7, <2>8, <2>9, <2>10 DEF Quiet
<1>2. CASE ScheduleRunning \/ PreemptVictim \/ SkipStep \/ PromoteBlocked \/ StartLoad
           \/ AdmitCandidate \/ FinishSchedule
  <2>1. UNCHANGED updateVars
    BY <1>2 DEF ScheduleRunning, PreemptVictim, SkipStep, SkipBlocked, SkipForLora,
       SkipForConnector, SkipCandidate, PromoteBlocked, StartLoad, AdmitCandidate,
       FinishSchedule
  <2> QED BY <1>i, <2>1, StoppedInvFrame
<1>3. CASE RemoveStoppedRunning \/ RemoveStoppedPreempted \/ ResetPreempt
  BY <1>i, <1>3, StoppedInvFrame DEF RemoveStoppedRunning, RemoveStoppedPreempted, ResetPreempt
<1>4. CASE EndRemoval
  BY <1>4 DEF EndRemoval, StoppedInv
<1>5. ASSUME NEW r \in Requests, KeepGoing(r)
      PROVE  StoppedInv'
  <2>1. \A s \in Requests : batch.pos[s] = 0 => batch'.pos[s] = 0
    BY <1>i, <1>5, DoneWithSample DEF KeepGoing
  <2>2. stoppedRunning \cup stoppedPreempted \subseteq Requests
    BY <1>i DEF TypeOK
  <2> QED BY <1>i, <1>5, <2>1, <2>2 DEF StoppedInv, KeepGoing
<1>6. ASSUME NEW r \in Requests,
             FinishStopped(r) \/ ContinueSession(r) \/ AwaitSession(r) \/ CallTool(r)
      PROVE  StoppedInv'
  <2>1. GetsToken(r) /\ MarkStopped(r) /\ DoneWith(r)
    BY <1>6 DEF FinishStopped, ContinueSession, AwaitSession, CallTool
  <2>2. batch'.pos[r] = 0 /\ \A s \in Requests : batch.pos[s] = 0 => batch'.pos[s] = 0
    BY <1>i, <2>1, DoneWithSample
  <2>3. stoppedRunning \cup stoppedPreempted \subseteq Requests
    BY <1>i DEF TypeOK
  <2>4. \/ status[r] = "RUNNING"
        \/ status[r] # "RUNNING" /\ MaxInFlight = 2
    BY <2>1, SampledRequest
  <2>5. /\ status[r] = "RUNNING" => /\ stoppedRunning' = stoppedRunning \cup {r}
                                    /\ stoppedPreempted' = stoppedPreempted
        /\ status[r] # "RUNNING" => /\ stoppedRunning' = stoppedRunning
                                    /\ stoppedPreempted' = stoppedPreempted \cup {r}
    BY <2>1, StoppedQueues
  <2> QED BY <1>i, <2>2, <2>3, <2>4, <2>5 DEF StoppedInv
<1>7. ASSUME NEW r \in Requests,
             FinishedRecving(r) \/ FinishedSending(r) \/ AddRequest(r) \/ AbortRequest(r)
               \/ CloseSession(r) \/ StartNextChunk(r)
               \/ QueueUpdate(r, "chunk") \/ QueueUpdate(r, "end")
      PROVE  StoppedInv'
  <2>1. UNCHANGED updateVars
    BY <1>7 DEF FinishedRecving, FinishedSending, AddRequest, AbortRequest, CloseSession,
       StartNextChunk, QueueUpdate, FinishRequest
  <2> QED BY <1>i, <2>1, StoppedInvFrame
<1> QED BY <1>1, <1>2, <1>3, <1>4, <1>5, <1>6, <1>7, StepCases

------------------------------------------------------------------------------
(* SamplesInv.                                                              *)

LEMMA InitSamplesInv == Init => SamplesInv
BY SchedulerAssumption DEF Init, SamplesInv, InflightInv, Unfinished, Planning

\* Only schedule() and the begin of update_from_output() touch the batches in
\* flight, and the methods follow each other.
LEMMA InflightSteps ==
  ASSUME [Next]_vars
  PROVE  \/ BeginUpdate \/ FinishSchedule
         \/ /\ inflight' = inflight
            /\ \/ BeginSchedule \/ BeginReset \/ pc' = pc
               \/ Planning /\ Planning'
               \/ pc \in {"update", "remove", "kv"} /\ pc' \in {"remove", "kv", "idle"}
               \/ pc = "reset" /\ pc' = "idle"
<1> USE DEF queueVars, idVars, tokenVars, sessionVars, kvVars, stepVars, updateVars,
            hookVars, workerVars
<1>1. CASE Quiet
  <2>1. CASE BeginSchedule \/ BeginReset
    BY <2>1 DEF BeginSchedule, BeginReset
  <2>2. CASE SkipRunning \/ PickRunning \/ EndRunningLoop
    BY <2>2 DEF SkipRunning, PickRunning, EndRunningLoop, Planning, InRunningLoop,
       RunningLoopOver
  <2>3. CASE LoadDoesNotFit \/ ChunkTooBig \/ NoBlocksLeft
    BY <2>3 DEF LoadDoesNotFit, ChunkTooBig, NoBlocksLeft, BreakWaiting, Planning,
       Schedulable, InWaitingLoop
  <2>4. CASE EndOutputs \/ EndUpdate \/ EndReset
    BY <2>4 DEF EndOutputs, EndUpdate, EndReset
  <2>5. ASSUME NEW r \in Requests, SkipOutput(r) \/ CompileGrammar(r) \/ SubmitToolResponse(r)
        PROVE  inflight' = inflight /\ pc' = pc
    BY <2>5 DEF SkipOutput, CompileGrammar, SubmitToolResponse
  <2>6. ASSUME NEW s \in PauseStates, SetPauseState(s)
        PROVE  inflight' = inflight /\ pc' = pc
    BY <2>6 DEF SetPauseState
  <2>7. CASE UNCHANGED vars
    BY <2>7 DEF vars
  <2> QED BY <1>1, <2>1, <2>2, <2>3, <2>4, <2>5, <2>6, <2>7 DEF Quiet
<1>2. CASE ScheduleRunning \/ SkipStep \/ PromoteBlocked \/ StartLoad \/ AdmitCandidate
  BY <1>2 DEF ScheduleRunning, SkipStep, SkipBlocked, SkipForLora, SkipForConnector,
     SkipCandidate, PromoteBlocked, StartLoad, AdmitCandidate, Planning
<1>3. CASE PreemptVictim
  <2>1. pc = "alloc" /\ pc' \in {"alloc", "post"} /\ inflight' = inflight
    BY <1>3 DEF PreemptVictim
  <2> QED BY <2>1 DEF Planning
<1>4. CASE RemoveStoppedRunning \/ RemoveStoppedPreempted \/ EndRemoval \/ ResetPreempt
  BY <1>4 DEF RemoveStoppedRunning, RemoveStoppedPreempted, EndRemoval, ResetPreempt
<1>5. ASSUME NEW r \in Requests,
             \/ KeepGoing(r) \/ FinishStopped(r) \/ ContinueSession(r) \/ AwaitSession(r)
             \/ CallTool(r) \/ FinishedRecving(r) \/ FinishedSending(r) \/ AddRequest(r)
             \/ AbortRequest(r) \/ CloseSession(r) \/ StartNextChunk(r)
             \/ QueueUpdate(r, "chunk") \/ QueueUpdate(r, "end")
      PROVE  inflight' = inflight /\ pc' = pc
  BY <1>5 DEF KeepGoing, FinishStopped, ContinueSession, AwaitSession, CallTool,
     FinishedRecving, FinishedSending, AddRequest, AbortRequest, CloseSession,
     StartNextChunk, QueueUpdate, FinishRequest
<1> QED BY <1>1, <1>2, <1>3, <1>4, <1>5, StepCases

\* A request that gets tokens is running, so the engine has added it.
LEMMA ScheduledRequest ==
  ASSUME IInv, NEW r \in Requests, sched[r] > 0
  PROVE  /\ r \in Scheduled /\ r \in RunningReqs /\ r \in Unfinished /\ r \in arrived
         /\ status[r] = "RUNNING" /\ r \notin preempted
         /\ computed[r] + sched[r] <= tokens[r] /\ computed[r] < tokens[r]
<1>1. r \in Scheduled
  BY DEF Scheduled
<1>2. r \in RunningReqs /\ r \notin preempted
  BY <1>1 DEF IInv, PlanInv
<1>3. r \in Unfinished /\ status[r] = "RUNNING" /\ r \in arrived
  BY <1>2 DEF RunningReqs, Unfinished, IInv, TypeOK
<1>4. computed[r] + sched[r] <= tokens[r]
  BY <1>3 DEF IInv, LengthInv
<1>5. computed[r] \in Nat /\ sched[r] \in Nat /\ tokens[r] \in Nat
  BY DEF IInv, TypeOK
<1> QED BY <1>1, <1>2, <1>3, <1>4, <1>5

LEMMA ArrivedGrows ==
  ASSUME [Next]_vars
  PROVE  arrived' = arrived \/ \E r \in Requests : AddRequest(r) /\ arrived' = arrived \cup {r}
<1> USE DEF queueVars, idVars, tokenVars, sessionVars, kvVars, stepVars, updateVars,
            hookVars, workerVars
<1>1. CASE Quiet
  BY <1>1, QuietFrame DEF quietVars
<1>2. CASE ScheduleRunning \/ PreemptVictim \/ SkipStep \/ PromoteBlocked \/ StartLoad
           \/ AdmitCandidate \/ FinishSchedule
  BY <1>2 DEF ScheduleRunning, PreemptVictim, SkipStep, SkipBlocked, SkipForLora,
     SkipForConnector, SkipCandidate, PromoteBlocked, StartLoad, AdmitCandidate, FinishSchedule
<1>3. CASE RemoveStoppedRunning \/ RemoveStoppedPreempted \/ EndRemoval \/ ResetPreempt
  BY <1>3 DEF RemoveStoppedRunning, RemoveStoppedPreempted, EndRemoval, ResetPreempt
<1>4. ASSUME NEW r \in Requests,
             \/ KeepGoing(r) \/ FinishStopped(r) \/ ContinueSession(r) \/ AwaitSession(r)
             \/ CallTool(r) \/ FinishedRecving(r) \/ FinishedSending(r)
             \/ AbortRequest(r) \/ CloseSession(r) \/ StartNextChunk(r)
             \/ QueueUpdate(r, "chunk") \/ QueueUpdate(r, "end")
      PROVE  arrived' = arrived
  BY <1>4 DEF KeepGoing, FinishStopped, ContinueSession, AwaitSession, CallTool,
     FinishedRecving, FinishedSending, AbortRequest, CloseSession,
     StartNextChunk, QueueUpdate, FinishRequest
<1>5. ASSUME NEW r \in Requests, AddRequest(r)
      PROVE  arrived' = arrived \cup {r}
  BY <1>5 DEF AddRequest
<1> QED BY <1>1, <1>2, <1>3, <1>4, <1>5, StepCases

LEMMA StepInflightInv ==
  ASSUME IInv, EngineAssumption, [Next]_vars
  PROVE  InflightInv'
<1>i. InflightInv /\ inflight \in Seq(Batches) /\ Len(inflight) \in Nat /\ MaxInFlight \in Nat
  BY LenProperties, SchedulerAssumption DEF IInv, SamplesInv, TypeOK
<1>a. arrived \subseteq arrived'
  BY ArrivedGrows
<1> USE DEF queueVars, idVars, tokenVars, sessionVars, kvVars, stepVars, updateVars,
            hookVars, workerVars
<1>1. CASE BeginUpdate
  <2>1. inflight # <<>> /\ inflight' = Tail(inflight) /\ pc' = "update"
    BY <1>1 DEF BeginUpdate
  <2>2. /\ Len(inflight') = Len(inflight) - 1 /\ Len(inflight) > 0
        /\ \A i \in 1..(Len(inflight) - 1) : inflight'[i] = inflight[i + 1]
    BY <1>i, <2>1, HeadTailProperties, EmptySeq
  <2>3. Len(inflight') < MaxInFlight /\ Len(inflight') <= MaxInFlight
    BY <1>i, <2>2 DEF InflightInv
  <2>4. ASSUME NEW r \in Requests, NEW i \in 1..Len(inflight'), inflight'[i].pos[r] > 0
        PROVE  r \in arrived'
    <3>1. i + 1 \in 1..Len(inflight) /\ inflight'[i] = inflight[i + 1]
      BY <1>i, <2>2
    <3> QED BY <1>i, <1>a, <2>4, <3>1 DEF InflightInv
  <2> QED BY <2>1, <2>3, <2>4 DEF InflightInv
<1>2. CASE FinishSchedule
  <2>1. pc' = "idle" /\ inflight' = Append(inflight, NewBatch) /\ Planning
    BY <1>2 DEF FinishSchedule, ScheduleOver, Planning
  <2>2. NewBatch \in Batches
    BY DEF NewBatch, Batches, Scheduled, IInv, TypeOK
  <2>3. /\ Len(inflight') = Len(inflight) + 1
        /\ inflight'[Len(inflight) + 1] = NewBatch
        /\ \A i \in 1..Len(inflight) : inflight'[i] = inflight[i]
    BY <1>i, <2>1, <2>2, AppendProperties
  <2>4. Len(inflight') <= MaxInFlight
    BY <1>i, <2>1, <2>3 DEF InflightInv
  <2>5. ASSUME NEW r \in Requests, NEW i \in 1..Len(inflight'), inflight'[i].pos[r] > 0
        PROVE  r \in arrived'
    <3>1. CASE i \in 1..Len(inflight)
      BY <1>i, <1>a, <2>3, <2>5, <3>1 DEF InflightInv
    <3>2. CASE i = Len(inflight) + 1
      <4>1. NewBatch.pos[r] > 0
        BY <2>3, <2>5, <3>2
      <4>2. sched[r] > 0
        BY <4>1 DEF NewBatch
      <4> QED BY <1>a, <4>2, ScheduledRequest
    <3> QED BY <1>i, <2>3, <3>1, <3>2
  <2> QED BY <2>1, <2>4, <2>5 DEF InflightInv, Planning
<1>3. CASE BeginSchedule
  <2>1. Len(inflight) < MaxInFlight /\ inflight' = inflight /\ pc' = "running"
    BY <1>3 DEF BeginSchedule
  <2> QED BY <1>i, <1>a, <2>1 DEF InflightInv
<1>4. CASE BeginReset
  <2>1. inflight = <<>> /\ inflight' = inflight /\ pc' = "reset"
    BY <1>4 DEF BeginReset, BetweenSteps, EngineAssumption
  <2> QED BY <1>i, <1>a, <2>1 DEF InflightInv, Planning
<1>5. CASE /\ inflight' = inflight
           /\ \/ pc' = pc
              \/ Planning /\ Planning'
              \/ pc \in {"update", "remove", "kv"} /\ pc' \in {"remove", "kv", "idle"}
              \/ pc = "reset" /\ pc' = "idle"
  BY <1>i, <1>a, <1>5 DEF InflightInv, Planning
<1> QED BY <1>1, <1>2, <1>3, <1>4, <1>5, InflightSteps

\* The steps that append a sampled token to r.
Answers(r) ==
  KeepGoing(r) \/ FinishStopped(r) \/ ContinueSession(r) \/ AwaitSession(r) \/ CallTool(r)

LEMMA BatchSteps ==
  ASSUME [Next]_vars
  PROVE  \/ BeginUpdate \/ batch' = batch
         \/ \E r \in Requests : /\ DoneWith(r) /\ pc = "update"
                                /\ SkipOutput(r) \/ Answers(r)
<1> USE DEF queueVars, idVars, tokenVars, sessionVars, kvVars, stepVars, updateVars,
            hookVars, workerVars
<1>1. CASE Quiet
  <2>1. CASE BeginSchedule \/ SkipRunning \/ PickRunning \/ EndRunningLoop
    BY <2>1 DEF BeginSchedule, SkipRunning, PickRunning, EndRunningLoop
  <2>2. CASE LoadDoesNotFit \/ ChunkTooBig \/ NoBlocksLeft
    BY <2>2 DEF LoadDoesNotFit, ChunkTooBig, NoBlocksLeft, BreakWaiting
  <2>3. CASE EndOutputs \/ EndUpdate \/ BeginReset \/ EndReset
    BY <2>3 DEF EndOutputs, EndUpdate, BeginReset, EndReset
  <2>4. ASSUME NEW r \in Requests, SkipOutput(r) \/ CompileGrammar(r) \/ SubmitToolResponse(r)
        PROVE  batch' = batch \/ (DoneWith(r) /\ pc = "update" /\ SkipOutput(r))
    BY <2>4 DEF SkipOutput, CompileGrammar, SubmitToolResponse
  <2>5. ASSUME NEW s \in PauseStates, SetPauseState(s)
        PROVE  batch' = batch
    BY <2>5 DEF SetPauseState
  <2>6. CASE UNCHANGED vars
    BY <2>6 DEF vars
  <2> QED BY <1>1, <2>1, <2>2, <2>3, <2>4, <2>5, <2>6 DEF Quiet
<1>2. CASE ScheduleRunning \/ PreemptVictim \/ SkipStep \/ PromoteBlocked \/ StartLoad
           \/ AdmitCandidate \/ FinishSchedule
  BY <1>2 DEF ScheduleRunning, PreemptVictim, SkipStep, SkipBlocked, SkipForLora,
     SkipForConnector, SkipCandidate, PromoteBlocked, StartLoad, AdmitCandidate, FinishSchedule
<1>3. CASE RemoveStoppedRunning \/ RemoveStoppedPreempted \/ EndRemoval \/ ResetPreempt
  BY <1>3 DEF RemoveStoppedRunning, RemoveStoppedPreempted, EndRemoval, ResetPreempt
<1>4. ASSUME NEW r \in Requests, Answers(r)
      PROVE  DoneWith(r) /\ pc = "update"
  BY <1>4 DEF Answers, KeepGoing, FinishStopped, ContinueSession, AwaitSession, CallTool, GetsToken
<1>5. ASSUME NEW r \in Requests,
             \/ FinishedRecving(r) \/ FinishedSending(r) \/ AddRequest(r)
             \/ AbortRequest(r) \/ CloseSession(r) \/ StartNextChunk(r)
             \/ QueueUpdate(r, "chunk") \/ QueueUpdate(r, "end")
      PROVE  batch' = batch
  BY <1>5 DEF FinishedRecving, FinishedSending, AddRequest, AbortRequest, CloseSession,
     StartNextChunk, QueueUpdate, FinishRequest
<1> QED BY <1>1, <1>2, <1>3, <1>4, <1>5, StepCases DEF Answers

\* Samples are forgotten, never added, except when a batch is taken up.
LEMMA BatchSamples ==
  ASSUME TypeOK, [Next]_vars, ~BeginUpdate, NEW r \in Requests
  PROVE  batch'.pos[r] = batch.pos[r] \/ batch'.pos[r] = 0
<1>1. ASSUME NEW s \in Requests, DoneWith(s)
      PROVE  batch'.pos[r] = batch.pos[r] \/ batch'.pos[r] = 0
  BY <1>1, DoneWithSample
<1> QED BY <1>1, BatchSteps

\* A preempted request with a sample under way was preempted by the step being
\* planned, or by the last one.
LEMMA PreemptedSample ==
  ASSUME IInv, EngineAssumption, NEW r \in Unfinished, NEW i \in 1..Len(inflight),
         inflight[i].pos[r] > 0, status[r] = "PREEMPTED"
  PROVE  /\ MaxInFlight = 2 /\ r \in Members(waiting)
         /\ (Planning /\ r \in preempted) \/ (pc = "idle" /\ i < Len(inflight))
BY DEF IInv, SamplesInv, PendingInv, SampleOf

LEMMA PendingKept ==
  ASSUME IInv, EngineAssumption, [Next]_vars, ~BeginUpdate, ~FinishSchedule,
         NEW r \in Unfinished, preempted \subseteq preempted',
         tokens'[r] = tokens[r], computed'[r] = computed[r], status'[r] = status[r],
         r \in Members(waiting) => r \in Members(waiting')
  PROVE  PendingInv(r)'
<1>1. /\ PendingInv(r) /\ TypeOK /\ InflightInv /\ r \in Requests
      /\ Len(inflight) \in Nat /\ MaxInFlight \in Nat
  BY LenProperties, SchedulerAssumption DEF IInv, SamplesInv, Unfinished, TypeOK
<1>2. batch'.pos[r] = batch.pos[r] \/ batch'.pos[r] = 0
  BY <1>1, BatchSamples
<1>3. /\ inflight' = inflight
      /\ \/ BeginSchedule \/ BeginReset \/ pc' = pc
         \/ Planning /\ Planning'
         \/ pc \in {"update", "remove", "kv"} /\ pc' \in {"remove", "kv", "idle"}
         \/ pc = "reset" /\ pc' = "idle"
  BY InflightSteps
<1>5. ASSUME NEW i \in 1..Len(inflight), inflight[i].pos[r] > 0, status[r] = "PREEMPTED"
      PROVE  (Planning' /\ r \in preempted') \/ (pc' = "idle" /\ i < Len(inflight))
  <2>1. /\ MaxInFlight = 2
        /\ (Planning /\ r \in preempted) \/ (pc = "idle" /\ i < Len(inflight))
    BY <1>5, PreemptedSample
  <2>2. CASE BeginSchedule
    <3>1. Len(inflight) < 2 /\ pc = "idle"
      BY <2>1, <2>2 DEF BeginSchedule
    <3> QED BY <1>1, <2>1, <3>1 DEF Planning
  <2>3. CASE BeginReset
    BY <1>5, <2>1, <2>3 DEF BeginReset, EngineAssumption
  <2>4. CASE pc' = pc
    BY <2>1, <2>4 DEF Planning
  <2>5. CASE Planning /\ Planning'
    BY <2>1, <2>5 DEF Planning
  <2>6. CASE pc \in {"update", "remove", "kv"} \/ pc = "reset"
    BY <2>1, <2>6 DEF Planning
  <2> QED BY <1>3, <2>2, <2>3, <2>4, <2>5, <2>6
<1>6. (batch.pos[r] > 0 => SampleOf(r, batch.pos[r]))'
  <2>1. ASSUME batch'.pos[r] > 0
        PROVE  batch'.pos[r] = batch.pos[r] /\ SampleOf(r, batch.pos[r])
    BY <1>1, <1>2, <2>1 DEF PendingInv
  <2>2. ASSUME batch'.pos[r] = batch.pos[r], SampleOf(r, batch.pos[r])
        PROVE  SampleOf(r, batch.pos[r])'
    BY <2>2 DEF SampleOf
  <2> QED BY <2>1, <2>2
<1>7. ASSUME NEW i \in 1..Len(inflight), inflight[i].pos[r] > 0
      PROVE  /\ SampleOf(r, inflight[i].pos[r])' /\ batch'.pos[r] = 0
             /\ \A j \in 1..Len(inflight) : inflight[j].pos[r] > 0 => i = j
  <2>1. SampleOf(r, inflight[i].pos[r]) /\ batch.pos[r] = 0
        /\ \A j \in 1..Len(inflight) : inflight[j].pos[r] > 0 => i = j
    BY <1>1, <1>7 DEF PendingInv
  <2>2. SampleOf(r, inflight[i].pos[r])'
    <3>1. tokens'[r] = inflight[i].pos[r]
      BY <2>1 DEF SampleOf
    <3>2. inflight'[i].pos[r] = inflight[i].pos[r]
      BY <1>3
    <3> QED BY <2>1, <3>1, <3>2 DEF SampleOf
  <2> QED BY <1>2, <2>1, <2>2
<1>8. inflight' = inflight /\ Len(inflight') = Len(inflight) /\ status'[r] = status[r]
  BY <1>3
<1>9. ASSUME NEW i \in 1..Len(inflight'), inflight'[i].pos[r] > 0
      PROVE  /\ SampleOf(r, inflight[i].pos[r])' /\ batch'.pos[r] = 0
             /\ \A j \in 1..Len(inflight') : inflight'[j].pos[r] > 0 => i = j
             /\ status'[r] = "PREEMPTED" => \/ Planning' /\ r \in preempted'
                                            \/ pc' = "idle" /\ i < Len(inflight')
  <2>1. i \in 1..Len(inflight) /\ inflight[i].pos[r] > 0
    BY <1>8, <1>9
  <2>2. SampleOf(r, inflight[i].pos[r])' /\ batch'.pos[r] = 0
    BY <1>7, <2>1
  <2>3. \A j \in 1..Len(inflight') : inflight'[j].pos[r] > 0 => i = j
    BY <1>7, <1>8, <2>1
  <2> QED BY <1>5, <1>8, <2>1, <2>2, <2>3
<1> QED BY <1>6, <1>9 DEF PendingInv

LEMMA NothingPending ==
  ASSUME TypeOK, NEW r \in Requests, inflight' = inflight,
         \A i \in 1..Len(inflight) : ~(inflight[i].pos[r] > 0), ~(batch'.pos[r] > 0)
  PROVE  PendingInv(r)'
BY DEF PendingInv

\* The candidate of the waiting queues has no sample under way.
LEMMA CandidateNotPending ==
  ASSUME IInv, EngineAssumption, InWaitingLoop
  PROVE  /\ batch.pos[Candidate] = 0
         /\ \A i \in 1..Len(inflight) : ~(inflight[i].pos[Candidate] > 0)
<1>1. /\ Candidate \in Requests /\ Candidate \in QueuedReqs /\ pc = "waiting"
      /\ preempted = {}
  BY CandidateQueued
<1>2. Candidate \in Unfinished /\ status[Candidate] # "RUNNING"
  BY <1>1 DEF QueuedReqs, QueuedStatuses, BlockedStatuses
<1>3. ASSUME NEW i \in 1..Len(inflight), inflight[i].pos[Candidate] > 0
      PROVE  FALSE
  <2>1. SampleOf(Candidate, inflight[i].pos[Candidate])
    BY <1>2, <1>3 DEF IInv, SamplesInv, PendingInv
  <2>2. status[Candidate] = "PREEMPTED"
    BY <1>2, <2>1 DEF SampleOf
  <2> QED BY <1>1, <1>2, <1>3, <2>2, PreemptedSample
<1>4. batch.pos[Candidate] = 0
  BY <1>1 DEF IInv, AtRest
<1> QED BY <1>3, <1>4

LEMMA BeginUpdatePending ==
  ASSUME IInv, EngineAssumption, BeginUpdate, NEW r \in Unfinished
  PROVE  PendingInv(r)'
<1>1. /\ pc = "idle" /\ inflight # <<>> /\ pc' = "update"
      /\ batch' = Head(inflight) /\ inflight' = Tail(inflight)
      /\ UNCHANGED <<tokens, status, computed, waiting>>
  BY DEF BeginUpdate, queueVars, tokenVars
<1>2. /\ inflight \in Seq(Batches) /\ Len(inflight) \in Nat /\ MaxInFlight \in Nat
      /\ PendingInv(r) /\ InflightInv
  BY LenProperties, SchedulerAssumption DEF IInv, TypeOK, SamplesInv
<1>3. /\ Len(inflight') = Len(inflight) - 1 /\ Len(inflight) > 0
      /\ batch' = inflight[1]
      /\ \A i \in 1..(Len(inflight) - 1) : inflight'[i] = inflight[i + 1]
  BY <1>1, <1>2, HeadTailProperties, EmptySeq
<1>4. (batch.pos[r] > 0 => SampleOf(r, batch.pos[r]))'
  <2>1. ASSUME inflight[1].pos[r] > 0
        PROVE  SampleOf(r, inflight[1].pos[r])
    BY <1>2, <1>3, <2>1 DEF PendingInv
  <2> QED BY <1>1, <1>3, <2>1 DEF SampleOf
<1>5. ASSUME NEW i \in 1..Len(inflight'), inflight'[i].pos[r] > 0
      PROVE  /\ SampleOf(r, inflight[i].pos[r])' /\ batch'.pos[r] = 0
             /\ \A j \in 1..Len(inflight') : inflight'[j].pos[r] > 0 => i = j
             /\ status'[r] # "PREEMPTED"
  <2>1. i + 1 \in 1..Len(inflight) /\ inflight'[i] = inflight[i + 1] /\ i \in Nat
        /\ inflight[i + 1].pos[r] > 0
    BY <1>2, <1>3, <1>5
  <2>2. /\ SampleOf(r, inflight[i + 1].pos[r])
        /\ \A j \in 1..Len(inflight) : inflight[j].pos[r] > 0 => i + 1 = j
        /\ status[r] = "PREEMPTED" => MaxInFlight = 2 /\ i + 1 < Len(inflight)
    <3>1. status[r] = "PREEMPTED" => MaxInFlight = 2 /\ i + 1 < Len(inflight)
      BY <1>1, <2>1, PreemptedSample DEF Planning
    <3> QED BY <1>2, <2>1, <3>1 DEF PendingInv
  <2>3. status[r] # "PREEMPTED"
    <3>1. Len(inflight) <= MaxInFlight
      BY <1>2 DEF InflightInv
    <3> QED BY <1>2, <2>1, <2>2, <3>1
  <2>4. batch'.pos[r] = 0
    <3>1. 1 \in 1..Len(inflight)
      BY <1>2, <1>3
    <3>2. ~(inflight[1].pos[r] > 0)
      BY <2>1, <2>2, <3>1
    <3>3. inflight[1].pos[r] \in Nat
      <4>1. inflight[1] \in Batches /\ r \in Requests
        BY <1>2, <3>1, ElementOfSeq DEF Unfinished, IInv, TypeOK
      <4> QED BY <4>1 DEF Batches
    <3> QED BY <1>3, <3>2, <3>3
  <2>5. \A j \in 1..Len(inflight') : inflight'[j].pos[r] > 0 => i = j
    <3>1. TAKE j \in 1..Len(inflight')
    <3>2. HAVE inflight'[j].pos[r] > 0
    <3>3. j + 1 \in 1..Len(inflight) /\ inflight'[j] = inflight[j + 1]
      BY <1>2, <1>3
    <3>4. i + 1 = j + 1
      BY <2>2, <3>2, <3>3
    <3> QED BY <1>2, <1>3, <2>1, <3>4
  <2>6. SampleOf(r, inflight[i].pos[r])'
    BY <1>1, <2>1, <2>2 DEF SampleOf
  <2> QED BY <1>1, <2>3, <2>4, <2>5, <2>6
<1> QED BY <1>4, <1>5 DEF PendingInv

LEMMA FinishSchedulePending ==
  ASSUME IInv, EngineAssumption, FinishSchedule, NEW r \in Unfinished
  PROVE  PendingInv(r)'
<1>1. /\ pc' = "idle" /\ pc \in {"output", "waiting"}
      /\ batch' = batch /\ inflight' = Append(inflight, NewBatch)
      /\ computed' = [q \in Requests |-> computed[q] + sched[q]]
      /\ UNCHANGED <<tokens, status, waiting>>
  BY DEF FinishSchedule, ScheduleOver, ComputedAfterSchedule, updateVars
<1>2. /\ inflight \in Seq(Batches) /\ Len(inflight) \in Nat /\ MaxInFlight \in Nat
      /\ PendingInv(r) /\ InflightInv /\ r \in Requests
      /\ computed[r] \in Nat /\ sched[r] \in Nat /\ tokens[r] \in Nat
  BY LenProperties, SchedulerAssumption DEF IInv, TypeOK, SamplesInv, Unfinished
<1>3. NewBatch \in Batches
  BY DEF NewBatch, Batches, Scheduled, IInv, TypeOK
<1>4. /\ Len(inflight') = Len(inflight) + 1
      /\ inflight'[Len(inflight) + 1] = NewBatch
      /\ \A i \in 1..Len(inflight) : inflight'[i] = inflight[i]
  BY <1>1, <1>2, <1>3, AppendProperties
<1>5. batch'.pos[r] = 0
  BY <1>1, <1>2 DEF IInv, AtRest
<1>6. NewBatch.pos[r] = IF sched[r] > 0 /\ computed[r] + sched[r] >= tokens[r]
                        THEN tokens[r] ELSE 0
  BY <1>2 DEF NewBatch
<1>7. ASSUME NEW i \in 1..Len(inflight), inflight[i].pos[r] > 0
      PROVE  sched[r] = 0
  <2>1. SUFFICES ASSUME sched[r] > 0 PROVE FALSE
    BY <1>2
  <2>2. status[r] = "RUNNING" /\ computed[r] < tokens[r]
    BY <1>2, <2>1, ScheduledRequest
  <2>3. SampleOf(r, inflight[i].pos[r])
    BY <1>2, <1>7 DEF PendingInv
  <2> QED BY <1>2, <2>2, <2>3 DEF SampleOf
<1>8. ASSUME NEW i \in 1..Len(inflight'), inflight'[i].pos[r] > 0
      PROVE  /\ SampleOf(r, inflight[i].pos[r])'
             /\ \A j \in 1..Len(inflight') : inflight'[j].pos[r] > 0 => i = j
             /\ status'[r] = "PREEMPTED" => i < Len(inflight')
  <2>1. CASE i \in 1..Len(inflight)
    <3>1. inflight'[i] = inflight[i] /\ inflight[i].pos[r] > 0
      BY <1>4, <1>8, <2>1
    <3>2. sched[r] = 0 /\ computed'[r] = computed[r]
      BY <1>1, <1>2, <1>7, <2>1, <3>1
    <3>3. SampleOf(r, inflight[i].pos[r])
          /\ \A j \in 1..Len(inflight) : inflight[j].pos[r] > 0 => i = j
      BY <1>2, <2>1, <3>1 DEF PendingInv
    <3>4. SampleOf(r, inflight[i].pos[r])'
      BY <1>1, <3>1, <3>2, <3>3 DEF SampleOf
    <3>5. ~(inflight'[Len(inflight) + 1].pos[r] > 0)
      BY <1>2, <1>4, <1>6, <3>2
    <3>6. \A j \in 1..Len(inflight') : inflight'[j].pos[r] > 0 => i = j
      <4>1. TAKE j \in 1..Len(inflight')
      <4>2. HAVE inflight'[j].pos[r] > 0
      <4>3. j \in 1..Len(inflight) \/ j = Len(inflight) + 1
        BY <1>2, <1>4
      <4> QED BY <1>4, <3>3, <3>5, <4>2, <4>3
    <3>7. i < Len(inflight')
      BY <1>2, <1>4, <2>1
    <3> QED BY <3>4, <3>6, <3>7
  <2>2. CASE i = Len(inflight) + 1
    <3>1. NewBatch.pos[r] > 0
      BY <1>4, <1>8, <2>2
    <3>2. sched[r] > 0 /\ computed[r] + sched[r] >= tokens[r] /\ NewBatch.pos[r] = tokens[r]
      BY <1>2, <1>6, <3>1
    <3>3. status[r] = "RUNNING" /\ computed[r] + sched[r] <= tokens[r]
      BY <1>2, <3>2, ScheduledRequest
    <3>4. computed'[r] = tokens'[r]
      <4>1. computed'[r] = computed[r] + sched[r] /\ tokens'[r] = tokens[r]
        BY <1>1, <1>2
      <4> QED BY <1>2, <3>2, <3>3, <4>1
    <3>5. inflight'[i].pos[r] = tokens'[r] /\ status'[r] = "RUNNING"
      BY <1>1, <1>4, <2>2, <3>2, <3>3
    <3>6. SampleOf(r, inflight[i].pos[r])'
      BY <3>4, <3>5 DEF SampleOf
    <3>7. \A j \in 1..Len(inflight') : inflight'[j].pos[r] > 0 => i = j
      <4>1. TAKE j \in 1..Len(inflight')
      <4>2. HAVE inflight'[j].pos[r] > 0
      <4>3. j \in 1..Len(inflight) \/ j = Len(inflight) + 1
        BY <1>2, <1>4
      <4>4. ~(j \in 1..Len(inflight))
        BY <1>2, <1>4, <1>7, <3>2, <4>2
      <4> QED BY <2>2, <4>3, <4>4
    <3> QED BY <3>5, <3>6, <3>7
  <2> QED BY <1>2, <1>4, <2>1, <2>2
<1> QED BY <1>1, <1>5, <1>8 DEF PendingInv

\* The methods of schedule() that change the candidate or the victim.
LEMMA PlanPending ==
  ASSUME IInv, EngineAssumption, [Next]_vars, ~BeginUpdate, ~FinishSchedule,
         PreemptVictim \/ SkipStep \/ PromoteBlocked \/ StartLoad \/ AdmitCandidate,
         NEW r \in Unfinished'
  PROVE  PendingInv(r)'
<1> USE DEF queueVars, idVars, tokenVars, sessionVars, kvVars, stepVars, updateVars,
            hookVars, workerVars
<1>t. TypeOK
  BY DEF IInv
<1>1. CASE PreemptVictim
  <2>1. PICK i \in 1..Len(running) :
          /\ PreemptRequest(running[i]) /\ running' = RemoveAt(running, i)
          /\ preempted' = preempted \cup {running[i]}
    BY <1>1, Zenon DEF PreemptVictim
  <2>2. pc = "alloc" /\ pc' \in {"alloc", "post"} /\ UNCHANGED <<live, tokens, inflight, batch>>
    BY <1>1 DEF PreemptVictim
  <2>3. /\ running[i] \in Requests /\ running[i] \in RunningReqs /\ Unfinished' = Unfinished
        /\ Members(waiting') = Members(waiting) \cup {running[i]}
    BY <2>1, <2>2, PreemptMembers
  <2>4. /\ status' = [status EXCEPT ![running[i]] = "PREEMPTED"]
        /\ computed' = [computed EXCEPT ![running[i]] = 0]
        /\ status \in [Requests -> Statuses] /\ computed \in [Requests -> Nat]
        /\ r \in Requests /\ r \in Unfinished
    BY <1>t, <2>1, <2>3 DEF PreemptRequest, TypeOK, Unfinished
  <2>5. CASE r # running[i]
    <3>1. status'[r] = status[r] /\ computed'[r] = computed[r] /\ tokens'[r] = tokens[r]
          /\ preempted \subseteq preempted'
      BY <2>1, <2>2, <2>4, <2>5
    <3> QED BY <2>3, <2>4, <3>1, PendingKept
  <2>6. CASE r = running[i]
    <3>1. batch'.pos[r] = 0
      BY <2>2, <2>4 DEF IInv, AtRest
    <3>2. status'[r] = "PREEMPTED" /\ r \in Members(waiting') /\ r \in preempted' /\ Planning'
      BY <2>1, <2>2, <2>3, <2>4, <2>6 DEF Planning
    <3>3. ASSUME NEW j \in 1..Len(inflight), inflight[j].pos[r] > 0
          PROVE  /\ tokens[r] = inflight[j].pos[r] /\ MaxInFlight = 2
                 /\ \A k \in 1..Len(inflight) : inflight[k].pos[r] > 0 => j = k
      <4>1. /\ SampleOf(r, inflight[j].pos[r])
            /\ \A k \in 1..Len(inflight) : inflight[k].pos[r] > 0 => j = k
        BY <2>4, <3>3 DEF IInv, SamplesInv, PendingInv
      <4>2. Len(inflight) \in Nat /\ MaxInFlight \in Nat
        BY <1>t, LenProperties, SchedulerAssumption DEF TypeOK
      <4>3. Len(inflight) < MaxInFlight
        BY <2>2 DEF IInv, SamplesInv, InflightInv, Planning
      <4>4. MaxInFlight = 2
        BY <4>2, <4>3 DEF EngineAssumption
      <4> QED BY <4>1, <4>4 DEF SampleOf
    <3>4. ASSUME NEW j \in 1..Len(inflight'), inflight'[j].pos[r] > 0
          PROVE  /\ SampleOf(r, inflight[j].pos[r])'
                 /\ \A k \in 1..Len(inflight') : inflight'[k].pos[r] > 0 => j = k
      <4>1. j \in 1..Len(inflight) /\ inflight[j].pos[r] > 0
        BY <2>2, <3>4
      <4>2. tokens'[r] = inflight'[j].pos[r] /\ MaxInFlight = 2
        BY <2>2, <3>3, <4>1
      <4>3. \A k \in 1..Len(inflight') : inflight'[k].pos[r] > 0 => j = k
        BY <2>2, <3>3, <4>1
      <4> QED BY <3>2, <4>2, <4>3 DEF SampleOf
    <3> QED BY <3>1, <3>2, <3>4 DEF PendingInv
  <2> QED BY <2>5, <2>6
<1>2. ASSUME InWaitingLoop, UNCHANGED <<live, tokens, preempted, inflight, batch>>,
             PopCandidate \/ UNCHANGED waiting,
             \/ status' = status
             \/ \E s \in {"WAITING", "PREEMPTED", "RUNNING", "WAITING_FOR_REMOTE_KVS"} :
                   status' = [status EXCEPT ![Candidate] = s],
             computed' = computed \/ \E n : computed' = [computed EXCEPT ![Candidate] = n]
      PROVE  PendingInv(r)'
  <2>1. Candidate \in Requests /\ Candidate \in Unfinished
    BY <1>2, CandidateQueued DEF QueuedReqs
  <2>2. status \in [Requests -> Statuses] /\ computed \in [Requests -> Nat]
        /\ live \subseteq Requests
    BY <1>t DEF TypeOK
  <2>3. \A q \in Requests : q # Candidate => status'[q] = status[q] /\ computed'[q] = computed[q]
    BY <1>2, <2>1, <2>2
  <2>4. r \in Unfinished /\ r \in Requests
    <3>1. r \in live /\ ~IsFinished(status'[r])
      BY <1>2 DEF Unfinished
    <3> QED BY <2>1, <2>2, <2>3, <3>1 DEF Unfinished
  <2>5. CASE r = Candidate
    <3>1. /\ ~(batch'.pos[r] > 0) /\ \A i \in 1..Len(inflight) : ~(inflight[i].pos[r] > 0)
      BY <1>2, <2>5, CandidateNotPending
    <3> QED BY <1>t, <1>2, <2>4, <3>1, NothingPending
  <2>6. CASE r # Candidate
    <3>1. r \in Members(waiting) => r \in Members(waiting')
      BY <1>2, <2>6, PopMembers
    <3> QED BY <1>2, <2>3, <2>4, <2>6, <3>1, PendingKept
  <2> QED BY <2>5, <2>6
<1>3. CASE SkipStep
  BY <1>2, <1>3 DEF SkipStep, SkipBlocked, SkipForLora, SkipForConnector, SkipCandidate, Schedulable
<1>4. CASE PromoteBlocked
  BY <1>2, <1>4 DEF PromoteBlocked
<1>5. CASE StartLoad
  BY <1>2, <1>5 DEF StartLoad, Schedulable
<1>6. CASE AdmitCandidate
  <2>1. PICK hit \in SyncHits :
          /\ PopCandidate
          /\ status' = [status EXCEPT ![Candidate] = "RUNNING"]
          /\ computed' = [computed EXCEPT ![Candidate] = Start(hit)]
    BY <1>6, Zenon DEF AdmitCandidate
  <2>2. InWaitingLoop /\ UNCHANGED <<live, tokens, preempted, inflight, batch>>
    BY <1>6 DEF AdmitCandidate, Schedulable
  <2> QED BY <1>2, <2>1, <2>2
<1> QED BY <1>1, <1>3, <1>4, <1>5, <1>6

\* The sample a request gets was its only one.
LEMMA SampledNotPending ==
  ASSUME IInv, NEW r \in Requests, GetsToken(r)
  PROVE  \A i \in 1..Len(inflight) : ~(inflight[i].pos[r] > 0)
<1>1. r \in Unfinished /\ batch.pos[r] > 0
  BY SampledRequest DEF GetsToken
<1> QED BY <1>1 DEF IInv, SamplesInv, PendingInv

LEMMA UpdatePending ==
  ASSUME IInv, EngineAssumption, [Next]_vars, ~BeginUpdate, ~FinishSchedule,
         NEW q \in Requests,
         KeepGoing(q) \/ FinishStopped(q) \/ ContinueSession(q) \/ AwaitSession(q) \/ CallTool(q),
         NEW r \in Unfinished'
  PROVE  PendingInv(r)'
<1> USE DEF queueVars, idVars, tokenVars, sessionVars, kvVars, stepVars, updateVars,
            hookVars, workerVars
<1>t. TypeOK
  BY DEF IInv
<1>1. GetsToken(q) /\ DoneWith(q)
      /\ UNCHANGED <<computed, preempted, inflight>>
  BY DEF KeepGoing, FinishStopped, ContinueSession, AwaitSession, CallTool
<1>2. /\ live' = live \/ live' = live \ {q}
      /\ \/ tokens' = [tokens EXCEPT ![q] = @ + 1]
         \/ tokens' = [tokens EXCEPT ![q] = Least(computed[q], tokens[q] + 1) + 1]
      /\ status' = status \/ \E s : status' = [status EXCEPT ![q] = s]
      /\ waiting' = waiting \/ waiting' = Append(waiting, q)
  <2>1. CASE KeepGoing(q)
    BY <2>1 DEF KeepGoing, AppendToken
  <2>2. CASE FinishStopped(q)
    BY <2>2 DEF FinishStopped, AppendToken, FreeRequest
  <2>3. CASE ContinueSession(q)
    BY <2>3 DEF ContinueSession, UpdateRequestAsSession, EnqueueWaitingRequest
  <2>4. CASE AwaitSession(q) \/ CallTool(q)
    BY <2>4 DEF AwaitSession, CallTool, AppendToken, EnqueueWaitingRequest
  <2> QED BY <2>1, <2>2, <2>3, <2>4
<1>3. q \in Unfinished
  BY <1>1, SampledRequest
<1>4. /\ r \in Requests /\ r \in live
      /\ status \in [Requests -> Statuses] /\ tokens \in [Requests -> Nat]
      /\ waiting \in Seq(Requests)
  BY <1>t, <1>2 DEF TypeOK, Unfinished
<1>5. CASE r = q
  <2>1. batch'.pos[r] = 0
    BY <1>t, <1>1, <1>5, DoneWithSample
  <2>2. \A i \in 1..Len(inflight) : ~(inflight[i].pos[r] > 0)
    BY <1>1, <1>5, SampledNotPending
  <2> QED BY <1>t, <1>1, <1>4, <2>1, <2>2, NothingPending
<1>6. CASE r # q
  <2>1. status'[r] = status[r] /\ tokens'[r] = tokens[r] /\ computed'[r] = computed[r]
    BY <1>1, <1>2, <1>4, <1>6
  <2>2. r \in Unfinished
    BY <1>4, <2>1 DEF Unfinished
  <2>3. r \in Members(waiting) => r \in Members(waiting')
    <3>1. Members(Append(waiting, q)) = Members(waiting) \cup {q}
      BY <1>4, AppendMembers
    <3> QED BY <1>2, <3>1
  <2> QED BY <1>1, <2>1, <2>2, <2>3, PendingKept
<1> QED BY <1>5, <1>6

LEMMA OtherPending ==
  ASSUME IInv, EngineAssumption, [Next]_vars, ~BeginUpdate, ~FinishSchedule,
         NEW r \in Unfinished',
         UNCHANGED <<status, live, tokens, computed, waiting, preempted>>
  PROVE  PendingInv(r)'
<1>1. r \in Unfinished
  BY DEF Unfinished
<1> QED BY <1>1, PendingKept

LEMMA CallPending ==
  ASSUME IInv, EngineAssumption, [Next]_vars, ~BeginUpdate, ~FinishSchedule,
         NEW q \in Requests,
         AddRequest(q) \/ AbortRequest(q) \/ CloseSession(q) \/ StartNextChunk(q),
         NEW r \in Unfinished'
  PROVE  PendingInv(r)'
<1> USE DEF queueVars, idVars, tokenVars, sessionVars, kvVars, stepVars, updateVars,
            hookVars, workerVars
<1>t. TypeOK /\ status \in [Requests -> Statuses] /\ tokens \in [Requests -> Nat]
      /\ waiting \in Seq(Requests) /\ live \subseteq arrived /\ arrived \subseteq Requests
  BY DEF IInv, TypeOK
<1>i. pc = "idle" /\ UNCHANGED <<inflight, batch, computed, preempted>>
  BY DEF AddRequest, AbortRequest, CloseSession, StartNextChunk, FinishRequest, BetweenSteps
<1>b. \A s \in Requests : batch.pos[s] = 0
  BY <1>i DEF IInv, AtRest
<1>1. CASE AddRequest(q)
  <2>1. /\ q \notin arrived /\ live' = live \cup {q} /\ tokens' = tokens
        /\ \E s : status' = [status EXCEPT ![q] = s]
        /\ waiting' = waiting \/ waiting' = Append(waiting, q)
    BY <1>1 DEF AddRequest, EnqueueWaitingRequest
  <2>2. r \in Requests
    BY <1>t, <2>1 DEF Unfinished
  <2>3. CASE r = q
    <3>1. \A i \in 1..Len(inflight) : ~(inflight[i].pos[r] > 0)
      BY <2>1, <2>2, <2>3 DEF IInv, SamplesInv, InflightInv
    <3> QED BY <1>t, <1>i, <1>b, <2>2, <3>1, NothingPending
  <2>4. CASE r # q
    <3>1. status'[r] = status[r]
      BY <1>t, <2>1, <2>2, <2>4
    <3>2. r \in Unfinished
      BY <2>1, <2>4, <3>1 DEF Unfinished
    <3>3. r \in Members(waiting) => r \in Members(waiting')
      <4>1. Members(Append(waiting, q)) = Members(waiting) \cup {q}
        BY <1>t, AppendMembers
      <4> QED BY <2>1, <4>1
    <3> QED BY <1>i, <2>1, <3>1, <3>2, <3>3, PendingKept
  <2> QED BY <2>3, <2>4
<1>2. CASE AbortRequest(q) \/ CloseSession(q)
  <2>1. FinishRequest(q)
    BY <1>2 DEF AbortRequest, CloseSession
  <2>2. /\ q \in Unfinished /\ LeaveQueues(q) /\ tokens' = tokens
        /\ status' = [status EXCEPT ![q] = "FINISHED_ABORTED"]
        /\ live' = live \/ live' = live \ {q}
    BY <2>1 DEF FinishRequest, FreeRequest, Unfinished
  <2>3. Unfinished' = Unfinished \ {q}
    BY <1>t, <2>2, RequestFinishes DEF FinishedStatuses
  <2>4. Members(waiting') = Members(waiting) \ {q}
    BY <1>i, <2>2, LeaveQueuesMembers
  <2>5. r \in Requests /\ r # q /\ r \in Unfinished
    BY <1>t, <2>3 DEF Unfinished
  <2>6. status'[r] = status[r]
    BY <1>t, <2>2, <2>5
  <2> QED BY <1>i, <2>2, <2>4, <2>5, <2>6, PendingKept
<1>3. CASE StartNextChunk(q)
  <2>1. /\ status[q] = "WAITING_FOR_STREAMING_REQ" /\ q \in Unfinished
        /\ status' = [status EXCEPT ![q] = "WAITING"]
        /\ \E n : tokens' = [tokens EXCEPT ![q] = n]
        /\ live' = live /\ waiting' = waiting
    BY <1>3 DEF StartNextChunk, UpdateRequestAsSession, Unfinished, IsFinished, FinishedStatuses
  <2>2. r \in Requests
    BY <1>t, <2>1 DEF Unfinished
  <2>3. CASE r = q
    <3>1. \A i \in 1..Len(inflight) : ~(inflight[i].pos[r] > 0)
      <4>1. PendingInv(q)
        BY <2>1 DEF IInv, SamplesInv
      <4> QED BY <2>1, <2>3, <4>1 DEF PendingInv, SampleOf
    <3> QED BY <1>t, <1>i, <1>b, <2>2, <3>1, NothingPending
  <2>4. CASE r # q
    <3>1. status'[r] = status[r] /\ tokens'[r] = tokens[r]
      BY <1>t, <2>1, <2>2, <2>4
    <3>2. r \in Unfinished
      BY <2>1, <2>4, <3>1 DEF Unfinished
    <3> QED BY <1>i, <2>1, <3>1, <3>2, PendingKept
  <2> QED BY <2>3, <2>4
<1> QED BY <1>1, <1>2, <1>3

LEMMA StepSamplesInv ==
  ASSUME IInv, EngineAssumption, [Next]_vars
  PROVE  SamplesInv'
<1> USE DEF queueVars, idVars, tokenVars, sessionVars, kvVars, stepVars, updateVars,
            hookVars, workerVars
<1>1. InflightInv'
  BY StepInflightInv
<1>2. SUFFICES ASSUME NEW r \in Unfinished'
               PROVE  PendingInv(r)'
  BY <1>1 DEF SamplesInv
<1>3. CASE BeginUpdate
  <2>1. r \in Unfinished
    BY <1>3 DEF BeginUpdate, Unfinished
  <2> QED BY <1>3, <2>1, BeginUpdatePending
<1>4. CASE FinishSchedule
  <2>1. r \in Unfinished
    BY <1>4 DEF FinishSchedule, Unfinished
  <2> QED BY <1>4, <2>1, FinishSchedulePending
<1>5. ASSUME ~BeginUpdate, ~FinishSchedule
      PROVE  PendingInv(r)'
  <2>1. CASE Quiet
    BY <1>5, <2>1, QuietFrame, OtherPending DEF quietVars
  <2>2. CASE ScheduleRunning \/ EndRemoval \/ RemoveStoppedRunning
    BY <1>5, <2>2, OtherPending DEF ScheduleRunning, EndRemoval, RemoveStoppedRunning
  <2>3. CASE RemoveStoppedPreempted
    <3>1. pc = "remove" /\ inflight' = inflight /\ batch' = batch
          /\ UNCHANGED <<status, live, tokens, computed, preempted>>
      BY <2>3 DEF RemoveStoppedPreempted
    <3>2. r \in Unfinished /\ r \in Requests /\ TypeOK
      BY <3>1 DEF Unfinished, IInv, TypeOK
    <3>3. PendingInv(r) /\ batch.pos[r] = 0
      BY <3>1, <3>2 DEF IInv, SamplesInv, AtRest
    <3>4. \A i \in 1..Len(inflight) : inflight[i].pos[r] > 0 => status[r] # "PREEMPTED"
      BY <3>1, <3>2, PreemptedSample DEF Planning
    <3>5. ASSUME NEW i \in 1..Len(inflight'), inflight'[i].pos[r] > 0
          PROVE  /\ SampleOf(r, inflight[i].pos[r])' /\ batch'.pos[r] = 0
                 /\ \A j \in 1..Len(inflight') : inflight'[j].pos[r] > 0 => i = j
                 /\ status'[r] # "PREEMPTED"
      <4>1. /\ i \in 1..Len(inflight) /\ inflight[i].pos[r] > 0
            /\ \A j \in 1..Len(inflight) : inflight[j].pos[r] > 0 => i = j
            /\ SampleOf(r, inflight[i].pos[r]) /\ status[r] # "PREEMPTED"
        BY <3>1, <3>3, <3>4, <3>5 DEF PendingInv
      <4>2. SampleOf(r, inflight[i].pos[r])'
        BY <3>1, <4>1 DEF SampleOf
      <4> QED BY <3>1, <3>3, <4>1, <4>2
    <3> QED BY <3>1, <3>3, <3>5 DEF PendingInv
  <2>4. CASE ResetPreempt
    <3>1. pc = "reset" /\ inflight' = inflight /\ batch' = batch /\ live' = live
      BY <2>4 DEF ResetPreempt
    <3>2. r \in Requests /\ TypeOK
      BY <3>1 DEF Unfinished, IInv, TypeOK
    <3>3. inflight = <<>> /\ batch.pos[r] = 0
      BY <3>1, <3>2 DEF IInv, SamplesInv, InflightInv, AtRest
    <3> QED BY <3>1, <3>2, <3>3, NothingPending
  <2>5. CASE PreemptVictim \/ SkipStep \/ PromoteBlocked \/ StartLoad \/ AdmitCandidate
    BY <1>5, <2>5, PlanPending
  <2>6. ASSUME NEW q \in Requests,
               \/ KeepGoing(q) \/ FinishStopped(q) \/ ContinueSession(q) \/ AwaitSession(q)
               \/ CallTool(q)
        PROVE  PendingInv(r)'
    BY <1>5, <2>6, UpdatePending
  <2>7. ASSUME NEW q \in Requests,
               AddRequest(q) \/ AbortRequest(q) \/ CloseSession(q) \/ StartNextChunk(q)
        PROVE  PendingInv(r)'
    BY <1>5, <2>7, CallPending
  <2>8. ASSUME NEW q \in Requests, QueueUpdate(q, "chunk") \/ QueueUpdate(q, "end")
        PROVE  PendingInv(r)'
    BY <1>5, <2>8, OtherPending DEF QueueUpdate
  <2>9. ASSUME NEW q \in Requests, FinishedRecving(q) \/ FinishedSending(q)
        PROVE  PendingInv(r)'
    <3>1. UNCHANGED <<status, tokens, computed, waiting, preempted>> /\ live' \subseteq live
      BY <2>9 DEF FinishedRecving, FinishedSending, LoadEnds
    <3>2. r \in Unfinished
      BY <3>1 DEF Unfinished
    <3> QED BY <1>5, <3>1, <3>2, PendingKept
  <2> QED BY <1>5, <2>1, <2>2, <2>3, <2>4, <2>5, <2>6, <2>7, <2>8, <2>9, StepCases
<1> QED BY <1>3, <1>4, <1>5

------------------------------------------------------------------------------
(* What a step does to one request.                                         *)

\* The victim's tokens of this step are taken back: under FCFS it has none.
LEMMA VictimFacts ==
  ASSUME IInv, PreemptVictim
  PROVE  \E i \in 1..Len(running) :
            /\ IsVictim(i) /\ PreemptRequest(running[i])
            /\ running[i] \in Requests /\ running[i] \in RunningReqs
            /\ running' = RemoveAt(running, i)
            /\ preempted' = preempted \cup {running[i]}
            /\ sched' = [sched EXCEPT ![running[i]] = 0]
            /\ budget' = budget + sched[running[i]]
            /\ reqIndex' = IF sched[running[i]] > 0 THEN reqIndex - 1 ELSE reqIndex
            /\ sched[running[i]] > 0 => i < reqIndex
            /\ IF running[i] = cur THEN pc' = "post" /\ cur' = NoReq /\ numNew' = 0
               ELSE pc' = pc /\ cur' = cur /\ numNew' = numNew
<1>1. PICK i \in 1..Len(running) :
        /\ IsVictim(i) /\ PreemptRequest(running[i])
        /\ running' = RemoveAt(running, i)
        /\ preempted' = preempted \cup {running[i]}
        /\ IF IsScheduled(running[i])
           THEN /\ budget' = budget + sched[running[i]]
                /\ sched' = [sched EXCEPT ![running[i]] = 0]
                /\ reqIndex' = reqIndex - 1
           ELSE UNCHANGED <<budget, sched, reqIndex>>
        /\ IF running[i] = cur THEN pc' = "post" /\ cur' = NoReq /\ numNew' = 0
           ELSE UNCHANGED <<pc, cur, numNew>>
  BY Zenon DEF PreemptVictim
<1>2. pc = "alloc"
  BY DEF PreemptVictim
<1>3. running[i] \in Requests /\ running[i] \in RunningReqs /\ Len(running) \in Nat
  BY <1>2, RunningAgrees
<1>4. sched \in [Requests -> Nat] /\ budget \in Int /\ reqIndex \in Nat
  BY DEF IInv, TypeOK
<1>5. /\ sched[running[i]] > 0 => i < reqIndex
      /\ Policy = "FCFS" => reqIndex <= Len(running)
  BY <1>2 DEF IInv, PlanInv, InRunningPhase
<1>6. Policy = "FCFS" => ~(sched[running[i]] > 0)
  BY <1>1, <1>3, <1>4, <1>5 DEF IsVictim
<1>7. CASE sched[running[i]] > 0
  <2>1. IsScheduled(running[i])
    BY <1>6, <1>7, QueueAssumption DEF IsScheduled
  <2>2. /\ budget' = budget + sched[running[i]]
        /\ sched' = [sched EXCEPT ![running[i]] = 0] /\ reqIndex' = reqIndex - 1
    BY <1>1, <2>1
  <2> QED BY <1>1, <1>3, <1>5, <1>7, <2>2
<1>8. CASE ~(sched[running[i]] > 0)
  <2>1. sched[running[i]] = 0
    BY <1>3, <1>4, <1>8
  <2>2. UNCHANGED <<budget, sched, reqIndex>>
    BY <1>1, <1>8 DEF IsScheduled
  <2>3. sched' = [sched EXCEPT ![running[i]] = 0] /\ budget' = budget + sched[running[i]]
    BY <1>3, <1>4, <2>1, <2>2
  <2> QED BY <1>1, <1>3, <1>5, <1>8, <2>2, <2>3
<1> QED BY <1>7, <1>8

Same(r) ==
  /\ status'[r] = status[r] /\ computed'[r] = computed[r] /\ tokens'[r] = tokens[r]
  /\ prompt'[r] = prompt[r] /\ output'[r] = output[r] /\ streamQueue'[r] = streamQueue[r]
  /\ updatesLeft'[r] = updatesLeft[r] /\ blocks'[r] = blocks[r] /\ sched'[r] = sched[r]
  /\ r \in live' <=> r \in live
  /\ r \in arrived' <=> r \in arrived
  /\ r \in loading' <=> r \in loading
  /\ r \in sending' <=> r \in sending
  /\ r \in finishedRecving' <=> r \in finishedRecving

LEMMA FreeTouches ==
  ASSUME TypeOK, NEW q \in Requests, NEW delay, FreeRequest(q, delay), NEW r \in Requests, r # q
  PROVE  /\ blocks'[r] = blocks[r] /\ (r \in live' <=> r \in live)
         /\ r \in sending' <=> r \in sending
<1>1. blocks \in [Requests -> Nat]
  BY DEF TypeOK
<1> QED BY <1>1 DEF FreeRequest, Free, kvVars

LEMMA Touched ==
  ASSUME IInv, [Next]_vars, NEW r \in Requests
  PROVE  \/ Same(r) \/ FinishSchedule
         \/ ScheduleRunning /\ r = cur
         \/ PreemptVictim /\ PreemptRequest(r) /\ r \in RunningReqs /\ sched'[r] = 0
         \/ ResetPreempt /\ PreemptRequest(r) /\ r \in RunningReqs
         \/ (PromoteBlocked \/ StartLoad \/ AdmitCandidate) /\ r = Candidate
         \/ KeepGoing(r) \/ FinishStopped(r) \/ ContinueSession(r)
         \/ AwaitSession(r) \/ CallTool(r)
         \/ FinishedRecving(r) \/ FinishedSending(r)
         \/ AddRequest(r) \/ AbortRequest(r) \/ CloseSession(r) \/ StartNextChunk(r)
         \/ QueueUpdate(r, "chunk") \/ QueueUpdate(r, "end")
<1>t. TypeOK
  BY DEF IInv
<1>f. /\ status \in [Requests -> Statuses] /\ computed \in [Requests -> Nat]
      /\ tokens \in [Requests -> Nat] /\ prompt \in [Requests -> Nat]
      /\ output \in [Requests -> Nat] /\ streamQueue \in [Requests -> Seq({"chunk", "end"})]
      /\ updatesLeft \in [Requests -> Nat] /\ blocks \in [Requests -> Nat]
      /\ sched \in [Requests -> Nat]
  BY <1>t DEF TypeOK
<1> USE DEF queueVars, idVars, tokenVars, sessionVars, kvVars, stepVars, updateVars,
            hookVars, workerVars
<1>1. CASE Quiet
  BY <1>1, QuietFrame DEF quietVars, Same
<1>2. CASE ScheduleRunning
  <2>1. SUFFICES ASSUME r # cur PROVE Same(r)
    BY <1>2
  <2> QED BY <1>2, <1>f, <2>1 DEF ScheduleRunning, Allocate, Same
<1>3. CASE PreemptVictim
  <2>1. PICK i \in 1..Len(running) :
           /\ PreemptRequest(running[i]) /\ running[i] \in Requests /\ running[i] \in RunningReqs
           /\ sched' = [sched EXCEPT ![running[i]] = 0]
    BY <1>3, VictimFacts
  <2>2. CASE r = running[i]
    BY <1>3, <1>f, <2>1, <2>2
  <2>3. CASE r # running[i]
    <3>1. UNCHANGED <<live, arrived, tokens, prompt, output, streamQueue, updatesLeft, workerVars>>
      BY <1>3 DEF PreemptVictim
    <3> QED BY <1>f, <2>1, <2>3, <3>1 DEF PreemptRequest, Free, Same
  <2> QED BY <2>2, <2>3
<1>4. CASE ResetPreempt
  <2>1. pc = "reset" /\ running # <<>> /\ PreemptRequest(running[Len(running)])
    BY <1>4 DEF ResetPreempt
  <2>2. Len(running) \in 1..Len(running)
    BY <1>t, <2>1, EmptySeq DEF TypeOK
  <2>3. running[Len(running)] \in RunningReqs /\ running[Len(running)] \in Requests
    BY <2>1, <2>2, RunningAgrees
  <2>4. CASE r # running[Len(running)]
    <3>1. UNCHANGED <<live, arrived, tokens, prompt, output, streamQueue, updatesLeft, sched,
                      workerVars>>
      BY <1>4 DEF ResetPreempt
    <3> QED BY <1>f, <2>1, <2>4, <3>1 DEF PreemptRequest, Free, Same
  <2> QED BY <1>4, <2>1, <2>3, <2>4
<1>5. CASE SkipStep
  <2>1. SkipCandidate
    BY <1>5 DEF SkipStep, SkipBlocked, SkipForLora, SkipForConnector
  <2> QED BY <2>1 DEF SkipCandidate, Same
<1>6. CASE PromoteBlocked
  <2>1. SUFFICES ASSUME r # Candidate PROVE Same(r)
    BY <1>6
  <2>2. /\ \E s : status' = [status EXCEPT ![Candidate] = s]
        /\ computed' = computed \/ computed' = [computed EXCEPT ![Candidate] = @ - 1]
        /\ UNCHANGED <<live, arrived, tokens, prompt, output, streamQueue, updatesLeft,
                       blocks, sched, loading, sending>>
        /\ finishedRecving' = finishedRecving \/ finishedRecving' = finishedRecving \ {Candidate}
    BY <1>6 DEF PromoteBlocked
  <2> QED BY <1>f, <2>1, <2>2 DEF Same
<1>7. CASE StartLoad
  <2>1. SUFFICES ASSUME r # Candidate PROVE Same(r)
    BY <1>7
  <2>2. /\ \E s : status' = [status EXCEPT ![Candidate] = s]
        /\ \E n : computed' = [computed EXCEPT ![Candidate] = n]
        /\ \E n : Allocate(Candidate, n)
        /\ UNCHANGED <<live, arrived, tokens, prompt, output, streamQueue, updatesLeft, sched,
                       sending, finishedRecving>>
        /\ loading' = loading \cup {Candidate}
    BY <1>7 DEF StartLoad
  <2> QED BY <1>f, <2>1, <2>2 DEF Same, Allocate
<1>8. CASE AdmitCandidate
  <2>1. SUFFICES ASSUME r # Candidate PROVE Same(r)
    BY <1>8
  <2>2. /\ \E s : status' = [status EXCEPT ![Candidate] = s]
        /\ \E n : computed' = [computed EXCEPT ![Candidate] = n]
        /\ \E n : Allocate(Candidate, n)
        /\ \E n : sched' = [sched EXCEPT ![Candidate] = n]
        /\ UNCHANGED <<live, arrived, tokens, prompt, output, streamQueue, updatesLeft, workerVars>>
    BY <1>8 DEF AdmitCandidate
  <2> QED BY <1>f, <2>1, <2>2 DEF Same, Allocate
<1>9. CASE RemoveStoppedRunning \/ RemoveStoppedPreempted \/ EndRemoval
  BY <1>9 DEF RemoveStoppedRunning, RemoveStoppedPreempted, EndRemoval, Same
<1>10. ASSUME NEW q \in Requests, r # q, KeepGoing(q)
       PROVE  Same(r)
  BY <1>f, <1>10 DEF KeepGoing, AppendToken, Same
<1>11. ASSUME NEW q \in Requests, r # q, FinishStopped(q)
       PROVE  Same(r)
  <2>1. /\ \E s : status' = [status EXCEPT ![q] = s]
        /\ streamQueue' = streamQueue \/ streamQueue' = [streamQueue EXCEPT ![q] = Tail(@)]
        /\ AppendToken(q) /\ FreeRequest(q, FALSE)
        /\ UNCHANGED <<arrived, computed, prompt, updatesLeft, sched, loading, finishedRecving>>
    BY <1>11 DEF FinishStopped
  <2>2. /\ blocks'[r] = blocks[r] /\ (r \in live' <=> r \in live)
        /\ r \in sending' <=> r \in sending
    BY <1>t, <1>11, <2>1, FreeTouches
  <2> QED BY <1>f, <1>11, <2>1, <2>2 DEF AppendToken, Same
<1>12. ASSUME NEW q \in Requests, r # q, ContinueSession(q)
       PROVE  Same(r)
  <2>1. /\ streamQueue' = [streamQueue EXCEPT ![q] = Tail(@)]
        /\ \E n : tokens' = [tokens EXCEPT ![q] = n]
        /\ \E n : prompt' = [prompt EXCEPT ![q] = n]
        /\ output' = [output EXCEPT ![q] = 0] /\ status' = [status EXCEPT ![q] = "WAITING"]
        /\ UNCHANGED <<live, arrived, computed, updatesLeft, blocks, sched, workerVars>>
    BY <1>12 DEF ContinueSession, UpdateRequestAsSession
  <2> QED BY <1>f, <1>12, <2>1 DEF Same
<1>13. ASSUME NEW q \in Requests, r # q, AwaitSession(q) \/ CallTool(q)
       PROVE  Same(r)
  <2>1. /\ \E s : status' = [status EXCEPT ![q] = s] /\ AppendToken(q)
        /\ UNCHANGED <<live, arrived, computed, prompt, streamQueue, updatesLeft, blocks, sched,
                       workerVars>>
    BY <1>13 DEF AwaitSession, CallTool
  <2> QED BY <1>f, <1>13, <2>1 DEF AppendToken, Same
<1>14. ASSUME NEW q \in Requests, r # q, FinishedRecving(q) \/ FinishedSending(q)
       PROVE  Same(r)
  BY <1>f, <1>14 DEF FinishedRecving, FinishedSending, LoadEnds, Free, Same
<1>15. ASSUME NEW q \in Requests, r # q, AddRequest(q)
       PROVE  Same(r)
  <2>1. /\ \E s : status' = [status EXCEPT ![q] = s]
        /\ live' = live \cup {q} /\ arrived' = arrived \cup {q}
        /\ UNCHANGED <<tokenVars, streamQueue, updatesLeft, blocks, sched, workerVars>>
    BY <1>15 DEF AddRequest
  <2> QED BY <1>f, <1>15, <2>1 DEF Same
<1>16. ASSUME NEW q \in Requests, r # q, AbortRequest(q) \/ CloseSession(q)
       PROVE  Same(r)
  <2>1. /\ status' = [status EXCEPT ![q] = "FINISHED_ABORTED"]
        /\ \E delay : FreeRequest(q, delay)
        /\ updatesLeft' = updatesLeft \/ updatesLeft' = [updatesLeft EXCEPT ![q] = 0]
        /\ UNCHANGED <<arrived, tokenVars, streamQueue, sched, loading>>
        /\ finishedRecving' = finishedRecving \ {q}
    BY <1>16 DEF AbortRequest, CloseSession, FinishRequest
  <2>2. /\ blocks'[r] = blocks[r] /\ (r \in live' <=> r \in live)
        /\ r \in sending' <=> r \in sending
    BY <1>t, <1>16, <2>1, FreeTouches
  <2> QED BY <1>f, <1>16, <2>1, <2>2 DEF Same
<1>17. ASSUME NEW q \in Requests, r # q, StartNextChunk(q)
       PROVE  Same(r)
  <2>1. /\ \E n : tokens' = [tokens EXCEPT ![q] = n]
        /\ \E n : prompt' = [prompt EXCEPT ![q] = n]
        /\ output' = [output EXCEPT ![q] = 0] /\ status' = [status EXCEPT ![q] = "WAITING"]
        /\ updatesLeft' = [updatesLeft EXCEPT ![q] = @ - 1]
        /\ UNCHANGED <<live, arrived, computed, streamQueue, blocks, sched, workerVars>>
    BY <1>17 DEF StartNextChunk, UpdateRequestAsSession
  <2> QED BY <1>f, <1>17, <2>1 DEF Same
<1>18. ASSUME NEW q \in Requests, r # q, QueueUpdate(q, "chunk") \/ QueueUpdate(q, "end")
       PROVE  Same(r)
  <2>1. /\ \E s : streamQueue' = [streamQueue EXCEPT ![q] = s]
        /\ \E n : updatesLeft' = [updatesLeft EXCEPT ![q] = n]
        /\ UNCHANGED <<live, arrived, status, tokenVars, blocks, sched, workerVars>>
    BY <1>18 DEF QueueUpdate
  <2> QED BY <1>f, <1>18, <2>1 DEF Same
<1> QED BY <1>1, <1>2, <1>3, <1>4, <1>5, <1>6, <1>7, <1>8, <1>9, <1>10, <1>11, <1>12,
           <1>13, <1>14, <1>15, <1>16, <1>17, <1>18, StepCases

------------------------------------------------------------------------------
(* ChunksInv, and the samples requests wait for.                            *)

LEMMA InitChunksInv == Init => ChunksInv
BY DEF Init, ChunksInv, NoBatch

\* What a step does to the batches in flight.
LEMMA InflightMoves ==
  ASSUME IInv, [Next]_vars
  PROVE  /\ inflight \in Seq(Batches) /\ Len(inflight) \in Nat
         /\ \/ /\ BeginUpdate /\ batch' = inflight[1] /\ Len(inflight) > 0
               /\ Len(inflight') = Len(inflight) - 1
               /\ \A i \in 1..(Len(inflight) - 1) : inflight'[i] = inflight[i + 1]
            \/ /\ FinishSchedule /\ batch' = batch
               /\ Len(inflight') = Len(inflight) + 1
               /\ inflight'[Len(inflight) + 1] = NewBatch
               /\ \A i \in 1..Len(inflight) : inflight'[i] = inflight[i]
            \/ /\ ~BeginUpdate /\ ~FinishSchedule /\ inflight' = inflight
<1>1. inflight \in Seq(Batches) /\ Len(inflight) \in Nat
  BY LenProperties DEF IInv, TypeOK
<1>2. CASE BeginUpdate
  <2>1. batch' = Head(inflight) /\ inflight' = Tail(inflight) /\ inflight # <<>>
    BY <1>2 DEF BeginUpdate
  <2>2. /\ Len(inflight') = Len(inflight) - 1 /\ Len(inflight) > 0 /\ batch' = inflight[1]
        /\ \A i \in 1..(Len(inflight) - 1) : inflight'[i] = inflight[i + 1]
    BY <1>1, <2>1, HeadTailProperties, EmptySeq
  <2> QED BY <1>1, <1>2, <2>2
<1>3. CASE FinishSchedule
  <2>1. batch' = batch /\ inflight' = Append(inflight, NewBatch)
    BY <1>3 DEF FinishSchedule, updateVars
  <2>2. NewBatch \in Batches
    BY DEF NewBatch, Batches, Scheduled, IInv, TypeOK
  <2>3. /\ Len(inflight') = Len(inflight) + 1 /\ inflight'[Len(inflight) + 1] = NewBatch
        /\ \A i \in 1..Len(inflight) : inflight'[i] = inflight[i]
    BY <1>1, <2>1, <2>2, AppendProperties
  <2> QED BY <1>1, <1>3, <2>1, <2>3
<1> QED BY <1>1, <1>2, <1>3, InflightSteps

LEMMA StepChunksInv ==
  ASSUME IInv, [Next]_vars
  PROVE  ChunksInv'
<1>1. SUFFICES ASSUME NEW r \in Requests
               PROVE  /\ batch'.pos[r] > 0 => r \notin batch'.chunks
                      /\ \A i \in 1..Len(inflight') : inflight'[i].pos[r] > 0 => r \notin inflight'[i].chunks
  BY DEF ChunksInv
<1>2. Len(inflight) \in Nat
  BY InflightMoves
<1>3. /\ batch.pos[r] > 0 => r \notin batch.chunks
      /\ \A i \in 1..Len(inflight) : inflight[i].pos[r] > 0 => r \notin inflight[i].chunks
  BY DEF IInv, ChunksInv
<1>4. CASE /\ BeginUpdate /\ batch' = inflight[1] /\ Len(inflight) > 0
           /\ Len(inflight') = Len(inflight) - 1
           /\ \A i \in 1..(Len(inflight) - 1) : inflight'[i] = inflight[i + 1]
  <2>1. 1 \in 1..Len(inflight) /\ \A i \in 1..(Len(inflight) - 1) : i + 1 \in 1..Len(inflight)
    BY <1>2, <1>4
  <2> QED BY <1>3, <1>4, <2>1
<1>5. CASE /\ FinishSchedule /\ batch' = batch
           /\ Len(inflight') = Len(inflight) + 1
           /\ inflight'[Len(inflight) + 1] = NewBatch
           /\ \A i \in 1..Len(inflight) : inflight'[i] = inflight[i]
  <2>1. NewBatch.pos[r] > 0 => r \notin NewBatch.chunks
    BY DEF NewBatch
  <2>2. \A i \in 1..Len(inflight') : i \in 1..Len(inflight) \/ i = Len(inflight) + 1
    BY <1>2, <1>5
  <2> QED BY <1>3, <1>5, <2>1, <2>2
<1>6. CASE ~BeginUpdate /\ ~FinishSchedule /\ inflight' = inflight
  <2>1. batch' = batch \/ \E q \in Requests : DoneWith(q)
    BY <1>6, BatchSteps
  <2>2. ASSUME NEW q \in Requests, DoneWith(q)
        PROVE  batch'.pos[r] > 0 => r \notin batch'.chunks
    <3>1. batch \in [pos : [Requests -> Nat], chunks : SUBSET Requests]
      BY DEF IInv, TypeOK, Batches
    <3>2. batch'.pos[r] > 0 => batch.pos[r] > 0
      BY <2>2, DoneWithSample DEF IInv
    <3>3. batch'.chunks \subseteq batch.chunks
      BY <2>2, <3>1 DEF DoneWith
    <3> QED BY <1>3, <3>2, <3>3
  <2> QED BY <1>3, <1>6, <2>1, <2>2
<1> QED BY <1>4, <1>5, <1>6, InflightMoves

\* A sample stays in flight, or in the batch, until its request is answered.
LEMMA SampleAwaited ==
  ASSUME IInv, [Next]_vars, NEW r \in Unfinished, AwaitsSample(r), ~Answers(r)
  PROVE  AwaitsSample(r)'
<1>1. r \in Requests /\ Len(inflight) \in Nat
  BY InflightMoves DEF IInv, TypeOK, Unfinished
<1>2. batch.pos[r] > 0 => pc = "update"
  BY <1>1 DEF IInv, AtRest
<1>3. CASE /\ BeginUpdate /\ batch' = inflight[1] /\ Len(inflight) > 0
           /\ Len(inflight') = Len(inflight) - 1
           /\ \A i \in 1..(Len(inflight) - 1) : inflight'[i] = inflight[i + 1]
  <2>1. ~(batch.pos[r] > 0)
    BY <1>2, <1>3 DEF BeginUpdate
  <2>2. PICK i \in 1..Len(inflight) : inflight[i].pos[r] > 0
    BY <2>1 DEF AwaitsSample
  <2>3. CASE i = 1
    BY <1>3, <2>2, <2>3 DEF AwaitsSample
  <2>4. CASE i # 1
    <3>1. i - 1 \in 1..(Len(inflight) - 1) /\ (i - 1) + 1 = i
      BY <1>1, <2>4
    <3>2. inflight'[i - 1] = inflight[i]
      BY <1>3, <3>1
    <3> QED BY <1>3, <2>2, <3>1, <3>2 DEF AwaitsSample
  <2> QED BY <2>3, <2>4
<1>4. CASE /\ FinishSchedule /\ batch' = batch
           /\ Len(inflight') = Len(inflight) + 1
           /\ inflight'[Len(inflight) + 1] = NewBatch
           /\ \A i \in 1..Len(inflight) : inflight'[i] = inflight[i]
  <2>1. \A i \in 1..Len(inflight) : i \in 1..Len(inflight')
    BY <1>1, <1>4
  <2> QED BY <1>4, <2>1 DEF AwaitsSample
<1>5. CASE ~BeginUpdate /\ ~FinishSchedule /\ inflight' = inflight
  <2>1. CASE \E i \in 1..Len(inflight) : inflight[i].pos[r] > 0
    BY <1>5, <2>1 DEF AwaitsSample
  <2>2. CASE batch.pos[r] > 0
    <3>1. ~SkipOutput(r)
      BY <2>2, <1>1 DEF SkipOutput, Gone, Unfinished, IInv, ChunksInv
    <3>2. batch' = batch \/ \E q \in Requests : DoneWith(q) /\ q # r
      BY <1>5, <3>1, BatchSteps
    <3>3. batch'.pos[r] = batch.pos[r]
      BY <1>1, <3>2, DoneWithSample DEF IInv
    <3> QED BY <2>2, <3>3 DEF AwaitsSample
  <2> QED BY <2>1, <2>2 DEF AwaitsSample
<1> QED BY <1>3, <1>4, <1>5, InflightMoves

------------------------------------------------------------------------------
(* NewcomersInv and LengthInv.                                              *)

LEMMA InitNewcomersInv == Init => NewcomersInv
BY SchedulerAssumption DEF Init, NewcomersInv

LEMMA StepNewcomersInv ==
  ASSUME IInv, [Next]_vars
  PROVE  NewcomersInv'
<1> SUFFICES ASSUME NEW r \in Requests, r \notin arrived'
             PROVE  /\ status'[r] = "WAITING" /\ computed'[r] = 0 /\ blocks'[r] = 0
                    /\ tokens'[r] = PromptLen[r] /\ output'[r] = 0
                    /\ streamQueue'[r] = <<>>
                    /\ updatesLeft'[r] = IF r \in Resumable THEN MaxUpdates ELSE 0
  BY SchedulerAssumption DEF NewcomersInv
<1>1. r \notin arrived
  BY ArrivedGrows
<1>2. /\ status[r] = "WAITING" /\ computed[r] = 0 /\ blocks[r] = 0
      /\ tokens[r] = PromptLen[r] /\ output[r] = 0
      /\ streamQueue[r] = <<>>
      /\ updatesLeft[r] = IF r \in Resumable THEN MaxUpdates ELSE 0
  BY <1>1 DEF IInv, NewcomersInv
<1>3. r \notin live /\ r \notin Unfinished /\ r \notin RunningReqs
  BY <1>1 DEF IInv, TypeOK, Unfinished, RunningReqs
<1>4. CASE Same(r)
  BY <1>2, <1>4 DEF Same
<1>5. CASE FinishSchedule
  <2>1. sched[r] = 0
    <3>1. sched[r] \in Nat
      BY DEF IInv, TypeOK
    <3> QED BY <1>1, <3>1, ScheduledRequest
  <2>2. computed' = [q \in Requests |-> computed[q] + sched[q]]
        /\ UNCHANGED <<status, blocks, tokens, output, streamQueue, updatesLeft>>
    BY <1>5 DEF FinishSchedule, ComputedAfterSchedule, kvVars, sessionVars
  <2> QED BY <1>2, <2>1, <2>2
<1>6. ~(ScheduleRunning /\ r = cur)
  BY <1>3 DEF IInv, PlanInv, ScheduleRunning
<1>7. ~((PromoteBlocked \/ StartLoad \/ AdmitCandidate) /\ r = Candidate)
  BY <1>3, CandidateQueued DEF QueuedReqs, PromoteBlocked, StartLoad, AdmitCandidate, Schedulable
<1>8. ~(KeepGoing(r) \/ FinishStopped(r) \/ ContinueSession(r) \/ AwaitSession(r) \/ CallTool(r))
  BY <1>3, SampledRequest DEF KeepGoing, FinishStopped, ContinueSession, AwaitSession, CallTool
<1>9. ~(FinishedRecving(r) \/ FinishedSending(r) \/ AbortRequest(r) \/ CloseSession(r)
        \/ StartNextChunk(r) \/ QueueUpdate(r, "chunk") \/ QueueUpdate(r, "end"))
  BY <1>3 DEF FinishedRecving, FinishedSending, AbortRequest, CloseSession, FinishRequest,
     StartNextChunk, QueueUpdate
<1>10. ~AddRequest(r)
  BY DEF AddRequest
<1> QED BY <1>3, <1>4, <1>5, <1>6, <1>7, <1>8, <1>9, <1>10, Touched

LEMMA InitLengthInv == Init => LengthInv
<1> SUFFICES ASSUME Init PROVE LengthInv
  OBVIOUS
<1>1. /\ live = {} /\ tokens = PromptLen /\ prompt = PromptLen
      /\ output = [r \in Requests |-> 0]
  BY DEF Init
<1>2. PromptLen \in [Requests -> Nat \ {0}]
  BY SchedulerAssumption
<1> QED BY <1>1, <1>2 DEF LengthInv, Unfinished

\* The numbers of one request.
LEMMA RequestNumbers ==
  ASSUME TypeOK, NEW r \in Requests
  PROVE  /\ computed[r] \in Nat /\ tokens[r] \in Nat /\ prompt[r] \in Nat
         /\ output[r] \in Nat /\ sched[r] \in Nat /\ updatesLeft[r] \in Nat
         /\ blocks[r] \in Nat /\ Len(streamQueue[r]) \in Nat
         /\ status[r] \in Statuses /\ streamQueue[r] \in Seq({"chunk", "end"})
         /\ PromptLen[r] \in Nat \ {0} /\ MaxOutput[r] \in Nat \ {0} /\ MaxModelLen \in Nat
<1>1. /\ computed[r] \in Nat /\ tokens[r] \in Nat /\ prompt[r] \in Nat
      /\ output[r] \in Nat /\ sched[r] \in Nat /\ updatesLeft[r] \in Nat
      /\ blocks[r] \in Nat /\ status[r] \in Statuses
      /\ streamQueue[r] \in Seq({"chunk", "end"})
  BY DEF TypeOK
<1>2. Len(streamQueue[r]) \in Nat
  BY <1>1, LenProperties
<1>3. PromptLen[r] \in Nat \ {0} /\ MaxOutput[r] \in Nat \ {0} /\ MaxModelLen \in Nat
  BY SchedulerAssumption
<1> QED BY <1>1, <1>2, <1>3

LEMMA StopTokens ==
  ASSUME IInv, EngineAssumption, NEW r \in Requests, ContinueSession(r) \/ AwaitSession(r)
  PROVE  /\ MaxInFlight = 1 /\ status[r] = "RUNNING" /\ computed[r] = tokens[r]
         /\ r \in Resumable /\ r \in Unfinished
<1>1. GetsToken(r) /\ r \in Resumable
  BY DEF ContinueSession, AwaitSession
<1>2. MaxInFlight = 1
  BY <1>1 DEF EngineAssumption
<1>3. status[r] = "RUNNING" /\ computed[r] = tokens[r] /\ r \in Unfinished
  BY <1>1, <1>2, SampledRequest
<1> QED BY <1>1, <1>2, <1>3

\* A session's next prompt is all it has computed and the new token.
LEMMA ContinuedTokens ==
  ASSUME IInv, EngineAssumption, NEW r \in Requests, ContinueSession(r)
  PROVE  /\ tokens'[r] = tokens[r] + 1 /\ prompt'[r] = tokens[r] + 1 /\ output'[r] = 0
         /\ computed'[r] = tokens[r] /\ sched'[r] = 0
         /\ updatesLeft'[r] = updatesLeft[r] /\ streamQueue'[r] = Tail(streamQueue[r])
         /\ streamQueue[r] # <<>> /\ status'[r] = "WAITING"
<1>t. TypeOK
  BY DEF IInv
<1>n. /\ computed[r] \in Nat /\ tokens[r] \in Nat /\ prompt[r] \in Nat /\ output[r] \in Nat
      /\ sched[r] \in Nat
  BY <1>t, RequestNumbers
<1>1. computed[r] = tokens[r]
  BY StopTokens
<1>2. /\ tokens' = [tokens EXCEPT ![r] = Least(computed[r], tokens[r] + 1) + 1]
      /\ prompt' = [prompt EXCEPT ![r] =
                      @ + (IF computed[r] > prompt[r]
                           THEN Least(computed[r], tokens[r] + 1) - prompt[r] ELSE 0) + 1]
      /\ output' = [output EXCEPT ![r] = 0] /\ status' = [status EXCEPT ![r] = "WAITING"]
      /\ streamQueue' = [streamQueue EXCEPT ![r] = Tail(@)] /\ streamQueue[r] # <<>>
      /\ UNCHANGED <<computed, sched, updatesLeft>> /\ pc = "update"
  BY DEF ContinueSession, UpdateRequestAsSession, stepVars, GetsToken
<1>3. tokens[r] = prompt[r] + output[r]
  BY DEF IInv, LengthInv
<1>4. sched[r] = 0
  BY <1>n, <1>2 DEF IInv, AtRest, Scheduled, Planning
<1>5. Least(computed[r], tokens[r] + 1) = tokens[r]
  BY <1>n, <1>1 DEF Least
<1>6. /\ tokens \in [Requests -> Nat] /\ prompt \in [Requests -> Nat]
      /\ output \in [Requests -> Nat] /\ status \in [Requests -> Statuses]
      /\ streamQueue \in [Requests -> Seq({"chunk", "end"})]
  BY <1>t DEF TypeOK
<1>7. /\ tokens'[r] = tokens[r] + 1 /\ output'[r] = 0 /\ status'[r] = "WAITING"
      /\ streamQueue'[r] = Tail(streamQueue[r])
  BY <1>2, <1>5, <1>6
<1>8. prompt'[r] = tokens[r] + 1
  <2>1. prompt'[r] = prompt[r] + (IF computed[r] > prompt[r] THEN tokens[r] - prompt[r] ELSE 0) + 1
    BY <1>2, <1>5, <1>6
  <2> QED BY <1>n, <1>1, <1>3, <2>1
<1> QED BY <1>1, <1>2, <1>4, <1>7, <1>8

\* A waiting session goes on with the token it was not allowed to compute.
LEMMA NextChunkTokens ==
  ASSUME IInv, NEW r \in Requests, StartNextChunk(r)
  PROVE  /\ tokens'[r] = tokens[r] /\ prompt'[r] = tokens[r] /\ output'[r] = 0
         /\ computed'[r] = tokens[r] - 1 /\ sched'[r] = 0
         /\ tokens[r] > 0 /\ r \in Unfinished
         /\ updatesLeft[r] > 0 /\ updatesLeft'[r] = updatesLeft[r] - 1
         /\ streamQueue'[r] = streamQueue[r]
         /\ status'[r] = "WAITING" /\ status[r] = "WAITING_FOR_STREAMING_REQ"
<1>t. TypeOK
  BY DEF IInv
<1>n. /\ computed[r] \in Nat /\ tokens[r] \in Nat /\ prompt[r] \in Nat /\ output[r] \in Nat
      /\ sched[r] \in Nat /\ updatesLeft[r] \in Nat
  BY <1>t, RequestNumbers
<1>2. /\ tokens' = [tokens EXCEPT ![r] = Least(computed[r], tokens[r]) + 1]
      /\ prompt' = [prompt EXCEPT ![r] =
                      @ + (IF computed[r] > prompt[r]
                           THEN Least(computed[r], tokens[r]) - prompt[r] ELSE 0) + 1]
      /\ output' = [output EXCEPT ![r] = 0] /\ status' = [status EXCEPT ![r] = "WAITING"]
      /\ updatesLeft' = [updatesLeft EXCEPT ![r] = @ - 1] /\ updatesLeft[r] > 0
      /\ UNCHANGED <<computed, sched, streamQueue>> /\ pc = "idle"
      /\ r \in live /\ status[r] = "WAITING_FOR_STREAMING_REQ"
  BY DEF StartNextChunk, UpdateRequestAsSession, stepVars, BetweenSteps
<1>1. r \in Unfinished
  BY <1>2 DEF Unfinished, IsFinished, FinishedStatuses
<1>3. tokens[r] = prompt[r] + output[r] /\ prompt[r] > 0
  BY <1>1 DEF IInv, LengthInv
<1>4. sched[r] = 0
  BY <1>n, <1>2 DEF IInv, AtRest, Scheduled, Planning
<1>5. computed[r] = tokens[r] - 1 /\ output[r] > 0
  BY <1>1, <1>2 DEF IInv, SessionInv
<1>6. Least(computed[r], tokens[r]) = tokens[r] - 1
  BY <1>n, <1>5 DEF Least
<1>7. /\ tokens \in [Requests -> Nat] /\ prompt \in [Requests -> Nat]
      /\ output \in [Requests -> Nat] /\ status \in [Requests -> Statuses]
      /\ updatesLeft \in [Requests -> Nat]
  BY <1>t DEF TypeOK
<1>8. /\ tokens'[r] = tokens[r] /\ output'[r] = 0 /\ status'[r] = "WAITING"
      /\ updatesLeft'[r] = updatesLeft[r] - 1
  BY <1>n, <1>2, <1>6, <1>7
<1>9. prompt'[r] = tokens[r]
  <2>1. prompt'[r] = prompt[r] + (IF computed[r] > prompt[r] THEN tokens[r] - 1 - prompt[r] ELSE 0) + 1
    BY <1>2, <1>6, <1>7
  <2> QED BY <1>n, <1>3, <1>5, <2>1
<1> QED BY <1>n, <1>1, <1>2, <1>3, <1>4, <1>5, <1>8, <1>9

\* What a token that is appended does.
LEMMA AppendedTokens ==
  ASSUME IInv, NEW r \in Requests,
         KeepGoing(r) \/ FinishStopped(r) \/ AwaitSession(r) \/ CallTool(r)
  PROVE  /\ tokens'[r] = tokens[r] + 1 /\ output'[r] = output[r] + 1
         /\ prompt'[r] = prompt[r] /\ computed'[r] = computed[r]
         /\ sched'[r] = 0 /\ sched[r] = 0 /\ r \in Unfinished
         /\ computed[r] <= tokens[r] /\ updatesLeft'[r] = updatesLeft[r]
<1>t. TypeOK /\ tokens \in [Requests -> Nat] /\ output \in [Requests -> Nat] /\ sched[r] \in Nat
      /\ computed[r] \in Nat /\ tokens[r] \in Nat
  BY DEF IInv, TypeOK
<1>1. GetsToken(r) /\ AppendToken(r) /\ UNCHANGED <<prompt, computed, sched, updatesLeft>>
  BY DEF KeepGoing, FinishStopped, AwaitSession, CallTool, stepVars, sessionVars
<1>2. pc = "update" /\ r \in Unfinished
  BY <1>1, SampledRequest
<1>3. sched[r] = 0
  BY <1>t, <1>2 DEF IInv, AtRest, Scheduled, Planning
<1>4. computed[r] + sched[r] <= tokens[r]
  BY <1>2 DEF IInv, LengthInv
<1> QED BY <1>t, <1>1, <1>2, <1>3, <1>4 DEF AppendToken

LEMMA StepLengthInv ==
  ASSUME IInv, EngineAssumption, [Next]_vars
  PROVE  LengthInv'
<1> USE DEF queueVars, idVars, tokenVars, sessionVars, kvVars, stepVars, updateVars,
            hookVars, workerVars
<1> DEFINE Sums(r) == tokens[r] = prompt[r] + output[r] /\ prompt[r] > 0
           Room(r) == /\ computed[r] + sched[r] <= tokens[r]
                      /\ status[r] \notin {"RUNNING", "WAITING_FOR_REMOTE_KVS"} =>
                            computed[r] < tokens[r]
<1>1. SUFFICES ASSUME NEW r \in Requests
               PROVE  Sums(r)' /\ (r \in Unfinished' => Room(r)')
  <2>1. Unfinished' \subseteq Requests
    <3>1. TypeOK'
      BY StepTypes
    <3> QED BY <3>1 DEF TypeOK, Unfinished
  <2> QED BY <1>1, <2>1 DEF LengthInv
<1>t. TypeOK
  BY DEF IInv
<1>n. /\ computed[r] \in Nat /\ tokens[r] \in Nat /\ prompt[r] \in Nat /\ output[r] \in Nat
      /\ sched[r] \in Nat /\ PromptLen[r] \in Nat \ {0}
  BY <1>t, RequestNumbers
<1>f. /\ status \in [Requests -> Statuses] /\ computed \in [Requests -> Nat]
      /\ tokens \in [Requests -> Nat] /\ sched \in [Requests -> Nat]
  BY <1>t DEF TypeOK
<1>o. Sums(r) /\ (r \in Unfinished => Room(r))
  BY DEF IInv, LengthInv
<1>2. CASE Same(r)
  BY <1>2, <1>o DEF Same, Unfinished
<1>3. CASE FinishSchedule
  <2>1. /\ computed' = [q \in Requests |-> computed[q] + sched[q]]
        /\ sched' = [q \in Requests |-> 0]
        /\ UNCHANGED <<live, status, tokens, prompt, output>>
    BY <1>3 DEF FinishSchedule, ComputedAfterSchedule
  <2>2. Unfinished' = Unfinished
    BY <2>1 DEF Unfinished
  <2>3. computed'[r] = computed[r] + sched[r] /\ sched'[r] = 0
    BY <2>1
  <2>4. status[r] # "RUNNING" => sched[r] = 0
    BY <1>n, ScheduledRequest
  <2> QED BY <1>n, <1>o, <2>1, <2>2, <2>3, <2>4
<1>4. CASE ScheduleRunning /\ r = cur
  <2>1. /\ sched'[r] = numNew /\ UNCHANGED <<live, status, tokens, prompt, output, computed>>
        /\ pc = "alloc"
    BY <1>4, <1>f DEF ScheduleRunning
  <2>2. /\ cur \in RunningReqs /\ computed[r] + numNew <= tokens[r] /\ numNew \in Nat
    BY <1>4, <2>1 DEF IInv, PlanInv, TypeOK
  <2>3. r \in Unfinished /\ status[r] = "RUNNING"
    BY <1>4, <2>2 DEF RunningReqs
  <2> QED BY <1>n, <1>o, <2>1, <2>2, <2>3
<1>5. CASE (PreemptVictim \/ ResetPreempt) /\ PreemptRequest(r) /\ r \in RunningReqs
           /\ sched'[r] = 0
  <2>1. UNCHANGED <<live, tokens, prompt, output>> /\ computed'[r] = 0 /\ r \in Unfinished
    BY <1>5, <1>f DEF PreemptVictim, ResetPreempt, PreemptRequest, RunningReqs
  <2> QED BY <1>n, <1>o, <1>5, <2>1
<1>6. ASSUME ResetPreempt
      PROVE  sched'[r] = 0
  BY <1>n, <1>6 DEF ResetPreempt, IInv, AtRest, Planning, Scheduled
<1>7. CASE PromoteBlocked /\ r = Candidate
  <2>1. /\ InWaitingLoop /\ UNCHANGED <<live, tokens, prompt, output, sched>>
        /\ IsBlockedWaiting(status[r])
        /\ computed' = IF status[r] = "WAITING_FOR_REMOTE_KVS" /\ computed[r] = tokens[r]
                       THEN [computed EXCEPT ![r] = @ - 1] ELSE computed
    BY <1>7 DEF PromoteBlocked, Promotable, IsBlockedWaiting, BlockedStatuses
  <2>2. r \in Unfinished /\ status[r] \in QueuedStatuses
    BY <1>7, <2>1, CandidateQueued DEF QueuedReqs
  <2>3. sched[r] = 0 /\ status[r] # "RUNNING"
    <3>1. status[r] # "RUNNING"
      BY <2>2 DEF QueuedStatuses, BlockedStatuses
    <3> QED BY <1>n, <3>1, ScheduledRequest
  <2>4. computed'[r] = IF status[r] = "WAITING_FOR_REMOTE_KVS" /\ computed[r] = tokens[r]
                       THEN computed[r] - 1 ELSE computed[r]
    BY <1>f, <2>1
  <2>5. computed'[r] < tokens[r]
    BY <1>n, <1>o, <2>2, <2>3, <2>4
  <2>6. computed'[r] + sched'[r] <= tokens'[r]
    BY <1>n, <1>f, <2>1, <2>3, <2>4, <2>5
  <2> QED BY <1>o, <2>1, <2>2, <2>5, <2>6
<1>8. CASE StartLoad /\ r = Candidate
  <2>1. /\ Schedulable /\ UNCHANGED <<live, tokens, prompt, output, sched>>
        /\ status'[r] = "WAITING_FOR_REMOTE_KVS" /\ computed'[r] = prompt[r]
    BY <1>8, <1>f DEF StartLoad
  <2>2. r \in Unfinished /\ sched[r] = 0 /\ prompt[r] <= tokens[r]
    BY <1>8, <2>1, NextToAdmit
  <2> QED BY <1>n, <1>o, <2>1, <2>2
<1>9. CASE AdmitCandidate /\ r = Candidate
  <2>1. PICK hit \in SyncHits :
          /\ status' = [status EXCEPT ![r] = "RUNNING"]
          /\ computed' = [computed EXCEPT ![r] = Start(hit)]
          /\ sched' = [sched EXCEPT ![r] = Granted(hit)]
    BY <1>9, Zenon DEF AdmitCandidate
  <2>2. Schedulable /\ UNCHANGED <<live, tokens, prompt, output>>
    BY <1>9 DEF AdmitCandidate
  <2>3. Start(hit) + Granted(hit) <= tokens[r] /\ r \in Unfinished
    BY <1>9, <2>2, TokensToAdmit, NextToAdmit
  <2>4. status'[r] = "RUNNING" /\ computed'[r] = Start(hit) /\ sched'[r] = Granted(hit)
    BY <1>f, <2>1
  <2> QED BY <1>o, <2>2, <2>3, <2>4
<1>10. CASE KeepGoing(r) \/ CallTool(r) \/ AwaitSession(r)
  BY <1>n, <1>o, <1>10, AppendedTokens
<1>11. CASE FinishStopped(r)
  <2>1. status'[r] \in FinishedStatuses
    BY <1>f, <1>11 DEF FinishStopped, StopStatuses, FinishedStatuses
  <2>2. r \notin Unfinished'
    BY <2>1 DEF Unfinished, IsFinished
  <2>3. tokens'[r] = tokens[r] + 1 /\ output'[r] = output[r] + 1 /\ prompt'[r] = prompt[r]
    BY <1>11, AppendedTokens
  <2> QED BY <1>n, <1>o, <2>2, <2>3
<1>12. CASE ContinueSession(r)
  BY <1>n, <1>12, ContinuedTokens
<1>13. CASE StartNextChunk(r)
  BY <1>n, <1>13, NextChunkTokens
<1>14. CASE \/ FinishedRecving(r) \/ FinishedSending(r)
            \/ QueueUpdate(r, "chunk") \/ QueueUpdate(r, "end")
  <2>1. live' \subseteq live /\ UNCHANGED <<status, tokens, prompt, output, computed, sched>>
    BY <1>14 DEF FinishedRecving, FinishedSending, LoadEnds, QueueUpdate
  <2> QED BY <1>o, <2>1 DEF Unfinished
<1>15. CASE AddRequest(r)
  <2>1. UNCHANGED <<tokens, prompt, output, computed, sched>> /\ r \notin arrived /\ pc = "idle"
    BY <1>15 DEF AddRequest, BetweenSteps
  <2>2. computed[r] = 0 /\ tokens[r] = PromptLen[r]
    BY <2>1 DEF IInv, NewcomersInv
  <2>3. sched[r] = 0
    BY <1>n, <2>1 DEF IInv, AtRest, Planning, Scheduled
  <2> QED BY <1>n, <1>o, <2>1, <2>2, <2>3
<1>16. CASE AbortRequest(r) \/ CloseSession(r)
  <2>1. status'[r] = "FINISHED_ABORTED" /\ UNCHANGED <<tokens, prompt, output>>
    BY <1>f, <1>16 DEF AbortRequest, CloseSession, FinishRequest
  <2> QED BY <1>o, <2>1 DEF Unfinished, IsFinished, FinishedStatuses
<1> QED BY <1>2, <1>3, <1>4, <1>5, <1>6, <1>7, <1>8, <1>9, <1>10, <1>11, <1>12,
           <1>13, <1>14, <1>15, <1>16, Touched

------------------------------------------------------------------------------
(* SessionInv.                                                              *)

LEMMA InitSessionInv == Init => SessionInv
BY DEF Init, SessionInv, Unfinished

\* What SessionInv says of one request.
SessionOf(r) ==
  status[r] = "WAITING_FOR_STREAMING_REQ" =>
     /\ r \in Resumable
     /\ streamQueue[r] = <<>> /\ computed[r] = tokens[r] - 1
     /\ output[r] > 0

LEMMA StepSessionInv ==
  ASSUME IInv, EngineAssumption, [Next]_vars
  PROVE  SessionInv'
<1> USE DEF queueVars, idVars, tokenVars, sessionVars, kvVars, stepVars, updateVars,
            hookVars, workerVars
<1>1. SUFFICES ASSUME NEW r \in Requests, r \in Unfinished'
               PROVE  SessionOf(r)'
  <2>1. Unfinished' \subseteq Requests
    <3>1. TypeOK'
      BY StepTypes
    <3> QED BY <3>1 DEF TypeOK, Unfinished
  <2> QED BY <1>1, <2>1 DEF SessionInv, SessionOf
<1>t. TypeOK
  BY DEF IInv
<1>f. status \in [Requests -> Statuses] /\ computed \in [Requests -> Nat] /\ sched[r] \in Nat
  BY <1>t DEF TypeOK
<1>o. r \in Unfinished => SessionOf(r)
  BY DEF IInv, SessionInv, SessionOf
<1>2. CASE Same(r)
  <2>1. r \in Unfinished
    BY <1>1, <1>2 DEF Same, Unfinished
  <2> QED BY <1>2, <1>o, <2>1 DEF Same, SessionOf
<1>3. CASE FinishSchedule
  <2>1. /\ computed' = [q \in Requests |-> computed[q] + sched[q]]
        /\ UNCHANGED <<live, status, tokens, output, streamQueue, updatesLeft>>
    BY <1>3 DEF FinishSchedule, ComputedAfterSchedule
  <2>2. SessionOf(r)
    BY <1>1, <1>o, <2>1 DEF Unfinished
  <2>3. status[r] = "WAITING_FOR_STREAMING_REQ" => computed'[r] = computed[r]
    <3>1. status[r] = "WAITING_FOR_STREAMING_REQ" => sched[r] = 0
      BY <1>f, ScheduledRequest
    <3>2. computed[r] \in Nat
      BY <1>f
    <3> QED BY <2>1, <3>1, <3>2
  <2> QED BY <2>1, <2>2, <2>3 DEF SessionOf
<1>4. CASE ScheduleRunning
  <2>1. UNCHANGED <<live, status, computed, tokens, output, streamQueue, updatesLeft>>
    BY <1>4 DEF ScheduleRunning
  <2>2. SessionOf(r)
    BY <1>1, <1>o, <2>1 DEF Unfinished
  <2> QED BY <2>1, <2>2 DEF SessionOf
<1>5. CASE PreemptRequest(r) \/ ((PromoteBlocked \/ StartLoad \/ AdmitCandidate) /\ r = Candidate)
  <2>1. \E s \in Statuses \ {"WAITING_FOR_STREAMING_REQ"} : status' = [status EXCEPT ![r] = s]
    BY <1>5 DEF PreemptRequest, PromoteBlocked, StartLoad, AdmitCandidate, Statuses,
       QueuedStatuses, BlockedStatuses
  <2> QED BY <1>f, <2>1 DEF SessionOf
<1>6. CASE KeepGoing(r) \/ CallTool(r)
  <2>1. status[r] # "WAITING_FOR_STREAMING_REQ"
    BY <1>6, SampledRequest DEF KeepGoing, CallTool
  <2>2. status' = status \/ status' = [status EXCEPT ![r] = "WAITING_FOR_TOOL_CALL"]
    BY <1>6 DEF KeepGoing, CallTool
  <2> QED BY <1>f, <2>1, <2>2 DEF SessionOf
<1>7. CASE AwaitSession(r)
  <2>1. /\ r \in Resumable /\ computed[r] = tokens[r] /\ streamQueue[r] = <<>>
        /\ streamQueue' = streamQueue
    BY <1>7, StopTokens DEF AwaitSession
  <2>2. tokens'[r] = tokens[r] + 1 /\ output'[r] = output[r] + 1 /\ computed'[r] = computed[r]
    BY <1>7, AppendedTokens
  <2>3. tokens[r] \in Nat /\ output[r] \in Nat
    BY <1>t, RequestNumbers
  <2> QED BY <2>1, <2>2, <2>3 DEF SessionOf
<1>8. CASE ContinueSession(r)
  BY <1>8, ContinuedTokens DEF SessionOf
<1>9. CASE StartNextChunk(r)
  BY <1>9, NextChunkTokens DEF SessionOf
<1>10. CASE FinishStopped(r) \/ AbortRequest(r) \/ CloseSession(r)
  <2>1. status'[r] \in FinishedStatuses
    BY <1>f, <1>10 DEF FinishStopped, StopStatuses, FinishedStatuses, AbortRequest,
       CloseSession, FinishRequest
  <2> QED BY <1>1, <2>1 DEF Unfinished, IsFinished
<1>11. CASE FinishedRecving(r) \/ FinishedSending(r)
  <2>1. live' \subseteq live /\ UNCHANGED <<status, tokens, output, computed, streamQueue, updatesLeft>>
    BY <1>11 DEF FinishedRecving, FinishedSending, LoadEnds
  <2>2. r \in Unfinished
    BY <1>1, <2>1 DEF Unfinished
  <2> QED BY <1>o, <2>1, <2>2 DEF SessionOf
<1>12. CASE QueueUpdate(r, "chunk") \/ QueueUpdate(r, "end")
  <2>1. status' = status /\ status[r] # "WAITING_FOR_STREAMING_REQ"
    BY <1>12 DEF QueueUpdate
  <2> QED BY <2>1 DEF SessionOf
<1>13. CASE AddRequest(r)
  <2>1. status'[r] \in {"WAITING_FOR_STRUCTURED_OUTPUT_GRAMMAR", "WAITING"}
    BY <1>f, <1>13 DEF AddRequest
  <2> QED BY <2>1 DEF SessionOf
<1> QED BY <1>2, <1>3, <1>4, <1>5, <1>6, <1>7, <1>8, <1>9, <1>10, <1>11, <1>12, <1>13, Touched

------------------------------------------------------------------------------
(* LongInv.                                                                 *)

LEMMA InitLongInv == Init => LongInv
BY DEF Init, LongInv, Unfinished

\* From the waiting queues schedule() goes on to its output, and ends.
LEMMA PlanProceeds ==
  ASSUME [Next]_vars, pc \in {"waiting", "output"}
  PROVE  pc' \in {"waiting", "output"} \/ FinishSchedule
<1> USE DEF queueVars, idVars, tokenVars, sessionVars, kvVars, stepVars, updateVars,
            hookVars, workerVars
<1>1. CASE Quiet
  <2>1. CASE BeginSchedule \/ SkipRunning \/ PickRunning \/ EndRunningLoop \/ BeginUpdate
             \/ EndOutputs \/ EndUpdate \/ BeginReset \/ EndReset
    BY <2>1 DEF BeginSchedule, SkipRunning, PickRunning, EndRunningLoop, BeginUpdate,
       EndOutputs, EndUpdate, BeginReset, EndReset, InRunningLoop, RunningLoopOver, BetweenSteps
  <2>2. CASE LoadDoesNotFit \/ ChunkTooBig \/ NoBlocksLeft
    BY <2>2 DEF LoadDoesNotFit, ChunkTooBig, NoBlocksLeft, BreakWaiting
  <2>3. ASSUME NEW r \in Requests, SkipOutput(r) \/ CompileGrammar(r) \/ SubmitToolResponse(r)
        PROVE  pc' = pc
    BY <2>3 DEF SkipOutput, CompileGrammar, SubmitToolResponse
  <2>4. ASSUME NEW s \in PauseStates, SetPauseState(s)
        PROVE  pc' = pc
    BY <2>4 DEF SetPauseState
  <2>5. CASE UNCHANGED vars
    BY <2>5 DEF vars
  <2> QED BY <1>1, <2>1, <2>2, <2>3, <2>4, <2>5 DEF Quiet
<1>2. CASE ScheduleRunning \/ PreemptVictim \/ SkipStep \/ PromoteBlocked \/ StartLoad
           \/ AdmitCandidate
  BY <1>2 DEF ScheduleRunning, PreemptVictim, SkipStep, SkipBlocked, SkipForLora,
     SkipForConnector, SkipCandidate, PromoteBlocked, StartLoad, AdmitCandidate
<1>3. CASE RemoveStoppedRunning \/ RemoveStoppedPreempted \/ EndRemoval \/ ResetPreempt
  BY <1>3 DEF RemoveStoppedRunning, RemoveStoppedPreempted, EndRemoval, ResetPreempt
<1>4. ASSUME NEW r \in Requests,
             \/ KeepGoing(r) \/ FinishStopped(r) \/ ContinueSession(r) \/ AwaitSession(r)
             \/ CallTool(r) \/ FinishedRecving(r) \/ FinishedSending(r) \/ AddRequest(r)
             \/ AbortRequest(r) \/ CloseSession(r) \/ StartNextChunk(r)
             \/ QueueUpdate(r, "chunk") \/ QueueUpdate(r, "end")
      PROVE  pc' = pc
  BY <1>4 DEF KeepGoing, FinishStopped, ContinueSession, AwaitSession, CallTool,
     FinishedRecving, FinishedSending, AddRequest, AbortRequest, CloseSession,
     StartNextChunk, QueueUpdate, FinishRequest
<1> QED BY <1>1, <1>2, <1>3, <1>4, StepCases

\* What LongInv says of one request.
LongOf(r) ==
  tokens[r] >= MaxModelLen =>
     /\ MaxInFlight = 1
     /\ \/ /\ status[r] \in {"WAITING", "WAITING_FOR_STREAMING_REQ"}
           /\ computed[r] = tokens[r] - 1
        \/ /\ status[r] = "RUNNING" /\ computed[r] + sched[r] = tokens[r]
           /\ (pc \in {"waiting", "output"} /\ sched[r] > 0) \/ AwaitsSample(r)

\* A step that leaves the numbers of a request alone leaves it with the sample it
\* waits for, or planned.
LEMMA LongStays ==
  ASSUME IInv, [Next]_vars, ~FinishSchedule, NEW r \in Unfinished, LongOf(r), ~Answers(r),
         status'[r] = status[r], computed'[r] = computed[r], tokens'[r] = tokens[r],
         sched'[r] = sched[r]
  PROVE  LongOf(r)'
<1>1. AwaitsSample(r) => AwaitsSample(r)'
  BY SampleAwaited
<1>2. pc \in {"waiting", "output"} => pc' \in {"waiting", "output"}
  BY PlanProceeds
<1> HIDE DEF AwaitsSample
<1> QED BY <1>1, <1>2 DEF LongOf

LEMMA StepLongInv ==
  ASSUME IInv, EngineAssumption, [Next]_vars
  PROVE  LongInv'
<1> USE DEF queueVars, idVars, tokenVars, sessionVars, kvVars, stepVars, updateVars,
            hookVars, workerVars
<1>1. SUFFICES ASSUME NEW r \in Requests, r \in Unfinished'
               PROVE  LongOf(r)'
  <2>1. Unfinished' \subseteq Requests
    <3>1. TypeOK'
      BY StepTypes
    <3> QED BY <3>1 DEF TypeOK, Unfinished
  <2> QED BY <1>1, <2>1 DEF LongInv, LongOf, AwaitsSample
<1>t. TypeOK
  BY DEF IInv
<1>n. /\ computed[r] \in Nat /\ tokens[r] \in Nat /\ sched[r] \in Nat /\ MaxModelLen \in Nat
      /\ PromptLen[r] \in Nat \ {0} /\ PromptLen[r] < MaxModelLen
  BY <1>t, RequestNumbers, SchedulerAssumption
<1>f. /\ status \in [Requests -> Statuses] /\ computed \in [Requests -> Nat]
      /\ tokens \in [Requests -> Nat] /\ sched \in [Requests -> Nat]
  BY <1>t DEF TypeOK
<1>o. r \in Unfinished => LongOf(r)
  BY DEF IInv, LongInv, LongOf, AwaitsSample
<1>2. CASE KeepGoing(r) \/ CallTool(r)
  <2>1. tokens'[r] = tokens[r] + 1 /\ tokens[r] + 1 < MaxModelLen
    BY <1>n, <1>2, AppendedTokens DEF KeepGoing, CallTool, LengthCapped
  <2> QED BY <1>n, <2>1 DEF LongOf
<1>3. CASE FinishStopped(r) \/ AbortRequest(r) \/ CloseSession(r)
  <2>1. status'[r] \in FinishedStatuses
    BY <1>f, <1>3 DEF FinishStopped, StopStatuses, FinishedStatuses, AbortRequest,
       CloseSession, FinishRequest
  <2> QED BY <1>1, <2>1 DEF Unfinished, IsFinished
<1>4. CASE ContinueSession(r)
  <2>1. computed'[r] = tokens'[r] - 1 /\ status'[r] = "WAITING" /\ MaxInFlight = 1
    BY <1>n, <1>4, ContinuedTokens, StopTokens
  <2> QED BY <2>1 DEF LongOf
<1>5. CASE AwaitSession(r)
  <2>1. computed'[r] = tokens'[r] - 1 /\ MaxInFlight = 1
    BY <1>n, <1>5, AppendedTokens, StopTokens
  <2>2. status'[r] = "WAITING_FOR_STREAMING_REQ"
    BY <1>f, <1>5 DEF AwaitSession
  <2> QED BY <2>1, <2>2 DEF LongOf
<1>6. CASE StartNextChunk(r)
  <2>1. /\ computed'[r] = tokens'[r] - 1 /\ status'[r] = "WAITING" /\ r \in Unfinished
        /\ status[r] = "WAITING_FOR_STREAMING_REQ"
    BY <1>n, <1>6, NextChunkTokens
  <2>2. MaxInFlight = 1
    BY <2>1 DEF EngineAssumption, IInv, SessionInv
  <2> QED BY <2>1, <2>2 DEF LongOf
<1>7. CASE AddRequest(r)
  <2>1. tokens' = tokens /\ r \notin arrived
    BY <1>7 DEF AddRequest
  <2>2. tokens[r] = PromptLen[r]
    BY <2>1 DEF IInv, NewcomersInv
  <2> QED BY <1>n, <2>1, <2>2 DEF LongOf
<1>8. CASE (Same(r) \/ FinishedRecving(r) \/ FinishedSending(r)
             \/ QueueUpdate(r, "chunk") \/ QueueUpdate(r, "end"))
           /\ ~Answers(r) /\ ~FinishSchedule
  <2>1. /\ status'[r] = status[r] /\ computed'[r] = computed[r] /\ tokens'[r] = tokens[r]
        /\ sched'[r] = sched[r] /\ (r \in live' => r \in live)
    BY <1>8 DEF Same, FinishedRecving, FinishedSending, LoadEnds, QueueUpdate
  <2>2. r \in Unfinished
    BY <1>1, <2>1 DEF Unfinished
  <2> QED BY <1>8, <1>o, <2>1, <2>2, LongStays
<1>9. CASE FinishSchedule
  <2>1. /\ computed' = [q \in Requests |-> computed[q] + sched[q]]
        /\ sched' = [q \in Requests |-> 0]
        /\ UNCHANGED <<live, status, tokens>> /\ ScheduleOver
        /\ inflight' = Append(inflight, NewBatch)
    BY <1>9 DEF FinishSchedule, ComputedAfterSchedule
  <2>2. LongOf(r) /\ r \in Unfinished
    BY <1>1, <1>o, <2>1 DEF Unfinished
  <2>3. computed'[r] = computed[r] + sched[r] /\ sched'[r] = 0
    BY <2>1
  <2>4. SUFFICES ASSUME tokens[r] >= MaxModelLen
                 PROVE  LongOf(r)'
    BY <2>1 DEF LongOf
  <2>5. CASE status[r] \in {"WAITING", "WAITING_FOR_STREAMING_REQ"} /\ computed[r] = tokens[r] - 1
    <3>1. sched[r] = 0
      BY <1>n, <2>5, ScheduledRequest
    <3> QED BY <1>n, <2>1, <2>2, <2>3, <2>4, <2>5, <3>1 DEF LongOf
  <2>6. CASE /\ status[r] = "RUNNING" /\ computed[r] + sched[r] = tokens[r]
             /\ (pc \in {"waiting", "output"} /\ sched[r] > 0) \/ AwaitsSample(r)
    <3>1. computed'[r] + sched'[r] = tokens'[r]
      BY <1>n, <2>1, <2>3, <2>6
    <3>2. CASE AwaitsSample(r)
      <4>1. ~Answers(r)
        BY <2>1 DEF ScheduleOver, Answers, KeepGoing, FinishStopped,
           ContinueSession, AwaitSession, CallTool, GetsToken
      <4>2. AwaitsSample(r)'
        BY <2>2, <3>2, <4>1, SampleAwaited
      <4> QED BY <2>1, <2>2, <2>4, <2>6, <3>1, <4>2 DEF LongOf
    <3>3. CASE sched[r] > 0
      <4>1. NewBatch.pos[r] > 0
        <5>1. computed[r] + sched[r] >= tokens[r] /\ tokens[r] > 0
          BY <1>n, <2>6, <3>3
        <5> QED BY <3>3, <5>1 DEF NewBatch
      <4>2. NewBatch \in Batches /\ inflight \in Seq(Batches)
        BY <1>t DEF NewBatch, Batches, Scheduled, TypeOK
      <4>3. Len(inflight') = Len(inflight) + 1 /\ inflight'[Len(inflight) + 1] = NewBatch
            /\ Len(inflight) \in Nat
        BY <2>1, <4>2, AppendProperties, LenProperties
      <4>4. Len(inflight) + 1 \in 1..Len(inflight')
        BY <4>3
      <4>5. AwaitsSample(r)'
        BY <4>1, <4>3, <4>4 DEF AwaitsSample
      <4> QED BY <2>1, <2>2, <2>4, <2>6, <3>1, <4>5 DEF LongOf
    <3> QED BY <2>6, <3>2, <3>3
  <2> QED BY <2>2, <2>4, <2>5, <2>6 DEF LongOf
<1>10. CASE ScheduleRunning /\ r = cur
  <2>1. tokens' = tokens /\ pc = "alloc"
    BY <1>10 DEF ScheduleRunning
  <2>2. cur \in RunningReqs
    BY <2>1 DEF IInv, PlanInv
  <2>3. tokens[r] < MaxModelLen
    BY <1>10, <2>1, <2>2, RunnersFit DEF InRunningPhase
  <2> QED BY <1>n, <2>1, <2>3 DEF LongOf
<1>11. CASE (PreemptVictim \/ ResetPreempt) /\ r \in RunningReqs
  <2>1. /\ tokens' = tokens /\ pc \in {"alloc", "reset"} /\ r \in Unfinished
        /\ status[r] = "RUNNING"
    BY <1>11 DEF PreemptVictim, ResetPreempt, RunningReqs
  <2>2. tokens[r] < MaxModelLen
    <3>1. CASE pc = "alloc"
      BY <1>11, <3>1, RunnersFit DEF InRunningPhase
    <3>2. CASE pc = "reset"
      <4>1. batch.pos[r] = 0 /\ inflight = <<>>
        BY <3>2 DEF IInv, AtRest, SamplesInv, InflightInv
      <4>2. ~AwaitsSample(r)
        BY <4>1 DEF AwaitsSample
      <4>3. ~(tokens[r] >= MaxModelLen)
        BY <1>o, <2>1, <3>2, <4>2 DEF LongOf
      <4> QED BY <1>n, <4>3
    <3> QED BY <2>1, <3>1, <3>2
  <2> QED BY <1>n, <2>1, <2>2 DEF LongOf
<1>12. CASE PromoteBlocked /\ r = Candidate
  <2>1. /\ InWaitingLoop /\ tokens' = tokens
        /\ status[r] \in {"WAITING_FOR_REMOTE_KVS", "WAITING_FOR_STRUCTURED_OUTPUT_GRAMMAR",
                          "WAITING_FOR_TOOL_CALL"}
    BY <1>12 DEF PromoteBlocked, Promotable
  <2>2. r \in Unfinished
    BY <1>12, <2>1, CandidateQueued DEF QueuedReqs
  <2> QED BY <1>o, <2>1, <2>2 DEF LongOf
<1>13. CASE (StartLoad \/ AdmitCandidate) /\ r = Candidate
  <2>1. Schedulable /\ tokens' = tokens /\ InWaitingLoop
    BY <1>13 DEF StartLoad, AdmitCandidate, Schedulable
  <2>2. r \in Unfinished /\ status[r] \in {"WAITING", "PREEMPTED"} /\ r \in Requests
    BY <1>13, <2>1, NextToAdmit
  <2>3. SUFFICES ASSUME tokens[r] >= MaxModelLen
                 PROVE  LongOf(r)'
    BY <2>1 DEF LongOf
  <2>4. MaxInFlight = 1 /\ computed[r] = tokens[r] - 1 /\ computed[r] # 0
    <3>1. MaxInFlight = 1 /\ computed[r] = tokens[r] - 1
      BY <1>o, <2>2, <2>3 DEF LongOf
    <3> QED BY <1>n, <2>3, <3>1
  <2>5. PICK hit \in SyncHits :
          /\ status' = [status EXCEPT ![r] = "RUNNING"]
          /\ computed' = [computed EXCEPT ![r] = Start(hit)]
          /\ sched' = [sched EXCEPT ![r] = Granted(hit)]
          /\ pc' = pc
    <3>1. ~StartLoad
      BY <1>13, <2>4 DEF StartLoad, AskConnector
    <3> QED BY <1>13, <3>1, Zenon DEF AdmitCandidate
  <2>6. Start(hit) = computed[r]
    BY <1>13, <2>4 DEF Start
  <2>7. Granted(hit) \in Nat /\ Granted(hit) > 0 /\ Start(hit) + Granted(hit) <= tokens[r]
    BY <1>13, <2>1, TokensToAdmit
  <2>8. computed[r] + Granted(hit) = tokens[r]
    BY <1>n, <2>4, <2>6, <2>7
  <2>9. status'[r] = "RUNNING" /\ computed'[r] = computed[r] /\ sched'[r] = Granted(hit)
    BY <1>f, <2>5, <2>6
  <2>10. pc' = "waiting"
    BY <2>1, <2>5 DEF InWaitingLoop
  <2> QED BY <2>1, <2>4, <2>7, <2>8, <2>9, <2>10 DEF LongOf
<1> QED BY <1>2, <1>3, <1>4, <1>5, <1>6, <1>7, <1>8, <1>9, <1>10, <1>11, <1>12, <1>13,
           Touched DEF Answers

------------------------------------------------------------------------------
(* TransferInv and BlocksReclaimed.                                         *)

LEMMA InitTransfers == Init => TransferInv /\ BlocksReclaimed
BY DEF Init, TransferInv, BlocksReclaimed, Unfinished

\* What TransferInv says of one request.
TransferOf(r) ==
  /\ r \in loading => /\ r \in live /\ r \notin sending /\ r \notin finishedRecving
                      /\ status[r] = "WAITING_FOR_REMOTE_KVS" \/ IsFinished(status[r])
  /\ r \in sending => r \in live /\ IsFinished(status[r])
  /\ r \in finishedRecving => r \in live /\ status[r] = "WAITING_FOR_REMOTE_KVS"
  /\ r \in live /\ status[r] = "WAITING_FOR_REMOTE_KVS" =>
        r \in loading \/ r \in finishedRecving

\* What BlocksReclaimed says of one request.
ReclaimOf(r) ==
  blocks[r] > 0 => \/ r \in live /\ ~IsFinished(status[r])
                   \/ r \in live /\ (r \in loading \/ r \in sending)

LEMMA TransferPart ==
  ASSUME TypeOK, TransferInv, NEW r \in Requests
  PROVE  TransferOf(r)
<1>1. ~IsFinished("WAITING_FOR_REMOTE_KVS")
  BY DEF IsFinished, FinishedStatuses
<1> QED BY <1>1 DEF TypeOK, TransferInv, TransferOf, Unfinished

LEMMA TransferFromParts ==
  ASSUME TypeOK', \A r \in Requests : TransferOf(r)'
  PROVE  TransferInv'
<1>1. /\ loading' \subseteq Requests /\ sending' \subseteq Requests
      /\ finishedRecving' \subseteq Requests /\ Unfinished' \subseteq Requests
      /\ live' \subseteq Requests
  BY DEF TypeOK, Unfinished
<1>2. ~IsFinished("WAITING_FOR_REMOTE_KVS")
  BY DEF IsFinished, FinishedStatuses
<1>3. loading' \subseteq live' /\ sending' \subseteq live' /\ loading' \cap sending' = {}
  BY <1>1 DEF TransferOf
<1>4. \A r \in loading' : status'[r] = "WAITING_FOR_REMOTE_KVS" \/ IsFinished(status'[r])
  BY <1>1 DEF TransferOf
<1>5. \A r \in sending' : IsFinished(status'[r])
  BY <1>1 DEF TransferOf
<1>6. \A r \in finishedRecving' : r \in Unfinished' /\ status'[r] = "WAITING_FOR_REMOTE_KVS"
  BY <1>1, <1>2 DEF TransferOf, Unfinished
<1>7. finishedRecving' \cap loading' = {}
  BY <1>1 DEF TransferOf
<1>8. \A r \in Unfinished' :
         status'[r] = "WAITING_FOR_REMOTE_KVS" => r \in loading' \cup finishedRecving'
  BY <1>1 DEF TransferOf, Unfinished
<1> QED BY <1>3, <1>4, <1>5, <1>6, <1>7, <1>8 DEF TransferInv

\* A request that expects no KV transfer and is not finished has none.
LEMMA NoTransfer ==
  ASSUME IInv, NEW r \in Unfinished, status[r] # "WAITING_FOR_REMOTE_KVS"
  PROVE  r \notin loading /\ r \notin sending /\ r \notin finishedRecving
BY DEF IInv, TransferInv, Unfinished

LEMMA StepTransfers ==
  ASSUME IInv, EngineAssumption, [Next]_vars
  PROVE  TransferInv' /\ BlocksReclaimed'
<1> USE DEF queueVars, idVars, tokenVars, sessionVars, kvVars, stepVars, updateVars,
            hookVars, workerVars
<1>1. SUFFICES ASSUME NEW r \in Requests
               PROVE  TransferOf(r)' /\ ReclaimOf(r)'
  <2>1. TypeOK'
    BY StepTypes
  <2>2. BlocksReclaimed'
    BY <1>1 DEF ReclaimOf, BlocksReclaimed, Unfinished
  <2> QED BY <1>1, <2>1, <2>2, TransferFromParts
<1>t. TypeOK
  BY DEF IInv
<1>f. status \in [Requests -> Statuses] /\ blocks \in [Requests -> Nat]
  BY <1>t DEF TypeOK
<1>o. TransferOf(r) /\ ReclaimOf(r)
  BY <1>t, TransferPart DEF IInv, ReclaimOf, BlocksReclaimed, Unfinished
\* Steps after which the request is alive and expects no transfer.
<1>2. ASSUME r \in live', status'[r] # "WAITING_FOR_REMOTE_KVS", ~IsFinished(status'[r]),
             r \notin loading', r \notin sending', r \notin finishedRecving'
      PROVE  TransferOf(r)' /\ ReclaimOf(r)'
  BY <1>2 DEF TransferOf, ReclaimOf
<1>3. CASE Same(r)
  BY <1>3, <1>o DEF Same, TransferOf, ReclaimOf
<1>4. CASE FinishSchedule \/ (ScheduleRunning /\ r = cur)
  <2>1. CASE FinishSchedule
    <3>1. UNCHANGED <<live, status, blocks, loading, sending, finishedRecving>>
      BY <2>1 DEF FinishSchedule
    <3> QED BY <1>o, <3>1 DEF TransferOf, ReclaimOf
  <2>2. CASE ScheduleRunning /\ r = cur
    <3>1. UNCHANGED <<live, status, loading, sending, finishedRecving>> /\ pc = "alloc"
      BY <2>2 DEF ScheduleRunning
    <3>2. r \in Unfinished /\ status[r] = "RUNNING"
      BY <2>2, <3>1 DEF IInv, PlanInv, RunningReqs
    <3>3. r \notin loading /\ r \notin sending /\ r \notin finishedRecving
      BY <3>2, NoTransfer
    <3> QED BY <1>2, <3>1, <3>2, <3>3 DEF Unfinished
  <2> QED BY <1>4, <2>1, <2>2
<1>5. CASE (PreemptVictim \/ ResetPreempt) /\ PreemptRequest(r) /\ r \in RunningReqs
  <2>1. /\ UNCHANGED <<live, loading, sending, finishedRecving>> /\ status'[r] = "PREEMPTED"
        /\ r \in Unfinished /\ status[r] = "RUNNING"
    BY <1>5, <1>f DEF PreemptVictim, ResetPreempt, PreemptRequest, RunningReqs
  <2> QED BY <1>2, <2>1, NoTransfer DEF Unfinished, IsFinished, FinishedStatuses
<1>6. CASE PromoteBlocked /\ r = Candidate
  <2>1. /\ InWaitingLoop /\ UNCHANGED <<live, loading, sending>>
        /\ Promotable(r) /\ status'[r] \in {"WAITING", "PREEMPTED"}
        /\ finishedRecving' = IF status[r] = "WAITING_FOR_REMOTE_KVS"
                              THEN finishedRecving \ {r} ELSE finishedRecving
    BY <1>6, <1>f DEF PromoteBlocked
  <2>2. r \in Unfinished
    BY <1>6, <2>1, CandidateQueued DEF QueuedReqs
  <2>3. r \notin loading /\ r \notin sending /\ r \notin finishedRecving'
    <3>1. CASE status[r] = "WAITING_FOR_REMOTE_KVS"
      BY <1>o, <2>1, <2>2, <3>1 DEF TransferOf, Promotable, Unfinished
    <3>2. CASE status[r] # "WAITING_FOR_REMOTE_KVS"
      BY <2>1, <2>2, <3>2, NoTransfer
    <3> QED BY <3>1, <3>2
  <2> QED BY <1>2, <2>1, <2>2, <2>3 DEF Unfinished, IsFinished, FinishedStatuses
<1>7. CASE (StartLoad \/ AdmitCandidate) /\ r = Candidate
  <2>1. Schedulable /\ UNCHANGED <<live, sending, finishedRecving>>
    BY <1>7 DEF StartLoad, AdmitCandidate
  <2>2. /\ r \in Unfinished /\ status[r] \in {"WAITING", "PREEMPTED"}
        /\ r \notin loading /\ r \notin sending /\ r \notin finishedRecving
    BY <1>7, <2>1, NextToAdmit, NoTransfer
  <2>3. CASE StartLoad
    <3>1. loading' = loading \cup {r} /\ status'[r] = "WAITING_FOR_REMOTE_KVS"
      BY <1>7, <1>f, <2>3 DEF StartLoad
    <3> QED BY <2>1, <2>2, <3>1 DEF TransferOf, ReclaimOf, Unfinished
  <2>4. CASE AdmitCandidate
    <3>1. loading' = loading /\ \E s \in {"RUNNING"} : status' = [status EXCEPT ![r] = s]
      BY <1>7, <2>4 DEF AdmitCandidate
    <3>2. status'[r] = "RUNNING"
      BY <1>f, <3>1
    <3> QED BY <1>2, <2>1, <2>2, <3>1, <3>2 DEF Unfinished, IsFinished, FinishedStatuses
  <2> QED BY <1>7, <2>3, <2>4
<1>8. ASSUME GetsToken(r)
      PROVE  /\ r \in Unfinished /\ r \in live /\ status[r] \in {"RUNNING", "PREEMPTED"}
             /\ r \notin loading /\ r \notin sending /\ r \notin finishedRecving
  <2>1. r \in Unfinished /\ r \in live /\ status[r] \in {"RUNNING", "PREEMPTED"}
    BY <1>8, SampledRequest
  <2> QED BY <2>1, NoTransfer
<1>9. CASE KeepGoing(r) \/ ContinueSession(r) \/ AwaitSession(r) \/ CallTool(r)
  <2>1. /\ GetsToken(r) /\ UNCHANGED <<live, loading, sending, finishedRecving>>
        /\ \/ status' = status
           \/ \E s \in {"WAITING", "WAITING_FOR_STREAMING_REQ", "WAITING_FOR_TOOL_CALL"} :
                 status' = [status EXCEPT ![r] = s]
    BY <1>9 DEF KeepGoing, ContinueSession, AwaitSession, CallTool, UpdateRequestAsSession
  <2>2. status'[r] \in {"RUNNING", "PREEMPTED", "WAITING", "WAITING_FOR_STREAMING_REQ",
                        "WAITING_FOR_TOOL_CALL"}
    BY <1>f, <1>8, <2>1
  <2> QED BY <1>2, <1>8, <2>1, <2>2 DEF IsFinished, FinishedStatuses
<1>10. ASSUME NEW delay, FreeRequest(r, delay), delay \in BOOLEAN,
              status'[r] \in FinishedStatuses,
              loading' = loading, r \notin finishedRecving', r \in live,
              r \notin sending, delay <=> r \in loading
       PROVE  TransferOf(r)' /\ ReclaimOf(r)'
  <2>1. PICK sends \in {FALSE, ConnectorMayDelay(r)} :
           /\ sending' = IF sends THEN sending \cup {r} ELSE sending
           /\ IF delay \/ sends THEN UNCHANGED <<kvVars, live>>
              ELSE Free(r) /\ live' = live \ {r}
    BY <1>10 DEF FreeRequest
  <2>2. IsFinished(status'[r]) /\ status'[r] # "WAITING_FOR_REMOTE_KVS"
    BY <1>10 DEF IsFinished, FinishedStatuses
  <2>3. CASE sends
    <3>1. r \notin loading /\ r \in sending' /\ live' = live
      BY <2>1, <2>3 DEF ConnectorMayDelay
    <3> QED BY <1>10, <2>2, <3>1 DEF TransferOf, ReclaimOf
  <2>4. CASE ~sends /\ r \in loading
    <3>1. r \notin sending' /\ live' = live
      BY <1>10, <2>1, <2>4
    <3> QED BY <1>10, <2>2, <2>4, <3>1 DEF TransferOf, ReclaimOf
  <2>5. CASE ~sends /\ r \notin loading
    <3>1. r \notin sending' /\ r \notin live' /\ blocks'[r] = 0
      BY <1>f, <1>10, <2>1, <2>5 DEF Free
    <3> QED BY <1>10, <2>2, <2>5, <3>1 DEF TransferOf, ReclaimOf
  <2> QED BY <2>3, <2>4, <2>5
<1>11. CASE FinishStopped(r)
  <2>1. /\ GetsToken(r) /\ FreeRequest(r, FALSE) /\ UNCHANGED <<loading, finishedRecving>>
        /\ \E s \in StopStatuses(r) : status' = [status EXCEPT ![r] = s]
    BY <1>11 DEF FinishStopped
  <2>2. status'[r] \in FinishedStatuses
    BY <1>f, <2>1 DEF StopStatuses, FinishedStatuses
  <2> QED BY <1>8, <1>10, <2>1, <2>2
<1>12. CASE AbortRequest(r) \/ CloseSession(r)
  <2>1. FinishRequest(r)
    BY <1>12 DEF AbortRequest, CloseSession
  <2>2. /\ r \in live /\ ~IsFinished(status[r]) /\ FreeRequest(r, LoadsIntoBlocks(r))
        /\ loading' = loading /\ finishedRecving' = finishedRecving \ {r}
        /\ status' = [status EXCEPT ![r] = "FINISHED_ABORTED"]
    BY <2>1 DEF FinishRequest
  <2>3. status'[r] \in FinishedStatuses
    BY <1>f, <2>2 DEF FinishedStatuses
  <2>4. r \notin sending /\ (LoadsIntoBlocks(r) <=> r \in loading)
    BY <1>o, <2>2 DEF TransferOf, LoadsIntoBlocks
  <2>5. LoadsIntoBlocks(r) \in BOOLEAN
    BY DEF LoadsIntoBlocks
  <2> QED BY <1>10, <2>2, <2>3, <2>4, <2>5
<1>13. CASE StartNextChunk(r)
  <2>1. /\ UNCHANGED <<live, loading, sending, finishedRecving>> /\ r \in live
        /\ status[r] = "WAITING_FOR_STREAMING_REQ" /\ status'[r] = "WAITING"
    BY <1>13, <1>f DEF StartNextChunk, UpdateRequestAsSession
  <2>2. r \in Unfinished
    BY <2>1 DEF Unfinished, IsFinished, FinishedStatuses
  <2> QED BY <1>2, <2>1, <2>2, NoTransfer DEF IsFinished, FinishedStatuses
<1>14. CASE QueueUpdate(r, "chunk") \/ QueueUpdate(r, "end")
  <2>1. UNCHANGED <<live, status, blocks, loading, sending, finishedRecving>>
    BY <1>14 DEF QueueUpdate
  <2> QED BY <1>o, <2>1 DEF TransferOf, ReclaimOf
<1>15. CASE AddRequest(r)
  <2>1. /\ UNCHANGED <<loading, sending, finishedRecving>> /\ r \notin arrived
        /\ live' = live \cup {r}
        /\ status'[r] \in {"WAITING", "WAITING_FOR_STRUCTURED_OUTPUT_GRAMMAR"}
    BY <1>15, <1>f DEF AddRequest
  <2>2. r \notin live
    BY <1>t, <2>1 DEF TypeOK
  <2> QED BY <1>2, <1>o, <2>1, <2>2 DEF TransferOf, IsFinished, FinishedStatuses
<1>16. CASE FinishedRecving(r)
  <2>1. /\ r \in loading /\ r \in live /\ loading' = loading \ {r}
        /\ UNCHANGED <<status, sending>> /\ LoadEnds(r)
    BY <1>16 DEF FinishedRecving
  <2>2. CASE status[r] = "WAITING_FOR_REMOTE_KVS"
    <3>1. r \in finishedRecving' /\ live' = live
      BY <2>1, <2>2 DEF LoadEnds
    <3> QED BY <1>o, <2>1, <2>2, <3>1 DEF TransferOf, ReclaimOf, IsFinished, FinishedStatuses
  <2>3. CASE status[r] # "WAITING_FOR_REMOTE_KVS"
    <3>1. /\ IsFinished(status[r]) /\ blocks'[r] = 0 /\ r \notin live'
          /\ finishedRecving' = finishedRecving
      BY <1>f, <2>1, <2>3 DEF LoadEnds, Free
    <3> QED BY <1>o, <2>1, <2>3, <3>1 DEF TransferOf, ReclaimOf
  <2> QED BY <2>2, <2>3
<1>17. CASE FinishedSending(r)
  <2>1. /\ r \in sending /\ r \in live /\ sending' = sending \ {r} /\ blocks'[r] = 0
        /\ r \notin live' /\ UNCHANGED <<status, loading, finishedRecving>>
    BY <1>f, <1>17 DEF FinishedSending, Free
  <2>2. IsFinished(status[r]) /\ status[r] # "WAITING_FOR_REMOTE_KVS"
    BY <1>o, <2>1 DEF TransferOf, IsFinished, FinishedStatuses
  <2>3. r \notin loading /\ r \notin finishedRecving
    BY <1>o, <2>1, <2>2 DEF TransferOf
  <2> QED BY <2>1, <2>3 DEF TransferOf, ReclaimOf
<1> QED BY <1>3, <1>4, <1>5, <1>6, <1>7, <1>9, <1>11, <1>12, <1>13, <1>14, <1>15, <1>16,
           <1>17, Touched

------------------------------------------------------------------------------
(* PoolInv and ComputedTokensHaveBlocks.                                    *)

LEMMA PoolKept ==
  ASSUME PoolInv, UNCHANGED <<blocks, freeBlocks>>
  PROVE  PoolInv'
BY DEF PoolInv, OwnedBy

LEMMA FreeRequestKeepsPool ==
  ASSUME TypeOK, PoolInv, NEW r \in Requests, NEW delay, FreeRequest(r, delay)
  PROVE  PoolInv'
<1>1. UNCHANGED <<blocks, freeBlocks>> \/ Free(r)
  BY DEF FreeRequest, kvVars
<1> QED BY <1>1, PoolKept, FreeKeepsPool

LEMMA StepPoolInv ==
  ASSUME IInv, [Next]_vars
  PROVE  PoolInv'
<1> USE DEF queueVars, idVars, tokenVars, sessionVars, kvVars, stepVars, updateVars,
            hookVars, workerVars
<1>t. TypeOK /\ PoolInv
  BY DEF IInv
<1>1. CASE Quiet
  BY <1>1, <1>t, QuietFrame, PoolKept DEF quietVars
<1>2. CASE SkipStep \/ PromoteBlocked \/ FinishSchedule \/ RemoveStoppedRunning
           \/ RemoveStoppedPreempted \/ EndRemoval
  <2>1. UNCHANGED <<blocks, freeBlocks>>
    BY <1>2 DEF SkipStep, SkipBlocked, SkipForLora, SkipForConnector, SkipCandidate,
       PromoteBlocked, FinishSchedule, RemoveStoppedRunning, RemoveStoppedPreempted, EndRemoval
  <2> QED BY <1>t, <2>1, PoolKept
<1>3. CASE ScheduleRunning
  <2>1. /\ pc = "alloc" /\ CurFits
        /\ Allocate(cur, Least(computed[cur] + numNew, MaxModelLen))
    BY <1>3 DEF ScheduleRunning
  <2>2. cur \in Requests
    BY <1>t, <2>1 DEF IInv, PlanInv, RunningReqs, Unfinished, TypeOK
  <2>3. Least(computed[cur] + numNew, MaxModelLen) \in Nat
    <3>1. computed[cur] \in Nat /\ numNew \in Nat /\ MaxModelLen \in Nat
      BY <1>t, <2>2, SchedulerAssumption DEF TypeOK
    <3> QED BY <3>1 DEF Least
  <2> QED BY <1>t, <2>1, <2>2, <2>3, AllocateKeepsPool DEF CurFits
<1>4. CASE PreemptVictim
  <2>1. \E i \in 1..Len(running) : PreemptRequest(running[i]) /\ running[i] \in Requests
    BY <1>4, VictimFacts
  <2> QED BY <1>t, <2>1, FreeKeepsPool DEF PreemptRequest
<1>5. CASE ResetPreempt
  <2>1. running # <<>> /\ PreemptRequest(running[Len(running)])
    BY <1>5 DEF ResetPreempt
  <2>2. running[Len(running)] \in Requests
    BY <1>t, <2>1, EmptySeq, ElementOfSeq DEF TypeOK
  <2> QED BY <1>t, <2>1, <2>2, FreeKeepsPool DEF PreemptRequest
<1>6. ASSUME Schedulable, NEW n \in Nat, Fits(Candidate, n), Allocate(Candidate, n)
      PROVE  PoolInv'
  <2>1. Candidate \in Requests
    BY <1>6, CandidateQueued DEF Schedulable
  <2> QED BY <1>t, <1>6, <2>1, AllocateKeepsPool DEF Fits
<1>7. CASE StartLoad
  <2>1. /\ Schedulable /\ Fits(Candidate, prompt[Candidate])
        /\ Allocate(Candidate, prompt[Candidate])
    BY <1>7 DEF StartLoad
  <2> QED BY <1>6, <2>1, NextToAdmit
<1>8. CASE AdmitCandidate
  <2>1. PICK hit \in SyncHits : /\ Fits(Candidate, Start(hit) + Granted(hit))
                                /\ Allocate(Candidate, Start(hit) + Granted(hit))
    BY <1>8, Zenon DEF AdmitCandidate
  <2>2. Schedulable
    BY <1>8 DEF AdmitCandidate
  <2>3. Start(hit) + Granted(hit) \in Nat
    BY <2>2, TokensToAdmit
  <2> QED BY <1>6, <2>1, <2>2, <2>3
<1>9. ASSUME NEW r \in Requests,
             \/ KeepGoing(r) \/ ContinueSession(r) \/ AwaitSession(r) \/ CallTool(r)
             \/ AddRequest(r) \/ StartNextChunk(r)
             \/ QueueUpdate(r, "chunk") \/ QueueUpdate(r, "end")
      PROVE  PoolInv'
  <2>1. UNCHANGED <<blocks, freeBlocks>>
    BY <1>9 DEF KeepGoing, ContinueSession, AwaitSession, CallTool, AddRequest,
       StartNextChunk, QueueUpdate
  <2> QED BY <1>t, <2>1, PoolKept
<1>10. ASSUME NEW r \in Requests, FinishStopped(r) \/ AbortRequest(r) \/ CloseSession(r)
       PROVE  PoolInv'
  <2>1. \E delay : FreeRequest(r, delay)
    BY <1>10 DEF FinishStopped, AbortRequest, CloseSession, FinishRequest
  <2> QED BY <1>t, <2>1, FreeRequestKeepsPool
<1>11. ASSUME NEW r \in Requests, FinishedRecving(r) \/ FinishedSending(r)
       PROVE  PoolInv'
  <2>1. UNCHANGED <<blocks, freeBlocks>> \/ Free(r)
    BY <1>11 DEF FinishedRecving, FinishedSending, LoadEnds
  <2> QED BY <1>t, <2>1, PoolKept, FreeKeepsPool
<1> QED BY <1>1, <1>2, <1>3, <1>4, <1>5, <1>7, <1>8, <1>9, <1>10, <1>11, StepCases

LEMMA InitComputedTokensHaveBlocks == Init => ComputedTokensHaveBlocks
BY DEF Init, ComputedTokensHaveBlocks, Unfinished

\* What allocate_slots gives is enough.
LEMMA AllocateCovers ==
  ASSUME TypeOK, NEW r \in Requests, NEW n \in Nat, Allocate(r, n)
  PROVE  BlocksFor(n) <= blocks'[r]
<1>1. BlocksFor(n) \in Nat
  BY BlocksForNat
<1>2. blocks \in [Requests -> Nat] /\ blocks[r] \in Nat
  BY DEF TypeOK
<1>3. blocks'[r] = blocks[r] + Shortage(r, n)
  BY <1>2 DEF Allocate
<1>4. CASE BlocksFor(n) > blocks[r]
  BY <1>1, <1>2, <1>3, <1>4 DEF Shortage
<1>5. CASE ~(BlocksFor(n) > blocks[r])
  BY <1>1, <1>2, <1>3, <1>5 DEF Shortage
<1> QED BY <1>4, <1>5

LEMMA StepComputedTokensHaveBlocks ==
  ASSUME IInv, EngineAssumption, [Next]_vars
  PROVE  ComputedTokensHaveBlocks'
<1> USE DEF queueVars, idVars, tokenVars, sessionVars, kvVars, stepVars, updateVars,
            hookVars, workerVars
<1>1. SUFFICES ASSUME NEW r \in Requests, r \in Unfinished'
               PROVE  BlocksFor(computed'[r] + sched'[r]) <= blocks'[r]
  <2>1. Unfinished' \subseteq Requests
    <3>1. TypeOK'
      BY StepTypes
    <3> QED BY <3>1 DEF TypeOK, Unfinished
  <2> QED BY <1>1, <2>1 DEF ComputedTokensHaveBlocks, BlocksFor
<1>t. TypeOK
  BY DEF IInv
<1>f. /\ status \in [Requests -> Statuses] /\ computed \in [Requests -> Nat]
      /\ sched \in [Requests -> Nat] /\ blocks \in [Requests -> Nat]
  BY <1>t DEF TypeOK
<1>n. computed[r] \in Nat /\ sched[r] \in Nat /\ tokens[r] \in Nat /\ MaxModelLen \in Nat
  BY <1>t, RequestNumbers
<1>2. ASSUME r \in Unfinished, computed'[r] + sched'[r] = computed[r] + sched[r],
             blocks'[r] = blocks[r]
      PROVE  BlocksFor(computed'[r] + sched'[r]) <= blocks'[r]
  BY <1>2 DEF IInv, ComputedTokensHaveBlocks
<1>3. CASE Same(r)
  <2>1. r \in Unfinished
    BY <1>1, <1>3 DEF Same, Unfinished
  <2> QED BY <1>2, <1>3, <2>1 DEF Same
<1>4. CASE FinishSchedule
  <2>1. /\ computed' = [q \in Requests |-> computed[q] + sched[q]]
        /\ sched' = [q \in Requests |-> 0] /\ UNCHANGED <<live, status, blocks>>
    BY <1>4 DEF FinishSchedule, ComputedAfterSchedule
  <2>2. computed'[r] + sched'[r] = computed[r] + sched[r]
    BY <1>n, <2>1
  <2> QED BY <1>1, <1>2, <2>1, <2>2 DEF Unfinished
<1>5. CASE ScheduleRunning /\ r = cur
  <2>1. /\ Allocate(r, Least(computed[r] + numNew, MaxModelLen))
        /\ computed' = computed /\ sched'[r] = numNew /\ pc = "alloc"
    BY <1>5, <1>f DEF ScheduleRunning
  <2>2. /\ cur \in RunningReqs /\ computed[r] + numNew <= tokens[r] /\ numNew \in Nat
    BY <1>5, <2>1 DEF IInv, PlanInv, TypeOK
  <2>3. tokens[r] < MaxModelLen
    BY <1>5, <2>1, <2>2, RunnersFit DEF InRunningPhase
  <2>4. Least(computed[r] + numNew, MaxModelLen) = computed[r] + numNew
    BY <1>n, <2>2, <2>3 DEF Least
  <2> QED BY <1>t, <1>n, <2>1, <2>2, <2>4, AllocateCovers
<1>6. CASE (PreemptVictim \/ ResetPreempt) /\ PreemptRequest(r) /\ sched'[r] = 0
  <2>1. computed'[r] = 0 /\ blocks'[r] = 0
    BY <1>6, <1>f DEF PreemptRequest, Free
  <2> QED BY <1>6, <2>1, BlocksForZero
<1>7. ASSUME ResetPreempt
      PROVE  sched'[r] = 0
  BY <1>n, <1>7 DEF ResetPreempt, IInv, AtRest, Planning, Scheduled
<1>8. CASE PromoteBlocked /\ r = Candidate
  <2>1. /\ InWaitingLoop /\ UNCHANGED <<sched, blocks>>
        /\ \/ computed' = computed
           \/ computed[r] = tokens[r] /\ computed' = [computed EXCEPT ![r] = @ - 1]
    BY <1>8 DEF PromoteBlocked
  <2>2. r \in Unfinished
    BY <1>8, <2>1, CandidateQueued DEF QueuedReqs
  <2>3. tokens[r] > 0
    <3>1. prompt[r] \in Nat /\ output[r] \in Nat /\ prompt[r] > 0 /\ tokens[r] = prompt[r] + output[r]
      BY <1>t DEF IInv, LengthInv, TypeOK
    <3> QED BY <3>1
  <2>4. computed'[r] \in Nat /\ computed'[r] <= computed[r]
    BY <1>f, <1>n, <2>1, <2>3
  <2>5. /\ computed'[r] + sched'[r] \in Nat /\ computed[r] + sched[r] \in Nat
        /\ computed'[r] + sched'[r] <= computed[r] + sched[r]
    BY <1>n, <2>1, <2>4
  <2>6. BlocksFor(computed'[r] + sched'[r]) <= BlocksFor(computed[r] + sched[r])
    BY <2>5, BlocksForMonotone
  <2>7. BlocksFor(computed[r] + sched[r]) <= blocks[r]
    BY <2>2 DEF IInv, ComputedTokensHaveBlocks
  <2>8. /\ BlocksFor(computed'[r] + sched'[r]) \in Nat
        /\ BlocksFor(computed[r] + sched[r]) \in Nat /\ blocks[r] \in Nat
    BY <1>f, <2>5, BlocksForNat
  <2> QED BY <2>1, <2>6, <2>7, <2>8
<1>9. CASE StartLoad /\ r = Candidate
  <2>1. /\ Schedulable /\ Allocate(r, prompt[r]) /\ sched' = sched /\ computed'[r] = prompt[r]
    BY <1>9, <1>f DEF StartLoad
  <2>2. sched[r] = 0 /\ prompt[r] \in Nat
    BY <1>9, <2>1, NextToAdmit
  <2>3. BlocksFor(prompt[r]) <= blocks'[r]
    BY <1>t, <2>1, <2>2, AllocateCovers
  <2> QED BY <2>1, <2>2, <2>3
<1>10. CASE AdmitCandidate /\ r = Candidate
  <2>1. PICK hit \in SyncHits : /\ Allocate(r, Start(hit) + Granted(hit))
                                /\ computed' = [computed EXCEPT ![r] = Start(hit)]
                                /\ sched' = [sched EXCEPT ![r] = Granted(hit)]
    BY <1>10, Zenon DEF AdmitCandidate
  <2>2. Schedulable
    BY <1>10 DEF AdmitCandidate
  <2>3. Start(hit) + Granted(hit) \in Nat
    BY <2>2, TokensToAdmit
  <2>4. BlocksFor(Start(hit) + Granted(hit)) <= blocks'[r]
    BY <1>t, <2>1, <2>3, AllocateCovers
  <2>5. computed'[r] = Start(hit) /\ sched'[r] = Granted(hit)
    BY <1>f, <2>1
  <2> QED BY <2>4, <2>5
<1>11. CASE KeepGoing(r) \/ ContinueSession(r) \/ AwaitSession(r) \/ CallTool(r)
  <2>1. GetsToken(r) /\ UNCHANGED <<computed, sched, blocks>>
    BY <1>11 DEF KeepGoing, ContinueSession, AwaitSession, CallTool
  <2>2. r \in Unfinished
    BY <2>1, SampledRequest
  <2> QED BY <1>2, <2>1, <2>2
<1>12. CASE FinishStopped(r) \/ AbortRequest(r) \/ CloseSession(r)
  <2>1. status'[r] \in FinishedStatuses
    BY <1>f, <1>12 DEF FinishStopped, StopStatuses, FinishedStatuses, AbortRequest,
       CloseSession, FinishRequest
  <2> QED BY <1>1, <2>1 DEF Unfinished, IsFinished
<1>13. CASE \/ StartNextChunk(r) \/ QueueUpdate(r, "chunk") \/ QueueUpdate(r, "end")
  <2>1. UNCHANGED <<computed, sched, blocks>> /\ r \in Unfinished
    <3>1. CASE StartNextChunk(r)
      BY <3>1, NextChunkTokens DEF StartNextChunk
    <3>2. CASE QueueUpdate(r, "chunk") \/ QueueUpdate(r, "end")
      BY <1>1, <3>2 DEF QueueUpdate, Unfinished
    <3> QED BY <1>13, <3>1, <3>2
  <2> QED BY <1>2, <2>1
<1>14. CASE FinishedRecving(r) \/ FinishedSending(r)
  <2>1. UNCHANGED <<status, computed, sched>>
        /\ (UNCHANGED <<live, blocks>> \/ live' = live \ {r})
    BY <1>14 DEF FinishedRecving, FinishedSending, LoadEnds
  <2>2. UNCHANGED <<live, blocks>>
    BY <1>1, <2>1 DEF Unfinished
  <2> QED BY <1>1, <1>2, <2>1, <2>2 DEF Unfinished
<1>15. CASE AddRequest(r)
  <2>1. UNCHANGED <<computed, sched, blocks>> /\ r \notin arrived /\ pc = "idle"
    BY <1>15 DEF AddRequest, BetweenSteps
  <2>2. computed[r] = 0 /\ blocks[r] = 0
    BY <2>1 DEF IInv, NewcomersInv
  <2>3. sched[r] = 0
    BY <1>n, <2>1 DEF IInv, AtRest, Planning, Scheduled
  <2> QED BY <2>1, <2>2, <2>3, BlocksForZero
<1> QED BY <1>3, <1>4, <1>5, <1>6, <1>7, <1>8, <1>9, <1>10, <1>11, <1>12, <1>13, <1>14,
           <1>15, Touched

------------------------------------------------------------------------------
(* StreamingInv.                                                            *)

LEMMA InitStreamingInv == Init => StreamingInv
<1> SUFFICES ASSUME Init PROVE StreamingInv
  OBVIOUS
<1>1. numWaitingStreaming = 0 /\ StreamingReqs = {}
  BY DEF Init, StreamingReqs, Unfinished
<1> QED BY <1>1, FS_EmptySet DEF StreamingInv

\* The queues are finite, and with them the requests in them.
LEMMA QueuedFinite ==
  ASSUME IInv
  PROVE  /\ IsFiniteSet(QueuedReqs) /\ IsFiniteSet(StreamingReqs)
         /\ StreamingReqs \subseteq QueuedReqs
<1>1. /\ waiting \in Seq(Requests) /\ skipped \in Seq(Requests) /\ stepSkipped \in Seq(Requests)
      /\ NoDuplicates(waiting) /\ NoDuplicates(skipped) /\ NoDuplicates(stepSkipped)
      /\ (Members(waiting) \ stoppedPreempted) \cup Members(skipped) \cup Members(stepSkipped)
           = QueuedReqs
  BY DEF IInv, TypeOK, QueueInv
<1>2. IsFiniteSet(Members(waiting)) /\ IsFiniteSet(Members(skipped)) /\ IsFiniteSet(Members(stepSkipped))
  BY <1>1, QueueLength
<1>3. IsFiniteSet(Members(waiting) \ stoppedPreempted)
  BY <1>2, FS_Subset
<1>4. IsFiniteSet((Members(waiting) \ stoppedPreempted) \cup Members(skipped))
  BY <1>2, <1>3, FS_Union
<1>5. IsFiniteSet(QueuedReqs)
  BY <1>1, <1>2, <1>4, FS_Union
<1>6. StreamingReqs \subseteq QueuedReqs
  BY DEF StreamingReqs, QueuedReqs, QueuedStatuses, BlockedStatuses
<1> QED BY <1>5, <1>6, FS_Subset

\* Steps that leave the waiting sessions alone.
LEMMA StreamingSame ==
  ASSUME IInv, EngineAssumption, [Next]_vars,
         \A r \in Requests : ~(AwaitSession(r) \/ StartNextChunk(r) \/ AbortRequest(r) \/ CloseSession(r))
  PROVE  numWaitingStreaming' = numWaitingStreaming /\ StreamingReqs' = StreamingReqs
<1> USE DEF queueVars, idVars, tokenVars, sessionVars, kvVars, stepVars, updateVars,
            hookVars, workerVars
<1>t. TypeOK
  BY DEF IInv
<1>1. numWaitingStreaming' = numWaitingStreaming
  <2>1. CASE Quiet
    BY <2>1, QuietFrame DEF quietVars
  <2>2. CASE ScheduleRunning \/ PreemptVictim \/ SkipStep \/ PromoteBlocked \/ StartLoad
             \/ AdmitCandidate \/ FinishSchedule
    BY <2>2 DEF ScheduleRunning, PreemptVictim, SkipStep, SkipBlocked, SkipForLora,
       SkipForConnector, SkipCandidate, PromoteBlocked, StartLoad, AdmitCandidate, FinishSchedule
  <2>3. CASE RemoveStoppedRunning \/ RemoveStoppedPreempted \/ EndRemoval \/ ResetPreempt
    BY <2>3 DEF RemoveStoppedRunning, RemoveStoppedPreempted, EndRemoval, ResetPreempt
  <2>4. ASSUME NEW r \in Requests,
               \/ KeepGoing(r) \/ FinishStopped(r) \/ ContinueSession(r) \/ CallTool(r)
               \/ FinishedRecving(r) \/ FinishedSending(r) \/ AddRequest(r)
               \/ QueueUpdate(r, "chunk") \/ QueueUpdate(r, "end")
        PROVE  numWaitingStreaming' = numWaitingStreaming
    BY <2>4 DEF KeepGoing, FinishStopped, ContinueSession, CallTool, FinishedRecving,
       FinishedSending, AddRequest, QueueUpdate
  <2> QED BY <2>1, <2>2, <2>3, <2>4, StepCases
<1> DEFINE Streams(r) == r \in live /\ status[r] = "WAITING_FOR_STREAMING_REQ"
<1>2. /\ StreamingReqs = {r \in live : status[r] = "WAITING_FOR_STREAMING_REQ"}
      /\ StreamingReqs' = {r \in live' : status'[r] = "WAITING_FOR_STREAMING_REQ"}
  BY DEF StreamingReqs, Unfinished, IsFinished, FinishedStatuses
<1>3. live \subseteq Requests /\ live' \subseteq Requests
  <2>1. TypeOK'
    BY StepTypes
  <2> QED BY <1>t, <2>1 DEF TypeOK
<1>4. SUFFICES ASSUME NEW r \in Requests
               PROVE  Streams(r)' <=> Streams(r)
  BY <1>1, <1>2, <1>3
<1>f. status \in [Requests -> Statuses]
  BY <1>t DEF TypeOK
<1>5. CASE Same(r)
  BY <1>5 DEF Same
<1>6. CASE FinishSchedule \/ (ScheduleRunning /\ r = cur)
  BY <1>6 DEF FinishSchedule, ScheduleRunning
<1>7. CASE (PreemptVictim \/ ResetPreempt) /\ PreemptRequest(r) /\ r \in RunningReqs
  BY <1>7, <1>f DEF PreemptVictim, ResetPreempt, PreemptRequest, RunningReqs
<1>8. CASE PromoteBlocked /\ r = Candidate
  BY <1>8, <1>f DEF PromoteBlocked, Promotable
<1>9. CASE (StartLoad \/ AdmitCandidate) /\ r = Candidate
  <2>1. /\ Schedulable
        /\ \E s \in {"WAITING_FOR_REMOTE_KVS", "RUNNING"} : status' = [status EXCEPT ![r] = s]
    BY <1>9 DEF StartLoad, AdmitCandidate
  <2>2. status[r] \in {"WAITING", "PREEMPTED"}
    BY <1>9, <2>1, NextToAdmit
  <2> QED BY <1>f, <2>1, <2>2
<1>10. CASE KeepGoing(r) \/ FinishStopped(r) \/ ContinueSession(r) \/ CallTool(r)
  <2>1. /\ GetsToken(r)
        /\ \/ status' = status
           \/ \E s \in {"WAITING", "WAITING_FOR_TOOL_CALL", "FINISHED_STOPPED",
                        "FINISHED_LENGTH_CAPPED", "FINISHED_ERROR"} :
                 status' = [status EXCEPT ![r] = s]
    BY <1>10 DEF KeepGoing, FinishStopped, StopStatuses, ContinueSession, CallTool,
       UpdateRequestAsSession
  <2>2. status[r] \in {"RUNNING", "PREEMPTED"}
    BY <2>1, SampledRequest
  <2> QED BY <1>f, <2>1, <2>2
<1>11. CASE FinishedRecving(r) \/ FinishedSending(r)
  <2>1. status' = status /\ (live' = live \/ (live' = live \ {r} /\ IsFinished(status[r])))
    <3>1. CASE FinishedRecving(r)
      BY <3>1 DEF FinishedRecving, LoadEnds
    <3>2. CASE FinishedSending(r)
      BY <3>2 DEF FinishedSending, IInv, TransferInv
    <3> QED BY <1>11, <3>1, <3>2
  <2> QED BY <2>1 DEF IsFinished, FinishedStatuses
<1>12. CASE AddRequest(r)
  <2>1. /\ r \notin arrived
        /\ status'[r] \in {"WAITING", "WAITING_FOR_STRUCTURED_OUTPUT_GRAMMAR"}
    BY <1>12, <1>f DEF AddRequest
  <2> QED BY <1>t, <2>1 DEF TypeOK
<1>13. CASE QueueUpdate(r, "chunk") \/ QueueUpdate(r, "end")
  BY <1>13 DEF QueueUpdate
<1> QED BY <1>5, <1>6, <1>7, <1>8, <1>9, <1>10, <1>11, <1>12, <1>13, Touched

LEMMA StepStreamingInv ==
  ASSUME IInv, EngineAssumption, [Next]_vars
  PROVE  StreamingInv'
<1> USE DEF queueVars, idVars, tokenVars, sessionVars, kvVars, stepVars, updateVars,
            hookVars, workerVars
<1>t. /\ TypeOK /\ status \in [Requests -> Statuses] /\ numWaitingStreaming \in Int
      /\ live \subseteq Requests
  BY DEF IInv, TypeOK
<1>c. /\ numWaitingStreaming = Cardinality(StreamingReqs) /\ IsFiniteSet(StreamingReqs)
      /\ Cardinality(StreamingReqs) \in Nat
  BY QueuedFinite, FS_CardinalityType DEF IInv, StreamingInv
<1>1. CASE \A r \in Requests :
             ~(AwaitSession(r) \/ StartNextChunk(r) \/ AbortRequest(r) \/ CloseSession(r))
  BY <1>1, <1>c, StreamingSame DEF StreamingInv
<1>2. ASSUME NEW r \in Requests, AwaitSession(r)
      PROVE  StreamingInv'
  <2>1. /\ GetsToken(r) /\ numWaitingStreaming' = numWaitingStreaming + 1 /\ live' = live
        /\ status' = [status EXCEPT ![r] = "WAITING_FOR_STREAMING_REQ"]
    BY <1>2 DEF AwaitSession
  <2>2. r \in live /\ status[r] \in {"RUNNING", "PREEMPTED"}
    BY <2>1, SampledRequest
  <2>3. StreamingReqs' = StreamingReqs \cup {r} /\ r \notin StreamingReqs
    BY <1>t, <2>1, <2>2 DEF StreamingReqs, Unfinished, IsFinished, FinishedStatuses
  <2> QED BY <1>c, <2>1, <2>3, FS_AddElement DEF StreamingInv
<1>3. ASSUME NEW r \in Requests, StartNextChunk(r)
      PROVE  StreamingInv'
  <2>1. /\ numWaitingStreaming' = numWaitingStreaming - 1 /\ live' = live /\ r \in live
        /\ status[r] = "WAITING_FOR_STREAMING_REQ" /\ status' = [status EXCEPT ![r] = "WAITING"]
    BY <1>3 DEF StartNextChunk, UpdateRequestAsSession, OneLessStreaming
  <2>2. StreamingReqs' = StreamingReqs \ {r} /\ r \in StreamingReqs
    BY <1>t, <2>1 DEF StreamingReqs, Unfinished, IsFinished, FinishedStatuses
  <2> QED BY <1>c, <2>1, <2>2, FS_RemoveElement DEF StreamingInv
<1>4. ASSUME NEW r \in Requests, AbortRequest(r) \/ CloseSession(r)
      PROVE  StreamingInv'
  <2>1. FinishRequest(r)
    BY <1>4 DEF AbortRequest, CloseSession
  <2>2. /\ r \in Unfinished /\ status' = [status EXCEPT ![r] = "FINISHED_ABORTED"]
        /\ live' = live \/ live' = live \ {r}
        /\ numWaitingStreaming' = IF status[r] = "WAITING_FOR_STREAMING_REQ"
                                  THEN numWaitingStreaming - 1 ELSE numWaitingStreaming
    BY <2>1 DEF FinishRequest, FreeRequest, Unfinished, OneLessStreaming
  <2>3. StreamingReqs' = StreamingReqs \ {r}
    BY <1>t, <2>2, RequestFinishes DEF FinishedStatuses
  <2>4. r \in StreamingReqs <=> status[r] = "WAITING_FOR_STREAMING_REQ"
    BY <2>2 DEF StreamingReqs
  <2>5. Cardinality(StreamingReqs \ {r}) =
          IF r \in StreamingReqs THEN Cardinality(StreamingReqs) - 1 ELSE Cardinality(StreamingReqs)
    BY <1>c, FS_RemoveElement
  <2> QED BY <1>c, <2>2, <2>3, <2>4, <2>5 DEF StreamingInv
<1> QED BY <1>1, <1>2, <1>3, <1>4

------------------------------------------------------------------------------
(* PlanInv.                                                                 *)

LEMMA InitPlanInv == Init => PlanInv
<1> SUFFICES ASSUME Init PROVE PlanInv
  OBVIOUS
<1>1. /\ running = <<>> /\ live = {} /\ preempted = {} /\ pc = "idle"
      /\ sched = [r \in Requests |-> 0]
  BY DEF Init
<1>2. Scheduled = {} /\ Len(running) = 0
  BY <1>1 DEF Scheduled
<1> QED BY <1>1, <1>2, SchedulerAssumption DEF PlanInv, Planning, InRunningPhase

LEMMA RunningBound ==
  ASSUME IInv, [Next]_vars
  PROVE  Len(running') <= MaxRunning
<1> USE DEF queueVars, idVars, tokenVars, sessionVars, kvVars, stepVars, updateVars,
            hookVars, workerVars
<1>t. /\ running \in Seq(Requests) /\ Len(running) \in Nat /\ MaxRunning \in Nat
      /\ Len(running) <= MaxRunning /\ NoDuplicates(running)
  BY LenProperties, SchedulerAssumption DEF IInv, TypeOK, PlanInv, QueueInv
<1>1. ASSUME running' = running
      PROVE  Len(running') <= MaxRunning
  BY <1>t, <1>1
<1>2. ASSUME NEW i \in 1..Len(running), running' = RemoveAt(running, i)
      PROVE  Len(running') <= MaxRunning
  BY <1>t, <1>2, RemoveAtShifts
<1>3. CASE Quiet
  BY <1>1, <1>3, QuietFrame DEF quietVars
<1>4. CASE ScheduleRunning \/ SkipStep \/ PromoteBlocked \/ StartLoad \/ FinishSchedule
           \/ RemoveStoppedPreempted \/ EndRemoval
  BY <1>1, <1>4 DEF ScheduleRunning, SkipStep, SkipBlocked, SkipForLora, SkipForConnector,
     SkipCandidate, PromoteBlocked, StartLoad, FinishSchedule, RemoveStoppedPreempted, EndRemoval
<1>5. CASE PreemptVictim
  BY <1>2, <1>5, VictimFacts
<1>6. CASE RemoveStoppedRunning
  BY <1>2, <1>6 DEF RemoveStoppedRunning
<1>7. CASE ResetPreempt
  <2>1. running # <<>> /\ running' = RemoveAt(running, Len(running))
    BY <1>7 DEF ResetPreempt
  <2>2. Len(running) \in 1..Len(running)
    BY <1>t, <2>1, EmptySeq
  <2> QED BY <1>2, <2>1, <2>2
<1>8. CASE AdmitCandidate
  <2>1. InWaitingLoop /\ running' = Append(running, Candidate)
    BY <1>8 DEF AdmitCandidate, Schedulable
  <2>2. Candidate \in Requests /\ Len(running) # MaxRunning
    BY <2>1, CandidateQueued DEF InWaitingLoop
  <2>3. Len(running') = Len(running) + 1
    BY <1>t, <2>1, <2>2, AppendProperties
  <2> QED BY <1>t, <2>2, <2>3
<1>9. ASSUME NEW r \in Requests,
             \/ KeepGoing(r) \/ FinishStopped(r) \/ ContinueSession(r) \/ AwaitSession(r)
             \/ CallTool(r) \/ FinishedRecving(r) \/ FinishedSending(r) \/ AddRequest(r)
             \/ StartNextChunk(r) \/ QueueUpdate(r, "chunk") \/ QueueUpdate(r, "end")
      PROVE  Len(running') <= MaxRunning
  BY <1>1, <1>9 DEF KeepGoing, FinishStopped, ContinueSession, AwaitSession, CallTool,
     FinishedRecving, FinishedSending, AddRequest, StartNextChunk, QueueUpdate
<1>10. ASSUME NEW r \in Requests, AbortRequest(r) \/ CloseSession(r)
       PROVE  Len(running') <= MaxRunning
  <2>1. running' = running \/ running' = Without(running, r)
    BY <1>10 DEF AbortRequest, CloseSession, FinishRequest, LeaveQueues
  <2>2. Without(running, r) \in Seq(Requests) /\ Len(Without(running, r)) <= Len(running)
    BY <1>t, WithoutMembers
  <2>3. Len(Without(running, r)) \in Nat
    BY <2>2, LenProperties
  <2> QED BY <1>t, <2>1, <2>2, <2>3
<1> QED BY <1>3, <1>4, <1>5, <1>6, <1>7, <1>8, <1>9, <1>10, StepCases

\* Outside of schedule() nothing is planned.
LEMMA NothingPlanned ==
  ASSUME IInv, [Next]_vars, ~Planning'
  PROVE  PlanInv'
<1>1. Scheduled' = {} /\ preempted' = {}
  BY StepAtRest DEF AtRest
<1>2. Len(running') <= MaxRunning
  BY RunningBound
<1> QED BY <1>1, <1>2 DEF PlanInv, Planning, InRunningPhase

\* Steps of the plan that give nobody tokens and leave the running list alone.
LEMMA PlanFrame ==
  ASSUME IInv, [Next]_vars, UNCHANGED <<sched, preempted, running>>,
         RunningReqs' = RunningReqs, Planning' => budget' >= 0,
         InRunningPhase' => /\ reqIndex' \in Nat /\ reqIndex' >= 1
                            /\ \A j \in 1..Len(running) : sched[running[j]] > 0 => j < reqIndex',
         pc' = "alloc" =>
           /\ cur' \in RunningReqs /\ sched[cur'] = 0
           /\ numNew' > 0 /\ numNew' <= budget'
           /\ computed'[cur'] + numNew' <= tokens'[cur']
           /\ \E j \in 1..Len(running) : j <= reqIndex' /\ running[j] = cur'
           /\ Policy = "FCFS" => reqIndex' <= Len(running) /\ running[reqIndex'] = cur'
  PROVE  PlanInv'
<1>1. Scheduled' = Scheduled /\ Scheduled \subseteq RunningReqs /\ preempted \cap RunningReqs = {}
  BY DEF IInv, PlanInv, Scheduled
<1>2. Len(running') <= MaxRunning
  BY RunningBound
<1> HIDE DEF Scheduled, RunningReqs
<1> QED BY <1>1, <1>2 DEF PlanInv

\* Nor does a step that leaves the loop over RUNNING requests where it is.
LEMMA PlanSteady ==
  ASSUME IInv, [Next]_vars,
         UNCHANGED <<sched, preempted, running, pc, reqIndex, budget, cur, numNew>>,
         RunningReqs' = RunningReqs,
         pc = "alloc" => UNCHANGED <<computed, tokens>>
  PROVE  PlanInv'
<1>1. PlanInv /\ reqIndex \in Nat
  BY DEF IInv, TypeOK
<1>2. /\ Planning' <=> Planning
      /\ InRunningPhase' <=> InRunningPhase
  BY DEF Planning, InRunningPhase
<1>3. Planning' => budget' >= 0
  BY <1>1, <1>2 DEF PlanInv
<1>4. InRunningPhase' => /\ reqIndex' \in Nat /\ reqIndex' >= 1
                         /\ \A j \in 1..Len(running) : sched[running[j]] > 0 => j < reqIndex'
  BY <1>1, <1>2 DEF PlanInv
<1>5. pc' = "alloc" =>
        /\ cur' \in RunningReqs /\ sched[cur'] = 0
        /\ numNew' > 0 /\ numNew' <= budget'
        /\ computed'[cur'] + numNew' <= tokens'[cur']
        /\ \E j \in 1..Len(running) : j <= reqIndex' /\ running[j] = cur'
        /\ Policy = "FCFS" => reqIndex' <= Len(running) /\ running[reqIndex'] = cur'
  BY <1>1 DEF PlanInv
<1> QED BY <1>3, <1>4, <1>5, PlanFrame

LEMMA QuietPlanInv ==
  ASSUME IInv, [Next]_vars, Quiet
  PROVE  PlanInv'
<1> USE DEF queueVars, idVars, tokenVars, sessionVars, kvVars, stepVars, updateVars,
            hookVars, workerVars
<1>q. UNCHANGED <<sched, preempted, running, status, live, computed, tokens>>
  BY QuietFrame DEF quietVars
<1>r. RunningReqs' = RunningReqs
  BY <1>q, SameRequests
<1>t. /\ reqIndex \in Nat /\ budget \in Int /\ sched \in [Requests -> Nat] /\ PlanInv
  BY DEF IInv, TypeOK
<1>1. CASE BeginSchedule
  <2>1. /\ pc = "idle" /\ pc' = "running" /\ reqIndex' = 1
        /\ budget' = IF pauseState = "PAUSED_ALL" THEN 0 ELSE TokenBudget
    BY <1>1 DEF BeginSchedule
  <2>2. budget' >= 0
    BY <2>1, SchedulerAssumption
  <2>3. Scheduled = {}
    BY <2>1 DEF IInv, AtRest, Planning
  <2>4. ASSUME NEW j \in 1..Len(running), sched[running[j]] > 0
        PROVE  FALSE
    <3>1. running[j] \in Requests
      BY <2>1, RunningAgrees
    <3> QED BY <2>3, <2>4, <3>1 DEF Scheduled
  <2> QED BY <1>q, <1>r, <2>1, <2>2, <2>4, PlanFrame
<1>2. CASE SkipRunning
  <2>1. pc = "running" /\ pc' = "running" /\ reqIndex' = reqIndex + 1 /\ budget' = budget
    BY <1>2 DEF SkipRunning, InRunningLoop
  <2>2. /\ budget >= 0 /\ reqIndex >= 1
        /\ \A j \in 1..Len(running) : sched[running[j]] > 0 => j < reqIndex
    BY <1>t, <2>1 DEF PlanInv, Planning, InRunningPhase
  <2>3. reqIndex' \in Nat /\ reqIndex' >= 1
        /\ \A j \in 1..Len(running) : sched[running[j]] > 0 => j < reqIndex'
    BY <1>t, <2>1, <2>2
  <2> QED BY <1>q, <1>r, <2>1, <2>2, <2>3, PlanFrame
<1>3. CASE PickRunning
  <2>1. /\ InRunningLoop /\ pc = "running" /\ pc' = "alloc" /\ reqIndex' = reqIndex
        /\ budget' = budget
        /\ cur' = running[reqIndex] /\ numNew' = NumNewTokens(running[reqIndex])
        /\ NumNewTokens(running[reqIndex]) # 0 /\ reqIndex <= Len(running)
    BY <1>3 DEF PickRunning, InRunningLoop
  <2>2. /\ budget >= 0 /\ reqIndex >= 1
        /\ \A j \in 1..Len(running) : sched[running[j]] > 0 => j < reqIndex
    BY <1>t, <2>1 DEF PlanInv, Planning, InRunningPhase
  <2>3. /\ cur' \in RunningReqs /\ sched[cur'] = 0 /\ numNew' \in Nat /\ numNew' <= budget'
        /\ computed[cur'] + numNew' <= tokens[cur']
    BY <2>1, NextToRun
  <2>4. numNew' > 0
    BY <2>1, <2>3
  <2>5. Len(running) \in Nat
    BY <2>1, RunningAgrees
  <2>6. reqIndex \in 1..Len(running)
    BY <1>t, <2>1, <2>2, <2>5
  <2>7. \E j \in 1..Len(running) : j <= reqIndex' /\ running[j] = cur'
    BY <1>t, <2>1, <2>6
  <2> QED BY <1>q, <1>r, <1>t, <2>1, <2>2, <2>3, <2>4, <2>7, PlanFrame
<1>4. CASE EndRunningLoop \/ LoadDoesNotFit \/ ChunkTooBig \/ NoBlocksLeft
  <2>1. pc' \in {"waiting", "output"} /\ budget' = budget /\ Planning
    BY <1>4 DEF EndRunningLoop, RunningLoopOver, LoadDoesNotFit, ChunkTooBig, NoBlocksLeft,
       BreakWaiting, Schedulable, InWaitingLoop, Planning
  <2>2. budget >= 0
    BY <1>t, <2>1 DEF PlanInv
  <2> QED BY <1>q, <1>r, <2>1, <2>2, PlanFrame DEF InRunningPhase
<1>5. CASE BeginUpdate \/ EndOutputs \/ EndUpdate \/ BeginReset \/ EndReset
  <2>1. ~Planning'
    BY <1>5 DEF BeginUpdate, EndOutputs, EndUpdate, BeginReset, EndReset, Planning
  <2> QED BY <2>1, NothingPlanned
<1>6. ASSUME NEW r \in Requests, SkipOutput(r) \/ CompileGrammar(r) \/ SubmitToolResponse(r)
      PROVE  PlanInv'
  <2>1. UNCHANGED <<pc, reqIndex, budget, cur, numNew>>
    BY <1>6 DEF SkipOutput, CompileGrammar, SubmitToolResponse
  <2> QED BY <1>q, <1>r, <2>1, PlanSteady
<1>7. ASSUME NEW s \in PauseStates, SetPauseState(s)
      PROVE  PlanInv'
  <2>1. UNCHANGED <<pc, reqIndex, budget, cur, numNew>>
    BY <1>7 DEF SetPauseState
  <2> QED BY <1>q, <1>r, <2>1, PlanSteady
<1>8. CASE UNCHANGED vars
  BY <1>q, <1>r, <1>8, PlanSteady DEF vars
<1> QED BY <1>1, <1>2, <1>3, <1>4, <1>5, <1>6, <1>7, <1>8 DEF Quiet

LEMMA ScheduleRunningPlanInv ==
  ASSUME IInv, [Next]_vars, ScheduleRunning
  PROVE  PlanInv'
<1> USE DEF queueVars, idVars, tokenVars, sessionVars, kvVars, stepVars, updateVars,
            hookVars, workerVars
<1>1. /\ pc = "alloc" /\ pc' = "running" /\ sched' = [sched EXCEPT ![cur] = numNew]
      /\ budget' = budget - numNew /\ reqIndex' = reqIndex + 1
      /\ UNCHANGED <<running, preempted, status, live>>
  BY DEF ScheduleRunning
<1>2. /\ reqIndex \in Nat /\ budget \in Int /\ sched \in [Requests -> Nat] /\ numNew \in Nat
      /\ PlanInv /\ NoDuplicates(running)
  BY DEF IInv, TypeOK, QueueInv
<1>3. /\ cur \in RunningReqs /\ sched[cur] = 0 /\ numNew > 0 /\ numNew <= budget
      /\ reqIndex >= 1
      /\ \A j \in 1..Len(running) : sched[running[j]] > 0 => j < reqIndex
      /\ Scheduled \subseteq RunningReqs /\ preempted \cap RunningReqs = {}
  BY <1>1, <1>2 DEF PlanInv, InRunningPhase
<1>4. PICK k \in 1..Len(running) : k <= reqIndex /\ running[k] = cur
  BY <1>1, <1>2 DEF PlanInv
<1>5. /\ Len(running) \in Nat
      /\ \A i \in 1..Len(running) : running[i] \in RunningReqs /\ running[i] \in Requests
  BY <1>1, RunningAgrees
<1>6. RunningReqs' = RunningReqs
  BY <1>1, SameRequests
<1>7. cur \in Requests
  BY <1>4, <1>5
<1>8. Scheduled' = Scheduled \cup {cur}
  BY <1>1, <1>2, <1>3, <1>7 DEF Scheduled
<1>9. ASSUME NEW j \in 1..Len(running), sched'[running[j]] > 0
      PROVE  j < reqIndex'
  <2>1. CASE running[j] = cur
    <3>1. j = k
      BY <1>2, <1>4, <2>1 DEF NoDuplicates
    <3> QED BY <1>1, <1>2, <1>4, <1>5, <3>1
  <2>2. CASE running[j] # cur
    <3>1. sched'[running[j]] = sched[running[j]]
      BY <1>1, <1>2, <1>5, <2>2
    <3>2. j < reqIndex
      BY <1>3, <1>9, <3>1
    <3> QED BY <1>1, <1>2, <1>5, <3>2
  <2> QED BY <2>1, <2>2
<1>10. budget' >= 0 /\ reqIndex' >= 1
  BY <1>1, <1>2, <1>3
<1>11. Len(running') <= MaxRunning
  BY RunningBound
<1>12. Scheduled' \subseteq RunningReqs' /\ preempted' \cap RunningReqs' = {}
  BY <1>1, <1>3, <1>6, <1>8
<1> QED BY <1>1, <1>9, <1>10, <1>11, <1>12 DEF PlanInv

\* A preempted request goes from its place; those after it move up by one.
LEMMA PreemptVictimPlanInv ==
  ASSUME IInv, [Next]_vars, PreemptVictim
  PROVE  PlanInv'
<1> USE DEF queueVars, idVars, tokenVars, sessionVars, kvVars, stepVars, updateVars,
            hookVars, workerVars
<1>1. PICK i \in 1..Len(running) :
        /\ IsVictim(i) /\ PreemptRequest(running[i])
        /\ running[i] \in Requests /\ running[i] \in RunningReqs
        /\ running' = RemoveAt(running, i)
        /\ preempted' = preempted \cup {running[i]}
        /\ sched' = [sched EXCEPT ![running[i]] = 0]
        /\ budget' = budget + sched[running[i]]
        /\ reqIndex' = IF sched[running[i]] > 0 THEN reqIndex - 1 ELSE reqIndex
        /\ sched[running[i]] > 0 => i < reqIndex
        /\ IF running[i] = cur THEN pc' = "post" /\ cur' = NoReq /\ numNew' = 0
           ELSE pc' = pc /\ cur' = cur /\ numNew' = numNew
  BY VictimFacts
<1> DEFINE v == running[i]
<1>2. /\ pc = "alloc" /\ live' = live /\ UNCHANGED tokens
      /\ computed' = [computed EXCEPT ![v] = 0]
  BY <1>1 DEF PreemptVictim, PreemptRequest
<1>3. /\ reqIndex \in Nat /\ budget \in Int /\ sched \in [Requests -> Nat] /\ numNew \in Nat
      /\ computed \in [Requests -> Nat] /\ sched[v] \in Nat
      /\ PlanInv /\ NoDuplicates(running) /\ running \in Seq(Requests)
  BY <1>1 DEF IInv, TypeOK, QueueInv
<1>4. /\ cur \in RunningReqs /\ sched[cur] = 0 /\ numNew > 0 /\ numNew <= budget
      /\ computed[cur] + numNew <= tokens[cur]
      /\ reqIndex >= 1 /\ budget >= 0
      /\ \A j \in 1..Len(running) : sched[running[j]] > 0 => j < reqIndex
      /\ Scheduled \subseteq RunningReqs /\ preempted \cap RunningReqs = {}
      /\ Policy = "FCFS" => reqIndex <= Len(running) /\ running[reqIndex] = cur
  BY <1>2, <1>3 DEF PlanInv, InRunningPhase, Planning
<1>5. PICK k \in 1..Len(running) : k <= reqIndex /\ running[k] = cur
  BY <1>2, <1>3 DEF PlanInv
<1>6. /\ Len(running) \in Nat
      /\ \A j \in 1..Len(running) : running[j] \in RunningReqs /\ running[j] \in Requests
  BY <1>2, RunningAgrees
<1>7. RunningReqs' = RunningReqs \ {v}
  BY <1>1, <1>2, PreemptMembers
<1>8. Scheduled' = Scheduled \ {v}
  <2>1. /\ sched' = [sched EXCEPT ![v] = 0] /\ sched \in [Requests -> Nat]
        /\ v \in Requests
    BY <1>1, <1>3
  <2> HIDE DEF v
  <2>2. \A r \in Requests : sched'[r] > 0 <=> sched[r] > 0 /\ r # v
    BY <2>1
  <2> QED BY <2>2 DEF Scheduled
<1>9. Scheduled' \subseteq RunningReqs' /\ preempted' \cap RunningReqs' = {}
  BY <1>1, <1>4, <1>7, <1>8
<1>10. Len(running') <= MaxRunning
  BY RunningBound
<1>11. budget' >= budget /\ budget' \in Int
  <2>1. budget' = budget + sched[v] /\ budget \in Int /\ sched[v] \in Nat
    BY <1>1, <1>3
  <2> QED BY <2>1
<1>12. /\ Len(running') = Len(running) - 1
       /\ \A j \in 1..(Len(running) - 1) : running'[j] = IF j < i THEN running[j] ELSE running[j + 1]
  BY <1>1, <1>3, RemoveAtShifts
<1>13. reqIndex' \in Nat /\ reqIndex' >= 1
       /\ (sched[v] > 0 => i < reqIndex /\ reqIndex' = reqIndex - 1)
       /\ (~(sched[v] > 0) => reqIndex' = reqIndex)
  BY <1>1, <1>3, <1>4
<1>14. ASSUME NEW j \in 1..Len(running'), sched'[running'[j]] > 0
       PROVE  j < reqIndex'
  <2>1. j \in 1..(Len(running) - 1)
    BY <1>12
  <2> DEFINE m == IF j < i THEN j ELSE j + 1
  <2>2. m \in 1..Len(running) /\ m # i /\ running'[j] = running[m]
    BY <1>6, <1>12, <2>1
  <2>3. running[m] # v
    BY <1>3, <2>2 DEF NoDuplicates
  <2>4. sched'[running[m]] = sched[running[m]]
    BY <1>1, <1>3, <1>6, <2>2, <2>3
  <2>5. m < reqIndex
    BY <1>4, <1>14, <2>2, <2>4
  <2>6. j \in Nat /\ i \in Nat /\ reqIndex \in Nat /\ reqIndex' \in Nat
    BY <1>3, <1>6, <1>13, <2>1
  <2>7. (m = j /\ j < i) \/ (m = j + 1 /\ i <= j)
    BY <2>6
  <2> HIDE DEF m
  <2>8. CASE sched[v] > 0
    <3>1. i < reqIndex /\ reqIndex' = reqIndex - 1
      BY <1>13, <2>8
    <3> QED BY <2>5, <2>6, <2>7, <3>1
  <2>9. CASE ~(sched[v] > 0)
    <3>1. reqIndex' = reqIndex
      BY <1>13, <2>9
    <3> QED BY <2>5, <2>6, <2>7, <3>1
  <2> QED BY <2>8, <2>9
<1>15. ASSUME pc' = "alloc"
       PROVE  /\ cur' \in RunningReqs' /\ sched'[cur'] = 0
              /\ numNew' > 0 /\ numNew' <= budget'
              /\ computed'[cur'] + numNew' <= tokens'[cur']
              /\ \E j \in 1..Len(running') : j <= reqIndex' /\ running'[j] = cur'
              /\ Policy = "FCFS" => reqIndex' <= Len(running') /\ running'[reqIndex'] = cur'
  <2>1. cur # v /\ cur' = cur /\ numNew' = numNew
    BY <1>1, <1>15
  <2>2. cur \in RunningReqs' /\ cur \in Requests
    BY <1>4, <1>5, <1>6, <1>7, <2>1
  <2>3. sched'[cur] = sched[cur] /\ computed'[cur] = computed[cur]
    BY <1>1, <1>2, <1>3, <2>1, <2>2
  <2>4. k # i
    BY <1>5, <2>1
  <2> DEFINE m == IF k < i THEN k ELSE k - 1
  <2>5. m \in 1..Len(running') /\ running'[m] = cur
    <3>1. m \in 1..(Len(running) - 1) /\ (m < i <=> k < i)
      BY <1>6, <2>4
    <3>2. running'[m] = IF m < i THEN running[m] ELSE running[m + 1]
      BY <1>12, <3>1
    <3> QED BY <1>5, <1>6, <1>12, <3>1, <3>2
  <2>6. m <= reqIndex'
    BY <1>3, <1>5, <1>6, <1>13, <2>4
  <2>7. ASSUME Policy = "FCFS"
        PROVE  reqIndex' <= Len(running') /\ running'[reqIndex'] = cur
    <3>1. i = Len(running) /\ reqIndex <= Len(running) /\ running[reqIndex] = cur
      BY <1>1, <1>4, <2>7 DEF IsVictim
    <3>2. reqIndex # i
      BY <2>1, <3>1
    <3>3. reqIndex' = reqIndex /\ reqIndex < i
      BY <1>3, <1>6, <1>13, <3>1, <3>2
    <3>4. reqIndex \in 1..(Len(running) - 1)
      BY <1>3, <1>4, <1>6, <3>1, <3>3
    <3>5. running'[reqIndex] = running[reqIndex]
      BY <1>12, <3>3, <3>4
    <3> QED BY <1>12, <3>1, <3>3, <3>4, <3>5
  <2>8. numNew' > 0 /\ numNew' <= budget'
    BY <1>3, <1>4, <1>11, <2>1
  <2>9. computed'[cur'] + numNew' <= tokens'[cur']
    BY <1>2, <1>4, <2>1, <2>3
  <2> QED BY <1>4, <2>1, <2>2, <2>3, <2>5, <2>6, <2>7, <2>8, <2>9
<1>16. budget' >= 0
  BY <1>3, <1>4, <1>11
<1> QED BY <1>9, <1>10, <1>13, <1>14, <1>15, <1>16 DEF PlanInv

LEMMA WaitingPlanInv ==
  ASSUME IInv, [Next]_vars, SkipStep \/ PromoteBlocked \/ StartLoad \/ AdmitCandidate
  PROVE  PlanInv'
<1> USE DEF queueVars, idVars, tokenVars, sessionVars, kvVars, stepVars, updateVars,
            hookVars, workerVars
<1>1. InWaitingLoop /\ live' = live /\ pc' = pc /\ preempted' = preempted
  BY DEF SkipStep, SkipBlocked, SkipForLora, SkipForConnector, SkipCandidate, PromoteBlocked,
     StartLoad, AdmitCandidate, Schedulable
<1>2. /\ Candidate \in Requests /\ Candidate \in QueuedReqs /\ pc = "waiting"
      /\ preempted = {} /\ budget > 0
  BY <1>1, CandidateQueued
<1>3. Candidate \in Unfinished /\ Candidate \notin RunningReqs
  BY <1>2 DEF QueuedReqs, RunningReqs, QueuedStatuses, BlockedStatuses
<1>4. TypeOK
  BY DEF IInv
<1>5. CASE SkipStep
  <2>1. UNCHANGED <<sched, preempted, running, pc, reqIndex, budget, cur, numNew, status, live>>
    BY <1>5 DEF SkipStep, SkipBlocked, SkipForLora, SkipForConnector, SkipCandidate
  <2>2. RunningReqs' = RunningReqs
    BY <2>1, SameRequests
  <2> QED BY <1>2, <2>1, <2>2, PlanSteady
<1>6. CASE PromoteBlocked \/ StartLoad
  <2>1. UNCHANGED <<sched, preempted, running, pc, reqIndex, budget, cur, numNew>>
    BY <1>6 DEF PromoteBlocked, StartLoad
  <2>2. PICK s \in {"PREEMPTED", "WAITING", "WAITING_FOR_REMOTE_KVS"} :
          status' = [status EXCEPT ![Candidate] = s]
    BY <1>6, Zenon DEF PromoteBlocked, StartLoad
  <2>3. s \in Statuses /\ ~IsFinished(s) /\ s # "RUNNING"
    BY DEF Statuses, QueuedStatuses, BlockedStatuses, IsFinished, FinishedStatuses
  <2>4. RunningReqs' = RunningReqs \ {Candidate}
    BY <1>1, <1>3, <1>4, <2>2, <2>3, RequestMoves
  <2>5. RunningReqs' = RunningReqs
    BY <1>3, <2>4
  <2> QED BY <1>2, <2>1, <2>5, PlanSteady
<1>7. CASE AdmitCandidate
  <2>1. PICK hit \in SyncHits :
          /\ sched' = [sched EXCEPT ![Candidate] = Granted(hit)]
          /\ budget' = budget - Granted(hit)
          /\ status' = [status EXCEPT ![Candidate] = "RUNNING"]
    BY <1>7, Zenon DEF AdmitCandidate
  <2>2. Granted(hit) \in Nat /\ Granted(hit) <= budget /\ Granted(hit) > 0
    BY <1>7, TokensToAdmit DEF AdmitCandidate
  <2>3. budget \in Int /\ sched \in [Requests -> Nat]
        /\ Scheduled \subseteq RunningReqs
    BY DEF IInv, TypeOK, PlanInv
  <2>4. "RUNNING" \in Statuses /\ ~IsFinished("RUNNING")
    BY DEF Statuses, IsFinished, FinishedStatuses
  <2>5. RunningReqs' = RunningReqs \cup {Candidate}
    BY <1>1, <1>3, <1>4, <2>1, <2>4, RequestMoves
  <2>6. Scheduled' = Scheduled \cup {Candidate}
    BY <1>2, <2>1, <2>2, <2>3 DEF Scheduled
  <2>7. Scheduled' \subseteq RunningReqs' /\ preempted' \cap RunningReqs' = {}
    BY <1>1, <1>2, <2>3, <2>5, <2>6
  <2>8. budget' >= 0
    BY <2>1, <2>2, <2>3
  <2>9. Len(running') <= MaxRunning
    BY RunningBound
  <2> QED BY <1>1, <1>2, <2>7, <2>8, <2>9 DEF PlanInv, InRunningPhase
<1> QED BY <1>5, <1>6, <1>7

LEMMA StepPlanInv ==
  ASSUME IInv, [Next]_vars
  PROVE  PlanInv'
<1> USE DEF stepVars, updateVars, Planning
<1>1. CASE FinishSchedule \/ RemoveStoppedRunning \/ RemoveStoppedPreempted \/ EndRemoval
           \/ ResetPreempt
  <2>1. pc' \in {"idle", "remove", "kv", "reset"}
    BY <1>1 DEF FinishSchedule, RemoveStoppedRunning, RemoveStoppedPreempted, EndRemoval,
       ResetPreempt
  <2> QED BY <2>1, NothingPlanned
<1>2. ASSUME NEW r \in Requests,
             \/ KeepGoing(r) \/ FinishStopped(r) \/ ContinueSession(r) \/ AwaitSession(r)
             \/ CallTool(r) \/ FinishedRecving(r) \/ FinishedSending(r)
      PROVE  PlanInv'
  <2>1. pc' \in {"update", "kv"}
    BY <1>2 DEF KeepGoing, FinishStopped, ContinueSession, AwaitSession, CallTool,
       FinishedRecving, FinishedSending, GetsToken
  <2> QED BY <2>1, NothingPlanned
<1>3. ASSUME NEW r \in Requests,
             \/ AddRequest(r) \/ AbortRequest(r) \/ CloseSession(r) \/ StartNextChunk(r)
             \/ QueueUpdate(r, "chunk") \/ QueueUpdate(r, "end")
      PROVE  PlanInv'
  <2>1. pc' = "idle"
    BY <1>3 DEF AddRequest, AbortRequest, CloseSession, FinishRequest, StartNextChunk,
       QueueUpdate, BetweenSteps
  <2> QED BY <2>1, NothingPlanned
<1> QED BY <1>1, <1>2, <1>3, QuietPlanInv, ScheduleRunningPlanInv, PreemptVictimPlanInv,
           WaitingPlanInv, StepCases

------------------------------------------------------------------------------
(* PrevInv.                                                                 *)

LEMMA InitPrevInv == Init => PrevInv
BY DEF Init, PrevInv

LEMMA PrevSteps ==
  ASSUME [Next]_vars, ~FinishSchedule, ~EndReset
  PROVE  /\ prevScheduled' = prevScheduled /\ preempted \subseteq preempted'
         /\ pc = "reset" => pc' = "reset"
         /\ resumedReqs' = resumedReqs \/ (AdmitCandidate /\ status[Candidate] # "WAITING"
                                           /\ resumedReqs' = resumedReqs \cup {Candidate})
<1> USE DEF queueVars, idVars, tokenVars, sessionVars, kvVars, stepVars, updateVars,
            hookVars, workerVars
<1>1. CASE Quiet
  <2>1. UNCHANGED <<preempted, resumedReqs>>
    BY <1>1, QuietFrame DEF quietVars
  <2>2. CASE BeginSchedule \/ SkipRunning \/ PickRunning \/ EndRunningLoop
    BY <2>1, <2>2 DEF BeginSchedule, SkipRunning, PickRunning, EndRunningLoop, InRunningLoop,
       RunningLoopOver
  <2>3. CASE LoadDoesNotFit \/ ChunkTooBig \/ NoBlocksLeft
    BY <2>1, <2>3 DEF LoadDoesNotFit, ChunkTooBig, NoBlocksLeft, BreakWaiting, Schedulable,
       InWaitingLoop
  <2>4. CASE BeginUpdate \/ EndOutputs \/ EndUpdate \/ BeginReset
    BY <2>1, <2>4 DEF BeginUpdate, EndOutputs, EndUpdate, BeginReset
  <2>5. ASSUME NEW r \in Requests, SkipOutput(r) \/ CompileGrammar(r) \/ SubmitToolResponse(r)
        PROVE  UNCHANGED <<prevScheduled, pc>>
    BY <2>5 DEF SkipOutput, CompileGrammar, SubmitToolResponse
  <2>6. ASSUME NEW s \in PauseStates, SetPauseState(s)
        PROVE  UNCHANGED <<prevScheduled, pc>>
    BY <2>6 DEF SetPauseState
  <2>7. CASE UNCHANGED vars
    BY <2>7 DEF vars
  <2> QED BY <1>1, <2>1, <2>2, <2>3, <2>4, <2>5, <2>6, <2>7 DEF Quiet
<1>2. CASE ScheduleRunning \/ PreemptVictim
  BY <1>2 DEF ScheduleRunning, PreemptVictim
<1>3. CASE SkipStep \/ PromoteBlocked \/ StartLoad
  BY <1>3 DEF SkipStep, SkipBlocked, SkipForLora, SkipForConnector, SkipCandidate,
     PromoteBlocked, StartLoad
<1>4. CASE AdmitCandidate
  BY <1>4 DEF AdmitCandidate
<1>5. CASE RemoveStoppedRunning \/ RemoveStoppedPreempted \/ EndRemoval \/ ResetPreempt
  BY <1>5 DEF RemoveStoppedRunning, RemoveStoppedPreempted, EndRemoval, ResetPreempt
<1>6. ASSUME NEW r \in Requests,
             \/ KeepGoing(r) \/ FinishStopped(r) \/ ContinueSession(r) \/ AwaitSession(r)
             \/ CallTool(r) \/ FinishedRecving(r) \/ FinishedSending(r)
      PROVE  UNCHANGED <<prevScheduled, preempted, pc, resumedReqs>>
  BY <1>6 DEF KeepGoing, FinishStopped, ContinueSession, AwaitSession, CallTool,
     FinishedRecving, FinishedSending
<1>7. ASSUME NEW r \in Requests,
             \/ AddRequest(r) \/ AbortRequest(r) \/ CloseSession(r) \/ StartNextChunk(r)
             \/ QueueUpdate(r, "chunk") \/ QueueUpdate(r, "end")
      PROVE  UNCHANGED <<prevScheduled, preempted, pc, resumedReqs>>
  BY <1>7 DEF AddRequest, AbortRequest, CloseSession, FinishRequest, StartNextChunk, QueueUpdate
<1> QED BY <1>1, <1>2, <1>3, <1>4, <1>5, <1>6, <1>7, StepCases

PrevOf(r) ==
  /\ status[r] # "WAITING_FOR_REMOTE_KVS"
  /\ status[r] = "PREEMPTED" => pc = "reset" \/ r \in preempted
  /\ status[r] # "PREEMPTED" => computed[r] > 0

LEMMA PrevOfStep ==
  ASSUME IInv, EngineAssumption, [Next]_vars, ~FinishSchedule, ~EndReset,
         NEW r \in prevScheduled, r \in Unfinished'
  PROVE  PrevOf(r)'
<1> USE DEF queueVars, idVars, tokenVars, sessionVars, kvVars, stepVars, updateVars,
            hookVars, workerVars
<1>1. TypeOK /\ r \in arrived /\ r \in Requests
  BY DEF IInv, PrevInv, TypeOK
<1>2. /\ preempted \subseteq preempted'
      /\ pc = "reset" => pc' = "reset"
  BY PrevSteps
<1>3. ASSUME r \in Unfinished
      PROVE  PrevOf(r)
  BY <1>3 DEF IInv, PrevInv, PrevOf
<1>4. r \in live' /\ ~IsFinished(status'[r])
  BY DEF Unfinished
<1>f. status \in [Requests -> Statuses] /\ computed \in [Requests -> Nat]
  BY <1>1 DEF TypeOK
<1>5. ASSUME r \in Unfinished, status'[r] = status[r], computed'[r] = computed[r]
      PROVE  PrevOf(r)'
  BY <1>2, <1>3, <1>5 DEF PrevOf
<1>6. CASE Same(r)
  BY <1>4, <1>5, <1>6 DEF Same, Unfinished
<1>7. CASE (ScheduleRunning /\ r = cur) \/ QueueUpdate(r, "chunk") \/ QueueUpdate(r, "end")
  BY <1>4, <1>5, <1>7 DEF ScheduleRunning, QueueUpdate, Unfinished
<1>8. CASE PreemptVictim /\ PreemptRequest(r) /\ r \in RunningReqs
  <2>1. PICK i \in 1..Len(running) : /\ PreemptRequest(running[i]) /\ running[i] \in Requests
                                     /\ preempted' = preempted \cup {running[i]}
    BY <1>8, VictimFacts
  <2>2. status'[r] = "PREEMPTED" /\ status[r] = "RUNNING"
    BY <1>1, <1>8, <1>f DEF PreemptRequest
  <2>3. status' = [status EXCEPT ![running[i]] = "PREEMPTED"]
    BY <2>1 DEF PreemptRequest
  <2>4. r = running[i]
    BY <1>1, <1>f, <2>1, <2>2, <2>3
  <2> QED BY <2>1, <2>2, <2>4 DEF PrevOf
<1>9. CASE ResetPreempt /\ PreemptRequest(r)
  <2>1. status'[r] = "PREEMPTED" /\ pc' = "reset"
    BY <1>1, <1>9, <1>f DEF PreemptRequest, ResetPreempt
  <2> QED BY <2>1 DEF PrevOf
<1>10. CASE (PromoteBlocked \/ StartLoad \/ AdmitCandidate) /\ r = Candidate
  <2>1. InWaitingLoop
    BY <1>10 DEF PromoteBlocked, StartLoad, AdmitCandidate, Schedulable
  <2>2. r \in Unfinished /\ pc = "waiting" /\ preempted = {}
    BY <1>10, <2>1, CandidateQueued DEF QueuedReqs
  <2>3. status[r] \notin {"PREEMPTED", "WAITING_FOR_REMOTE_KVS"} /\ computed[r] > 0
    BY <1>3, <2>2 DEF PrevOf
  <2>4. CASE PromoteBlocked
    <3>1. status'[r] = "WAITING" /\ computed' = computed
      BY <1>1, <1>10, <1>f, <2>3, <2>4 DEF PromoteBlocked
    <3> QED BY <2>3, <3>1 DEF PrevOf
  <2>5. ~StartLoad
    BY <1>10, <1>f, <2>3 DEF StartLoad, AskConnector
  <2>6. CASE AdmitCandidate
    <3>1. PICK hit \in SyncHits : /\ computed' = [computed EXCEPT ![Candidate] = Start(hit)]
                                  /\ status' = [status EXCEPT ![Candidate] = "RUNNING"]
      BY <2>6, Zenon DEF AdmitCandidate
    <3>2. Start(hit) = computed[r]
      BY <1>10, <1>1, <1>f, <2>3 DEF Start
    <3>3. status'[r] = "RUNNING" /\ computed'[r] = computed[r]
      BY <1>1, <1>10, <1>f, <3>1, <3>2
    <3> QED BY <2>3, <3>3 DEF PrevOf
  <2> QED BY <1>10, <2>4, <2>5, <2>6
<1>11. CASE KeepGoing(r) \/ ContinueSession(r) \/ AwaitSession(r) \/ CallTool(r)
  <2>1. GetsToken(r) /\ computed' = computed
        /\ \/ status' = status
           \/ \E s \in {"WAITING", "WAITING_FOR_STREAMING_REQ", "WAITING_FOR_TOOL_CALL"} :
                 status' = [status EXCEPT ![r] = s]
    BY <1>11 DEF KeepGoing, ContinueSession, AwaitSession, CallTool, UpdateRequestAsSession
  <2>2. r \in Unfinished /\ pc = "update"
    BY <1>1, <2>1, SampledRequest
  <2>3. preempted = {}
    BY <2>2 DEF IInv, AtRest, Planning
  <2>4. /\ status[r] \notin {"PREEMPTED", "WAITING_FOR_REMOTE_KVS"} /\ computed[r] > 0
    BY <1>3, <2>2, <2>3 DEF PrevOf
  <2>5. /\ status'[r] \notin {"PREEMPTED", "WAITING_FOR_REMOTE_KVS"}
    BY <1>1, <1>f, <2>1, <2>4
  <2> QED BY <2>1, <2>4, <2>5 DEF PrevOf
<1>12. CASE FinishStopped(r) \/ AbortRequest(r) \/ CloseSession(r)
  <2>1. status'[r] \in FinishedStatuses
    BY <1>1, <1>f, <1>12 DEF FinishStopped, StopStatuses, FinishedStatuses, AbortRequest,
       CloseSession, FinishRequest
  <2> QED BY <1>4, <2>1 DEF IsFinished
<1>13. CASE StartNextChunk(r)
  <2>1. /\ r \in Unfinished /\ status[r] = "WAITING_FOR_STREAMING_REQ"
        /\ status'[r] = "WAITING" /\ computed' = computed
    BY <1>1, <1>13, NextChunkTokens DEF StartNextChunk
  <2> QED BY <1>3, <2>1 DEF PrevOf
<1>14. CASE FinishedRecving(r) \/ FinishedSending(r)
  <2>1. UNCHANGED <<status, computed>> /\ (live' = live \/ live' = live \ {r})
    BY <1>14 DEF FinishedRecving, FinishedSending, LoadEnds
  <2> QED BY <1>4, <1>5, <2>1 DEF Unfinished
<1>15. ~AddRequest(r)
  BY <1>1 DEF AddRequest
<1> QED BY <1>1, <1>6, <1>7, <1>8, <1>9, <1>10, <1>11, <1>12, <1>13, <1>14, <1>15, Touched

LEMMA StepPrevInv ==
  ASSUME IInv, EngineAssumption, [Next]_vars
  PROVE  PrevInv'
<1> USE DEF queueVars, idVars, tokenVars, sessionVars, kvVars, stepVars, updateVars,
            hookVars, workerVars
<1>1. TypeOK /\ prevScheduled \subseteq arrived /\ resumedReqs \cap prevScheduled = {}
  BY DEF IInv, PrevInv
<1>2. CASE EndReset
  <2>1. prevScheduled' = {}
    BY <1>2 DEF EndReset, PrevAfterReset
  <2> QED BY <2>1 DEF PrevInv
<1>3. CASE FinishSchedule
  <2>1. /\ prevScheduled' = Scheduled /\ resumedReqs' = {} /\ UNCHANGED <<status, live, arrived>>
        /\ computed' = [r \in Requests |-> computed[r] + sched[r]]
    BY <1>3 DEF FinishSchedule, ComputedAfterSchedule
  <2>2. ASSUME NEW r \in Scheduled
        PROVE  r \in arrived' /\ PrevOf(r)'
    <3>1. r \in Requests /\ sched[r] > 0 /\ computed[r] \in Nat /\ sched[r] \in Nat
      BY <1>1 DEF Scheduled, TypeOK
    <3>2. r \in arrived /\ status[r] = "RUNNING"
      BY <3>1, ScheduledRequest
    <3>3. computed'[r] > 0
      BY <2>1, <3>1
    <3> QED BY <2>1, <3>2, <3>3 DEF PrevOf
  <2> QED BY <2>1, <2>2 DEF PrevInv, PrevOf
<1>4. CASE ~EndReset /\ ~FinishSchedule
  <2>1. /\ prevScheduled' = prevScheduled
        /\ resumedReqs' = resumedReqs \/ (AdmitCandidate /\ status[Candidate] # "WAITING"
                                          /\ resumedReqs' = resumedReqs \cup {Candidate})
    BY <1>4, PrevSteps
  <2>2. arrived \subseteq arrived'
    BY ArrivedGrows
  <2>3. \A r \in prevScheduled : r \in Unfinished' => PrevOf(r)'
    BY <1>4, PrevOfStep
  <2>4. ASSUME AdmitCandidate, status[Candidate] # "WAITING"
        PROVE  Candidate \notin prevScheduled
    <3>1. Schedulable /\ InWaitingLoop
      BY <2>4 DEF AdmitCandidate, Schedulable
    <3>2. status[Candidate] = "PREEMPTED" /\ Candidate \in Unfinished
      BY <2>4, <3>1, NextToAdmit
    <3>3. pc = "waiting" /\ preempted = {}
      BY <3>1, CandidateQueued
    <3> QED BY <3>2, <3>3 DEF IInv, PrevInv
  <2>5. resumedReqs' \cap prevScheduled' = {}
    BY <1>1, <2>1, <2>4
  <2>6. prevScheduled' \subseteq arrived'
    BY <1>1, <2>1, <2>2
  <2> QED BY <2>1, <2>3, <2>5, <2>6 DEF PrevInv, PrevOf
<1> QED BY <1>2, <1>3, <1>4

------------------------------------------------------------------------------
(* The inductive invariant.                                                 *)

LEMMA InitIInv == Init => IInv
BY InitTypes, InitAtRest, InitQueueInv, InitStoppedInv, InitSamplesInv, InitNewcomersInv,
   InitLengthInv, InitSessionInv, InitChunksInv, InitLongInv, InitTransfers, InitPlanInv, InitPrevInv, InitStreamingInv,
   InitPool, InitComputedTokensHaveBlocks DEF IInv

LEMMA StepIInv ==
  ASSUME IInv, EngineAssumption, [Next]_vars
  PROVE  IInv'
BY StepTypes, StepAtRest, StepQueueInv, StepStoppedInv, StepSamplesInv, StepNewcomersInv,
   StepLengthInv, StepSessionInv, StepChunksInv, StepLongInv, StepTransfers, StepPlanInv, StepPrevInv, StepStreamingInv,
   StepPoolInv, StepComputedTokensHaveBlocks DEF IInv

\* In every reachable state the queues, statuses, samples in flight, lengths,
\* sessions, KV transfers, plan and pool agree as IInv says: every step of
\* schedule(), of update_from_output() and of the engine's calls keeps it.
THEOREM Inductive ==
  ASSUME EngineAssumption
  PROVE  Spec => []IInv
<1>1. Init => IInv
  BY InitIInv
<1>2. IInv /\ [Next]_vars => IInv'
  BY StepIInv
<1> QED BY <1>1, <1>2, PTL DEF Spec

------------------------------------------------------------------------------
(* What the inductive invariant says of the runs' invariants.               *)

\* Every variable keeps its type, num_computed_tokens and the pool's free blocks
\* never going below zero included.
THEOREM Types ==
  ASSUME EngineAssumption
  PROVE  Spec => []TypeOK
<1>1. IInv => TypeOK
  BY DEF IInv
<1> QED BY <1>1, Inductive, PTL

LEMMA QueuesAgree == IInv => QueueAgreement
<1> SUFFICES ASSUME IInv, pc \notin {"update", "remove"}
             PROVE  /\ NoDuplicates(running) /\ NoDuplicates(AllWaiting)
                    /\ Members(running) = {r \in Unfinished : status[r] = "RUNNING"}
                    /\ Members(AllWaiting) = {r \in Unfinished : status[r] \in QueuedStatuses}
  BY DEF QueueAgreement
<1>1. /\ waiting \in Seq(Requests) /\ skipped \in Seq(Requests) /\ stepSkipped \in Seq(Requests)
      /\ NoDuplicates(waiting) /\ NoDuplicates(skipped) /\ NoDuplicates(stepSkipped)
      /\ NoDuplicates(running)
  BY DEF IInv, TypeOK, QueueInv
<1>2. stoppedPreempted = {}
  BY DEF IInv, AtRest
<1>3. /\ Members(waiting) \cap Members(skipped) = {}
      /\ Members(waiting) \cap Members(stepSkipped) = {}
      /\ Members(skipped) \cap Members(stepSkipped) = {}
      /\ Members(waiting) \cup Members(skipped) \cup Members(stepSkipped) = QueuedReqs
  BY <1>2 DEF IInv, QueueInv
<1> DEFINE w == waiting \o skipped
<1>4. w \in Seq(Requests) /\ Members(w) = Members(waiting) \cup Members(skipped) /\ NoDuplicates(w)
  BY <1>1, <1>3, ConcatMembers, ConcatProperties
<1>5. AllWaiting = w \o stepSkipped
  BY DEF AllWaiting
<1>6. Members(w) \cap Members(stepSkipped) = {}
  BY <1>3, <1>4
<1> HIDE DEF w
<1>7. /\ Members(w \o stepSkipped) = Members(w) \cup Members(stepSkipped)
      /\ NoDuplicates(w \o stepSkipped)
  BY <1>1, <1>4, <1>6, ConcatMembers
<1>8. Members(running) = RunningReqs
  BY RunningAgrees
<1> QED BY <1>1, <1>3, <1>4, <1>5, <1>7, <1>8 DEF RunningReqs, QueuedReqs

\* No step of schedule(), of update_from_output() or of a call loses a request
\* from its queue, leaves a finished one in a queue or puts one in two.
THEOREM QueuesAndStatusesAgree ==
  ASSUME EngineAssumption
  PROVE  Spec => []QueueAgreement
BY QueuesAgree, Inductive, PTL

\* The tokens the executor samples fit the requests they were sampled for,
\* although requests are preempted, chunked and aborted while a batch is in flight.
THEOREM SamplesFit ==
  ASSUME EngineAssumption
  PROVE  Spec => []InFlightSamplesFit
<1>1. ASSUME NEW r, NEW pos, SampleOf(r, pos)
      PROVE  SampleFits(r, pos)
  BY <1>1 DEF SampleOf, SampleFits, IsBlockedWaiting, BlockedStatuses
<1>2. IInv => InFlightSamplesFit
  BY <1>1 DEF IInv, SamplesInv, PendingInv, InFlightSamplesFit
<1> QED BY <1>2, Inductive, PTL

\* Computed tokens, those of the step being planned included, have blocks.
THEOREM TokensHaveBlocks ==
  ASSUME EngineAssumption
  PROVE  Spec => []ComputedTokensHaveBlocks
<1>1. IInv => ComputedTokensHaveBlocks
  BY DEF IInv
<1> QED BY <1>1, Inductive, PTL

\* Only unfinished requests, and finished ones in a KV transfer, hold blocks.
THEOREM BlocksComeBack ==
  ASSUME EngineAssumption
  PROVE  Spec => []BlocksReclaimed
<1>1. IInv => BlocksReclaimed
  BY DEF IInv
<1> QED BY <1>1, Inductive, PTL

\* A request's tokens are its prompt and its output, also in sessions.
THEOREM PromptAndOutput ==
  ASSUME EngineAssumption
  PROVE  Spec => []TokensAddUp
<1>1. IInv => TokensAddUp
  BY DEF IInv, TypeOK, LengthInv, TokensAddUp
<1> QED BY <1>1, Inductive, PTL

\* A request preempted while a step is planned is not in that step's output.
THEOREM PreemptedLeavesPlan ==
  ASSUME EngineAssumption
  PROVE  Spec => []PreemptedNotScheduled
<1>1. IInv => PreemptedNotScheduled
  BY DEF IInv, PlanInv, RunningReqs, PreemptedNotScheduled
<1> QED BY <1>1, Inductive, PTL

LEMMA StillWork == IInv => NoSleepWithWork
<1> SUFFICES ASSUME IInv, pc = "idle", pauseState = "UNPAUSED", NumUnfinished <= 0,
                    NEW r \in Unfinished
             PROVE  status[r] = "WAITING_FOR_STREAMING_REQ"
  BY DEF NoSleepWithWork
<1>1. /\ waiting \in Seq(Requests) /\ skipped \in Seq(Requests) /\ running \in Seq(Requests)
      /\ NoDuplicates(waiting) /\ NoDuplicates(skipped)
      /\ status[r] \in Statuses
  BY DEF IInv, TypeOK, QueueInv, Unfinished
<1>2. stoppedPreempted = {} /\ stepSkipped = <<>>
  BY DEF IInv, AtRest
<1>3. /\ Members(waiting) \cap Members(skipped) = {}
      /\ Members(waiting) \cup Members(skipped) = QueuedReqs
  BY <1>2, EmptyQueue DEF IInv, QueueInv
<1>4. /\ IsFiniteSet(Members(waiting)) /\ Cardinality(Members(waiting)) = Len(waiting)
      /\ IsFiniteSet(Members(skipped)) /\ Cardinality(Members(skipped)) = Len(skipped)
      /\ Len(waiting) \in Nat /\ Len(skipped) \in Nat /\ Len(running) \in Nat
  BY <1>1, QueueLength, LenProperties
<1>5. IsFiniteSet(QueuedReqs) /\ Cardinality(QueuedReqs) = Len(waiting) + Len(skipped)
  <2>1. Cardinality(Members(waiting) \cup Members(skipped))
          = Cardinality(Members(waiting)) + Cardinality(Members(skipped))
              - Cardinality(Members(waiting) \cap Members(skipped))
        /\ IsFiniteSet(Members(waiting) \cup Members(skipped))
    BY <1>4, FS_Union
  <2>2. Cardinality(Members(waiting) \cap Members(skipped)) = 0
    BY <1>3, FS_EmptySet
  <2>3. Cardinality(QueuedReqs) = Len(waiting) + Len(skipped) - 0
    BY <1>3, <1>4, <2>1, <2>2, Zenon
  <2>4. IsFiniteSet(QueuedReqs)
    BY QueuedFinite
  <2> QED BY <1>4, <2>3, <2>4
<1>6. numWaitingStreaming = Cardinality(StreamingReqs)
  BY DEF IInv, StreamingInv
<1>7. /\ StreamingReqs \subseteq QueuedReqs /\ Cardinality(StreamingReqs) <= Cardinality(QueuedReqs)
      /\ (Cardinality(QueuedReqs) = Cardinality(StreamingReqs) => QueuedReqs = StreamingReqs)
      /\ Cardinality(StreamingReqs) \in Nat
  <2>1. StreamingReqs \in SUBSET QueuedReqs /\ IsFiniteSet(StreamingReqs)
    BY QueuedFinite
  <2> QED BY <1>5, <2>1, FS_Subset, FS_CardinalityType
<1>8. Len(waiting) + Len(skipped) - numWaitingStreaming + Len(running) <= 0
  BY DEF NumUnfinished
<1>9. QueuedReqs = StreamingReqs /\ Len(running) = 0
  <2> DEFINE q == Cardinality(QueuedReqs)
             w == Cardinality(StreamingReqs)
  <2>1. q = Len(waiting) + Len(skipped) /\ numWaitingStreaming = w /\ w \in Nat /\ w <= q
    BY <1>5, <1>6, <1>7
  <2>2. q = w => QueuedReqs = StreamingReqs
    BY <1>7
  <2> HIDE DEF q, w
  <2>3. q = w /\ Len(running) = 0
    BY <1>4, <1>8, <2>1
  <2> QED BY <2>2, <2>3
<1>10. RunningReqs = {}
  <2>1. running = <<>>
    BY <1>1, <1>9, EmptySeq
  <2> QED BY <2>1, EmptyQueue, RunningAgrees
<1>11. status[r] \in QueuedStatuses \/ status[r] = "RUNNING"
  BY <1>1 DEF Statuses, Unfinished, IsFinished
<1> QED BY <1>9, <1>10, <1>11 DEF RunningReqs, QueuedReqs, StreamingReqs

\* has_unfinished_requests counts right: when it says there is nothing to step
\* for, every unfinished request waits for its client.
THEOREM NoSleep ==
  ASSUME EngineAssumption
  PROVE  Spec => []NoSleepWithWork
BY StillWork, Inductive, PTL

LEMMA VictimExists ==
  ASSUME IInv, pc = "alloc"
  PROVE  \E i \in 1..Len(running) : IsVictim(i) /\ status[running[i]] = "RUNNING"
<1>1. running \in Seq(Requests) /\ Len(running) \in Nat
      /\ \A i \in 1..Len(running) : running[i] \in RunningReqs
  BY RunningAgrees DEF IInv, TypeOK
<1>2. running # <<>>
  BY EmptySeq DEF IInv, PlanInv
<1>3. Len(running) \in 1..Len(running)
  BY <1>1, <1>2, EmptySeq
<1>4. Policy \in {"FCFS", "PRIORITY"}
  BY QueueAssumption
<1>5. CASE Policy = "FCFS"
  BY <1>1, <1>3, <1>5 DEF IsVictim, RunningReqs
<1>6. CASE Policy = "PRIORITY"
  <2>1. PICK i \in 1..Len(running) : \A j \in 1..Len(running) : Rank[running[j]] <= Rank[running[i]]
    BY <1>1, <1>2, GreatestRank
  <2> QED BY <1>1, <1>6, <2>1 DEF IsVictim, RunningReqs
<1> QED BY <1>4, <1>5, <1>6

LEMMA Asserts == IInv => AssertionsHold
<1> SUFFICES ASSUME IInv PROVE AssertionsHold
  OBVIOUS
<1>1. pc = "alloc" /\ ~CurFits =>
        \E i \in 1..Len(running) : IsVictim(i) /\ status[running[i]] = "RUNNING"
  BY VictimExists
<1>2. pc = "reset" /\ running # <<>> => status[running[Len(running)]] = "RUNNING"
  <2> SUFFICES ASSUME pc = "reset", running # <<>>
               PROVE  status[running[Len(running)]] = "RUNNING"
    OBVIOUS
  <2>1. running \in Seq(Requests) /\ Len(running) \in Nat
        /\ \A i \in 1..Len(running) : running[i] \in RunningReqs
    BY RunningAgrees DEF IInv, TypeOK
  <2>2. Len(running) \in 1..Len(running)
    BY <2>1, EmptySeq
  <2> QED BY <2>1, <2>2 DEF RunningReqs
<1>3. Schedulable => /\ status[Candidate] \in {"WAITING", "PREEMPTED"}
                     /\ tokens[Candidate] > computed[Candidate]
  BY NextToAdmit
<1>4. InWaitingLoop /\ status[Candidate] = "WAITING_FOR_STREAMING_REQ" =>
        streamQueue[Candidate] = <<>>
  <2>1. InWaitingLoop => Candidate \in Unfinished
    BY CandidateQueued DEF QueuedReqs
  <2> QED BY <2>1 DEF IInv, SessionInv
<1>5. ScheduleOver => /\ budget >= 0
                      /\ Len(running) <= MaxRunning
                      /\ Cardinality(Scheduled) <= Len(running)
                      /\ resumedReqs \cap prevScheduled = {}
  <2> SUFFICES ASSUME ScheduleOver
               PROVE  budget >= 0 /\ Cardinality(Scheduled) <= Len(running)
    BY DEF IInv, PlanInv, PrevInv
  <2>1. pc \in {"waiting", "output"}
    BY DEF ScheduleOver
  <2>2. Members(running) = RunningReqs
    BY <2>1, RunningAgrees
  <2>3. IsFiniteSet(Members(running)) /\ Cardinality(Members(running)) = Len(running)
    BY QueueLength DEF IInv, TypeOK, QueueInv
  <2>4. Scheduled \in SUBSET Members(running) /\ budget >= 0
    BY <2>1, <2>2 DEF IInv, PlanInv, Planning
  <2> QED BY <2>3, <2>4, FS_Subset
<1>6. /\ loading \cup sending \subseteq live
      /\ \A r \in loading : status[r] = "WAITING_FOR_REMOTE_KVS" \/ IsFinished(status[r])
  BY DEF IInv, TransferInv
<1> QED BY <1>1, <1>2, <1>3, <1>4, <1>5, <1>6 DEF AssertionsHold

\* No assertion of schedule(), of _preempt_request or of
\* _update_from_kv_xfer_finished fails.
THEOREM NoAssertionFails ==
  ASSUME EngineAssumption
  PROVE  Spec => []AssertionsHold
BY Asserts, Inductive, PTL

------------------------------------------------------------------------------
(* ToolPauseHeld.                                                           *)

LEMMA PauseEnds ==
  ASSUME IInv, [Next]_vars, NEW r \in Requests,
         status[r] = "WAITING_FOR_TOOL_CALL", status'[r] # status[r]
  PROVE  IsFinished(status'[r]) \/ (r \in toolResponses /\ r \notin toolResponses')
<1> USE DEF queueVars, idVars, tokenVars, sessionVars, kvVars, stepVars, updateVars,
            hookVars, workerVars
<1>f. status \in [Requests -> Statuses]
  BY DEF IInv, TypeOK
<1>1. CASE \/ Same(r) \/ FinishSchedule \/ ScheduleRunning
           \/ KeepGoing(r) \/ FinishedRecving(r) \/ FinishedSending(r)
           \/ QueueUpdate(r, "chunk") \/ QueueUpdate(r, "end")
  BY <1>1 DEF Same, FinishSchedule, ScheduleRunning, KeepGoing, FinishedRecving,
     FinishedSending, QueueUpdate
<1>2. CASE PreemptRequest(r)
  BY <1>2 DEF PreemptRequest
<1>3. CASE (PromoteBlocked \/ StartLoad \/ AdmitCandidate) /\ r = Candidate
  <2>1. ~StartLoad /\ ~AdmitCandidate
    BY <1>3 DEF StartLoad, AdmitCandidate, Schedulable, IsBlockedWaiting, BlockedStatuses
  <2>2. r \in toolResponses /\ r \notin toolResponses'
    BY <1>3, <2>1 DEF PromoteBlocked, Promotable, ResponsesAfterResume
  <2> QED BY <2>2
<1>4. CASE FinishStopped(r) \/ ContinueSession(r) \/ AwaitSession(r) \/ CallTool(r)
  <2>1. GetsToken(r)
    BY <1>4 DEF FinishStopped, ContinueSession, AwaitSession, CallTool
  <2> QED BY <2>1, SampledRequest
<1>5. CASE AddRequest(r)
  BY <1>5 DEF AddRequest, IInv, NewcomersInv
<1>6. CASE AbortRequest(r) \/ CloseSession(r)
  BY <1>f, <1>6 DEF AbortRequest, CloseSession, FinishRequest, IsFinished, FinishedStatuses
<1>7. CASE StartNextChunk(r)
  BY <1>7 DEF StartNextChunk
<1> QED BY <1>1, <1>2, <1>3, <1>4, <1>5, <1>6, <1>7, Touched

\* A request leaves a tool pause only when it is aborted, or with the answer to
\* the call, and the answer is used up.
THEOREM PausesHeld ==
  ASSUME EngineAssumption
  PROVE  Spec => ToolPauseHeld
<1>1. ASSUME IInv, [Next]_vars
      PROVE  [\A r \in Requests :
                 status[r] = "WAITING_FOR_TOOL_CALL" /\ status'[r] # status[r] =>
                    IsFinished(status'[r]) \/ (r \in toolResponses /\ r \notin toolResponses')]_vars
  BY <1>1, PauseEnds
<1> QED BY <1>1, Inductive, PTL DEF Spec, ToolPauseHeld

------------------------------------------------------------------------------
(* LorasFit, with one batch at a time.                                      *)

\* A running request with all its tokens computed waits for a sample.
RunInv == \A r \in RunningReqs : computed[r] = tokens[r] => AwaitsSample(r)

\* With one batch at a time every running request has a token to compute, so
\* that schedule() comes to the waiting queues with all of them scheduled, or
\* with its budget used up.
LoopInv ==
  /\ pc = "waiting" => Members(running) \subseteq Scheduled \/ budget = 0
  /\ pc = "post" => preempted # {}
  /\ InRunningPhase /\ preempted = {} =>
        \A j \in 1..Len(running) : j < reqIndex => sched[running[j]] > 0
  /\ pc = "alloc" /\ preempted = {} => reqIndex <= Len(running) /\ running[reqIndex] = cur

RunningLoras == {Lora[r] : r \in Members(running)} \ {0}
LoraInv == MaxLoras > 0 => Cardinality(RunningLoras) <= MaxLoras

LoraIInv == RunInv /\ LoopInv /\ LoraInv

LEMMA InitLoraIInv == Init => LoraIInv
<1> SUFFICES ASSUME Init PROVE LoraIInv
  OBVIOUS
<1>1. /\ batch = NoBatch /\ inflight = <<>> /\ pc = "idle" /\ live = {} /\ running = <<>>
  BY DEF Init
<1>2. RunInv /\ LoopInv
  BY <1>1 DEF RunInv, RunningReqs, Unfinished, LoopInv, InRunningPhase
<1>3. RunningLoras = {}
  BY <1>1, EmptyQueue DEF RunningLoras
<1> QED BY <1>2, <1>3, FS_EmptySet, SchedulerAssumption DEF LoraIInv, LoraInv

\* A running request gets all its tokens computed by a step that samples one for
\* it, and the answer brings the next token to compute.
LEMMA StepRunInv ==
  ASSUME IInv, RunInv, [Next]_vars
  PROVE  RunInv'
<1> USE DEF queueVars, idVars, tokenVars, sessionVars, kvVars, stepVars, updateVars,
            hookVars, workerVars
<1>1. SUFFICES ASSUME NEW r \in RunningReqs', computed'[r] = tokens'[r]
               PROVE  AwaitsSample(r)'
  BY DEF RunInv, AwaitsSample
<1>t. TypeOK /\ TypeOK'
  BY StepTypes DEF IInv
<1>r. r \in Requests /\ r \in live' /\ status'[r] = "RUNNING"
  BY <1>1, <1>t DEF RunningReqs, Unfinished, TypeOK
<1>n. /\ status \in [Requests -> Statuses] /\ computed \in [Requests -> Nat]
      /\ tokens \in [Requests -> Nat] /\ sched \in [Requests -> Nat]
      /\ computed[r] \in Nat /\ tokens[r] \in Nat /\ sched[r] \in Nat
  BY <1>t, <1>r DEF TypeOK
<1>2. ASSUME r \in live, status[r] = "RUNNING", computed[r] = tokens[r], ~Answers(r)
      PROVE  AwaitsSample(r)'
  <2>1. r \in RunningReqs /\ r \in Unfinished
    BY <1>2 DEF RunningReqs, Unfinished, IsFinished, FinishedStatuses
  <2>2. AwaitsSample(r)
    BY <1>2, <2>1 DEF RunInv
  <2> QED BY <1>2, <2>1, <2>2, SampleAwaited
<1>3. CASE KeepGoing(r)
  <2>1. computed'[r] = computed[r] /\ tokens'[r] = tokens[r] + 1 /\ pc = "update"
        /\ status' = status /\ live' = live /\ sched' = sched
    BY <1>3, <1>n, <1>r DEF KeepGoing, AppendToken, GetsToken
  <2>2. r \in Unfinished
    BY <1>r, <2>1 DEF Unfinished, IsFinished, FinishedStatuses
  <2>3. computed[r] + sched[r] <= tokens[r]
    BY <2>2 DEF IInv, LengthInv
  <2>4. computed[r] = tokens[r] + 1
    BY <1>1, <2>1
  <2> QED BY <1>n, <2>3, <2>4
<1>4. CASE FinishStopped(r) \/ ContinueSession(r) \/ AwaitSession(r) \/ CallTool(r)
  <2>1. \E s \in Statuses \ {"RUNNING"} : status' = [status EXCEPT ![r] = s]
    BY <1>4 DEF FinishStopped, ContinueSession, AwaitSession, CallTool, StopStatuses,
       UpdateRequestAsSession, Statuses, QueuedStatuses, BlockedStatuses, FinishedStatuses
  <2> QED BY <1>n, <1>r, <2>1
<1>5. CASE FinishSchedule
  <2>1. /\ computed' = [q \in Requests |-> computed[q] + sched[q]]
        /\ UNCHANGED <<live, status, tokens, batch>>
        /\ inflight' = Append(inflight, NewBatch)
    BY <1>5 DEF FinishSchedule, ComputedAfterSchedule
  <2>2. CASE sched[r] = 0
    <3>1. ~Answers(r)
      BY <1>5, <2>1 DEF FinishSchedule, ScheduleOver, Answers, KeepGoing, FinishStopped,
         ContinueSession, AwaitSession, CallTool, GetsToken
    <3> QED BY <1>1, <1>2, <1>n, <1>r, <2>1, <2>2, <3>1
  <2>3. CASE sched[r] > 0
    <3>1. computed[r] + sched[r] = tokens[r] /\ tokens[r] > 0
      BY <1>1, <1>n, <1>r, <2>1, <2>3
    <3>2. NewBatch.pos[r] > 0
      BY <1>n, <1>r, <2>3, <3>1 DEF NewBatch
    <3>3. NewBatch \in Batches
      BY <1>t DEF NewBatch, Batches, Scheduled, TypeOK
    <3>4. Len(inflight') = Len(inflight) + 1 /\ inflight'[Len(inflight) + 1] = NewBatch
          /\ Len(inflight) \in Nat
      BY <1>t, <2>1, <3>3, AppendProperties, LenProperties DEF TypeOK
    <3>5. Len(inflight) + 1 \in 1..Len(inflight')
      BY <3>4
    <3> QED BY <3>2, <3>4, <3>5 DEF AwaitsSample
  <2> QED BY <1>n, <2>2, <2>3
<1>6. CASE PreemptRequest(r) \/ ((PromoteBlocked \/ StartLoad) /\ r = Candidate)
  <2>1. \E s \in Statuses \ {"RUNNING"} : status' = [status EXCEPT ![r] = s]
    BY <1>6 DEF PreemptRequest, PromoteBlocked, StartLoad, Statuses, QueuedStatuses,
       BlockedStatuses
  <2> QED BY <1>n, <1>r, <2>1
<1>7. CASE AdmitCandidate /\ r = Candidate
  <2>1. PICK hit \in SyncHits : computed' = [computed EXCEPT ![Candidate] = Start(hit)]
    BY <1>7, Zenon DEF AdmitCandidate
  <2>2. Schedulable /\ tokens' = tokens
    BY <1>7 DEF AdmitCandidate
  <2>3. Start(hit) \in Nat /\ Granted(hit) \in Nat /\ Granted(hit) > 0
        /\ Start(hit) + Granted(hit) <= tokens[r]
    BY <1>7, <2>2, TokensToAdmit
  <2>4. computed'[r] = Start(hit)
    BY <1>7, <1>n, <1>r, <2>1
  <2> QED BY <1>1, <1>n, <2>2, <2>3, <2>4
<1>8. CASE AddRequest(r) \/ AbortRequest(r) \/ CloseSession(r) \/ StartNextChunk(r)
  <2>1. \E s \in Statuses \ {"RUNNING"} : status' = [status EXCEPT ![r] = s]
    BY <1>8 DEF AddRequest, AbortRequest, CloseSession, FinishRequest, StartNextChunk,
       UpdateRequestAsSession, Statuses, QueuedStatuses, BlockedStatuses, FinishedStatuses
  <2> QED BY <1>n, <1>r, <2>1
<1>9. CASE \/ Same(r) \/ ScheduleRunning
           \/ FinishedRecving(r) \/ FinishedSending(r)
           \/ QueueUpdate(r, "chunk") \/ QueueUpdate(r, "end")
  <2>1. /\ status'[r] = status[r] /\ computed'[r] = computed[r] /\ tokens'[r] = tokens[r]
        /\ r \in live
    <3>1. CASE Same(r)
      BY <1>r, <3>1 DEF Same
    <3>2. CASE ScheduleRunning
      BY <1>r, <3>2 DEF ScheduleRunning
    <3>3. CASE FinishedRecving(r) \/ FinishedSending(r)
      BY <3>3 DEF FinishedRecving, FinishedSending
    <3>4. CASE QueueUpdate(r, "chunk") \/ QueueUpdate(r, "end")
      BY <3>4 DEF QueueUpdate
    <3> QED BY <1>9, <3>1, <3>2, <3>3, <3>4
  <2> QED BY <1>1, <1>2, <1>3, <1>4, <1>r, <2>1 DEF Answers
<1> QED BY <1>3, <1>4, <1>5, <1>6, <1>7, <1>8, <1>9, <1>r, Touched

\* With one batch at a time no running request waits for a sample during
\* schedule(), so each has tokens to compute and none is passed over.
LEMMA RunnerHasTokens ==
  ASSUME IInv, RunInv, MaxInFlight = 1, Planning, NEW r \in RunningReqs
  PROVE  computed[r] < tokens[r]
<1>1. r \in Unfinished /\ r \in Requests
  BY DEF RunningReqs, Unfinished, IInv, TypeOK
<1>2. computed[r] \in Nat /\ tokens[r] \in Nat /\ sched[r] \in Nat
  BY <1>1 DEF IInv, TypeOK
<1>3. computed[r] + sched[r] <= tokens[r]
  BY <1>1 DEF IInv, LengthInv
<1>4. ~AwaitsSample(r)
  <2>1. batch.pos[r] = 0
    BY <1>1 DEF IInv, AtRest, Planning
  <2>2. Len(inflight) < 1 /\ Len(inflight) \in Nat
    BY LenProperties DEF IInv, SamplesInv, InflightInv, TypeOK
  <2> QED BY <2>1, <2>2 DEF AwaitsSample
<1>5. computed[r] # tokens[r]
  BY <1>4 DEF RunInv
<1> QED BY <1>2, <1>3, <1>5

LEMMA NobodySkipped ==
  ASSUME IInv, RunInv, MaxInFlight = 1, InRunningLoop
  PROVE  NumNewTokens(running[reqIndex]) # 0
<1> DEFINE r == running[reqIndex]
<1>1. r \in Requests /\ r \in RunningReqs /\ tokens[r] < MaxModelLen
  BY NextToRun
<1>2. computed[r] < tokens[r]
  BY <1>1, RunnerHasTokens DEF InRunningLoop, Planning
<1>3. computed[r] \in Nat /\ tokens[r] \in Nat /\ MaxModelLen \in Nat
  BY <1>1, SchedulerAssumption DEF IInv, TypeOK
<1>4. budget > 0 /\ budget \in Int
  BY DEF InRunningLoop, IInv, TypeOK
<1> HIDE DEF r
<1> DEFINE c == Capped(tokens[r] - computed[r])
           m == MaxModelLen - 1 - computed[r]
<1>5. tokens[r] - computed[r] \in Nat /\ tokens[r] - computed[r] > 0
  BY <1>2, <1>3
<1>6. c \in Nat /\ c > 0
  BY <1>5, CappedBounds
<1>7. m \in Nat /\ m > 0
  BY <1>1, <1>2, <1>3
<1>8. NumNewTokens(r) = Least(Least(c, budget), m)
  BY DEF NumNewTokens
<1> HIDE DEF c, m
<1>9. NumNewTokens(r) # 0
  BY <1>4, <1>6, <1>7, <1>8 DEF Least
<1> QED BY <1>9 DEF r

LEMMA LoopFrame ==
  ASSUME LoopInv, UNCHANGED <<pc, running, sched, preempted, budget, reqIndex, cur>>
  PROVE  LoopInv'
BY DEF LoopInv, Scheduled, InRunningPhase

LEMMA RunningLoopInv ==
  ASSUME IInv, RunInv, LoopInv, MaxInFlight = 1, [Next]_vars, RunningLoop
  PROVE  LoopInv'
<1> USE DEF queueVars, idVars, tokenVars, sessionVars, kvVars, stepVars, updateVars,
            hookVars, workerVars
<1>t. /\ reqIndex \in Nat /\ budget \in Int /\ sched \in [Requests -> Nat] /\ numNew \in Nat
      /\ running \in Seq(Requests) /\ Len(running) \in Nat
  BY LenProperties DEF IInv, TypeOK
<1>1. CASE SkipRunning
  BY <1>1, NobodySkipped DEF SkipRunning
<1>2. CASE PickRunning
  <2>1. /\ pc = "running" /\ pc' = "alloc" /\ reqIndex <= Len(running)
        /\ cur' = running[reqIndex] /\ UNCHANGED <<running, sched, preempted, reqIndex>>
    BY <1>2 DEF PickRunning, InRunningLoop
  <2> QED BY <2>1 DEF LoopInv, InRunningPhase
<1>3. CASE ScheduleRunning
  <2>1. /\ pc = "alloc" /\ pc' = "running" /\ sched' = [sched EXCEPT ![cur] = numNew]
        /\ reqIndex' = reqIndex + 1 /\ UNCHANGED <<running, preempted>>
    BY <1>3 DEF ScheduleRunning
  <2>2. numNew > 0
    BY <2>1 DEF IInv, PlanInv
  <2>3. ASSUME preempted = {}, NEW j \in 1..Len(running), j < reqIndex + 1
        PROVE  sched'[running[j]] > 0
    <3>1. running[j] \in Requests
      BY <1>t, ElementOfSeq
    <3>2. running[reqIndex] = cur /\ (j < reqIndex => sched[running[j]] > 0)
      BY <2>1, <2>3 DEF LoopInv, InRunningPhase
    <3>3. CASE running[j] = cur
      BY <1>t, <2>1, <2>2, <3>1, <3>3
    <3>4. CASE running[j] # cur
      <4>1. j < reqIndex
        BY <1>t, <2>3, <3>2, <3>4
      <4> QED BY <1>t, <2>1, <3>1, <3>2, <3>4, <4>1
    <3> QED BY <3>3, <3>4
  <2> QED BY <2>1, <2>3 DEF LoopInv, InRunningPhase
<1>4. CASE PreemptVictim
  <2>1. preempted' # {} /\ pc' \in {"alloc", "post"}
    <3>1. pc = "alloc"
      BY <1>4 DEF PreemptVictim
    <3> QED BY <1>4, <3>1, VictimFacts
  <2> QED BY <2>1 DEF LoopInv
<1>5. CASE EndRunningLoop
  <2>1. /\ RunningLoopOver /\ UNCHANGED <<running, sched, budget>>
        /\ pc' = IF preempted = {} /\ pauseState = "UNPAUSED" THEN "waiting" ELSE "output"
    BY <1>5 DEF EndRunningLoop
  <2>2. ASSUME pc' = "waiting", budget # 0
        PROVE  Members(running) \subseteq Scheduled
    <3>1. preempted = {}
      BY <2>1, <2>2
    <3>2. pc = "running" /\ ~InRunningLoop
      BY <2>1, <3>1 DEF LoopInv, RunningLoopOver
    <3>3. budget >= 0
      BY <3>2 DEF IInv, PlanInv, Planning
    <3>4. reqIndex > Len(running)
      BY <1>t, <2>2, <3>2, <3>3 DEF InRunningLoop
    <3>5. ASSUME NEW j \in 1..Len(running)
          PROVE  running[j] \in Scheduled
      <4>1. j < reqIndex
        BY <1>t, <3>4
      <4>2. sched[running[j]] > 0
        BY <3>1, <3>2, <4>1 DEF LoopInv, InRunningPhase
      <4>3. running[j] \in Requests
        BY <1>t, ElementOfSeq
      <4> QED BY <4>2, <4>3 DEF Scheduled
    <3> QED BY <3>5 DEF Members
  <2> QED BY <2>1, <2>2 DEF LoopInv, Scheduled, InRunningPhase
<1> QED BY <1>1, <1>2, <1>3, <1>4, <1>5 DEF RunningLoop

\* Who is admitted is scheduled at once.
LEMMA AdmittedScheduled ==
  ASSUME IInv, [Next]_vars, AdmitCandidate
  PROVE  /\ Schedulable /\ ~LoraFull /\ pc = "waiting" /\ pc' = "waiting" /\ budget > 0
         /\ Candidate \in Requests
         /\ Members(running') = Members(running) \cup {Candidate}
         /\ Scheduled' = Scheduled \cup {Candidate}
<1>1. Schedulable /\ ~LoraFull /\ running' = Append(running, Candidate) /\ pc' = pc
  BY DEF AdmitCandidate
<1>2. pc = "waiting" /\ budget > 0 /\ Candidate \in Requests
  BY <1>1, CandidateQueued DEF Schedulable
<1>3. Members(running') = Members(running) \cup {Candidate}
  BY <1>1, <1>2, AppendMembers DEF IInv, TypeOK
<1>4. PICK hit \in SyncHits : sched' = [sched EXCEPT ![Candidate] = Granted(hit)]
  BY Zenon DEF AdmitCandidate
<1>5. Granted(hit) > 0
  BY <1>1, TokensToAdmit
<1>6. sched \in [Requests -> Nat]
  BY DEF IInv, TypeOK
<1>7. Scheduled' = Scheduled \cup {Candidate}
  BY <1>2, <1>4, <1>5, <1>6 DEF Scheduled
<1> QED BY <1>1, <1>2, <1>3, <1>7

LEMMA StepLoopInv ==
  ASSUME IInv, RunInv, LoopInv, MaxInFlight = 1, [Next]_vars
  PROVE  LoopInv'
<1> USE DEF queueVars, idVars, tokenVars, sessionVars, kvVars, stepVars, updateVars,
            hookVars, workerVars
<1>1. ASSUME pc' \in {"idle", "output", "update", "remove", "kv", "reset"}
      PROVE  LoopInv'
  BY <1>1 DEF LoopInv, InRunningPhase
<1>2. CASE Quiet
  <2>1. CASE BeginSchedule
    BY <2>1 DEF BeginSchedule, LoopInv, InRunningPhase
  <2>2. CASE SkipRunning \/ PickRunning \/ EndRunningLoop
    BY <2>2, RunningLoopInv DEF RunningLoop
  <2>3. CASE \/ LoadDoesNotFit \/ ChunkTooBig \/ NoBlocksLeft \/ BeginUpdate \/ EndOutputs
             \/ EndUpdate \/ BeginReset \/ EndReset
    <3>1. pc' \in {"idle", "output", "update", "remove", "kv", "reset"}
      BY <2>3 DEF LoadDoesNotFit, ChunkTooBig, NoBlocksLeft, BreakWaiting, BeginUpdate,
         EndOutputs, EndUpdate, BeginReset, EndReset
    <3> QED BY <1>1, <3>1
  <2>4. ASSUME NEW r \in Requests, SkipOutput(r) \/ CompileGrammar(r) \/ SubmitToolResponse(r)
        PROVE  LoopInv'
    BY <2>4, LoopFrame DEF SkipOutput, CompileGrammar, SubmitToolResponse
  <2>5. ASSUME NEW s \in PauseStates, SetPauseState(s)
        PROVE  LoopInv'
    BY <2>5, LoopFrame DEF SetPauseState
  <2>6. CASE UNCHANGED vars
    BY <2>6, LoopFrame DEF vars
  <2> QED BY <1>2, <2>1, <2>2, <2>3, <2>4, <2>5, <2>6 DEF Quiet
<1>3. CASE ScheduleRunning \/ PreemptVictim
  BY <1>3, RunningLoopInv DEF RunningLoop
<1>4. CASE SkipStep \/ PromoteBlocked \/ StartLoad
  BY <1>4, LoopFrame DEF SkipStep, SkipBlocked, SkipForLora, SkipForConnector, SkipCandidate,
     PromoteBlocked, StartLoad
<1>5. CASE AdmitCandidate
  <2>1. Members(running) \subseteq Scheduled
    BY <1>5, AdmittedScheduled DEF LoopInv
  <2>2. Members(running') \subseteq Scheduled' /\ pc' = "waiting"
    BY <1>5, <2>1, AdmittedScheduled
  <2> QED BY <2>2 DEF LoopInv, InRunningPhase
<1>6. CASE FinishSchedule \/ RemoveStoppedRunning \/ RemoveStoppedPreempted \/ EndRemoval
           \/ ResetPreempt
  <2>1. pc' \in {"idle", "remove", "kv", "reset"}
    BY <1>6 DEF FinishSchedule, RemoveStoppedRunning, RemoveStoppedPreempted, EndRemoval,
       ResetPreempt
  <2> QED BY <1>1, <2>1
<1>7. ASSUME NEW r \in Requests,
             \/ KeepGoing(r) \/ FinishStopped(r) \/ ContinueSession(r) \/ AwaitSession(r)
             \/ CallTool(r) \/ FinishedRecving(r) \/ FinishedSending(r)
             \/ AddRequest(r) \/ AbortRequest(r) \/ CloseSession(r) \/ StartNextChunk(r)
             \/ QueueUpdate(r, "chunk") \/ QueueUpdate(r, "end")
      PROVE  LoopInv'
  <2>1. pc' \in {"update", "kv", "idle"}
    BY <1>7 DEF KeepGoing, FinishStopped, ContinueSession, AwaitSession, CallTool,
       FinishedRecving, FinishedSending, GetsToken, AddRequest, AbortRequest, CloseSession,
       FinishRequest, StartNextChunk, QueueUpdate, BetweenSteps
  <2> QED BY <1>1, <2>1
<1> QED BY <1>2, <1>3, <1>4, <1>5, <1>6, <1>7, StepCases

\* The requests that leave running take no adapter with them that others need;
\* only an admission adds one.
LEMMA RunningShrinks ==
  ASSUME IInv, [Next]_vars, ~AdmitCandidate
  PROVE  Members(running') \subseteq Members(running)
<1> USE DEF queueVars, idVars, tokenVars, sessionVars, kvVars, stepVars, updateVars,
            hookVars, workerVars
<1>t. running \in Seq(Requests) /\ Len(running) \in Nat /\ NoDuplicates(running)
  BY LenProperties DEF IInv, TypeOK, QueueInv
<1>1. ASSUME running' = running
      PROVE  Members(running') \subseteq Members(running)
  BY <1>1
<1>2. ASSUME NEW i \in 1..Len(running), running' = RemoveAt(running, i)
      PROVE  Members(running') \subseteq Members(running)
  BY <1>t, <1>2, RemoveAtMembers
<1>3. CASE Quiet
  BY <1>1, <1>3, QuietFrame DEF quietVars
<1>4. CASE ScheduleRunning \/ SkipStep \/ PromoteBlocked \/ StartLoad \/ FinishSchedule
           \/ RemoveStoppedPreempted \/ EndRemoval
  BY <1>1, <1>4 DEF ScheduleRunning, SkipStep, SkipBlocked, SkipForLora, SkipForConnector,
     SkipCandidate, PromoteBlocked, StartLoad, FinishSchedule, RemoveStoppedPreempted, EndRemoval
<1>5. CASE PreemptVictim
  BY <1>2, <1>5, VictimFacts
<1>6. CASE RemoveStoppedRunning
  BY <1>2, <1>6 DEF RemoveStoppedRunning
<1>7. CASE ResetPreempt
  <2>1. running # <<>> /\ running' = RemoveAt(running, Len(running))
    BY <1>7 DEF ResetPreempt
  <2>2. Len(running) \in 1..Len(running)
    BY <1>t, <2>1, EmptySeq
  <2> QED BY <1>2, <2>1, <2>2
<1>8. ASSUME NEW r \in Requests,
             \/ KeepGoing(r) \/ FinishStopped(r) \/ ContinueSession(r) \/ AwaitSession(r)
             \/ CallTool(r) \/ FinishedRecving(r) \/ FinishedSending(r) \/ AddRequest(r)
             \/ StartNextChunk(r) \/ QueueUpdate(r, "chunk") \/ QueueUpdate(r, "end")
      PROVE  Members(running') \subseteq Members(running)
  BY <1>1, <1>8 DEF KeepGoing, FinishStopped, ContinueSession, AwaitSession, CallTool,
     FinishedRecving, FinishedSending, AddRequest, StartNextChunk, QueueUpdate
<1>9. ASSUME NEW r \in Requests, AbortRequest(r) \/ CloseSession(r)
      PROVE  Members(running') \subseteq Members(running)
  <2>1. running' = running \/ running' = Without(running, r)
    BY <1>9 DEF AbortRequest, CloseSession, FinishRequest, LeaveQueues
  <2>2. Members(Without(running, r)) = Members(running) \ {r}
    BY <1>t, WithoutMembers
  <2> QED BY <2>1, <2>2
<1> QED BY <1>3, <1>4, <1>5, <1>6, <1>7, <1>8, <1>9, StepCases

LEMMA LorasFinite ==
  ASSUME IInv
  PROVE  /\ IsFiniteSet(RunningLoras) /\ Cardinality(RunningLoras) \in Nat
         /\ ScheduledLoras \subseteq RunningLoras \/ pc \in {"update", "remove"}
<1> DEFINE M == Members(running)
           L == {Lora[r] : r \in M}
           f == [r \in M |-> Lora[r]]
<1>1. IsFiniteSet(M)
  BY QueueLength DEF IInv, TypeOK, QueueInv
<1>2. f \in Surjection(M, L)
  BY DEF Surjection
<1>3. IsFiniteSet(L)
  <2> HIDE DEF M, L, f
  <2> QED BY <1>1, <1>2, FS_Surjection
<1>4. RunningLoras \subseteq L
  BY DEF RunningLoras
<1>5. IsFiniteSet(RunningLoras)
  <2> HIDE DEF L
  <2> QED BY <1>3, <1>4, FS_Subset
<1>6. ASSUME pc \notin {"update", "remove"}
      PROVE  ScheduledLoras \subseteq RunningLoras
  <2>1. Scheduled \subseteq Members(running)
    BY <1>6, RunningAgrees DEF IInv, PlanInv
  <2> QED BY <2>1 DEF ScheduledLoras, RunningLoras
<1> QED BY <1>5, <1>6, FS_CardinalityType

LEMMA StepLoraInv ==
  ASSUME IInv, LoopInv, LoraInv, [Next]_vars
  PROVE  LoraInv'
<1>1. SUFFICES ASSUME MaxLoras > 0
               PROVE  Cardinality(RunningLoras') <= MaxLoras
  BY DEF LoraInv
<1>2. /\ IsFiniteSet(RunningLoras) /\ Cardinality(RunningLoras) \in Nat
      /\ Cardinality(RunningLoras) <= MaxLoras /\ MaxLoras \in Nat
  BY <1>1, LorasFinite, SchedulerAssumption DEF LoraInv
<1>3. ASSUME RunningLoras' \subseteq RunningLoras
      PROVE  Cardinality(RunningLoras') <= MaxLoras
  <2>1. IsFiniteSet(RunningLoras') /\ Cardinality(RunningLoras') <= Cardinality(RunningLoras)
    BY <1>2, <1>3, FS_Subset
  <2>2. Cardinality(RunningLoras') \in Nat
    BY <2>1, FS_CardinalityType
  <2> QED BY <1>2, <2>1, <2>2
<1>4. CASE ~AdmitCandidate
  <2>1. RunningLoras' \subseteq RunningLoras
    BY <1>4, RunningShrinks DEF RunningLoras
  <2> QED BY <1>3, <2>1
<1>5. CASE AdmitCandidate
  <2>1. /\ ~LoraFull /\ pc = "waiting" /\ budget > 0 /\ Candidate \in Requests
        /\ Members(running') = Members(running) \cup {Candidate}
    BY <1>5, AdmittedScheduled
  <2>2. RunningLoras' = (RunningLoras \cup {Lora[Candidate]}) \ {0}
    BY <2>1 DEF RunningLoras
  <2>3. Lora[Candidate] \in Nat
    BY <2>1, SchedulerAssumption
  <2>4. CASE Lora[Candidate] = 0 \/ Lora[Candidate] \in RunningLoras
    <3>1. RunningLoras' \subseteq RunningLoras
      BY <2>2, <2>4
    <3> QED BY <1>3, <3>1
  <2>5. CASE Lora[Candidate] > 0 /\ Lora[Candidate] \notin RunningLoras
    <3>1. ScheduledLoras = RunningLoras
      <4>1. Members(running) \subseteq Scheduled
        BY <2>1 DEF LoopInv
      <4>2. RunningLoras \subseteq ScheduledLoras
        BY <4>1 DEF RunningLoras, ScheduledLoras
      <4> QED BY <2>1, <4>2, LorasFinite
    <3>2. Cardinality(RunningLoras) # MaxLoras
      BY <1>1, <2>1, <2>5, <3>1 DEF LoraFull
    <3>3. RunningLoras' = RunningLoras \cup {Lora[Candidate]}
      BY <2>2, <2>5 DEF RunningLoras
    <3> DEFINE A == RunningLoras
               a == Lora[Candidate]
    <3> HIDE DEF A, a
    <3>4. Cardinality(A \cup {a}) = Cardinality(A) + 1
      BY <1>2, <2>5, FS_AddElement DEF A, a
    <3>5. Cardinality(A) + 1 <= MaxLoras
      BY <1>2, <3>2 DEF A
    <3> QED BY <3>3, <3>4, <3>5 DEF A, a
  <2> QED BY <2>3, <2>4, <2>5
<1> QED BY <1>4, <1>5

\* The requests of a step use at most max_loras adapters, when the executor works
\* on one batch at a time.  (With two a running request may be passed over, and
\* the adapters of those that were not are all that schedule() counts: a run
\* shows its assertion fail.)
THEOREM AdaptersFit ==
  ASSUME EngineAssumption, MaxInFlight = 1
  PROVE  Spec => []LorasFit
<1>1. Init => LoraIInv
  BY InitLoraIInv
<1>2. ASSUME IInv, LoraIInv, [Next]_vars
      PROVE  LoraIInv'
  BY <1>2, StepRunInv, StepLoopInv, StepLoraInv DEF LoraIInv
<1>3. IInv /\ LoraIInv => LorasFit
  <2> SUFFICES ASSUME IInv, LoraIInv, MaxLoras > 0, pc \in {"running", "post"}
               PROVE  Cardinality(ScheduledLoras) <= MaxLoras
    BY DEF LorasFit, RunningLoopOver
  <2>1. /\ IsFiniteSet(RunningLoras) /\ Cardinality(RunningLoras) \in Nat
        /\ ScheduledLoras \subseteq RunningLoras
    BY LorasFinite
  <2>2. IsFiniteSet(ScheduledLoras) /\ Cardinality(ScheduledLoras) <= Cardinality(RunningLoras)
    BY <2>1, FS_Subset
  <2>3. Cardinality(ScheduledLoras) \in Nat /\ Cardinality(RunningLoras) <= MaxLoras
    BY <2>2, FS_CardinalityType DEF LoraIInv, LoraInv
  <2> QED BY <2>1, <2>2, <2>3, SchedulerAssumption
<1> QED BY <1>1, <1>2, <1>3, Inductive, PTL DEF Spec

==============================================================================
