------------------------------ MODULE Scheduler ------------------------------
(***************************************************************************)
(* The Scheduler class of vllm_v1_core_sched/scheduler.py with the EDMM    *)
(* tool-call status: the request queues, the two loops of schedule(), the  *)
(* per-request loop of update_from_output(), and the calls the engine      *)
(* makes between them.  The engine thread runs one method at a time, so pc *)
(* says where in a method it is, and a step is one turn of a loop.         *)
(*                                                                         *)
(* Encoder inputs, Mamba alignment and draft tokens are in StepTokens,     *)
(* failed KV loads and prefix-cache hits in KvRecovery.  Left out: routed  *)
(* experts and the placeholders of a scheduler for asynchronous output.    *)
(***************************************************************************)
EXTENDS RequestStatus, RequestQueue, Integers, FiniteSets

CONSTANTS
  NoReq,              \* no request
  PromptLen,          \* PromptLen[r]: tokens of r's prompt
  MaxOutput,          \* MaxOutput[r]: r's max_tokens
  MaxModelLen,        \* max_model_len
  NumBlocks,          \* KV blocks in the pool
  BlockSize,          \* tokens per KV block
  MaxRunning,         \* max_num_running_reqs
  TokenBudget,        \* max_num_scheduled_tokens
  PrefillThreshold,   \* long_prefill_token_threshold
  ChunkedPrefill,     \* enable_chunked_prefill
  ReserveFullPrompt,  \* scheduler_reserve_full_isl
  Lora,               \* Lora[r]: r's lora_int_id, 0 for none
  MaxLoras,           \* lora_config.max_loras, 0 without lora_config
  GrammarUsers,       \* requests with structured output
  Resumable,          \* streaming sessions
  MaxUpdates,         \* bound: streaming updates a session receives
  ToolUsers,          \* requests whose output may call a tool
  MaxToolCalls,       \* bound: tool calls of one request
  RemoteLoaders,      \* requests the KV connector knows
  DelayedSenders,     \* requests whose blocks are sent on after they finish
  MaxInFlight,        \* max_concurrent_batches of the executor
  PauseStates,        \* values set_pause_state is called with
  MayAbort,           \* requests a client may abort
  MayReset            \* whether reset_prefix_cache(True) is called

ASSUME SchedulerAssumption ==
  /\ NoReq \notin Requests
  /\ PromptLen \in [Requests -> Nat \ {0}]
  /\ MaxOutput \in [Requests -> Nat \ {0}]
  /\ NumBlocks \in Nat /\ BlockSize \in Nat \ {0}
  /\ MaxModelLen \in Nat /\ \A r \in Requests : PromptLen[r] < MaxModelLen
  /\ MaxRunning \in Nat \ {0} /\ TokenBudget \in Nat \ {0}
  /\ PrefillThreshold \in Nat
  /\ ChunkedPrefill \in BOOLEAN /\ ReserveFullPrompt \in BOOLEAN
  /\ Lora \in [Requests -> Nat] /\ MaxLoras \in Nat
  /\ GrammarUsers \subseteq Requests /\ Resumable \subseteq Requests
  /\ ToolUsers \subseteq Requests /\ RemoteLoaders \subseteq Requests
  /\ DelayedSenders \subseteq Requests /\ MayAbort \subseteq Requests
  /\ MaxUpdates \in Nat /\ MaxToolCalls \in Nat
  /\ MaxInFlight \in Nat \ {0}
  /\ PauseStates \subseteq {"UNPAUSED", "PAUSED_NEW", "PAUSED_ALL"}
  /\ MayReset \in BOOLEAN

VARIABLES
  \* queues
  waiting, skipped,     \* self.waiting, self.skipped_waiting
  running,              \* self.running
  \* requests
  arrived,              \* ids ever added
  live,                 \* keys of self.requests
  status, computed, tokens, prompt, output,
                        \* status, num_computed_tokens, num_tokens,
                        \* num_prompt_tokens, num_output_tokens
  everPreempted,        \* requests with num_preemptions > 0
  streamQueue,          \* streaming_queue
  numWaitingStreaming,  \* num_waiting_for_streaming_input
  \* KV blocks
  blocks, freeBlocks,   \* blocks each request holds, and free ones
  \* locals of the method in progress
  pc, reqIndex, cur, numNew, budget, sched, preempted, newReqs, resumedReqs,
  stepSkipped,          \* step_skipped_waiting
  batch,                \* the scheduler output being processed
  stoppedRunning, stoppedPreempted,
  \* between steps
  prevScheduled,        \* prev_step_scheduled_req_ids
  finishedIds,          \* finished_req_ids
  pauseState,           \* _pause_state
  inflight,             \* scheduler outputs the executor has not answered
  \* other threads and the workers
  grammarReady,         \* requests whose grammar is compiled
  toolAsked,            \* toolAsked[r]: tool calls r made
  toolWaits,            \* tool calls not yet answered
  activePauses, toolResponses,  \* the hook's two dictionaries
  loading, sending,     \* KV transfers under way in the workers
  finishedRecving,      \* finished_recving_kv_req_ids
  updatesLeft           \* updatesLeft[r]: updates the client may still send

queueVars  == <<waiting, skipped, running>>
tokenVars  == <<computed, tokens, prompt, output>>
kvVars     == <<blocks, freeBlocks>>
sessionVars == <<streamQueue, numWaitingStreaming, updatesLeft>>
stepVars   == <<reqIndex, cur, numNew, budget, sched, preempted, newReqs,
                resumedReqs, stepSkipped>>
updateVars == <<batch, stoppedRunning, stoppedPreempted>>
hookVars   == <<toolAsked, toolWaits, activePauses, toolResponses>>
workerVars == <<loading, sending, finishedRecving>>
idVars     == <<arrived, live>>
vars == <<queueVars, idVars, status, tokenVars, everPreempted, sessionVars,
          kvVars, pc, stepVars, updateVars, prevScheduled, finishedIds,
          pauseState, inflight, grammarReady, hookVars, workerVars>>

\* A scheduler output, as far as update_from_output reads it: pos[r] is the
\* number of tokens r had when the step that samples a token for it was
\* scheduled; chunks are the requests scheduled for part of their prefill.
Batches == [pos : [Requests -> Nat], chunks : SUBSET Requests]
NoBatch == [pos |-> [r \in Requests |-> 0], chunks |-> {}]
BatchReqs(b) == {r \in Requests : b.pos[r] > 0} \cup b.chunks

TypeOK ==
  /\ waiting \in Seq(Requests)
  /\ skipped \in Seq(Requests)
  /\ running \in Seq(Requests)
  /\ arrived \subseteq Requests
  /\ live \subseteq arrived
  /\ status \in [Requests -> Statuses]
  /\ computed \in [Requests -> Nat]
  /\ tokens \in [Requests -> Nat]
  /\ prompt \in [Requests -> Nat]
  /\ output \in [Requests -> Nat]
  /\ everPreempted \subseteq Requests
  /\ streamQueue \in [Requests -> Seq({"chunk", "end"})]
  /\ numWaitingStreaming \in Int
  /\ updatesLeft \in [Requests -> Nat]
  /\ blocks \in [Requests -> Nat]
  /\ freeBlocks \in 0..NumBlocks
  /\ pc \in {"idle", "running", "alloc", "post", "waiting", "output",
             "update", "remove", "kv", "reset"}
  /\ reqIndex \in Nat
  /\ cur \in Requests \cup {NoReq}
  /\ numNew \in Nat
  /\ budget \in Int
  /\ sched \in [Requests -> Nat]
  /\ preempted \subseteq Requests
  /\ newReqs \subseteq Requests
  /\ resumedReqs \subseteq Requests
  /\ stepSkipped \in Seq(Requests)
  /\ batch \in Batches
  /\ stoppedRunning \subseteq Requests
  /\ stoppedPreempted \subseteq Requests
  /\ prevScheduled \subseteq Requests
  /\ finishedIds \subseteq Requests
  /\ pauseState \in {"UNPAUSED", "PAUSED_NEW", "PAUSED_ALL"}
  /\ inflight \in Seq(Batches)
  /\ grammarReady \subseteq Requests
  /\ toolAsked \in [Requests -> Nat]
  /\ toolWaits \subseteq Requests
  /\ activePauses \subseteq Requests
  /\ toolResponses \subseteq Requests
  /\ loading \subseteq Requests
  /\ sending \subseteq Requests
  /\ finishedRecving \subseteq Requests

Init ==
  /\ waiting = <<>> /\ skipped = <<>> /\ running = <<>>
  /\ arrived = {} /\ live = {}
  /\ status = [r \in Requests |-> "WAITING"]
  /\ computed = [r \in Requests |-> 0]
  /\ tokens = PromptLen
  /\ prompt = PromptLen
  /\ output = [r \in Requests |-> 0]
  /\ everPreempted = {}
  /\ streamQueue = [r \in Requests |-> <<>>]
  /\ numWaitingStreaming = 0
  /\ updatesLeft = [r \in Requests |-> IF r \in Resumable THEN MaxUpdates ELSE 0]
  /\ blocks = [r \in Requests |-> 0]
  /\ freeBlocks = NumBlocks
  /\ pc = "idle"
  /\ reqIndex = 0 /\ cur = NoReq /\ numNew = 0 /\ budget = 0
  /\ sched = [r \in Requests |-> 0]
  /\ preempted = {} /\ newReqs = {} /\ resumedReqs = {}
  /\ stepSkipped = <<>>
  /\ batch = NoBatch /\ stoppedRunning = {} /\ stoppedPreempted = {}
  /\ prevScheduled = {} /\ finishedIds = {}
  /\ pauseState = "UNPAUSED"
  /\ inflight = <<>>
  /\ grammarReady = {}
  /\ toolAsked = [r \in Requests |-> 0]
  /\ toolWaits = {} /\ activePauses = {} /\ toolResponses = {}
  /\ loading = {} /\ sending = {} /\ finishedRecving = {}

------------------------------------------------------------------------------
(* KVCacheManager, as the scheduler uses it (external).                     *)

Least(a, b) == IF a <= b THEN a ELSE b

BlocksFor(n) == (n + BlockSize - 1) \div BlockSize

\* Blocks allocate_slots must add for r to hold n tokens.
Shortage(r, n) == IF BlocksFor(n) > blocks[r] THEN BlocksFor(n) - blocks[r] ELSE 0

\* (Mutant.)  Off by one: one block more than there is.
CanAllocateOneMore(r, n) == Shortage(r, n) <= freeBlocks + 1

\* allocate_slots returns blocks, or None and changes nothing.
CanAllocate(r, n) == Shortage(r, n) <= freeBlocks
Allocate(r, n) ==
  /\ blocks' = [blocks EXCEPT ![r] = @ + Shortage(r, n)]
  /\ freeBlocks' = freeBlocks - Shortage(r, n)

Free(r) ==
  /\ blocks' = [blocks EXCEPT ![r] = 0]
  /\ freeBlocks' = freeBlocks + blocks[r]

------------------------------------------------------------------------------
(* Pieces the methods share.                                                *)

Prepend(r, q) == <<r>> \o q

\* _enqueue_waiting_request, for a request that has status s from now on.
EnqueueWaitingRequest(r, s) ==
  IF IsBlockedWaiting(s)
  THEN skipped' = Append(skipped, r) /\ UNCHANGED waiting
  ELSE waiting' = Append(waiting, r) /\ UNCHANGED skipped

\* (Mutant.)  num_computed_tokens survives the loss of the blocks.
PreemptKeepsComputed(r) ==
  /\ status[r] = "RUNNING"
  /\ Free(r)
  /\ status' = [status EXCEPT ![r] = "PREEMPTED"]
  /\ everPreempted' = everPreempted \cup {r}
  /\ waiting' = Prepend(r, waiting)
  /\ UNCHANGED computed

\* _preempt_request
PreemptRequest(r) ==
  /\ status[r] = "RUNNING"      \* "Only running requests can be preempted"
  /\ Free(r)
  /\ status' = [status EXCEPT ![r] = "PREEMPTED"]
  /\ computed' = [computed EXCEPT ![r] = 0]
  /\ everPreempted' = everPreempted \cup {r}
  /\ waiting' = Prepend(r, waiting)

\* _connector_finished: the connector may keep the blocks of a finished request
\* to send them on.
ConnectorMayDelay(r) == r \in DelayedSenders \ loading

\* _free_request and _free_blocks: r's blocks go back at once or, when delay or
\* when they are sent on, after the KV transfer that uses them.
FreeRequest(r, delay) ==
  /\ finishedIds' = finishedIds \cup {r}
  /\ \E sends \in {FALSE, ConnectorMayDelay(r)} :
        /\ sending' = IF sends THEN sending \cup {r} ELSE sending
        /\ IF delay \/ sends THEN UNCHANGED <<kvVars, live>>
           ELSE Free(r) /\ live' = live \ {r}

\* (Mutant.)  The kept output is not made part of the prompt.
UpdateForgetsOutput(r, len) ==
  /\ tokens' = [tokens EXCEPT ![r] = Least(computed[r], len) + 1]
  /\ prompt' = [prompt EXCEPT ![r] = @ + 1]
  /\ output' = [output EXCEPT ![r] = 0]
  /\ status' = [status EXCEPT ![r] = "WAITING"]

\* _update_request_as_session: keep the computed tokens, make the kept output
\* part of the prompt, append the new chunk (of one token).
UpdateRequestAsSession(r, len) ==
  LET kept == IF computed[r] > prompt[r]
              THEN Least(computed[r], len) - prompt[r] ELSE 0
  IN /\ tokens' = [tokens EXCEPT ![r] = Least(computed[r], len) + 1]
     /\ prompt' = [prompt EXCEPT ![r] = @ + kept + 1]
     /\ output' = [output EXCEPT ![r] = 0]
     /\ status' = [status EXCEPT ![r] = "WAITING"]

(* schedule(): the RUNNING requests.                                        *)

\* (Mutant.)  The skipped queue is not counted.
NumUnfinishedButSkipped ==
  IF pauseState = "PAUSED_ALL" THEN 0
  ELSE IF pauseState = "PAUSED_NEW" THEN Len(running)
  ELSE Len(waiting) - numWaitingStreaming + Len(running)

\* get_num_unfinished_requests and has_finished_requests: what the engine asks
\* before it steps.
NumUnfinished ==
  IF pauseState = "PAUSED_ALL" THEN 0
  ELSE IF pauseState = "PAUSED_NEW" THEN Len(running)
  ELSE Len(waiting) + Len(skipped) - numWaitingStreaming + Len(running)
HasConnector == RemoteLoaders \cup DelayedSenders # {}
HasFinished ==
  \/ finishedIds # {}
  \/ HasConnector /\ Cardinality(live) > Len(waiting) + Len(skipped) + Len(running)

BeginSchedule ==
  /\ pc = "idle"
  /\ Len(inflight) < MaxInFlight
  /\ NumUnfinished > 0 \/ HasFinished
  /\ pc' = "running"
  /\ reqIndex' = 1
  /\ budget' = IF pauseState = "PAUSED_ALL" THEN 0 ELSE TokenBudget
  /\ UNCHANGED <<queueVars, idVars, status, tokenVars, everPreempted, sessionVars,
                 kvVars, cur, numNew, sched, preempted, newReqs, resumedReqs,
                 stepSkipped, updateVars, prevScheduled, finishedIds, pauseState,
                 inflight, grammarReady, hookVars, workerVars>>

Capped(n) == IF PrefillThreshold > 0 /\ PrefillThreshold < n THEN PrefillThreshold ELSE n

\* Tokens schedule() gives a RUNNING request.
NumNewTokens(r) == Least(Least(Capped(tokens[r] - computed[r]), budget),
                         MaxModelLen - 1 - computed[r])

InRunningLoop == pc = "running" /\ reqIndex <= Len(running) /\ budget > 0

\* Nothing to compute for this request in this step: look at the next one.
SkipRunning ==
  /\ InRunningLoop
  /\ NumNewTokens(running[reqIndex]) = 0
  /\ reqIndex' = reqIndex + 1
  /\ UNCHANGED <<queueVars, idVars, status, tokenVars, everPreempted, sessionVars,
                 kvVars, pc, cur, numNew, budget, sched, preempted, newReqs,
                 resumedReqs, stepSkipped, updateVars, prevScheduled, finishedIds,
                 pauseState, inflight, grammarReady, hookVars, workerVars>>

PickRunning ==
  /\ InRunningLoop
  /\ NumNewTokens(running[reqIndex]) # 0
  /\ cur' = running[reqIndex]
  /\ numNew' = NumNewTokens(running[reqIndex])
  /\ pc' = "alloc"
  /\ UNCHANGED <<queueVars, idVars, status, tokenVars, everPreempted, sessionVars,
                 kvVars, reqIndex, budget, sched, preempted, newReqs, resumedReqs,
                 stepSkipped, updateVars, prevScheduled, finishedIds, pauseState,
                 inflight, grammarReady, hookVars, workerVars>>

CurFits == CanAllocate(cur, Least(computed[cur] + numNew, MaxModelLen))

ScheduleRunning ==
  /\ pc = "alloc"
  /\ CurFits
  /\ Allocate(cur, Least(computed[cur] + numNew, MaxModelLen))
  /\ sched' = [sched EXCEPT ![cur] = numNew]
  /\ budget' = budget - numNew
  /\ reqIndex' = reqIndex + 1
  /\ pc' = "running"
  /\ cur' = NoReq /\ numNew' = 0
  /\ UNCHANGED <<queueVars, idVars, status, tokenVars, everPreempted, sessionVars,
                 preempted, newReqs, resumedReqs, stepSkipped, updateVars,
                 prevScheduled, finishedIds, pauseState, inflight, grammarReady,
                 hookVars, workerVars>>

\* Who is preempted: the last request under FCFS, the one Request.__lt__ puts
\* last under PRIORITY.
IsVictim(i) ==
  /\ i \in 1..Len(running)
  /\ Policy = "FCFS" => i = Len(running)
  /\ Policy = "PRIORITY" => \A j \in 1..Len(running) : Rank[running[j]] <= Rank[running[i]]

\* (Mutant.)  What the victim was given in this step is not taken back.
KeepScheduled(victim) == FALSE

\* Under PRIORITY the victim may be scheduled already.
IsScheduled(victim) == Policy = "PRIORITY" /\ sched[victim] > 0

\* What a scheduled victim was given is taken back.  When the victim is the
\* request itself, the loop over RUNNING requests ends.
PreemptVictim ==
  /\ pc = "alloc"
  /\ ~CurFits
  /\ \E i \in 1..Len(running) :
        LET victim == running[i]
        IN /\ IsVictim(i)
           /\ PreemptRequest(victim)
           /\ running' = RemoveAt(running, i)
           /\ preempted' = preempted \cup {victim}
           /\ IF IsScheduled(victim)
              THEN /\ budget' = budget + sched[victim]
                   /\ sched' = [sched EXCEPT ![victim] = 0]
                   /\ reqIndex' = reqIndex - 1
              ELSE UNCHANGED <<budget, sched, reqIndex>>
           /\ IF victim = cur THEN pc' = "post" /\ cur' = NoReq /\ numNew' = 0
              ELSE UNCHANGED <<pc, cur, numNew>>
  /\ UNCHANGED <<skipped, idVars, tokens, prompt, output, sessionVars, newReqs,
                 resumedReqs, stepSkipped, updateVars, prevScheduled, finishedIds,
                 pauseState, inflight, grammarReady, hookVars, workerVars>>

Scheduled == {r \in Requests : sched[r] > 0}
ScheduledLoras == {Lora[r] : r \in Scheduled} \ {0}

RunningLoopOver == pc = "post" \/ (pc = "running" /\ ~InRunningLoop)

\* The waiting queues are looked at only when nothing was preempted.
EndRunningLoop ==
  /\ RunningLoopOver
  /\ MaxLoras > 0 => Cardinality(ScheduledLoras) <= MaxLoras     \* assert
  /\ pc' = IF preempted = {} /\ pauseState = "UNPAUSED" THEN "waiting" ELSE "output"
  /\ UNCHANGED <<queueVars, idVars, status, tokenVars, everPreempted, sessionVars,
                 kvVars, stepVars, updateVars, prevScheduled, finishedIds,
                 pauseState, inflight, grammarReady, hookVars, workerVars>>

------------------------------------------------------------------------------
(* schedule(): the waiting queues.                                          *)

InWaitingLoop ==
  /\ pc = "waiting"
  /\ waiting # <<>> \/ skipped # <<>>
  /\ budget > 0
  /\ Len(running) # MaxRunning

\* _select_waiting_queue_for_scheduling
FromSkipped ==
  IF Policy = "PRIORITY" /\ waiting # <<>> /\ skipped # <<>>
  THEN Rank[skipped[HeadIndex(skipped)]] < Rank[waiting[HeadIndex(waiting)]]
  ELSE skipped # <<>>
HeadQueue == IF FromSkipped THEN skipped ELSE waiting
Candidate == HeadQueue[HeadIndex(HeadQueue)]

PopCandidate ==
  IF FromSkipped
  THEN skipped' = RemoveAt(skipped, HeadIndex(skipped)) /\ UNCHANGED waiting
  ELSE waiting' = RemoveAt(waiting, HeadIndex(waiting)) /\ UNCHANGED skipped

\* The candidate goes to step_skipped_waiting.
SkipCandidate ==
  /\ PopCandidate
  /\ stepSkipped' = Append(stepSkipped, Candidate)
  /\ UNCHANGED <<running, idVars, status, tokenVars, everPreempted, sessionVars,
                 kvVars, pc, reqIndex, cur, numNew, budget, sched, preempted,
                 newReqs, resumedReqs, updateVars, prevScheduled, finishedIds,
                 pauseState, inflight, grammarReady, hookVars, workerVars>>

\* (Mutant.)  The tool-call status has no branch of its own.
PromotableButTool(r) ==
  \/ status[r] = "WAITING_FOR_REMOTE_KVS" /\ r \in finishedRecving
  \/ status[r] = "WAITING_FOR_STRUCTURED_OUTPUT_GRAMMAR" /\ r \in grammarReady

\* _try_promote_blocked_waiting_request succeeds.
Promotable(r) ==
  \/ status[r] = "WAITING_FOR_REMOTE_KVS" /\ r \in finishedRecving
  \/ status[r] = "WAITING_FOR_STRUCTURED_OUTPUT_GRAMMAR" /\ r \in grammarReady
  \/ status[r] = "WAITING_FOR_TOOL_CALL" /\ r \in toolResponses

SkipBlocked ==
  /\ InWaitingLoop
  /\ IsBlockedWaiting(status[Candidate])
  /\ ~Promotable(Candidate)
  /\ status[Candidate] = "WAITING_FOR_STREAMING_REQ" => streamQueue[Candidate] = <<>>
  /\ SkipCandidate

\* (Mutant.)  The response stays and will end the next pause too.
ResponsesKept(r) == toolResponses

ResponsesAfterResume(r) == toolResponses \ {r}

\* The same turn of the loop goes on with the promoted candidate, which is
\* still the head of its queue.
PromoteBlocked ==
  /\ InWaitingLoop
  /\ Promotable(Candidate)
  /\ LET r == Candidate
         remote == status[r] = "WAITING_FOR_REMOTE_KVS"
     IN /\ status' = [status EXCEPT ![r] =
                        IF remote /\ r \in everPreempted THEN "PREEMPTED" ELSE "WAITING"]
        \* _update_waiting_for_remote_kv: recompute the last token of a full hit
        /\ computed' = IF remote /\ computed[r] = tokens[r]
                       THEN [computed EXCEPT ![r] = @ - 1] ELSE computed
        /\ finishedRecving' = IF remote THEN finishedRecving \ {r} ELSE finishedRecving
        \* on_tool_call_resume
        /\ IF status[r] = "WAITING_FOR_TOOL_CALL"
           THEN /\ activePauses' = activePauses \ {r}
                /\ toolResponses' = ResponsesAfterResume(r)
           ELSE UNCHANGED <<activePauses, toolResponses>>
  /\ UNCHANGED <<queueVars, idVars, tokens, prompt, output, everPreempted,
                 sessionVars, kvVars, pc, stepVars, updateVars, prevScheduled,
                 finishedIds, pauseState, inflight, grammarReady, toolAsked,
                 toolWaits, loading, sending>>

Schedulable == InWaitingLoop /\ ~IsBlockedWaiting(status[Candidate])

\* (Mutant.)  Off by one: full only above the limit.
LoraOverfull == /\ MaxLoras > 0
                /\ Lora[Candidate] > 0
                /\ Cardinality(ScheduledLoras) > MaxLoras
                /\ Lora[Candidate] \notin ScheduledLoras

LoraFull == /\ MaxLoras > 0
            /\ Lora[Candidate] > 0
            /\ Cardinality(ScheduledLoras) = MaxLoras
            /\ Lora[Candidate] \notin ScheduledLoras

SkipForLora == Schedulable /\ LoraFull /\ SkipCandidate

\* The connector's get_num_new_matched_tokens, asked for a request that has
\* nothing computed: not known yet, no hit, a hit on all of the prompt but its
\* last token, or an asynchronous load of the prompt.
AskConnector == computed[Candidate] = 0 /\ Candidate \in RemoteLoaders
SyncHits == IF AskConnector THEN {0, prompt[Candidate] - 1} ELSE {0}

SkipForConnector == Schedulable /\ ~LoraFull /\ AskConnector /\ SkipCandidate

BreakWaiting ==
  /\ pc' = "output"
  /\ UNCHANGED <<queueVars, idVars, status, tokenVars, everPreempted, sessionVars,
                 kvVars, stepVars, updateVars, prevScheduled, finishedIds,
                 pauseState, inflight, grammarReady, hookVars, workerVars>>

\* full_sequence_must_fit: the whole sequence has to fit, not just the chunk.
Fits(r, n) ==
  /\ CanAllocate(r, n)
  /\ ReserveFullPrompt => CanAllocate(r, Least(tokens[r], MaxModelLen))

\* Allocate for the tokens to be received and park the request again.
StartLoad ==
  /\ Schedulable /\ ~LoraFull /\ AskConnector
  /\ LET r == Candidate
     IN /\ Fits(r, prompt[r])
        /\ PopCandidate
        /\ Allocate(r, prompt[r])
        /\ status' = [status EXCEPT ![r] = "WAITING_FOR_REMOTE_KVS"]
        /\ computed' = [computed EXCEPT ![r] = prompt[r]]
        /\ stepSkipped' = Append(stepSkipped, r)
        /\ loading' = loading \cup {r}
  /\ UNCHANGED <<running, idVars, tokens, prompt, output, everPreempted,
                 sessionVars, pc, reqIndex, cur, numNew, budget, sched, preempted,
                 newReqs, resumedReqs, updateVars, prevScheduled, finishedIds,
                 pauseState, inflight, grammarReady, hookVars, sending,
                 finishedRecving>>

LoadDoesNotFit ==
  /\ Schedulable /\ ~LoraFull /\ AskConnector
  /\ ~Fits(Candidate, prompt[Candidate])
  /\ BreakWaiting

\* Tokens already there when hit tokens come with the connector's answer, and
\* tokens left to compute.
Start(hit) == IF computed[Candidate] = 0 THEN hit ELSE computed[Candidate]
Wanted(hit) == Capped(tokens[Candidate] - Start(hit))
Granted(hit) == Least(Wanted(hit), budget)

\* Without chunked prefill the whole prompt has to be in the budget.
ChunkTooBig ==
  /\ Schedulable /\ ~LoraFull
  /\ ~ChunkedPrefill
  /\ \E hit \in SyncHits : Wanted(hit) > budget
  /\ BreakWaiting

NoBlocksLeft ==
  /\ Schedulable /\ ~LoraFull
  /\ \E hit \in SyncHits :
        /\ ChunkedPrefill \/ Wanted(hit) <= budget
        /\ ~Fits(Candidate, Start(hit) + Granted(hit))
  /\ BreakWaiting

AdmitCandidate ==
  /\ Schedulable /\ ~LoraFull
  /\ \E hit \in SyncHits :
        LET r == Candidate
            n == Granted(hit)
        IN /\ ChunkedPrefill \/ Wanted(hit) <= budget
           /\ n > 0                                          \* assert
           /\ Fits(r, Start(hit) + n)
           /\ Allocate(r, Start(hit) + n)
           /\ PopCandidate
           /\ running' = Append(running, r)
           /\ IF status[r] = "WAITING"
              THEN newReqs' = newReqs \cup {r} /\ UNCHANGED resumedReqs
              ELSE resumedReqs' = resumedReqs \cup {r} /\ UNCHANGED newReqs
           /\ sched' = [sched EXCEPT ![r] = n]
           /\ budget' = budget - n
           /\ status' = [status EXCEPT ![r] = "RUNNING"]
           /\ computed' = [computed EXCEPT ![r] = Start(hit)]
  /\ UNCHANGED <<idVars, tokens, prompt, output, everPreempted, sessionVars, pc,
                 reqIndex, cur, numNew, preempted, stepSkipped, updateVars,
                 prevScheduled, finishedIds, pauseState, inflight, grammarReady,
                 hookVars, workerVars>>

------------------------------------------------------------------------------
(* schedule(): the output, and _update_after_schedule.                      *)

ScheduleOver == pc = "output" \/ (pc = "waiting" /\ ~InWaitingLoop)

\* The executor's answer will hold a token for every request whose known
\* tokens are all computed by this step.
NewBatch ==
  LET whole(r) == computed[r] + sched[r] >= tokens[r]
  IN [pos    |-> [r \in Requests |-> IF sched[r] > 0 /\ whole(r) THEN tokens[r] ELSE 0],
      chunks |-> {r \in Scheduled : ~whole(r)}]

\* (Mutant.)  The step counts as computed only when its output is back.
NotYetComputed == computed

ComputedAfterSchedule == [r \in Requests |-> computed[r] + sched[r]]

FinishSchedule ==
  /\ ScheduleOver
  /\ budget >= 0 /\ Len(running) <= MaxRunning               \* asserts
  /\ resumedReqs \cap prevScheduled = {}                     \* assert
  /\ skipped' = stepSkipped \o skipped
  /\ prevScheduled' = Scheduled
  /\ inflight' = Append(inflight, NewBatch)
  /\ computed' = ComputedAfterSchedule
  /\ finishedIds' = {}
  /\ pc' = "idle"
  /\ reqIndex' = 0 /\ budget' = 0 /\ sched' = [r \in Requests |-> 0]
  /\ preempted' = {} /\ newReqs' = {} /\ resumedReqs' = {} /\ stepSkipped' = <<>>
  /\ UNCHANGED <<waiting, running, idVars, status, tokens, prompt, output,
                 everPreempted, sessionVars, kvVars, cur, numNew, updateVars,
                 pauseState, grammarReady, hookVars, workerVars>>

------------------------------------------------------------------------------
(* update_from_output().                                                    *)

BeginUpdate ==
  /\ pc = "idle"
  /\ inflight # <<>>
  /\ pc' = "update"
  /\ batch' = Head(inflight)
  /\ inflight' = Tail(inflight)
  /\ UNCHANGED <<queueVars, idVars, status, tokenVars, everPreempted, sessionVars,
                 kvVars, stepVars, stoppedRunning, stoppedPreempted, prevScheduled,
                 finishedIds, pauseState, grammarReady, hookVars, workerVars>>

\* The loop is done with r.
DoneWith(r) == batch' = [batch EXCEPT !.pos[r] = 0, !.chunks = @ \ {r}]

Gone(r) == r \notin live \/ IsFinished(status[r])

\* Aborted while the executor worked on it, or only part of its prefill done.
SkipOutput(r) ==
  /\ pc = "update"
  /\ r \in BatchReqs(batch)
  /\ Gone(r) \/ r \in batch.chunks
  /\ DoneWith(r)
  /\ UNCHANGED <<queueVars, idVars, status, tokenVars, everPreempted, sessionVars,
                 kvVars, pc, stepVars, stoppedRunning, stoppedPreempted,
                 prevScheduled, finishedIds, pauseState, inflight, grammarReady,
                 hookVars, workerVars>>

GetsToken(r) == pc = "update" /\ batch.pos[r] > 0 /\ ~Gone(r)

\* check_stop: the request or the model length is used up by this token.
LengthCapped(r) == tokens[r] + 1 >= MaxModelLen \/ output[r] + 1 >= MaxOutput[r]

AppendToken(r) == /\ tokens' = [tokens EXCEPT ![r] = @ + 1]
                  /\ output' = [output EXCEPT ![r] = @ + 1]

KeepGoing(r) ==
  /\ GetsToken(r)
  /\ ~LengthCapped(r)
  /\ AppendToken(r)
  /\ DoneWith(r)
  /\ UNCHANGED <<queueVars, idVars, status, computed, prompt, everPreempted,
                 sessionVars, kvVars, pc, stepVars, stoppedRunning,
                 stoppedPreempted, prevScheduled, finishedIds, pauseState,
                 inflight, grammarReady, hookVars, workerVars>>

\* (Mutant.)  A stopped request is looked for in running only.
MarkStoppedRunning(r) ==
  stoppedRunning' = stoppedRunning \cup {r} /\ UNCHANGED stoppedPreempted

\* Stopped requests leave running (or waiting, if they were preempted
\* meanwhile) only after the loop.
MarkStopped(r) ==
  IF status[r] = "RUNNING"
  THEN stoppedRunning' = stoppedRunning \cup {r} /\ UNCHANGED stoppedPreempted
  ELSE stoppedPreempted' = stoppedPreempted \cup {r} /\ UNCHANGED stoppedRunning

\* Statuses a stopping token may give: a stop token, the length cap, or the
\* grammar's refusal.
StopStatuses(r) ==
  {"FINISHED_STOPPED"}
    \cup (IF LengthCapped(r) THEN {"FINISHED_LENGTH_CAPPED"} ELSE {})
    \cup (IF r \in GrammarUsers THEN {"FINISHED_ERROR"} ELSE {})

\* _handle_stopped_request: the request is not resumable, the grammar refused
\* its token (which ends the session), or the client closed the session.
FinishStopped(r) ==
  /\ GetsToken(r)
  /\ \E s \in StopStatuses(r) :
        /\ \/ r \notin Resumable /\ UNCHANGED streamQueue
           \/ s = "FINISHED_ERROR" /\ UNCHANGED streamQueue
           \/ /\ s # "FINISHED_ERROR"
              /\ streamQueue[r] # <<>> /\ Head(streamQueue[r]) = "end"
              /\ streamQueue' = [streamQueue EXCEPT ![r] = Tail(@)]
        /\ status' = [status EXCEPT ![r] = s]
  /\ AppendToken(r)
  /\ MarkStopped(r)
  /\ FreeRequest(r, FALSE)
  /\ DoneWith(r)
  /\ UNCHANGED <<queueVars, arrived, computed, prompt, everPreempted,
                 numWaitingStreaming, updatesLeft, pc, stepVars, prevScheduled,
                 pauseState, inflight, grammarReady, hookVars, loading,
                 finishedRecving>>

\* A session that stopped goes on with the next queued chunk.
ContinueSession(r) ==
  /\ GetsToken(r)
  /\ r \in Resumable
  /\ streamQueue[r] # <<>> /\ Head(streamQueue[r]) = "chunk"
  /\ streamQueue' = [streamQueue EXCEPT ![r] = Tail(@)]
  /\ UpdateRequestAsSession(r, tokens[r] + 1)
  /\ EnqueueWaitingRequest(r, "WAITING")
  /\ MarkStopped(r)
  /\ DoneWith(r)
  /\ UNCHANGED <<running, idVars, computed, everPreempted, numWaitingStreaming,
                 updatesLeft, kvVars, pc, stepVars, prevScheduled, finishedIds,
                 pauseState, inflight, grammarReady, hookVars, workerVars>>

\* A session that stopped waits for its client.
AwaitSession(r) ==
  /\ GetsToken(r)
  /\ r \in Resumable
  /\ streamQueue[r] = <<>>
  /\ AppendToken(r)
  /\ status' = [status EXCEPT ![r] = "WAITING_FOR_STREAMING_REQ"]
  /\ numWaitingStreaming' = numWaitingStreaming + 1
  /\ EnqueueWaitingRequest(r, "WAITING_FOR_STREAMING_REQ")
  /\ MarkStopped(r)
  /\ DoneWith(r)
  /\ UNCHANGED <<running, idVars, computed, prompt, everPreempted, streamQueue,
                 updatesLeft, kvVars, pc, stepVars, prevScheduled, finishedIds,
                 pauseState, inflight, grammarReady, hookVars, workerVars>>

\* The output processor (external) finds the tool sentinel in r's output, calls
\* on_tool_call_pause and moves r to the blocked queue, the way stopped sessions
\* are moved: the statuses alone, as the usage note of EdmmSchedulerHook sets
\* them, would leave r in running.
CallTool(r) ==
  /\ GetsToken(r)
  /\ ~LengthCapped(r)
  /\ r \in ToolUsers
  /\ toolAsked[r] < MaxToolCalls
  /\ AppendToken(r)
  /\ status' = [status EXCEPT ![r] = "WAITING_FOR_TOOL_CALL"]
  /\ toolAsked' = [toolAsked EXCEPT ![r] = @ + 1]
  /\ toolWaits' = toolWaits \cup {r}
  /\ activePauses' = activePauses \cup {r}
  /\ EnqueueWaitingRequest(r, "WAITING_FOR_TOOL_CALL")
  /\ MarkStopped(r)
  /\ DoneWith(r)
  /\ UNCHANGED <<running, idVars, computed, prompt, everPreempted, sessionVars,
                 kvVars, pc, stepVars, prevScheduled, finishedIds, pauseState,
                 inflight, grammarReady, toolResponses, workerVars>>

EndOutputs ==
  /\ pc = "update"
  /\ BatchReqs(batch) = {}
  /\ pc' = "remove"
  /\ UNCHANGED <<queueVars, idVars, status, tokenVars, everPreempted, sessionVars,
                 kvVars, stepVars, updateVars, prevScheduled, finishedIds,
                 pauseState, inflight, grammarReady, hookVars, workerVars>>

\* remove_all on running, and remove_requests on waiting.
RemoveStoppedRunning ==
  /\ pc = "remove"
  /\ \E i \in 1..Len(running) : /\ running[i] \in stoppedRunning
                                /\ running' = RemoveAt(running, i)
  /\ UNCHANGED <<waiting, skipped, idVars, status, tokenVars, everPreempted,
                 sessionVars, kvVars, pc, stepVars, updateVars, prevScheduled,
                 finishedIds, pauseState, inflight, grammarReady, hookVars,
                 workerVars>>

RemoveStoppedPreempted ==
  /\ pc = "remove"
  /\ \E i \in 1..Len(waiting) : /\ waiting[i] \in stoppedPreempted
                                /\ waiting' = RemoveAt(waiting, i)
  /\ UNCHANGED <<skipped, running, idVars, status, tokenVars, everPreempted,
                 sessionVars, kvVars, pc, stepVars, updateVars, prevScheduled,
                 finishedIds, pauseState, inflight, grammarReady, hookVars,
                 workerVars>>

EndRemoval ==
  /\ pc = "remove"
  /\ Members(running) \cap stoppedRunning = {}
  /\ Members(waiting) \cap stoppedPreempted = {}
  /\ stoppedRunning' = {} /\ stoppedPreempted' = {}
  /\ pc' = "kv"
  /\ UNCHANGED <<queueVars, idVars, status, tokenVars, everPreempted, sessionVars,
                 kvVars, stepVars, batch, prevScheduled, finishedIds, pauseState,
                 inflight, grammarReady, hookVars, workerVars>>

\* (Mutant.)  A load that ends after its request was aborted frees nothing.
RecvEnds(r) ==
  /\ finishedRecving' = finishedRecving \cup {r}
  /\ UNCHANGED <<kvVars, live>>

LoadEnds(r) ==
  IF status[r] = "WAITING_FOR_REMOTE_KVS"
  THEN finishedRecving' = finishedRecving \cup {r} /\ UNCHANGED <<kvVars, live>>
  ELSE /\ IsFinished(status[r])                              \* assert
       /\ Free(r) /\ live' = live \ {r}
       /\ UNCHANGED finishedRecving

\* _update_from_kv_xfer_finished: what the workers report with this output.
FinishedRecving(r) ==
  /\ pc = "kv"
  /\ r \in loading
  /\ r \in live                                              \* assert
  /\ loading' = loading \ {r}
  /\ LoadEnds(r)
  /\ UNCHANGED <<queueVars, arrived, status, tokenVars, everPreempted, sessionVars,
                 pc, stepVars, updateVars, prevScheduled, finishedIds, pauseState,
                 inflight, grammarReady, hookVars, sending>>

FinishedSending(r) ==
  /\ pc = "kv"
  /\ r \in sending
  /\ r \in live                                              \* assert
  /\ sending' = sending \ {r}
  /\ Free(r) /\ live' = live \ {r}
  /\ UNCHANGED <<queueVars, arrived, status, tokenVars, everPreempted, sessionVars,
                 pc, stepVars, updateVars, prevScheduled, finishedIds, pauseState,
                 inflight, grammarReady, hookVars, loading, finishedRecving>>

EndUpdate ==
  /\ pc = "kv"
  /\ pc' = "idle"
  /\ UNCHANGED <<queueVars, idVars, status, tokenVars, everPreempted, sessionVars,
                 kvVars, stepVars, updateVars, prevScheduled, finishedIds,
                 pauseState, inflight, grammarReady, hookVars, workerVars>>

------------------------------------------------------------------------------
(* Calls the engine makes between two steps.                                *)

\* With one batch at a time a step runs schedule() and update_from_output()
\* back to back and only aborts get in between; with a batch queue every call
\* may come while batches are in flight.
BetweenSteps == pc = "idle" /\ (inflight = <<>> \/ MaxInFlight > 1)

AddRequest(r) ==
  /\ BetweenSteps
  /\ r \notin arrived
  /\ arrived' = arrived \cup {r}
  /\ live' = live \cup {r}
  /\ LET s == IF r \in GrammarUsers THEN "WAITING_FOR_STRUCTURED_OUTPUT_GRAMMAR"
              ELSE "WAITING"
     IN /\ status' = [status EXCEPT ![r] = s]
        /\ EnqueueWaitingRequest(r, s)
  /\ UNCHANGED <<running, tokenVars, everPreempted, sessionVars, kvVars, pc,
                 stepVars, updateVars, prevScheduled, finishedIds, pauseState,
                 inflight, grammarReady, hookVars, workerVars>>

\* (Mutant.)  The request still counts as one that waits for its client.
StillStreaming == numWaitingStreaming

OneLessStreaming == numWaitingStreaming - 1

\* (Mutant.)  The skipped queue is forgotten.
LeaveMainQueues(r) ==
  /\ running' = Without(running, r)
  /\ waiting' = Without(waiting, r)
  /\ UNCHANGED skipped

LeaveQueues(r) ==
  IF status[r] = "RUNNING"
  THEN running' = Without(running, r) /\ UNCHANGED <<waiting, skipped>>
  ELSE /\ waiting' = Without(waiting, r)
       /\ skipped' = Without(skipped, r)
       /\ UNCHANGED running

\* (Mutant.)  Blocks are freed under a KV load that still writes them.
NeverDelayed(r) == FALSE

LoadsIntoBlocks(r) == status[r] = "WAITING_FOR_REMOTE_KVS" /\ r \notin finishedRecving

\* finish_requests for one id: out of the queues, then finished and freed; the
\* blocks of a KV load that is still running are freed when it ends.
FinishRequest(r) ==
  /\ r \in live /\ ~IsFinished(status[r])
  /\ status' = [status EXCEPT ![r] = "FINISHED_ABORTED"]
  /\ LeaveQueues(r)
  /\ numWaitingStreaming' = IF status[r] = "WAITING_FOR_STREAMING_REQ"
                            THEN OneLessStreaming ELSE numWaitingStreaming
  /\ FreeRequest(r, LoadsIntoBlocks(r))
  /\ finishedRecving' = finishedRecving \ {r}
  /\ UNCHANGED <<arrived, tokenVars, everPreempted, pc, stepVars, updateVars,
                 prevScheduled, pauseState, inflight, grammarReady, hookVars,
                 loading>>

AbortRequest(r) ==
  /\ pc = "idle"
  /\ r \in MayAbort
  /\ FinishRequest(r)
  /\ UNCHANGED <<streamQueue, updatesLeft>>

\* add_request for an id that exists: the next input chunk of a session.
QueueUpdate(r, update) ==
  /\ BetweenSteps
  /\ r \in live /\ updatesLeft[r] > 0
  /\ status[r] # "WAITING_FOR_STREAMING_REQ"
  /\ streamQueue' = [streamQueue EXCEPT ![r] = Append(@, update)]
  /\ updatesLeft' = [updatesLeft EXCEPT ![r] = IF update = "end" THEN 0 ELSE @ - 1]
  /\ UNCHANGED <<queueVars, idVars, status, tokenVars, everPreempted,
                 numWaitingStreaming, kvVars, pc, stepVars, updateVars,
                 prevScheduled, finishedIds, pauseState, inflight, grammarReady,
                 hookVars, workerVars>>

\* (Mutant.)  The request is put into the waiting queue a second time.
StartNextChunkQueuesAgain(r) ==
  /\ BetweenSteps
  /\ r \in live /\ updatesLeft[r] > 0
  /\ status[r] = "WAITING_FOR_STREAMING_REQ"
  /\ UpdateRequestAsSession(r, tokens[r])
  /\ EnqueueWaitingRequest(r, "WAITING")
  /\ numWaitingStreaming' = numWaitingStreaming - 1
  /\ updatesLeft' = [updatesLeft EXCEPT ![r] = @ - 1]
  /\ UNCHANGED <<running, idVars, computed, everPreempted, streamQueue, kvVars,
                 pc, stepVars, updateVars, prevScheduled, finishedIds, pauseState,
                 inflight, grammarReady, hookVars, workerVars>>

StartNextChunk(r) ==
  /\ BetweenSteps
  /\ r \in live /\ updatesLeft[r] > 0
  /\ status[r] = "WAITING_FOR_STREAMING_REQ"
  /\ UpdateRequestAsSession(r, tokens[r])
  /\ numWaitingStreaming' = OneLessStreaming
  /\ updatesLeft' = [updatesLeft EXCEPT ![r] = @ - 1]
  /\ UNCHANGED <<queueVars, idVars, computed, everPreempted, streamQueue, kvVars,
                 pc, stepVars, updateVars, prevScheduled, finishedIds, pauseState,
                 inflight, grammarReady, hookVars, workerVars>>

CloseSession(r) ==
  /\ BetweenSteps
  /\ updatesLeft[r] > 0
  /\ status[r] = "WAITING_FOR_STREAMING_REQ"
  /\ FinishRequest(r)
  /\ updatesLeft' = [updatesLeft EXCEPT ![r] = 0]
  /\ UNCHANGED streamQueue

SetPauseState(s) ==
  /\ BetweenSteps
  /\ s \in PauseStates /\ s # pauseState
  /\ pauseState' = s
  /\ UNCHANGED <<queueVars, idVars, status, tokenVars, everPreempted, sessionVars,
                 kvVars, pc, stepVars, updateVars, prevScheduled, finishedIds,
                 inflight, grammarReady, hookVars, workerVars>>

\* reset_prefix_cache(reset_running_requests=True): preempt from the back of
\* running; the pool can be reset when all its blocks are free.
BeginReset ==
  /\ BetweenSteps
  /\ MayReset
  /\ pc' = "reset"
  /\ UNCHANGED <<queueVars, idVars, status, tokenVars, everPreempted, sessionVars,
                 kvVars, stepVars, updateVars, prevScheduled, finishedIds,
                 pauseState, inflight, grammarReady, hookVars, workerVars>>

ResetPreempt ==
  /\ pc = "reset"
  /\ running # <<>>
  /\ PreemptRequest(running[Len(running)])
  /\ running' = RemoveAt(running, Len(running))
  /\ UNCHANGED <<skipped, idVars, tokens, prompt, output, sessionVars, pc, stepVars,
                 updateVars, prevScheduled, finishedIds, pauseState, inflight,
                 grammarReady, hookVars, workerVars>>

\* (Mutant.)  The ids scheduled in the step before are kept over the reset.
PrevKept == prevScheduled

PrevAfterReset == {}

EndReset ==
  /\ pc = "reset"
  /\ running = <<>>
  /\ prevScheduled' = PrevAfterReset
  /\ pc' = "idle"
  /\ UNCHANGED <<queueVars, idVars, status, tokenVars, everPreempted, sessionVars,
                 kvVars, stepVars, updateVars, finishedIds, pauseState, inflight,
                 grammarReady, hookVars, workerVars>>

------------------------------------------------------------------------------
(* Other threads.                                                           *)

\* The grammar of a live request is compiled.
CompileGrammar(r) ==
  /\ r \in GrammarUsers \cap live
  /\ r \notin grammarReady
  /\ grammarReady' = grammarReady \cup {r}
  /\ UNCHANGED <<queueVars, idVars, status, tokenVars, everPreempted, sessionVars,
                 kvVars, pc, stepVars, updateVars, prevScheduled, finishedIds,
                 pauseState, inflight, hookVars, workerVars>>

\* submit_tool_response
SubmitToolResponse(r) ==
  /\ r \in toolWaits
  /\ toolWaits' = toolWaits \ {r}
  /\ toolResponses' = toolResponses \cup {r}
  /\ UNCHANGED <<queueVars, idVars, status, tokenVars, everPreempted, sessionVars,
                 kvVars, pc, stepVars, updateVars, prevScheduled, finishedIds,
                 pauseState, inflight, grammarReady, toolAsked, activePauses,
                 workerVars>>

------------------------------------------------------------------------------

RunningLoop == SkipRunning \/ PickRunning \/ ScheduleRunning \/ PreemptVictim
                 \/ EndRunningLoop
WaitingLoop == SkipBlocked \/ PromoteBlocked \/ SkipForLora \/ SkipForConnector
                 \/ StartLoad \/ LoadDoesNotFit \/ ChunkTooBig \/ NoBlocksLeft
                 \/ AdmitCandidate
ScheduleStep == RunningLoop \/ WaitingLoop \/ FinishSchedule

OutputStep(r) == SkipOutput(r) \/ KeepGoing(r) \/ FinishStopped(r)
                   \/ ContinueSession(r) \/ AwaitSession(r) \/ CallTool(r)
UpdateStep ==
  \/ \E r \in Requests : OutputStep(r) \/ FinishedRecving(r) \/ FinishedSending(r)
  \/ EndOutputs \/ RemoveStoppedRunning \/ RemoveStoppedPreempted \/ EndRemoval
  \/ EndUpdate

ResetStep == ResetPreempt \/ EndReset

ClientCall ==
  \/ \E r \in Requests :
        \/ AddRequest(r) \/ AbortRequest(r)
        \/ QueueUpdate(r, "chunk") \/ QueueUpdate(r, "end")
        \/ StartNextChunk(r) \/ CloseSession(r)
  \/ \E s \in PauseStates : SetPauseState(s)
  \/ BeginReset

OtherThread == \E r \in Requests : CompileGrammar(r) \/ SubmitToolResponse(r)

Next == \/ BeginSchedule \/ ScheduleStep
        \/ BeginUpdate \/ UpdateStep
        \/ ResetStep \/ ClientCall \/ OtherThread

Spec == Init /\ [][Next]_vars

\* The connector makes up its mind about r.
ConnectorAnswers(r) ==
  /\ InWaitingLoop
  /\ Candidate = r
  /\ StartLoad \/ LoadDoesNotFit \/ ChunkTooBig \/ NoBlocksLeft \/ AdmitCandidate

\* The engine thread keeps stepping, grammars get compiled, tools answer, the
\* connector knows its hits in the end and KV transfers end and are reported.
Fairness ==
  /\ WF_vars(BeginSchedule \/ BeginUpdate)
  /\ WF_vars(ScheduleStep)
  /\ WF_vars(UpdateStep)
  /\ WF_vars(ResetStep)
  /\ \A r \in Requests : /\ WF_vars(CompileGrammar(r))
                        /\ WF_vars(SubmitToolResponse(r))
                        /\ SF_vars(ConnectorAnswers(r))
                        /\ SF_vars(FinishedRecving(r))
                        /\ SF_vars(FinishedSending(r))

FairSpec == Spec /\ Fairness

------------------------------------------------------------------------------
(* Safety.                                                                  *)

Unfinished == {r \in live : ~IsFinished(status[r])}
AllWaiting == waiting \o skipped \o stepSkipped

\* Outside update_from_output, which moves stopped requests in two phases, the
\* queues and the statuses tell the same story: a RUNNING request is in running
\* and nowhere else, any other unfinished one is in exactly one waiting queue, in
\* the list of requests skipped by this step included, and no finished request
\* is left in a queue.  A request in no queue is never run again; one that is
\* in two is scheduled twice.
QueueAgreement ==
  pc \notin {"update", "remove"} =>
    /\ NoDuplicates(running) /\ NoDuplicates(AllWaiting)
    /\ Members(running) = {r \in Unfinished : status[r] = "RUNNING"}
    /\ Members(AllWaiting) = {r \in Unfinished : status[r] \in QueuedStatuses}

\* Every token a request counts as computed, the tokens of the step being
\* planned included, has a KV slot in a block the request holds, across
\* preemption, KV loads, pauses and sessions that trim their tokens.
ComputedTokensHaveBlocks ==
  \A r \in Unfinished : BlocksFor(computed[r] + sched[r]) <= blocks[r]

\* Blocks are held only by requests that can still give them back: unfinished
\* ones, and finished ones a KV transfer still works on, whose end frees them.
BlocksReclaimed ==
  \A r \in Requests :
     blocks[r] > 0 => r \in Unfinished \/ r \in (loading \cup sending) \cap live

\* The token the executor sampled is appended where it was sampled: the request
\* has as many tokens as when the step was scheduled, is not parked in a blocked
\* status, and has no second sample under way, although the request may have
\* been preempted or chunked while batches were in flight.
SampleFits(r, pos) == tokens[r] = pos /\ ~IsBlockedWaiting(status[r])
InFlightSamplesFit ==
  \A r \in Unfinished :
     /\ batch.pos[r] > 0 => SampleFits(r, batch.pos[r])
     /\ \A i \in 1..Len(inflight) :
           inflight[i].pos[r] > 0 =>
              /\ SampleFits(r, inflight[i].pos[r])
              /\ batch.pos[r] = 0
              /\ \A j \in 1..Len(inflight) : inflight[j].pos[r] > 0 => i = j

\* A preempted request is not in the output of the step that preempted it: under
\* PRIORITY its tokens and its share of the budget are taken back.
PreemptedNotScheduled ==
  /\ preempted \cap Scheduled = {}
  /\ \A r \in Scheduled : status[r] = "RUNNING"

\* A request's tokens are its prompt and its output, also after a session has
\* made its kept output part of the next prompt.
TokensAddUp == \A r \in live : tokens[r] = prompt[r] + output[r]

\* The adapters of the requests one step schedules fit in the device (the
\* assertion after the loop over RUNNING requests).
LorasFit ==
  RunningLoopOver /\ MaxLoras > 0 => Cardinality(ScheduledLoras) <= MaxLoras

\* The engine does not stop stepping while somebody could be scheduled: when it
\* sees nothing to do, all that is left waits for its client.
NoSleepWithWork ==
  pc = "idle" /\ pauseState = "UNPAUSED" /\ NumUnfinished <= 0 =>
     \A r \in Unfinished : status[r] = "WAITING_FOR_STREAMING_REQ"

\* The assertions of the code, each at the step that evaluates it: only running
\* requests are preempted; an admitted request has a token to compute; a session
\* that waits for input has none queued; budget and running list stay in their
\* limits; a request resumed from preemption was not scheduled in the step
\* before; a KV transfer that ends belongs to a request that expects it.
AssertionsHold ==
  /\ pc = "alloc" /\ ~CurFits =>
        \E i \in 1..Len(running) : IsVictim(i) /\ status[running[i]] = "RUNNING"
  /\ pc = "reset" /\ running # <<>> => status[running[Len(running)]] = "RUNNING"
  /\ Schedulable => /\ status[Candidate] \in {"WAITING", "PREEMPTED"}
                    /\ tokens[Candidate] > computed[Candidate]
  /\ InWaitingLoop /\ status[Candidate] = "WAITING_FOR_STREAMING_REQ" =>
        streamQueue[Candidate] = <<>>
  /\ ScheduleOver => /\ budget >= 0
                     /\ Len(running) <= MaxRunning
                     /\ Cardinality(Scheduled) <= Len(running)
                     /\ resumedReqs \cap prevScheduled = {}
  /\ loading \cup sending \subseteq live
  /\ \A r \in loading : status[r] = "WAITING_FOR_REMOTE_KVS" \/ IsFinished(status[r])

(* Action properties.                                                       *)

\* A request leaves a tool pause only with an answer to the call that paused it
\* or because it is aborted, and a call's answer ends one pause.
ToolPauseHeld ==
  [][\A r \in Requests :
       status[r] = "WAITING_FOR_TOOL_CALL" /\ status'[r] # status[r] =>
          IsFinished(status'[r]) \/ (r \in toolResponses /\ r \notin toolResponses')]_vars

(* Liveness.                                                                *)

\* Every request the engine took finishes: none starves behind preemptions,
\* blocked heads of the queue, KV loads or grammars.
EveryRequestFinishes ==
  \A r \in Requests : r \in live ~> IsFinished(status[r])

\* A request whose tool has answered runs again.
AnsweredToolRuns ==
  \A r \in Requests :
     (status[r] = "WAITING_FOR_TOOL_CALL" /\ r \in toolResponses)
        ~> (status[r] = "RUNNING" \/ IsFinished(status[r]))
==============================================================================
