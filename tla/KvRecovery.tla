------------------------------ MODULE KvRecovery ------------------------------
(***************************************************************************)
(* How the Scheduler recovers when the KV connector fails to load a block: *)
(* admission with prefix-cache hits and external tokens, the two scans of  *)
(* _handle_invalid_blocks, promotion after an asynchronous load, and both  *)
(* failure policies.  FCFS, one batch in flight, no other request feature  *)
(* (module Scheduler has those).  A slot is right when it holds the KV of  *)
(* the token it is for; the workers' part is external.                     *)
(***************************************************************************)
EXTENDS RequestStatus, Collections, SequencesExt

CONSTANTS
  Requests, Blocks,
  BlockSize,          \* tokens per KV block
  PromptLen,          \* tokens of every prompt
  SharedBlocks,       \* leading blocks all prompts have in common
  Twin,               \* Twin[r]: requests with the same value have the same prompt
  MaxOutput,          \* max_tokens of every request
  MaxRunning,         \* max_num_running_reqs
  TokenBudget,        \* max_num_scheduled_tokens
  PrefillThreshold,   \* long_prefill_token_threshold
  SyncLoaders,        \* requests the connector may load in the step itself
  AsyncLoaders,       \* requests the connector loads in the background
  Policies,           \* values of kv_load_failure_policy
  MaxFailures,        \* bound: blocks that fail to load
  MayAbort,           \* requests a client may abort
  NoKey               \* not in the prefix cache

ASSUME KvRecoveryAssumption ==
  /\ Blocks \subseteq Nat /\ IsFiniteSet(Blocks)
  /\ NoKey \notin ({"shared"} \cup Requests) \X Nat
  /\ BlockSize \in Nat \ {0} /\ PromptLen \in Nat \ {0} /\ MaxOutput \in Nat \ {0}
  /\ SharedBlocks \in 0..((PromptLen - 1) \div BlockSize)
  /\ Twin \in [Requests -> Requests]
  /\ MaxRunning \in Nat \ {0} /\ TokenBudget \in Nat \ {0}
  /\ PrefillThreshold \in Nat /\ MaxFailures \in Nat
  /\ SyncLoaders \subseteq Requests /\ AsyncLoaders \subseteq Requests \ SyncLoaders
  /\ Policies \subseteq {"recompute", "fail"}
  /\ MayAbort \subseteq Requests

VARIABLES
  policy,             \* kv_load_failure_policy
  arrived,            \* ids ever added
  waiting, skipped, running,
  status, computed, tokens,
  everPreempted,      \* requests with num_preemptions > 0
  table,              \* table[r]: ids of the blocks r holds
  key,                \* key[b]: the content the prefix cache finds in b
  right,              \* slots that hold the right KV
  pc, reqIndex, budget, sched, preempted, stepSkipped,
  syncLoads,          \* slots the batch loads before its forward pass
  loading,            \* loading[r]: slots r's background load has to fill
  receiving,          \* requests with a background load under way
  recved,             \* finished_recving of the batch's output
  report,             \* invalid_block_ids of the batch's output
  sound,              \* requests whose sample is computed from right KV only
  skip,               \* failed_kv_load_req_ids
  finishedRecving, failedRecving,   \* *_recving_kv_req_ids
  failuresLeft,
  interrupted         \* history: a request let go of a cached block that it
                      \* had yet to recompute

queueVars == <<arrived, waiting, skipped, running>>
reqVars == <<status, computed, tokens, everPreempted>>
cacheVars == <<table, key, right>>
stepVars == <<reqIndex, budget, sched, preempted, stepSkipped>>
outputVars == <<recved, report, sound>>
loadVars == <<loading, receiving>>
recvVars == <<finishedRecving, failedRecving>>
historyVars == <<failuresLeft, interrupted>>
vars == <<policy, queueVars, reqVars, cacheVars, pc, stepVars, syncLoads,
          outputVars, loadVars, skip, recvVars, historyVars>>

Least(a, b) == IF a <= b THEN a ELSE b
MaxLen == PromptLen + MaxOutput
BlocksFor(n) == (n + BlockSize - 1) \div BlockSize
Slots == Blocks \X (0..BlockSize - 1)
\* What the i-th block of a request caches: two blocks have the same hash only
\* when they and all before them hold the same tokens.
Content(r, i) == IF i <= SharedBlocks THEN <<"shared", i>>
                 ELSE IF i <= PromptLen \div BlockSize THEN <<Twin[r], i>> ELSE <<r, i>>
Contents == ({"shared"} \cup Requests) \X (1..BlocksFor(MaxLen))

TypeOK ==
  /\ policy \in Policies
  /\ arrived \subseteq Requests
  /\ {waiting, skipped, running, stepSkipped} \subseteq Seq(arrived)
  /\ status \in [Requests -> Statuses] /\ everPreempted \subseteq Requests
  /\ computed \in [Requests -> 0..MaxLen]
  /\ tokens \in [Requests -> PromptLen..MaxLen]
  /\ table \in [Requests -> Seq(Blocks)] /\ loading \in [Requests -> SUBSET Slots]
  /\ key \in [Blocks -> Contents \cup {NoKey}]
  /\ right \subseteq Slots /\ syncLoads \subseteq Slots
  /\ pc \in {"idle", "running", "waiting", "report", "outputs"}
  /\ reqIndex \in Nat /\ budget \in 0..TokenBudget
  /\ sched \in [Requests -> 0..TokenBudget]
  /\ preempted \in BOOLEAN /\ interrupted \in BOOLEAN
  /\ report \subseteq Blocks
  /\ receiving \cup recved \cup sound \cup skip \subseteq Requests
  /\ finishedRecving \cup failedRecving \subseteq Requests
  /\ failuresLeft \in 0..MaxFailures

Init ==
  /\ policy \in Policies
  /\ arrived = {} /\ waiting = <<>> /\ skipped = <<>> /\ running = <<>>
  /\ status = [r \in Requests |-> "WAITING"]
  /\ computed = [r \in Requests |-> 0]
  /\ tokens = [r \in Requests |-> PromptLen]
  /\ everPreempted = {}
  /\ table = [r \in Requests |-> <<>>]
  /\ key = [b \in Blocks |-> NoKey]
  /\ right = {} /\ pc = "idle" /\ reqIndex = 1 /\ budget = 0
  /\ sched = [r \in Requests |-> 0] /\ preempted = FALSE /\ stepSkipped = <<>>
  /\ syncLoads = {} /\ loading = [r \in Requests |-> {}] /\ receiving = {}
  /\ recved = {} /\ report = {} /\ sound = {} /\ skip = {}
  /\ finishedRecving = {} /\ failedRecving = {}
  /\ failuresLeft = MaxFailures /\ interrupted = FALSE

-------------------------------------------------------------------------------
(* KVCacheManager *)

FreeBlocks == Blocks \ UNION {ToSet(table[r]) : r \in Requests}

\* get_computed_blocks: blocks of the longest cached prefix of r that leaves
\* it a token to compute.
Cached(r, i) == {b \in Blocks : key[b] = Content(r, i)}
CachedPrefix(r) ==
  LET full == 1..((tokens[r] - 1) \div BlockSize)
      missing == {i \in full : Cached(r, i) = {}}
  IN  [i \in {j \in full : \A m \in missing : j < m} |-> Min(Cached(r, i))]

\* cache_blocks: key with the full blocks of the first n tokens of r's blocks bs.
KeyedUpTo(keys, r, bs, n) ==
  [b \in Blocks |-> IF \E i \in 1..(n \div BlockSize) : bs[i] = b
                    THEN Content(r, CHOOSE i \in 1..(n \div BlockSize) : bs[i] = b)
                    ELSE keys[b]]

\* allocate_slots for r, which has blocks bs: room for n tokens, of which the
\* first toCache are cached.  A block in use for something else is never
\* taken, a cached one only when the others do not suffice.
Shortage(bs, n) == IF BlocksFor(n) > Len(bs) THEN BlocksFor(n) - Len(bs) ELSE 0
Available(bs) == FreeBlocks \ ToSet(bs)
Takings(bs, n) ==
  LET plain == {b \in Available(bs) : key[b] = NoKey}
      k == Shortage(bs, n)
  IN  IF k <= Cardinality(plain)
      THEN {{b \in plain : Cardinality({c \in plain : c < b}) < k}}
      ELSE {plain \cup more :
              more \in kSubset(k - Cardinality(plain), Available(bs) \ plain)}
InOrder(S) ==
  [i \in 1..Cardinality(S) |-> CHOOSE b \in S : Cardinality({c \in S : c < b}) = i - 1]

Allocate(r, bs, n, toCache) ==
  \E fresh \in Takings(bs, n) : \E all \in {bs \o InOrder(fresh)} :
    LET kept == [b \in Blocks |-> IF b \in fresh THEN NoKey ELSE key[b]]
    IN  /\ table' = [table EXCEPT ![r] = all]
        /\ key' = KeyedUpTo(kept, r, all, toCache)
        /\ right' = {s \in right : s[1] \notin fresh}

Fits(bs, n) == Shortage(bs, n) <= Cardinality(Available(bs))

Slot(r, p) == <<table[r][p \div BlockSize + 1], p % BlockSize>>

\* r holds a block that is cached and not wholly right.
OwesRecompute(r) ==
  \E b \in ToSet(table[r]) : key[b] # NoKey /\ ~({b} \X (0..BlockSize - 1) \subseteq right)
LetGo(rs) == interrupted' = (interrupted \/ \E r \in rs : OwesRecompute(r))

-------------------------------------------------------------------------------
(* schedule() *)

BeginSchedule ==
  /\ pc = "idle"
  /\ \E r \in arrived : ~IsFinished(status[r]) \/ table[r] # <<>>
  /\ pc' = "running" /\ reqIndex' = 1 /\ budget' = TokenBudget
  /\ sched' = [r \in Requests |-> 0] /\ preempted' = FALSE /\ stepSkipped' = <<>>
  /\ syncLoads' = {}
  /\ UNCHANGED <<policy, queueVars, reqVars, cacheVars, outputVars, loadVars,
                 skip, recvVars, historyVars>>

Capped(n) == IF PrefillThreshold > 0 /\ PrefillThreshold < n THEN PrefillThreshold ELSE n
Granted(n) == Least(Capped(n), budget)
Grant(r, n) == /\ sched' = [sched EXCEPT ![r] = n]
               /\ budget' = budget - n

\* One turn of the loop over the running requests.
Turn == running[reqIndex]
NumNew == Granted(tokens[Turn] - computed[Turn])
InRunningLoop == pc = "running" /\ reqIndex <= Len(running) /\ budget > 0

ScheduleRunning ==
  /\ InRunningLoop
  /\ Fits(table[Turn], computed[Turn] + NumNew)
  /\ Allocate(Turn, table[Turn], computed[Turn] + NumNew, computed[Turn] + NumNew)
  /\ Grant(Turn, NumNew)
  /\ reqIndex' = reqIndex + 1
  /\ UNCHANGED <<policy, queueVars, reqVars, pc, preempted, stepSkipped, syncLoads,
                 outputVars, loadVars, skip, recvVars, historyVars>>

\* No room: _preempt_request the last running request, and end the loop when
\* that is the request itself.
PreemptLast ==
  LET victim == Last(running)
  IN  /\ InRunningLoop
      /\ ~Fits(table[Turn], computed[Turn] + NumNew)
      /\ running' = Front(running)
      /\ waiting' = <<victim>> \o waiting
      /\ status' = [status EXCEPT ![victim] = "PREEMPTED"]
      /\ computed' = [computed EXCEPT ![victim] = 0]
      /\ everPreempted' = everPreempted \cup {victim}
      /\ table' = [table EXCEPT ![victim] = <<>>]
      /\ LetGo({victim})
      /\ preempted' = TRUE
      /\ UNCHANGED <<policy, arrived, skipped, tokens, key, right, pc, reqIndex, budget,
                     sched, stepSkipped, syncLoads, outputVars, loadVars, skip,
                     recvVars, failuresLeft>>

EndRunning ==
  /\ pc = "running" /\ ~InRunningLoop
  /\ pc' = "waiting"
  /\ UNCHANGED <<policy, queueVars, reqVars, cacheVars, stepVars, syncLoads,
                 outputVars, loadVars, skip, recvVars, historyVars>>

\* One turn of the loop over the waiting requests, the skipped ones first.
InWaitingLoop ==
  /\ pc = "waiting" /\ ~preempted /\ budget > 0
  /\ waiting # <<>> \/ skipped # <<>>
  /\ Len(running) < MaxRunning
Candidate == Head(IF skipped # <<>> THEN skipped ELSE waiting)
PopCandidate == IF skipped # <<>> THEN skipped' = Tail(skipped) /\ UNCHANGED waiting
                                  ELSE waiting' = Tail(waiting) /\ UNCHANGED skipped

StillLoading ==
  status[Candidate] = "WAITING_FOR_REMOTE_KVS" /\ Candidate \notin finishedRecving

SkipLoading ==
  /\ InWaitingLoop /\ StillLoading
  /\ PopCandidate
  /\ stepSkipped' = <<Candidate>> \o stepSkipped
  /\ UNCHANGED <<policy, arrived, running, reqVars, cacheVars, pc, reqIndex, budget,
                 sched, preempted, syncLoads, outputVars, loadVars, skip, recvVars,
                 historyVars>>

\* _update_waiting_for_remote_kv: cache what was loaded, or free it all.
KeepLoaded(r) ==
  /\ key' = KeyedUpTo(key, r, table[r], computed[r])
  /\ UNCHANGED table
DropLoaded(r) ==
  /\ table' = [table EXCEPT ![r] = <<>>]
  /\ UNCHANGED key

PromoteLoaded ==
  LET r == Candidate
      failed == r \in failedRecving
  IN  /\ InWaitingLoop /\ status[r] = "WAITING_FOR_REMOTE_KVS" /\ ~StillLoading
      /\ IF failed /\ computed[r] = 0 THEN DropLoaded(r) ELSE KeepLoaded(r)
      /\ computed' = [computed EXCEPT ![r] =
                        IF ~failed /\ @ = tokens[r] THEN @ - 1 ELSE @]
      /\ status' = [status EXCEPT ![r] = IF r \in everPreempted THEN "PREEMPTED"
                                                               ELSE "WAITING"]
      /\ finishedRecving' = finishedRecving \ {r}
      /\ failedRecving' = failedRecving \ {r}
      /\ UNCHANGED <<policy, queueVars, tokens, everPreempted, right, pc, stepVars,
                     syncLoads, outputVars, loadVars, skip, historyVars>>

\* Whether the candidate still asks for cached tokens, and the blocks it starts
\* from: get_computed_blocks, or those a background load filled.
Schedulable == InWaitingLoop /\ status[Candidate] # "WAITING_FOR_REMOTE_KVS"
Asks == computed[Candidate] = 0
StartBlocks == IF Asks THEN CachedPrefix(Candidate) ELSE table[Candidate]
Local == Len(StartBlocks) * BlockSize

\* num_external_computed_tokens the connector may answer with.
SyncHits == {0} \cup (IF Asks /\ Candidate \in SyncLoaders /\ Local < PromptLen - 1
                      THEN {PromptLen - 1 - Local} ELSE {})
LoadsAsync == Asks /\ Candidate \in AsyncLoaders /\ Local < PromptLen

\* Slots at positions first..last - 1 of the blocks bs.
SlotsOf(bs, first, last) ==
  {<<bs[p \div BlockSize + 1], p % BlockSize>> : p \in first..last - 1}

StartLoad ==
  LET r == Candidate IN
  /\ Schedulable /\ LoadsAsync
  /\ Fits(StartBlocks, PromptLen)
  /\ Allocate(r, StartBlocks, PromptLen, 0)
  /\ loading' = [loading EXCEPT ![r] = SlotsOf(table'[r], Local, PromptLen)]
  /\ receiving' = receiving \cup {r}
  /\ PopCandidate
  /\ stepSkipped' = <<r>> \o stepSkipped
  /\ status' = [status EXCEPT ![r] = "WAITING_FOR_REMOTE_KVS"]
  /\ computed' = [computed EXCEPT ![r] = PromptLen]
  /\ UNCHANGED <<policy, arrived, running, tokens, everPreempted, pc, reqIndex,
                 budget, sched, preempted, syncLoads, outputVars, skip, recvVars,
                 historyVars>>

Start(hit) == IF Asks THEN Local + hit ELSE computed[Candidate]
Upto(hit) == Start(hit) + Granted(tokens[Candidate] - Start(hit))

Admit ==
  LET r == Candidate IN
  /\ Schedulable /\ ~LoadsAsync
  /\ \E hit \in SyncHits :
     \E bs \in {StartBlocks}, start \in {Start(hit)}, upto \in {Upto(hit)} :
       /\ Fits(bs, upto)
       /\ Allocate(r, bs, upto, upto)
       /\ syncLoads' = syncLoads \cup SlotsOf(table'[r], Start(0), start)
       /\ Grant(r, upto - start)
       /\ computed' = [computed EXCEPT ![r] = start]
  /\ PopCandidate
  /\ running' = Append(running, r)
  /\ status' = [status EXCEPT ![r] = "RUNNING"]
  /\ UNCHANGED <<policy, arrived, tokens, everPreempted, pc, reqIndex, preempted,
                 stepSkipped, outputVars, loadVars, skip, recvVars, historyVars>>

\* allocate_slots returned None: schedule() stops admitting.
NoRoom ==
  /\ Schedulable
  /\ IF LoadsAsync THEN ~Fits(StartBlocks, PromptLen)
                   ELSE \E hit \in SyncHits : ~Fits(StartBlocks, Upto(hit))

-------------------------------------------------------------------------------
(* The workers: the batch's loads, its forward pass, and what they report. *)

\* Slots that are right after position p is computed, when prev are before.  A
\* token's KV is right when that of all before it is; a layer writes every
\* token before any reads.
Compute(prev, p) ==
  LET writers == {r \in Requests : computed[r] <= p /\ p < computed[r] + sched[r]}
      wrong == {r \in writers : \E q \in 0..p - 1 : Slot(r, q) \notin prev}
  IN  (prev \cup {Slot(r, p) : r \in writers}) \ {Slot(r, p) : r \in wrong}

\* (prev is bound to a value, which TLC computes once)
RightAfter(before) ==
  LET after[n \in 0..MaxLen] ==
        IF n = 0 THEN before ELSE UNION {Compute(prev, n - 1) : prev \in {after[n - 1]}}
  IN  after[MaxLen]

Outside(slots, failed) == {s \in slots : s[1] \notin failed}

NothingLeftToSchedule == pc = "waiting" /\ (~InWaitingLoop \/ NoRoom)

\* A background load ends in time for this batch to report it.
LoadEnds(r) ==
  /\ NothingLeftToSchedule /\ r \in receiving \ recved
  /\ recved' = recved \cup {r}
  /\ UNCHANGED <<policy, queueVars, reqVars, cacheVars, pc, stepVars, syncLoads, report,
                 sound, loadVars, skip, recvVars, historyVars>>

\* schedule() returns, and the batch runs.
FinishSchedule ==
  LET asked == {s[1] : s \in syncLoads \cup UNION {loading[r] : r \in receiving}} IN
  /\ NothingLeftToSchedule
  /\ pc' = "report"
  /\ skipped' = stepSkipped \o skipped
  /\ computed' = [r \in Requests |-> computed[r] + sched[r]]
  /\ \E failed \in {f \in SUBSET asked : Cardinality(f) <= failuresLeft} :
       LET left == [r \in Requests |-> Outside(loading[r], failed)] IN
       /\ right' = RightAfter(right \cup Outside(syncLoads, failed)
                                    \cup UNION {left[r] : r \in recved})
       /\ report' = failed
       /\ failuresLeft' = failuresLeft - Cardinality(failed)
       /\ loading' = [r \in Requests |-> IF r \in recved THEN {} ELSE left[r]]
  /\ receiving' = receiving \ recved
  /\ sound' = {r \in Requests :
                 sched[r] > 0 /\ Slot(r, computed[r] + sched[r] - 1) \in right'}
  /\ UNCHANGED <<policy, arrived, waiting, running, status, tokens, everPreempted,
                 table, key, stepVars, syncLoads, recved, skip, recvVars, interrupted>>

-------------------------------------------------------------------------------
(* update_from_output(): failed loads first *)

\* _update_requests_with_invalid_blocks scans the requests rs in order: r owns
\* the failed blocks among those it counts that no request before it counts.
Counted(r) == computed[r] - sched[r]
Invalid(r) == {i \in 1..Least(BlocksFor(Counted(r)), Len(table[r])) : table[r][i] \in report}
Marked(rs, r) == UNION {{table[rs[j]][i] : i \in Invalid(rs[j])} :
                         j \in {k \in DOMAIN rs : \A m \in 1..k : rs[m] # r}}
Own(rs, r) == {i \in Invalid(r) : table[r][i] \notin Marked(rs, r)}
Affected(rs) == {r \in ToSet(rs) : Invalid(r) # {}}

\* (Mutants.)  One block too far; only to the last of several owned blocks.
CutBackTooFar(rs, r) ==
  IF Own(rs, r) = {} THEN Counted(r) ELSE (Min(Own(rs, r)) - 2) * BlockSize
CutBackToLast(rs, r) ==
  IF Own(rs, r) = {} THEN Counted(r) ELSE (Max(Own(rs, r)) - 1) * BlockSize

\* r is cut back to the first block it owns, or to what was computed before.
CutBack(rs, r) ==
  IF Own(rs, r) = {} THEN Counted(r) ELSE (Min(Own(rs, r)) - 1) * BlockSize

\* (Mutant.)  The failed block itself stays cached.
EvictDownstream(rs) ==
  UNION {ToSet(SubSeq(table[r], Min(Own(rs, r)) + 1, Len(table[r]))) :
           r \in {x \in ToSet(rs) : Own(rs, x) # {}}}

\* What the fail policy evicts: first owned blocks and all after them.
ToEvict(rs) ==
  UNION {ToSet(SubSeq(table[r], Min(Own(rs, r)), Len(table[r]))) :
           r \in {x \in ToSet(rs) : Own(rs, x) # {}}}
AsyncLoads == Sift(skipped, {r \in Requests : status[r] = "WAITING_FOR_REMOTE_KVS"})

HandleInvalidBlocks ==
  /\ pc = "report"
  /\ pc' = "outputs"
  /\ computed' = [r \in Requests |->
                    IF r \in Affected(AsyncLoads) THEN CutBack(AsyncLoads, r)
                    ELSE IF r \in Affected(running) THEN CutBack(running, r)
                    ELSE computed[r]]
  /\ IF policy = "fail"
     THEN /\ key' = [b \in Blocks |-> IF b \in ToEvict(running) THEN NoKey ELSE key[b]]
          /\ skip' = Affected(AsyncLoads) \cup Affected(running)
          /\ UNCHANGED failedRecving
     ELSE /\ skip' = Affected(running)
          /\ failedRecving' = failedRecving \cup Affected(AsyncLoads)
          /\ UNCHANGED key
  /\ UNCHANGED <<policy, queueVars, status, tokens, everPreempted, table, right,
                 stepVars, syncLoads, outputVars, loadVars, finishedRecving, historyVars>>

\* Requests that get a token: scheduled up to their last one and not skipped.
Sampled == {r \in Requests : sched[r] > 0 /\ r \notin skip /\ computed[r] = tokens[r]}
Stopped == {r \in Sampled : tokens[r] + 1 = MaxLen}
Failed == IF policy = "fail" THEN skip ELSE {}

\* (Mutant.)
DelaysNone(rs) == {}

\* Requests whose blocks finish_requests leaves to a load still under way.
Delays(rs) == {r \in rs : status[r] = "WAITING_FOR_REMOTE_KVS" /\ r \notin finishedRecving}
Keep(q, rs) == Sift(q, Requests \ rs)

\* (Mutants.)  Without regard to the status; not for loads that failed.
RecvEndedAll(rs) == recved
RecvEndedInFull(rs) ==
  {r \in recved \ failedRecving : status[r] = "WAITING_FOR_REMOTE_KVS"} \ rs

\* _update_from_kv_xfer_finished, when rs have just failed.
RecvEnded(rs) == {r \in recved : status[r] = "WAITING_FOR_REMOTE_KVS"} \ rs

\* The loop over the scheduled requests, the failing of the skipped ones, and
\* _update_from_kv_xfer_finished.
ProcessOutputs ==
  LET over == Stopped \cup Failed
      freed == (over \ Delays(over)) \cup {r \in recved : IsFinished(status'[r])}
  IN  /\ pc = "outputs"
      /\ pc' = "idle"
      /\ tokens' = [r \in Requests |-> IF r \in Sampled THEN tokens[r] + 1 ELSE tokens[r]]
      /\ status' = [r \in Requests |->
                      IF r \in Stopped THEN "FINISHED_LENGTH_CAPPED"
                      ELSE IF r \in Failed THEN "FINISHED_ERROR" ELSE status[r]]
      /\ running' = Keep(running, over)
      /\ waiting' = Keep(waiting, Failed) /\ skipped' = Keep(skipped, Failed)
      /\ table' = [r \in Requests |-> IF r \in freed THEN <<>> ELSE table[r]]
      /\ finishedRecving' = (finishedRecving \ Failed) \cup RecvEnded(Failed)
      /\ failedRecving' = failedRecving \ Failed
      /\ skip' = {} /\ sched' = [r \in Requests |-> 0]
      /\ recved' = {} /\ report' = {} /\ sound' = {} /\ syncLoads' = {}
      /\ stepSkipped' = <<>>
      /\ UNCHANGED <<policy, arrived, computed, everPreempted, key, right, reqIndex,
                     budget, preempted, loadVars, historyVars>>

-------------------------------------------------------------------------------
(* Calls of the engine between steps *)

AddRequest(r) ==
  /\ pc = "idle" /\ r \notin arrived
  /\ arrived' = arrived \cup {r}
  /\ waiting' = Append(waiting, r)
  /\ UNCHANGED <<policy, skipped, running, reqVars, cacheVars, pc, stepVars,
                 syncLoads, outputVars, loadVars, skip, recvVars, historyVars>>

\* finish_requests for an abort.
AbortRequest(r) ==
  /\ pc = "idle" /\ r \in arrived \cap MayAbort /\ ~IsFinished(status[r])
  /\ waiting' = Keep(waiting, {r}) /\ skipped' = Keep(skipped, {r})
  /\ running' = Keep(running, {r})
  /\ status' = [status EXCEPT ![r] = "FINISHED_ABORTED"]
  /\ table' = [table EXCEPT ![r] = IF r \in Delays({r}) THEN @ ELSE <<>>]
  /\ LetGo({r})
  /\ finishedRecving' = finishedRecving \ {r}
  /\ failedRecving' = failedRecving \ {r}
  /\ UNCHANGED <<policy, arrived, computed, tokens, everPreempted, key, right, pc,
                 stepVars, syncLoads, outputVars, loadVars, skip, failuresLeft>>

Step ==
  \/ BeginSchedule \/ ScheduleRunning \/ PreemptLast \/ EndRunning
  \/ SkipLoading \/ PromoteLoaded \/ StartLoad \/ Admit \/ FinishSchedule
  \/ HandleInvalidBlocks \/ ProcessOutputs
Next == Step \/ \E r \in Requests : LoadEnds(r) \/ AddRequest(r) \/ AbortRequest(r)

Spec == Init /\ [][Next]_vars

\* The engine keeps stepping, and a background load does not go on for ever.
FairSpec == Spec /\ WF_vars(Step) /\ \A r \in AsyncLoaders : SF_vars(LoadEnds(r))

-------------------------------------------------------------------------------
(* Properties *)

\* A sampled token was computed from right KV only, however loads failed.
SampledFromRightKv ==
  [][\A r \in Requests : tokens'[r] > tokens[r] => r \in sound]_vars

\* Under the recompute policy this is so as long as no request is preempted or
\* aborted while it owes the recomputation of a cached block, in an engine that
\* does not cut prefills into chunks of PrefillThreshold.
SampledUnlessInterrupted ==
  [][policy = "recompute" /\ ~interrupted =>
       \A r \in Requests : tokens'[r] > tokens[r] => r \in sound]_vars

\* Under the fail policy no later request can find a block that failed to load.
FailedLoadsEvicted ==
  policy = "fail" /\ pc = "outputs" => \A b \in report : key[b] = NoKey

\* The two sets of ended loads hold requests that still wait for them, and a
\* request that has nothing computed and waits for no load holds no block.
LoadsAccounted ==
  /\ \A r \in Requests :
       r \in receiving \/ (r \in failedRecving /\ pc # "outputs") \/ r \in finishedRecving =>
         status[r] = "WAITING_FOR_REMOTE_KVS" \/ (IsFinished(status[r]) /\ r \in receiving)
  /\ \A r \in ToSet(waiting) \cup ToSet(skipped) :
       computed[r] = 0 /\ status[r] # "WAITING_FOR_REMOTE_KVS" => table[r] = <<>>

\* Blocks are held as long as something is written to them and no longer: a
\* load fills blocks of its own request's, no two requests hold a block for
\* different content, and a finished request holds some only for its load.
BlocksHeldForUse ==
  /\ \A r, s \in Requests : \A i \in DOMAIN table[r], j \in DOMAIN table[s] :
       table[r][i] = table[s][j] => Content(r, i) = Content(s, j)
  /\ \A r \in Requests :
       /\ {s[1] : s \in loading[r]} \subseteq ToSet(table[r])
       /\ IsFinished(status[r]) /\ table[r] # <<>> => r \in receiving \cup recved

\* Every request the client leaves alone ends, whatever fails to load.
EveryRequestEnds ==
  \A r \in Requests : r \in arrived ~> IsFinished(status[r]) /\ table[r] = <<>>
==============================================================================
