# EDMM: TLA+ models of the tool-call hook, the scheduler and the KV memory

EDMM patches the vLLM V1 engine so that a request whose output calls a tool is
paused with its KV cache in place, other work runs meanwhile, and the request
goes on when the tool has answered. KV tensors are mapped through the CUDA
virtual memory driver, so that the physical memory behind one page of a tensor
can be exchanged without moving the tensor. Paths below are relative to
`src/vllm-integration/` unless they start with `src/`.

## 1. Inventory

| Component | State it keeps | Operations | What is hard |
|---|---|---|---|
| **EdmmSchedulerHook** `vllm_v1_core_sched/edmm_hook.py` | `_active_pauses`, `_tool_responses` under one lock; handles listed in each pause record | `should_pause_for_tool_call`, `on_tool_call_pause`, `submit_tool_response`, `is_tool_response_ready`, `on_tool_call_resume`, `get_active_pause`, `cleanup_request`, `cleanup_all` | engine, tool, speculation and shutdown threads; poll and resume are two critical sections; handles are released outside the lock and releases may fail |
| **Scheduler** `vllm_v1_core_sched/scheduler.py` | `waiting`, `skipped_waiting`, `running`, `requests`, budgets of the step, `prev_step_scheduled_req_ids`, `finished_req_ids`, `finished_recving_kv_req_ids`, `num_waiting_for_streaming_input`, `_pause_state` | `schedule`, `update_from_output`, `add_request`, `finish_requests`, `set_pause_state`, `reset_prefix_cache`, promotion of blocked requests, KV transfer results | several batches in flight; preemption of requests whose token is under way; sessions that change queue while they stop; aborts during KV loads; counters kept beside queues |
| **Request, RequestStatus** `request.py` | status, token counters, streaming queue, priority order | `append_output_token_ids`, `is_finished`, `__lt__` | every number is read by several loops |
| **Recovery from failed KV loads** `scheduler.py:2070-2349` | `finished_recving_kv_req_ids`, `failed_recving_kv_req_ids`; block tables and the prefix cache of the KV cache manager | admission with cached and external tokens, `_update_requests_with_invalid_blocks`, `_handle_invalid_blocks`, promotion after a load | blocks shared by requests; loads that end after their request is gone; who recomputes a block, and who may be stopped before it has |
| **Tokens of a step** `scheduler.py:279-327, 1097-1257, 1668-1712` | draft tokens, encoder cache and budget | `_try_schedule_encoder_inputs`, `_mamba_block_aligned_split`, rejection of drafts, `_free_encoder_inputs`, `update_draft_token_ids` | four limits cut the same chunk; items are charged to the encoder cache before they are encoded; requests wait for what others hold |
| **VMM allocator** `vllm_v1_worker_gpu/edmm_allocator.py` | `_allocations`, handle lists, `_remap_lock`; the driver's ranges, handles and mappings | `allocate_vmm_kv_cache`, `remap_block`, `create_physical_handle`, `release_physical_handle`, `free_vmm_kv_cache` | a remap is three driver calls and a list update; free and allocate take no lock; every call may fail |
| **KV cache tensors** `vllm_v1_worker_gpu/attn_utils.py` | layer tensors | reshape, hybrid layout, padded pages, Mamba states | strides of views on memory that several layers share; the layout is guessed from a shape |
| **Cache engine** `cache_engine_patched.py` | layer tensors | allocation, swap, copy | what is reserved and what is counted |
| Validation and benchmarks `src/validate_edmm_core_v2.py`, `src/mini_edmm_*.cu`, `src/edmm_vllm_live_e2e.py` | none | sequential measurements | none |
| Tests, traces, SGLang baseline | none | | |

How they interact: the engine thread alternates `schedule()` and
`update_from_output()` and calls everything else on the scheduler in between.
`_try_promote_blocked_waiting_request` polls the hook and resumes requests
(`scheduler.py:2132-2141`); tool clients call `submit_tool_response` from their
own threads; a speculative worker creates physical handles with the allocator
and hangs them on the pause record; `cleanup_request` releases them. The call
that pauses a request is not in the repository (`src/ARTIFACT_STATUS.md:67`:
the hook is not wired into the live output loop), so it is modelled from the
usage note of the class (`edmm_hook.py:40-56`).

What makes each component correct:

- hook: an answer ends one pause, of its own request; an answer is never lost;
  a handle is released at most once, has one owner, is in no record or loop that
  is replaced, and is tried when its pause is cleaned up;
- scheduler: each unfinished request is in exactly one queue, that of its
  status; computed tokens have blocks; blocks come back; a sampled token goes
  where it was sampled; every assertion of the code holds; the engine does not
  sleep on work; requests finish;
- recovery: no token is sampled from KV that was never loaded or computed; blocks
  come back, and only when nothing writes to them; every request ends;
- tokens of a step: the embeddings a batch needs are there; the encoder cache
  never overflows; rejected drafts are forgotten; Mamba states are cached at every
  block boundary; every request advances;
- tensors: the bytes of a page stay in the page, and no two elements share one;
- allocator: a page of a registered tensor is always backed by the handle its
  list names, or is a hole a failed remap left; every handle has one owner, was
  released once, or was lost by a call that failed; `remap_block` looks like one
  exchange.

The hazards behind these properties are listed, at their lines, in
`PROJECT.json`.

## 2. Modules

| Module | Models | Proofs |
|---|---|---|
| `ToolPause` | abstract promise of the hook | |
| `EdmmHook` | `edmm_hook.py` and its callers | `EdmmHook_proofs` |
| `RequestStatus`, `RequestQueue` | `request.py` statuses; the queue classes (external) | in `Scheduler_proofs` |
| `Collections` | filtering a sequence, summing over a set | `Collections_proofs` |
| `Scheduler` | `scheduler.py` with the tool-call status: queues, statuses, block counts | `Scheduler_proofs`, `SchedulerSafety_proofs` |
| `KvRecovery` | `scheduler.py` when KV loads fail: block identities, prefix cache, slots | `KvRecovery_proofs` |
| `StepTokens` | `scheduler.py`: encoder inputs, Mamba alignment, draft tokens | `StepTokens_proofs` |
| `PageTable` | abstract promise of the allocator | |
| `VmmAllocator` | `edmm_allocator.py` and the driver under it | `VmmAllocator_proofs` |
| `KvLayout` | `attn_utils.py` shapes and strides; sizes in `cache_engine_patched.py` | `KvLayout_proofs` |
| `MCEdmmHook`, `MCScheduler`, `MCKvRecovery`, `MCStepTokens`, `MCVmmAllocator` | instances for TLC | |

The scheduler is three modules because three questions need three views of the
same loops: which queue a request is in and how many blocks it has (`Scheduler`),
which block it has and what is in it (`KvRecovery`), and how many tokens it gets
(`StepTokens`). Each view has the loops with their order, early exits and
preemptions; what the other two follow in detail is one step in it, or a free
choice.

Definitions marked `(Mutant.)` are seeded faults: each differs from the
definition that follows it as a plausible bug would, and `PROJECT.json` names
the property that finds it. No specification uses them.

### EdmmHook

One step is one critical section of `_lock`, or one piece of work between two.
`engineOp` says what the engine thread does: `ProcessOutput` appends a token and
decides to pause, `OnToolCallPause` is the critical section that stores the
record, `IsToolResponseReady` and `OnToolCallResume` are the two halves of a
promotion, `CleanupRequest` pops the record and `ReleasePhysicalHandle` is one
turn of its loop, whose failure is logged and skipped. `CleanupAll` copies the
keys in the shutdown thread and `CleanupAllNext` takes them one by one.
`SubmitToolResponse` is a tool's thread. A speculative worker looks a record up
under the lock and creates a handle (`GetActivePause`), and appends it to the
record's list later, without the lock. Meanwhile the record may have been popped:
`toAppend` holds the handles whose record is still in the dictionary
(`AppendHandle`), `lateAppend` those whose record a cleanup goes through, whose
loop then finds them at the end of the list (`AppendLate`) or is left before
(`LeaveLoop`), `lost` those whose record was resumed or left. The decoded window of ten
tokens is `Window`: a sentinel is in sight while fewer tokens came after it. The
CPU-load decision is free.

Each tool call is answered once; the hook itself would accept any number of
answers. `ToolPause` counts calls, answers and resumptions; the refinement
`Promise` maps them to the history counters of `EdmmHook`.

### Scheduler

`pc` names the place in a method: the loop over running requests
(`running`, `alloc`, `post`), the loop over waiting ones (`waiting`), the output
(`output`); `update`, `remove`, `kv` for `update_from_output`; `reset`. Each turn
of a loop is one action, each way a turn can end is one action:
`SkipRunning`, `PickRunning`, `ScheduleRunning`, `PreemptVictim`; `SkipBlocked`,
`PromoteBlocked`, `SkipForLora`, `SkipForConnector`, `StartLoad`,
`LoadDoesNotFit`, `ChunkTooBig`, `NoBlocksLeft`, `AdmitCandidate`;
`SkipOutput`, `KeepGoing`, `FinishStopped`, `ContinueSession`, `AwaitSession`,
`CallTool`. Only grammar compilation, tool answers and, in between methods,
client calls interleave with them: the engine thread runs one method at a time.

Tokens are numbers, blocks are counts. A batch remembers, for each request whose
step samples a token, how long the request was (`pos`), which is what lets
`InFlightSamplesFit` say that the token fits where it is appended. The loop over
a batch visits its requests in any order, as the code depends on none. A session
update brings one token and no change of sampling parameters.

`step_skipped_waiting` is filled with `prepend_request` and emptied with
`prepend_requests`, which reverse twice: `stepSkipped` is appended to and put in
front as it is.

External parts, modelled from how `scheduler.py` uses them: `KVCacheManager`
(block counts, `None` when they do not suffice, no hits in the prefix cache), the
KV connector (an answer now or later, none, part or all of the prompt, loaded at
once or asynchronously; a finished request's blocks kept for sending or not), the
request queues (deque or heap), `check_stop` (a stop token at any time, the
length caps when they are due), the executor (it answers batches in order). The
output processor that pauses for a tool (`CallTool`) sets the status, calls the
hook and moves the request to the blocked queue the way stopped sessions are
moved; `_edmm_hook` is assumed to be attached and `EDMM_ENABLED` set.

### KvRecovery

A block is an identity with a key, the content by which the prefix cache finds
it, and slots that are `right` when they hold the KV of the token they are for.
Two blocks have the same key when they and all blocks before them hold the same
tokens, which is what block hashes say; requests share their first blocks, and
twins the whole prompt. `Admit` takes the longest cached prefix, may add
external tokens the connector loads in the step itself (`SyncLoaders`), and
caches all full blocks at once, loaded or not, as `allocate_slots` does.
`StartLoad` is the background load (`AsyncLoaders`); `FinishSchedule` runs the
batch: any of the blocks asked for may fail, then positions are computed in
order, and a slot is right only if all before it are. `HandleInvalidBlocks` is
both scans and both policies, `ProcessOutputs` the rest of
`update_from_output()`, `finish_requests` of the failed ones and
`_update_from_kv_xfer_finished` included. `sound` remembers which samples come
from right KV only; `interrupted` is a history variable.

`scheduler.py:2211` shares the recomputation of a block: the first request that
marks it is cut back, the others keep counting it as computed. That is right as
long as the first one runs in the same later batch or before, which the order of
`running` gives when a request is given all its tokens or the rest of the budget, and
as long as it is neither preempted nor aborted: `SampledUnlessInterrupted` says the
first, run `kv_shared` shows the second. With `long_prefill_token_threshold` the first
one may recompute in chunks while the others go on (section 4); the runs leave it off.

### StepTokens

One turn of the loop over requests is `PlanTurn`, a turn of
`_try_schedule_encoder_inputs` per feature (`PassFeature`, `EncoderCacheHit`,
`RollBack`, `NoEncoderRoom`, `PassUnreached`, `PlanInput`, `FeaturesOver`), and
`ScheduleTurn` or `PassTurn` after alignment. `PreemptForBlocks` takes back what
a scheduled victim was given (`scheduler.py:461-478`). The waiting loop differs in
what a zero does (it ends the loop), which `back` tells. The encoder cache is
modelled from its calls: references, unused items in eviction order, room.
`Init` and a readmission give a request any prefix-cache hit of `Hits`, which is
how a request starts in the middle of an item. `config` is one of
`Configs`, all in one run.

### KvLayout

Operators: the shape a backend returns, the view `_reshape_kv_cache` makes of it
with or without padding, the strides `_update_hybrid_attention_layout` sets, and
`Byte`, the place of an element in the raw tensor; the places of Mamba states; the
bytes `CacheEngine` reserves and counts. `MCVmmAllocator` holds ASSUMEs that check
them on every layout of up to four pages of two kernel blocks, and
`KvLayout_proofs` proves them for all.

### VmmAllocator

A step of a thread is one driver call with the Python code around it. The driver
keeps reserved ranges, the handle mapped at each page, the accessible pages and
how often each handle was released; it refuses to unmap a hole, to map over a
mapping and to free a range that is mapped. `MayFail` lets any call of an
allocation or a remap fail; `lost` and `holes` are history variables that keep
what such a failure left behind: handles nobody can name, pages without backing. `Overlap` lets `free_vmm_kv_cache` run during a remap
of the same tensor: the lock does not prevent it, and only a caller that never
does it gets `PagesBacked`. In `PageTable` a remap is one step; `Promise` maps the
list of the registered object to the table, so a remap takes effect when the list
entry is swapped.

## 3. Runs

| Run | Checks | Bounds |
|---|---|---|
| `hook` | `TypeOK`, `HandleOwnership`, `ImplementsToolPause`, `AnswerKeptUntilUsed`, `NoHandleForgotten`, `HandlesTried`, `ShutdownCompletes` | 2 requests, 2 handles, 1 call and 2 tokens each, window 2, fair; 286,000 states |
| `core` | `TypeOK`, `QueueAgreement`, `InFlightSamplesFit`, `ComputedTokensHaveBlocks`, `BlocksReclaimed`, `AssertionsHold` | FCFS, 3 requests, 3 blocks of 2 tokens, 2 batches in flight, chunks of 1 token, 2 running; 682,000 states |
| `sessions` | `QueueAgreement`, `TokensAddUp`, `NoSleepWithWork`, `AssertionsHold`, `PreemptedNotScheduled`, `LorasFit` | PRIORITY, 3 requests of which one is a session with 2 updates, 4 blocks, a budget of 5 tokens, prompts of 2, 1 and 4, outputs of 3, 2 and 2, no chunked prefill, 1 adapter, resets, all pause states; 2,560,000 states |
| `live` | `QueueAgreement`, `ToolPauseHeld`, `EveryRequestFinishes`, `AnsweredToolRuns` | 2 requests, 3 blocks, 2 batches in flight, fair; 15,000 states |
| `vmm` | `TypeOK`, `PagesBacked`, `HandlesAccounted`, `ImplementsPageTable`; the ASSUMEs about `KvLayout` | 2 threads, 2 pages, 5 handles, 2 ranges, 2 tensors, driver failures; 67,000 states up to symmetry |
| `kv_recovery` | `TypeOK`, `FailedLoadsEvicted`, `LoadsAccounted`, `BlocksHeldForUse`, `SampledUnlessInterrupted`, `EveryRequestEnds` | 3 requests (2 load in the step, 1 in the background; 2 with the same prompt), 7 blocks of 2 tokens, prompts of 5, 2 output tokens, 2 failed blocks, both policies, 1 request may be aborted, fair; 90,000 states |
| `step_tokens` | `TypeOK`, `EncoderCacheFits`, `ComputedWithinTokens`, `MambaStatesCached`, `FeaturesReady`, `EveryRequestEnds` | 2 requests of 6 and 7 tokens, 4 items of 1 and 2 tokens, an encoder cache of 3, 4 or 7, budgets of 5 and 4, blocks of 2, 2 drafts, 2 block shortages, every configuration in which the options meet; 147,000 states |
| `hook_reclaim` | `SpeculationIsReclaimed` violated | 1 request |
| `session_preempted` | `TokensAddUp` violated | 2 sessions, 2 batches in flight |
| `lora_in_flight` | `LorasFit` violated | 2 requests, 2 batches in flight |
| `vmm_race` | `PagesBacked` violated | 1 range, free during a remap |
| `kv_shared` | `SampledFromRightKv` violated | as `kv_recovery`, recompute policy |

Why the bounds are enough. Two requests are what it takes for one to preempt,
block or answer for another, three for a queue with a middle; three blocks of two
tokens for requests that need three each make every admission and every decode
step compete for the pool. In `kv_recovery` three requests of three blocks and one
more with seven blocks preempt each other, and two failed blocks let a request own
one and share another, or both policies meet a failure in the step and one in the
background. In `step_tokens` items of two tokens in chunks of at most five are
split, shared, adjacent and evicted, and caches of 3, 4 and 7 are one too small,
just enough and ample for two requests. Two batches in flight is the least number at which a
step is planned before the last token is back. Two pages and five handles let two
threads remap one page or two, with a loose handle left over; two ranges let two
tensors exist at once, one of them half allocated when a call fails. Two tokens and a
window of two let an old sentinel be seen again; two handles let a release fail
before another, and one be appended while the other is released. Deadlock is not checked: bounded
clients stop, and the system rests; that it does not stop with work left is what the
liveness properties say.

Bounds that are not in the code: `MaxCalls`, `MaxTokens`, `MaxToolCalls`,
`MaxUpdates`, `Objs`, `Handles`,
`MaxFailures` (blocks that fail to load; block shortages), `Hits`. The others are parameters of the program.

Fairness. `EdmmHook`: release loops and the loop of `cleanup_all` go on once
entered. Nothing is assumed of polling: the loop of `schedule()` over waiting
requests breaks at a head that cannot be admitted (`scheduler.py:545`, `549`,
`733-740`), and requests behind it are not polled. That a tool user runs after its
answer is therefore a property of the scheduler (`AnsweredToolRuns`), where the
queues and the pool are, and not of the hook. `Scheduler`: the engine steps whenever it has work and nothing stops
inside a method (weak fairness of each method's steps); grammars get compiled and
tools answer (weak fairness of these threads); the connector does not answer
"not yet" for ever and KV transfers end (strong fairness, as the scheduler asks
only now and then). `KvRecovery`: the engine keeps
stepping (weak fairness of `Step`), and a background load does not go on for ever
(strong fairness of `LoadEnds`, which is possible once per step). `StepTokens`: the
engine keeps stepping (weak fairness of `Next`, which has no other actor). Nothing is assumed of clients: they need not add, abort or
update anything.

## 4. What the code's own text says and the code does not do

Each of the five violation runs reproduces one of these:

- `hook_reclaim`: `src/progress/progress_5_26.md:55` promises reclamation of all
  speculative handles. `on_tool_call_resume` pops the record and returns it, and
  `scheduler.py:2138` ignores what it returns.
- `session_preempted`: a session preempted while its last token is in flight stops
  with `num_computed_tokens` 0; `_update_request_as_session` then deletes all its
  tokens and keeps counting them in `num_prompt_tokens`. In the same update the
  request, which `_handle_stopped_request` has just enqueued in `waiting`, is
  removed from `waiting` with its preempted entry (`scheduler.py:1531-1533`) and
  is in no queue.
- `lora_in_flight`: the assertion at `scheduler.py:542` can fail.
- `vmm_race`: `_remap_lock` covers remaps only.
- `kv_shared`: under the recompute policy a failed block stays in the prefix cache
  (`scheduler.py:2322-2326`: it "will be recomputed and reused by other requests
  sharing them"). When the request that owes the recomputation is aborted or
  preempted first, nobody recomputes it: the requests that were only cut back to
  what they had computed before, and later ones with a cache hit, sample from it.

Met while modelling, not in a run:

- the scheduler never calls `cleanup_request` or `cleanup_all` and never creates
  the hook, though `edmm_hook.py:139-141` says cleanup "must be called" on aborts:
  pauses of aborted requests stay;
- a handle appended to a record that `get_active_pause` returned
  (`edmm_hook.py:134-136`) before the request was resumed, or before
  `cleanup_request` reached the end of its list, is released by nobody (`lost`);
- setting the status without moving the request, as the usage note
  `edmm_hook.py:47-50` has it, leaves the request in `running`, where the next
  step schedules it;
- `should_pause_for_tool_call` looks at the last ten tokens, not at "the latest
  output" (`edmm_hook.py:68`), so a resumed request is paused again by the
  sentinel that was answered;
- a response submitted after `cleanup_request` stays in the dictionary and ends
  the first pause of a later request with that id;
- two tool users on three blocks: both pauses keep their blocks, both answers
  arrive, each needs one more block, and neither is ever admitted
  (`scheduler.py:733-740` breaks; nobody is running, so nobody is preempted);
- `reset_prefix_cache(reset_running_requests=True)` raises while an idle session
  or a paused request holds blocks (`scheduler.py:1935-1941`), and with two batches
  in flight tokens of a preempted request come back after it was resumed
  (`InFlightSamplesFit` fails there; run `sessions` has one batch at a time);
- a `cuMemMap` that fails in `remap_block` leaves the page without backing
  (`holes`), and an allocation that fails half way loses its handles and its
  range (`lost`);
- with `long_prefill_token_threshold` set, `SampledUnlessInterrupted` fails without any
  interruption (`PrefillThreshold = 1` on the constants of run `kv_recovery`): the
  request that owes the recomputation is given one chunk a step
  (`scheduler.py:390-391`), the failed block is still in the prefix cache, and a
  request that hits it is admitted and samples in the same step;
- two background loaders that hit the same cached block of a running request, whose
  own load of it fails in that step: the scan cuts back the first loader and
  leaves the second its whole prompt (`scheduler.py:2236-2243`), the promotion does not
  take its last token back as it is in `failed_recving_kv_req_ids`
  (`scheduler.py:2081-2092`), and `assert num_new_tokens > 0` (`scheduler.py:670`) fails
  when it is admitted;
- under the fail policy only the request that marks a shared block first has the
  blocks after it evicted (`scheduler.py:2261`); the others fail as well, but their
  own later blocks, computed from the failed one, stay cached;
- PRIORITY preemption of a request already scheduled in the step cancels the
  encoding of its items (`scheduler.py:475-478`) and frees them only as unused entries
  (`scheduler.py:939`), so the next request that needs one takes it for cached
  (`scheduler.py:1181`) although no worker has encoded it. `takenBack` keeps such
  items, and `FeaturesReady` excepts them;
- two requests whose items do not fit the encoder cache together can wait for each
  other for ever, each holding the item the other's room depends on. It takes items
  of one request that must be held at once: the EAGLE shift and Mamba alignment
  make adjacent items such. `Roomy` states the room with which every request ends;
- `disable_chunked_mm_input` with EAGLE or Mamba alignment and a chunk limit just
  as large as the item rolls back before the item for ever; `Roomy` asks for that
  much more room. The option is not applied when a chunk starts exactly at the item
  (`scheduler.py:1191` compares with `<`), so the item is split there;
- `_update_hybrid_attention_layout` takes an MLA tensor of two kernel blocks for a
  K/V-first one (`attn_utils.py:324`; its assertion only looks at the second
  dimension): `TwoBlocksAreTakenForKandV`. Padded pages of K/V-first backends are
  excluded by a comment only (`attn_utils.py:256-261`);
- `get_cache_block_size` counts the bytes of the blocks, while each layer's
  allocation is rounded up to driver pages: `EngineReservation` bounds the
  difference by one driver page per layer.

## 5. Proofs

`Collections_proofs` proves what the recursive functions behind sequences and sums
compute: that `Sift` keeps the members in the set, in their order and once each; that
`Total`, a fold, does not depend on the order of summation, adds up over disjoint
sets, and grows with its set. The library's induction theorems cannot be used here
(they take an operator); these lemmas take the least number at which
the claim would fail (`LeastNumber`) instead.

`Scheduler_proofs` first proves what the operators on queues do: `Without`, `RemoveAt`
and the priority queue's `HeadIndex` keep the order and the other members and
introduce no duplicate, and appending, prepending and concatenating add the
members they say. Then it states `EngineAssumption` and the inductive invariant `IInv`
and proves the lemmas on types, block counts and the choice of the next request;
`SchedulerSafety_proofs` proves that every step keeps each part of `IInv`
(`Inductive`), and that it implies every safety invariant the runs check, and
`ToolPauseHeld`, for any set of requests and any lengths, blocks, budgets, policy,
adapters, tools and KV transfers:

| Theorem | States |
|---|---|
| `Types` | `TypeOK`: `num_computed_tokens` and the free blocks never go below zero |
| `QueuesAndStatusesAgree` | `QueueAgreement` |
| `SamplesFit` | `InFlightSamplesFit` |
| `TokensHaveBlocks`, `BlocksComeBack` | `ComputedTokensHaveBlocks`, `BlocksReclaimed` |
| `PromptAndOutput` | `TokensAddUp` |
| `PreemptedLeavesPlan` | `PreemptedNotScheduled` |
| `NoSleep` | `NoSleepWithWork` |
| `NoAssertionFails` | `AssertionsHold` |
| `PausesHeld` | `ToolPauseHeld` |
| `AdaptersFit` | `LorasFit`, with one batch at a time |

`EngineAssumption` says that the executor works on one batch, or on two in an
engine without sessions and without `reset_prefix_cache`. The theorems are false
without it, and TLC shows how: with two batches and a session, run
`session_preempted` breaks `TokensAddUp` (and `QueueAgreement` fails on the same
constants); with two batches and resets, or with three batches, a request that is
preempted while its token is in flight is scheduled again before the token is back,
and `InFlightSamplesFit` fails. `AdaptersFit` asks for one batch because run
`lora_in_flight` breaks `LorasFit` with two.

None of the invariants is inductive by itself. `IInv` adds:

- `AtRest`, `QueueInv`: which locals of a method are empty where, and what the
  queues are while a method is half done: `update_from_output` has put a stopped
  request in its new queue and has yet to take it from the old one (`StoppedInv`);
- `SamplesInv`: a request with a token in flight is as long as when the step was
  scheduled, is running with all of it computed or stays preempted in `waiting`, has
  no second token in flight, and cannot be admitted before its batch is back. This
  is what carries `InFlightSamplesFit`, and where `EngineAssumption` is used;
- `ChunksInv`, `LongInv`: only a session that is continued may be as long as
  `max_model_len` or longer (nothing in `add_request` bounds what a client sends).
  Its one new token is computed in one step whose sample stops it again, so
  the loop over running requests, where the number of its new tokens would be
  negative (`scheduler.py:396-398`), never meets it;
- `LengthInv`, `SessionInv`, `NewcomersInv`: lengths are prompt and output, whoever
  waits for its turn has a token to compute, an idle session all but one computed;
- `PlanInv`, `PrevInv`: what the loop over running requests has given so far, and
  that the requests of the step before are not resumed in this one;
- `TransferInv`, `StreamingInv`, `PoolInv`: KV transfers have requests that expect
  them, the counter counts the idle sessions, and there is a map that gives each block
  of the pool one owner, from which block counts add up without a sum.

`AdaptersFit` needs `LoraIInv` on top: with one batch no running request waits for
a sample during `schedule()` (`RunInv`), so the loop over running requests passes
over none, and when the waiting queues are looked at all of `running` is scheduled or
the budget is used up (`LoopInv`); the adapters of `running` then never exceed
`max_loras` (`LoraInv`).

`StepTokens_proofs` proves for any requests, items, features, lengths, budgets,
drafts, block size, hits and configurations that `StepTokensAssumption` allows
(the items of a request come in the order of their places, hits are whole blocks
before the end of the prompt, prompts are shorter than `max_model_len`):

| Theorem | States |
|---|---|
| `Types` | `TypeOK`: budgets, computed tokens and the room for embeddings never go below zero |
| `CacheFits` | `EncoderCacheFits` |
| `ComputedStaysBehind` | `ComputedWithinTokens` |
| `MambaStopsAtBlocks` | `MambaStatesCached` |
| `BatchHasItsFeatures` | `FeaturesReady` |

All five follow from one invariant, `IInv` (`Inductive`), because each loop reads what
another has left behind:

- `OrderInv`: the loop has passed what it scheduled, readmitted requests come last,
  and finished ones have been passed;
- `LengthInv`: what a turn may still give, and that the budget and what was given add
  up to the step's budget: a preemption gives back exactly what its victim got;
- `ComputedInv`: how many tokens a request lacks and has drafts for in each phase,
  from which it follows that a rejection never takes back more than was drafted;
- `MambaInv`: a request stops at a block boundary or past the last one to cache;
- `CacheInv`, `EncoderBudgetInv`: the items in the cache and those planned beside
  them fit, references belong to requests that have the item, inputs of the batch
  are held by their requests; what is to be encoded stays within the budget;
- `FeaturesInv`: every feature the loop has passed is planned for or held if the
  tokens still given need it. A chunk that is cut short later in the loop, or by
  alignment, needs less, and a victim of a preemption gives back its inputs.

`KvRecovery_proofs` proves for any requests, blocks, lengths, budgets, thresholds,
loaders, shared prefixes, failures and both policies that `KvRecoveryAssumption` allows:

| Theorem | States |
|---|---|
| `Types` | `TypeOK`: computed tokens and budgets never go below zero, however far a request is cut back |
| `FailedEvicted` | `FailedLoadsEvicted` |
| `Accounted` | `LoadsAccounted`, with prompts of at least two tokens |
| `HeldForUse` | `BlocksHeldForUse` |

They follow from one invariant, `IInv` (`Inductive`), whose parts need each other:

- `QueueInv`: a request is in one queue at most, that of its status, or in
  `stepSkipped` during the loop over waiting requests;
- `TokenInv`, `TableInv`: computed tokens, with those of the step being planned, are
  tokens the request has, and its blocks are enough for them and no more than the
  longest request needs. A scan of failed blocks reads positions of the table, so
  it has to find a block at each;
- `KeyInv`: a held block is cached, if at all, with the content all its holders use
  it for; a block that a background load fills is not cached and nobody else's.
  That is what lets a cache hit be shared, and an allocation take a free block
  that is still cached and give it a new content;
- `LoadInv`: a background load has a request that waits for it or ended meanwhile;
  each waiting one is being loaded, just loaded or known to have finished;
- `IdleInv`: a load that did not fail was for the whole prompt, so a promotion
  leaves something computed, or gives up the blocks;
- `ReportInv`: what a batch loads is counted by a running request. From it
  `FailedEvictedByOwner` follows: of the running requests that count a reported
  block the first one owns it, and evicts it.

`AllocateKeeps` carries the steps that take blocks: `TakenBlocks` and
`InOrderSequence` say that as many free blocks as are short can be put in an order,
which is where Cardinality and the recursive `Ranks` come in.
`Accounted` is false for prompts of one token, and TLC shows it: a load of the whole
prompt is cut back by one token (`scheduler.py:2098-2101`), to none, and the request
waits with its block, to ask the connector again.

`EdmmHook_proofs` proves for all constants allowed by `HookAssumption`:

- `TypeCorrect`: `Spec => []TypeOK`. `TypeOK` is not inductive, as a pausing or
  resuming engine must have a request (`EngineHasRequest`); `TypeInv` adds that.
- `HandlesAreOwnedOnce`: `Spec => []HandleOwnership`. `OwnerInv` is `TypeInv`,
  the eight parts of `HandleOwnership`, and `FreshHandles`: the handles not yet
  created are in no other set. `PopKeepsOwners`, `GetKeepsOwners`,
  `AppendKeepsOwners` and `LoopKeepsOwners` carry the argument for the actions that
  give a handle an owner, move it to another, or settle it.
- `NoHandleVanishes`: `Spec => []NoHandleForgotten`. A record or a list could be
  overwritten in three places, and `KeepInv` says why it is empty there: only
  blocked requests have records (`OnlyBlockedPaused`), a pausing request was not
  blocked and has none (`PausesAfresh`), and the engine thread starts a cleanup
  with no loop unfinished (`EngineLoopLeft`; `CleanupAllNext` tests it).
- `HookImplementsToolPause`: `Spec => ImplementsToolPause`. The step that matters
  is `OnToolCallResume`, which may run after `cleanup_all` took the response
  away. `AnswersUnused` is the strengthening that makes it a `Resume` of the
  abstract specification: an answer that is in the dictionary, or that a resuming
  engine has seen, has not been counted as a resumption.
- `AnswersAreKept`: `Spec => AnswerKeptUntilUsed`, an action property of every step.

`VmmAllocator_proofs` proves for all constants allowed by `VmmAssumption`:

- `TypeCorrect`: `Spec => []TypeOK`, with or without driver failures and
  overlapping frees. The strengthening `TypeInv` says what a call in progress
  works on (`CallsHaveTargets`) and that the lists it reads have no hole
  (`ListsFull`): `remap_block` returns the list entry it replaces.
- `PagesStayBacked`: `Spec => []PagesBacked` if `Overlap` is false, driver failures
  or not: run `vmm_race` shows it broken by a free during a remap. A map that fails
  after the unmap leaves a hole, which `PagesBacked` excepts and `BackedInv` has to
  carry through later remaps of the page. `BackedInv` says that
  the lock is held by the thread inside the critical section (`LockInv`); that an
  object has one range (`RegistryInv`), and a tensor that is not registered one
  thread (`PrivateInv`, `ObjectInv`); that the object a remap found before it took
  the lock is still registered (`RemapInv`); and what the driver has mapped at the
  pages an allocation passed and at the page of the critical section
  (`AllocationInv`, `CriticalInv`).
- `HandlesInOnePlace`: `Spec => []HandlesAccounted` under the same condition.
  `AccountInv` adds to `BackedInv` that whoever builds or takes apart an object is
  alone with it (`OwnersInv`), that lists start empty and calls hold a handle only
  between the steps that take it and give it away (`EmptyInv`), and states the
  account handle by handle instead of by counting: never in two places
  (`OnePlaceInv`), in some place from creation until it is released or lost
  (`SomePlaceInv`), released at most once (`ReleasesInv`). `StepPlaces` says where
  each step moves which handle; `OneClaim` turns places into the count.
- `AllocatorImplementsPageTable`: `Spec => ImplementsPageTable` under the same
  condition. A step is one of the page table when it is the last of an allocation
  or of a remap, the first of a free, or a caller's create or release
  (`AllocateRefines`, `SwapRefines`, `FreeRefines`, `CreateRefines`,
  `ReleaseRefines`), and nothing there otherwise. That `Allocate` may take the
  handles of the list, and `Swap` the caller's, is `OnePlaceInv`; that
  `FreeRelease` changes nothing for the page table needs lists being freed to have no
  hole (`FreeingFull`).

`KvLayout_proofs` proves, for any number of pages, kernel blocks, rows and sizes:

- `HybridPagesKept` and `HybridElementsApart`: after the change of strides a
  hybrid model's attention layer keeps every element in the bytes of its page and
  no two elements share one. The place of an element is a number with the digits
  page, kernel block, row and element; `DigitInInterval` says that the lower digits
  do not carry into the page, `DigitsUnique` that different digits make different
  numbers, and `HybridByte` that the strides compute just this number, whichever
  dimension comes first in the shape. They assume that the tensor has not two
  kernel blocks.
- `PaddedPagesKept`, `MambaStateInItsPage`, `EngineReservation`.

The modules with proofs update one entry of a function per `EXCEPT`, with the new
record written from `op[t]`: the SMT translation of tlapm 1.4.5 treats several
updates of one entry as if each were made to the old value, which is a
contradiction. For each action of `EdmmHook` and `VmmAllocator` we checked that its hypotheses
do not prove `FALSE`.

Only model-checked: `SampledUnlessInterrupted` (it needs an invariant that says for
every slot whether what it holds is right, through sharing and cutting back)
and all liveness, which with ENABLED is beyond the prover.

## 6. Not modelled

In the scheduler: encoder-decoder models (cross-attention blocks), async
scheduling's placeholders and `update_draft_token_ids_in_output`, routed experts,
KV cache groups beyond one, statistics, events and log probabilities; failed loads
with several batches in flight or under PRIORITY; the masks that make part of an
item's tokens no embeddings. In the worker: backend selection, slot mappings and
attention metadata of `attn_utils.py`, and swap and copy of the cache engine, which
hand configuration and tensors to builders and backends outside the repository.
Page contents and devices other than 0 in the allocator. The validation programs,
benchmarks and tests: they measure or check, one step after the other, and keep no
state.

## 7. Plan

1. Done: hook, scheduler core, allocator; failed KV loads, tokens of a step and
   tensor layouts; proofs about the hook, the allocator and the layouts.
2. Proved as well: every safety invariant of every module, and the refinements.
3. Prove: `SampledUnlessInterrupted`, for engines without `long_prefill_token_threshold`.
4. Extend: devices in `VmmAllocator`; the hook and the scheduler composed, with
   cleanup wired in as the docstring demands.
