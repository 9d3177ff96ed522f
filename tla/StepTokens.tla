------------------------------ MODULE StepTokens ------------------------------
(***************************************************************************)
(* How many tokens the Scheduler gives a running request in a step, and    *)
(* what goes with them: the encoder inputs the tokens need, the alignment  *)
(* Mamba states need, draft tokens and the rejection of some of them.  The *)
(* requests have been admitted once, and one that is preempted for want of *)
(* KV blocks tries to come back in the next step; the queues are modelled  *)
(* in Scheduler.  The EncoderCacheManager is external, modelled from the   *)
(* scheduler's calls.                                                      *)
(***************************************************************************)
EXTENDS Integers, SequencesExt, Collections

CONSTANTS
  Requests,
  Order,            \* the order in which the requests were admitted
  Rank,             \* Rank[r]: priority order, the least first
  Items,            \* identifiers of multimodal items
  Size,             \* Size[i]: tokens, and embeddings, of item i
  PromptLen, MaxOutput,   \* num_prompt_tokens and max_tokens of each request
  MaxModelLen,      \* max_model_len
  TokenBudget,      \* max_num_scheduled_tokens
  EncoderBudget,    \* max_num_encoder_input_tokens
  RemoteItems,      \* items the EC connector has
  BlockSize,        \* block size of the Mamba cache
  MaxDraft,         \* num_speculative_tokens
  Hits,             \* tokens of a prompt the prefix cache may hold
  Configs,          \* eagle: use_eagle; whole: disable_chunked_mm_input;
                    \* mamba: need_mamba_block_aligned_split; priority: policy is
                    \* PRIORITY; threshold: long_prefill_token_threshold, 0 is
                    \* none; cache: embeddings the encoder cache holds;
                    \* features[r]: r's mm_features, as [start, item], by start
  MaxFailures       \* bound: allocate_slots finding no blocks

ASSUME StepTokensAssumption ==
  /\ IsFiniteSet(Requests) /\ Requests # {} /\ IsFiniteSet(Items)
  /\ Order \in Seq(Requests) /\ IsInjective(Order) /\ ToSet(Order) = Requests
  /\ Size \in [Items -> Nat \ {0}] /\ RemoteItems \subseteq Items
  /\ PromptLen \in [Requests -> Nat \ {0}] /\ MaxOutput \in [Requests -> Nat \ {0}]
  /\ \A r \in Requests :
       /\ PromptLen[r] < MaxModelLen
       /\ \A h \in Hits : h < PromptLen[r]
  /\ {TokenBudget, EncoderBudget, BlockSize} \subseteq Nat \ {0}
  /\ {MaxDraft, MaxFailures, MaxModelLen} \subseteq Nat /\ Rank \in [Requests -> Int]
  /\ \A h \in Hits : h \in Nat /\ h % BlockSize = 0
  /\ \A cfg \in Configs :
       /\ {cfg.eagle, cfg.whole, cfg.mamba, cfg.priority} \subseteq BOOLEAN
       /\ {cfg.threshold, cfg.cache} \subseteq Nat
       /\ \A r \in Requests :
            /\ cfg.features[r] \in Seq([start : Nat, item : Items])
            /\ \A m, n \in DOMAIN cfg.features[r] :
                 m < n => cfg.features[r][m].start <= cfg.features[r][n].start

VARIABLES
  config,
  computed, tokens, drafts,   \* num_computed_tokens, num_tokens, len(spec_token_ids)
  finished,
  refs,             \* refs[i]: requests that use item i of the encoder cache
  freeable,         \* cached items nobody uses, the next to evict first
  encoded,          \* cached items whose embeddings the worker has computed
  takenBack,        \* cached items whose encoding was cancelled: see PreemptForBlocks
  order, back,      \* self.running, and those of them readmitted in this step
  pc, turn, current, feat,   \* place in the loops: req_index, request, feature
  numNew, plan, encLeft, embeds,
                    \* num_new_tokens, mm_hashes_to_schedule, encoder budget and
                    \* num_embeds_to_schedule of _try_schedule_encoder_inputs
  budget, encBudget,   \* token_budget, encoder_compute_budget
  sched, schedDrafts,  \* num_scheduled_tokens, len(scheduled_spec_decode_tokens)
  inputs,              \* scheduled_encoder_inputs, and those loaded from outside
  chunks,              \* requests with is_prefill_chunk set
  failuresLeft

reqVars == <<computed, tokens, drafts, chunks, finished>>
cacheVars == <<refs, freeable, encoded, takenBack>>
queueVars == <<order, back, failuresLeft>>
featVars == <<current, feat, numNew, plan, encLeft, embeds>>
stepVars == <<budget, encBudget, sched, schedDrafts, inputs>>
vars == <<config, reqVars, cacheVars, queueVars, pc, turn, featVars, stepVars>>

Features == config.features
SizeOf(items) == Total(Size, items)
Used == {i \in Items : refs[i] # {}}
InCache == Used \cup ToSet(freeable)

TypeOK ==
  /\ config \in Configs
  /\ computed \in [Requests -> 0..MaxModelLen]
  /\ tokens \in [Requests -> 1..MaxModelLen]
  /\ drafts \in [Requests -> 0..MaxDraft] /\ schedDrafts \in [Requests -> 0..MaxDraft]
  /\ finished \subseteq Requests /\ chunks \subseteq Requests
  /\ refs \in [Items -> SUBSET Requests]
  /\ freeable \in Seq(Items) /\ \A i \in ToSet(freeable) : refs[i] = {}
  /\ pc \in {"idle", "turn", "features", "align", "end", "update", "drafts"}
  /\ encoded \cup takenBack \subseteq InCache
  /\ order \in Seq(Requests) /\ IsInjective(order) /\ back \subseteq ToSet(order)
  /\ turn \in 1..Cardinality(Requests) + 1 /\ feat \in Nat /\ numNew \in 0..TokenBudget
  /\ current \in Requests /\ plan \subseteq Items /\ inputs \in [Requests -> SUBSET Items]
  /\ encLeft \in 0..EncoderBudget /\ embeds \in 0..config.cache
  /\ budget \in 0..TokenBudget /\ encBudget \in 0..EncoderBudget
  /\ sched \in [Requests -> 0..TokenBudget]
  /\ failuresLeft \in 0..MaxFailures

Init ==
  /\ config \in Configs
  /\ computed \in [Requests -> Hits]
  /\ tokens = PromptLen /\ drafts = [r \in Requests |-> 0] /\ finished = {} /\ chunks = {}
  /\ refs = [i \in Items |-> {}] /\ freeable = <<>> /\ encoded = {} /\ takenBack = {}
  /\ order = Order /\ back = {} /\ failuresLeft = MaxFailures
  /\ pc = "idle" /\ turn = 1 /\ current = Order[1]
  /\ feat = 1 /\ numNew = 0 /\ plan = {} /\ encLeft = 0 /\ embeds = 0
  /\ budget = 0 /\ encBudget = 0
  /\ sched = [r \in Requests |-> 0] /\ schedDrafts = [r \in Requests |-> 0]
  /\ inputs = [r \in Requests |-> {}]

Least(a, b) == IF a <= b THEN a ELSE b
Most(a, b) == IF a >= b THEN a ELSE b

-------------------------------------------------------------------------------
(* EncoderCacheManager *)

\* can_allocate evicts, longest unused first, until i fits beside the plan.
CanAllocate(i) == /\ Size[i] <= encLeft
                  /\ Size[i] + embeds <= config.cache - SizeOf(Used)
\* (Mutant.)  Room for i alone.
EvictionForOne(i) ==
  LET fits == {n \in 0..Len(freeable) :
                 Size[i] <= config.cache - SizeOf(InCache)
                            + SizeOf(ToSet(SubSeq(freeable, 1, n)))}
  IN  SubSeq(freeable, Min(fits) + 1, Len(freeable))
AfterEviction(i) ==
  LET fits == {n \in 0..Len(freeable) :
                 Size[i] + embeds <= config.cache - SizeOf(InCache)
                                     + SizeOf(ToSet(SubSeq(freeable, 1, n)))}
  IN  SubSeq(freeable, Min(fits) + 1, Len(freeable))
Evict(i) ==
  LET kept == Used \cup ToSet(AfterEviction(i)) IN
  /\ freeable' = AfterEviction(i)
  /\ encoded' = encoded \cap kept /\ takenBack' = takenBack \cap kept

\* check_and_update_cache, when the item is there.
Acquire(i, r) == /\ refs' = [refs EXCEPT ![i] = @ \cup {r}]
                 /\ freeable' = Sift(freeable, Items \ {i})

Held(r) == {i \in Items : r \in refs[i]}

\* free_encoder_input for each of items, in the order of r's features.
Release(r, items) ==
  LET loose == {i \in items : refs[i] = {r}}
      inOrder == [n \in DOMAIN Features[r] |-> Features[r][n].item]
      first(n) == \A m \in 1..n - 1 : inOrder[m] # inOrder[n]
      last == Sift([n \in DOMAIN inOrder |-> n],
                   {n \in DOMAIN inOrder : inOrder[n] \in loose /\ first(n)})
  IN  /\ refs' = [i \in Items |-> IF i \in items THEN refs[i] \ {r} ELSE refs[i]]
      /\ freeable' = freeable \o [n \in DOMAIN last |-> inOrder[last[n]]]

-------------------------------------------------------------------------------
(* schedule(): the loop over the running requests, and over the waiting ones *)

\* Requests out of the batch find what the prefix cache has of them; that of one
\* that is not readmitted is forgotten with the next step.
BeginSchedule ==
  LET absent == Requests \ (finished \cup ToSet(order))
      readmitted == Sift(Order, absent)
  IN  /\ pc = "idle" /\ finished # Requests
      /\ pc' = "turn" /\ turn' = 1
      /\ order' = order \o readmitted /\ back' = absent
      /\ \E hit \in [absent -> Hits] :
           computed' = [r \in Requests |-> IF r \in absent THEN hit[r] ELSE computed[r]]
      /\ budget' = TokenBudget /\ encBudget' = EncoderBudget
      /\ sched' = [r \in Requests |-> 0] /\ schedDrafts' = [r \in Requests |-> 0]
      /\ inputs' = [r \in Requests |-> {}]
      /\ UNCHANGED <<config, tokens, drafts, chunks, finished, cacheVars, featVars,
                     failuresLeft>>

\* The most tokens of one request in a step.
Stride == IF config.threshold > 0 THEN Least(config.threshold, TokenBudget) ELSE TokenBudget

\* (Mutant.)
WantedPastBudget(r) ==
  Min({tokens[r] + drafts[r] - computed[r], Stride, MaxModelLen - 1 - computed[r]})

\* num_new_tokens before encoder inputs and alignment limit it.
Wanted(r) == Min({tokens[r] + drafts[r] - computed[r], Stride, budget,
                  MaxModelLen - 1 - computed[r]})

PlanTurn ==
  /\ pc = "turn" /\ turn <= Len(order) /\ budget > 0
  /\ current' = order[turn]
  /\ numNew' = Wanted(order[turn])
  /\ pc' = IF Wanted(order[turn]) = 0 THEN "align" ELSE "features"
  /\ feat' = 1 /\ plan' = {} /\ encLeft' = encBudget /\ embeds' = 0
  /\ UNCHANGED <<config, reqVars, cacheVars, queueVars, turn, stepVars>>

\* One turn of the loop over the features in _try_schedule_encoder_inputs.
Shift == IF config.eagle THEN 1 ELSE 0
F == Features[current][feat]
FEnd == F.start + Size[F.item]
ChunkEnd == computed[current] + numNew
Reached == feat <= Len(Features[current]) /\ F.start < ChunkEnd + Shift
InFeatures == pc = "features" /\ Reached

Needed == InFeatures /\ FEnd > computed[current]
ToEncode == Needed /\ F.item \notin plan /\ F.item \notin InCache
Splits == config.whole /\ computed[current] < F.start /\ ChunkEnd < FEnd

NextFeature == feat' = feat + 1 /\ UNCHANGED pc
StopAt(n) == numNew' = n /\ pc' = "align" /\ UNCHANGED feat

FeaturesOver ==
  /\ pc = "features" /\ ~Reached
  /\ StopAt(numNew)
  /\ UNCHANGED <<config, reqVars, cacheVars, queueVars, turn, current, plan, encLeft,
                 embeds, stepVars>>

\* In the decoder's KV cache already, or planned for an earlier feature.
PassFeature ==
  /\ InFeatures /\ (FEnd <= computed[current] \/ F.item \in plan)
  /\ NextFeature
  /\ UNCHANGED <<config, reqVars, cacheVars, queueVars, turn, current, numNew, plan,
                 encLeft, embeds, stepVars>>

EncoderCacheHit ==
  /\ Needed /\ F.item \notin plan /\ F.item \in InCache
  /\ Acquire(F.item, current)
  /\ NextFeature
  /\ UNCHANGED <<config, reqVars, encoded, takenBack, queueVars, turn, current, numNew,
                 plan, encLeft, embeds, stepVars>>

RollBack ==
  /\ ToEncode /\ Splits
  /\ StopAt(Most(0, F.start - (computed[current] + Shift)))
  /\ UNCHANGED <<config, reqVars, cacheVars, queueVars, turn, current, plan, encLeft,
                 embeds, stepVars>>

\* (Mutant.)  All tokens when the item has begun.
StopBeforeIfAhead ==
  IF computed[current] + Shift < F.start THEN F.start - (computed[current] + Shift)
  ELSE numNew

\* Tokens up to the item that cannot be encoded in this step.
StopBefore ==
  IF computed[current] + Shift < F.start THEN F.start - (computed[current] + Shift) ELSE 0

NoEncoderRoom ==
  /\ ToEncode /\ ~Splits /\ ~CanAllocate(F.item)
  /\ StopAt(StopBefore)
  /\ UNCHANGED <<config, reqVars, cacheVars, queueVars, turn, current, plan, encLeft,
                 embeds, stepVars>>

\* Only the EAGLE shift reaches the item: no embedding of it is in the chunk.
NoEmbedsInChunk ==
  Least(Size[F.item], ChunkEnd - F.start) <= Most(0, computed[current] - F.start)

PassUnreached ==
  /\ ToEncode /\ ~Splits /\ CanAllocate(F.item) /\ NoEmbedsInChunk
  /\ Evict(F.item)
  /\ NextFeature
  /\ UNCHANGED <<config, reqVars, refs, queueVars, turn, current, numNew, plan, encLeft,
                 embeds, stepVars>>

PlanInput ==
  /\ ToEncode /\ ~Splits /\ CanAllocate(F.item) /\ ~NoEmbedsInChunk
  /\ Evict(F.item)
  /\ plan' = plan \cup {F.item}
  /\ embeds' = embeds + Size[F.item]
  /\ encLeft' = IF F.item \in RemoteItems THEN encLeft ELSE encLeft - Size[F.item]
  /\ NextFeature
  /\ UNCHANGED <<config, reqVars, refs, queueVars, turn, current, numNew, stepVars>>

\* _mamba_block_aligned_split
InPrefill(r) == computed[r] < Most(PromptLen[r], tokens[r] - 1)
LastCachePosition(r) ==
  LET full == tokens[r] - (tokens[r] % BlockSize)
  IN  IF config.eagle THEN Most(full - BlockSize, 0) ELSE full
\* (Mutant.)
AlignedAtLastOnly(r, n) ==
  LET last == LastCachePosition(r)
  IN  IF config.mamba /\ InPrefill(r) /\ computed[r] < last /\ computed[r] + n > last
      THEN last - computed[r] ELSE n
Aligned(r, n) ==
  LET last == LastCachePosition(r)
      after == computed[r] + n
  IN  IF ~config.mamba \/ ~InPrefill(r) THEN n
      ELSE IF after < last THEN n - (n % BlockSize)
      ELSE IF computed[r] < last THEN last - computed[r] ELSE n

\* What of the n tokens is draft.
DraftsIn(r, n) == Least(drafts[r], Most(0, n + computed[r] - tokens[r]))

ScheduleTurn ==
  \E n \in {Aligned(current, numNew)} :
    /\ pc = "align" /\ n > 0
    /\ sched' = [sched EXCEPT ![current] = n]
    /\ schedDrafts' = [schedDrafts EXCEPT ![current] = DraftsIn(current, n)]
    /\ inputs' = [inputs EXCEPT ![current] = plan]
    /\ drafts' = [drafts EXCEPT ![current] = 0]
    /\ budget' = budget - n
    /\ encBudget' = IF plan \subseteq RemoteItems THEN encBudget ELSE encLeft
    /\ refs' = [i \in Items |-> IF i \in plan THEN refs[i] \cup {current} ELSE refs[i]]
    /\ pc' = "turn" /\ turn' = turn + 1
    /\ encoded' = encoded \cup (plan \cap RemoteItems)
    /\ UNCHANGED <<config, computed, tokens, chunks, finished, freeable, takenBack,
                   queueVars, featVars>>

\* The loop passes over a running request, and ends at one to be readmitted.
PassTurn ==
  /\ pc = "align" /\ Aligned(current, numNew) = 0
  /\ pc' = IF current \in back THEN "end" ELSE "turn"
  /\ turn' = turn + 1
  /\ UNCHANGED <<config, reqVars, cacheVars, queueVars, featVars, stepVars>>

\* allocate_slots finds no blocks for current.
NoBlocks == pc = "align" /\ Aligned(current, numNew) > 0 /\ failuresLeft > 0

Victim ==
  LET running == Sift(order, Requests \ back)
      lowest(r) == \A q \in ToSet(running) : Rank[q] <= Rank[r]
  IN  IF config.priority THEN CHOOSE r \in ToSet(running) : lowest(r) ELSE Last(running)

\* The victim leaves the batch, and the cache keeps as unused the items that were
\* to be encoded for it in this step.  Nobody is readmitted in such a step.
PreemptForBlocks ==
  /\ NoBlocks /\ current \notin back
  /\ failuresLeft' = failuresLeft - 1
  /\ \E v \in {Victim} :
       /\ Release(v, Held(v))
       /\ takenBack' = takenBack \cup (inputs[v] \ RemoteItems)
       /\ order' = Sift(order, Requests \ (back \cup {v})) /\ back' = {}
       /\ computed' = [computed EXCEPT ![v] = 0] /\ drafts' = [drafts EXCEPT ![v] = 0]
       /\ sched' = [sched EXCEPT ![v] = 0] /\ schedDrafts' = [schedDrafts EXCEPT ![v] = 0]
       /\ inputs' = [inputs EXCEPT ![v] = {}]
       /\ budget' = budget + sched[v]
       /\ encBudget' = encBudget + SizeOf(inputs[v] \ RemoteItems)
       /\ pc' = IF v = current THEN "end" ELSE pc
       /\ turn' = IF sched[v] > 0 THEN turn - 1 ELSE turn
  /\ UNCHANGED <<config, tokens, chunks, finished, encoded, featVars>>

\* A readmitted request that gets no blocks stays out, and ends the loop.
StayOut ==
  /\ NoBlocks /\ current \in back
  /\ failuresLeft' = failuresLeft - 1
  /\ Release(current, Held(current))
  /\ pc' = "end"
  /\ UNCHANGED <<config, reqVars, encoded, takenBack, order, back, turn, featVars,
                 stepVars>>

\* _update_after_schedule; the worker then encodes the batch's inputs.
FinishSchedule ==
  /\ (pc = "end" \/ (pc = "turn" /\ (turn > Len(order) \/ budget = 0)))
  /\ pc' = "update" /\ turn' = 1
  /\ computed' = [r \in Requests |-> computed[r] + sched[r]]
  /\ chunks' = {r \in Requests : IF sched[r] > 0 THEN computed[r] + sched[r] < tokens[r]
                                 ELSE r \in chunks}
  /\ encoded' = encoded \cup UNION {inputs[r] : r \in Requests}
  /\ UNCHANGED <<config, tokens, drafts, finished, refs, freeable, takenBack, queueVars,
                 featVars, stepVars>>

-------------------------------------------------------------------------------
(* update_from_output() and update_draft_token_ids() *)

\* (Mutant.)  Nothing is freed before the prompt is through.
DoneAtTheEnd(r, upTo) == IF upTo >= tokens[r] THEN Held(r) ELSE {}

\* Items all of whose tokens are computed: _free_encoder_inputs.
Done(r, upTo) ==
  {Features[r][n].item : n \in {m \in DOMAIN Features[r] :
     /\ r \in refs[Features[r][m].item]
     /\ Features[r][m].start + Size[Features[r][m].item] <= upTo}}

Updated == order[turn]
InUpdate == pc = "update" /\ turn <= Len(order)

\* Not in the batch, or a prefill chunk, which samples nothing.
UpdateWithoutSample ==
  /\ InUpdate /\ (sched[Updated] = 0 \/ Updated \in chunks)
  /\ Release(Updated, IF sched[Updated] = 0 THEN {} ELSE Done(Updated, computed[Updated]))
  /\ turn' = turn + 1
  /\ UNCHANGED <<config, reqVars, encoded, takenBack, queueVars, pc, featVars, stepVars>>

\* (Mutant.)
NoneRejected(r, accepted) == computed[r]

\* num_computed_tokens when the model rejected all but accepted drafts.
AfterRejection(r, accepted) == computed[r] - (schedDrafts[r] - accepted)

\* Tokens kept of those generated: check_stop ends the request at a limit.
Room(r) == Least(PromptLen[r] + MaxOutput[r], MaxModelLen) - tokens[r]

UpdateWithSample ==
  /\ InUpdate /\ sched[Updated] > 0 /\ Updated \notin chunks
  /\ turn' = turn + 1
  /\ \E accepted \in 0..schedDrafts[Updated] :
       LET kept == AfterRejection(Updated, accepted)
           stops == accepted + 1 >= Room(Updated)
       IN  /\ computed' = [computed EXCEPT ![Updated] = kept]
           /\ tokens' = [tokens EXCEPT ![Updated] = @ + Least(accepted + 1, Room(Updated))]
           /\ finished' = IF stops THEN finished \cup {Updated} ELSE finished
           /\ Release(Updated, IF stops THEN Held(Updated) ELSE Done(Updated, kept))
  /\ UNCHANGED <<config, drafts, chunks, encoded, takenBack, queueVars, pc, featVars,
                 stepVars>>

\* The running requests from here on: those readmitted without tokens still wait.
EndUpdate ==
  /\ pc = "update" /\ turn > Len(order)
  /\ pc' = "drafts" /\ turn' = 1
  /\ order' = Sift(order, {r \in Requests \ finished : r \in back => sched[r] > 0})
  /\ back' = {}
  /\ UNCHANGED <<config, reqVars, cacheVars, featVars, stepVars, failuresLeft>>

\* The drafter proposes for every request of the batch; a grammar may reject some.
MayHaveDrafts(r) == sched[r] > 0 /\ r \notin chunks /\ r \notin finished
UpdateDraftTokenIds ==
  /\ pc = "drafts"
  /\ pc' = "idle"
  /\ drafts' \in {d \in [Requests -> 0..MaxDraft] :
                    \A r \in Requests : ~MayHaveDrafts(r) =>
                      d[r] = IF sched[r] > 0 /\ r \notin finished THEN 0 ELSE drafts[r]}
  /\ UNCHANGED <<config, computed, tokens, chunks, finished, cacheVars, queueVars, turn,
                 featVars, stepVars>>

Next ==
  \/ BeginSchedule \/ PlanTurn \/ FeaturesOver \/ PassFeature
  \/ EncoderCacheHit \/ RollBack \/ NoEncoderRoom \/ PassUnreached \/ PlanInput
  \/ ScheduleTurn \/ PassTurn \/ PreemptForBlocks \/ StayOut \/ FinishSchedule
  \/ UpdateWithoutSample \/ UpdateWithSample \/ EndUpdate \/ UpdateDraftTokenIds

Spec == Init /\ [][Next]_vars /\ WF_vars(Next)

-------------------------------------------------------------------------------
(* Properties *)

Batch == {r \in Requests : sched[r] > 0}

\* A batch has the encoder output of every item its tokens overlap, though the
\* cache evicts for one request what another read before, unless a preemption took
\* back the step that was to encode the item.
FeaturesReady ==
  [][pc' = "update" /\ pc # "update" =>
       \A r \in Batch : \A n \in DOMAIN Features[r] :
         LET i == Features[r][n].item IN
         Features[r][n].start < computed'[r] /\ computed[r] < Features[r][n].start + Size[i]
           => r \in refs[i] /\ i \in encoded' \cup takenBack]_vars

\* The encoder cache never holds more than it has room for, whatever plans,
\* cache hits and preemptions came in between.
EncoderCacheFits == SizeOf(InCache) <= config.cache

\* Between steps, the KV of a request counts its tokens without the last one
\* at most, and its drafts extend a request that only lacks that one: rejected
\* tokens and those of a preempted request are forgotten.
ComputedWithinTokens ==
  pc = "idle" => \A r \in Requests \ finished :
    /\ computed[r] < tokens[r]
    /\ drafts[r] > 0 => computed[r] = tokens[r] - 1

\* A Mamba prefill stops at block boundaries up to the last one to cache.
MambaStatesCached ==
  config.mamba /\ pc = "idle" => \A r \in Requests \ finished :
    InPrefill(r) /\ computed[r] < LastCachePosition(r) => computed[r] % BlockSize = 0

\* A request advances by Unit tokens at least, and Touched(r, p) are the items it
\* holds together to get on from p.
Unit == IF config.mamba THEN BlockSize ELSE 1
Touched(r, p) ==
  {Features[r][n].item : n \in {m \in DOMAIN Features[r] :
     /\ Features[r][m].start < p + Unit + Shift
     /\ p < Features[r][m].start + Size[Features[r][m].item]}}
Stops(r) == {p \in 0..PromptLen[r] : p % Unit = 0}
Peak(r) == Max({SizeOf(Touched(r, p)) : p \in Stops(r)})

\* Room to get on from every position, and for every item as a whole if it must not
\* be split.  Requests that hold several items at once may wait for each other, so
\* the cache has room for what all of them hold.
Roomy ==
  /\ Unit <= Stride
  /\ \A r \in Requests : Peak(r) <= Least(EncoderBudget, config.cache)
  /\ \/ \A r \in Requests : \A p \in Stops(r) : Cardinality(Touched(r, p)) <= 1
     \/ FoldSet(LAMBDA r, n : n + Peak(r), 0, Requests) <= config.cache
  /\ config.whole => \A r \in Requests : \A n \in DOMAIN Features[r] :
       Size[Features[r][n].item] + Shift + Unit - 1 <= Stride

\* With that room every request ends: no rollback, alignment, eviction or wait for
\* what another request holds in the encoder cache holds one up for ever.
EveryRequestEnds == Roomy => <>(finished = Requests)
==============================================================================
