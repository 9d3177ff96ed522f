--------------------------- MODULE StepTokens_proofs ---------------------------
(***************************************************************************)
(* Theorems about StepTokens, for any requests, items and their sizes,     *)
(* lengths, budgets, block size, drafts and configurations: the inductive  *)
(* invariant IInv, and what its proof needs of the model's operators.      *)
(***************************************************************************)
EXTENDS StepTokens, Collections_proofs

Planning == pc \in {"turn", "features", "align", "end"}
InTurn == pc \in {"features", "align"}
Unfinished == Requests \ finished

\* The readmitted requests come last, and what has got tokens in this step is
\* behind the turn of the loop, though requests before it may leave the batch.
OrderInv ==
  /\ \A i, j \in DOMAIN order : i < j /\ order[i] \in back => order[j] \in back
  /\ pc \in {"idle", "drafts"} => back = {}
  /\ pc # "update" => ToSet(order) \cap finished = {}
  /\ pc = "update" => \A i \in DOMAIN order : order[i] \in finished => i < turn
  /\ Planning => \A r \in Batch : \E i \in DOMAIN order : i < turn /\ order[i] = r
  /\ pc = "update" => Batch \subseteq ToSet(order)
  /\ pc = "drafts" => Batch \ finished \subseteq ToSet(order)
  /\ InTurn => /\ \E i \in DOMAIN order : i <= turn /\ order[i] = current
               /\ sched[current] = 0
               /\ turn <= Cardinality(Requests)
               /\ current \notin back => Batch \cap back = {}

\* What a request may still get.
LengthInv ==
  /\ \A r \in Requests : PromptLen[r] <= tokens[r]
  /\ \A r \in Unfinished : tokens[r] < Least(PromptLen[r] + MaxOutput[r], MaxModelLen)
  /\ InTurn => /\ numNew <= budget
               /\ computed[current] + numNew <= tokens[current] + drafts[current]
               /\ computed[current] + numNew < MaxModelLen
  /\ Planning => \A r \in Requests : computed[r] + sched[r] <= MaxModelLen
  /\ Planning => budget + Total(sched, Requests) = TokenBudget

\* A request lacks its last token at least; the drafts of one that lacks no more
\* are scheduled with it, and its sample puts it in the same place.
ComputedInv ==
  \A r \in Unfinished :
    /\ pc # "update" \/ r \notin Batch \/ r \in chunks => computed[r] < tokens[r]
    /\ pc # "update" \/ r \notin Batch => (drafts[r] > 0 => computed[r] = tokens[r] - 1)
    /\ r \notin ToSet(order) \/ (r \in back /\ r \notin Batch) => drafts[r] = 0
    /\ Planning \/ pc = "update" => (r \in Batch => drafts[r] = 0)
    /\ Planning => schedDrafts[r] = IF r \in Batch
                                    THEN Most(0, computed[r] + sched[r] - tokens[r]) ELSE 0
    /\ pc = "update" /\ r \in Batch \ chunks =>
         \A i \in DOMAIN order : order[i] = r =>
           computed[r] = IF i < turn THEN tokens[r] - 1 ELSE tokens[r] + schedDrafts[r]
    /\ pc = "drafts" /\ r \in Batch \ chunks => computed[r] = tokens[r] - 1

\* Position p of r is one at which a Mamba prefill may stop.
StopsAtBlock(r, p) ==
  p < Most(PromptLen[r], tokens[r] - 1) /\ p < LastCachePosition(r) => p % BlockSize = 0
MambaInv ==
  config.mamba => \A r \in Unfinished :
    StopsAtBlock(r, IF Planning THEN computed[r] + sched[r] ELSE computed[r])

ItemsOf(r) == {Features[r][n].item : n \in DOMAIN Features[r]}

\* The cached items fit, those planned for the current request beside them, and
\* every input of the batch is held by its request.
CacheInv ==
  /\ IsInjective(freeable)
  /\ \A i \in Items : \A r \in refs[i] : i \in ItemsOf(r)
  /\ SizeOf(InCache) <= config.cache
  /\ Planning => \A r \in Requests :
       /\ inputs[r] \subseteq Held(r)
       /\ r \notin Batch => inputs[r] = {}
  /\ InTurn => /\ plan \cap InCache = {} /\ plan \subseteq ItemsOf(current)
               /\ embeds = SizeOf(plan)
               /\ SizeOf(InCache) + embeds <= config.cache

ToCompute == [r \in Requests |-> SizeOf(inputs[r] \ RemoteItems)]
EncoderBudgetInv ==
  /\ Planning => encBudget + Total(ToCompute, Requests) <= EncoderBudget
  /\ InTurn => encLeft + SizeOf(plan \ RemoteItems) <= encBudget

\* The tokens first..last - 1 of r need its n-th feature.
Needs(r, n, first, last) ==
  Features[r][n].start < last /\ first < Features[r][n].start + Size[Features[r][n].item]

\* Features passed over are planned for or held where the tokens need them.
FeaturesInv ==
  /\ Planning => \A r \in Batch : \A n \in DOMAIN Features[r] :
       Needs(r, n, computed[r], computed[r] + sched[r]) => r \in refs[Features[r][n].item]
  /\ InTurn /\ numNew > 0 => \A n \in DOMAIN Features[current] :
       /\ pc = "features" => n < feat
       /\ Needs(current, n, computed[current], ChunkEnd)
       => Features[current][n].item \in plan \/ current \in refs[Features[current][n].item]
  /\ pc = "features" => numNew > 0 /\ feat > 0
  /\ InCache \subseteq encoded \cup takenBack \cup
                      (IF Planning THEN UNION {inputs[r] : r \in Requests} ELSE {})
  /\ Planning => \A r \in Requests : inputs[r] \cap RemoteItems \subseteq encoded

IInv == /\ TypeOK /\ OrderInv /\ LengthInv /\ ComputedInv /\ MambaInv
        /\ CacheInv /\ EncoderBudgetInv /\ FeaturesInv

-------------------------------------------------------------------------------
(* The operators *)

\* The assumption on the constants, one by one.
LEMMA Constants ==
  /\ IsFiniteSet(Requests) /\ Cardinality(Requests) \in Nat /\ Cardinality(Requests) # 0
  /\ TokenBudget \in Nat \ {0} /\ EncoderBudget \in Nat \ {0} /\ BlockSize \in Nat \ {0}
  /\ MaxModelLen \in Nat /\ MaxDraft \in Nat /\ MaxFailures \in Nat
  /\ \A r \in Requests : /\ PromptLen[r] \in Nat \ {0} /\ MaxOutput[r] \in Nat \ {0}
                         /\ PromptLen[r] < MaxModelLen /\ Rank[r] \in Int
  /\ \A i \in Items : Size[i] \in Nat \ {0}
BY StepTokensAssumption, FS_CardinalityType, FS_EmptySet

\* Sizes of sets of items, which take no room twice in the encoder cache.
LEMMA SizeFacts ==
  /\ \A A \in SUBSET Items : IsFiniteSet(A) /\ SizeOf(A) \in Nat
  /\ \A A, B \in SUBSET Items : A \subseteq B => SizeOf(A) <= SizeOf(B)
  /\ \A A, B \in SUBSET Items : A \cap B = {} => SizeOf(A \cup B) = SizeOf(A) + SizeOf(B)
  /\ \A A \in SUBSET Items : \A i \in Items \ A : SizeOf(A \cup {i}) = SizeOf(A) + Size[i]
  /\ SizeOf({}) = 0
<1>1. IsFiniteSet(Items) /\ \A i \in Items : Size[i] \in Nat
  BY StepTokensAssumption
<1>2. \A A \in SUBSET Items : IsFiniteSet(A)
  BY <1>1, FS_Subset
<1>3. ASSUME NEW A \in SUBSET Items PROVE SizeOf(A) \in Nat
  <2>1. \A i \in A : Size[i] \in Nat
    BY <1>1
  <2> QED BY <2>1, <1>2, TotalNat DEF SizeOf
<1>4. ASSUME NEW A \in SUBSET Items, NEW B \in SUBSET Items, A \subseteq B
      PROVE  SizeOf(A) <= SizeOf(B)
  <2>1. \A i \in B : Size[i] \in Nat
    BY <1>1
  <2> QED BY <2>1, <1>2, <1>4, TotalSubset DEF SizeOf
<1>5. ASSUME NEW A \in SUBSET Items, NEW B \in SUBSET Items, A \cap B = {}
      PROVE  SizeOf(A \cup B) = SizeOf(A) + SizeOf(B)
  <2>1. \A i \in A \cup B : Size[i] \in Int
    BY <1>1
  <2> QED BY <2>1, <1>2, <1>5, TotalUnion DEF SizeOf
<1>6. ASSUME NEW A \in SUBSET Items, NEW i \in Items \ A
      PROVE  SizeOf(A \cup {i}) = SizeOf(A) + Size[i]
  <2>1. IsFiniteSet(A \cup {i}) /\ \A j \in A \cup {i} : Size[j] \in Int
    BY <1>1, <1>2
  <2>2. SizeOf(A \cup {i}) = SizeOf((A \cup {i}) \ {i}) + Size[i]
    BY <2>1, TotalRemove DEF SizeOf
  <2>3. (A \cup {i}) \ {i} = A
    OBVIOUS
  <2> QED BY <2>2, <2>3
<1>7. SizeOf({}) = 0
  BY TotalEmpty DEF SizeOf
<1> QED BY <1>2, <1>3, <1>4, <1>5, <1>6, <1>7

\* The places of a sequence and its members.
LEMMA SetOfSequence ==
  ASSUME NEW X, NEW s \in Seq(X)
  PROVE  /\ DOMAIN s = 1..Len(s) /\ Len(s) \in Nat
         /\ ToSet(s) = {s[i] : i \in 1..Len(s)} /\ ToSet(s) \subseteq X
BY ElementOfSeq DEF ToSet

\* What Sift leaves, in the operators of the model.
LEMMA SiftSet ==
  ASSUME NEW X, NEW s \in Seq(X), NEW S
  PROVE  /\ Sift(s, S) \in Seq(X)
         /\ ToSet(Sift(s, S)) = ToSet(s) \cap S
         /\ IsInjective(s) => IsInjective(Sift(s, S))
<1> DEFINE t == Sift(s, S)
<1>1. /\ t \in Seq(X)
      /\ {t[k] : k \in 1..Len(t)} = {s[i] : i \in 1..Len(s)} \cap S
      /\ (\A i, j \in 1..Len(s) : s[i] = s[j] => i = j) =>
           \A j, k \in 1..Len(t) : t[j] = t[k] => j = k
  BY SiftMembers
<1> HIDE DEF t
<1>2. DOMAIN s = 1..Len(s) /\ DOMAIN t = 1..Len(t)
  BY <1>1
<1>3. ToSet(t) = ToSet(s) \cap S
  BY <1>1, <1>2 DEF ToSet
<1>4. IsInjective(s) => IsInjective(t)
  BY <1>1, <1>2 DEF IsInjective
<1> QED BY <1>1, <1>3, <1>4 DEF t

\* A queue of requests is no longer than there are requests.
LEMMA InjectiveLength ==
  ASSUME NEW s \in Seq(Requests), IsInjective(s)
  PROVE  Len(s) <= Cardinality(Requests)
<1>1. Len(s) \in Nat /\ s \in [1..Len(s) -> Requests]
  OBVIOUS
<1>2. s \in Injection(1..Len(s), Requests)
  BY <1>1 DEF Injection, IsInjective
<1>3. Cardinality(1..Len(s)) <= Cardinality(Requests)
  BY <1>2, Constants, FS_Injection
<1>4. Cardinality(1..Len(s)) = Len(s)
  BY <1>1, FS_Interval
<1> QED BY <1>3, <1>4

\* What types say of the numbers and of the queue.
LEMMA Numbers ==
  ASSUME TypeOK
  PROVE  /\ \A r \in Requests :
              /\ computed[r] \in Nat /\ computed[r] <= MaxModelLen
              /\ tokens[r] \in Nat /\ tokens[r] >= 1 /\ tokens[r] <= MaxModelLen
              /\ drafts[r] \in Nat /\ drafts[r] <= MaxDraft
              /\ schedDrafts[r] \in Nat /\ schedDrafts[r] <= MaxDraft
              /\ sched[r] \in Nat /\ sched[r] <= TokenBudget
              /\ (r \in Batch <=> sched[r] > 0)
              /\ inputs[r] \subseteq Items
         /\ numNew \in Nat /\ numNew <= TokenBudget
         /\ budget \in Nat /\ budget <= TokenBudget
         /\ encBudget \in Nat /\ encBudget <= EncoderBudget
         /\ encLeft \in Nat /\ encLeft <= EncoderBudget
         /\ turn \in Nat /\ turn >= 1 /\ turn <= Cardinality(Requests) + 1
         /\ order \in Seq(Requests) /\ IsInjective(order) /\ Len(order) \in Nat
         /\ DOMAIN order = 1..Len(order) /\ ToSet(order) \subseteq Requests
         /\ \A i \in 1..Len(order) : order[i] \in Requests /\ order[i] \in ToSet(order)
         /\ Len(order) <= Cardinality(Requests) /\ back \subseteq ToSet(order)
         /\ current \in Requests /\ plan \subseteq Items /\ feat \in Nat
<1>1. \A r \in Requests :
        /\ computed[r] \in 0..MaxModelLen /\ tokens[r] \in 1..MaxModelLen
        /\ drafts[r] \in 0..MaxDraft /\ schedDrafts[r] \in 0..MaxDraft
        /\ sched[r] \in 0..TokenBudget /\ inputs[r] \subseteq Items
  BY DEF TypeOK
<1>2. /\ numNew \in 0..TokenBudget /\ budget \in 0..TokenBudget
      /\ encBudget \in 0..EncoderBudget /\ encLeft \in 0..EncoderBudget
      /\ turn \in 1..Cardinality(Requests) + 1
      /\ order \in Seq(Requests) /\ IsInjective(order) /\ back \subseteq ToSet(order)
      /\ current \in Requests /\ plan \subseteq Items /\ feat \in Nat
  BY DEF TypeOK
<1>3. /\ Len(order) \in Nat /\ DOMAIN order = 1..Len(order) /\ ToSet(order) \subseteq Requests
      /\ Len(order) <= Cardinality(Requests)
  BY <1>2, SetOfSequence, InjectiveLength
<1>4. \A i \in 1..Len(order) : order[i] \in ToSet(order)
  BY <1>3, Zenon DEF ToSet
<1>5. /\ MaxModelLen \in Nat /\ MaxDraft \in Nat /\ TokenBudget \in Nat /\ EncoderBudget \in Nat
      /\ Cardinality(Requests) \in Nat
  BY Constants
<1>6. \A r \in Requests : r \in Batch <=> sched[r] > 0
  BY DEF Batch
<1>7. \A r \in Requests :
              /\ computed[r] \in Nat /\ computed[r] <= MaxModelLen
              /\ tokens[r] \in Nat /\ tokens[r] >= 1 /\ tokens[r] <= MaxModelLen
              /\ drafts[r] \in Nat /\ drafts[r] <= MaxDraft
              /\ schedDrafts[r] \in Nat /\ schedDrafts[r] <= MaxDraft
              /\ sched[r] \in Nat /\ sched[r] <= TokenBudget
  BY <1>1, <1>5
<1>8. /\ turn \in Nat /\ turn >= 1 /\ turn <= Cardinality(Requests) + 1
      /\ numNew \in Nat /\ numNew <= TokenBudget
      /\ budget \in Nat /\ budget <= TokenBudget
      /\ encBudget \in Nat /\ encBudget <= EncoderBudget
      /\ encLeft \in Nat /\ encLeft <= EncoderBudget
  BY <1>2, <1>5
<1> QED BY <1>1, <1>2, <1>3, <1>4, <1>6, <1>7, <1>8

\* A queue put behind another that shares no member with it.
LEMMA ConcatInjective ==
  ASSUME NEW X, NEW s \in Seq(X), NEW t \in Seq(X), IsInjective(s), IsInjective(t),
         ToSet(s) \cap ToSet(t) = {}
  PROVE  /\ s \o t \in Seq(X) /\ IsInjective(s \o t)
         /\ ToSet(s \o t) = ToSet(s) \cup ToSet(t)
         /\ Len(s \o t) = Len(s) + Len(t)
         /\ \A i \in 1..Len(s) : (s \o t)[i] = s[i]
         /\ \A i \in Len(s) + 1..Len(s) + Len(t) : (s \o t)[i] = t[i - Len(s)]
<1> DEFINE u == s \o t
<1>1. Len(s) \in Nat /\ Len(t) \in Nat /\ DOMAIN s = 1..Len(s) /\ DOMAIN t = 1..Len(t)
  OBVIOUS
<1>2. u \in Seq(X) /\ Len(u) = Len(s) + Len(t)
  OBVIOUS
<1>3. /\ \A i \in 1..Len(s) : u[i] = s[i]
      /\ \A i \in Len(s) + 1..Len(s) + Len(t) : u[i] = t[i - Len(s)]
  <2>1. \A i \in 1..Len(s) + Len(t) : u[i] = IF i <= Len(s) THEN s[i] ELSE t[i - Len(s)]
    OBVIOUS
  <2> HIDE DEF u
  <2> QED BY <2>1, <1>1
<1>4. DOMAIN u = 1..Len(u)
  BY <1>2
<1> HIDE DEF u
<1>5. \A i \in 1..Len(u) : i \in 1..Len(s) \/
        (i \in Len(s) + 1..Len(s) + Len(t) /\ i - Len(s) \in 1..Len(t))
  BY <1>1, <1>2
<1>6. ToSet(u) = ToSet(s) \cup ToSet(t)
  <2>1. \A i \in 1..Len(s) : i \in 1..Len(u) /\ u[i] = s[i]
    BY <1>1, <1>2, <1>3
  <2>2. \A j \in 1..Len(t) : j + Len(s) \in 1..Len(u) /\ u[j + Len(s)] = t[j]
    <3> SUFFICES ASSUME NEW j \in 1..Len(t)
                 PROVE  j + Len(s) \in 1..Len(u) /\ u[j + Len(s)] = t[j]
      OBVIOUS
    <3>1. j + Len(s) \in Len(s) + 1..Len(s) + Len(t) /\ (j + Len(s)) - Len(s) = j
      BY <1>1
    <3>2. u[j + Len(s)] = t[(j + Len(s)) - Len(s)]
      BY <1>3, <3>1
    <3> QED BY <3>1, <3>2, <1>1, <1>2
  <2>3. \A i \in 1..Len(u) : u[i] \in ToSet(s) \cup ToSet(t)
    BY <1>1, <1>3, <1>5 DEF ToSet
  <2>4. \A x \in ToSet(s) : x \in ToSet(u)
    BY <2>1, <1>1, <1>4, Zenon DEF ToSet
  <2>5. \A x \in ToSet(t) : x \in ToSet(u)
    <3> SUFFICES ASSUME NEW j \in 1..Len(t) PROVE t[j] \in ToSet(u)
      BY <1>1 DEF ToSet
    <3> QED BY <2>2, <1>4, Zenon DEF ToSet
  <2>6. \A x \in ToSet(u) : x \in ToSet(s) \cup ToSet(t)
    BY <2>3, <1>4 DEF ToSet
  <2> QED BY <2>4, <2>5, <2>6
<1>7. IsInjective(u)
  <2> SUFFICES ASSUME NEW i \in 1..Len(u), NEW j \in 1..Len(u), u[i] = u[j]
               PROVE  i = j
    BY <1>4 DEF IsInjective
  <2>1. \A k \in 1..Len(s) : s[k] \in ToSet(s)
    BY <1>1 DEF ToSet
  <2>2. \A k \in 1..Len(t) : t[k] \in ToSet(t)
    BY <1>1 DEF ToSet
  <2>3. CASE i \in 1..Len(s) /\ j \in 1..Len(s)
    BY <2>3, <1>1, <1>3 DEF IsInjective
  <2>4. CASE i \notin 1..Len(s) /\ j \notin 1..Len(s)
    <3>1. u[i] = t[i - Len(s)] /\ u[j] = t[j - Len(s)]
          /\ i - Len(s) \in 1..Len(t) /\ j - Len(s) \in 1..Len(t)
      BY <2>4, <1>3, <1>5
    <3>2. i - Len(s) = j - Len(s)
      BY <3>1, <1>1 DEF IsInjective
    <3> QED BY <3>2, <1>1
  <2>5. CASE i \in 1..Len(s) /\ j \notin 1..Len(s)
    BY <2>1, <2>2, <2>5, <1>3, <1>5
  <2>6. CASE i \notin 1..Len(s) /\ j \in 1..Len(s)
    BY <2>1, <2>2, <2>6, <1>3, <1>5
  <2> QED BY <2>3, <2>4, <2>5, <2>6
<1> QED BY <1>2, <1>3, <1>6, <1>7 DEF u

-------------------------------------------------------------------------------
(* The encoder cache *)

\* The two parts of the encoder cache: used items and freeable ones.
LEMMA CacheSets ==
  ASSUME TypeOK
  PROVE  /\ Used \subseteq Items /\ ToSet(freeable) \subseteq Items /\ InCache \subseteq Items
         /\ Used \cap ToSet(freeable) = {}
         /\ freeable \in Seq(Items) /\ Len(freeable) \in Nat
         /\ \A r \in Requests : Held(r) \subseteq Items /\ Held(r) \subseteq Used
BY SetOfSequence DEF TypeOK, Used, InCache, Held

\* can_allocate leaves cached items that fit beside the new one and the plan.
LEMMA EvictionFits ==
  ASSUME TypeOK, IsInjective(freeable), NEW i \in Items, CanAllocate(i),
         config.cache \in Nat
  PROVE  LET after == AfterEviction(i) IN
         /\ after \in Seq(Items) /\ IsInjective(after)
         /\ ToSet(after) \subseteq ToSet(freeable)
         /\ SizeOf(Used \cup ToSet(after)) + embeds + Size[i] <= config.cache
<1> DEFINE L == Len(freeable)
           prefix(n) == SubSeq(freeable, 1, n)
           suffix(n) == SubSeq(freeable, n + 1, L)
           fits == {n \in 0..L : Size[i] + embeds <= config.cache - SizeOf(InCache)
                                                     + SizeOf(ToSet(prefix(n)))}
           n == Min(fits)
<1>1. /\ freeable \in Seq(Items) /\ L \in Nat /\ Used \subseteq Items
      /\ ToSet(freeable) \subseteq Items /\ Used \cap ToSet(freeable) = {}
      /\ InCache = Used \cup ToSet(freeable) /\ InCache \subseteq Items
  BY CacheSets DEF InCache
<1>2. SizeOf(Used) \in Nat /\ SizeOf(ToSet(freeable)) \in Nat /\ SizeOf(InCache) \in Nat
      /\ SizeOf(InCache) = SizeOf(Used) + SizeOf(ToSet(freeable))
  BY <1>1, SizeFacts
<1>3. Size[i] \in Nat /\ embeds \in Nat
  BY Constants DEF TypeOK
<1>4. ASSUME NEW m \in 0..L
      PROVE  /\ prefix(m) \in Seq(Items) /\ suffix(m) \in Seq(Items)
             /\ Len(prefix(m)) = m /\ Len(suffix(m)) = L - m
             /\ \A j \in 1..m : prefix(m)[j] = freeable[j]
             /\ \A j \in 1..L - m : suffix(m)[j] = freeable[m + j]
  <2>1. \A j \in 1..L : freeable[j] \in Items
    BY <1>1, ElementOfSeq
  <2>2. /\ prefix(m) \in Seq(Items)
        /\ Len(prefix(m)) = IF 1 <= m THEN m - 1 + 1 ELSE 0
        /\ \A j \in 1..(m - 1 + 1) : prefix(m)[j] = freeable[1 + j - 1]
    <3>1. \A j \in 1..m : freeable[j] \in Items
      BY <2>1
    <3>2. m \in Int /\ 1 \in Int
      OBVIOUS
    <3> QED BY <3>1, <3>2, <1>1, SubSeqProperties
  <2>3. /\ suffix(m) \in Seq(Items)
        /\ Len(suffix(m)) = IF m + 1 <= L THEN L - (m + 1) + 1 ELSE 0
        /\ \A j \in 1..(L - (m + 1) + 1) : suffix(m)[j] = freeable[(m + 1) + j - 1]
    <3>1. \A j \in m + 1..L : freeable[j] \in Items
      BY <2>1
    <3>2. m + 1 \in Int /\ L \in Int
      BY <1>1
    <3> QED BY <3>1, <3>2, <1>1, SubSeqProperties
  <2> HIDE DEF prefix, suffix
  <2>4. \A j \in 1..L - m : j \in 1..(L - (m + 1) + 1) /\ (m + 1) + j - 1 = m + j
    BY <1>1
  <2>5. \A j \in 1..m : j \in 1..(m - 1 + 1) /\ 1 + j - 1 = j
    BY <1>1
  <2> QED BY <2>2, <2>3, <2>4, <2>5, <1>1
<1>5. prefix(L) = freeable
  <2>1. L \in 0..L
    BY <1>1
  <2>2. /\ prefix(L) \in Seq(Items) /\ Len(prefix(L)) = L
        /\ \A j \in 1..L : prefix(L)[j] = freeable[j]
    BY <1>4, <2>1
  <2> HIDE DEF prefix
  <2> QED BY <1>1, <2>2, SeqEqual
<1>6. L \in fits
  <2>1. L \in 0..L
    BY <1>1
  <2>2. Size[i] + embeds <= config.cache - SizeOf(Used)
    BY DEF CanAllocate
  <2>3. Size[i] + embeds <= config.cache - SizeOf(InCache) + SizeOf(ToSet(prefix(L)))
    <3>1. SizeOf(ToSet(prefix(L))) = SizeOf(ToSet(freeable))
      BY <1>5
    <3> HIDE DEF prefix
    <3> QED BY <2>2, <3>1, <1>2, <1>3
  <2> QED BY <2>1, <2>3
<1>7. n \in fits
  <2>1. fits \subseteq Nat
    OBVIOUS
  <2> HIDE DEF fits
  <2>2. \E m \in fits : \A k \in fits : m <= k
    BY <2>1, <1>6, LeastNumber
  <2> QED BY <2>2 DEF Min
<1>8. AfterEviction(i) = suffix(n)
  BY DEF AfterEviction
<1>9. n \in 0..L /\ Size[i] + embeds <= config.cache - SizeOf(InCache) + SizeOf(ToSet(prefix(n)))
  BY <1>7
<1> HIDE DEF n, fits
<1> DEFINE p == prefix(n)
           s == suffix(n)
<1>10. /\ p \in Seq(Items) /\ s \in Seq(Items) /\ Len(p) = n /\ Len(s) = L - n
       /\ \A j \in 1..n : p[j] = freeable[j]
       /\ \A j \in 1..L - n : s[j] = freeable[n + j]
  BY <1>4, <1>9
<1> HIDE DEF p, s
<1>11. /\ DOMAIN p = 1..n /\ DOMAIN s = 1..L - n /\ DOMAIN freeable = 1..L
       /\ \A j \in 1..n : j \in 1..L
       /\ \A j \in 1..L - n : n + j \in 1..L /\ n + j \notin 1..n
       /\ \A j \in 1..L : j \in 1..n \/ (j - n \in 1..L - n /\ n + (j - n) = j)
  BY <1>1, <1>9, <1>10
<1>12. /\ ToSet(p) \cup ToSet(s) = ToSet(freeable)
       /\ ToSet(p) \cap ToSet(s) = {}
       /\ IsInjective(s)
  <2>1. \A x \in ToSet(p) : \E j \in 1..n : x = freeable[j]
    BY <1>10, <1>11 DEF ToSet
  <2>2. \A x \in ToSet(s) : \E j \in 1..L : j \notin 1..n /\ x = freeable[j]
    <3> SUFFICES ASSUME NEW k \in 1..L - n
                 PROVE  \E j \in 1..L : j \notin 1..n /\ s[k] = freeable[j]
      BY <1>11 DEF ToSet
    <3> QED BY <1>10, <1>11
  <2>3. \A x \in ToSet(freeable) : x \in ToSet(p) \cup ToSet(s)
    <3> SUFFICES ASSUME NEW j \in 1..L PROVE freeable[j] \in ToSet(p) \cup ToSet(s)
      BY <1>11 DEF ToSet
    <3>1. CASE j \in 1..n
      BY <3>1, <1>10, <1>11 DEF ToSet
    <3>2. CASE j \notin 1..n
      <4>1. j - n \in 1..L - n /\ s[j - n] = freeable[j]
        BY <3>2, <1>10, <1>11
      <4> QED BY <4>1, <1>11, Zenon DEF ToSet
    <3> QED BY <3>1, <3>2
  <2>4. \A j \in 1..L : freeable[j] \in ToSet(freeable)
    BY <1>11 DEF ToSet
  <2>5. \A j, k \in 1..L : freeable[j] = freeable[k] => j = k
    BY <1>11 DEF IsInjective
  <2>6. ToSet(p) \subseteq ToSet(freeable) /\ ToSet(s) \subseteq ToSet(freeable)
    BY <2>1, <2>2, <2>4, <1>11
  <2>7. ToSet(p) \cap ToSet(s) = {}
    BY <2>1, <2>2, <2>5, <1>11
  <2>8. IsInjective(s)
    <3> SUFFICES ASSUME NEW j \in 1..L - n, NEW k \in 1..L - n, s[j] = s[k]
                 PROVE  j = k
      BY <1>11 DEF IsInjective
    <3>1. n + j = n + k
      BY <1>10, <1>11, <2>5
    <3> QED BY <3>1, <1>9
  <2> QED BY <2>3, <2>6, <2>7, <2>8
<1>13. SizeOf(Used \cup ToSet(s)) + embeds + Size[i] <= config.cache
  <2>1. ToSet(p) \subseteq Items /\ ToSet(s) \subseteq Items
    BY <1>1, <1>12
  <2>2. /\ SizeOf(ToSet(freeable)) = SizeOf(ToSet(p)) + SizeOf(ToSet(s))
        /\ SizeOf(ToSet(p)) \in Nat /\ SizeOf(ToSet(s)) \in Nat
    BY <2>1, <1>12, SizeFacts
  <2>3. SizeOf(Used \cup ToSet(s)) = SizeOf(Used) + SizeOf(ToSet(s))
    <3>1. Used \cap ToSet(s) = {}
      BY <1>1, <1>12
    <3> QED BY <2>1, <3>1, <1>1, SizeFacts
  <2>4. Size[i] + embeds <= config.cache - SizeOf(InCache) + SizeOf(ToSet(p))
    BY <1>9 DEF p
  <2> QED BY <2>2, <2>3, <2>4, <1>2, <1>3
<1> QED BY <1>8, <1>10, <1>12, <1>13 DEF s

\* The features of a request, in the order of their places.
LEMMA FeatureTypes ==
  ASSUME TypeOK, NEW r \in Requests
  PROVE  /\ Features[r] \in Seq([start : Nat, item : Items]) /\ Len(Features[r]) \in Nat
         /\ DOMAIN Features[r] = 1..Len(Features[r])
         /\ \A n \in 1..Len(Features[r]) :
              Features[r][n].item \in Items /\ Features[r][n].start \in Nat
         /\ \A m, n \in 1..Len(Features[r]) :
              m < n => Features[r][m].start <= Features[r][n].start
         /\ config.cache \in Nat /\ config.threshold \in Nat
         /\ config.eagle \in BOOLEAN /\ config.mamba \in BOOLEAN /\ config.priority \in BOOLEAN
<1>1. config \in Configs
  BY DEF TypeOK
<1>2. /\ Features[r] \in Seq([start : Nat, item : Items])
      /\ \A m, n \in DOMAIN Features[r] :
           m < n => Features[r][m].start <= Features[r][n].start
  BY <1>1, StepTokensAssumption DEF Features
<1>3. /\ config.cache \in Nat /\ config.threshold \in Nat
      /\ config.eagle \in BOOLEAN /\ config.mamba \in BOOLEAN /\ config.priority \in BOOLEAN
  BY <1>1, StepTokensAssumption
<1> DEFINE f == Features[r]
<1> HIDE DEF f
<1>4. f \in Seq([start : Nat, item : Items]) => Len(f) \in Nat /\ DOMAIN f = 1..Len(f)
        /\ \A n \in 1..Len(f) : f[n] \in [start : Nat, item : Items]
  <2> DEFINE X == [start : Nat, item : Items]
  <2> HIDE DEF X
  <2>1. f \in Seq(X) => Len(f) \in Nat /\ DOMAIN f = 1..Len(f)
          /\ \A n \in 1..Len(f) : f[n] \in X
    BY ElementOfSeq
  <2> QED BY <2>1 DEF X
<1>5. \A x \in [start : Nat, item : Items] : x.item \in Items /\ x.start \in Nat
  OBVIOUS
<1> QED BY <1>2, <1>3, <1>4, <1>5 DEF f

\* free_encoder_input: what nobody uses any more can be evicted, and stays cached
\* until it is.
LEMMA ReleaseFacts ==
  ASSUME TypeOK, IsInjective(freeable), NEW r \in Requests, NEW items,
         items \subseteq Held(r), items \subseteq ItemsOf(r), Release(r, items)
  PROVE  /\ refs' \in [Items -> SUBSET Requests]
         /\ \A i \in Items : refs'[i] = IF i \in items THEN refs[i] \ {r} ELSE refs[i]
         /\ freeable' \in Seq(Items) /\ IsInjective(freeable')
         /\ \A i \in ToSet(freeable') : refs'[i] = {}
         /\ ToSet(freeable) \subseteq ToSet(freeable')
         /\ InCache' = InCache
<1> DEFINE f == Features[r]
           L == Len(Features[r])
           inOrder == [n \in DOMAIN Features[r] |-> Features[r][n].item]
           loose == {i \in items : refs[i] = {r}}
           first(n) == \A m \in 1..n - 1 : inOrder[m] # inOrder[n]
           S == {n \in DOMAIN inOrder : inOrder[n] \in loose /\ first(n)}
           idx == [n \in DOMAIN inOrder |-> n]
           last == Sift(idx, S)
           g == [n \in DOMAIN last |-> inOrder[last[n]]]
<1>1. /\ refs' = [i \in Items |-> IF i \in items THEN refs[i] \ {r} ELSE refs[i]]
      /\ freeable' = freeable \o g
  BY DEF Release
<1>2. /\ L \in Nat /\ DOMAIN Features[r] = 1..L
      /\ \A n \in 1..L : Features[r][n].item \in Items
  BY FeatureTypes
<1>3. DOMAIN inOrder = 1..L /\ \A n \in 1..L : inOrder[n] \in Items
  BY <1>2
<1>4. items \subseteq Items /\ loose \subseteq Items /\ refs \in [Items -> SUBSET Requests]
  BY CacheSets DEF TypeOK
<1>5. \A i \in loose : \E n \in 1..L : inOrder[n] = i
  BY <1>2 DEF ItemsOf
<1> HIDE DEF inOrder, loose
<1>6. /\ idx \in Seq(Nat) /\ ToSet(idx) = 1..L /\ IsInjective(idx) /\ S \subseteq 1..L
  <2>1. idx = [n \in 1..L |-> n]
    BY <1>3
  <2>2. idx \in [1..L -> Nat] /\ DOMAIN idx = 1..L /\ \A n \in 1..L : idx[n] = n
    BY <2>1, <1>2
  <2>3. S \subseteq 1..L
    BY <1>3
  <2> HIDE DEF idx, S
  <2> QED BY <2>2, <2>3, <1>2 DEF ToSet, IsInjective
<1> HIDE DEF idx, first
<1>7. last \in Seq(Nat) /\ ToSet(last) = S /\ IsInjective(last)
  <2> HIDE DEF S
  <2>1. ToSet(last) = ToSet(idx) \cap S
    BY <1>6, SiftSet
  <2> QED BY <2>1, <1>6, SiftSet
<1>8. \A n \in S : n \in 1..L /\ inOrder[n] \in loose /\ first(n)
  BY <1>3
<1>9. \A i \in loose : \E n \in S : inOrder[n] = i
  <2> SUFFICES ASSUME NEW i \in loose PROVE \E n \in S : inOrder[n] = i
    OBVIOUS
  <2> DEFINE T == {n \in 1..L : inOrder[n] = i}
  <2>1. T \subseteq Nat /\ T # {}
    BY <1>2, <1>5
  <2>2. PICK n \in T : \A k \in T : n <= k
    <3> HIDE DEF T
    <3> QED BY <2>1, LeastNumber
  <2>3. ASSUME NEW m \in 1..n - 1, inOrder[m] = inOrder[n] PROVE FALSE
    <3>1. m \in T /\ m < n
      BY <2>3, <2>2, <1>2
    <3> QED BY <3>1, <2>2
  <2>4. first(n)
    BY <2>3 DEF first
  <2> QED BY <2>2, <2>4, <1>3
<1> HIDE DEF S, last
<1>10. DOMAIN last = 1..Len(last) /\ Len(last) \in Nat
       /\ \A k \in 1..Len(last) : last[k] \in S
  <2>1. DOMAIN last = 1..Len(last) /\ Len(last) \in Nat
    BY <1>7
  <2> QED BY <2>1, <1>7 DEF ToSet
<1>11. g \in Seq(Items) /\ IsInjective(g) /\ ToSet(g) = loose
  <2>1. g = [k \in 1..Len(last) |-> inOrder[last[k]]]
    BY <1>10
  <2>2. \A k \in 1..Len(last) : g[k] = inOrder[last[k]] /\ g[k] \in loose /\ g[k] \in Items
    BY <2>1, <1>4, <1>8, <1>10
  <2>3. DOMAIN g = 1..Len(last) /\ g \in [1..Len(last) -> Items]
    BY <2>1, <2>2
  <2> HIDE DEF g
  <2>4. g \in Seq(Items)
    BY <2>3, <1>10
  <2>5. IsInjective(g)
    <3> SUFFICES ASSUME NEW j \in 1..Len(last), NEW k \in 1..Len(last), g[j] = g[k]
                 PROVE  j = k
      BY <2>3 DEF IsInjective
    <3>1. inOrder[last[j]] = inOrder[last[k]]
      BY <2>2
    <3>2. /\ last[j] \in 1..L /\ last[k] \in 1..L /\ first(last[j]) /\ first(last[k])
      BY <1>8, <1>10
    <3>3. ~(last[j] < last[k])
      <4>1. last[j] < last[k] => last[j] \in 1..last[k] - 1
        BY <3>2
      <4> QED BY <4>1, <3>1, <3>2 DEF first
    <3>4. ~(last[k] < last[j])
      <4>1. last[k] < last[j] => last[k] \in 1..last[j] - 1
        BY <3>2
      <4> QED BY <4>1, <3>1, <3>2 DEF first
    <3>5. last[j] = last[k]
      BY <3>2, <3>3, <3>4
    <3> QED BY <3>5, <1>7, <1>10 DEF IsInjective
  <2>6. \A i \in loose : i \in ToSet(g)
    <3> SUFFICES ASSUME NEW i \in loose PROVE i \in ToSet(g)
      OBVIOUS
    <3>1. PICK n \in S : inOrder[n] = i
      BY <1>9
    <3>2. PICK k \in 1..Len(last) : last[k] = n
      BY <1>7, <1>10 DEF ToSet
    <3>3. g[k] = i
      BY <3>1, <3>2, <2>2
    <3> QED BY <3>3, <2>3, Zenon DEF ToSet
  <2>7. ToSet(g) \subseteq loose
    BY <2>2, <2>3 DEF ToSet
  <2> QED BY <2>4, <2>5, <2>6, <2>7
<1> HIDE DEF g
<1>12. \A i \in loose : i \in Used /\ i \notin ToSet(freeable) /\ refs[i] = {r} /\ i \in items
  BY <1>4 DEF TypeOK, Used, loose
<1>13. /\ freeable' \in Seq(Items) /\ IsInjective(freeable')
       /\ ToSet(freeable') = ToSet(freeable) \cup loose
  <2>1. freeable \in Seq(Items) /\ ToSet(freeable) \cap ToSet(g) = {}
    BY <1>11, <1>12 DEF TypeOK
  <2> QED BY <1>1, <1>11, <2>1, ConcatInjective
<1>14. \A i \in Items : refs'[i] = IF i \in items THEN refs[i] \ {r} ELSE refs[i]
  BY <1>1
<1>15. refs' \in [Items -> SUBSET Requests]
  BY <1>1, <1>4
<1>16. \A i \in ToSet(freeable') : refs'[i] = {}
  <2>1. \A i \in ToSet(freeable) : i \in Items /\ refs[i] = {}
    BY CacheSets DEF TypeOK
  <2> QED BY <2>1, <1>4, <1>12, <1>13, <1>14
<1>17. InCache' = InCache
  <2>1. \A i \in Items : refs'[i] # {} <=> refs[i] # {} /\ i \notin loose
    <3> SUFFICES ASSUME NEW i \in Items
                 PROVE  refs'[i] # {} <=> refs[i] # {} /\ i \notin loose
      OBVIOUS
    <3>1. CASE i \in items
      BY <3>1, <1>14 DEF loose
    <3>2. CASE i \notin items
      BY <3>2, <1>14 DEF loose
    <3> QED BY <3>1, <3>2
  <2>2. Used' = Used \ loose
    BY <2>1 DEF Used
  <2>3. loose \subseteq Used
    BY <1>12
  <2> QED BY <2>2, <2>3, <1>13 DEF InCache
<1> QED BY <1>13, <1>14, <1>15, <1>16, <1>17

\* can_allocate takes freeable items out of the cache until the new item fits.
LEMMA EvictFacts ==
  ASSUME TypeOK, IsInjective(freeable), NEW i \in Items, CanAllocate(i), Evict(i),
         config.cache \in Nat, refs' = refs
  PROVE  /\ freeable' \in Seq(Items) /\ IsInjective(freeable')
         /\ \A j \in ToSet(freeable') : refs'[j] = {}
         /\ InCache' \subseteq InCache
         /\ SizeOf(InCache') + embeds + Size[i] <= config.cache
         /\ encoded' = encoded \cap InCache' /\ takenBack' = takenBack \cap InCache'
<1> DEFINE after == AfterEviction(i)
<1>1. freeable' = after /\ encoded' = encoded \cap (Used \cup ToSet(after))
      /\ takenBack' = takenBack \cap (Used \cup ToSet(after))
  BY DEF Evict
<1>2. /\ after \in Seq(Items) /\ IsInjective(after) /\ ToSet(after) \subseteq ToSet(freeable)
      /\ SizeOf(Used \cup ToSet(after)) + embeds + Size[i] <= config.cache
  BY EvictionFits
<1> HIDE DEF after
<1>3. InCache' = Used \cup ToSet(after)
  BY <1>1 DEF InCache, Used
<1>4. \A j \in ToSet(freeable') : refs'[j] = {}
  BY <1>1, <1>2 DEF TypeOK
<1> QED BY <1>1, <1>2, <1>3, <1>4 DEF InCache

\* check_and_update_cache, when the item is there.
LEMMA AcquireFacts ==
  ASSUME TypeOK, IsInjective(freeable), NEW i \in InCache, NEW r \in Requests, Acquire(i, r)
  PROVE  /\ refs' \in [Items -> SUBSET Requests]
         /\ \A j \in Items : refs'[j] = IF j = i THEN refs[j] \cup {r} ELSE refs[j]
         /\ freeable' \in Seq(Items) /\ IsInjective(freeable')
         /\ \A j \in ToSet(freeable') : refs'[j] = {}
         /\ InCache' = InCache
<1>1. i \in Items /\ refs \in [Items -> SUBSET Requests] /\ freeable \in Seq(Items)
      /\ ToSet(freeable) \subseteq Items /\ \A j \in ToSet(freeable) : refs[j] = {}
  BY CacheSets DEF TypeOK
<1>2. /\ freeable' \in Seq(Items) /\ IsInjective(freeable')
      /\ ToSet(freeable') = ToSet(freeable) \cap (Items \ {i})
  BY <1>1, SiftSet DEF Acquire
<1>3. /\ refs' \in [Items -> SUBSET Requests]
      /\ \A j \in Items : refs'[j] = IF j = i THEN refs[j] \cup {r} ELSE refs[j]
  BY <1>1 DEF Acquire
<1>4. Used' = Used \cup {i}
  BY <1>1, <1>3 DEF Used
<1>5. InCache' = InCache
  BY <1>1, <1>2, <1>4 DEF InCache
<1>6. \A j \in ToSet(freeable') : refs'[j] = {}
  BY <1>1, <1>2, <1>3
<1> QED BY <1>2, <1>3, <1>5, <1>6

-------------------------------------------------------------------------------
(* The loop over the features of the current request *)

FeatureStep == \/ FeaturesOver \/ PassFeature \/ EncoderCacheHit \/ RollBack
               \/ NoEncoderRoom \/ PassUnreached \/ PlanInput

\* The loop over the features of a request touches nothing but the cache and its locals.
LEMMA FeatureFrame ==
  ASSUME IInv, FeatureStep
  PROVE  /\ pc = "features" /\ pc' \in {"features", "align"}
         /\ UNCHANGED <<config, reqVars, queueVars, turn, current, stepVars>>
         /\ current \in Requests /\ numNew \in Nat /\ computed[current] \in Nat
<1>1. pc = "features" /\ UNCHANGED <<config, reqVars, queueVars, turn, current, stepVars>>
  BY DEF FeatureStep, FeaturesOver, PassFeature, EncoderCacheHit, RollBack, NoEncoderRoom,
         PassUnreached, PlanInput, Needed, ToEncode, InFeatures
<1>2. pc' \in {"features", "align"}
  BY <1>1 DEF FeatureStep, FeaturesOver, PassFeature, EncoderCacheHit, RollBack, NoEncoderRoom,
         PassUnreached, PlanInput, NextFeature, StopAt
<1> QED BY <1>1, <1>2 DEF IInv, TypeOK

\* What the loop does to the number of tokens, the plan and the cache.
LEMMA FeatureCases ==
  ASSUME IInv, FeatureStep
  PROVE  \/ /\ pc' = "align" /\ feat' = feat /\ UNCHANGED <<cacheVars, plan, encLeft, embeds>>
            /\ \/ ~Reached /\ numNew' = numNew
               \/ /\ ToEncode
                  /\ numNew' \in {Most(0, F.start - (computed[current] + Shift)), StopBefore}
         \/ /\ pc' = "features" /\ feat' = feat + 1 /\ numNew' = numNew /\ InFeatures
            /\ \/ /\ FEnd <= computed[current] \/ F.item \in plan
                  /\ UNCHANGED <<cacheVars, plan, encLeft, embeds>>
               \/ /\ F.item \in InCache /\ Acquire(F.item, current)
                  /\ UNCHANGED <<encoded, takenBack, plan, encLeft, embeds>>
               \/ /\ ToEncode /\ CanAllocate(F.item) /\ Evict(F.item) /\ refs' = refs
                  /\ \/ NoEmbedsInChunk /\ UNCHANGED <<plan, encLeft, embeds>>
                     \/ /\ plan' = plan \cup {F.item} /\ embeds' = embeds + Size[F.item]
                        /\ encLeft' = IF F.item \in RemoteItems THEN encLeft
                                      ELSE encLeft - Size[F.item]
<1>1. CASE FeaturesOver
  BY <1>1 DEF FeaturesOver, StopAt, cacheVars
<1>2. CASE PassFeature
  BY <1>2 DEF PassFeature, NextFeature, InFeatures, cacheVars
<1>3. CASE EncoderCacheHit
  BY <1>3 DEF EncoderCacheHit, NextFeature, Needed, InFeatures
<1>4. CASE RollBack
  BY <1>4 DEF RollBack, StopAt, cacheVars
<1>5. CASE NoEncoderRoom
  BY <1>5 DEF NoEncoderRoom, StopAt, cacheVars
<1>6. CASE PassUnreached
  BY <1>6 DEF PassUnreached, NextFeature, ToEncode, Needed, InFeatures
<1>7. CASE PlanInput
  BY <1>7 DEF PlanInput, NextFeature, ToEncode, Needed, InFeatures
<1> QED BY <1>1, <1>2, <1>3, <1>4, <1>5, <1>6, <1>7 DEF FeatureStep

\* The feature the loop is at is one of the request's.
LEMMA CurrentFeature ==
  ASSUME IInv, pc = "features", feat <= Len(Features[current])
  PROVE  /\ current \in Requests /\ feat \in DOMAIN Features[current]
         /\ F.item \in Items /\ F.start \in Nat /\ Size[F.item] \in Nat \ {0}
         /\ F.item \in ItemsOf(current)
<1>1. TypeOK /\ feat > 0 /\ current \in Requests /\ feat \in Nat
  BY DEF IInv, TypeOK, FeaturesInv
<1>2. feat \in 1..Len(Features[current]) /\ DOMAIN Features[current] = 1..Len(Features[current])
      /\ \A n \in 1..Len(Features[current]) :
           Features[current][n].item \in Items /\ Features[current][n].start \in Nat
  BY <1>1, FeatureTypes
<1>3. F.item \in Items /\ F.start \in Nat /\ F.item \in ItemsOf(current)
  BY <1>2 DEF F, ItemsOf
<1> QED BY <1>1, <1>2, <1>3, Constants

\* Stopping at an item takes tokens away, and stops before it.
LEMMA StopsBefore ==
  ASSUME IInv, FeatureStep
  PROVE  /\ numNew' \in Nat /\ numNew' <= numNew /\ computed[current] \in Nat
         /\ numNew \in Nat /\ Shift \in {0, 1}
         /\ pc' = "align" /\ Reached /\ numNew' > 0 => ChunkEnd' <= F.start
<1>1. /\ pc = "features" /\ numNew \in Nat /\ computed[current] \in Nat
      /\ computed' = computed /\ current' = current
  BY FeatureFrame DEF reqVars
<1>2. Shift \in {0, 1}
  BY DEF Shift
<1>3. ASSUME ToEncode, numNew' \in {Most(0, F.start - (computed[current] + Shift)), StopBefore}
      PROVE  /\ numNew' \in Nat /\ numNew' <= numNew
             /\ numNew' > 0 => ChunkEnd' <= F.start
  <2>1. feat <= Len(Features[current]) /\ F.start < ChunkEnd + Shift
    BY <1>3 DEF ToEncode, Needed, InFeatures, Reached
  <2>2. F.start \in Nat
    BY <1>1, <2>1, CurrentFeature
  <2> DEFINE s == F.start
             c == computed[current]
             d == Shift
  <2>3. numNew' \in {Most(0, s - (c + d)), IF c + d < s THEN s - (c + d) ELSE 0}
    BY <1>3 DEF StopBefore
  <2>4. s < c + numNew + d
    BY <2>1 DEF ChunkEnd
  <2>5. ChunkEnd' = c + numNew'
    BY <1>1 DEF ChunkEnd
  <2>6. s \in Nat /\ c \in Nat /\ d \in {0, 1}
    BY <1>1, <1>2, <2>2
  <2> HIDE DEF s, c, d
  <2>7. CASE c + d < s
    <3>1. numNew' = s - (c + d)
      BY <2>3, <2>6, <2>7 DEF Most
    <3> QED BY <3>1, <2>4, <2>5, <2>6, <2>7, <1>1 DEF s
  <2>8. CASE ~(c + d < s)
    <3>1. numNew' = 0
      BY <2>3, <2>6, <2>8 DEF Most
    <3> QED BY <3>1, <1>1
  <2> QED BY <2>7, <2>8
<1>4. CASE pc' = "align" /\ ~Reached
  <2>1. numNew' = numNew
    BY <1>4, FeatureCases DEF ToEncode, Needed, InFeatures
  <2> QED BY <2>1, <1>1, <1>2, <1>4
<1>5. CASE pc' = "align" /\ Reached
  <2>1. ToEncode /\ numNew' \in {Most(0, F.start - (computed[current] + Shift)), StopBefore}
    BY <1>5, FeatureCases
  <2> QED BY <2>1, <1>1, <1>2, <1>3
<1>6. CASE pc' # "align"
  <2>1. numNew' = numNew
    BY <1>6, FeatureCases
  <2> QED BY <2>1, <1>1, <1>2, <1>6
<1> QED BY <1>4, <1>5, <1>6

\* A turn of that loop keeps the encoder cache and the encoder budget in order.
LEMMA FeatureCache ==
  ASSUME IInv, FeatureStep
  PROVE  /\ refs' \in [Items -> SUBSET Requests]
         /\ \A i \in Items : refs[i] \subseteq refs'[i] /\ refs'[i] \subseteq refs[i] \cup {current}
         /\ \A i \in Items : current \in refs'[i] => i \in ItemsOf(current)
         /\ freeable' \in Seq(Items) /\ IsInjective(freeable')
         /\ \A i \in ToSet(freeable') : refs'[i] = {}
         /\ InCache' \subseteq InCache
         /\ encoded' = encoded \cap InCache' /\ takenBack' = takenBack \cap InCache'
         /\ plan' \subseteq Items /\ plan' \subseteq ItemsOf(current) /\ plan \subseteq plan'
         /\ plan' \cap InCache' = {}
         /\ embeds' = SizeOf(plan') /\ SizeOf(InCache') + embeds' <= config.cache
         /\ embeds' \in 0..config.cache
         /\ encLeft' \in 0..EncoderBudget
         /\ encLeft' + SizeOf(plan' \ RemoteItems) <= encBudget
<1>1. /\ TypeOK /\ pc = "features" /\ current \in Requests /\ InTurn
      /\ IsInjective(freeable) /\ config.cache \in Nat
      /\ \A i \in Items : \A r \in refs[i] : i \in ItemsOf(r)
      /\ refs \in [Items -> SUBSET Requests] /\ freeable \in Seq(Items)
      /\ \A i \in ToSet(freeable) : refs[i] = {}
      /\ encoded \cup takenBack \subseteq InCache
      /\ plan \subseteq Items /\ plan \subseteq ItemsOf(current) /\ plan \cap InCache = {}
      /\ embeds = SizeOf(plan) /\ SizeOf(InCache) + embeds <= config.cache
      /\ embeds \in 0..config.cache /\ encLeft \in 0..EncoderBudget
      /\ encLeft + SizeOf(plan \ RemoteItems) <= encBudget
      /\ EncoderBudget \in Nat
  <2>1. TypeOK /\ CacheInv /\ EncoderBudgetInv /\ pc = "features" /\ InTurn
    BY FeatureFrame DEF IInv, InTurn
  <2>2. current \in Requests
    BY <2>1 DEF TypeOK
  <2>3. config.cache \in Nat
    BY <2>1, <2>2, FeatureTypes
  <2> QED BY <2>1, <2>2, <2>3, Constants DEF TypeOK, CacheInv, EncoderBudgetInv
<1>2. CASE UNCHANGED <<cacheVars, plan, encLeft, embeds>>
  <2>1. InCache' = InCache
    BY <1>2 DEF InCache, Used, cacheVars
  <2> QED BY <1>1, <1>2, <2>1 DEF cacheVars
<1>3. CASE /\ InFeatures /\ F.item \in InCache /\ Acquire(F.item, current)
           /\ UNCHANGED <<encoded, takenBack, plan, encLeft, embeds>>
  <2>1. F.item \in ItemsOf(current)
    BY <1>3, CurrentFeature DEF InFeatures, Reached
  <2>2. /\ refs' \in [Items -> SUBSET Requests]
        /\ \A j \in Items : refs'[j] = IF j = F.item THEN refs[j] \cup {current} ELSE refs[j]
        /\ freeable' \in Seq(Items) /\ IsInjective(freeable')
        /\ \A j \in ToSet(freeable') : refs'[j] = {}
        /\ InCache' = InCache
    BY <1>1, <1>3, AcquireFacts
  <2>3. \A i \in Items : current \in refs'[i] => i \in ItemsOf(current)
    BY <2>1, <2>2, <1>1
  <2>4. \A i \in Items : refs[i] \subseteq refs'[i] /\ refs'[i] \subseteq refs[i] \cup {current}
    BY <2>2
  <2> QED BY <2>2, <2>3, <2>4, <1>1, <1>3
<1>4. ASSUME ToEncode, CanAllocate(F.item), Evict(F.item), refs' = refs
      PROVE  /\ freeable' \in Seq(Items) /\ IsInjective(freeable')
             /\ \A i \in ToSet(freeable') : refs'[i] = {}
             /\ InCache' \subseteq InCache /\ InCache' \subseteq Items
             /\ encoded' = encoded \cap InCache' /\ takenBack' = takenBack \cap InCache'
             /\ SizeOf(InCache') + embeds + Size[F.item] <= config.cache
             /\ F.item \in Items /\ Size[F.item] \in Nat \ {0} /\ SizeOf(InCache') \in Nat
             /\ F.item \notin InCache' /\ F.item \notin plan /\ Size[F.item] <= encLeft
             /\ F.item \in ItemsOf(current)
  <2>1. feat <= Len(Features[current]) /\ F.item \notin plan /\ F.item \notin InCache
    BY <1>4 DEF ToEncode, Needed, InFeatures, Reached
  <2>2. F.item \in Items /\ Size[F.item] \in Nat \ {0} /\ F.item \in ItemsOf(current)
    BY <1>1, <2>1, CurrentFeature
  <2>3. /\ freeable' \in Seq(Items) /\ IsInjective(freeable')
        /\ \A j \in ToSet(freeable') : refs'[j] = {}
        /\ InCache' \subseteq InCache
        /\ SizeOf(InCache') + embeds + Size[F.item] <= config.cache
        /\ encoded' = encoded \cap InCache' /\ takenBack' = takenBack \cap InCache'
    BY <1>1, <1>4, <2>2, EvictFacts
  <2>4. InCache' \subseteq Items
    BY <2>3, <1>1, CacheSets
  <2>5. SizeOf(InCache') \in Nat
    <3> DEFINE S == InCache'
    <3>1. S \in SUBSET Items
      BY <2>4
    <3> HIDE DEF S
    <3>2. SizeOf(S) \in Nat
      BY <3>1, SizeFacts
    <3> QED BY <3>2 DEF S, SizeOf
  <2>6. Size[F.item] <= encLeft
    BY <1>4 DEF CanAllocate
  <2> QED BY <2>1, <2>2, <2>3, <2>4, <2>5, <2>6
<1>5. CASE /\ ToEncode /\ CanAllocate(F.item) /\ Evict(F.item) /\ refs' = refs
           /\ UNCHANGED <<plan, encLeft, embeds>>
  <2>1. SizeOf(InCache') + embeds <= config.cache
    <3> DEFINE u == SizeOf(InCache')
               v == Size[F.item]
    <3>1. u \in Nat /\ v \in Nat /\ u + embeds + v <= config.cache
      BY <1>4, <1>5
    <3> HIDE DEF u, v
    <3>2. u + embeds <= config.cache
      BY <3>1, <1>1
    <3> QED BY <3>2 DEF u
  <2> QED BY <2>1, <1>1, <1>4, <1>5
<1>6. CASE /\ ToEncode /\ CanAllocate(F.item) /\ Evict(F.item) /\ refs' = refs
           /\ plan' = plan \cup {F.item} /\ embeds' = embeds + Size[F.item]
           /\ encLeft' = IF F.item \in RemoteItems THEN encLeft ELSE encLeft - Size[F.item]
  <2>f. /\ freeable' \in Seq(Items) /\ IsInjective(freeable')
        /\ \A i \in ToSet(freeable') : refs'[i] = {}
        /\ InCache' \subseteq InCache /\ InCache' \subseteq Items
        /\ encoded' = encoded \cap InCache' /\ takenBack' = takenBack \cap InCache'
        /\ SizeOf(InCache') + embeds + Size[F.item] <= config.cache
        /\ F.item \in Items /\ Size[F.item] \in Nat \ {0} /\ SizeOf(InCache') \in Nat
        /\ F.item \notin InCache' /\ F.item \notin plan /\ Size[F.item] <= encLeft
        /\ F.item \in ItemsOf(current)
    BY <1>4, <1>6
  <2>1. SizeOf(plan') = SizeOf(plan) + Size[F.item]
    BY <2>f, <1>1, <1>6, SizeFacts
  <2>2. plan' \subseteq Items /\ plan' \subseteq ItemsOf(current) /\ plan' \cap InCache' = {}
    BY <2>f, <1>1, <1>6
  <2>3. embeds' = SizeOf(plan') /\ SizeOf(InCache') + embeds' <= config.cache
        /\ embeds' \in 0..config.cache
    <3> DEFINE u == SizeOf(InCache')
               v == Size[F.item]
    <3>1. u \in Nat /\ v \in Nat /\ u + embeds + v <= config.cache /\ embeds' = embeds + v
      BY <2>f, <1>6
    <3> HIDE DEF u, v
    <3>2. u + embeds' <= config.cache /\ embeds' \in 0..config.cache
      BY <3>1, <1>1, SMTT(30)
    <3> QED BY <3>2, <2>1, <1>1, <1>6 DEF u
  <2>4. encLeft' \in 0..EncoderBudget /\ encLeft' + SizeOf(plan' \ RemoteItems) <= encBudget
    <3>1. CASE F.item \in RemoteItems
      <4>1. plan' \ RemoteItems = plan \ RemoteItems
        BY <3>1, <1>6
      <4> QED BY <4>1, <3>1, <1>1, <1>6
    <3>2. CASE F.item \notin RemoteItems
      <4>1. plan' \ RemoteItems = (plan \ RemoteItems) \cup {F.item}
        BY <3>2, <1>6
      <4>2. SizeOf(plan' \ RemoteItems) = SizeOf(plan \ RemoteItems) + Size[F.item]
        <5>1. plan \ RemoteItems \in SUBSET Items /\ F.item \in Items \ (plan \ RemoteItems)
          BY <2>f, <1>1
        <5> HIDE <1>6, <1>4
        <5> QED BY <4>1, <5>1, SizeFacts
      <4> DEFINE u == SizeOf(plan \ RemoteItems)
                 v == Size[F.item]
                 w == SizeOf(plan' \ RemoteItems)
      <4>3. u \in Nat
        BY <1>1, SizeFacts
      <4>4. v \in Nat /\ v <= encLeft /\ encLeft' = encLeft - v /\ encLeft + u <= encBudget
            /\ w = u + v /\ encBudget \in Nat
        <5>1. v \in Nat /\ v <= encLeft
          BY ONLY <2>f
        <5>2. encLeft' = encLeft - v
          BY ONLY <3>2, <1>6
        <5>3. encLeft + u <= encBudget
          BY ONLY <1>1
        <5>4. encBudget \in Nat
          BY <1>1 DEF TypeOK
        <5> QED BY ONLY <5>1, <5>2, <5>3, <5>4, <4>2
      <4> HIDE DEF u, v, w
      <4>5. encLeft' \in 0..EncoderBudget /\ encLeft' + w <= encBudget
        BY <4>3, <4>4, <1>1
      <4> QED BY <4>5 DEF w
    <3> QED BY <3>1, <3>2
  <2> QED BY <2>f, <2>2, <2>3, <2>4, <1>1, <1>6
<1> QED BY <1>2, <1>3, <1>5, <1>6, FeatureCases

\* A feature passed over without a plan has no embedding in the chunk.
LEMMA PassedFeature ==
  ASSUME IInv, FeatureStep, pc' = "features"
  PROVE  Needs(current, feat, computed[current], ChunkEnd) =>
           F.item \in plan' \/ current \in refs'[F.item]
<1>1. pc = "features" /\ InFeatures /\ feat <= Len(Features[current])
  BY FeatureFrame, FeatureCases DEF InFeatures, Reached
<1>2. /\ current \in Requests /\ F.item \in Items /\ F.start \in Nat
      /\ Size[F.item] \in Nat \ {0}
  BY <1>1, CurrentFeature
<1>3. numNew \in Nat /\ numNew > 0 /\ computed[current] \in Nat
  BY <1>1, <1>2 DEF IInv, TypeOK, FeaturesInv
<1> SUFFICES ASSUME Needs(current, feat, computed[current], ChunkEnd)
             PROVE  F.item \in plan' \/ current \in refs'[F.item]
  OBVIOUS
<1> DEFINE s == F.start
           z == Size[F.item]
           c == computed[current]
<1>4. s < c + numNew /\ c < s + z
  BY DEF Needs, ChunkEnd, F
<1>5. ~(FEnd <= computed[current])
  <2>1. FEnd = s + z
    BY DEF FEnd
  <2> HIDE DEF s, z
  <2> QED BY <2>1, <1>2, <1>3, <1>4 DEF s, z
<1>6. ~NoEmbedsInChunk
  <2>1. NoEmbedsInChunk <=> Least(z, (c + numNew) - s) <= Most(0, c - s)
    BY DEF NoEmbedsInChunk, ChunkEnd
  <2> HIDE DEF s, z, c
  <2>2. s \in Nat /\ z \in Nat \ {0} /\ c \in Nat
    BY <1>2, <1>3 DEF s, z, c
  <2>3. Least(z, (c + numNew) - s) > Most(0, c - s)
    BY <2>2, <1>3, <1>4 DEF Least, Most
  <2>4. Least(z, (c + numNew) - s) \in Int /\ Most(0, c - s) \in Int
    BY <2>2, <1>3 DEF Least, Most
  <2> QED BY <2>1, <2>3, <2>4
<1>7. CASE F.item \in plan
  BY <1>7, FeatureCache
<1>8. CASE F.item \in InCache /\ Acquire(F.item, current)
  <2>1. refs' = [refs EXCEPT ![F.item] = @ \cup {current}] /\ refs \in [Items -> SUBSET Requests]
    BY <1>8 DEF Acquire, IInv, TypeOK
  <2> QED BY <2>1, <1>2
<1>9. CASE plan' = plan \cup {F.item}
  BY <1>9
<1> QED BY <1>5, <1>6, <1>7, <1>8, <1>9, FeatureCases

\* A turn of that loop keeps account of the features behind it.
LEMMA FeatureKeepsFeatures ==
  ASSUME IInv, FeatureStep
  PROVE  FeaturesInv'
<1> DEFINE C == Features[current]
           c == computed[current]
<1>1. /\ TypeOK /\ FeaturesInv /\ current \in Requests /\ pc = "features" /\ Planning
      /\ pc' \in {"features", "align"} /\ feat \in Nat /\ numNew > 0 /\ feat > 0
      /\ UNCHANGED <<config, computed, inputs, sched, current>>
      /\ Planning' /\ c \in Nat
  BY FeatureFrame DEF IInv, TypeOK, FeaturesInv, reqVars, stepVars, Planning
<1>2. /\ \A i \in Items : refs[i] \subseteq refs'[i] /\ plan \subseteq plan'
      /\ InCache' \subseteq InCache
      /\ encoded' = encoded \cap InCache' /\ takenBack' = takenBack \cap InCache'
  BY FeatureCache
<1>3. /\ numNew' \in Nat /\ numNew' <= numNew /\ numNew \in Nat
      /\ pc' = "align" /\ Reached /\ numNew' > 0 => ChunkEnd' <= F.start
      /\ ChunkEnd' = c + numNew' /\ ChunkEnd = c + numNew /\ Shift \in {0, 1}
  BY StopsBefore, <1>1 DEF ChunkEnd
<1>4. /\ DOMAIN C = 1..Len(C) /\ Len(C) \in Nat
      /\ \A n \in DOMAIN C : C[n].item \in Items /\ C[n].start \in Nat
      /\ \A m, n \in DOMAIN C : m < n => C[m].start <= C[n].start
      /\ \A n \in DOMAIN C : Size[C[n].item] \in Nat
  BY <1>1, FeatureTypes, Constants
<1>5. Features' = Features /\ C' = C
  BY <1>1 DEF Features
<1>6. \A r \in Requests : \A n \in DOMAIN Features[r] : Features[r][n].item \in Items
  BY <1>1, FeatureTypes
<1>7. \A r \in Batch' : \A n \in DOMAIN Features'[r] :
        Needs(r, n, computed[r], computed[r] + sched[r])' => r \in refs'[Features'[r][n].item]
  <2>1. \A r \in Batch : \A n \in DOMAIN Features[r] :
          Needs(r, n, computed[r], computed[r] + sched[r]) => r \in refs[Features[r][n].item]
    BY <1>1 DEF FeaturesInv
  <2>2. Batch' = Batch /\ \A r \in Batch : r \in Requests
    BY <1>1 DEF Batch
  <2> QED BY <2>1, <2>2, <1>1, <1>2, <1>5, <1>6 DEF Needs
<1>8. ASSUME NEW n \in DOMAIN C, numNew' > 0, pc' = "features" => n < feat',
             Needs(current, n, c, ChunkEnd')
      PROVE  C[n].item \in plan' \/ current \in refs'[C[n].item]
  <2>1. C[n].start < c + numNew' /\ c < C[n].start + Size[C[n].item]
    BY <1>8, <1>3 DEF Needs
  <2>2. Needs(current, n, c, ChunkEnd)
    <3>1. C[n].start < c + numNew
      BY <2>1, <1>1, <1>3, <1>4, SMTT(30)
    <3> QED BY <2>1, <3>1, <1>3 DEF Needs
  <2>3. n \in Nat /\ n <= Len(C)
    BY <1>4
  <2>4. CASE n < feat
    <3>1. C[n].item \in plan \/ current \in refs[C[n].item]
      BY <2>2, <2>4, <1>1 DEF FeaturesInv, InTurn
    <3> QED BY <3>1, <1>2, <1>4
  <2>5. CASE n = feat /\ pc' = "features"
    <3>1. Needs(current, feat, computed[current], ChunkEnd)
      BY <2>2, <2>5
    <3>2. F.item \in plan' \/ current \in refs'[F.item]
      BY <2>5, <3>1, PassedFeature
    <3> QED BY <3>2, <2>5 DEF F
  <2>6. CASE ~(n < feat) /\ pc' = "align"
    <3>1. feat \in DOMAIN C /\ F = C[feat] /\ feat <= Len(C)
      BY <2>3, <2>6, <1>1, <1>4 DEF F
    <3>2. F.start <= C[n].start /\ F.start \in Nat /\ C[n].start \in Nat
      <4>1. n = feat \/ feat < n
        BY <2>3, <2>6, <1>1
      <4> QED BY <4>1, <3>1, <1>4
    <3>3. CASE Reached
      <4>1. c + numNew' <= F.start
        BY <3>3, <2>6, <1>3, <1>8
      <4> QED BY <4>1, <3>2, <2>1, <1>1, <1>3
    <3>4. CASE ~Reached
      <4>1. ~(F.start < ChunkEnd + Shift)
        BY <3>4, <3>1 DEF Reached
      <4> QED BY <4>1, <3>2, <2>1, <1>1, <1>3
    <3> QED BY <3>3, <3>4
  <2>7. pc' = "features" => n < feat \/ n = feat
    BY <1>8, <2>3, <1>1, FeatureCases
  <2> QED BY <2>4, <2>5, <2>6, <2>7, <1>1
<1>9. pc' = "features" => numNew' > 0 /\ feat' > 0
  BY <1>1, FeatureCases
<1>10. InCache' \subseteq encoded' \cup takenBack' \cup UNION {inputs'[r] : r \in Requests}
  <2>1. InCache \subseteq encoded \cup takenBack \cup UNION {inputs[r] : r \in Requests}
    BY <1>1 DEF FeaturesInv
  <2> HIDE DEF C, c
  <2> QED BY <2>1, <1>1, <1>2
<1>11. \A r \in Requests : inputs'[r] \cap RemoteItems \subseteq encoded'
  <2>1. \A r \in Requests : inputs[r] \subseteq Held(r) /\ inputs[r] \cap RemoteItems \subseteq encoded
    BY <1>1 DEF IInv, CacheInv, FeaturesInv
  <2>2. \A r \in Requests : Held(r) \subseteq InCache'
    <3> SUFFICES ASSUME NEW r \in Requests, NEW i \in Items, r \in refs[i]
                 PROVE  i \in InCache'
      BY DEF Held
    <3>1. r \in refs'[i]
      BY <1>2
    <3> QED BY <3>1 DEF InCache, Used
  <2> QED BY <2>1, <2>2, <1>1, <1>2
<1>12. (InTurn /\ numNew > 0 => \A n \in DOMAIN Features[current] :
          /\ pc = "features" => n < feat
          /\ Needs(current, n, computed[current], ChunkEnd)
          => Features[current][n].item \in plan \/ current \in refs[Features[current][n].item])'
  <2> SUFFICES ASSUME numNew' > 0, NEW n \in DOMAIN C, pc' = "features" => n < feat',
                      Needs(current, n, computed[current], ChunkEnd)'
               PROVE  C[n].item \in plan' \/ current \in refs'[C[n].item]
    BY <1>1, <1>5
  <2>1. Needs(current, n, c, ChunkEnd')
    BY <1>1, <1>5 DEF Needs
  <2> QED BY <2>1, <1>8
<1> QED BY <1>1, <1>7, <1>9, <1>10, <1>11, <1>12 DEF FeaturesInv

\* A turn of that loop keeps the invariant.
LEMMA FeatureKeeps ==
  ASSUME IInv, FeatureStep
  PROVE  IInv'
<1>1. /\ pc = "features" /\ pc' \in {"features", "align"} /\ current \in Requests
      /\ config' = config /\ computed' = computed /\ tokens' = tokens /\ drafts' = drafts
      /\ chunks' = chunks /\ finished' = finished /\ order' = order /\ back' = back
      /\ failuresLeft' = failuresLeft /\ turn' = turn /\ current' = current
      /\ budget' = budget /\ encBudget' = encBudget /\ sched' = sched
      /\ schedDrafts' = schedDrafts /\ inputs' = inputs
  BY FeatureFrame DEF reqVars, queueVars, stepVars
<1>2. Planning /\ Planning' /\ InTurn /\ InTurn' /\ Batch' = Batch /\ Unfinished' = Unfinished
      /\ pc # "update" /\ pc' # "update" /\ pc' # "drafts" /\ pc' # "idle"
  BY <1>1 DEF Planning, InTurn, Batch, Unfinished
<1>3. numNew' \in Nat /\ numNew' <= numNew /\ numNew \in Nat /\ feat' \in Nat
  <2>1. feat \in Nat /\ (feat' = feat \/ feat' = feat + 1)
    BY FeatureCases DEF IInv, TypeOK
  <2> QED BY <2>1, StopsBefore
<1>c. /\ refs' \in [Items -> SUBSET Requests]
      /\ \A i \in Items : refs[i] \subseteq refs'[i] /\ refs'[i] \subseteq refs[i] \cup {current}
      /\ \A i \in Items : current \in refs'[i] => i \in ItemsOf(current)
      /\ freeable' \in Seq(Items) /\ IsInjective(freeable')
      /\ \A i \in ToSet(freeable') : refs'[i] = {}
      /\ InCache' \subseteq InCache
      /\ encoded' = encoded \cap InCache' /\ takenBack' = takenBack \cap InCache'
      /\ plan' \subseteq Items /\ plan' \subseteq ItemsOf(current) /\ plan \subseteq plan'
      /\ plan' \cap InCache' = {}
      /\ embeds' = SizeOf(plan') /\ SizeOf(InCache') + embeds' <= config.cache
      /\ embeds' \in 0..config.cache
      /\ encLeft' \in 0..EncoderBudget
      /\ encLeft' + SizeOf(plan' \ RemoteItems) <= encBudget
  BY FeatureCache
<1>4. TypeOK'
  <2>1. TypeOK /\ numNew' \in 0..TokenBudget
    <3>1. TypeOK /\ numNew \in 0..TokenBudget /\ TokenBudget \in Nat
      BY Constants DEF IInv, TypeOK
    <3> QED BY <3>1, <1>3
  <2>2. encoded' \cup takenBack' \subseteq InCache'
    BY <1>c
  <2> QED BY <1>1, <1>3, <1>c, <2>1, <2>2 DEF TypeOK
<1>5. OrderInv'
  <2>1. OrderInv
    BY DEF IInv
  <2> QED BY <1>1, <1>2, <2>1 DEF OrderInv, InTurn, Planning, Batch
<1>6. LengthInv'
  <2>1. LengthInv /\ \A r \in Requests : computed[r] \in Nat /\ tokens[r] \in Nat /\ drafts[r] \in Nat
    BY SMTT(30) DEF IInv, TypeOK
  <2>2. /\ numNew <= budget
        /\ computed[current] + numNew <= tokens[current] + drafts[current]
        /\ computed[current] + numNew < MaxModelLen /\ budget \in Nat
    BY <2>1, <1>2 DEF LengthInv, IInv, TypeOK
  <2>3. /\ numNew' <= budget
        /\ computed[current] + numNew' <= tokens[current] + drafts[current]
        /\ computed[current] + numNew' < MaxModelLen
    BY <2>1, <2>2, <1>1, <1>3, Constants
  <2> QED BY <1>1, <1>2, <2>1, <2>3 DEF LengthInv, Planning
<1>7. ComputedInv'
  <2>1. ComputedInv
    BY DEF IInv
  <2> QED BY <1>1, <1>2, <2>1 DEF ComputedInv
<1>8. MambaInv'
  <2>1. MambaInv
    BY DEF IInv
  <2> QED BY <1>1, <1>2, <2>1 DEF MambaInv, StopsAtBlock, LastCachePosition
<1>f. \A r \in Requests : ItemsOf(r)' = ItemsOf(r)
  BY <1>1 DEF ItemsOf, Features
<1>9. CacheInv'
  <2>1. CacheInv /\ TypeOK
    BY DEF IInv
  <2>2. \A i \in Items : \A r \in refs'[i] : i \in ItemsOf(r)'
    <3> SUFFICES ASSUME NEW i \in Items, NEW r \in refs'[i] PROVE i \in ItemsOf(r)'
      OBVIOUS
    <3>1. r \in Requests
      BY <1>c
    <3>2. CASE r = current
      BY <3>1, <3>2, <1>c, <1>f
    <3>3. CASE r # current
      <4>1. r \in refs[i]
        BY <3>3, <1>c
      <4> QED BY <4>1, <3>1, <2>1, <1>f DEF CacheInv
    <3> QED BY <3>2, <3>3
  <2>3. SizeOf(InCache') <= config.cache
    <3> DEFINE u == SizeOf(InCache')
    <3>1. u \in Nat
      <4>1. InCache' \subseteq Items
        BY <1>c, <2>1, CacheSets
      <4> DEFINE S == InCache'
      <4>2. S \in SUBSET Items
        BY <4>1
      <4> HIDE DEF S
      <4>3. SizeOf(S) \in Nat
        BY <4>2, SizeFacts
      <4> QED BY <4>3 DEF S
    <3>2. u + embeds' <= config.cache /\ embeds' \in 0..config.cache /\ config.cache \in Nat
      BY <1>c, <2>1, <1>1, FeatureTypes
    <3> HIDE DEF u
    <3>3. u <= config.cache
      BY <3>1, <3>2
    <3> QED BY <3>3 DEF u
  <2>4. \A r \in Requests : inputs'[r] \subseteq Held(r)' /\ (r \notin Batch' => inputs'[r] = {})
    <3> SUFFICES ASSUME NEW r \in Requests
                 PROVE  inputs'[r] \subseteq Held(r)' /\ (r \notin Batch' => inputs'[r] = {})
      OBVIOUS
    <3>1. inputs[r] \subseteq Held(r) /\ (r \notin Batch => inputs[r] = {})
      BY <2>1, <1>2 DEF CacheInv
    <3>2. Held(r) \subseteq Held(r)'
      BY <1>c DEF Held
    <3> QED BY <3>1, <3>2, <1>1, <1>2
  <2>5. (SizeOf(InCache) <= config.cache)' /\ (SizeOf(InCache) + embeds <= config.cache)'
        /\ (embeds = SizeOf(plan))'
    BY <2>3, <1>c, <1>1 DEF SizeOf
  <2>6. (plan \cap InCache = {})' /\ (plan \subseteq ItemsOf(current))'
    BY <1>c, <1>1, <1>f DEF ItemsOf, Features
  <2> QED BY <2>2, <2>4, <2>5, <2>6, <1>c DEF CacheInv
<1>10. EncoderBudgetInv'
  <2>1. EncoderBudgetInv
    BY DEF IInv
  <2>2. (encLeft + SizeOf(plan \ RemoteItems) <= encBudget)'
    BY <1>c, <1>1 DEF SizeOf
  <2>3. ToCompute' = ToCompute
    BY <1>1 DEF ToCompute, SizeOf
  <2>4. encBudget' + Total(ToCompute', Requests) <= EncoderBudget
    BY <2>1, <2>3, <1>1, <1>2 DEF EncoderBudgetInv
  <2> QED BY <2>2, <2>4 DEF EncoderBudgetInv
<1> QED BY <1>4, <1>5, <1>6, <1>7, <1>8, <1>9, <1>10, FeatureKeepsFeatures DEF IInv

-------------------------------------------------------------------------------
(* The other steps *)

\* Of the cache and the features only the plan of the batch changes with pc.
LEMMA CacheOutsidePlanning ==
  ASSUME IInv, ~Planning', config' = config, refs' = refs, freeable' = freeable,
         encBudget' = encBudget, encoded \subseteq encoded', takenBack' = takenBack,
         Planning => UNION {inputs[r] : r \in Requests} \subseteq encoded'
  PROVE  CacheInv' /\ EncoderBudgetInv' /\ FeaturesInv'
<1>1. InCache' = InCache /\ ~InTurn' /\ pc' # "features" /\ Features' = Features
  BY DEF InCache, Used, InTurn, Planning, Features
<1>2. CacheInv'
  <2>1. CacheInv
    BY DEF IInv
  <2>2. \A r \in Requests : ItemsOf(r)' = ItemsOf(r)
    BY <1>1 DEF ItemsOf
  <2>3. refs \in [Items -> SUBSET Requests]
    BY DEF IInv, TypeOK
  <2>4. (SizeOf(InCache) <= config.cache)'
    BY <2>1, <1>1 DEF CacheInv, SizeOf
  <2> QED BY <1>1, <2>1, <2>2, <2>3, <2>4 DEF CacheInv
<1>3. EncoderBudgetInv'
  BY <1>1 DEF EncoderBudgetInv
<1>4. FeaturesInv'
  <2>1. FeaturesInv
    BY DEF IInv
  <2>2. InCache \subseteq encoded' \cup takenBack'
    BY <2>1 DEF FeaturesInv
  <2> QED BY <1>1, <2>2 DEF FeaturesInv
<1> QED BY <1>2, <1>3, <1>4

\* update_draft_token_ids keeps the invariant.
LEMMA DraftsKeep ==
  ASSUME IInv, UpdateDraftTokenIds
  PROVE  IInv'
<1>1. /\ pc = "drafts" /\ pc' = "idle" /\ drafts' \in [Requests -> 0..MaxDraft]
      /\ config' = config /\ computed' = computed /\ tokens' = tokens /\ chunks' = chunks
      /\ finished' = finished /\ refs' = refs /\ freeable' = freeable /\ encoded' = encoded
      /\ takenBack' = takenBack /\ order' = order /\ back' = back
      /\ failuresLeft' = failuresLeft /\ turn' = turn /\ current' = current /\ feat' = feat
      /\ numNew' = numNew /\ plan' = plan /\ encLeft' = encLeft /\ embeds' = embeds
      /\ budget' = budget /\ encBudget' = encBudget /\ sched' = sched
      /\ schedDrafts' = schedDrafts /\ inputs' = inputs
      /\ \A r \in Requests : ~MayHaveDrafts(r) =>
           drafts'[r] = IF sched[r] > 0 /\ r \notin finished THEN 0 ELSE drafts[r]
  BY DEF UpdateDraftTokenIds, cacheVars, queueVars, featVars, stepVars
<1>2. /\ ~Planning /\ ~Planning' /\ ~InTurn /\ ~InTurn' /\ Batch' = Batch
      /\ Unfinished' = Unfinished
  BY <1>1 DEF Planning, InTurn, Batch, Unfinished
<1>3. TypeOK'
  <2>1. TypeOK /\ InCache' = InCache
    BY <1>1 DEF IInv, InCache, Used
  <2> QED BY <1>1, <2>1 DEF TypeOK
<1>4. OrderInv'
  <2>1. OrderInv
    BY DEF IInv
  <2> QED BY <1>1, <1>2, <2>1 DEF OrderInv
<1>5. LengthInv'
  <2>1. LengthInv
    BY DEF IInv
  <2> QED BY <1>1, <1>2, <2>1 DEF LengthInv
<1>6. ComputedInv'
  <2>1. ComputedInv /\ back = {} /\ Batch \ finished \subseteq ToSet(order)
    BY <1>1 DEF IInv, OrderInv
  <2> SUFFICES ASSUME NEW r \in Unfinished
               PROVE  /\ computed[r] < tokens[r]
                      /\ drafts'[r] > 0 => computed[r] = tokens[r] - 1
                      /\ r \notin ToSet(order) => drafts'[r] = 0
    BY <1>1, <1>2, <2>1 DEF ComputedInv
  <2>2. /\ computed[r] < tokens[r] /\ (drafts[r] > 0 => computed[r] = tokens[r] - 1)
        /\ r \notin ToSet(order) => drafts[r] = 0
        /\ r \in Batch \ chunks => computed[r] = tokens[r] - 1
    BY <1>1, <2>1 DEF ComputedInv
  <2>3. r \in Requests /\ r \notin finished /\ (r \in Batch <=> sched[r] > 0)
    BY DEF Unfinished, Batch
  <2>4. CASE MayHaveDrafts(r)
    BY <2>1, <2>2, <2>3, <2>4 DEF MayHaveDrafts
  <2>5. CASE ~MayHaveDrafts(r) /\ sched[r] > 0
    BY <2>2, <2>3, <2>5, <1>1
  <2>6. CASE ~MayHaveDrafts(r) /\ ~(sched[r] > 0)
    BY <2>2, <2>3, <2>6, <1>1
  <2> QED BY <2>4, <2>5, <2>6
<1>7. MambaInv'
  <2>1. MambaInv
    BY DEF IInv
  <2> QED BY <1>1, <1>2, <2>1 DEF MambaInv, StopsAtBlock, LastCachePosition
<1>8. CacheInv' /\ EncoderBudgetInv' /\ FeaturesInv'
  BY <1>1, <1>2, CacheOutsidePlanning
<1> QED BY <1>3, <1>4, <1>5, <1>6, <1>7, <1>8 DEF IInv

\* The end of schedule() keeps the invariant.
LEMMA FinishKeeps ==
  ASSUME IInv, FinishSchedule
  PROVE  IInv'
<1>1. /\ pc \in {"end", "turn"} /\ pc' = "update" /\ turn' = 1
      /\ computed' = [r \in Requests |-> computed[r] + sched[r]]
      /\ chunks' = {r \in Requests : IF sched[r] > 0 THEN computed[r] + sched[r] < tokens[r]
                                     ELSE r \in chunks}
      /\ encoded' = encoded \cup UNION {inputs[r] : r \in Requests}
      /\ config' = config /\ tokens' = tokens /\ drafts' = drafts
      /\ finished' = finished /\ refs' = refs /\ freeable' = freeable
      /\ takenBack' = takenBack /\ order' = order /\ back' = back
      /\ failuresLeft' = failuresLeft /\ current' = current /\ feat' = feat
      /\ numNew' = numNew /\ plan' = plan /\ encLeft' = encLeft /\ embeds' = embeds
      /\ budget' = budget /\ encBudget' = encBudget /\ sched' = sched
      /\ schedDrafts' = schedDrafts /\ inputs' = inputs
  BY DEF FinishSchedule, queueVars, featVars, stepVars
<1>2. /\ Planning /\ ~Planning' /\ ~InTurn /\ ~InTurn' /\ Batch' = Batch
      /\ Unfinished' = Unfinished
  BY <1>1 DEF Planning, InTurn, Batch, Unfinished
<1>3. \A r \in Requests : /\ computed[r] \in Nat /\ sched[r] \in Nat /\ tokens[r] \in Nat
                          /\ computed'[r] = computed[r] + sched[r]
                          /\ computed'[r] <= MaxModelLen
                          /\ (r \in Batch <=> sched[r] > 0)
  BY <1>1, <1>2 DEF IInv, TypeOK, LengthInv, Batch
<1>4. TypeOK'
  <2>1. TypeOK /\ InCache' = InCache
    BY <1>1 DEF IInv, InCache, Used
  <2>2. computed' \in [Requests -> 0..MaxModelLen]
    BY <1>1, <1>3, Constants
  <2>3. UNION {inputs[r] : r \in Requests} \subseteq InCache
    <3>1. \A r \in Requests : inputs[r] \subseteq Held(r)
      BY <1>2 DEF IInv, CacheInv
    <3>2. \A r \in Requests : Held(r) \subseteq Used
      BY <2>1, CacheSets
    <3> QED BY <3>1, <3>2 DEF InCache
  <2>4. turn' \in 1..Cardinality(Requests) + 1
    BY <1>1, Constants
  <2>5. chunks' \subseteq Requests
    BY <1>1
  <2>6. encoded' \cup takenBack' \subseteq InCache'
    BY <2>1, <2>3, <1>1 DEF TypeOK
  <2> QED BY <1>1, <2>1, <2>2, <2>4, <2>5, <2>6 DEF TypeOK
<1>5. OrderInv'
  <2>1. OrderInv /\ \A i \in DOMAIN order : order[i] \notin finished
    <3>1. OrderInv /\ ToSet(order) \cap finished = {}
      BY <1>1 DEF IInv, OrderInv
    <3> QED BY <3>1 DEF ToSet
  <2>2. Batch \subseteq ToSet(order)
    <3>1. \A r \in Batch : \E i \in DOMAIN order : order[i] = r
      BY <2>1, <1>2 DEF OrderInv
    <3> QED BY <3>1, Zenon DEF ToSet
  <2> QED BY <1>1, <1>2, <2>1, <2>2 DEF OrderInv
<1>6. LengthInv'
  <2>1. LengthInv
    BY DEF IInv
  <2> QED BY <1>1, <1>2, <2>1 DEF LengthInv
<1>7. ComputedInv'
  <2> SUFFICES ASSUME NEW r \in Unfinished
               PROVE  /\ r \notin Batch \/ r \in chunks' => computed'[r] < tokens[r]
                      /\ r \notin Batch => (drafts[r] > 0 => computed'[r] = tokens[r] - 1)
                      /\ r \notin ToSet(order) \/ (r \in back /\ r \notin Batch) => drafts[r] = 0
                      /\ r \in Batch => drafts[r] = 0
                      /\ r \in Batch \ chunks' => computed'[r] = tokens[r] + schedDrafts[r]
    <3>1. \A i \in DOMAIN order : i \in Nat /\ ~(i < 1)
      <4>1. order \in Seq(Requests)
        BY DEF IInv, TypeOK
      <4> QED BY <4>1
    <3> QED BY <1>1, <1>2, <3>1 DEF ComputedInv
  <2>1. r \in Requests
    BY DEF Unfinished
  <2>2. /\ computed[r] < tokens[r]
        /\ drafts[r] > 0 => computed[r] = tokens[r] - 1
        /\ r \notin ToSet(order) \/ (r \in back /\ r \notin Batch) => drafts[r] = 0
        /\ r \in Batch => drafts[r] = 0
        /\ r \in Batch => schedDrafts[r] = Most(0, computed[r] + sched[r] - tokens[r])
    <3>1. ComputedInv /\ pc # "update"
      BY <1>1 DEF IInv
    <3> QED BY <3>1, <1>2 DEF ComputedInv
  <2>3. r \notin Batch => computed'[r] = computed[r]
    BY <2>1, <1>3
  <2>4. r \in Batch => (r \in chunks' <=> computed[r] + sched[r] < tokens[r])
    BY <2>1, <1>1, <1>3
  <2>5. r \in Batch \ chunks' => computed'[r] = tokens[r] + schedDrafts[r]
    BY <2>1, <2>2, <2>4, <1>3 DEF Most
  <2> QED BY <2>1, <2>2, <2>3, <2>4, <2>5, <1>3
<1>8. MambaInv'
  <2>1. MambaInv /\ \A r \in Unfinished : r \in Requests
    BY DEF IInv, Unfinished
  <2> QED BY <1>1, <1>2, <1>3, <2>1 DEF MambaInv, StopsAtBlock, LastCachePosition
<1>9. CacheInv' /\ EncoderBudgetInv' /\ FeaturesInv'
  BY <1>1, <1>2, CacheOutsidePlanning
<1> QED BY <1>4, <1>5, <1>6, <1>7, <1>8, <1>9 DEF IInv

\* The running requests from here on.
LEMMA EndUpdateKeeps ==
  ASSUME IInv, EndUpdate
  PROVE  IInv'
<1> DEFINE S == {r \in Requests \ finished : r \in back => sched[r] > 0}
<1>1. /\ pc = "update" /\ pc' = "drafts" /\ turn' = 1 /\ order' = Sift(order, S)
      /\ turn > Len(order) /\ back' = {} /\ computed' = computed /\ chunks' = chunks
      /\ config' = config /\ tokens' = tokens /\ drafts' = drafts /\ encoded' = encoded
      /\ finished' = finished /\ refs' = refs /\ freeable' = freeable
      /\ takenBack' = takenBack
      /\ failuresLeft' = failuresLeft /\ current' = current /\ feat' = feat
      /\ numNew' = numNew /\ plan' = plan /\ encLeft' = encLeft /\ embeds' = embeds
      /\ budget' = budget /\ encBudget' = encBudget /\ sched' = sched
      /\ schedDrafts' = schedDrafts /\ inputs' = inputs
  BY DEF EndUpdate, reqVars, cacheVars, featVars, stepVars
<1>2. /\ ~Planning /\ ~Planning' /\ ~InTurn /\ ~InTurn' /\ Batch' = Batch
      /\ Unfinished' = Unfinished
  BY <1>1 DEF Planning, InTurn, Batch, Unfinished
<1>3. /\ order \in Seq(Requests) /\ IsInjective(order) /\ DOMAIN order = 1..Len(order)
      /\ Len(order) \in Nat /\ ToSet(order) \subseteq Requests
      /\ turn \in Nat /\ Batch \subseteq ToSet(order)
  <2>1. order \in Seq(Requests) /\ IsInjective(order) /\ turn \in Nat
    BY Constants DEF IInv, TypeOK
  <2>2. Batch \subseteq ToSet(order)
    BY <1>1 DEF IInv, OrderInv
  <2> QED BY <2>1, <2>2, SetOfSequence
<1>4. /\ order' \in Seq(Requests) /\ IsInjective(order')
      /\ ToSet(order') = ToSet(order) \cap S
  <2> HIDE DEF S
  <2> QED BY <1>1, <1>3, SiftSet
<1>5. TypeOK'
  <2>1. TypeOK /\ InCache' = InCache
    BY <1>1 DEF IInv, InCache, Used
  <2>2. turn' \in 1..Cardinality(Requests) + 1
    BY <1>1, Constants
  <2> QED BY <1>1, <1>4, <2>1, <2>2 DEF TypeOK
<1>6. OrderInv'
  <2>1. ToSet(order') \cap finished = {}
    BY <1>4
  <2>2. Batch \ finished \subseteq ToSet(order')
    <3>1. \A r \in Batch \ finished : r \in S
      BY DEF Batch
    <3> QED BY <3>1, <1>3, <1>4
  <2> QED BY <1>1, <1>2, <2>1, <2>2 DEF OrderInv
<1>7. LengthInv'
  <2>1. LengthInv
    BY DEF IInv
  <2> QED BY <1>1, <1>2, <2>1 DEF LengthInv
<1>8. ComputedInv'
  <2> SUFFICES ASSUME NEW r \in Unfinished
               PROVE  /\ computed[r] < tokens[r]
                      /\ drafts[r] > 0 => (r \notin Batch => computed[r] = tokens[r] - 1)
                      /\ drafts[r] > 0 => (r \in Batch => computed[r] = tokens[r] - 1)
                      /\ r \notin ToSet(order') => drafts[r] = 0
                      /\ r \in Batch \ chunks => computed[r] = tokens[r] - 1
    BY <1>1, <1>2 DEF ComputedInv
  <2>1. r \in Requests /\ r \notin finished /\ tokens[r] \in Nat /\ computed[r] \in Nat
    BY SMTT(30) DEF Unfinished, IInv, TypeOK
  <2>2. /\ r \notin Batch \/ r \in chunks => computed[r] < tokens[r]
        /\ r \notin Batch => (drafts[r] > 0 => computed[r] = tokens[r] - 1)
        /\ r \notin ToSet(order) \/ (r \in back /\ r \notin Batch) => drafts[r] = 0
        /\ r \in Batch \ chunks =>
             \A i \in DOMAIN order : order[i] = r =>
               computed[r] = IF i < turn THEN tokens[r] - 1 ELSE tokens[r] + schedDrafts[r]
        /\ r \in Batch => drafts[r] = 0
    BY <1>1 DEF IInv, ComputedInv
  <2>3. r \in Batch \ chunks => computed[r] = tokens[r] - 1
    <3>1. SUFFICES ASSUME r \in Batch \ chunks PROVE computed[r] = tokens[r] - 1
      OBVIOUS
    <3>2. PICK i \in DOMAIN order : order[i] = r
      BY <3>1, <1>3 DEF ToSet
    <3>3. i < turn
      BY <1>1, <1>3
    <3> QED BY <3>1, <3>2, <3>3, <2>2
  <2>4. r \in Batch => drafts[r] = 0
    BY <2>2
  <2>5. computed[r] < tokens[r]
    BY <2>1, <2>2, <2>3
  <2>6. r \notin ToSet(order') => drafts[r] = 0
    <3>1. r \notin S => r \in back /\ r \notin Batch
      BY <2>1 DEF Batch
    <3> QED BY <3>1, <2>2, <1>4
  <2> QED BY <2>2, <2>3, <2>4, <2>5, <2>6
<1>9. MambaInv'
  <2>1. MambaInv
    BY DEF IInv
  <2> QED BY <1>1, <1>2, <2>1 DEF MambaInv, StopsAtBlock, LastCachePosition
<1>10. CacheInv' /\ EncoderBudgetInv' /\ FeaturesInv'
  BY <1>1, <1>2, CacheOutsidePlanning
<1> QED BY <1>5, <1>6, <1>7, <1>8, <1>9, <1>10 DEF IInv

\* _free_encoder_inputs between the schedule and the end of the step.
LEMMA ReleaseOutsidePlanning ==
  ASSUME IInv, ~Planning, ~Planning', config' = config, encoded' = encoded,
         takenBack' = takenBack, NEW r \in Requests, NEW items,
         items \subseteq Held(r), items \subseteq ItemsOf(r), Release(r, items)
  PROVE  /\ refs' \in [Items -> SUBSET Requests]
         /\ freeable' \in Seq(Items) /\ \A i \in ToSet(freeable') : refs'[i] = {}
         /\ InCache' = InCache
         /\ CacheInv' /\ EncoderBudgetInv' /\ FeaturesInv'
<1>1. /\ TypeOK /\ CacheInv /\ IsInjective(freeable)
      /\ ~InTurn' /\ pc' # "features" /\ Features' = Features
  BY DEF IInv, CacheInv, InTurn, Planning, Features
<1>2. /\ refs' \in [Items -> SUBSET Requests]
      /\ \A i \in Items : refs'[i] = IF i \in items THEN refs[i] \ {r} ELSE refs[i]
      /\ freeable' \in Seq(Items) /\ IsInjective(freeable')
      /\ \A i \in ToSet(freeable') : refs'[i] = {}
      /\ InCache' = InCache
  BY <1>1, ReleaseFacts
<1>3. CacheInv'
  <2>1. \A q \in Requests : ItemsOf(q)' = ItemsOf(q)
    BY <1>1 DEF ItemsOf
  <2>2. \A i \in Items : \A q \in refs'[i] : q \in Requests /\ q \in refs[i]
    BY <1>2
  <2>3. (SizeOf(InCache) <= config.cache)'
    BY <1>1, <1>2 DEF CacheInv, SizeOf
  <2>4. \A i \in Items : \A q \in refs'[i] : i \in ItemsOf(q)'
    BY <1>1, <2>1, <2>2 DEF CacheInv
  <2> QED BY <1>1, <1>2, <2>3, <2>4 DEF CacheInv
<1>4. EncoderBudgetInv'
  BY <1>1 DEF EncoderBudgetInv
<1>5. FeaturesInv'
  <2>1. InCache \subseteq encoded \cup takenBack
    BY DEF IInv, FeaturesInv
  <2> QED BY <1>1, <1>2, <2>1 DEF FeaturesInv
<1> QED BY <1>2, <1>3, <1>4, <1>5

\* What update_from_output() frees is held, and of the request's features.
LEMMA FreedItems ==
  ASSUME IInv, NEW r \in Requests
  PROVE  /\ Held(r) \subseteq ItemsOf(r)
         /\ \A upTo : Done(r, upTo) \subseteq Held(r) /\ Done(r, upTo) \subseteq ItemsOf(r)
<1>1. \A n \in DOMAIN Features[r] : Features[r][n].item \in Items
  BY FeatureTypes DEF IInv
<1>2. Held(r) \subseteq ItemsOf(r)
  BY DEF IInv, CacheInv, Held
<1> QED BY <1>1, <1>2 DEF Done, Held, ItemsOf

\* update_from_output keeps it for a request that was given no token to sample.
LEMMA WithoutSampleKeeps ==
  ASSUME IInv, UpdateWithoutSample
  PROVE  IInv'
<1> DEFINE r == Updated
           items == IF sched[r] = 0 THEN {} ELSE Done(r, computed[r])
<1>1. /\ pc = "update" /\ pc' = "update" /\ turn <= Len(order) /\ turn' = turn + 1
      /\ sched[r] = 0 \/ r \in chunks
      /\ Release(r, items)
      /\ computed' = computed /\ chunks' = chunks
      /\ config' = config /\ tokens' = tokens /\ drafts' = drafts /\ encoded' = encoded
      /\ finished' = finished /\ takenBack' = takenBack /\ order' = order /\ back' = back
      /\ failuresLeft' = failuresLeft /\ current' = current /\ feat' = feat
      /\ numNew' = numNew /\ plan' = plan /\ encLeft' = encLeft /\ embeds' = embeds
      /\ budget' = budget /\ encBudget' = encBudget /\ sched' = sched
      /\ schedDrafts' = schedDrafts /\ inputs' = inputs
  BY DEF UpdateWithoutSample, InUpdate, reqVars, queueVars, featVars, stepVars
<1>2. /\ ~Planning /\ ~Planning' /\ ~InTurn /\ ~InTurn' /\ Batch' = Batch
      /\ Unfinished' = Unfinished
  BY <1>1 DEF Planning, InTurn, Batch, Unfinished
<1>3. /\ TypeOK /\ order \in Seq(Requests) /\ IsInjective(order)
      /\ DOMAIN order = 1..Len(order) /\ Len(order) \in Nat
      /\ Len(order) <= Cardinality(Requests) /\ Cardinality(Requests) \in Nat
      /\ turn \in Nat /\ turn \in DOMAIN order /\ r \in Requests
  <2>0. TypeOK /\ Cardinality(Requests) \in Nat /\ turn \in 1..Cardinality(Requests) + 1
    BY Constants DEF IInv, TypeOK
  <2>a. order \in Seq(Requests) /\ IsInjective(order)
    BY <2>0 DEF TypeOK
  <2>1. TypeOK /\ order \in Seq(Requests) /\ IsInjective(order) /\ turn \in Nat /\ turn >= 1
    BY <2>0, <2>a
  <2>2. DOMAIN order = 1..Len(order) /\ Len(order) \in Nat
    BY <2>1
  <2>3. turn \in DOMAIN order
    BY <2>1, <2>2, <1>1
  <2> QED BY <2>1, <2>2, <2>3, InjectiveLength, Constants, ElementOfSeq DEF Updated
<1>4. items \subseteq Held(r) /\ items \subseteq ItemsOf(r)
  BY <1>3, FreedItems
<1> HIDE DEF items
<1>5. /\ refs' \in [Items -> SUBSET Requests]
      /\ freeable' \in Seq(Items) /\ \A i \in ToSet(freeable') : refs'[i] = {}
      /\ InCache' = InCache
      /\ CacheInv' /\ EncoderBudgetInv' /\ FeaturesInv'
  BY <1>1, <1>2, <1>3, <1>4, ReleaseOutsidePlanning
<1>6. TypeOK'
  <2>1. turn' \in 1..Cardinality(Requests) + 1
    BY <1>1, <1>3
  <2> QED BY <1>1, <1>3, <1>5, <2>1 DEF TypeOK
<1>7. OrderInv'
  <2>1. OrderInv
    BY DEF IInv
  <2>2. \A i \in DOMAIN order : order[i] \in finished => i < turn + 1
    BY <1>1, <1>3, <2>1 DEF OrderInv
  <2> QED BY <1>1, <1>2, <2>1, <2>2 DEF OrderInv
<1>8. LengthInv'
  <2>1. LengthInv
    BY DEF IInv
  <2> QED BY <1>1, <1>2, <2>1 DEF LengthInv
<1>9. ComputedInv'
  <2>1. ComputedInv
    BY DEF IInv
  <2>2. ASSUME NEW q \in Unfinished, q \in Batch \ chunks, NEW i \in DOMAIN order, order[i] = q
        PROVE  computed[q] = IF i < turn + 1 THEN tokens[q] - 1 ELSE tokens[q] + schedDrafts[q]
    <3>1. computed[q] = IF i < turn THEN tokens[q] - 1 ELSE tokens[q] + schedDrafts[q]
      BY <2>1, <2>2, <1>1 DEF ComputedInv
    <3>2. i # turn
      BY <2>2, <1>1 DEF Updated, Batch
    <3>3. i < turn + 1 <=> i < turn
      BY <3>2, <1>3
    <3> QED BY <3>1, <3>3
  <2> QED BY <1>1, <1>2, <2>1, <2>2 DEF ComputedInv
<1>10. MambaInv'
  <2>1. MambaInv
    BY DEF IInv
  <2> QED BY <1>1, <1>2, <2>1 DEF MambaInv, StopsAtBlock, LastCachePosition
<1> QED BY <1>5, <1>6, <1>7, <1>8, <1>9, <1>10 DEF IInv

\* A sample extends the request past the drafts it accepts, or ends it.
LEMMA WithSampleKeeps ==
  ASSUME IInv, UpdateWithSample
  PROVE  IInv'
<1> DEFINE r == Updated
<1>0. PICK accepted \in 0..schedDrafts[r] :
        LET kept == AfterRejection(r, accepted)
            stops == accepted + 1 >= Room(r)
        IN  /\ computed' = [computed EXCEPT ![r] = kept]
            /\ tokens' = [tokens EXCEPT ![r] = @ + Least(accepted + 1, Room(r))]
            /\ finished' = IF stops THEN finished \cup {r} ELSE finished
            /\ Release(r, IF stops THEN Held(r) ELSE Done(r, kept))
  BY DEF UpdateWithSample
<1> DEFINE kept == AfterRejection(r, accepted)
           stops == accepted + 1 >= Room(r)
           items == IF stops THEN Held(r) ELSE Done(r, kept)
<1>1. /\ pc = "update" /\ pc' = "update" /\ turn <= Len(order) /\ turn' = turn + 1
      /\ sched[r] > 0 /\ r \notin chunks
      /\ Release(r, items)
      /\ computed' = [computed EXCEPT ![r] = kept]
      /\ tokens' = [tokens EXCEPT ![r] = tokens[r] + Least(accepted + 1, Room(r))]
      /\ finished' = IF stops THEN finished \cup {r} ELSE finished
      /\ chunks' = chunks /\ config' = config /\ drafts' = drafts /\ encoded' = encoded
      /\ takenBack' = takenBack /\ order' = order /\ back' = back
      /\ failuresLeft' = failuresLeft /\ current' = current /\ feat' = feat
      /\ numNew' = numNew /\ plan' = plan /\ encLeft' = encLeft /\ embeds' = embeds
      /\ budget' = budget /\ encBudget' = encBudget /\ sched' = sched
      /\ schedDrafts' = schedDrafts /\ inputs' = inputs
  BY <1>0 DEF UpdateWithSample, InUpdate, queueVars, featVars, stepVars
<1>2. /\ ~Planning /\ ~Planning' /\ ~InTurn /\ ~InTurn' /\ Batch' = Batch
      /\ Unfinished' \subseteq Unfinished
  BY <1>1 DEF Planning, InTurn, Batch, Unfinished
<1>3. /\ TypeOK /\ order \in Seq(Requests) /\ IsInjective(order)
      /\ DOMAIN order = 1..Len(order) /\ Len(order) \in Nat
      /\ Len(order) <= Cardinality(Requests) /\ Cardinality(Requests) \in Nat
      /\ turn \in Nat /\ turn \in DOMAIN order /\ r \in Requests /\ r = order[turn]
  <2>0. TypeOK /\ Cardinality(Requests) \in Nat /\ turn \in 1..Cardinality(Requests) + 1
    BY Constants DEF IInv, TypeOK
  <2>a. order \in Seq(Requests) /\ IsInjective(order)
    BY <2>0 DEF TypeOK
  <2>1. TypeOK /\ order \in Seq(Requests) /\ IsInjective(order) /\ turn \in Nat /\ turn >= 1
    BY <2>0, <2>a
  <2>2. DOMAIN order = 1..Len(order) /\ Len(order) \in Nat
    BY <2>1
  <2>3. turn \in DOMAIN order
    BY <2>1, <2>2, <1>1
  <2> QED BY <2>1, <2>2, <2>3, InjectiveLength, Constants, ElementOfSeq DEF Updated
<1>4. items \subseteq Held(r) /\ items \subseteq ItemsOf(r)
  BY <1>3, FreedItems
<1> HIDE DEF items
<1>5. /\ refs' \in [Items -> SUBSET Requests]
      /\ freeable' \in Seq(Items) /\ \A i \in ToSet(freeable') : refs'[i] = {}
      /\ InCache' = InCache
      /\ CacheInv' /\ EncoderBudgetInv' /\ FeaturesInv'
  BY <1>1, <1>2, <1>3, <1>4, ReleaseOutsidePlanning
<1>6. r \in Unfinished /\ r \in Batch
  <2>1. order[turn] \in finished => turn < turn
    BY <1>1, <1>3 DEF IInv, OrderInv
  <2> QED BY <2>1, <1>1, <1>3 DEF Unfinished, Batch
<1>7. /\ computed[r] = tokens[r] + schedDrafts[r] /\ tokens[r] \in Nat /\ tokens[r] >= 1
      /\ schedDrafts[r] \in Nat /\ accepted \in Nat /\ accepted <= schedDrafts[r]
      /\ computed[r] \in Nat /\ computed[r] <= MaxModelLen /\ MaxModelLen \in Nat
      /\ PromptLen[r] \in Nat /\ MaxOutput[r] \in Nat /\ PromptLen[r] <= tokens[r]
      /\ tokens[r] < Least(PromptLen[r] + MaxOutput[r], MaxModelLen)
  <2>1. computed[r] = tokens[r] + schedDrafts[r]
    <3>1. computed[r] = IF turn < turn THEN tokens[r] - 1 ELSE tokens[r] + schedDrafts[r]
      BY <1>1, <1>3, <1>6 DEF IInv, ComputedInv
    <3> QED BY <3>1, <1>3
  <2>0. /\ tokens[r] \in 1..MaxModelLen /\ schedDrafts[r] \in 0..MaxDraft
        /\ computed[r] \in 0..MaxModelLen
    BY <1>3 DEF TypeOK
  <2>4. /\ PromptLen[r] \in Nat /\ MaxOutput[r] \in Nat
        /\ MaxModelLen \in Nat /\ MaxDraft \in Nat
    BY <1>3, Constants
  <2>2. /\ tokens[r] \in Nat /\ tokens[r] >= 1 /\ schedDrafts[r] \in Nat
        /\ computed[r] \in Nat /\ computed[r] <= MaxModelLen /\ MaxModelLen \in Nat
        /\ PromptLen[r] \in Nat /\ MaxOutput[r] \in Nat
    BY <2>0, <2>4
  <2>3. /\ tokens[r] < Least(PromptLen[r] + MaxOutput[r], MaxModelLen)
        /\ PromptLen[r] <= tokens[r]
    BY <1>3, <1>6 DEF IInv, LengthInv
  <2> QED BY <2>1, <2>2, <2>3
<1> DEFINE top == Least(PromptLen[r] + MaxOutput[r], MaxModelLen)
<1>8. /\ kept = tokens[r] + accepted /\ Room(r) = top - tokens[r]
      /\ top \in Nat /\ top <= MaxModelLen
  <2>1. top \in Nat /\ top <= MaxModelLen
    BY <1>7 DEF Least
  <2> QED BY <2>1, <1>7 DEF AfterRejection, Room
<1> HIDE DEF top, kept
<1>9. /\ computed'[r] = tokens[r] + accepted
      /\ tokens'[r] = tokens[r] + Least(accepted + 1, top - tokens[r])
      /\ \A q \in Requests : q # r => computed'[q] = computed[q] /\ tokens'[q] = tokens[q]
  BY <1>1, <1>3, <1>8 DEF TypeOK
<1>10. /\ computed'[r] \in 0..MaxModelLen /\ tokens'[r] \in 1..MaxModelLen
       /\ tokens[r] <= tokens'[r]
  BY <1>7, <1>8, <1>9 DEF Least, top
<1>11. ASSUME ~stops
       PROVE  computed'[r] = tokens'[r] - 1 /\ tokens'[r] < top /\ PromptLen[r] < tokens'[r]
  <2>1. ~(accepted + 1 >= top - tokens[r])
    BY <1>8, <1>11
  <2>2. tokens'[r] = tokens[r] + (accepted + 1)
    BY <2>1, <1>7, <1>8, <1>9 DEF Least
  <2> QED BY <2>1, <2>2, <1>7, <1>8, <1>9
<1>12. r \in Unfinished' => ~stops
  BY <1>1 DEF Unfinished
<1> HIDE DEF stops
<1>13. TypeOK'
  <2>1. turn' \in 1..Cardinality(Requests) + 1
    BY <1>1, <1>3
  <2>2. computed' \in [Requests -> 0..MaxModelLen] /\ tokens' \in [Requests -> 1..MaxModelLen]
    BY <1>1, <1>3, <1>9, <1>10 DEF TypeOK
  <2>3. finished' \subseteq Requests
    BY <1>1, <1>3 DEF TypeOK
  <2> QED BY <1>1, <1>3, <1>5, <2>1, <2>2, <2>3 DEF TypeOK
<1>14. OrderInv'
  <2>1. OrderInv
    BY DEF IInv
  <2>2. ASSUME NEW i \in DOMAIN order, order[i] \in finished'
        PROVE  i < turn + 1
    <3>1. order[i] \in finished => i < turn
      BY <2>1, <1>1 DEF OrderInv
    <3>2. order[i] = r => i = turn
      BY <1>3 DEF IsInjective
    <3> QED BY <2>2, <3>1, <3>2, <1>1, <1>3
  <2> QED BY <1>1, <1>2, <2>1, <2>2 DEF OrderInv
<1>15. LengthInv'
  <2>1. LengthInv
    BY DEF IInv
  <2>2. \A q \in Requests : PromptLen[q] <= tokens'[q]
    <3> SUFFICES ASSUME NEW q \in Requests PROVE PromptLen[q] <= tokens'[q]
      OBVIOUS
    <3>1. CASE q = r
      BY <3>1, <1>7, <1>10
    <3>2. CASE q # r
      BY <3>2, <2>1, <1>9 DEF LengthInv
    <3> QED BY <3>1, <3>2
  <2>3. \A q \in Unfinished' : tokens'[q] < Least(PromptLen[q] + MaxOutput[q], MaxModelLen)
    <3> SUFFICES ASSUME NEW q \in Unfinished'
                 PROVE  tokens'[q] < Least(PromptLen[q] + MaxOutput[q], MaxModelLen)
      OBVIOUS
    <3>1. CASE q = r
      BY <3>1, <1>11, <1>12 DEF top
    <3>2. CASE q # r
      BY <3>2, <2>1, <1>2, <1>9 DEF LengthInv, Unfinished
    <3> QED BY <3>1, <3>2
  <2> QED BY <1>1, <1>2, <2>2, <2>3 DEF LengthInv
<1>16. ComputedInv'
  <2>1. ComputedInv
    BY DEF IInv
  <2>2. ASSUME NEW q \in Unfinished', q = r
        PROVE  /\ q \in ToSet(order) /\ q \in Batch /\ q \notin chunks /\ drafts[q] = 0
               /\ computed'[q] = tokens'[q] - 1
               /\ \A i \in DOMAIN order : order[i] = q => i < turn + 1
    <3>1. q \in ToSet(order)
      BY <2>2, <1>3, Zenon DEF ToSet
    <3>2. \A i \in DOMAIN order : order[i] = q => i < turn + 1
      BY <2>2, <1>3 DEF IsInjective
    <3>3. drafts[q] = 0
      BY <2>1, <2>2, <1>1, <1>6 DEF ComputedInv
    <3> QED BY <2>2, <3>1, <3>2, <3>3, <1>1, <1>6, <1>11, <1>12
  <2>3. ASSUME NEW q \in Unfinished', q # r, q \in Batch \ chunks, NEW i \in DOMAIN order,
               order[i] = q
        PROVE  computed[q] = IF i < turn + 1 THEN tokens[q] - 1 ELSE tokens[q] + schedDrafts[q]
    <3>1. computed[q] = IF i < turn THEN tokens[q] - 1 ELSE tokens[q] + schedDrafts[q]
      BY <2>1, <2>3, <1>1, <1>2 DEF ComputedInv
    <3>2. i # turn
      BY <2>3, <1>3
    <3>3. i < turn + 1 <=> i < turn
      BY <3>2, <1>3
    <3> QED BY <3>1, <3>3
  <2>4. ASSUME NEW q \in Unfinished', q # r
        PROVE  /\ computed'[q] = computed[q] /\ tokens'[q] = tokens[q] /\ q \in Unfinished
               /\ q \notin Batch \/ q \in chunks => computed[q] < tokens[q]
               /\ q \notin Batch => (drafts[q] > 0 => computed[q] = tokens[q] - 1)
               /\ q \notin ToSet(order) \/ (q \in back /\ q \notin Batch) => drafts[q] = 0
               /\ q \in Batch => drafts[q] = 0
    BY <2>1, <2>4, <1>1, <1>2, <1>9 DEF ComputedInv, Unfinished
  <2> QED BY <1>1, <1>2, <2>2, <2>3, <2>4 DEF ComputedInv
<1>17. MambaInv'
  <2>1. MambaInv
    BY DEF IInv
  <2> SUFFICES ASSUME config.mamba, NEW q \in Unfinished'
               PROVE  StopsAtBlock(q, computed[q])'
    BY <1>1, <1>2 DEF MambaInv
  <2>2. CASE q = r
    <3>1. ~(computed'[r] < Most(PromptLen[r], tokens'[r] - 1))
      BY <2>2, <1>7, <1>10, <1>11, <1>12 DEF Most
    <3> QED BY <2>2, <3>1 DEF StopsAtBlock
  <2>3. CASE q # r
    <3>1. q \in Unfinished /\ computed'[q] = computed[q] /\ tokens'[q] = tokens[q]
      BY <2>3, <1>2, <1>9 DEF Unfinished
    <3>2. StopsAtBlock(q, computed[q])
      BY <3>1, <2>1, <1>2 DEF MambaInv
    <3> QED BY <3>1, <3>2, <1>1 DEF StopsAtBlock, LastCachePosition
  <2> QED BY <2>2, <2>3
<1> QED BY <1>5, <1>13, <1>14, <1>15, <1>16, <1>17 DEF IInv

\* Requests out of the batch come back behind it, as far as the prefix cache knows them.
LEMMA BeginKeeps ==
  ASSUME IInv, BeginSchedule
  PROVE  IInv'
<1> DEFINE absent == Requests \ (finished \cup ToSet(order))
           readmitted == Sift(Order, absent)
<1>0. PICK hit \in [absent -> Hits] :
        computed' = [r \in Requests |-> IF r \in absent THEN hit[r] ELSE computed[r]]
  BY DEF BeginSchedule
<1>1. /\ pc = "idle" /\ pc' = "turn" /\ turn' = 1
      /\ order' = order \o readmitted /\ back' = absent
      /\ budget' = TokenBudget /\ encBudget' = EncoderBudget
      /\ sched' = [r \in Requests |-> 0] /\ schedDrafts' = [r \in Requests |-> 0]
      /\ inputs' = [r \in Requests |-> {}]
      /\ chunks' = chunks /\ config' = config /\ tokens' = tokens /\ drafts' = drafts
      /\ finished' = finished /\ refs' = refs /\ freeable' = freeable /\ encoded' = encoded
      /\ takenBack' = takenBack /\ failuresLeft' = failuresLeft /\ current' = current
      /\ feat' = feat /\ numNew' = numNew /\ plan' = plan /\ encLeft' = encLeft
      /\ embeds' = embeds
  BY DEF BeginSchedule, cacheVars, featVars
<1>2. /\ ~Planning /\ Planning' /\ ~InTurn /\ ~InTurn' /\ Batch' = {}
      /\ Unfinished' = Unfinished
  <2>1. \A r \in Requests : ~(sched'[r] > 0)
    BY <1>1
  <2> QED BY <2>1, <1>1 DEF Planning, InTurn, Batch, Unfinished
<1>3. /\ TypeOK /\ order \in Seq(Requests) /\ IsInjective(order) /\ back = {}
      /\ ToSet(order) \subseteq Requests /\ ToSet(order) \cap finished = {}
  <2>1. TypeOK /\ order \in Seq(Requests) /\ IsInjective(order)
    BY DEF IInv, TypeOK
  <2>2. back = {} /\ ToSet(order) \cap finished = {}
    BY <1>1 DEF IInv, OrderInv
  <2> QED BY <2>1, <2>2, SetOfSequence
<1>4. /\ readmitted \in Seq(Requests) /\ IsInjective(readmitted)
      /\ ToSet(readmitted) = absent
  <2>1. /\ Order \in Seq(Requests) /\ IsInjective(Order) /\ ToSet(Order) = Requests
        /\ absent \subseteq Requests
    BY StepTokensAssumption
  <2> HIDE DEF absent
  <2>2. ToSet(Sift(Order, absent)) = ToSet(Order) \cap absent
    BY <2>1, SiftSet
  <2> QED BY <2>1, <2>2, SiftSet
<1> DEFINE L == Len(order)
           K == Len(readmitted)
<1> HIDE DEF readmitted
<1>5. /\ order' \in Seq(Requests) /\ IsInjective(order')
      /\ ToSet(order') = ToSet(order) \cup absent
      /\ L \in Nat /\ K \in Nat /\ DOMAIN order' = 1..L + K
      /\ \A i \in 1..L : order'[i] = order[i] /\ order[i] \in ToSet(order)
      /\ \A i \in L + 1..L + K : order'[i] \in absent
  <2>1. ToSet(order) \cap ToSet(readmitted) = {}
    BY <1>4
  <2>2. /\ order' \in Seq(Requests) /\ IsInjective(order')
        /\ ToSet(order') = ToSet(order) \cup ToSet(readmitted)
        /\ Len(order') = L + K
        /\ \A i \in 1..L : order'[i] = order[i]
        /\ \A i \in L + 1..L + K : order'[i] = readmitted[i - L]
    BY <2>1, <1>1, <1>3, <1>4, ConcatInjective
  <2>3. /\ L \in Nat /\ DOMAIN order = 1..L /\ K \in Nat /\ DOMAIN readmitted = 1..K
        /\ DOMAIN order' = 1..Len(order')
    BY <2>2, <1>3, <1>4, SetOfSequence
  <2>4. \A i \in 1..L : order[i] \in ToSet(order)
    BY <2>3, Zenon DEF ToSet
  <2>5. \A k \in 1..K : readmitted[k] \in ToSet(readmitted)
    BY <2>3, Zenon DEF ToSet
  <2>6. \A i \in L + 1..L + K : i - L \in 1..K
    BY <2>3
  <2>7. \A i \in L + 1..L + K : order'[i] \in absent
    BY <2>2, <2>5, <2>6, <1>4
  <2> QED BY <2>2, <2>3, <2>4, <2>7, <1>4
<1>6. \A r \in Requests : /\ r \in absent => computed'[r] \in Hits
                          /\ r \notin absent => computed'[r] = computed[r]
                          /\ inputs'[r] = {} /\ sched'[r] = 0 /\ schedDrafts'[r] = 0
                          /\ computed[r] \in 0..MaxModelLen
  BY <1>0, <1>1, <1>3 DEF TypeOK
<1>7. \A h \in Hits : /\ h \in Nat /\ h % BlockSize = 0
                      /\ \A r \in Requests : h < PromptLen[r] /\ h < MaxModelLen
  <2>1. \A h \in Hits : h \in Nat /\ h % BlockSize = 0
    BY StepTokensAssumption
  <2>2. \A h \in Hits : \A r \in Requests : h < PromptLen[r]
    BY StepTokensAssumption
  <2> QED BY <2>1, <2>2, Constants
<1>8. \A r \in Requests : computed'[r] \in 0..MaxModelLen /\ computed'[r] \in Nat
  BY <1>6, <1>7, Constants
<1>9. TypeOK'
  <2>1. InCache' = InCache
    BY <1>1 DEF InCache, Used
  <2>2. computed' \in [Requests -> 0..MaxModelLen]
    BY <1>0, <1>8
  <2>3. turn' \in 1..Cardinality(Requests) + 1
    BY <1>1, Constants
  <2>4. /\ sched' \in [Requests -> 0..TokenBudget] /\ schedDrafts' \in [Requests -> 0..MaxDraft]
        /\ inputs' \in [Requests -> SUBSET Items]
        /\ budget' \in 0..TokenBudget /\ encBudget' \in 0..EncoderBudget
    BY <1>1, Constants
  <2>5. back' \subseteq ToSet(order')
    BY <1>1, <1>5
  <2> QED BY <1>1, <1>3, <1>5, <2>1, <2>2, <2>3, <2>4, <2>5 DEF TypeOK
<1>10. OrderInv'
  <2>1. ASSUME NEW i \in DOMAIN order', NEW j \in DOMAIN order', i < j, order'[i] \in absent
        PROVE  order'[j] \in absent
    <3>1. ~(i \in 1..L)
      BY <2>1, <1>5
    <3>2. j \in L + 1..L + K
      BY <3>1, <2>1, <1>5
    <3> QED BY <3>2, <1>5
  <2>2. ToSet(order') \cap finished = {}
    BY <1>3, <1>5
  <2> QED BY <1>1, <1>2, <2>1, <2>2 DEF OrderInv
<1>11. LengthInv'
  <2>1. LengthInv
    BY DEF IInv
  <2>2. Total(sched', Requests) = 0
    <3> DEFINE f == sched'
    <3>1. \A r \in Requests : f[r] = 0
      BY <1>6
    <3> HIDE DEF f
    <3>2. Total(f, Requests) = 0
      BY <3>1, Constants, TotalZero
    <3> QED BY <3>2 DEF f
  <2>3. budget' + Total(sched', Requests) = TokenBudget
    BY <2>2, <1>1, Constants
  <2>4. \A r \in Requests : computed'[r] + sched'[r] <= MaxModelLen
    BY <1>6, <1>8, Constants
  <2> QED BY <1>1, <1>2, <2>1, <2>3, <2>4 DEF LengthInv
<1>12. ComputedInv'
  <2> SUFFICES ASSUME NEW r \in Unfinished
               PROVE  /\ computed'[r] < tokens[r]
                      /\ drafts[r] > 0 => computed'[r] = tokens[r] - 1
                      /\ r \in ToSet(order')
                      /\ r \in absent => drafts[r] = 0
                      /\ schedDrafts'[r] = 0
    BY <1>1, <1>2 DEF ComputedInv
  <2>1. /\ r \in Requests /\ r \notin finished /\ tokens[r] \in Nat
        /\ PromptLen[r] <= tokens[r] /\ PromptLen[r] \in Nat /\ drafts[r] \in Nat
    <3>1. /\ r \in Requests /\ r \notin finished /\ tokens[r] \in 1..MaxModelLen
          /\ drafts[r] \in 0..MaxDraft /\ PromptLen[r] <= tokens[r]
      BY <1>3 DEF Unfinished, TypeOK, IInv, LengthInv
    <3> QED BY <3>1, Constants
  <2>2. /\ computed[r] < tokens[r]
        /\ drafts[r] > 0 => computed[r] = tokens[r] - 1
        /\ r \notin ToSet(order) => drafts[r] = 0
    BY <1>1 DEF IInv, ComputedInv
  <2>3. CASE r \in absent
    <3>1. computed'[r] \in Nat /\ computed'[r] < PromptLen[r]
      BY <2>1, <2>3, <1>6, <1>7
    <3> QED BY <3>1, <2>1, <2>2, <2>3, <1>5, <1>6
  <2>4. CASE r \notin absent
    BY <2>1, <2>2, <2>4, <1>5, <1>6
  <2> QED BY <2>3, <2>4
<1>13. MambaInv'
  <2>1. MambaInv
    BY DEF IInv
  <2> SUFFICES ASSUME config.mamba, NEW r \in Unfinished
               PROVE  StopsAtBlock(r, computed[r] + sched[r])'
    BY <1>1, <1>2 DEF MambaInv
  <2>2. r \in Requests /\ computed'[r] + sched'[r] = computed'[r]
    BY <1>6, <1>8 DEF Unfinished
  <2>3. CASE r \in absent
    <3>1. computed'[r] % BlockSize = 0
      BY <2>2, <2>3, <1>6, <1>7
    <3> QED BY <2>2, <3>1 DEF StopsAtBlock
  <2>4. CASE r \notin absent
    <3>1. computed'[r] = computed[r] /\ StopsAtBlock(r, computed[r])
      BY <2>1, <2>2, <2>4, <1>2, <1>6 DEF MambaInv
    <3> QED BY <2>2, <3>1, <1>1 DEF StopsAtBlock, LastCachePosition
  <2> QED BY <2>3, <2>4
<1>14. CacheInv'
  <2>1. CacheInv /\ InCache' = InCache /\ Features' = Features
    BY <1>1 DEF IInv, InCache, Used, Features
  <2>2. \A r \in Requests : ItemsOf(r)' = ItemsOf(r)
    BY <2>1 DEF ItemsOf
  <2>3. refs \in [Items -> SUBSET Requests]
    BY <1>3 DEF TypeOK
  <2>4. (SizeOf(InCache) <= config.cache)'
    BY <2>1, <1>1 DEF CacheInv, SizeOf
  <2> QED BY <1>1, <1>2, <1>6, <2>1, <2>2, <2>3, <2>4 DEF CacheInv
<1>15. EncoderBudgetInv'
  <2>1. Total(ToCompute', Requests) = 0
    <3> DEFINE f == ToCompute'
    <3>1. \A r \in Requests : f[r] = 0
      <4>1. SizeOf({}) = 0
        BY SizeFacts
      <4>2. \A r \in Requests : inputs'[r] \ RemoteItems = {}
        BY <1>6
      <4> QED BY <4>1, <4>2 DEF ToCompute, SizeOf
    <3> HIDE DEF f
    <3>2. Total(f, Requests) = 0
      BY <3>1, Constants, TotalZero
    <3> QED BY <3>2 DEF f
  <2>2. encBudget' + Total(ToCompute', Requests) <= EncoderBudget
    BY <2>1, <1>1, Constants
  <2> QED BY <2>2, <1>2 DEF EncoderBudgetInv
<1>16. FeaturesInv'
  <2>1. FeaturesInv /\ InCache' = InCache
    BY <1>1 DEF IInv, InCache, Used
  <2>2. InCache \subseteq encoded \cup takenBack
    BY <2>1, <1>2 DEF FeaturesInv
  <2>3. \A r \in Requests : inputs'[r] \cap RemoteItems \subseteq encoded'
    BY <1>6
  <2> QED BY <1>1, <1>2, <2>1, <2>2, <2>3 DEF FeaturesInv
<1> QED BY <1>9, <1>10, <1>11, <1>12, <1>13, <1>14, <1>15, <1>16 DEF IInv

\* A turn of the loop wants no more tokens than are missing, left, or fit the model.
LEMMA WantedFits ==
  ASSUME TypeOK, NEW r \in Requests, computed[r] < tokens[r], tokens[r] < MaxModelLen
  PROVE  /\ Wanted(r) \in Nat /\ Wanted(r) <= budget
         /\ computed[r] + Wanted(r) <= tokens[r] + drafts[r]
         /\ computed[r] + Wanted(r) < MaxModelLen
<1> DEFINE a == tokens[r] + drafts[r] - computed[r]
           b == MaxModelLen - 1 - computed[r]
           S == {a, Stride, budget, b}
           w == Wanted(r)
<1>1. /\ computed[r] \in Nat /\ tokens[r] \in Nat /\ drafts[r] \in Nat /\ budget \in Nat
      /\ MaxModelLen \in Nat
  BY Numbers, Constants
<1>2. Stride \in Nat
  <2>1. config.threshold \in Nat /\ TokenBudget \in Nat
    BY FeatureTypes, Constants
  <2> QED BY <2>1 DEF Stride, Least
<1>3. a \in Nat /\ b \in Nat
  BY <1>1
<1>4. w \in S /\ \A x \in S : w <= x
  <2>1. S \subseteq Nat /\ S # {}
    BY <1>1, <1>2, <1>3
  <2>2. w = Min(S)
    BY DEF Wanted
  <2> HIDE DEF S, w
  <2>3. \E m \in S : \A x \in S : m <= x
    BY <2>1, LeastNumber
  <2> QED BY <2>2, <2>3 DEF Min
<1>5. w \in Nat /\ w <= a /\ w <= budget /\ w <= b
  BY <1>1, <1>2, <1>3, <1>4
<1> HIDE DEF w
<1>6. computed[r] + w <= tokens[r] + drafts[r] /\ computed[r] + w < MaxModelLen
  BY <1>1, <1>5
<1> QED BY <1>5, <1>6 DEF w

\* The choice of num_new_tokens for the next request keeps it.
LEMMA PlanKeeps ==
  ASSUME IInv, PlanTurn
  PROVE  IInv'
<1> DEFINE r == order[turn]
<1>1. /\ pc = "turn" /\ pc' \in {"features", "align"} /\ turn <= Len(order)
      /\ (pc' = "features" <=> Wanted(r) # 0)
      /\ current' = r /\ numNew' = Wanted(r) /\ feat' = 1 /\ plan' = {}
      /\ encLeft' = encBudget /\ embeds' = 0
      /\ config' = config /\ computed' = computed /\ tokens' = tokens /\ drafts' = drafts
      /\ chunks' = chunks /\ finished' = finished /\ refs' = refs /\ freeable' = freeable
      /\ encoded' = encoded /\ takenBack' = takenBack /\ order' = order /\ back' = back
      /\ failuresLeft' = failuresLeft /\ turn' = turn
      /\ budget' = budget /\ encBudget' = encBudget /\ sched' = sched
      /\ schedDrafts' = schedDrafts /\ inputs' = inputs
  BY DEF PlanTurn, reqVars, cacheVars, queueVars, stepVars
<1>2. /\ Planning /\ Planning' /\ ~InTurn /\ InTurn' /\ Batch' = Batch
      /\ Unfinished' = Unfinished /\ InCache' = InCache /\ Features' = Features
      /\ pc # "update" /\ pc' # "update" /\ pc' # "drafts" /\ pc' # "idle"
  BY <1>1 DEF Planning, InTurn, Batch, Unfinished, InCache, Used, Features
<1>3. TypeOK /\ OrderInv /\ LengthInv /\ ComputedInv /\ MambaInv /\ CacheInv
      /\ EncoderBudgetInv /\ FeaturesInv
  BY DEF IInv
<1>4. /\ turn \in Nat /\ turn >= 1 /\ turn \in DOMAIN order /\ r \in Requests
      /\ r \in ToSet(order) /\ turn <= Cardinality(Requests)
      /\ IsInjective(order) /\ DOMAIN order = 1..Len(order) /\ Len(order) \in Nat
  <2>1. /\ turn \in Nat /\ turn >= 1 /\ Len(order) \in Nat /\ DOMAIN order = 1..Len(order)
        /\ \A i \in 1..Len(order) : order[i] \in Requests /\ order[i] \in ToSet(order)
        /\ Len(order) <= Cardinality(Requests) /\ IsInjective(order)
    BY <1>3, Numbers
  <2>2. Cardinality(Requests) \in Nat
    BY Constants
  <2>3. turn \in 1..Len(order)
    BY <2>1, <1>1
  <2> QED BY <2>1, <2>2, <2>3, <1>1
<1>5. r \in Unfinished /\ computed[r] < tokens[r] /\ tokens[r] < MaxModelLen
  <2>1. r \in Unfinished
    BY <1>1, <1>3, <1>4 DEF OrderInv, Unfinished
  <2>2. tokens[r] < Least(PromptLen[r] + MaxOutput[r], MaxModelLen) /\ tokens[r] \in Nat
    BY <2>1, <1>3, <1>4, Numbers DEF LengthInv
  <2>3. PromptLen[r] \in Nat /\ MaxOutput[r] \in Nat /\ MaxModelLen \in Nat
    BY <1>4, Constants
  <2>4. tokens[r] < MaxModelLen
    BY <2>2, <2>3 DEF Least
  <2> QED BY <2>1, <2>4, <1>1, <1>3 DEF ComputedInv
<1>6. /\ numNew' \in Nat /\ numNew' <= budget /\ numNew' <= TokenBudget
      /\ computed[r] + numNew' <= tokens[r] + drafts[r]
      /\ computed[r] + numNew' < MaxModelLen
  <2>1. budget \in Nat /\ budget <= TokenBudget /\ TokenBudget \in Nat
    BY <1>3, Numbers, Constants
  <2>2. /\ Wanted(r) \in Nat /\ Wanted(r) <= budget
        /\ computed[r] + Wanted(r) <= tokens[r] + drafts[r]
        /\ computed[r] + Wanted(r) < MaxModelLen
    BY <1>3, <1>4, <1>5, WantedFits
  <2> QED BY <2>1, <2>2, <1>1
<1>7. r \notin Batch /\ (r \notin back => Batch \cap back = {})
  <2>1. \A q \in Batch : \E i \in DOMAIN order : i < turn /\ order[i] = q
    BY <1>2, <1>3 DEF OrderInv
  <2>2. r \notin Batch
    <3>1. \A i \in DOMAIN order : order[i] = order[turn] => i = turn
      BY <1>4 DEF IsInjective
    <3> QED BY <2>1, <3>1, <1>4
  <2>3. ASSUME NEW q \in Batch, q \in back PROVE r \in back
    <3>1. PICK i \in DOMAIN order : i < turn /\ order[i] = q
      BY <2>1
    <3> QED BY <2>3, <3>1, <1>3, <1>4 DEF OrderInv
  <2> QED BY <2>2, <2>3
<1>8. TypeOK'
  <2>1. /\ numNew' \in 0..TokenBudget /\ embeds' \in 0..config.cache
        /\ encLeft' \in 0..EncoderBudget /\ feat' \in Nat /\ plan' \subseteq Items
    <3>1. config.cache \in Nat /\ TokenBudget \in Nat /\ encBudget \in 0..EncoderBudget
      BY <1>3, <1>4, FeatureTypes, Constants DEF TypeOK
    <3> QED BY <3>1, <1>1, <1>6, Constants
  <2> QED BY <1>1, <1>2, <1>3, <1>4, <2>1 DEF TypeOK
<1>9. OrderInv'
  <2>1. sched[r] = 0
    <3>1. sched[r] \in Nat
      BY <1>3, <1>4, Numbers
    <3> QED BY <3>1, <1>4, <1>7 DEF Batch
  <2>2. \E i \in DOMAIN order : i <= turn /\ order[i] = r
    BY <1>4
  <2> QED BY <2>1, <2>2, <1>1, <1>2, <1>3, <1>4, <1>7 DEF OrderInv
<1>10. LengthInv'
  BY <1>1, <1>2, <1>3, <1>6 DEF LengthInv
<1>11. ComputedInv'
  BY <1>1, <1>2, <1>3 DEF ComputedInv
<1>12. MambaInv'
  BY <1>1, <1>2, <1>3 DEF MambaInv, StopsAtBlock, LastCachePosition
<1>13. SizeOf({}) = 0 /\ SizeOf(InCache) \in Nat
  BY <1>3, CacheSets, SizeFacts
<1>14. CacheInv'
  <2>1. \A q \in Requests : ItemsOf(q)' = ItemsOf(q) /\ Held(q)' = Held(q)
    BY <1>1, <1>2 DEF ItemsOf, Held
  <2>2. (SizeOf(InCache) <= config.cache)'
    BY <1>1, <1>2, <1>3 DEF CacheInv, SizeOf
  <2>3. (SizeOf(InCache) + embeds <= config.cache)'
    <3>1. SizeOf(InCache)' = SizeOf(InCache) /\ SizeOf(InCache) <= config.cache
      BY <1>2, <1>3 DEF CacheInv, SizeOf
    <3> DEFINE u == SizeOf(InCache)
    <3>2. u + 0 <= config.cache
      <4>1. u \in Nat /\ u <= config.cache
        BY <1>13, <3>1
      <4> HIDE DEF u
      <4> QED BY <4>1
    <3> QED BY <3>1, <3>2, <1>1
  <2>4. (embeds = SizeOf(plan))'
    <3>1. SizeOf(plan)' = SizeOf({})
      BY <1>1 DEF SizeOf
    <3> QED BY <3>1, <1>1, <1>13
  <2>5. (plan \subseteq ItemsOf(current) /\ plan \cap InCache = {})'
    BY <1>1
  <2>6. refs \in [Items -> SUBSET Requests]
    BY <1>3 DEF TypeOK
  <2>7. \A i \in Items : \A q \in refs'[i] : i \in ItemsOf(q)'
    BY <1>1, <1>3, <2>1, <2>6 DEF CacheInv
  <2>8. \A q \in Requests : inputs'[q] \subseteq Held(q)' /\ (q \notin Batch' => inputs'[q] = {})
    BY <1>1, <1>2, <1>3, <2>1 DEF CacheInv
  <2>9. IsInjective(freeable)'
    BY <1>1, <1>3 DEF CacheInv
  <2> QED BY <2>2, <2>3, <2>4, <2>5, <2>7, <2>8, <2>9 DEF CacheInv
<1>15. EncoderBudgetInv'
  <2>1. ToCompute' = ToCompute
    BY <1>1 DEF ToCompute, SizeOf
  <2>2. encBudget' + Total(ToCompute', Requests) <= EncoderBudget
    BY <2>1, <1>1, <1>2, <1>3 DEF EncoderBudgetInv
  <2>3. (encLeft + SizeOf(plan \ RemoteItems) <= encBudget)'
    <3>1. SizeOf(plan \ RemoteItems)' = 0
      <4>1. (plan \ RemoteItems)' = {}
        BY <1>1
      <4> QED BY <4>1, <1>13 DEF SizeOf
    <3>2. encBudget \in Nat
      BY <1>3, Numbers
    <3>3. encBudget + 0 <= encBudget
      BY <3>2
    <3> QED BY <3>1, <3>3, <1>1
  <2> QED BY <2>2, <2>3 DEF EncoderBudgetInv
<1>16. FeaturesInv'
  <2>1. \A q \in Batch' : \A n \in DOMAIN Features'[q] :
          Needs(q, n, computed[q], computed[q] + sched[q])' => q \in refs'[Features'[q][n].item]
    <3>1. \A q \in Batch : \A n \in DOMAIN Features[q] :
            Needs(q, n, computed[q], computed[q] + sched[q]) => q \in refs[Features[q][n].item]
      BY <1>2, <1>3 DEF FeaturesInv
    <3> QED BY <3>1, <1>1, <1>2 DEF Needs
  <2>2. \A n \in DOMAIN Features'[current'] : ~(pc' = "features" => n < feat') \/ ~(numNew' > 0)
    <3>1. \A n \in DOMAIN Features[r] : n \in Nat /\ n >= 1
      <4>1. DOMAIN Features[r] = 1..Len(Features[r])
        BY <1>3, <1>4, FeatureTypes
      <4> QED BY <4>1
    <3>2. pc' # "features" => ~(numNew' > 0)
      BY <1>1
    <3>3. \A n \in DOMAIN Features[r] : ~(n < 1)
      BY <3>1
    <3> QED BY <3>2, <3>3, <1>1, <1>2
  <2>3. pc' = "features" => numNew' > 0 /\ feat' > 0
    BY <1>1, <1>6
  <2>4. InCache' \subseteq encoded' \cup takenBack' \cup UNION {inputs'[q] : q \in Requests}
    BY <1>1, <1>2, <1>3 DEF FeaturesInv
  <2>5. \A q \in Requests : inputs'[q] \cap RemoteItems \subseteq encoded'
    BY <1>1, <1>2, <1>3 DEF FeaturesInv
  <2> QED BY <2>1, <2>2, <2>3, <2>4, <2>5, <1>2 DEF FeaturesInv
<1> QED BY <1>8, <1>9, <1>10, <1>11, <1>12, <1>14, <1>15, <1>16 DEF IInv

\* Passing over a request that gets no tokens keeps it.
LEMMA PassKeeps ==
  ASSUME IInv, PassTurn
  PROVE  IInv'
<1>1. /\ pc = "align" /\ pc' \in {"turn", "end"} /\ turn' = turn + 1
      /\ current' = current /\ numNew' = numNew /\ feat' = feat /\ plan' = plan
      /\ encLeft' = encLeft /\ embeds' = embeds
      /\ config' = config /\ computed' = computed /\ tokens' = tokens /\ drafts' = drafts
      /\ chunks' = chunks /\ finished' = finished /\ refs' = refs /\ freeable' = freeable
      /\ encoded' = encoded /\ takenBack' = takenBack /\ order' = order /\ back' = back
      /\ failuresLeft' = failuresLeft
      /\ budget' = budget /\ encBudget' = encBudget /\ sched' = sched
      /\ schedDrafts' = schedDrafts /\ inputs' = inputs
  BY DEF PassTurn, reqVars, cacheVars, queueVars, featVars, stepVars
<1>2. /\ Planning /\ Planning' /\ InTurn /\ ~InTurn' /\ Batch' = Batch
      /\ Unfinished' = Unfinished /\ InCache' = InCache /\ Features' = Features
      /\ pc # "update" /\ pc' # "update" /\ pc' # "drafts" /\ pc' # "idle"
      /\ pc' # "features"
  BY <1>1 DEF Planning, InTurn, Batch, Unfinished, InCache, Used, Features
<1>3. TypeOK /\ OrderInv /\ LengthInv /\ ComputedInv /\ MambaInv /\ CacheInv
      /\ EncoderBudgetInv /\ FeaturesInv
  BY DEF IInv
<1>4. turn \in Nat /\ turn >= 1 /\ turn <= Cardinality(Requests) /\ DOMAIN order = 1..Len(order)
      /\ Len(order) \in Nat
  BY <1>2, <1>3, Numbers DEF OrderInv
<1>5. TypeOK'
  <2>1. turn' \in 1..Cardinality(Requests) + 1
    BY <1>1, <1>4, Constants
  <2> QED BY <1>1, <1>2, <1>3, <2>1 DEF TypeOK
<1>6. OrderInv'
  <2>1. \A r \in Batch : \E i \in DOMAIN order : i < turn + 1 /\ order[i] = r
    <3> SUFFICES ASSUME NEW r \in Batch
                 PROVE  \E i \in DOMAIN order : i < turn + 1 /\ order[i] = r
      OBVIOUS
    <3>1. PICK i \in DOMAIN order : i < turn /\ order[i] = r
      BY <1>2, <1>3 DEF OrderInv
    <3>2. i < turn + 1
      BY <3>1, <1>4
    <3> QED BY <3>1, <3>2
  <2> QED BY <1>1, <1>2, <1>3, <2>1 DEF OrderInv
<1>7. LengthInv' /\ ComputedInv'
  BY <1>1, <1>2, <1>3 DEF LengthInv, ComputedInv
<1>8. MambaInv'
  BY <1>1, <1>2, <1>3 DEF MambaInv, StopsAtBlock, LastCachePosition
<1>9. CacheInv'
  <2>1. \A q \in Requests : ItemsOf(q)' = ItemsOf(q) /\ Held(q)' = Held(q)
    BY <1>1, <1>2 DEF ItemsOf, Held
  <2>2. (SizeOf(InCache) <= config.cache)'
    BY <1>1, <1>2, <1>3 DEF CacheInv, SizeOf
  <2>3. refs \in [Items -> SUBSET Requests]
    BY <1>3 DEF TypeOK
  <2>4. \A i \in Items : \A q \in refs'[i] : i \in ItemsOf(q)'
    BY <1>1, <1>3, <2>1, <2>3 DEF CacheInv
  <2>5. \A q \in Requests : inputs'[q] \subseteq Held(q)' /\ (q \notin Batch' => inputs'[q] = {})
    BY <1>1, <1>2, <1>3, <2>1 DEF CacheInv
  <2>6. IsInjective(freeable)'
    BY <1>1, <1>3 DEF CacheInv
  <2> QED BY <2>2, <2>4, <2>5, <2>6, <1>2 DEF CacheInv
<1>10. EncoderBudgetInv'
  <2>1. ToCompute' = ToCompute
    BY <1>1 DEF ToCompute, SizeOf
  <2> QED BY <2>1, <1>1, <1>2, <1>3 DEF EncoderBudgetInv
<1>11. FeaturesInv'
  <2>1. \A q \in Batch' : \A n \in DOMAIN Features'[q] :
          Needs(q, n, computed[q], computed[q] + sched[q])' => q \in refs'[Features'[q][n].item]
    <3>1. \A q \in Batch : \A n \in DOMAIN Features[q] :
            Needs(q, n, computed[q], computed[q] + sched[q]) => q \in refs[Features[q][n].item]
      BY <1>2, <1>3 DEF FeaturesInv
    <3> QED BY <3>1, <1>1, <1>2 DEF Needs
  <2>2. InCache' \subseteq encoded' \cup takenBack' \cup UNION {inputs'[q] : q \in Requests}
    BY <1>1, <1>2, <1>3 DEF FeaturesInv
  <2>3. \A q \in Requests : inputs'[q] \cap RemoteItems \subseteq encoded'
    BY <1>1, <1>2, <1>3 DEF FeaturesInv
  <2> QED BY <2>1, <2>2, <2>3, <1>2 DEF FeaturesInv
<1> QED BY <1>5, <1>6, <1>7, <1>8, <1>9, <1>10, <1>11 DEF IInv

\* What one that stays out releases, nobody in the batch needs.
LEMMA StayOutKeeps ==
  ASSUME IInv, StayOut
  PROVE  IInv'
<1>1. /\ pc = "align" /\ pc' = "end" /\ failuresLeft > 0 /\ failuresLeft' = failuresLeft - 1
      /\ Release(current, Held(current))
      /\ current' = current /\ numNew' = numNew /\ feat' = feat /\ plan' = plan
      /\ encLeft' = encLeft /\ embeds' = embeds /\ turn' = turn
      /\ config' = config /\ computed' = computed /\ tokens' = tokens /\ drafts' = drafts
      /\ chunks' = chunks /\ finished' = finished
      /\ encoded' = encoded /\ takenBack' = takenBack /\ order' = order /\ back' = back
      /\ budget' = budget /\ encBudget' = encBudget /\ sched' = sched
      /\ schedDrafts' = schedDrafts /\ inputs' = inputs
  BY DEF StayOut, NoBlocks, reqVars, featVars, stepVars
<1>2. /\ Planning /\ Planning' /\ InTurn /\ ~InTurn' /\ Batch' = Batch
      /\ Unfinished' = Unfinished /\ Features' = Features
      /\ pc # "update" /\ pc' # "update" /\ pc' # "drafts" /\ pc' # "idle"
      /\ pc' # "features"
  BY <1>1 DEF Planning, InTurn, Batch, Unfinished, Features
<1>3. TypeOK /\ OrderInv /\ LengthInv /\ ComputedInv /\ MambaInv /\ CacheInv
      /\ EncoderBudgetInv /\ FeaturesInv
  BY DEF IInv
<1>4. current \in Requests /\ Held(current) \subseteq ItemsOf(current) /\ current \notin Batch
      /\ IsInjective(freeable)
  BY <1>2, <1>3, FreedItems DEF TypeOK, OrderInv, CacheInv, Batch
<1>5. /\ refs' \in [Items -> SUBSET Requests]
      /\ \A i \in Items : refs'[i] = IF i \in Held(current) THEN refs[i] \ {current} ELSE refs[i]
      /\ freeable' \in Seq(Items) /\ IsInjective(freeable')
      /\ \A i \in ToSet(freeable') : refs'[i] = {}
      /\ InCache' = InCache
  BY <1>1, <1>3, <1>4, ReleaseFacts
<1>6. TypeOK'
  <2>1. failuresLeft' \in 0..MaxFailures
    <3>1. failuresLeft \in 0..MaxFailures /\ MaxFailures \in Nat
      BY <1>3, Constants DEF TypeOK
    <3> QED BY <3>1, <1>1
  <2> QED BY <1>1, <1>3, <1>5, <2>1 DEF TypeOK
<1>7. OrderInv' /\ LengthInv' /\ ComputedInv'
  BY <1>1, <1>2, <1>3 DEF OrderInv, LengthInv, ComputedInv
<1>8. MambaInv'
  BY <1>1, <1>2, <1>3 DEF MambaInv, StopsAtBlock, LastCachePosition
<1>9. \A q \in Requests : /\ ItemsOf(q)' = ItemsOf(q)
                          /\ q # current => Held(q)' = Held(q)
                          /\ q # current => \A i \in Items : q \in refs[i] => q \in refs'[i]
  BY <1>2, <1>5 DEF ItemsOf, Held
<1>10. CacheInv'
  <2>2. (SizeOf(InCache) <= config.cache)'
    BY <1>1, <1>5, <1>3 DEF CacheInv, SizeOf
  <2>4. \A i \in Items : \A q \in refs'[i] : i \in ItemsOf(q)'
    <3>1. \A i \in Items : \A q \in refs'[i] : q \in Requests /\ q \in refs[i]
      BY <1>5
    <3> QED BY <3>1, <1>3, <1>9 DEF CacheInv
  <2>5. \A q \in Requests : inputs'[q] \subseteq Held(q)' /\ (q \notin Batch' => inputs'[q] = {})
    BY <1>1, <1>2, <1>3, <1>4, <1>9 DEF CacheInv
  <2> QED BY <2>2, <2>4, <2>5, <1>2, <1>5 DEF CacheInv
<1>11. EncoderBudgetInv'
  <2>1. ToCompute' = ToCompute
    BY <1>1 DEF ToCompute, SizeOf
  <2> QED BY <2>1, <1>1, <1>2, <1>3 DEF EncoderBudgetInv
<1>12. FeaturesInv'
  <2>1. \A q \in Batch' : \A n \in DOMAIN Features'[q] :
          Needs(q, n, computed[q], computed[q] + sched[q])' => q \in refs'[Features'[q][n].item]
    <3> SUFFICES ASSUME NEW q \in Batch, NEW n \in DOMAIN Features[q],
                        Needs(q, n, computed[q], computed[q] + sched[q])'
                 PROVE  q \in refs'[Features[q][n].item]
      BY <1>2
    <3>1. Needs(q, n, computed[q], computed[q] + sched[q])
      BY <1>1, <1>2 DEF Needs
    <3>2. q \in refs[Features[q][n].item]
      BY <3>1, <1>2, <1>3 DEF FeaturesInv
    <3>3. q \in Requests /\ q # current
      BY <1>4 DEF Batch
    <3>4. Features[q][n].item \in Items
      BY <3>3, <1>3, FeatureTypes
    <3> QED BY <3>2, <3>3, <3>4, <1>9
  <2>2. InCache' \subseteq encoded' \cup takenBack' \cup UNION {inputs'[q] : q \in Requests}
    BY <1>1, <1>2, <1>3, <1>5 DEF FeaturesInv
  <2>3. \A q \in Requests : inputs'[q] \cap RemoteItems \subseteq encoded'
    BY <1>1, <1>2, <1>3 DEF FeaturesInv
  <2> QED BY <2>1, <2>2, <2>3, <1>2 DEF FeaturesInv
<1> QED BY <1>6, <1>7, <1>8, <1>10, <1>11, <1>12 DEF IInv

\* Whole blocks from the start of a block end with a block.
LEMMA WholeBlocks ==
  ASSUME NEW b \in Nat \ {0}, NEW c \in Nat, NEW n \in Nat, c % b = 0
  PROVE  /\ n - (n % b) \in Nat /\ n - (n % b) <= n
         /\ (c + (n - (n % b))) % b = 0
<1>1. PICK q \in Nat : c = b * q
  <2>1. c = b * (c \div b) + (c % b) /\ c \div b \in Nat
    OBVIOUS
  <2> QED BY <2>1
<1>2. PICK p \in Nat : n = b * p + (n % b)
  <2>1. n = b * (n \div b) + (n % b) /\ n \div b \in Nat
    OBVIOUS
  <2> QED BY <2>1
<1>3. n % b \in Nat /\ n % b <= n
  <2>1. n % b \in 0..b - 1
    OBVIOUS
  <2>2. b * p \in Nat
    OBVIOUS
  <2> QED BY <2>1, <2>2, <1>2
<1>4. c + (n - (n % b)) = b * (q + p)
  <2>1. b * (q + p) = b * q + b * p /\ b * q \in Nat /\ b * p \in Nat
    OBVIOUS
  <2> QED BY <2>1, <1>1, <1>2, <1>3
<1>5. (b * (q + p)) % b = 0
  <2>1. \A k \in Nat : (b * k) % b = 0
    OBVIOUS
  <2>2. q + p \in Nat
    OBVIOUS
  <2> QED BY <2>1, <2>2
<1>6. (c + (n - (n % b))) % b = 0
  BY <1>4, <1>5, Zenon
<1>7. n - (n % b) \in Nat /\ n - (n % b) <= n
  BY <1>3
<1> QED BY <1>6, <1>7

\* _mamba_block_aligned_split takes tokens away, and stops a prefill at a block.
LEMMA AlignedFits ==
  ASSUME TypeOK, NEW r \in Requests, NEW n \in Nat
  PROVE  /\ Aligned(r, n) \in Nat /\ Aligned(r, n) <= n
         /\ config.mamba /\ StopsAtBlock(r, computed[r]) =>
              StopsAtBlock(r, computed[r] + Aligned(r, n))
<1> DEFINE c == computed[r]
           last == LastCachePosition(r)
           top == Most(PromptLen[r], tokens[r] - 1)
           a == Aligned(r, n)
           m == n - (n % BlockSize)
<1>1. /\ c \in Nat /\ tokens[r] \in Nat /\ PromptLen[r] \in Nat /\ BlockSize \in Nat \ {0}
      /\ config.mamba \in BOOLEAN
  BY Numbers, Constants, FeatureTypes
<1>2. last \in Int
  <2> DEFINE t == tokens[r]
             rest == t % BlockSize
  <2>1. rest \in Int
    <3>1. t \in Nat
      BY <1>1
    <3> HIDE DEF t
    <3> QED BY <3>1, <1>1
  <2>2. t - rest \in Int /\ last = IF config.eagle THEN Most((t - rest) - BlockSize, 0)
                                   ELSE t - rest
    BY <1>1, <2>1 DEF LastCachePosition
  <2> HIDE DEF t, rest
  <2> QED BY <2>2, <1>1 DEF Most
<1>3. top \in Nat
  BY <1>1 DEF Most
<1>4. a = IF ~config.mamba \/ ~(c < top) THEN n
          ELSE IF c + n < last THEN m
          ELSE IF c < last THEN last - c ELSE n
  BY DEF Aligned, InPrefill
<1>5. \A p : StopsAtBlock(r, p) <=> (p < top /\ p < last => p % BlockSize = 0)
  BY DEF StopsAtBlock
<1>6. m \in Nat /\ m <= n /\ (c % BlockSize = 0 => (c + m) % BlockSize = 0)
  <2>1. n % BlockSize \in 0..BlockSize - 1 /\ n % BlockSize <= n
    <3>1. n = BlockSize * (n \div BlockSize) + (n % BlockSize) /\ n \div BlockSize \in Nat
          /\ n % BlockSize \in 0..BlockSize - 1
      BY <1>1
    <3>2. BlockSize * (n \div BlockSize) \in Nat
      BY <3>1, <1>1
    <3> QED BY <3>1, <3>2
  <2>2. m \in Nat /\ m <= n
    BY <2>1, <1>1
  <2> HIDE DEF c
  <2>3. c % BlockSize = 0 => (c + m) % BlockSize = 0
    BY <1>1, WholeBlocks
  <2> QED BY <2>2, <2>3 DEF c
<1> HIDE DEF c, last, top, a, m
<1>7. CASE ~config.mamba \/ ~(c < top)
  <2>1. a = n /\ (config.mamba => ~(c + a < top))
    BY <1>1, <1>3, <1>4, <1>7
  <2> QED BY <2>1, <1>5 DEF a, c
<1>8. CASE config.mamba /\ c < top /\ c + n < last
  <2>1. a = m /\ c < last
    BY <1>1, <1>2, <1>4, <1>8
  <2>2. StopsAtBlock(r, c) => StopsAtBlock(r, c + a)
    BY <2>1, <1>5, <1>6, <1>8
  <2> QED BY <2>1, <2>2, <1>6 DEF a, c
<1>9. CASE config.mamba /\ c < top /\ ~(c + n < last) /\ c < last
  <2>1. a = last - c /\ a \in Nat /\ a <= n /\ ~(c + a < last)
    BY <1>1, <1>2, <1>4, <1>9
  <2> QED BY <2>1, <1>5 DEF a, c
<1>10. CASE config.mamba /\ c < top /\ ~(c + n < last) /\ ~(c < last)
  <2>1. a = n /\ ~(c + a < last)
    BY <1>1, <1>2, <1>4, <1>10
  <2> QED BY <2>1, <1>5 DEF a, c
<1> QED BY <1>7, <1>8, <1>9, <1>10

\* A sum over the requests of which one changes.
LEMMA RequestTotal ==
  ASSUME NEW f, NEW g, NEW r \in Requests,
         \A q \in Requests : f[q] \in Int /\ g[q] \in Int,
         \A q \in Requests : q # r => g[q] = f[q]
  PROVE  /\ Total(f, Requests) \in Int /\ Total(g, Requests) \in Int
         /\ Total(g, Requests) = Total(f, Requests) - f[r] + g[r]
<1>1. IsFiniteSet(Requests)
  BY Constants
<1>2. /\ \A q \in Requests : f[q] \in Int /\ g[q] \in Int
      /\ \A q \in Requests : q # r => g[q] = f[q]
  OBVIOUS
<1>3. /\ Total(f, Requests) \in Int /\ Total(f, Requests) = Total(f, Requests \ {r}) + f[r]
      /\ Total(g, Requests) \in Int /\ Total(g, Requests) = Total(g, Requests \ {r}) + g[r]
  BY <1>1, <1>2, TotalRemove
<1>4. Total(f, Requests \ {r}) = Total(g, Requests \ {r}) /\ Total(f, Requests \ {r}) \in Int
  <2> DEFINE S == Requests \ {r}
  <2>1. IsFiniteSet(S) /\ \A q \in S : f[q] = g[q] /\ f[q] \in Int
    BY <1>1, <1>2, FS_RemoveElement
  <2> HIDE DEF S
  <2>2. Total(f, S) = Total(g, S)
    BY <2>1, TotalAgree
  <2>3. Total(f, S) \in Int
    BY <2>1, TotalRemove
  <2> QED BY <2>2, <2>3 DEF S
<1>5. f[r] \in Int /\ g[r] \in Int
  BY <1>2
<1> QED BY <1>3, <1>4, <1>5

\* The current request joins the batch with the tokens and inputs planned for it.
LEMMA ScheduleKeeps ==
  ASSUME IInv, ScheduleTurn
  PROVE  IInv'
<1> DEFINE r == current
           n == Aligned(current, numNew)
<1>1. /\ pc = "align" /\ n > 0 /\ pc' = "turn" /\ turn' = turn + 1
      /\ sched' = [sched EXCEPT ![r] = n]
      /\ schedDrafts' = [schedDrafts EXCEPT ![r] = DraftsIn(r, n)]
      /\ inputs' = [inputs EXCEPT ![r] = plan]
      /\ drafts' = [drafts EXCEPT ![r] = 0]
      /\ budget' = budget - n
      /\ encBudget' = IF plan \subseteq RemoteItems THEN encBudget ELSE encLeft
      /\ refs' = [i \in Items |-> IF i \in plan THEN refs[i] \cup {r} ELSE refs[i]]
      /\ encoded' = encoded \cup (plan \cap RemoteItems)
      /\ config' = config /\ computed' = computed /\ tokens' = tokens /\ chunks' = chunks
      /\ finished' = finished /\ freeable' = freeable /\ takenBack' = takenBack
      /\ order' = order /\ back' = back /\ failuresLeft' = failuresLeft
      /\ current' = current /\ numNew' = numNew /\ feat' = feat /\ plan' = plan
      /\ encLeft' = encLeft /\ embeds' = embeds
  BY DEF ScheduleTurn, queueVars, featVars
<1>2. /\ Planning /\ Planning' /\ InTurn /\ ~InTurn'
      /\ Unfinished' = Unfinished /\ Features' = Features
      /\ pc # "update" /\ pc' # "update" /\ pc' # "drafts" /\ pc' # "idle"
      /\ pc' # "features" /\ pc # "features"
  BY <1>1 DEF Planning, InTurn, Unfinished, Features
<1>3. TypeOK /\ OrderInv /\ LengthInv /\ ComputedInv /\ MambaInv /\ CacheInv
      /\ EncoderBudgetInv /\ FeaturesInv
  BY DEF IInv
<1>4. /\ r \in Requests /\ r \notin Batch /\ sched[r] = 0 /\ r \in Unfinished
      /\ turn \in Nat /\ turn >= 1 /\ turn <= Cardinality(Requests)
      /\ \E i \in DOMAIN order : i <= turn /\ order[i] = r
  <2>1. /\ \E i \in DOMAIN order : i <= turn /\ order[i] = r
        /\ sched[r] = 0 /\ turn <= Cardinality(Requests) /\ ToSet(order) \cap finished = {}
    BY <1>2, <1>3 DEF OrderInv
  <2>2. r \in ToSet(order)
    BY <2>1, Zenon DEF ToSet
  <2>3. r \in Requests /\ turn \in Nat /\ turn >= 1
    BY <1>3, Numbers
  <2> QED BY <2>1, <2>2, <2>3 DEF Unfinished, Batch
<1>5. /\ computed[r] \in Nat /\ tokens[r] \in Nat /\ drafts[r] \in Nat /\ drafts[r] <= MaxDraft
      /\ numNew \in Nat /\ numNew <= budget /\ budget \in Nat /\ budget <= TokenBudget
      /\ computed[r] + numNew <= tokens[r] + drafts[r]
      /\ computed[r] + numNew < MaxModelLen /\ computed[r] < tokens[r]
      /\ TokenBudget \in Nat /\ MaxModelLen \in Nat /\ MaxDraft \in Nat
  BY <1>2, <1>3, <1>4, Numbers, Constants DEF LengthInv, ComputedInv
<1>6. n \in Nat /\ n <= numNew
  BY <1>3, <1>4, <1>5, AlignedFits
<1>7. config.mamba => StopsAtBlock(r, computed[r] + n)
  <2>1. config.mamba => StopsAtBlock(r, computed[r] + sched[r]) /\ computed[r] + sched[r] = computed[r]
    BY <1>2, <1>3, <1>4, <1>5 DEF MambaInv
  <2> QED BY <2>1, <1>3, <1>4, <1>5, AlignedFits
<1>8. /\ sched'[r] = n /\ inputs'[r] = plan /\ drafts'[r] = 0 /\ schedDrafts'[r] = DraftsIn(r, n)
      /\ \A q \in Requests : q # r => /\ sched'[q] = sched[q] /\ inputs'[q] = inputs[q]
                                      /\ drafts'[q] = drafts[q]
                                      /\ schedDrafts'[q] = schedDrafts[q]
  BY <1>1, <1>3, <1>4 DEF TypeOK
<1> HIDE DEF n
<1>9. Batch' = Batch \cup {r}
  <2>1. \A q \in Requests : sched'[q] > 0 <=> (sched[q] > 0 \/ q = r)
    BY <1>1, <1>4, <1>8
  <2> QED BY <2>1, <1>4 DEF Batch
<1>10. /\ DraftsIn(r, n) = Most(0, computed[r] + n - tokens[r])
       /\ DraftsIn(r, n) \in 0..MaxDraft
  BY <1>5, <1>6 DEF DraftsIn, Least, Most
\* The plan moves into the cache.
<1>11. /\ plan \subseteq Items /\ plan \subseteq ItemsOf(r) /\ plan \cap InCache = {}
       /\ refs \in [Items -> SUBSET Requests] /\ refs' \in [Items -> SUBSET Requests]
       /\ \A i \in Items : refs'[i] = IF i \in plan THEN refs[i] \cup {r} ELSE refs[i]
       /\ ToSet(freeable) \subseteq InCache
       /\ InCache \subseteq Items /\ inputs[r] = {}
  <2>1. plan \subseteq Items /\ refs \in [Items -> SUBSET Requests]
    BY <1>3 DEF TypeOK
  <2>2. plan \subseteq ItemsOf(r) /\ plan \cap InCache = {} /\ inputs[r] = {}
    BY <1>2, <1>3, <1>4 DEF CacheInv
  <2> QED BY <2>1, <2>2, <1>1, <1>3, <1>4, CacheSets DEF InCache
<1>12. InCache' = InCache \cup plan
  <2>1. Used' = Used \cup plan
    BY <1>11 DEF Used
  <2> QED BY <2>1, <1>1 DEF InCache
<1>13. TypeOK'
  <2>1. turn' \in 1..Cardinality(Requests) + 1
    BY <1>1, <1>4, Constants
  <2>2. budget' \in 0..TokenBudget /\ n \in 0..TokenBudget
    BY <1>1, <1>5, <1>6
  <2>3. encBudget' \in 0..EncoderBudget
    BY <1>1, <1>3 DEF TypeOK
  <2>4. sched' \in [Requests -> 0..TokenBudget] /\ schedDrafts' \in [Requests -> 0..MaxDraft]
        /\ inputs' \in [Requests -> SUBSET Items] /\ drafts' \in [Requests -> 0..MaxDraft]
    <3>1. /\ sched \in [Requests -> 0..TokenBudget] /\ inputs \in [Requests -> SUBSET Items]
          /\ drafts \in [Requests -> 0..MaxDraft] /\ schedDrafts \in [Requests -> 0..MaxDraft]
      BY <1>3 DEF TypeOK
    <3>2. 0 \in 0..MaxDraft
      BY <1>5
    <3> QED BY <3>1, <3>2, <2>2, <1>1, <1>10, <1>11
  <2>5. \A i \in ToSet(freeable') : refs'[i] = {}
    BY <1>1, <1>3, <1>11 DEF TypeOK
  <2>6. encoded' \cup takenBack' \subseteq InCache'
    BY <1>1, <1>3, <1>12 DEF TypeOK
  <2> QED BY <2>1, <2>2, <2>3, <2>4, <2>5, <2>6, <1>1, <1>3, <1>11 DEF TypeOK
<1>14. OrderInv'
  <2>1. \A q \in Batch' : \E i \in DOMAIN order : i < turn + 1 /\ order[i] = q
    <3> SUFFICES ASSUME NEW q \in Batch'
                 PROVE  \E i \in DOMAIN order : i < turn + 1 /\ order[i] = q
      OBVIOUS
    <3>1. \A i \in DOMAIN order : i \in Nat
      BY <1>3, Numbers
    <3>2. \E i \in DOMAIN order : i <= turn /\ order[i] = q
      <4>1. CASE q = r
        BY <4>1, <1>4
      <4>2. CASE q \in Batch
        <5>1. PICK i \in DOMAIN order : i < turn /\ order[i] = q
          BY <4>2, <1>2, <1>3 DEF OrderInv
        <5>2. i <= turn
          BY <5>1, <3>1, <1>4
        <5> QED BY <5>1, <5>2
      <4> QED BY <4>1, <4>2, <1>9
    <3>3. \A i \in DOMAIN order : i <= turn => i < turn + 1
      BY <3>1, <1>4
    <3> QED BY <3>2, <3>3
  <2> QED BY <2>1, <1>1, <1>2, <1>3 DEF OrderInv
<1>15. LengthInv'
  <2>1. Total(sched', Requests) = Total(sched, Requests) + n /\ Total(sched, Requests) \in Int
    <3> DEFINE f == sched
               g == sched'
    <3>1. /\ \A q \in Requests : f[q] \in Int /\ g[q] \in Int
          /\ \A q \in Requests : q # r => g[q] = f[q]
      <4>1. \A q \in Requests : f[q] \in Nat
        BY <1>3, Numbers
      <4> QED BY <4>1, <1>6, <1>8
    <3>2. g[r] = n /\ f[r] = 0
      BY <1>4, <1>8
    <3> HIDE DEF f, g
    <3>3. Total(f, Requests) \in Int /\ Total(g, Requests) = Total(f, Requests) - f[r] + g[r]
      BY <3>1, <1>4, RequestTotal
    <3>4. Total(g, Requests) = Total(f, Requests) + n
      BY <3>2, <3>3, <1>6
    <3> QED BY <3>3, <3>4 DEF f, g
  <2>2. budget' + Total(sched', Requests) = TokenBudget
    <3>1. budget + Total(sched, Requests) = TokenBudget
      BY <1>2, <1>3 DEF LengthInv
    <3> QED BY <2>1, <3>1, <1>1, <1>5, <1>6
  <2>3. \A q \in Requests : computed'[q] + sched'[q] <= MaxModelLen
    <3> SUFFICES ASSUME NEW q \in Requests PROVE computed'[q] + sched'[q] <= MaxModelLen
      OBVIOUS
    <3>1. CASE q = r
      BY <3>1, <1>1, <1>5, <1>6, <1>8
    <3>2. CASE q # r
      BY <3>2, <1>1, <1>2, <1>3, <1>8 DEF LengthInv
    <3> QED BY <3>1, <3>2
  <2> QED BY <2>2, <2>3, <1>1, <1>2, <1>3 DEF LengthInv
<1>16. ComputedInv'
  <2> SUFFICES ASSUME NEW q \in Unfinished
               PROVE  /\ computed[q] < tokens[q]
                      /\ drafts'[q] > 0 => computed[q] = tokens[q] - 1
                      /\ q \notin ToSet(order) \/ (q \in back /\ q \notin Batch') => drafts'[q] = 0
                      /\ q \in Batch' => drafts'[q] = 0
                      /\ schedDrafts'[q] = IF q \in Batch'
                                           THEN Most(0, computed[q] + sched'[q] - tokens[q]) ELSE 0
    BY <1>1, <1>2 DEF ComputedInv
  <2>1. CASE q = r
    BY <2>1, <1>5, <1>8, <1>9, <1>10
  <2>2. CASE q # r
    <3>1. /\ drafts'[q] = drafts[q] /\ sched'[q] = sched[q] /\ schedDrafts'[q] = schedDrafts[q]
          /\ (q \in Batch' <=> q \in Batch)
      BY <2>2, <1>8, <1>9 DEF Unfinished
    <3> QED BY <3>1, <1>2, <1>3 DEF ComputedInv
  <2> QED BY <2>1, <2>2
<1>17. MambaInv'
  <2> SUFFICES ASSUME config.mamba, NEW q \in Unfinished
               PROVE  StopsAtBlock(q, computed[q] + sched'[q])
    BY <1>1, <1>2 DEF MambaInv, StopsAtBlock, LastCachePosition
  <2>1. CASE q = r
    BY <2>1, <1>7, <1>8
  <2>2. CASE q # r
    BY <2>2, <1>2, <1>3, <1>8 DEF MambaInv, Unfinished
  <2> QED BY <2>1, <2>2
<1>18. \A q \in Requests : ItemsOf(q)' = ItemsOf(q) /\ Held(q) \subseteq Held(q)'
  BY <1>2, <1>11 DEF ItemsOf, Held
<1>19. CacheInv'
  <2>1. SizeOf(InCache') <= config.cache
    <3>1. SizeOf(InCache \cup plan) = SizeOf(InCache) + SizeOf(plan)
      BY <1>11, SizeFacts
    <3>2. SizeOf(InCache) + SizeOf(plan) <= config.cache
      BY <1>2, <1>3 DEF CacheInv
    <3> QED BY <3>1, <3>2, <1>12
  <2>2. (SizeOf(InCache) <= config.cache)'
    BY <2>1, <1>1 DEF SizeOf
  <2>3. \A i \in Items : \A q \in refs'[i] : i \in ItemsOf(q)'
    <3> SUFFICES ASSUME NEW i \in Items, NEW q \in refs'[i] PROVE i \in ItemsOf(q)'
      OBVIOUS
    <3>1. q \in Requests
      BY <1>11
    <3>2. q \in refs[i] \/ (q = r /\ i \in plan)
      BY <1>11
    <3> QED BY <3>1, <3>2, <1>3, <1>11, <1>18 DEF CacheInv
  <2>4. \A q \in Requests : inputs'[q] \subseteq Held(q)' /\ (q \notin Batch' => inputs'[q] = {})
    <3> SUFFICES ASSUME NEW q \in Requests
                 PROVE  inputs'[q] \subseteq Held(q)' /\ (q \notin Batch' => inputs'[q] = {})
      OBVIOUS
    <3>1. CASE q = r
      BY <3>1, <1>8, <1>9, <1>11 DEF Held
    <3>2. CASE q # r
      BY <3>2, <1>2, <1>3, <1>8, <1>9, <1>18 DEF CacheInv
    <3> QED BY <3>1, <3>2
  <2>5. IsInjective(freeable)'
    BY <1>1, <1>3 DEF CacheInv
  <2> QED BY <2>2, <2>3, <2>4, <2>5, <1>2 DEF CacheInv
<1>20. EncoderBudgetInv'
  <2> DEFINE f == ToCompute
             g == ToCompute'
             p == SizeOf(plan \ RemoteItems)
  <2>1. /\ \A q \in Requests : f[q] \in Int /\ g[q] \in Int
        /\ \A q \in Requests : q # r => g[q] = f[q]
        /\ f[r] = 0 /\ g[r] = p /\ p \in Nat
    <3>1. \A q \in Requests : f[q] = SizeOf(inputs[q] \ RemoteItems)
      BY DEF ToCompute
    <3>2. \A q \in Requests : g[q] = SizeOf(inputs'[q] \ RemoteItems)
      BY DEF ToCompute, SizeOf
    <3>3. \A A \in SUBSET Items : SizeOf(A) \in Nat
      BY SizeFacts
    <3>4. f[r] = 0
      <4>1. inputs[r] \ RemoteItems = {}
        BY <1>11
      <4> QED BY <4>1, <3>1, <1>4, SizeFacts
    <3>5. g[r] = p
      BY <3>2, <1>4, <1>8
    <3>6. \A q \in Requests : inputs[q] \ RemoteItems \in SUBSET Items
      BY <1>3, Numbers
    <3>7. \A q \in Requests : f[q] \in Nat
      BY <3>1, <3>3, <3>6
    <3>8. p \in Nat
      BY <3>3, <1>11
    <3>9. \A q \in Requests : q # r => g[q] = f[q]
      BY <3>1, <3>2, <1>8
    <3> HIDE DEF f, g, p
    <3> QED BY <3>4, <3>5, <3>7, <3>8, <3>9
  <2>2. encBudget' \in Nat /\ encBudget' + p <= encBudget
    <3>1. encLeft + p <= encBudget /\ encLeft \in Nat /\ encBudget \in Nat
      BY <1>2, <1>3, Numbers DEF EncoderBudgetInv
    <3>2. CASE plan \subseteq RemoteItems
      <4>1. plan \ RemoteItems = {}
        BY <3>2
      <4>2. p = 0
        BY <4>1, SizeFacts
      <4> QED BY <4>2, <3>1, <3>2, <1>1
    <3>3. CASE ~(plan \subseteq RemoteItems)
      BY <3>1, <3>3, <1>1
    <3> QED BY <3>2, <3>3
  <2>3. encBudget + Total(f, Requests) <= EncoderBudget /\ encBudget \in Nat
        /\ EncoderBudget \in Nat
    BY <1>2, <1>3, Numbers, Constants DEF EncoderBudgetInv
  <2>4. encBudget' + Total(g, Requests) <= EncoderBudget
    <3> HIDE DEF f, g, p
    <3>1. Total(f, Requests) \in Int /\ Total(g, Requests) = Total(f, Requests) - f[r] + g[r]
      BY <2>1, <1>4, RequestTotal
    <3>2. Total(g, Requests) = Total(f, Requests) + p
      <4>1. f[r] = 0 /\ g[r] = p /\ p \in Nat
        BY <2>1
      <4> QED BY <3>1, <4>1
    <3> DEFINE u == Total(f, Requests)
               v == Total(g, Requests)
    <3>3. u \in Int /\ v = u + p /\ p \in Nat /\ encBudget + u <= EncoderBudget
      BY <2>1, <2>3, <3>1, <3>2
    <3> HIDE DEF u, v
    <3>4. encBudget' + (u + p) <= EncoderBudget
      <4>1. encBudget' \in Nat /\ encBudget' + p <= encBudget /\ encBudget \in Nat
            /\ EncoderBudget \in Nat
        BY <2>2, <2>3
      <4>2. u \in Int /\ p \in Nat /\ encBudget + u <= EncoderBudget
        BY <3>3
      <4>3. \A a, b, c, d, e \in Int : a + d <= b /\ b + c <= e => a + (c + d) <= e
        OBVIOUS
      <4>4. /\ encBudget' \in Int /\ encBudget \in Int /\ u \in Int /\ p \in Int
            /\ EncoderBudget \in Int
        BY <4>1, <4>2
      <4> QED BY ONLY <4>1, <4>2, <4>3, <4>4
    <3>5. encBudget' + v <= EncoderBudget
      BY <3>3, <3>4
    <3> QED BY <3>5 DEF g, v
  <2> QED BY <2>4, <1>2 DEF EncoderBudgetInv
<1>21. FeaturesInv'
  <2>1. \A q \in Batch' : \A m \in DOMAIN Features'[q] :
          Needs(q, m, computed[q], computed[q] + sched[q])' => q \in refs'[Features'[q][m].item]
    <3> SUFFICES ASSUME NEW q \in Batch', NEW m \in DOMAIN Features[q],
                        Needs(q, m, computed[q], computed[q] + sched'[q])
                 PROVE  q \in refs'[Features[q][m].item]
      BY <1>1, <1>2 DEF Needs
    <3>1. q \in Requests
      BY <1>4, <1>9 DEF Batch
    <3>2. Features[q][m].item \in Items /\ Features[q][m].start \in Nat
      BY <3>1, <1>3, FeatureTypes
    <3>3. CASE q = r
      <4>1. Needs(r, m, computed[r], ChunkEnd)
        <5>1. /\ Features[r][m].start < computed[r] + n
              /\ computed[r] < Features[r][m].start + Size[Features[r][m].item]
          BY <3>3, <1>8 DEF Needs
        <5>2. Features[r][m].start < computed[r] + numNew
          BY <3>2, <3>3, <5>1, <1>5, <1>6
        <5> QED BY <5>1, <5>2 DEF Needs, ChunkEnd
      <4>2. Features[r][m].item \in plan \/ r \in refs[Features[r][m].item]
        <5>1. numNew > 0
          BY <1>1, <1>5, <1>6
        <5> QED BY <4>1, <5>1, <3>3, <1>2, <1>3 DEF FeaturesInv
      <4> QED BY <4>2, <3>2, <3>3, <1>11
    <3>4. CASE q # r
      <4>1. q \in Batch /\ sched'[q] = sched[q]
        BY <3>1, <3>4, <1>8, <1>9
      <4>2. q \in refs[Features[q][m].item]
        BY <4>1, <1>2, <1>3 DEF FeaturesInv
      <4> QED BY <4>2, <3>2, <1>11
    <3> QED BY <3>3, <3>4
  <2>2. \A q \in Requests : inputs[q] \subseteq inputs'[q]
    BY <1>8, <1>11
  <2>3. InCache' \subseteq encoded' \cup takenBack' \cup UNION {inputs'[q] : q \in Requests}
    <3>1. InCache \subseteq encoded \cup takenBack \cup UNION {inputs[q] : q \in Requests}
      BY <1>2, <1>3 DEF FeaturesInv
    <3>2. plan \subseteq UNION {inputs'[q] : q \in Requests}
      BY <1>4, <1>8
    <3>3. UNION {inputs[q] : q \in Requests} \subseteq UNION {inputs'[q] : q \in Requests}
      BY <2>2
    <3> QED BY <3>1, <3>2, <3>3, <1>1, <1>12
  <2>4. \A q \in Requests : inputs'[q] \cap RemoteItems \subseteq encoded'
    <3>1. \A q \in Requests : inputs[q] \cap RemoteItems \subseteq encoded
      BY <1>2, <1>3 DEF FeaturesInv
    <3> QED BY <3>1, <1>1, <1>8
  <2> QED BY <2>1, <2>3, <2>4, <1>2 DEF FeaturesInv
<1> QED BY <1>13, <1>14, <1>15, <1>16, <1>17, <1>19, <1>20, <1>21 DEF IInv

\* There is a running request to preempt, though not one of those just readmitted.
LEMMA VictimRuns ==
  ASSUME TypeOK, NEW r \in ToSet(order), r \notin back
  PROVE  Victim \in ToSet(order) /\ Victim \notin back /\ Victim \in Requests
<1> DEFINE running == Sift(order, Requests \ back)
           S == ToSet(running)
<1>1. order \in Seq(Requests) /\ ToSet(order) \subseteq Requests
  BY Numbers
<1>2. running \in Seq(Requests) /\ S = ToSet(order) \ back
  <2>1. running \in Seq(Requests) /\ S = ToSet(order) \cap (Requests \ back)
    BY <1>1, SiftSet
  <2> QED BY <1>1, <2>1
<1>3. Victim = IF config.priority THEN CHOOSE q \in S : \A p \in S : Rank[p] <= Rank[q]
               ELSE Last(running)
  BY DEF Victim
<1> HIDE DEF running
<1>4. Len(running) \in Nat /\ DOMAIN running = 1..Len(running)
  BY <1>2, SetOfSequence
<1>5. S # {} /\ S \subseteq Requests
  BY <1>1, <1>2
<1>6. CASE config.priority
  <2>1. IsFiniteSet(S) /\ \A q \in S : Rank[q] \in Int
    BY <1>5, Constants, FS_Subset
  <2> HIDE DEF S
  <2>2. \E q \in S : \A p \in S : Rank[p] <= Rank[q]
    BY <1>5, <2>1, GreatestValue
  <2>3. Victim \in S
    BY <1>3, <1>6, <2>2
  <2> QED BY <2>3, <1>2, <1>5
<1>7. CASE ~config.priority
  <2>1. Len(running) # 0
    <3>1. Len(running) = 0 => 1..Len(running) = {}
      BY <1>4
    <3> QED BY <3>1, <1>4, <1>5 DEF ToSet
  <2>2. Len(running) \in DOMAIN running
    BY <2>1, <1>4
  <2>3. Victim = running[Len(running)]
    BY <1>3, <1>7 DEF Last
  <2>4. Victim \in S
    BY <2>2, <2>3, Zenon DEF ToSet
  <2> QED BY <2>4, <1>2, <1>5
<1> QED BY <1>6, <1>7

\* Where the others are when a victim leaves the queue: the turn moves up with them
\* if it was behind the victim.
LEMMA PreemptMoves ==
  ASSUME TypeOK, NEW v \in Requests, NEW q \in ToSet(order), q # v, q \notin back,
         NEW i \in DOMAIN order, order[i] = q
  PROVE  LET rest == Sift(order, Requests \ (back \cup {v})) IN
         \E k \in DOMAIN rest :
           /\ rest[k] = q /\ k \in Nat /\ i \in Nat /\ k <= i
           /\ \A j \in DOMAIN order : order[j] = v /\ j < i => k < i
<1> DEFINE S == Requests \ (back \cup {v})
           rest == Sift(order, S)
<1>1. /\ order \in Seq(Requests) /\ DOMAIN order = 1..Len(order) /\ Len(order) \in Nat
      /\ q \in S /\ v \notin S
  BY Numbers
<1> HIDE DEF S
<1>2. PICK e : Places(e, rest, order, S, Len(order))
  BY <1>1, SiftPlaces
<1>3. rest \in Seq(Requests) /\ DOMAIN rest = 1..Len(rest) /\ Len(rest) \in Nat
  <2>1. rest \in Seq(Requests)
    BY <1>1, SiftPlaces
  <2> HIDE DEF rest
  <2> QED BY <2>1, SetOfSequence
<1> HIDE DEF rest
<1>4. PICK k \in 1..Len(rest) : e[k] = i
  BY <1>1, <1>2 DEF Places
<1>5. rest[k] = q /\ k <= i
  BY <1>2, <1>4 DEF Places
<1>6. \A j \in DOMAIN order : order[j] = v /\ j < i => k < i
  <2> SUFFICES ASSUME NEW j \in DOMAIN order, order[j] = v, j < i PROVE k < i
    OBVIOUS
  <2>1. j \in 1..e[k]
    BY <1>1, <1>4
  <2>2. order[j] \notin S
    BY <1>1
  <2>3. \A j1 \in 1..e[k] : order[j1] \notin S => k < e[k]
    BY <1>2 DEF Places
  <2> QED BY <2>1, <2>2, <2>3, <1>4
<1> QED BY <1>1, <1>3, <1>4, <1>5, <1>6 DEF rest, S

\* What a preempted request had got in this step, the others may get.
LEMMA GivenBack ==
  ASSUME NEW f, NEW g, NEW v \in Requests, NEW b \in Nat, NEW most \in Nat,
         \A q \in Requests : f[q] \in Nat,
         \A q \in Requests : q # v => g[q] = f[q],
         g[v] = 0, b + Total(f, Requests) <= most
  PROVE  /\ (b + f[v]) + Total(g, Requests) <= most
         /\ (b + f[v]) + Total(g, Requests) = b + Total(f, Requests)
         /\ b + f[v] \in 0..most /\ b <= b + f[v] /\ f[v] \in Nat
<1>1. /\ \A q \in Requests : f[q] \in Nat /\ g[q] \in Nat
      /\ f[v] \in Nat
  <2>1. 0 \in Nat
    OBVIOUS
  <2> QED BY <2>1
<1>2. /\ Total(f, Requests) \in Int /\ Total(g, Requests) \in Int
      /\ Total(g, Requests) = Total(f, Requests) - f[v] + g[v]
  <2>1. \A q \in Requests : f[q] \in Int /\ g[q] \in Int
    BY <1>1
  <2> QED BY <2>1, RequestTotal
<1>3. Total(g, Requests) \in Nat
  <2>1. IsFiniteSet(Requests) /\ \A q \in Requests : g[q] \in Nat
    BY <1>1, Constants
  <2> QED BY <2>1, TotalNat
<1> DEFINE t == Total(f, Requests)
           u == Total(g, Requests)
           w == f[v]
<1>4. t \in Int /\ u \in Nat /\ w \in Nat /\ u = t - w /\ b + t <= most
  BY <1>1, <1>2, <1>3
<1> HIDE DEF t, u, w
<1>5. /\ (b + w) + u <= most /\ (b + w) + u = b + t
      /\ b + w \in 0..most /\ b <= b + w
  BY <1>4
<1> QED BY <1>4, <1>5 DEF t, u, w

\* Everything the victim had in this step is forgotten, and nothing of the others.
LEMMA PreemptKeeps ==
  ASSUME IInv, PreemptForBlocks
  PROVE  IInv'
<1> DEFINE v == Victim
           r == current
           rest == Sift(order, Requests \ (back \cup {v}))
<1>1. /\ pc = "align" /\ r \notin back /\ failuresLeft > 0 /\ failuresLeft' = failuresLeft - 1
      /\ Release(v, Held(v))
      /\ takenBack' = takenBack \cup (inputs[v] \ RemoteItems)
      /\ order' = rest /\ back' = {}
      /\ computed' = [computed EXCEPT ![v] = 0] /\ drafts' = [drafts EXCEPT ![v] = 0]
      /\ sched' = [sched EXCEPT ![v] = 0] /\ schedDrafts' = [schedDrafts EXCEPT ![v] = 0]
      /\ inputs' = [inputs EXCEPT ![v] = {}]
      /\ budget' = budget + sched[v]
      /\ encBudget' = encBudget + SizeOf(inputs[v] \ RemoteItems)
      /\ pc' = IF v = r THEN "end" ELSE "align"
      /\ turn' = IF sched[v] > 0 THEN turn - 1 ELSE turn
      /\ config' = config /\ tokens' = tokens /\ chunks' = chunks
      /\ finished' = finished /\ encoded' = encoded
      /\ current' = current /\ numNew' = numNew /\ feat' = feat /\ plan' = plan
      /\ encLeft' = encLeft /\ embeds' = embeds
  BY DEF PreemptForBlocks, NoBlocks, featVars
<1>2. /\ Planning /\ Planning' /\ InTurn /\ (InTurn' => v # r)
      /\ Unfinished' = Unfinished /\ Features' = Features
      /\ pc # "update" /\ pc' # "update" /\ pc' # "drafts" /\ pc' # "idle"
      /\ pc' # "features" /\ pc # "features"
  BY <1>1 DEF Planning, InTurn, Unfinished, Features
<1>3. TypeOK /\ OrderInv /\ LengthInv /\ ComputedInv /\ MambaInv /\ CacheInv
      /\ EncoderBudgetInv /\ FeaturesInv
  BY DEF IInv
<1>4. /\ r \in Requests /\ r \in ToSet(order) /\ sched[r] = 0 /\ Batch \cap back = {}
      /\ turn \in Nat /\ turn >= 1 /\ turn <= Cardinality(Requests)
      /\ Cardinality(Requests) \in Nat
      /\ \E i \in DOMAIN order : i <= turn /\ order[i] = r
      /\ \A i \in DOMAIN order : i \in Nat /\ i >= 1
      /\ order \in Seq(Requests) /\ IsInjective(order) /\ ToSet(order) \subseteq Requests
      /\ \A q \in ToSet(order) : \E i \in DOMAIN order : order[i] = q
      /\ \A q \in Batch : q \in ToSet(order) /\ \E i \in DOMAIN order : i < turn /\ order[i] = q
  <2>1. /\ \E i \in DOMAIN order : i <= turn /\ order[i] = r
        /\ sched[r] = 0 /\ turn <= Cardinality(Requests) /\ Batch \cap back = {}
        /\ \A q \in Batch : \E i \in DOMAIN order : i < turn /\ order[i] = q
    BY <1>1, <1>2, <1>3 DEF OrderInv
  <2>2. r \in ToSet(order) /\ \A q \in Batch : q \in ToSet(order)
    BY <2>1, Zenon DEF ToSet
  <2>3. \A q \in ToSet(order) : \E i \in DOMAIN order : order[i] = q
    BY DEF ToSet
  <2>4. /\ turn \in Nat /\ turn >= 1 /\ r \in Requests
        /\ \A i \in DOMAIN order : i \in Nat /\ i >= 1
        /\ order \in Seq(Requests) /\ IsInjective(order) /\ ToSet(order) \subseteq Requests
    BY <1>3, Numbers
  <2>5. Cardinality(Requests) \in Nat
    BY Constants
  <2> QED BY <2>1, <2>2, <2>3, <2>4, <2>5
<1>5. v \in ToSet(order) /\ v \notin back /\ v \in Requests
  BY <1>1, <1>3, <1>4, VictimRuns
<1> HIDE DEF v
<1>6. /\ order' \in Seq(Requests) /\ IsInjective(order')
      /\ \A q \in ToSet(order') : q \in ToSet(order) /\ q \notin back /\ q # v
      /\ \A q \in ToSet(order) : q \notin back /\ q # v => q \in ToSet(order')
  <2>1. /\ rest \in Seq(Requests) /\ IsInjective(rest)
        /\ ToSet(rest) = ToSet(order) \cap (Requests \ (back \cup {v}))
    BY <1>4, SiftSet
  <2> HIDE DEF rest
  <2> QED BY <2>1, <1>1, <1>4
<1>7. ASSUME NEW q \in ToSet(order), q \notin back, q # v, NEW i \in DOMAIN order, order[i] = q
      PROVE  \E k \in DOMAIN order' : order'[k] = q /\ k \in Nat /\ (i <= turn => k <= turn')
                                      /\ (i < turn => k < turn')
  <2>1. PICK k \in DOMAIN rest :
           /\ rest[k] = q /\ k \in Nat /\ i \in Nat /\ k <= i
           /\ \A j \in DOMAIN order : order[j] = v /\ j < i => k < i
    BY <1>3, <1>5, <1>7, PreemptMoves
  <2> HIDE DEF rest
  <2>2. CASE sched[v] > 0
    <3>1. PICK j \in DOMAIN order : j < turn /\ order[j] = v
      BY <2>2, <1>4, <1>5 DEF Batch
    <3>2. j # i /\ j \in Nat /\ turn' = turn - 1
      BY <3>1, <2>2, <1>1, <1>4, <1>7
    <3>3. CASE j < i
      <4>1. k < i
        BY <2>1, <3>1, <3>3
      <4>2. k \in Nat /\ i \in Nat /\ turn \in Nat
        BY <2>1, <1>4
      <4>3. (i <= turn => k <= turn - 1) /\ (i < turn => k < turn - 1)
        BY <4>1, <4>2
      <4>4. (i <= turn => k <= turn') /\ (i < turn => k < turn')
        BY <3>2, <4>3
      <4> QED BY <2>1, <4>4, <1>1
    <3>4. CASE i < j
      BY <2>1, <3>1, <3>2, <3>4, <1>1, <1>4, SMTT(30)
    <3> QED BY <2>1, <3>2, <3>3, <3>4
  <2>3. CASE ~(sched[v] > 0)
    BY <2>1, <2>3, <1>1, <1>4, SMTT(30)
  <2> QED BY <2>2, <2>3
<1> HIDE DEF rest
<1>8. /\ sched'[v] = 0 /\ schedDrafts'[v] = 0 /\ computed'[v] = 0 /\ drafts'[v] = 0
      /\ inputs'[v] = {}
      /\ \A q \in Requests : q # v => /\ sched'[q] = sched[q] /\ schedDrafts'[q] = schedDrafts[q]
                                      /\ computed'[q] = computed[q] /\ drafts'[q] = drafts[q]
                                      /\ inputs'[q] = inputs[q]
  <2>1. /\ sched \in [Requests -> 0..TokenBudget] /\ inputs \in [Requests -> SUBSET Items]
        /\ drafts \in [Requests -> 0..MaxDraft] /\ schedDrafts \in [Requests -> 0..MaxDraft]
        /\ computed \in [Requests -> 0..MaxModelLen]
    BY <1>3 DEF TypeOK
  <2> QED BY <2>1, <1>1, <1>5
<1>9. Batch' = Batch \ {v}
  <2>1. \A q \in Requests : sched'[q] > 0 <=> (sched[q] > 0 /\ q # v)
    BY <1>5, <1>8
  <2> QED BY <2>1 DEF Batch
<1>10. /\ \A q \in Requests : /\ computed[q] \in Nat /\ sched[q] \in Nat /\ tokens[q] \in Nat
                              /\ tokens[q] >= 1 /\ inputs[q] \subseteq Items
       /\ numNew \in Nat /\ budget \in Nat /\ encBudget \in Nat /\ encLeft \in Nat
       /\ plan \subseteq Items /\ BlockSize \in Nat \ {0} /\ MaxModelLen \in Nat
       /\ TokenBudget \in Nat /\ EncoderBudget \in Nat /\ MaxDraft \in Nat
       /\ MaxFailures \in Nat
  BY <1>3, Numbers, Constants
\* The budgets.
<1>11. /\ budget' + Total(sched', Requests) = TokenBudget
       /\ budget' \in 0..TokenBudget /\ budget <= budget'
  <2> DEFINE f == sched
             g == sched'
  <2>1. /\ \A q \in Requests : f[q] \in Nat
        /\ \A q \in Requests : q # v => g[q] = f[q]
        /\ g[v] = 0
    BY <1>8, <1>10
  <2>2. budget + Total(f, Requests) = TokenBudget
    BY <1>2, <1>3 DEF LengthInv
  <2>3. budget + Total(f, Requests) <= TokenBudget
    BY <2>2, <1>10
  <2>4. budget' = budget + f[v]
    BY <1>1
  <2> HIDE DEF f, g
  <2>5. /\ (budget + f[v]) + Total(g, Requests) = budget + Total(f, Requests)
        /\ budget + f[v] \in 0..TokenBudget /\ budget <= budget + f[v]
    <3>1. budget \in Nat /\ TokenBudget \in Nat /\ v \in Requests
      BY <1>5, <1>10
    <3>2. (budget + f[v]) + Total(g, Requests) = budget + Total(f, Requests)
      BY ONLY <2>1, <2>3, <3>1, GivenBack, ZenonT(30)
    <3>3. budget + f[v] \in 0..TokenBudget
      BY ONLY <2>1, <2>3, <3>1, GivenBack
    <3>4. budget <= budget + f[v]
      BY <2>1, <3>1
    <3> QED BY <3>2, <3>3, <3>4
  <2> QED BY <2>2, <2>4, <2>5 DEF g
<1>12. /\ encBudget' + Total(ToCompute', Requests) <= EncoderBudget
       /\ encBudget' \in 0..EncoderBudget /\ encBudget <= encBudget'
  <2> DEFINE f == ToCompute
             g == ToCompute'
  <2>1. /\ \A q \in Requests : f[q] \in Nat
        /\ \A q \in Requests : q # v => g[q] = f[q]
        /\ g[v] = 0
    <3>1. \A q \in Requests : f[q] = SizeOf(inputs[q] \ RemoteItems)
      BY DEF ToCompute
    <3>2. \A q \in Requests : g[q] = SizeOf(inputs'[q] \ RemoteItems)
      BY DEF ToCompute, SizeOf
    <3>3. \A A \in SUBSET Items : SizeOf(A) \in Nat
      BY SizeFacts
    <3>4. g[v] = 0
      <4>1. inputs'[v] \ RemoteItems = {}
        BY <1>8
      <4> QED BY <4>1, <3>2, <1>5, SizeFacts
    <3>5. \A q \in Requests : inputs[q] \ RemoteItems \in SUBSET Items
      BY <1>10
    <3>6. \A q \in Requests : f[q] \in Nat
      BY <3>1, <3>3, <3>5
    <3>7. \A q \in Requests : q # v => g[q] = f[q]
      BY <3>1, <3>2, <1>8
    <3> HIDE DEF f, g
    <3> QED BY <3>4, <3>6, <3>7
  <2>2. encBudget + Total(f, Requests) <= EncoderBudget
    BY <1>2, <1>3 DEF EncoderBudgetInv
  <2>3. encBudget' = encBudget + f[v]
    BY <1>1, <1>5 DEF ToCompute
  <2> HIDE DEF f, g
  <2>4. /\ (encBudget + f[v]) + Total(g, Requests) <= EncoderBudget
        /\ encBudget + f[v] \in 0..EncoderBudget /\ encBudget <= encBudget + f[v]
    BY <2>1, <2>2, <1>5, <1>10, GivenBack
  <2> QED BY <2>3, <2>4 DEF g
\* The cache.
<1>13. /\ refs' \in [Items -> SUBSET Requests]
       /\ \A i \in Items : refs'[i] = IF i \in Held(v) THEN refs[i] \ {v} ELSE refs[i]
       /\ freeable' \in Seq(Items) /\ IsInjective(freeable')
       /\ \A i \in ToSet(freeable') : refs'[i] = {}
       /\ InCache' = InCache
  <2>1. Held(v) \subseteq ItemsOf(v) /\ IsInjective(freeable)
    BY <1>3, <1>5, FreedItems DEF CacheInv
  <2> QED BY <2>1, <1>1, <1>3, <1>5, ReleaseFacts
<1>14. \A q \in Requests : /\ ItemsOf(q)' = ItemsOf(q)
                           /\ q # v => Held(q)' = Held(q)
                           /\ q # v => \A i \in Items : q \in refs[i] => q \in refs'[i]
  BY <1>2, <1>13 DEF ItemsOf, Held
<1>15. TypeOK'
  <2>1. turn' \in 1..Cardinality(Requests) + 1
    <3>1. sched[v] > 0 => turn > 1
      <4>1. SUFFICES ASSUME sched[v] > 0 PROVE turn > 1
        OBVIOUS
      <4>2. PICK j \in DOMAIN order : j < turn /\ order[j] = v
        BY <4>1, <1>4, <1>5 DEF Batch
      <4> QED BY <4>2, <1>4
    <3> QED BY <3>1, <1>1, <1>4
  <2>2. sched' \in [Requests -> 0..TokenBudget] /\ schedDrafts' \in [Requests -> 0..MaxDraft]
        /\ inputs' \in [Requests -> SUBSET Items] /\ drafts' \in [Requests -> 0..MaxDraft]
        /\ computed' \in [Requests -> 0..MaxModelLen]
    <3>1. /\ sched \in [Requests -> 0..TokenBudget] /\ inputs \in [Requests -> SUBSET Items]
          /\ drafts \in [Requests -> 0..MaxDraft] /\ schedDrafts \in [Requests -> 0..MaxDraft]
          /\ computed \in [Requests -> 0..MaxModelLen]
      BY <1>3 DEF TypeOK
    <3>2. 0 \in 0..TokenBudget /\ 0 \in 0..MaxDraft /\ 0 \in 0..MaxModelLen
      BY <1>10
    <3> QED BY <3>1, <3>2, <1>1
  <2>3. encoded' \cup takenBack' \subseteq InCache'
    <3>1. inputs[v] \subseteq InCache
      <4>1. inputs[v] \subseteq Held(v)
        BY <1>2, <1>3, <1>5 DEF CacheInv
      <4>2. Held(v) \subseteq Used
        BY <1>3, <1>5, CacheSets
      <4> QED BY <4>1, <4>2 DEF InCache
    <3> QED BY <3>1, <1>1, <1>3, <1>13 DEF TypeOK
  <2>4. failuresLeft' \in 0..MaxFailures
    <3>1. failuresLeft \in 0..MaxFailures
      BY <1>3 DEF TypeOK
    <3> QED BY <3>1, <1>1, <1>10
  <2>5. pc' \in {"idle", "turn", "features", "align", "end", "update", "drafts"}
    BY <1>1
  <2> QED BY <2>1, <2>2, <2>3, <2>4, <2>5, <1>1, <1>3, <1>6, <1>11, <1>12, <1>13 DEF TypeOK
<1>16. OrderInv'
  <2>1. ToSet(order') \cap finished' = {}
    BY <1>1, <1>2, <1>3, <1>6 DEF OrderInv
  <2>2. \A q \in Batch' : \E k \in DOMAIN order' : k < turn' /\ order'[k] = q
    <3> SUFFICES ASSUME NEW q \in Batch, q # v
                 PROVE  \E k \in DOMAIN order' : k < turn' /\ order'[k] = q
      BY <1>9
    <3>1. PICK i \in DOMAIN order : i < turn /\ order[i] = q
      BY <1>4
    <3> QED BY <3>1, <1>4, <1>7
  <2>3. v # r => \E k \in DOMAIN order' : k <= turn' /\ order'[k] = r
    <3> SUFFICES ASSUME v # r
                 PROVE  \E k \in DOMAIN order' : k <= turn' /\ order'[k] = r
      OBVIOUS
    <3>1. PICK i \in DOMAIN order : i <= turn /\ order[i] = r
      BY <1>4
    <3> QED BY <3>1, <1>1, <1>4, <1>7
  <2>4. sched'[r] = 0 /\ turn' <= Cardinality(Requests)
    BY <1>1, <1>4, <1>8
  <2> QED BY <2>1, <2>2, <2>3, <2>4, <1>1, <1>2 DEF OrderInv
<1>17. LengthInv'
  <2>1. \A q \in Requests : computed'[q] + sched'[q] <= MaxModelLen
    <3> SUFFICES ASSUME NEW q \in Requests PROVE computed'[q] + sched'[q] <= MaxModelLen
      OBVIOUS
    <3>1. CASE q = v
      BY <3>1, <1>8, <1>10
    <3>2. CASE q # v
      BY <3>2, <1>2, <1>3, <1>8 DEF LengthInv
    <3> QED BY <3>1, <3>2
  <2>2. numNew <= budget'
    <3>1. numNew <= budget
      BY <1>2, <1>3 DEF LengthInv
    <3> QED BY <3>1, <1>10, <1>11
  <2>3. v # r => /\ computed'[r] + numNew <= tokens[r] + drafts'[r]
                 /\ computed'[r] + numNew < MaxModelLen
    BY <1>2, <1>3, <1>4, <1>8 DEF LengthInv
  <2> QED BY <2>1, <2>2, <2>3, <1>1, <1>2, <1>3, <1>11 DEF LengthInv
<1>18. ComputedInv'
  <2> SUFFICES ASSUME NEW q \in Unfinished
               PROVE  /\ computed'[q] < tokens[q]
                      /\ drafts'[q] > 0 => computed'[q] = tokens[q] - 1
                      /\ q \notin ToSet(order') => drafts'[q] = 0
                      /\ q \in Batch' => drafts'[q] = 0
                      /\ schedDrafts'[q] = IF q \in Batch'
                                           THEN Most(0, computed'[q] + sched'[q] - tokens[q]) ELSE 0
    BY <1>1, <1>2 DEF ComputedInv
  <2>1. q \in Requests
    BY DEF Unfinished
  <2>2. CASE q = v
    BY <2>1, <2>2, <1>8, <1>9, <1>10
  <2>3. CASE q # v
    <3>1. /\ computed'[q] = computed[q] /\ drafts'[q] = drafts[q] /\ sched'[q] = sched[q]
          /\ schedDrafts'[q] = schedDrafts[q] /\ (q \in Batch' <=> q \in Batch)
      BY <2>1, <2>3, <1>8, <1>9
    <3>2. q \notin ToSet(order') => q \notin ToSet(order) \/ (q \in back /\ q \notin Batch)
      BY <2>3, <1>4, <1>6
    <3> QED BY <3>1, <3>2, <1>2, <1>3 DEF ComputedInv
  <2> QED BY <2>2, <2>3
<1>19. MambaInv'
  <2> SUFFICES ASSUME config.mamba, NEW q \in Unfinished
               PROVE  StopsAtBlock(q, computed'[q] + sched'[q])
    BY <1>1, <1>2 DEF MambaInv, StopsAtBlock, LastCachePosition
  <2>1. CASE q = v
    <3>1. 0 % BlockSize = 0
      BY <1>10
    <3>2. computed'[q] + sched'[q] = 0
      BY <2>1, <1>8
    <3> QED BY <3>1, <3>2 DEF StopsAtBlock
  <2>2. CASE q # v
    BY <2>2, <1>2, <1>3, <1>8 DEF MambaInv, Unfinished
  <2> QED BY <2>1, <2>2
<1>20. CacheInv'
  <2>1. (SizeOf(InCache) <= config.cache)'
    BY <1>1, <1>3, <1>13 DEF CacheInv, SizeOf
  <2>2. \A i \in Items : \A q \in refs'[i] : i \in ItemsOf(q)'
    <3>1. \A i \in Items : \A q \in refs'[i] : q \in Requests /\ q \in refs[i]
      BY <1>13
    <3> QED BY <3>1, <1>3, <1>14 DEF CacheInv
  <2>3. \A q \in Requests : inputs'[q] \subseteq Held(q)' /\ (q \notin Batch' => inputs'[q] = {})
    <3> SUFFICES ASSUME NEW q \in Requests
                 PROVE  inputs'[q] \subseteq Held(q)' /\ (q \notin Batch' => inputs'[q] = {})
      OBVIOUS
    <3>1. CASE q = v
      BY <3>1, <1>8
    <3>2. CASE q # v
      BY <3>2, <1>2, <1>3, <1>8, <1>9, <1>14 DEF CacheInv
    <3> QED BY <3>1, <3>2
  <2>4. (plan \cap InCache = {} /\ plan \subseteq ItemsOf(current))'
    BY <1>1, <1>2, <1>3, <1>4, <1>13, <1>14 DEF CacheInv
  <2>5. (embeds = SizeOf(plan))'
    BY <1>1, <1>2, <1>3 DEF CacheInv, SizeOf
  <2>6. (SizeOf(InCache) + embeds <= config.cache)'
    BY <1>1, <1>2, <1>3, <1>13 DEF CacheInv, SizeOf
  <2> QED BY <2>1, <2>2, <2>3, <2>4, <2>5, <2>6, <1>13 DEF CacheInv
<1>21. EncoderBudgetInv'
  <2>1. (encLeft + SizeOf(plan \ RemoteItems) <= encBudget)'
    <3>1. SizeOf(plan \ RemoteItems)' = SizeOf(plan \ RemoteItems)
      BY <1>1 DEF SizeOf
    <3> DEFINE p == SizeOf(plan \ RemoteItems)
    <3>2. p \in Nat
      <4>1. plan \ RemoteItems \in SUBSET Items
        BY <1>10
      <4> QED BY <4>1, SizeFacts
    <3>3. encLeft + p <= encBudget
      BY <1>2, <1>3 DEF EncoderBudgetInv
    <3> HIDE DEF p
    <3>4. encLeft + p <= encBudget'
      BY <3>2, <3>3, <1>10, <1>12
    <3> QED BY <3>1, <3>4, <1>1 DEF p
  <2> QED BY <2>1, <1>12 DEF EncoderBudgetInv
<1>22. FeaturesInv'
  <2>1. \A q \in Batch' : \A n \in DOMAIN Features'[q] :
          Needs(q, n, computed[q], computed[q] + sched[q])' => q \in refs'[Features'[q][n].item]
    <3> SUFFICES ASSUME NEW q \in Batch, q # v, NEW n \in DOMAIN Features[q],
                        Needs(q, n, computed[q], computed[q] + sched[q])'
                 PROVE  q \in refs'[Features[q][n].item]
      BY <1>2, <1>9
    <3>1. q \in Requests
      BY DEF Batch
    <3>2. Needs(q, n, computed[q], computed[q] + sched[q])
      BY <3>1, <1>1, <1>2, <1>8 DEF Needs
    <3>3. q \in refs[Features[q][n].item]
      BY <3>2, <1>2, <1>3 DEF FeaturesInv
    <3>4. Features[q][n].item \in Items
      BY <3>1, <1>3, FeatureTypes
    <3> QED BY <3>1, <3>3, <3>4, <1>14
  <2>2. (InTurn /\ numNew > 0 => \A n \in DOMAIN Features[current] :
          /\ pc = "features" => n < feat
          /\ Needs(current, n, computed[current], ChunkEnd)
          => Features[current][n].item \in plan \/ current \in refs[Features[current][n].item])'
    <3> SUFFICES ASSUME v # r, numNew > 0, NEW n \in DOMAIN Features[r],
                        Needs(current, n, computed[current], ChunkEnd)'
                 PROVE  Features[r][n].item \in plan \/ r \in refs'[Features[r][n].item]
      BY <1>1, <1>2
    <3>1. computed'[r] = computed[r]
      BY <1>4, <1>8
    <3>2. Needs(r, n, computed[r], ChunkEnd)
      BY <3>1, <1>1, <1>2 DEF Needs, ChunkEnd
    <3>3. Features[r][n].item \in plan \/ r \in refs[Features[r][n].item]
      BY <3>2, <1>2, <1>3 DEF FeaturesInv
    <3>4. Features[r][n].item \in Items
      BY <1>3, <1>4, FeatureTypes
    <3> QED BY <3>3, <3>4, <1>4, <1>14
  <2>3. InCache' \subseteq encoded' \cup takenBack' \cup UNION {inputs'[q] : q \in Requests}
    <3>1. InCache \subseteq encoded \cup takenBack \cup UNION {inputs[q] : q \in Requests}
      BY <1>2, <1>3 DEF FeaturesInv
    <3>2. \A q \in Requests : \A i \in inputs[q] :
            i \in encoded' \/ i \in takenBack' \/ i \in UNION {inputs'[p] : p \in Requests}
      <4> SUFFICES ASSUME NEW q \in Requests, NEW i \in inputs[q]
                   PROVE  i \in encoded' \/ i \in takenBack'
                          \/ i \in UNION {inputs'[p] : p \in Requests}
        OBVIOUS
      <4>1. CASE q = v
        <5>1. inputs[v] \cap RemoteItems \subseteq encoded
          BY <1>2, <1>3, <1>5 DEF FeaturesInv
        <5> QED BY <4>1, <5>1, <1>1
      <4>2. CASE q # v
        <5>1. i \in inputs'[q]
          BY <4>2, <1>8
        <5> QED BY <5>1
      <4> QED BY <4>1, <4>2
    <3> QED BY <3>1, <3>2, <1>1, <1>13
  <2>4. \A q \in Requests : inputs'[q] \cap RemoteItems \subseteq encoded'
    <3> SUFFICES ASSUME NEW q \in Requests PROVE inputs'[q] \cap RemoteItems \subseteq encoded'
      OBVIOUS
    <3>1. CASE q = v
      BY <3>1, <1>8
    <3>2. CASE q # v
      BY <3>2, <1>1, <1>2, <1>3, <1>8 DEF FeaturesInv
    <3> QED BY <3>1, <3>2
  <2> QED BY <2>1, <2>2, <2>3, <2>4, <1>2 DEF FeaturesInv
<1> QED BY <1>15, <1>16, <1>17, <1>18, <1>19, <1>20, <1>21, <1>22 DEF IInv

-------------------------------------------------------------------------------
(* The invariant, and what follows *)

\* The invariant holds of an engine that has scheduled nothing.
LEMMA InitKeeps == Init => IInv
<1> SUFFICES ASSUME Init PROVE IInv
  OBVIOUS
<1>1. /\ config \in Configs /\ computed \in [Requests -> Hits] /\ tokens = PromptLen
      /\ drafts = [r \in Requests |-> 0] /\ finished = {} /\ chunks = {}
      /\ refs = [i \in Items |-> {}] /\ freeable = <<>> /\ encoded = {} /\ takenBack = {}
      /\ order = Order /\ back = {} /\ failuresLeft = MaxFailures
      /\ pc = "idle" /\ turn = 1 /\ current = Order[1]
      /\ feat = 1 /\ numNew = 0 /\ plan = {} /\ encLeft = 0 /\ embeds = 0
      /\ budget = 0 /\ encBudget = 0
      /\ sched = [r \in Requests |-> 0] /\ schedDrafts = [r \in Requests |-> 0]
      /\ inputs = [r \in Requests |-> {}]
  BY DEF Init
<1>2. /\ ~Planning /\ ~InTurn
  BY <1>1 DEF Planning, InTurn
<1>3. /\ MaxModelLen \in Nat /\ MaxDraft \in Nat /\ TokenBudget \in Nat /\ EncoderBudget \in Nat
      /\ MaxFailures \in Nat /\ Cardinality(Requests) \in Nat
      /\ \A r \in Requests : /\ PromptLen[r] \in Nat \ {0} /\ MaxOutput[r] \in Nat \ {0}
                             /\ PromptLen[r] < MaxModelLen
  BY Constants
<1>4. /\ Order \in Seq(Requests) /\ IsInjective(Order) /\ ToSet(Order) = Requests
      /\ PromptLen \in [Requests -> Nat \ {0}] /\ Requests # {}
  BY StepTokensAssumption
<1>5. \A r \in Requests : /\ computed[r] \in Nat /\ computed[r] < PromptLen[r]
                          /\ computed[r] % BlockSize = 0
                          /\ computed[r] \in 0..MaxModelLen /\ tokens[r] \in 1..MaxModelLen
  <2> SUFFICES ASSUME NEW r \in Requests
               PROVE  /\ computed[r] \in Nat /\ computed[r] < PromptLen[r]
                      /\ computed[r] % BlockSize = 0
                      /\ computed[r] \in 0..MaxModelLen /\ tokens[r] \in 1..MaxModelLen
    OBVIOUS
  <2>1. computed[r] \in Hits
    BY <1>1
  <2>2. /\ computed[r] \in Nat /\ computed[r] % BlockSize = 0
        /\ computed[r] < PromptLen[r]
    BY <2>1, StepTokensAssumption
  <2> QED BY <2>2, <1>1, <1>3
<1>6. ToSet(freeable) = {} /\ freeable \in Seq(Items) /\ IsInjective(freeable)
  BY <1>1 DEF ToSet, IsInjective
<1>7. InCache = {}
  BY <1>1, <1>6 DEF InCache, Used
<1>8. current \in Requests
  <2>1. /\ Len(Order) \in Nat /\ DOMAIN Order = 1..Len(Order) /\ DOMAIN Order # {}
    BY <1>4 DEF ToSet
  <2>2. 1 \in 1..Len(Order)
    BY <2>1
  <2> QED BY <2>2, <1>1, <1>4, ElementOfSeq
<1>9. config.cache \in Nat
  BY <1>1, StepTokensAssumption
<1>10. TypeOK
  <2>1. computed \in [Requests -> 0..MaxModelLen] /\ tokens \in [Requests -> 1..MaxModelLen]
    BY <1>1, <1>4, <1>5
  <2>2. drafts \in [Requests -> 0..MaxDraft] /\ schedDrafts \in [Requests -> 0..MaxDraft]
        /\ sched \in [Requests -> 0..TokenBudget] /\ inputs \in [Requests -> SUBSET Items]
        /\ refs \in [Items -> SUBSET Requests]
    BY <1>1, <1>3
  <2>3. turn \in 1..Cardinality(Requests) + 1 /\ feat \in Nat /\ numNew \in 0..TokenBudget
        /\ encLeft \in 0..EncoderBudget /\ embeds \in 0..config.cache
        /\ budget \in 0..TokenBudget /\ encBudget \in 0..EncoderBudget
        /\ failuresLeft \in 0..MaxFailures
    BY <1>1, <1>3, <1>9
  <2> QED BY <2>1, <2>2, <2>3, <1>1, <1>4, <1>6, <1>8 DEF TypeOK
<1>11. OrderInv
  BY <1>1, <1>2 DEF OrderInv
<1>12. LengthInv
  <2>1. \A r \in Requests : /\ PromptLen[r] <= tokens[r]
                            /\ tokens[r] < Least(PromptLen[r] + MaxOutput[r], MaxModelLen)
    BY <1>1, <1>3 DEF Least
  <2> QED BY <2>1, <1>1, <1>2 DEF LengthInv, Unfinished
<1>13. ComputedInv
  <2>1. \A r \in Requests : computed[r] < tokens[r] /\ drafts[r] = 0 /\ ~(drafts[r] > 0)
    BY <1>1, <1>5
  <2> QED BY <2>1, <1>1, <1>2 DEF ComputedInv, Unfinished
<1>14. MambaInv
  BY <1>2, <1>5 DEF MambaInv, StopsAtBlock, Unfinished
<1>15. CacheInv
  <2>1. SizeOf(InCache) = 0
    BY <1>7, SizeFacts
  <2> QED BY <2>1, <1>1, <1>2, <1>6, <1>9 DEF CacheInv
<1>16. EncoderBudgetInv /\ FeaturesInv
  BY <1>1, <1>2, <1>7 DEF EncoderBudgetInv, FeaturesInv
<1> QED BY <1>10, <1>11, <1>12, <1>13, <1>14, <1>15, <1>16 DEF IInv

\* A step that changes no variable keeps the invariant.
LEMMA StutterKeeps ==
  ASSUME IInv, UNCHANGED vars
  PROVE  IInv'
<1>1. TypeOK'
  BY DEF IInv, TypeOK, InCache, Used, vars, reqVars, cacheVars, queueVars, featVars, stepVars
<1>2. OrderInv' /\ LengthInv' /\ ComputedInv' /\ MambaInv'
  BY DEF IInv, OrderInv, LengthInv, ComputedInv, MambaInv, StopsAtBlock, LastCachePosition,
         Planning, InTurn, Unfinished, Batch, vars, reqVars, cacheVars, queueVars, featVars, stepVars
<1>3. CacheInv' /\ EncoderBudgetInv'
  BY DEF IInv, CacheInv, EncoderBudgetInv, ToCompute, ItemsOf, SizeOf, InCache, Used, Held,
         Planning, InTurn, Batch, Features, vars, reqVars, cacheVars, queueVars, featVars, stepVars
<1>4. FeaturesInv'
  BY DEF IInv, FeaturesInv, Needs, ChunkEnd, InCache, Used, Features,
         Planning, InTurn, Batch, vars, reqVars, cacheVars, queueVars, featVars, stepVars
<1> QED BY <1>1, <1>2, <1>3, <1>4 DEF IInv

\* The invariant is inductive, whatever the requests, features, budgets and cache.
THEOREM Inductive == Spec => []IInv
<1>1. IInv /\ [Next]_vars => IInv'
  <2> SUFFICES ASSUME IInv, [Next]_vars PROVE IInv'
    OBVIOUS
  <2>1. CASE BeginSchedule
    BY <2>1, BeginKeeps
  <2>2. CASE PlanTurn
    BY <2>2, PlanKeeps
  <2>3. CASE FeatureStep
    BY <2>3, FeatureKeeps
  <2>4. CASE ScheduleTurn
    BY <2>4, ScheduleKeeps
  <2>5. CASE PassTurn
    BY <2>5, PassKeeps
  <2>6. CASE PreemptForBlocks
    BY <2>6, PreemptKeeps
  <2>7. CASE StayOut
    BY <2>7, StayOutKeeps
  <2>8. CASE FinishSchedule
    BY <2>8, FinishKeeps
  <2>9. CASE UpdateWithoutSample
    BY <2>9, WithoutSampleKeeps
  <2>10. CASE UpdateWithSample
    BY <2>10, WithSampleKeeps
  <2>11. CASE EndUpdate
    BY <2>11, EndUpdateKeeps
  <2>12. CASE UpdateDraftTokenIds
    BY <2>12, DraftsKeep
  <2>13. CASE UNCHANGED vars
    BY <2>13, StutterKeeps
  <2> QED BY <2>1, <2>2, <2>3, <2>4, <2>5, <2>6, <2>7, <2>8, <2>9, <2>10, <2>11, <2>12, <2>13
          DEF Next, FeatureStep
<1> QED BY <1>1, InitKeeps, PTL DEF Spec

\* Every variable stays in its set: no budget is overdrawn, and no request computes
\* past the model's length.
THEOREM Types == Spec => []TypeOK
<1>1. IInv => TypeOK
  BY DEF IInv
<1> QED BY <1>1, Inductive, PTL

\* The EncoderCacheManager's calls never put more into the cache than it has room for.
THEOREM CacheFits == Spec => []EncoderCacheFits
<1>1. IInv => EncoderCacheFits
  BY DEF IInv, CacheInv, EncoderCacheFits
<1> QED BY <1>1, Inductive, PTL

\* Between steps a request lacks its last token at least, after rejections and
\* preemptions too, and its drafts follow the token it lacks.
THEOREM ComputedStaysBehind == Spec => []ComputedWithinTokens
<1>1. IInv => ComputedWithinTokens
  BY DEF IInv, ComputedInv, ComputedWithinTokens, Unfinished
<1> QED BY <1>1, Inductive, PTL

\* A Mamba prefill that has blocks left to cache stops at a block boundary.
THEOREM MambaStopsAtBlocks == Spec => []MambaStatesCached
<1>1. IInv => MambaStatesCached
  BY DEF IInv, MambaInv, MambaStatesCached, StopsAtBlock, InPrefill, Unfinished, Planning
<1> QED BY <1>1, Inductive, PTL

\* The batch a schedule hands to the worker has the encoder output of every item its
\* tokens overlap, or a preemption of the same step took the item back.
THEOREM BatchHasItsFeatures == Spec => FeaturesReady
<1> DEFINE Ready ==
      pc' = "update" /\ pc # "update" =>
        \A r \in Batch : \A n \in DOMAIN Features[r] :
          LET i == Features[r][n].item IN
          Features[r][n].start < computed'[r] /\ computed[r] < Features[r][n].start + Size[i]
            => r \in refs[i] /\ i \in encoded' \cup takenBack
<1>1. ASSUME IInv, FinishSchedule PROVE Ready
  <2> SUFFICES ASSUME NEW r \in Batch, NEW n \in DOMAIN Features[r],
                      Features[r][n].start < computed'[r],
                      computed[r] < Features[r][n].start + Size[Features[r][n].item]
               PROVE  /\ r \in refs[Features[r][n].item]
                      /\ Features[r][n].item \in encoded' \cup takenBack
    OBVIOUS
  <2>1. /\ Planning /\ r \in Requests /\ TypeOK /\ FeaturesInv
        /\ computed'[r] = computed[r] + sched[r]
        /\ encoded' = encoded \cup UNION {inputs[q] : q \in Requests}
    BY <1>1 DEF FinishSchedule, Planning, Batch, IInv
  <2>2. r \in refs[Features[r][n].item]
    BY <2>1 DEF FeaturesInv, Needs
  <2>3. Features[r][n].item \in Items
    BY <2>1, FeatureTypes
  <2>4. Features[r][n].item \in InCache
    BY <2>2, <2>3 DEF InCache, Used
  <2> QED BY <2>1, <2>2, <2>4 DEF FeaturesInv
<1>2. IInv /\ [Next]_vars => [Ready]_vars
  <2> SUFFICES ASSUME IInv, Next, ~FinishSchedule PROVE pc' = "update" => pc = "update"
    BY <1>1
  <2>1. CASE FeatureStep
    BY <2>1, FeatureFrame
  <2>2. CASE ~FeatureStep
    BY <2>2 DEF Next, FeatureStep, BeginSchedule, PlanTurn, ScheduleTurn, PassTurn,
        PreemptForBlocks, NoBlocks, StayOut, UpdateWithoutSample, UpdateWithSample, InUpdate,
        EndUpdate, UpdateDraftTokenIds
  <2> QED BY <2>1, <2>2
<1> QED BY <1>2, Inductive, PTL DEF Spec, FeaturesReady
==============================================================================
