--------------------------- MODULE KvRecovery_proofs ---------------------------
(***************************************************************************)
(* Theorems about KvRecovery: types, what the fail policy evicts, which    *)
(* requests the sets of ended loads hold, and what blocks are held for.    *)
(* They follow from one inductive invariant, IInv, whose parts are about   *)
(* the queues, the numbers of tokens, the block tables, the prefix cache,  *)
(* the background loads, the requests that wait with nothing computed, and *)
(* the blocks a batch loads.                                               *)
(***************************************************************************)
EXTENDS KvRecovery, Collections_proofs

Planning == pc \in {"running", "waiting"}
Loading(r) == status[r] = "WAITING_FOR_REMOTE_KVS"
Waits(r) == status[r] \in {"WAITING", "PREEMPTED", "WAITING_FOR_REMOTE_KVS"}

\* A request is in one queue at most, and its status says in which.
QueueInv ==
  /\ IsInjective(waiting) /\ IsInjective(skipped) /\ IsInjective(running)
  /\ ToSet(waiting) \cap ToSet(skipped) = {}
  /\ \A r \in ToSet(waiting) \cup ToSet(skipped) : Waits(r)
  /\ \A r \in Requests : r \in ToSet(running) <=> status[r] = "RUNNING"
  /\ Planning => /\ IsInjective(stepSkipped)
                 /\ ToSet(stepSkipped) \cap (ToSet(waiting) \cup ToSet(skipped)) = {}
                 /\ \A r \in ToSet(stepSkipped) : Waits(r)
  /\ \A r \in Requests \ arrived :
       status[r] = "WAITING" /\ computed[r] = 0 /\ table[r] = <<>>

\* Tokens computed once the batch being planned is.
Given(r) == IF Planning THEN computed[r] + sched[r] ELSE computed[r]

TokenInv ==
  /\ \A r \in Requests : /\ Given(r) <= tokens[r]
                         /\ ~IsFinished(status[r]) => tokens[r] < MaxLen
                         /\ sched[r] > 0 => status[r] = "RUNNING"
  /\ pc = "running" => /\ reqIndex > 0
                       /\ \A i \in DOMAIN running : sched[running[i]] > 0 => i < reqIndex
  /\ pc = "idle" => \A r \in Requests : sched[r] = 0
  /\ pc = "report" => \A r \in Requests : sched[r] <= computed[r]

\* A request has blocks for the tokens it is given, and no more than it can use.
TableInv ==
  \A r \in Requests : /\ ~IsFinished(status[r]) => BlocksFor(Given(r)) <= Len(table[r])
                      /\ Len(table[r]) <= BlocksFor(MaxLen)

\* A held block is cached, if at all, with what its holders use it for; one
\* that a background load fills is not cached, and no other request's.
KeyInv ==
  /\ \A r, s \in Requests : \A i \in DOMAIN table[r], j \in DOMAIN table[s] :
       table[r][i] = table[s][j] => Content(r, i) = Content(s, j)
  /\ \A r \in Requests : \A i \in DOMAIN table[r] :
       key[table[r][i]] \in {NoKey, Content(r, i)}
  /\ \A r \in Requests : \A x \in loading[r] :
       /\ x[1] \in ToSet(table[r]) /\ key[x[1]] = NoKey
       /\ \A s \in Requests \ {r} : x[1] \notin ToSet(table[s])

\* A load belongs to a request that waits for it, or that ended meanwhile.
LoadInv ==
  /\ \A r \in Requests : loading[r] # {} => r \in receiving
  /\ \A r \in receiving \cup recved : Loading(r) \/ IsFinished(status[r])
  /\ \A r \in finishedRecving \cup failedRecving : Loading(r)
  /\ finishedRecving \cap (receiving \cup recved) = {}
  /\ pc \in {"idle", "running"} => recved = {}
  /\ pc = "waiting" => recved \subseteq receiving
  /\ pc \in {"report", "outputs"} => recved \cap receiving = {}
  /\ \A r \in Requests : Loading(r) => r \in receiving \cup recved \cup finishedRecving
  /\ \A r \in Requests : IsFinished(status[r]) /\ table[r] # <<>> => r \in receiving \cup recved

\* A load that has not failed is for the whole prompt, so that its request
\* waits with tokens computed when it ends.
IdleInv ==
  /\ \A r \in Requests :
       Loading(r) /\ r \notin failedRecving \cup skip => computed[r] = PromptLen
  /\ PromptLen > 1 =>
       \A r \in Requests : status[r] \in {"WAITING", "PREEMPTED"} /\ computed[r] = 0 =>
                             table[r] = <<>>

\* b is among the blocks of the first n tokens of r.
Uses(r, n, b) == \E i \in DOMAIN table[r] : table[r][i] = b /\ i <= BlocksFor(n)

\* What the batch loads is for running requests, which the scan of a report
\* counts as long as no token of the batch is.
ReportInv ==
  /\ pc = "running" => syncLoads = {}
  /\ pc = "waiting" =>
       \A x \in syncLoads : \E r \in ToSet(running) : Uses(r, computed[r], x[1])
  /\ pc = "report" =>
       \A b \in report : key[b] = NoKey \/ \E r \in ToSet(running) : Uses(r, Counted(r), b)
  /\ \A r \in skip : status[r] = "RUNNING" \/ (Loading(r) /\ policy = "fail")
  /\ pc = "outputs" \/ skip = {}
  /\ policy = "fail" /\ pc = "outputs" => \A b \in report : key[b] = NoKey

IInv == /\ TypeOK /\ QueueInv /\ TokenInv /\ TableInv
        /\ KeyInv /\ LoadInv /\ IdleInv /\ ReportInv

-------------------------------------------------------------------------------
(* The operators *)

\* The assumption on the constants, one by one.
LEMMA Constants ==
  /\ Blocks \subseteq Nat /\ IsFiniteSet(Blocks)
  /\ BlockSize \in Nat \ {0} /\ PromptLen \in Nat \ {0} /\ MaxOutput \in Nat \ {0}
  /\ MaxLen \in Nat /\ PromptLen < MaxLen /\ BlocksFor(MaxLen) \in Nat
  /\ SharedBlocks \in Nat /\ Twin \in [Requests -> Requests]
  /\ TokenBudget \in Nat \ {0} /\ PrefillThreshold \in Nat /\ MaxFailures \in Nat
<1>1. /\ BlockSize \in Nat \ {0} /\ PromptLen \in Nat \ {0} /\ MaxOutput \in Nat \ {0}
      /\ SharedBlocks \in 0..((PromptLen - 1) \div BlockSize)
  BY KvRecoveryAssumption
<1>2. SharedBlocks \in Nat /\ MaxLen \in Nat /\ PromptLen < MaxLen
  BY <1>1 DEF MaxLen
<1>3. MaxLen + BlockSize - 1 \in Nat
  BY <1>1, <1>2
<1>4. BlocksFor(MaxLen) \in Nat
  BY <1>1, <1>3 DEF BlocksFor
<1> QED BY <1>1, <1>2, <1>4, KvRecoveryAssumption

\* The places of a sequence and its members.
LEMMA SetOfSequence ==
  ASSUME NEW X, NEW s \in Seq(X)
  PROVE  /\ DOMAIN s = 1..Len(s) /\ Len(s) \in Nat
         /\ ToSet(s) = {s[i] : i \in 1..Len(s)} /\ ToSet(s) \subseteq X
         /\ \A i \in 1..Len(s) : s[i] \in ToSet(s) /\ s[i] \in X
BY ElementOfSeq DEF ToSet

\* What Sift leaves, in the operators of the model.
LEMMA SiftSet ==
  ASSUME NEW X, NEW s \in Seq(X), NEW S
  PROVE  /\ Sift(s, S) \in Seq(X)
         /\ ToSet(Sift(s, S)) = ToSet(s) \cap S
         /\ IsInjective(s) => IsInjective(Sift(s, S))
<1> DEFINE t == Sift(s, S)
<1>1. /\ t \in Seq(X)
      /\ {t[k] : k \in 1..Len(t)} = {s[i] : i \in 1..Len(s)} \cap S
      /\ (\A i, j \in 1..Len(s) : s[i] = s[j] => i = j) =>
           \A j, k \in 1..Len(t) : t[j] = t[k] => j = k
  BY SiftMembers
<1> HIDE DEF t
<1>2. DOMAIN s = 1..Len(s) /\ DOMAIN t = 1..Len(t)
  BY <1>1
<1>3. ToSet(t) = ToSet(s) \cap S
  BY <1>1, <1>2 DEF ToSet
<1>4. IsInjective(s) => IsInjective(t)
  BY <1>1, <1>2 DEF IsInjective
<1> QED BY <1>1, <1>3, <1>4 DEF t

\* A queue put behind another that shares no member with it, or one request
\* put before or behind a queue that it is not in.
LEMMA ConcatSet ==
  ASSUME NEW X, NEW s \in Seq(X), NEW t \in Seq(X)
  PROVE  /\ s \o t \in Seq(X)
         /\ ToSet(s \o t) = ToSet(s) \cup ToSet(t)
         /\ IsInjective(s) /\ IsInjective(t) /\ ToSet(s) \cap ToSet(t) = {}
              => IsInjective(s \o t)
<1> DEFINE u == s \o t
<1>1. /\ u \in Seq(X)
      /\ \A i \in 1..Len(s) : i \in 1..Len(u) /\ u[i] = s[i]
      /\ \A j \in 1..Len(t) : j + Len(s) \in 1..Len(u) /\ u[j + Len(s)] = t[j]
      /\ \A i \in 1..Len(u) :
           \/ i \in 1..Len(s) /\ u[i] = s[i]
           \/ i \notin 1..Len(s) /\ i - Len(s) \in 1..Len(t) /\ u[i] = t[i - Len(s)]
      /\ IsInjective(s) /\ IsInjective(t) /\ (\A i \in 1..Len(s), j \in 1..Len(t) : s[i] # t[j])
           => IsInjective(u)
  BY ConcatPlaces
<1> HIDE DEF u
<1>2. /\ ToSet(s) = {s[i] : i \in 1..Len(s)} /\ ToSet(t) = {t[i] : i \in 1..Len(t)}
      /\ ToSet(u) = {u[i] : i \in 1..Len(u)}
  BY <1>1, SetOfSequence
<1>3. ToSet(u) = ToSet(s) \cup ToSet(t)
  <2>1. \A i \in 1..Len(s) : s[i] \in ToSet(u)
    BY <1>1, <1>2
  <2>2. \A i \in 1..Len(t) : t[i] \in ToSet(u)
    BY <1>1, <1>2
  <2>3. \A i \in 1..Len(u) : u[i] \in ToSet(s) \cup ToSet(t)
    BY <1>1, <1>2
  <2> QED BY <1>2, <2>1, <2>2, <2>3
<1>4. ToSet(s) \cap ToSet(t) = {} => \A i \in 1..Len(s), j \in 1..Len(t) : s[i] # t[j]
  BY <1>2
<1> QED BY <1>1, <1>3, <1>4, Zenon DEF u

\* A queue of one request.
LEMMA OneMember ==
  ASSUME NEW x
  PROVE  <<x>> \in Seq({x}) /\ ToSet(<<x>>) = {x} /\ IsInjective(<<x>>)
<1>1. <<x>> \in Seq({x}) /\ Len(<<x>>) = 1 /\ <<x>>[1] = x /\ DOMAIN <<x>> = 1..1
  OBVIOUS
<1>2. \A i \in 1..1 : i = 1
  OBVIOUS
<1> QED BY <1>1, <1>2 DEF ToSet, IsInjective

\* A request put before a queue.
LEMMA PrependSet ==
  ASSUME NEW X, NEW s \in Seq(X), NEW x \in X
  PROVE  /\ <<x>> \o s \in Seq(X)
         /\ ToSet(<<x>> \o s) = ToSet(s) \cup {x}
         /\ IsInjective(s) /\ x \notin ToSet(s) => IsInjective(<<x>> \o s)
<1> DEFINE one == <<x>>
<1>1. one \in Seq(X)
  OBVIOUS
<1>2. ToSet(one) = {x} /\ IsInjective(one)
  BY OneMember
<1> HIDE DEF one
<1>3. /\ one \o s \in Seq(X) /\ ToSet(one \o s) = ToSet(one) \cup ToSet(s)
      /\ IsInjective(one) /\ IsInjective(s) /\ ToSet(one) \cap ToSet(s) = {}
           => IsInjective(one \o s)
  BY <1>1, ConcatSet
<1>4. /\ one \o s \in Seq(X) /\ ToSet(one \o s) = ToSet(s) \cup {x}
      /\ IsInjective(s) /\ x \notin ToSet(s) => IsInjective(one \o s)
  BY <1>2, <1>3
<1> QED BY <1>4 DEF one

\* A request put behind a queue.
LEMMA AppendSet ==
  ASSUME NEW X, NEW s \in Seq(X), NEW x \in X
  PROVE  /\ Append(s, x) \in Seq(X)
         /\ ToSet(Append(s, x)) = ToSet(s) \cup {x}
         /\ IsInjective(s) /\ x \notin ToSet(s) => IsInjective(Append(s, x))
<1> DEFINE one == <<x>>
           u == Append(s, x)
<1>1. one \in Seq(X) /\ u = s \o one
  OBVIOUS
<1>2. ToSet(one) = {x} /\ IsInjective(one)
  BY OneMember
<1> HIDE DEF one, u
<1>3. /\ u \in Seq(X) /\ ToSet(u) = ToSet(s) \cup ToSet(one)
      /\ IsInjective(s) /\ IsInjective(one) /\ ToSet(s) \cap ToSet(one) = {}
           => IsInjective(u)
  BY <1>1, ConcatSet
<1>4. /\ u \in Seq(X) /\ ToSet(u) = ToSet(s) \cup {x}
      /\ IsInjective(s) /\ x \notin ToSet(s) => IsInjective(u)
  BY <1>2, <1>3
<1> QED BY <1>4 DEF u

\* A queue without its first member.
LEMMA TailSet ==
  ASSUME NEW X, NEW s \in Seq(X), s # <<>>
  PROVE  /\ Head(s) \in X /\ Head(s) \in ToSet(s) /\ Tail(s) \in Seq(X)
         /\ ToSet(Tail(s)) \subseteq ToSet(s)
         /\ IsInjective(s) => IsInjective(Tail(s)) /\ ToSet(Tail(s)) = ToSet(s) \ {Head(s)}
<1> DEFINE t == Tail(s)
           h == Head(s)
<1>1. /\ h = s[1] /\ Len(s) \in Nat /\ Len(s) # 0 /\ DOMAIN s = 1..Len(s)
      /\ t \in Seq(X) /\ DOMAIN t = 1..Len(t) /\ Len(t) = Len(s) - 1
      /\ \A i \in 1..Len(t) : t[i] = s[i + 1]
  BY HeadTailProperties, EmptySeq
<1> HIDE DEF t, h
<1>2. 1 \in DOMAIN s /\ \A i \in DOMAIN t : i + 1 \in DOMAIN s /\ i + 1 # 1
  BY <1>1
<1>3. h \in ToSet(s) /\ h \in X
  BY <1>1, <1>2, ElementOfSeq, Zenon DEF ToSet
<1>4. \A x \in ToSet(t) : \E i \in DOMAIN t : x = t[i] /\ x = s[i + 1]
  BY <1>1 DEF ToSet
<1>5. ToSet(t) \subseteq ToSet(s)
  BY <1>2, <1>4, Zenon DEF ToSet
<1>6. \A x \in ToSet(s) : x # h => x \in ToSet(t)
  <2> SUFFICES ASSUME NEW i \in DOMAIN s, s[i] # h PROVE s[i] \in ToSet(t)
    BY DEF ToSet
  <2>1. i # 1 /\ i \in 1..Len(s)
    BY <1>1
  <2>2. i - 1 \in DOMAIN t /\ (i - 1) + 1 = i
    BY <1>1, <2>1
  <2>3. t[i - 1] = s[i]
    BY <1>1, <2>2
  <2> QED BY <2>2, <2>3, Zenon DEF ToSet
<1>7. ASSUME IsInjective(s) PROVE IsInjective(t) /\ ToSet(t) = ToSet(s) \ {h}
  <2>1. \A i, j \in DOMAIN s : s[i] = s[j] => i = j
    BY <1>7 DEF IsInjective
  <2>2. \A i \in DOMAIN t : t[i] # h
    BY <1>1, <1>2, <2>1
  <2>3. ASSUME NEW i \in DOMAIN t, NEW j \in DOMAIN t, t[i] = t[j] PROVE i = j
    <3>1. i + 1 = j + 1
      BY <1>1, <1>2, <2>1, <2>3
    <3> QED BY <3>1, <1>1
  <2> QED BY <1>4, <1>5, <1>6, <2>2, <2>3 DEF IsInjective
<1> QED BY <1>1, <1>3, <1>5, <1>7 DEF t, h

\* A queue without its last member.
LEMMA FrontSet ==
  ASSUME NEW X, NEW s \in Seq(X), Len(s) > 0
  PROVE  /\ Last(s) \in X /\ Last(s) \in ToSet(s) /\ Front(s) \in Seq(X)
         /\ Len(Front(s)) = Len(s) - 1 /\ \A i \in 1..Len(s) - 1 : Front(s)[i] = s[i]
         /\ IsInjective(s) => IsInjective(Front(s)) /\ ToSet(Front(s)) = ToSet(s) \ {Last(s)}
<1> DEFINE t == Front(s)
           l == Last(s)
<1>1. Len(s) \in Nat /\ DOMAIN s = 1..Len(s) /\ \A i \in 1..Len(s) : s[i] \in X
  BY ElementOfSeq
<1>2. /\ l = s[Len(s)] /\ t \in Seq(X) /\ DOMAIN t = 1..Len(t) /\ Len(t) = Len(s) - 1
      /\ \A i \in 1..Len(s) - 1 : t[i] = s[i]
  <2>1. 1 \in Int /\ Len(s) - 1 \in Int /\ \A i \in 1..Len(s) - 1 : s[i] \in X
    BY <1>1
  <2>2. /\ t \in Seq(X) /\ Len(t) = IF 1 <= Len(s) - 1 THEN (Len(s) - 1) - 1 + 1 ELSE 0
        /\ \A i \in 1..(Len(s) - 1) - 1 + 1 : t[i] = s[1 + i - 1]
    BY <2>1, SubSeqProperties DEF Front
  <2>3. DOMAIN t = 1..Len(t) /\ l = s[Len(s)]
    BY <2>2 DEF Last
  <2> HIDE DEF t, l
  <2>4. \A i \in 1..Len(s) - 1 : i \in 1..(Len(s) - 1) - 1 + 1 /\ 1 + i - 1 = i
    BY <1>1
  <2>5. \A i \in 1..Len(s) - 1 : t[i] = s[i]
    BY <2>2, <2>4
  <2>6. Len(t) = Len(s) - 1
    <3>1. \A n \in Nat : n > 0 => (IF 1 <= n - 1 THEN (n - 1) - 1 + 1 ELSE 0) = n - 1
      OBVIOUS
    <3>2. Len(s) \in Nat /\ Len(s) > 0
      BY <1>1
    <3> QED BY <2>2, <3>1, <3>2
  <2> QED BY <2>2, <2>3, <2>5, <2>6
<1> HIDE DEF t, l
<1>3. Len(s) \in DOMAIN s /\ \A i \in DOMAIN t : i \in DOMAIN s /\ i # Len(s) /\ t[i] = s[i]
  BY <1>1, <1>2
<1>4. l \in ToSet(s) /\ l \in X
  BY <1>1, <1>2, <1>3, Zenon DEF ToSet
<1>5. \A i \in DOMAIN s : i # Len(s) => i \in DOMAIN t
  BY <1>1, <1>2
<1>6. ASSUME IsInjective(s) PROVE IsInjective(t) /\ ToSet(t) = ToSet(s) \ {l}
  <2>1. \A i, j \in DOMAIN s : s[i] = s[j] => i = j
    BY <1>6 DEF IsInjective
  <2>2. \A i \in DOMAIN t : t[i] \in ToSet(s) /\ t[i] # l
    BY <1>2, <1>3, <2>1 DEF ToSet
  <2>3. \A i \in DOMAIN s : s[i] # l => s[i] \in ToSet(t)
    BY <1>2, <1>3, <1>5 DEF ToSet
  <2> QED BY <1>3, <2>1, <2>2, <2>3 DEF IsInjective, ToSet
<1> QED BY <1>2, <1>4, <1>6 DEF t, l

-------------------------------------------------------------------------------
(* Tokens and blocks *)

\* What \div returns, and how multiples compare.
LEMMA Quotient ==
  ASSUME NEW a \in Nat, NEW b \in Nat \ {0}
  PROVE  a \div b \in Nat /\ b * (a \div b) <= a /\ a < b * (a \div b) + b
OBVIOUS

\* Multiples of a block size keep the order of their factors.
LEMMA Multiples ==
  ASSUME NEW b \in Nat \ {0}, NEW p \in Nat, NEW q \in Nat
  PROVE  /\ b * p \in Nat
         /\ p <= q => b * p <= b * q
         /\ b * p < b * q + b => p <= q
<1>1. b * p \in Nat /\ b * q \in Nat
  OBVIOUS
<1>2. p <= q => b * p <= b * q
  OBVIOUS
<1>3. ASSUME q < p, b * p < b * q + b PROVE FALSE
  <2>1. b * (q + 1) <= b * p
    BY <1>3
  <2>2. b * (q + 1) = b * q + b
    OBVIOUS
  <2> QED BY <1>1, <1>3, <2>1, <2>2
<1> QED BY <1>1, <1>2, <1>3

\* How many blocks some tokens need.
LEMMA BlocksForTokens ==
  ASSUME NEW n \in Nat
  PROVE  /\ BlocksFor(n) \in Nat
         /\ BlockSize * BlocksFor(n) < n + BlockSize
         /\ n <= BlockSize * BlocksFor(n)
<1>1. BlockSize \in Nat \ {0}
  BY Constants
<1>2. n + BlockSize - 1 \in Nat
  BY <1>1
<1> DEFINE q == BlocksFor(n)
<1>3. q \in Nat /\ BlockSize * q <= n + BlockSize - 1 /\ n + BlockSize - 1 < BlockSize * q + BlockSize
  BY <1>1, <1>2, Quotient DEF BlocksFor
<1> HIDE DEF q
<1>4. BlockSize * q \in Nat
  BY <1>1, <1>3
<1> DEFINE m == BlockSize * q
<1>5. m \in Nat /\ m <= n + BlockSize - 1 /\ n + BlockSize - 1 < m + BlockSize
  BY <1>3, <1>4
<1> HIDE DEF m
<1>6. m < n + BlockSize /\ n <= m
  BY <1>1, <1>5
<1> QED BY <1>3, <1>6 DEF m, q

\* More tokens need no fewer blocks, and no tokens need none.
LEMMA BlocksForMonotone ==
  ASSUME NEW m \in Nat, NEW n \in Nat, m <= n
  PROVE  BlocksFor(m) <= BlocksFor(n)
<1> DEFINE p == BlocksFor(m)
           q == BlocksFor(n)
<1>1. BlockSize \in Nat \ {0}
  BY Constants
<1>2. p \in Nat /\ q \in Nat /\ BlockSize * p < m + BlockSize /\ n <= BlockSize * q
  BY BlocksForTokens
<1> HIDE DEF p, q
<1>3. BlockSize * p \in Nat /\ BlockSize * q \in Nat
  BY <1>1, <1>2
<1>4. BlockSize * p < BlockSize * q + BlockSize
  BY <1>1, <1>2, <1>3
<1>5. p <= q
  BY <1>1, <1>2, <1>4, Multiples
<1> QED BY <1>5 DEF p, q

\* No tokens, no blocks.
LEMMA BlocksForZero == BlocksFor(0) = 0
<1> DEFINE p == BlocksFor(0)
<1>1. BlockSize \in Nat \ {0}
  BY Constants
<1>2. p \in Nat /\ BlockSize * p < 0 + BlockSize
  BY BlocksForTokens
<1> HIDE DEF p
<1>3. BlockSize * p < BlockSize * 0 + BlockSize
  BY <1>1, <1>2
<1>4. p <= 0
  BY <1>1, <1>2, <1>3, Multiples
<1> QED BY <1>2, <1>4 DEF p

\* Full blocks are among those needed.
LEMMA FullBlocks ==
  ASSUME NEW n \in Nat
  PROVE  n \div BlockSize \in Nat /\ n \div BlockSize <= BlocksFor(n)
<1> DEFINE p == n \div BlockSize
           q == BlocksFor(n)
<1>1. BlockSize \in Nat \ {0}
  BY Constants
<1>2. p \in Nat /\ q \in Nat /\ BlockSize * p <= n /\ n <= BlockSize * q
  BY <1>1, Quotient, BlocksForTokens
<1> HIDE DEF p, q
<1>3. BlockSize * p \in Nat /\ BlockSize * q \in Nat
  BY <1>1, <1>2
<1>4. BlockSize * p < BlockSize * q + BlockSize
  BY <1>1, <1>2, <1>3
<1>5. p <= q
  BY <1>1, <1>2, <1>4, Multiples
<1> QED BY <1>2, <1>5 DEF p, q

\* The block of position p: one of those for any n tokens with p among them, and
\* after k blocks when p is.
LEMMA PlaceOfPosition ==
  ASSUME NEW p \in Nat
  PROVE  /\ p \div BlockSize + 1 \in Nat \ {0} /\ p % BlockSize \in 0..BlockSize - 1
         /\ \A n \in Nat : p < n => p \div BlockSize + 1 <= BlocksFor(n)
         /\ \A k \in Nat : k * BlockSize <= p => k < p \div BlockSize + 1
<1> DEFINE q == p \div BlockSize
<1>1. BlockSize \in Nat \ {0}
  BY Constants
<1>2. /\ q \in Nat /\ BlockSize * q <= p /\ p < BlockSize * q + BlockSize
      /\ p % BlockSize \in 0..BlockSize - 1
  BY <1>1, Quotient
<1> HIDE DEF q
<1>3. ASSUME NEW n \in Nat, p < n PROVE q + 1 <= BlocksFor(n)
  <2> DEFINE m == BlocksFor(n)
  <2>1. m \in Nat /\ n <= BlockSize * m
    BY BlocksForTokens
  <2> HIDE DEF m
  <2>2. ASSUME m < q + 1 PROVE FALSE
    <3>1. m <= q
      BY <1>2, <2>1, <2>2
    <3>2. BlockSize * m <= BlockSize * q
      BY <1>1, <1>2, <2>1, <3>1, Multiples
    <3>3. BlockSize * m \in Nat /\ BlockSize * q \in Nat
      BY <1>1, <1>2, <2>1
    <3> QED BY <1>2, <1>3, <2>1, <3>2, <3>3
  <2>3. q + 1 <= m
    BY <1>2, <2>1, <2>2
  <2> QED BY <2>3 DEF m
<1>4. ASSUME NEW k \in Nat, k * BlockSize <= p PROVE k < q + 1
  <2>1. BlockSize * k = k * BlockSize /\ BlockSize * k \in Nat /\ BlockSize * q \in Nat
    BY <1>1, <1>2
  <2>2. BlockSize * k < BlockSize * q + BlockSize
    BY <1>1, <1>2, <1>4, <2>1
  <2>3. k <= q
    BY <1>1, <1>2, <2>2, Multiples
  <2> QED BY <1>2, <2>3
<1>5. q + 1 \in Nat \ {0}
  BY <1>2
<1> QED BY <1>2, <1>3, <1>4, <1>5 DEF q

\* The tokens before the i-th of the blocks some tokens need.
LEMMA TokensBefore ==
  ASSUME NEW n \in Nat, NEW i \in 1..BlocksFor(n)
  PROVE  (i - 1) * BlockSize \in Nat /\ (i - 1) * BlockSize <= n
<1> DEFINE q == BlocksFor(n)
           k == i - 1
<1>1. BlockSize \in Nat \ {0}
  BY Constants
<1>2. q \in Nat /\ BlockSize * q < n + BlockSize
  BY BlocksForTokens
<1>3. k \in Nat /\ k + 1 <= q
  BY <1>2
<1> HIDE DEF q, k
<1>4. BlockSize * (k + 1) <= BlockSize * q
  BY <1>1, <1>2, <1>3, Multiples
<1>5. BlockSize * (k + 1) = BlockSize * k + BlockSize /\ k * BlockSize = BlockSize * k
  BY <1>1, <1>3
<1>6. BlockSize * k \in Nat /\ BlockSize * q \in Nat
  BY <1>1, <1>2, <1>3
<1>7. BlockSize * k <= n
  BY <1>1, <1>2, <1>4, <1>5, <1>6
<1>8. k * BlockSize \in Nat /\ k * BlockSize <= n
  BY <1>5, <1>6, <1>7
<1> QED BY <1>8 DEF k

-------------------------------------------------------------------------------
(* Blocks *)

\* The blocks of a finite set in the order of their ids.
LEMMA InOrderSequence ==
  ASSUME NEW S, S \subseteq Nat, IsFiniteSet(S)
  PROVE  /\ InOrder(S) \in Seq(S) /\ Len(InOrder(S)) = Cardinality(S)
         /\ IsInjective(InOrder(S)) /\ ToSet(InOrder(S)) = S
<1> DEFINE rank == [b \in S |-> Cardinality({c \in S : c < b})]
           size == Cardinality(S)
           s == InOrder(S)
<1>1. size \in Nat
  BY FS_CardinalityType
<1>2. \A b \in S : rank[b] = Cardinality({c \in S : c < b})
  OBVIOUS
<1>4. /\ \A b \in S : rank[b] \in 0..size - 1
      /\ \A b, d \in S : b < d => rank[b] < rank[d]
      /\ \A k \in 0..size - 1 : \E b \in S : rank[b] = k
  <2> HIDE DEF rank
  <2>1. /\ \A b \in S : Cardinality({c \in S : c < b}) \in 0..size - 1
        /\ \A b, d \in S : b < d => Cardinality({c \in S : c < b}) < Cardinality({c \in S : c < d})
        /\ \A k \in 0..size - 1 : \E b \in S : Cardinality({c \in S : c < b}) = k
    BY Ranks
  <2> QED BY <1>2, <2>1, Zenon
<1>3. DOMAIN s = 1..size
  BY DEF InOrder
<1>5. ASSUME NEW i \in 1..size PROVE s[i] \in S /\ rank[s[i]] = i - 1
  <2>1. i - 1 \in 0..size - 1
    <3> HIDE DEF size
    <3> QED BY <1>1
  <2>2. PICK d \in S : rank[d] = i - 1
    <3> HIDE DEF rank, size
    <3> QED BY <1>4, <2>1
  <2>3. Cardinality({c \in S : c < d}) = i - 1
    BY <1>2, <2>2
  <2>4. s[i] = CHOOSE b \in S : Cardinality({c \in S : c < b}) = i - 1
    BY DEF InOrder
  <2>5. s[i] \in S /\ Cardinality({c \in S : c < s[i]}) = i - 1
    <3> HIDE DEF s, rank, size
    <3> QED BY <2>3, <2>4
  <2> QED BY <1>2, <2>5
<1>6. s \in [1..size -> S]
  <2>1. \A i \in 1..size : s[i] \in S
    BY <1>5
  <2>2. \A i \in 1..size : s[i] = CHOOSE b \in S : Cardinality({c \in S : c < b}) = i - 1
    BY DEF InOrder
  <2> DEFINE pick(i) == CHOOSE b \in S : Cardinality({c \in S : c < b}) = i - 1
  <2>3. s = [i \in 1..size |-> pick(i)]
    BY Zenon DEF InOrder
  <2>4. \A i \in 1..size : pick(i) \in S
    BY <2>1, <2>2, Zenon
  <2> HIDE DEF pick, s, size
  <2> QED BY <2>3, <2>4
<1> HIDE DEF rank, size, s
<1>7. s \in Seq(S) /\ Len(s) = size
  BY <1>1, <1>3, <1>6
<1>8. ASSUME NEW i \in 1..size, NEW j \in 1..size, s[i] = s[j] PROVE i = j
  <2>1. i - 1 = j - 1
    BY <1>5, <1>8
  <2> QED BY <2>1, <1>1
<1>9. ASSUME NEW b \in S PROVE \E i \in 1..size : s[i] = b
  <2>1. rank[b] \in 0..size - 1 /\ b \in Nat
    BY <1>4
  <2>2. rank[b] + 1 \in 1..size /\ (rank[b] + 1) - 1 = rank[b]
    BY <1>1, <2>1
  <2>3. s[rank[b] + 1] \in S /\ rank[s[rank[b] + 1]] = rank[b]
    BY <1>5, <2>2
  <2> DEFINE d == s[rank[b] + 1]
  <2>4. d \in S /\ d \in Nat /\ rank[d] = rank[b]
    BY <2>3
  <2> HIDE DEF d
  <2>5. ~ (b < d) /\ ~ (d < b)
    BY <1>4, <2>1, <2>4
  <2>6. d = b
    BY <2>1, <2>4, <2>5
  <2> QED BY <2>2, <2>6 DEF d
<1>10. ToSet(s) = S
  <2>1. ToSet(s) = {s[i] : i \in 1..size}
    BY <1>3 DEF ToSet
  <2> QED BY <1>5, <1>9, <2>1
<1>11. IsInjective(s)
  BY <1>3, <1>8 DEF IsInjective
<1> QED BY <1>7, <1>10, <1>11 DEF size, s

\* The numbers of a request that types give.
LEMMA Numbers ==
  ASSUME TypeOK, NEW r \in Requests
  PROVE  /\ computed[r] \in Nat /\ computed[r] <= MaxLen
         /\ tokens[r] \in Nat /\ PromptLen <= tokens[r] /\ tokens[r] <= MaxLen /\ 1 <= tokens[r]
         /\ sched[r] \in Nat /\ sched[r] <= TokenBudget
         /\ table[r] \in Seq(Blocks) /\ Len(table[r]) \in Nat
         /\ DOMAIN table[r] = 1..Len(table[r]) /\ ToSet(table[r]) \subseteq Blocks
         /\ \A i \in 1..Len(table[r]) : table[r][i] \in Blocks /\ table[r][i] \in ToSet(table[r])
<1>1. /\ computed[r] \in 0..MaxLen /\ tokens[r] \in PromptLen..MaxLen
      /\ sched[r] \in 0..TokenBudget /\ table[r] \in Seq(Blocks)
  BY DEF TypeOK
<1>2. MaxLen \in Nat /\ PromptLen \in Nat \ {0} /\ TokenBudget \in Nat
  BY Constants
<1> QED BY <1>1, <1>2, SetOfSequence

\* get_computed_blocks: blocks that the prefix cache finds for the first tokens
\* of r, all but one of them at most.
LEMMA CachedPrefixBlocks ==
  ASSUME TypeOK, NEW r \in Requests
  PROVE  /\ CachedPrefix(r) \in Seq(Blocks) /\ Len(CachedPrefix(r)) \in Nat
         /\ Len(CachedPrefix(r)) * BlockSize <= tokens[r] - 1
         /\ Len(CachedPrefix(r)) <= BlocksFor(MaxLen)
         /\ \A i \in 1..Len(CachedPrefix(r)) :
              CachedPrefix(r)[i] \in Blocks /\ key[CachedPrefix(r)[i]] = Content(r, i)
<1> DEFINE n == (tokens[r] - 1) \div BlockSize
           missing == {i \in 1..n : Cached(r, i) = {}}
           D == {j \in 1..n : \A m \in missing : j < m}
<1>1. BlockSize \in Nat \ {0} /\ Blocks \subseteq Nat /\ MaxLen \in Nat /\ BlocksFor(MaxLen) \in Nat
  BY Constants
<1>2. tokens[r] - 1 \in Nat /\ tokens[r] - 1 <= MaxLen
  BY <1>1, Numbers
<1>3. n \in Nat /\ BlockSize * n <= tokens[r] - 1 /\ n <= BlocksFor(tokens[r] - 1)
  BY <1>1, <1>2, Quotient, FullBlocks
<1>4. BlocksFor(tokens[r] - 1) <= BlocksFor(MaxLen) /\ BlocksFor(tokens[r] - 1) \in Nat
  BY <1>1, <1>2, BlocksForMonotone, BlocksForTokens
<1> HIDE DEF n
<1>5. PICK k \in 0..n : D = 1..k
  <2>1. CASE missing = {}
    <3>1. D = 1..n
      BY <2>1
    <3>2. n \in 0..n
      BY <1>3
    <3> HIDE DEF D
    <3> QED BY <3>1, <3>2
  <2>2. CASE missing # {}
    <3>1. missing \subseteq Nat
      BY <1>3
    <3>2. PICK m \in missing : \A l \in missing : m <= l
      BY <2>2, <3>1, LeastNumber
    <3>3. m \in 1..n /\ m \in Nat /\ m - 1 \in 0..n
      BY <3>1, <3>2, <1>3
    <3>4. \A l \in missing : l \in Nat
      BY <3>1
    <3>5. \A j \in 1..n : (\A l \in missing : j < l) <=> j < m
      <4> HIDE DEF missing
      <4> QED BY <3>2, <3>3, <3>4, <1>3
    <3>6. D = 1..(m - 1)
      <4> HIDE DEF missing
      <4>1. \A j \in 1..n : j < m <=> j \in 1..(m - 1)
        BY <3>3, <1>3
      <4>2. 1..(m - 1) \subseteq 1..n
        BY <3>3, <1>3
      <4> QED BY <3>5, <4>1, <4>2
    <3> QED BY <3>3, <3>6
  <2> QED BY <2>1, <2>2
<1>6. CachedPrefix(r) = [i \in 1..k |-> Min(Cached(r, i))]
  BY <1>5, Zenon DEF CachedPrefix, n
<1>7. ASSUME NEW i \in 1..k
      PROVE  Min(Cached(r, i)) \in Blocks /\ key[Min(Cached(r, i))] = Content(r, i)
  <2>1. i \in D
    BY <1>5
  <2>2. i \in 1..n /\ i \notin missing
    <3>1. i \in Nat /\ ~ (i < i)
      BY <1>5
    <3> QED BY <2>1, <3>1
  <2>3. Cached(r, i) # {} /\ Cached(r, i) \subseteq Nat
    BY <2>2, <1>1 DEF Cached
  <2>4. Min(Cached(r, i)) \in Cached(r, i)
    BY <2>3, MinOfNumbers
  <2> QED BY <2>4 DEF Cached
<1> HIDE DEF D, missing
<1>8. /\ CachedPrefix(r) \in Seq(Blocks) /\ Len(CachedPrefix(r)) = k
      /\ \A i \in 1..k : CachedPrefix(r)[i] = Min(Cached(r, i))
  <2> DEFINE f == [i \in 1..k |-> Min(Cached(r, i))]
  <2>1. f \in [1..k -> Blocks] /\ DOMAIN f = 1..k /\ \A i \in 1..k : f[i] = Min(Cached(r, i))
    BY <1>7
  <2> HIDE DEF f
  <2>2. k \in Nat
    BY <1>3
  <2>3. f \in Seq(Blocks) /\ Len(f) = k
    BY <2>1, <2>2
  <2> QED BY <1>6, <2>1, <2>3 DEF f
<1>9. k * BlockSize <= tokens[r] - 1 /\ k <= BlocksFor(MaxLen)
  <2>1. k \in Nat /\ k <= n
    BY <1>3
  <2>2. BlockSize * k <= BlockSize * n /\ k * BlockSize = BlockSize * k
        /\ BlockSize * k \in Nat /\ BlockSize * n \in Nat
    BY <1>1, <1>3, <2>1, Multiples
  <2> QED BY <1>1, <1>2, <1>3, <1>4, <2>1, <2>2
<1> QED BY <1>5, <1>7, <1>8, <1>9, <1>3

\* What a block caches is a key of the prefix cache.
LEMMA ContentIsKey ==
  ASSUME NEW r \in Requests, NEW i \in Nat \ {0}
  PROVE  /\ Content(r, i) # NoKey
         /\ i <= BlocksFor(MaxLen) => Content(r, i) \in Contents
<1>1. /\ NoKey \notin ({"shared"} \cup Requests) \X Nat /\ Twin[r] \in Requests
      /\ BlocksFor(MaxLen) \in Nat
  BY KvRecoveryAssumption, Constants
<1>2. PICK x \in {"shared"} \cup Requests : Content(r, i) = <<x, i>>
  BY <1>1 DEF Content
<1>3. i <= BlocksFor(MaxLen) => i \in 1..BlocksFor(MaxLen)
  BY <1>1
<1>4. <<x, i>> \in ({"shared"} \cup Requests) \X Nat
  OBVIOUS
<1> QED BY <1>1, <1>2, <1>3, <1>4 DEF Contents

\* allocate_slots takes as many free blocks as are missing.
LEMMA TakenBlocks ==
  ASSUME TypeOK, NEW bs \in Seq(Blocks), NEW n \in Nat, NEW fresh \in Takings(bs, n)
  PROVE  /\ fresh \subseteq Blocks /\ fresh \subseteq FreeBlocks /\ fresh \cap ToSet(bs) = {}
         /\ IsFiniteSet(fresh) /\ Cardinality(fresh) = Shortage(bs, n)
         /\ Shortage(bs, n) \in Nat
<1> DEFINE A == Available(bs)
           plain == {b \in A : key[b] = NoKey}
           k == Shortage(bs, n)
<1>1. Blocks \subseteq Nat /\ IsFiniteSet(Blocks)
  BY Constants
<1>2. k \in Nat
  BY BlocksForTokens, SetOfSequence DEF Shortage
<1>3. A \subseteq Blocks /\ A \subseteq FreeBlocks /\ A \cap ToSet(bs) = {}
  BY DEF Available, FreeBlocks
<1>4. fresh \in IF k <= Cardinality(plain)
                THEN {{b \in plain : Cardinality({c \in plain : c < b}) < k}}
                ELSE {plain \cup more : more \in kSubset(k - Cardinality(plain), A \ plain)}
  BY Zenon DEF Takings
<1> HIDE DEF k, A
<1>5. plain \in SUBSET Blocks /\ plain \in SUBSET A
  BY <1>3
<1> HIDE DEF plain
<1>6. plain \subseteq Nat /\ IsFiniteSet(plain)
  BY <1>1, <1>5, FS_Subset
<1>7. CASE k <= Cardinality(plain)
  <2>1. fresh = {b \in plain : Cardinality({c \in plain : c < b}) < k}
    BY <1>4, <1>7
  <2>2. Cardinality(fresh) = k
    BY <1>2, <1>6, <1>7, <2>1, SmallestMembers
  <2>3. fresh \in SUBSET plain
    BY <2>1
  <2>4. IsFiniteSet(fresh)
    BY <1>6, <2>3, FS_Subset
  <2>5. fresh \subseteq Blocks /\ fresh \subseteq FreeBlocks /\ fresh \cap ToSet(bs) = {}
    BY <1>3, <1>5, <2>3
  <2> QED BY <1>2, <2>2, <2>4, <2>5 DEF k
<1>8. CASE ~ (k <= Cardinality(plain))
  <2>1. PICK more \in kSubset(k - Cardinality(plain), A \ plain) : fresh = plain \cup more
    BY <1>4, <1>8
  <2>2. more \in SUBSET (A \ plain) /\ Cardinality(more) = k - Cardinality(plain)
    BY <2>1 DEF kSubset
  <2>3. more \in SUBSET Blocks /\ plain \cap more = {}
    BY <1>3, <2>2
  <2>4. IsFiniteSet(more)
    BY <1>1, <2>3, FS_Subset
  <2>5. /\ IsFiniteSet(fresh)
        /\ Cardinality(fresh) = Cardinality(plain) + Cardinality(more) - Cardinality({})
    BY <1>6, <2>1, <2>3, <2>4, FS_Union
  <2>6. Cardinality({}) = 0 /\ Cardinality(plain) \in Nat
    BY <1>6, FS_EmptySet, FS_CardinalityType
  <2>7. Cardinality(fresh) = k
    BY <1>2, <2>2, <2>5, <2>6
  <2>8. fresh \subseteq Blocks /\ fresh \subseteq FreeBlocks /\ fresh \cap ToSet(bs) = {}
    BY <1>3, <1>5, <2>1, <2>2
  <2> QED BY <1>2, <2>5, <2>7, <2>8 DEF k
<1> QED BY <1>7, <1>8

\* What cache_blocks leaves for a block.
LEMMA KeysAfter ==
  ASSUME NEW keys, NEW r, NEW bs, NEW n, NEW b \in Blocks
  PROVE  \/ /\ KeyedUpTo(keys, r, bs, n)[b] = keys[b]
            /\ \A i \in 1..(n \div BlockSize) : bs[i] # b
         \/ \E i \in 1..(n \div BlockSize) :
              bs[i] = b /\ KeyedUpTo(keys, r, bs, n)[b] = Content(r, i)
<1> DEFINE m == n \div BlockSize
<1>1. KeyedUpTo(keys, r, bs, n)[b] = IF \E i \in 1..m : bs[i] = b
                    THEN Content(r, CHOOSE i \in 1..m : bs[i] = b) ELSE keys[b]
  BY DEF KeyedUpTo
<1> HIDE DEF m
<1>2. CASE \E i \in 1..m : bs[i] = b
  <2> DEFINE j == CHOOSE i \in 1..m : bs[i] = b
  <2>1. j \in 1..m /\ bs[j] = b
    BY <1>2
  <2>2. KeyedUpTo(keys, r, bs, n)[b] = Content(r, j)
    BY <1>1, <1>2
  <2> HIDE DEF j
  <2> QED BY <2>1, <2>2 DEF m
<1>3. CASE ~ \E i \in 1..m : bs[i] = b
  BY <1>1, <1>3 DEF m
<1> QED BY <1>2, <1>3

\* What allocate_slots does: r has the blocks all, those of bs first and then
\* the free blocks fresh.
Extended(r, bs, n, toCache, fresh, all) ==
  /\ table' = [table EXCEPT ![r] = all]
  /\ key' = KeyedUpTo([b \in Blocks |-> IF b \in fresh THEN NoKey ELSE key[b]],
                      r, all, toCache)
  /\ right' \subseteq right
  /\ \A s \in Requests : fresh \cap ToSet(table[s]) = {}
  /\ fresh \cap ToSet(bs) = {}
  /\ Len(bs) <= Len(all) /\ BlocksFor(n) <= Len(all)
  /\ Len(all) = Len(bs) \/ Len(all) = BlocksFor(n)
  /\ \A i \in 1..Len(bs) : all[i] = bs[i]
  /\ \A i \in Len(bs) + 1..Len(all) : all[i] \in fresh
  /\ \A i, j \in Len(bs) + 1..Len(all) : all[i] = all[j] => i = j

\* allocate_slots leaves the blocks given to it and adds free ones behind them.
LEMMA Allocated ==
  ASSUME TypeOK, NEW r \in Requests, NEW bs \in Seq(Blocks), NEW n \in Nat, NEW toCache,
         Allocate(r, bs, n, toCache)
  PROVE  \E fresh \in SUBSET Blocks, all \in Seq(Blocks) :
           Extended(r, bs, n, toCache, fresh, all)
<1>1. PICK fresh \in Takings(bs, n) :
        /\ table' = [table EXCEPT ![r] = bs \o InOrder(fresh)]
        /\ key' = KeyedUpTo([b \in Blocks |-> IF b \in fresh THEN NoKey ELSE key[b]],
                            r, bs \o InOrder(fresh), toCache)
        /\ right' = {s \in right : s[1] \notin fresh}
  BY DEF Allocate
<1>2. /\ fresh \subseteq Blocks /\ fresh \subseteq FreeBlocks /\ fresh \cap ToSet(bs) = {}
      /\ IsFiniteSet(fresh) /\ Cardinality(fresh) = Shortage(bs, n) /\ Shortage(bs, n) \in Nat
  BY TakenBlocks
<1> DEFINE new == InOrder(fresh)
           all == bs \o new
<1>3. fresh \subseteq Nat
  BY <1>2, Constants
<1>4. /\ new \in Seq(fresh) /\ Len(new) = Cardinality(fresh) /\ IsInjective(new)
      /\ ToSet(new) = fresh
  BY <1>2, <1>3, InOrderSequence
<1> HIDE DEF new
<1>5. /\ new \in Seq(Blocks) /\ DOMAIN new = 1..Len(new)
      /\ \A i \in 1..Len(new) : new[i] \in fresh
  <2>1. new \in [1..Len(new) -> fresh] /\ Len(new) \in Nat
    BY <1>4
  <2> QED BY <1>2, <2>1
<1>6. /\ all \in Seq(Blocks) /\ Len(all) = Len(bs) + Len(new)
      /\ \A i \in 1..Len(bs) : all[i] = bs[i]
      /\ \A i \in 1..Len(all) :
           \/ i \in 1..Len(bs) /\ all[i] = bs[i]
           \/ i \notin 1..Len(bs) /\ i - Len(bs) \in 1..Len(new) /\ all[i] = new[i - Len(bs)]
  BY <1>5, ConcatPlaces
<1> HIDE DEF all
<1>7. Len(bs) \in Nat /\ BlocksFor(n) \in Nat
  BY SetOfSequence, BlocksForTokens
<1>8. /\ Len(bs) <= Len(all) /\ BlocksFor(n) <= Len(all)
      /\ Len(all) = Len(bs) \/ Len(all) = BlocksFor(n)
  BY <1>2, <1>4, <1>6, <1>7 DEF Shortage
<1>9. \A i \in Len(bs) + 1..Len(all) : /\ i \in Nat /\ all[i] \in fresh
                                       /\ i - Len(bs) \in 1..Len(new) /\ all[i] = new[i - Len(bs)]
  <2> SUFFICES ASSUME NEW i \in Len(bs) + 1..Len(all)
               PROVE  /\ i \in Nat /\ all[i] \in fresh
                      /\ i - Len(bs) \in 1..Len(new) /\ all[i] = new[i - Len(bs)]
    OBVIOUS
  <2>1. i \in Nat /\ i \in 1..Len(all) /\ i \notin 1..Len(bs)
    BY <1>7
  <2> QED BY <1>5, <1>6, <2>1
<1>10. ASSUME NEW i \in Len(bs) + 1..Len(all), NEW j \in Len(bs) + 1..Len(all), all[i] = all[j]
       PROVE  i = j
  <2>1. i - Len(bs) = j - Len(bs)
    BY <1>4, <1>5, <1>9, <1>10 DEF IsInjective
  <2> QED BY <1>7, <1>9, <2>1
<1>11. \A s \in Requests : fresh \cap ToSet(table[s]) = {}
  BY <1>2 DEF FreeBlocks
<1>12. right' \subseteq right
  BY <1>1
<1>13. Extended(r, bs, n, toCache, fresh, all)
  BY <1>1, <1>2, <1>6, <1>8, <1>9, <1>10, <1>11, <1>12 DEF Extended, all, new
<1> QED BY <1>2, <1>6, <1>13

\* Blocks that r may start from: if they are cached or held, then with what r
\* uses them for, and no background load fills them.
Usable(r, bs) ==
  /\ Len(bs) <= BlocksFor(MaxLen)
  /\ \A i \in 1..Len(bs) : key[bs[i]] \in {NoKey, Content(r, i)}
  /\ \A i, j \in 1..Len(bs) : bs[i] = bs[j] => Content(r, i) = Content(r, j)
  /\ \A s \in Requests : \A i \in 1..Len(bs), j \in 1..Len(table[s]) :
       bs[i] = table[s][j] => Content(r, i) = Content(s, j)
  /\ \A s \in Requests : \A x \in loading[s] : x[1] \notin ToSet(bs)

\* A request may hold the blocks the prefix cache finds for it.
LEMMA CachedUsable ==
  ASSUME TypeOK, KeyInv, NEW r \in Requests
  PROVE  Usable(r, CachedPrefix(r))
<1> DEFINE bs == CachedPrefix(r)
<1>1. /\ bs \in Seq(Blocks) /\ Len(bs) \in Nat /\ Len(bs) <= BlocksFor(MaxLen)
      /\ \A i \in 1..Len(bs) : bs[i] \in Blocks /\ key[bs[i]] = Content(r, i)
  BY CachedPrefixBlocks
<1> HIDE DEF bs
<1>2. \A i \in 1..Len(bs) : Content(r, i) # NoKey
  BY <1>1, ContentIsKey
<1>3. \A s \in Requests : DOMAIN table[s] = 1..Len(table[s])
  BY Numbers
<1>4. \A s \in Requests : \A i \in 1..Len(bs), j \in 1..Len(table[s]) :
        bs[i] = table[s][j] => Content(r, i) = Content(s, j)
  <2> SUFFICES ASSUME NEW s \in Requests, NEW i \in 1..Len(bs), NEW j \in 1..Len(table[s]),
                      bs[i] = table[s][j]
               PROVE  Content(r, i) = Content(s, j)
    OBVIOUS
  <2>1. key[table[s][j]] \in {NoKey, Content(s, j)}
    BY <1>3 DEF KeyInv
  <2> QED BY <1>1, <1>2, <2>1
<1>5. ASSUME NEW s \in Requests, NEW x \in loading[s], x[1] \in ToSet(bs) PROVE FALSE
  <2>1. key[x[1]] = NoKey
    BY DEF KeyInv
  <2>2. PICK i \in 1..Len(bs) : x[1] = bs[i]
    BY <1>1, <1>5, SetOfSequence
  <2> QED BY <1>1, <1>2, <2>1, <2>2
<1>6. \A i, j \in 1..Len(bs) : bs[i] = bs[j] => Content(r, i) = Content(r, j)
  BY <1>1
<1> QED BY <1>1, <1>4, <1>5, <1>6 DEF Usable, bs

\* A request without a load may go on with the blocks it has.
LEMMA OwnUsable ==
  ASSUME TypeOK, KeyInv, TableInv, NEW r \in Requests, loading[r] = {}
  PROVE  Usable(r, table[r])
<1>1. \A s \in Requests : DOMAIN table[s] = 1..Len(table[s])
  BY Numbers
<1>2. \A s \in Requests : \A i \in 1..Len(table[r]), j \in 1..Len(table[s]) :
        table[r][i] = table[s][j] => Content(r, i) = Content(s, j)
  BY <1>1 DEF KeyInv
<1>3. \A i \in 1..Len(table[r]) : key[table[r][i]] \in {NoKey, Content(r, i)}
  BY <1>1 DEF KeyInv
<1>4. \A s \in Requests : \A x \in loading[s] : s # r /\ x[1] \notin ToSet(table[r])
  BY DEF KeyInv
<1>5. Len(table[r]) <= BlocksFor(MaxLen)
  BY DEF TableInv
<1> QED BY <1>2, <1>3, <1>4, <1>5 DEF Usable

\* What is left true by allocate_slots: r has room, no other table changes, and
\* the prefix cache still tells the truth about what the blocks are used for.
\* Blocks r did not start from are held by no other request.
LEMMA AllocateKeeps ==
  ASSUME TypeOK, KeyInv, NEW r \in Requests, NEW bs \in Seq(Blocks), Usable(r, bs),
         NEW n \in Nat, n <= MaxLen, NEW toCache \in Nat, toCache <= n,
         Allocate(r, bs, n, toCache)
  PROVE  /\ table' \in [Requests -> Seq(Blocks)] /\ right' \subseteq Slots
         /\ key' \in [Blocks -> Contents \cup {NoKey}]
         /\ \A s \in Requests : s # r => table'[s] = table[s]
         /\ BlocksFor(n) <= Len(table'[r]) /\ Len(table'[r]) <= BlocksFor(MaxLen)
         /\ \A s, q \in Requests : \A i \in DOMAIN table'[s], j \in DOMAIN table'[q] :
              table'[s][i] = table'[q][j] => Content(s, i) = Content(q, j)
         /\ \A s \in Requests : \A i \in DOMAIN table'[s] :
              key'[table'[s][i]] \in {NoKey, Content(s, i)}
         /\ \A s \in Requests : s # r =>
              \A x \in loading[s] :
                /\ x[1] \in ToSet(table'[s]) /\ key'[x[1]] = NoKey
                /\ \A q \in Requests \ {s} : x[1] \notin ToSet(table'[q])
         /\ \A i \in 1..Len(table'[r]) : i > Len(bs) =>
              /\ \A s \in Requests \ {r} : table'[r][i] \notin ToSet(table'[s])
              /\ toCache = 0 => key'[table'[r][i]] = NoKey
<1>0. PICK fresh \in SUBSET Blocks, all \in Seq(Blocks) :
        Extended(r, bs, n, toCache, fresh, all)
  BY Allocated
<1>1. /\ table' = [table EXCEPT ![r] = all]
      /\ key' = KeyedUpTo([b \in Blocks |-> IF b \in fresh THEN NoKey ELSE key[b]],
                          r, all, toCache)
      /\ right' \subseteq right
      /\ \A s \in Requests : fresh \cap ToSet(table[s]) = {}
      /\ fresh \cap ToSet(bs) = {}
      /\ Len(bs) <= Len(all) /\ BlocksFor(n) <= Len(all)
      /\ Len(all) = Len(bs) \/ Len(all) = BlocksFor(n)
      /\ \A i \in 1..Len(bs) : all[i] = bs[i]
      /\ \A i \in Len(bs) + 1..Len(all) : all[i] \in fresh
      /\ \A i, j \in Len(bs) + 1..Len(all) : all[i] = all[j] => i = j
  BY <1>0 DEF Extended
<1> DEFINE kept == [b \in Blocks |-> IF b \in fresh THEN NoKey ELSE key[b]]
<1>2. /\ Len(bs) \in Nat /\ DOMAIN bs = 1..Len(bs) /\ Len(all) \in Nat /\ DOMAIN all = 1..Len(all)
      /\ \A i \in 1..Len(all) : all[i] \in Blocks
      /\ \A i \in 1..Len(bs) : bs[i] \in ToSet(bs)
  BY SetOfSequence
<1>3. /\ \A s \in Requests : table[s] \in Seq(Blocks) /\ DOMAIN table[s] = 1..Len(table[s])
      /\ \A s \in Requests : \A i \in 1..Len(table[s]) :
           table[s][i] \in Blocks /\ table[s][i] \in ToSet(table[s])
  BY Numbers
<1>4. table' \in [Requests -> Seq(Blocks)] /\ table'[r] = all
      /\ \A s \in Requests : s # r => table'[s] = table[s]
  BY <1>1 DEF TypeOK
<1>5. Len(all) <= BlocksFor(MaxLen)
  <2>1. BlocksFor(n) \in Nat /\ BlocksFor(MaxLen) \in Nat /\ BlocksFor(n) <= BlocksFor(MaxLen)
    BY Constants, BlocksForTokens, BlocksForMonotone
  <2> QED BY <1>1, <1>2, <2>1 DEF Usable
<1>6. right' \subseteq Slots
  BY <1>1 DEF TypeOK
<1>7. \A i \in 1..Len(all) : \/ i \in 1..Len(bs) /\ all[i] = bs[i] /\ all[i] \notin fresh
                             \/ i \in Len(bs) + 1..Len(all) /\ all[i] \in fresh
  <2> SUFFICES ASSUME NEW i \in 1..Len(all)
               PROVE  \/ i \in 1..Len(bs) /\ all[i] = bs[i] /\ all[i] \notin fresh
                      \/ i \in Len(bs) + 1..Len(all) /\ all[i] \in fresh
    OBVIOUS
  <2>1. i \in 1..Len(bs) \/ i \in Len(bs) + 1..Len(all)
    BY <1>2
  <2> QED BY <1>1, <1>2, <2>1
\* Where a block is in the new table, it is used for one thing.
<1>8. \A i, j \in 1..Len(all) : all[i] = all[j] => Content(r, i) = Content(r, j)
  <2> SUFFICES ASSUME NEW i \in 1..Len(all), NEW j \in 1..Len(all), all[i] = all[j]
               PROVE  Content(r, i) = Content(r, j)
    OBVIOUS
  <2>1. CASE all[i] \in fresh
    BY <1>1, <1>7, <2>1
  <2>2. CASE all[i] \notin fresh
    BY <1>7, <2>2 DEF Usable
  <2> QED BY <2>1, <2>2
<1>9. \A s \in Requests : \A i \in 1..Len(all), j \in 1..Len(table[s]) :
        all[i] = table[s][j] => Content(r, i) = Content(s, j)
  <2> SUFFICES ASSUME NEW s \in Requests, NEW i \in 1..Len(all), NEW j \in 1..Len(table[s]),
                      all[i] = table[s][j]
               PROVE  Content(r, i) = Content(s, j)
    OBVIOUS
  <2>1. all[i] \notin fresh
    BY <1>1, <1>3
  <2>2. i \in 1..Len(bs) /\ bs[i] = table[s][j]
    BY <1>7, <2>1
  <2> QED BY <2>2 DEF Usable
<1>10. \A s, q \in Requests : \A i \in DOMAIN table'[s], j \in DOMAIN table'[q] :
         table'[s][i] = table'[q][j] => Content(s, i) = Content(q, j)
  <2> SUFFICES ASSUME NEW s \in Requests, NEW q \in Requests,
                      NEW i \in DOMAIN table'[s], NEW j \in DOMAIN table'[q],
                      table'[s][i] = table'[q][j]
               PROVE  Content(s, i) = Content(q, j)
    OBVIOUS
  <2>1. CASE s = r /\ q = r
    BY <2>1, <1>2, <1>4, <1>8
  <2>2. CASE s = r /\ q # r
    BY <2>2, <1>2, <1>3, <1>4, <1>9
  <2>3. CASE s # r /\ q = r
    <3>1. i \in 1..Len(table[s]) /\ j \in 1..Len(all) /\ all[j] = table[s][i]
      BY <2>3, <1>2, <1>3, <1>4
    <3> QED BY <3>1, <2>3, <1>9
  <2>4. CASE s # r /\ q # r
    BY <2>4, <1>4 DEF KeyInv
  <2> QED BY <2>1, <2>2, <2>3, <2>4
\* What the prefix cache knows of a block.
<1>11. toCache \div BlockSize \in Nat /\ toCache \div BlockSize <= Len(all)
  <2> DEFINE full == toCache \div BlockSize
             most == BlocksFor(toCache)
             room == BlocksFor(n)
  <2>1. full \in Nat /\ full <= most /\ most \in Nat /\ room \in Nat /\ most <= room
    BY FullBlocks, BlocksForTokens, BlocksForMonotone
  <2>2. room <= Len(all) /\ Len(all) \in Nat
    BY <1>1, <1>2
  <2> HIDE DEF full, most, room
  <2>3. full \in Nat /\ full <= Len(all)
    BY <2>1, <2>2
  <2> QED BY <2>3 DEF full
<1>12. ASSUME NEW b \in Blocks
       PROVE  \/ /\ key'[b] = IF b \in fresh THEN NoKey ELSE key[b]
                 /\ \A i \in 1..(toCache \div BlockSize) : all[i] # b
              \/ \E i \in 1..Len(all) : /\ i <= toCache \div BlockSize
                                        /\ all[i] = b /\ key'[b] = Content(r, i)
  <2>1. kept[b] = IF b \in fresh THEN NoKey ELSE key[b]
    OBVIOUS
  <2>2. key'[b] = KeyedUpTo(kept, r, all, toCache)[b]
    BY <1>1
  <2> HIDE DEF kept
  <2>3. \/ /\ key'[b] = kept[b]
           /\ \A i \in 1..(toCache \div BlockSize) : all[i] # b
        \/ \E i \in 1..(toCache \div BlockSize) : all[i] = b /\ key'[b] = Content(r, i)
    BY <2>2, KeysAfter
  <2>4. \A i \in 1..(toCache \div BlockSize) : i \in 1..Len(all) /\ i <= toCache \div BlockSize
    BY <1>2, <1>11
  <2> QED BY <2>1, <2>3, <2>4
<1>13. key' \in [Blocks -> Contents \cup {NoKey}]
  <2>1. \A b \in Blocks : key[b] \in Contents \cup {NoKey}
    BY DEF TypeOK
  <2>2. \A i \in 1..Len(all) : Content(r, i) \in Contents
    <3> SUFFICES ASSUME NEW i \in 1..Len(all) PROVE Content(r, i) \in Contents
      OBVIOUS
    <3>1. i \in Nat \ {0} /\ i <= BlocksFor(MaxLen)
      BY <1>2, <1>5, Constants
    <3> QED BY <3>1, ContentIsKey
  <2>3. \A b \in Blocks : key'[b] \in Contents \cup {NoKey}
    BY <1>12, <2>1, <2>2
  <2>4. key' = [b \in Blocks |-> key'[b]]
    BY <1>1 DEF KeyedUpTo
  <2> QED BY <2>3, <2>4
<1>14. \A s \in Requests : \A i \in DOMAIN table'[s] : key'[table'[s][i]] \in {NoKey, Content(s, i)}
  <2> SUFFICES ASSUME NEW s \in Requests, NEW i \in DOMAIN table'[s]
               PROVE  key'[table'[s][i]] \in {NoKey, Content(s, i)}
    OBVIOUS
  <2> DEFINE b == table'[s][i]
  <2>1. b \in Blocks /\ b \in IF s = r THEN Blocks ELSE ToSet(table[s])
    BY <1>2, <1>3, <1>4
  <2>2. b \in fresh \/ key[b] \in {NoKey, Content(s, i)}
    <3>1. CASE s = r
      BY <3>1, <1>2, <1>4, <1>7 DEF Usable
    <3>2. CASE s # r
      BY <3>2, <1>3, <1>4 DEF KeyInv
    <3> QED BY <3>1, <3>2
  <2>3. ASSUME NEW j \in 1..Len(all), all[j] = b, key'[b] = Content(r, j)
        PROVE  key'[b] = Content(s, i)
    <3>1. j \in DOMAIN table'[r] /\ table'[r][j] = table'[s][i]
      BY <1>2, <1>4, <2>3
    <3> QED BY <3>1, <2>3, <1>10
  <2> HIDE DEF b
  <2> QED BY <1>12, <2>1, <2>2, <2>3 DEF b
<1>15. ASSUME NEW s \in Requests, s # r, NEW x \in loading[s]
       PROVE  /\ x[1] \in ToSet(table'[s]) /\ key'[x[1]] = NoKey
              /\ \A q \in Requests \ {s} : x[1] \notin ToSet(table'[q])
  <2>1. /\ x[1] \in ToSet(table[s]) /\ key[x[1]] = NoKey
        /\ \A q \in Requests \ {s} : x[1] \notin ToSet(table[q])
        /\ x[1] \notin ToSet(bs)
    BY DEF KeyInv, Usable
  <2>2. x[1] \in Blocks /\ x[1] \notin fresh
    BY <2>1, <1>1, Numbers
  <2>3. \A i \in 1..Len(all) : all[i] # x[1]
    BY <1>2, <1>7, <2>1, <2>2
  <2>4. x[1] \notin ToSet(all)
    BY <1>2, <2>3 DEF ToSet
  <2>5. key'[x[1]] = NoKey
    BY <1>12, <2>1, <2>2, <2>3
  <2> QED BY <1>4, <1>15, <2>1, <2>4, <2>5
<1>16. ASSUME NEW i \in 1..Len(all), i > Len(bs)
       PROVE  /\ \A s \in Requests \ {r} : all[i] \notin ToSet(table'[s])
              /\ toCache = 0 => key'[all[i]] = NoKey
  <2>1. i \in Len(bs) + 1..Len(all)
    BY <1>2, <1>16
  <2>2. all[i] \in fresh /\ all[i] \in Blocks
    BY <1>1, <2>1
  <2>3. \A s \in Requests \ {r} : all[i] \notin ToSet(table'[s])
    BY <1>1, <1>4, <2>2
  <2>4. ASSUME toCache = 0 PROVE key'[all[i]] = NoKey
    <3>1. toCache \div BlockSize = 0
      BY <2>4, Constants
    <3>2. \A j \in 1..Len(all) : ~ (j <= toCache \div BlockSize)
      BY <1>2, <3>1
    <3> QED BY <1>12, <2>2, <3>2
  <2> QED BY <2>3, <2>4
<1> QED BY <1>1, <1>4, <1>5, <1>6, <1>10, <1>13, <1>14, <1>15, <1>16

-------------------------------------------------------------------------------
(* The forward pass *)

\* The recursion of RightAfter: the right slots when n positions are computed.
LEMMA RightAfterRecursion ==
  ASSUME NEW before
  PROVE  \E after :
           /\ RightAfter(before) = after[MaxLen]
           /\ after[0] = before
           /\ \A n \in 1..MaxLen :
                after[n] = UNION {Compute(prev, n - 1) : prev \in {after[n - 1]}}
<1> DEFINE Def(f, m) == f = [n \in 0..m |->
             IF n = 0 THEN before ELSE UNION {Compute(prev, n - 1) : prev \in {f[n - 1]}}]
           T == {m \in Nat : \E f : Def(f, m)}
<1>1. MaxLen \in Nat
  BY Constants
<1>2. 0 \in T
  <2>1. Def([n \in 0..0 |-> before], 0)
    OBVIOUS
  <2> QED BY <2>1
<1>3. ASSUME NEW m \in 0..MaxLen - 1, m \in T
      PROVE  m + 1 \in T
  <2>1. PICK f : Def(f, m)
    BY <1>3
  <2> DEFINE g == [n \in 0..m + 1 |->
               IF n <= m THEN f[n] ELSE UNION {Compute(prev, n - 1) : prev \in {f[n - 1]}}]
  <2>2. \A n \in 0..m : g[n] = f[n]
    BY <1>1
  <2>3. \A n \in 0..m : f[n] =
          IF n = 0 THEN before ELSE UNION {Compute(prev, n - 1) : prev \in {f[n - 1]}}
    BY <2>1, Zenon
  <2>4. \A n \in 0..m + 1 : g[n] =
          IF n = 0 THEN before ELSE UNION {Compute(prev, n - 1) : prev \in {g[n - 1]}}
    <3> SUFFICES ASSUME NEW n \in 0..m + 1
                 PROVE  g[n] = IF n = 0 THEN before
                               ELSE UNION {Compute(prev, n - 1) : prev \in {g[n - 1]}}
      OBVIOUS
    <3>1. CASE n <= m
      <4>1. n \in 0..m /\ (n # 0 => n - 1 \in 0..m)
        BY <3>1, <1>1
      <4> QED BY <4>1, <2>2, <2>3, Zenon
    <3>2. CASE n = m + 1
      <4>1. n # 0 /\ ~(n <= m) /\ n - 1 \in 0..m /\ n - 1 = m
        BY <3>2, <1>1
      <4>2. g[n] = UNION {Compute(prev, n - 1) : prev \in {f[n - 1]}}
        BY <4>1, Zenon
      <4> QED BY <4>1, <4>2, <2>2, Zenon
    <3> QED BY <3>1, <3>2, <1>1
  <2>5. Def(g, m + 1)
    <3> HIDE DEF g
    <3>1. g = [n \in 0..m + 1 |-> g[n]]
      BY Zenon DEF g
    <3> QED BY <2>4, <3>1, Zenon
  <2>6. \E h : Def(h, m + 1)
    <3> HIDE DEF Def, g
    <3> QED BY <2>5
  <2>7. m + 1 \in Nat
    BY <1>1
  <2> HIDE DEF Def
  <2> QED BY <2>6, <2>7
<1>4. MaxLen \in T
  <2> HIDE DEF T
  <2>1. \A n \in 0..MaxLen - 1 : n \in T => n + 1 \in T
    BY <1>3
  <2>2. 0..MaxLen \subseteq T
    BY <1>1, <1>2, <2>1, AllUpTo
  <2> QED BY <1>1, <2>2
<1> DEFINE k == CHOOSE f : Def(f, MaxLen)
<1>5. Def(k, MaxLen)
  <2>1. \E f : Def(f, MaxLen)
    BY <1>4
  <2> HIDE DEF Def
  <2> QED BY <2>1
<1>6. RightAfter(before) = k[MaxLen]
  BY DEF RightAfter
<1>7. k[0] = before
  <2>1. 0 \in 0..MaxLen
    BY <1>1
  <2> QED BY <1>5, <2>1, Zenon
<1>8. \A n \in 1..MaxLen : n \in 0..MaxLen /\ n # 0
  BY <1>1
<1>9. \A n \in 1..MaxLen : k[n] = UNION {Compute(prev, n - 1) : prev \in {k[n - 1]}}
  BY <1>5, <1>8, Zenon
<1> HIDE DEF k
<1> QED BY <1>6, <1>7, <1>9

\* The batch writes to slots of its requests' blocks.
LEMMA RightAfterSlots ==
  ASSUME TypeOK, NEW before, before \subseteq Slots,
         \A r \in Requests : sched[r] > 0 => BlocksFor(computed[r] + sched[r]) <= Len(table[r])
  PROVE  RightAfter(before) \subseteq Slots
<1>1. PICK after :
        /\ RightAfter(before) = after[MaxLen]
        /\ after[0] = before
        /\ \A n \in 1..MaxLen : after[n] = UNION {Compute(prev, n - 1) : prev \in {after[n - 1]}}
  BY RightAfterRecursion
<1>2. MaxLen \in Nat
  BY Constants
<1>3. ASSUME NEW r \in Requests, NEW p \in Nat, computed[r] <= p, p < computed[r] + sched[r]
      PROVE  Slot(r, p) \in Slots
  <2> DEFINE n == computed[r] + sched[r]
             i == p \div BlockSize + 1
  <2>1. sched[r] \in Nat /\ computed[r] \in Nat /\ n \in Nat /\ sched[r] > 0 /\ p < n
    BY <1>3, Numbers
  <2>2. /\ i \in Nat \ {0} /\ i <= BlocksFor(n) /\ p % BlockSize \in 0..BlockSize - 1
        /\ BlocksFor(n) \in Nat /\ BlocksFor(n) <= Len(table[r])
    <3> HIDE DEF n
    <3>1. i \in Nat \ {0} /\ i <= BlocksFor(n) /\ p % BlockSize \in 0..BlockSize - 1
      BY <2>1, PlaceOfPosition
    <3>2. BlocksFor(n) \in Nat
      BY <2>1, BlocksForTokens
    <3>3. BlocksFor(n) <= Len(table[r])
      BY <2>1 DEF n
    <3> QED BY <3>1, <3>2, <3>3
  <2>3. Slot(r, p) = <<table[r][i], p % BlockSize>>
    BY DEF Slot
  <2> HIDE DEF i, n
  <2>4. i \in 1..Len(table[r])
    BY <2>2, Numbers
  <2>5. table[r][i] \in Blocks
    BY <2>4, Numbers
  <2> QED BY <2>2, <2>3, <2>5 DEF Slots
<1>4. ASSUME NEW prev \in SUBSET Slots, NEW p \in Nat PROVE Compute(prev, p) \subseteq Slots
  BY <1>3 DEF Compute
<1> DEFINE T == {n \in 0..MaxLen : after[n] \subseteq Slots}
<1>5. 0 \in T
  BY <1>1, <1>2
<1>6. ASSUME NEW n \in 0..MaxLen - 1, n \in T PROVE n + 1 \in T
  <2>1. n + 1 \in 1..MaxLen /\ (n + 1) - 1 = n /\ n \in Nat /\ n + 1 \in 0..MaxLen
    BY <1>2
  <2>2. after[n + 1] = UNION {Compute(prev, n) : prev \in {after[n]}}
    BY <1>1, <2>1
  <2>3. after[n] \in SUBSET Slots
    BY <1>6
  <2>4. Compute(after[n], n) \subseteq Slots
    BY <1>4, <2>1, <2>3
  <2>5. after[n + 1] \subseteq Slots
    BY <2>2, <2>4
  <2> QED BY <2>1, <2>5
<1>7. MaxLen \in T
  <2> HIDE DEF T
  <2>1. 0..MaxLen \subseteq T
    BY <1>2, <1>5, <1>6, AllUpTo
  <2> QED BY <1>2, <2>1
<1> QED BY <1>1, <1>7

-------------------------------------------------------------------------------
(* The initial states, and steps that move no request *)

LEMMA EmptySequence ==
  /\ \A X : <<>> \in Seq(X)
  /\ IsInjective(<<>>) /\ ToSet(<<>>) = {} /\ Len(<<>>) = 0 /\ DOMAIN <<>> = {}
<1>1. DOMAIN <<>> = {} /\ Len(<<>>) = 0 /\ \A X : <<>> \in Seq(X)
  OBVIOUS
<1> QED BY <1>1 DEF IsInjective, ToSet

\* The initial states have IInv.
LEMMA InitKeeps == Init => IInv
<1> SUFFICES ASSUME Init PROVE IInv
  OBVIOUS
<1>1. /\ PromptLen \in Nat /\ MaxLen \in Nat /\ PromptLen < MaxLen /\ TokenBudget \in Nat
      /\ MaxFailures \in Nat /\ BlocksFor(MaxLen) \in Nat
  BY Constants
<1>2. TypeOK
  <2>1. 0 \in 0..MaxLen /\ PromptLen \in PromptLen..MaxLen /\ 0 \in 0..TokenBudget
        /\ MaxFailures \in 0..MaxFailures
    BY <1>1
  <2>2. "WAITING" \in Statuses
    BY DEF Statuses, QueuedStatuses
  <2>3. /\ \A X : <<>> \in Seq(X)
        /\ [r \in Requests |-> <<>>] \in [Requests -> Seq(Blocks)]
        /\ [r \in Requests |-> {}] \in [Requests -> SUBSET Slots]
        /\ [b \in Blocks |-> NoKey] \in [Blocks -> Contents \cup {NoKey}]
    BY EmptySequence
  <2> QED BY <2>1, <2>2, <2>3 DEF Init, TypeOK
<1>3. QueueInv
  BY EmptySequence DEF Init, QueueInv, Planning
<1>4. TokenInv
  <2>1. \A r \in Requests : Given(r) = 0 /\ tokens[r] = PromptLen /\ sched[r] = 0
    BY DEF Init, Given, Planning
  <2>2. pc = "idle"
    BY DEF Init
  <2> QED BY <1>1, <2>1, <2>2 DEF TokenInv
<1>5. TableInv
  <2>1. \A r \in Requests : Given(r) = 0 /\ Len(table[r]) = 0
    BY EmptySequence DEF Init, Given, Planning
  <2> QED BY <1>1, <2>1, BlocksForZero DEF TableInv
<1>6. KeyInv
  <2>1. \A r \in Requests : DOMAIN table[r] = {} /\ loading[r] = {}
    BY EmptySequence DEF Init
  <2> QED BY <2>1 DEF KeyInv
<1>7. LoadInv /\ IdleInv /\ ReportInv
  BY DEF Init, LoadInv, IdleInv, ReportInv, Loading, IsFinished, FinishedStatuses
<1> QED BY <1>2, <1>3, <1>4, <1>5, <1>6, <1>7 DEF IInv

\* A step that changes nothing keeps IInv.
LEMMA StutterKeeps ==
  ASSUME IInv, UNCHANGED vars
  PROVE  IInv'
<1>1. UNCHANGED <<policy, queueVars, reqVars, cacheVars, pc, stepVars, syncLoads,
                  outputVars, loadVars, skip, recvVars, historyVars>>
  BY DEF vars
<1>2. TypeOK'
  BY <1>1 DEF IInv, TypeOK, queueVars, reqVars, cacheVars, stepVars, outputVars, loadVars,
              recvVars, historyVars
<1>3. QueueInv' /\ TokenInv' /\ TableInv'
  BY <1>1 DEF IInv, QueueInv, TokenInv, TableInv, Planning, Waits, Given,
              queueVars, reqVars, cacheVars, stepVars
<1>4. KeyInv' /\ LoadInv' /\ IdleInv'
  BY <1>1 DEF IInv, KeyInv, LoadInv, IdleInv, Loading,
              reqVars, cacheVars, outputVars, loadVars, recvVars
<1>5. ReportInv'
  BY <1>1 DEF IInv, ReportInv, Uses, Counted, Loading,
              queueVars, reqVars, cacheVars, stepVars, outputVars
<1> QED BY <1>2, <1>3, <1>4, <1>5 DEF IInv

\* schedule() begins: no request has been given a token.
LEMMA BeginKeeps ==
  ASSUME IInv, BeginSchedule
  PROVE  IInv'
<1>1. /\ pc = "idle" /\ pc' = "running" /\ reqIndex' = 1 /\ budget' = TokenBudget
      /\ sched' = [r \in Requests |-> 0] /\ preempted' = FALSE /\ stepSkipped' = <<>>
      /\ syncLoads' = {}
      /\ UNCHANGED <<policy, queueVars, reqVars, cacheVars, outputVars, loadVars,
                     skip, recvVars, historyVars>>
  BY DEF BeginSchedule
<1>2. TypeOK'
  <2>1. 0 \in 0..TokenBudget /\ TokenBudget \in 0..TokenBudget
    BY Constants
  <2>2. sched' \in [Requests -> 0..TokenBudget] /\ stepSkipped' \in Seq(arrived)
    BY <1>1, <2>1, EmptySequence
  <2> QED BY <1>1, <2>1, <2>2 DEF IInv, TypeOK, queueVars, reqVars, cacheVars, outputVars,
                                  loadVars, recvVars, historyVars
<1>3. QueueInv'
  BY <1>1, EmptySequence DEF IInv, QueueInv, Planning, Waits, queueVars, reqVars, cacheVars
<1>4. \A r \in Requests : Given(r)' = Given(r) /\ sched'[r] = 0
  BY <1>1, Numbers DEF IInv, Given, Planning, reqVars
<1>5. TokenInv'
  <2>1. \A i \in DOMAIN running' : sched'[running'[i]] = 0
    <3>1. \A i \in DOMAIN running : running[i] \in Requests
      <4>1. running \in Seq(Requests)
        BY DEF IInv, TypeOK
      <4> QED BY <4>1, SetOfSequence
    <3> QED BY <3>1, <1>1, <1>4 DEF queueVars
  <2> QED BY <1>1, <1>4, <2>1 DEF IInv, TokenInv, reqVars
<1>6. TableInv'
  BY <1>1, <1>4 DEF IInv, TableInv, reqVars, cacheVars
<1>7. KeyInv' /\ LoadInv' /\ IdleInv' /\ ReportInv'
  BY <1>1 DEF IInv, KeyInv, LoadInv, IdleInv, ReportInv, Loading,
              reqVars, cacheVars, outputVars, loadVars, recvVars
<1> QED BY <1>2, <1>3, <1>5, <1>6, <1>7 DEF IInv

\* The loop over the running requests ends.
LEMMA EndRunningKeeps ==
  ASSUME IInv, EndRunning
  PROVE  IInv'
<1>1. /\ pc = "running" /\ pc' = "waiting"
      /\ UNCHANGED <<policy, queueVars, reqVars, cacheVars, stepVars, syncLoads,
                     outputVars, loadVars, skip, recvVars, historyVars>>
  BY DEF EndRunning
<1>2. TypeOK'
  BY <1>1 DEF IInv, TypeOK, queueVars, reqVars, cacheVars, stepVars, outputVars,
              loadVars, recvVars, historyVars
<1>3. QueueInv'
  BY <1>1 DEF IInv, QueueInv, Planning, Waits, queueVars, reqVars, cacheVars, stepVars
<1>4. \A r \in Requests : Given(r)' = Given(r)
  BY <1>1 DEF IInv, Given, Planning, reqVars, stepVars
<1>5. TokenInv'
  BY <1>1, <1>4 DEF IInv, TokenInv, reqVars, stepVars, queueVars
<1>6. TableInv'
  BY <1>1, <1>4 DEF IInv, TableInv, reqVars, cacheVars
<1>7. KeyInv' /\ LoadInv' /\ IdleInv' /\ ReportInv'
  BY <1>1 DEF IInv, KeyInv, LoadInv, IdleInv, ReportInv, Loading,
              reqVars, cacheVars, outputVars, loadVars, recvVars
<1> QED BY <1>2, <1>3, <1>5, <1>6, <1>7 DEF IInv

\* A background load ends, with some of its blocks failed or none.
LEMMA LoadEndsKeeps ==
  ASSUME IInv, NEW r \in Requests, LoadEnds(r)
  PROVE  IInv'
<1>1. /\ pc = "waiting" /\ r \in receiving \ recved /\ recved' = recved \cup {r}
      /\ UNCHANGED <<policy, queueVars, reqVars, cacheVars, pc, stepVars, syncLoads, report,
                     sound, loadVars, skip, recvVars, historyVars>>
  BY DEF LoadEnds, NothingLeftToSchedule
<1>2. TypeOK'
  BY <1>1 DEF IInv, TypeOK, queueVars, reqVars, cacheVars, stepVars,
              loadVars, recvVars, historyVars
<1>3. QueueInv'
  BY <1>1 DEF IInv, QueueInv, Planning, Waits, queueVars, reqVars, cacheVars, stepVars
<1>4. TokenInv' /\ TableInv'
  BY <1>1 DEF IInv, TokenInv, TableInv, Given, Planning, reqVars, stepVars, queueVars, cacheVars
<1>5. KeyInv' /\ IdleInv'
  BY <1>1 DEF IInv, KeyInv, IdleInv, Loading, reqVars, cacheVars, loadVars, recvVars
<1>6. LoadInv'
  BY <1>1 DEF IInv, LoadInv, Loading, reqVars, cacheVars, loadVars, recvVars
<1>7. ReportInv'
  BY <1>1 DEF IInv, ReportInv, Uses, Counted, Loading, queueVars, reqVars, cacheVars, stepVars
<1> QED BY <1>2, <1>3, <1>4, <1>5, <1>6, <1>7 DEF IInv

-------------------------------------------------------------------------------
(* The loop over the waiting requests *)

\* The request at the head of the queues.
LEMMA CandidateWaits ==
  ASSUME TypeOK, QueueInv, InWaitingLoop
  PROVE  /\ Candidate \in arrived /\ Candidate \in Requests
         /\ Candidate \in ToSet(waiting) \cup ToSet(skipped)
         /\ Waits(Candidate) /\ ~IsFinished(status[Candidate]) /\ status[Candidate] # "RUNNING"
         /\ pc = "waiting" /\ budget > 0
<1>1. /\ waiting \in Seq(arrived) /\ skipped \in Seq(arrived) /\ arrived \subseteq Requests
      /\ (waiting # <<>> \/ skipped # <<>>) /\ pc = "waiting" /\ budget > 0
  BY DEF TypeOK, InWaitingLoop
<1>2. Candidate \in arrived /\ Candidate \in ToSet(waiting) \cup ToSet(skipped)
  <2>1. CASE skipped # <<>>
    BY <1>1, <2>1, TailSet DEF Candidate
  <2>2. CASE skipped = <<>>
    BY <1>1, <2>2, TailSet DEF Candidate
  <2> QED BY <2>1, <2>2
<1>3. Waits(Candidate)
  BY <1>2 DEF QueueInv
<1> QED BY <1>1, <1>2, <1>3 DEF Waits, IsFinished, FinishedStatuses, InWaitingLoop

\* It is popped, and the others stay where they are.
LEMMA PopKeeps ==
  ASSUME TypeOK, QueueInv, InWaitingLoop, PopCandidate
  PROVE  /\ waiting' \in Seq(arrived) /\ skipped' \in Seq(arrived)
         /\ IsInjective(waiting') /\ IsInjective(skipped')
         /\ ToSet(waiting') \cap ToSet(skipped') = {}
         /\ ToSet(waiting') \cup ToSet(skipped')
              = (ToSet(waiting) \cup ToSet(skipped)) \ {Candidate}
<1>1. /\ waiting \in Seq(arrived) /\ skipped \in Seq(arrived)
      /\ waiting # <<>> \/ skipped # <<>>
      /\ IsInjective(waiting) /\ IsInjective(skipped) /\ ToSet(waiting) \cap ToSet(skipped) = {}
  BY DEF TypeOK, InWaitingLoop, QueueInv
<1>2. CASE skipped # <<>>
  <2>1. Candidate = Head(skipped) /\ skipped' = Tail(skipped) /\ waiting' = waiting
    BY <1>2 DEF Candidate, PopCandidate
  <2>2. /\ Head(skipped) \in ToSet(skipped) /\ Tail(skipped) \in Seq(arrived)
        /\ IsInjective(Tail(skipped)) /\ ToSet(Tail(skipped)) = ToSet(skipped) \ {Head(skipped)}
    BY <1>1, <1>2, TailSet
  <2> QED BY <1>1, <2>1, <2>2
<1>3. CASE skipped = <<>>
  <2>1. Candidate = Head(waiting) /\ waiting' = Tail(waiting) /\ skipped' = skipped
    BY <1>3 DEF Candidate, PopCandidate
  <2>2. /\ Head(waiting) \in ToSet(waiting) /\ Tail(waiting) \in Seq(arrived)
        /\ IsInjective(Tail(waiting)) /\ ToSet(Tail(waiting)) = ToSet(waiting) \ {Head(waiting)}
    BY <1>1, <1>3, TailSet
  <2> QED BY <1>1, <2>1, <2>2
<1> QED BY <1>2, <1>3

\* A request whose load is under way is passed over.
LEMMA SkipKeeps ==
  ASSUME IInv, SkipLoading
  PROVE  IInv'
<1> DEFINE r == Candidate
<1>1. /\ InWaitingLoop /\ PopCandidate /\ stepSkipped' = <<r>> \o stepSkipped
      /\ UNCHANGED <<policy, arrived, running, reqVars, cacheVars, pc, reqIndex, budget,
                     sched, preempted, syncLoads, outputVars, loadVars, skip, recvVars,
                     historyVars>>
  BY DEF SkipLoading
<1>2. TypeOK /\ QueueInv
  BY DEF IInv
<1>3. /\ r \in arrived /\ r \in ToSet(waiting) \cup ToSet(skipped)
      /\ Waits(r) /\ pc = "waiting"
  BY <1>1, <1>2, CandidateWaits
<1>4. /\ waiting' \in Seq(arrived) /\ skipped' \in Seq(arrived)
      /\ IsInjective(waiting') /\ IsInjective(skipped')
      /\ ToSet(waiting') \cap ToSet(skipped') = {}
      /\ ToSet(waiting') \cup ToSet(skipped') = (ToSet(waiting) \cup ToSet(skipped)) \ {r}
  BY <1>1, <1>2, PopKeeps
<1> HIDE DEF r
<1>5. /\ stepSkipped \in Seq(arrived) /\ IsInjective(stepSkipped) /\ r \notin ToSet(stepSkipped)
  BY <1>2, <1>3 DEF TypeOK, QueueInv, Planning
<1>6. /\ stepSkipped' \in Seq(arrived) /\ IsInjective(stepSkipped')
      /\ ToSet(stepSkipped') = ToSet(stepSkipped) \cup {r}
  BY <1>1, <1>3, <1>5, PrependSet
<1>7. TypeOK'
  BY <1>1, <1>2, <1>4, <1>6 DEF TypeOK, reqVars, cacheVars, outputVars, loadVars, recvVars,
                                historyVars
<1>8. QueueInv'
  BY <1>1, <1>2, <1>3, <1>4, <1>6 DEF QueueInv, Planning, Waits, reqVars, cacheVars
<1>9. TokenInv' /\ TableInv'
  BY <1>1 DEF IInv, TokenInv, TableInv, Given, Planning, reqVars, cacheVars
<1>10. KeyInv' /\ LoadInv' /\ IdleInv'
  BY <1>1 DEF IInv, KeyInv, LoadInv, IdleInv, Loading, reqVars, cacheVars, outputVars,
              loadVars, recvVars
<1>11. ReportInv'
  BY <1>1 DEF IInv, ReportInv, Uses, Counted, Loading, reqVars, cacheVars, outputVars
<1> QED BY <1>7, <1>8, <1>9, <1>10, <1>11 DEF IInv

\* cache_blocks for blocks that r holds and no load fills any more.
LEMMA CacheOwnKeeps ==
  ASSUME TypeOK, KeyInv, TableInv, NEW r \in Requests, loading[r] = {},
         NEW n \in Nat, BlocksFor(n) <= Len(table[r]),
         key' = KeyedUpTo(key, r, table[r], n), UNCHANGED <<table, loading>>
  PROVE  key' \in [Blocks -> Contents \cup {NoKey}] /\ KeyInv'
<1> DEFINE full == n \div BlockSize
<1>1. /\ table[r] \in Seq(Blocks) /\ Len(table[r]) \in Nat /\ DOMAIN table[r] = 1..Len(table[r])
      /\ \A i \in 1..Len(table[r]) : table[r][i] \in Blocks /\ table[r][i] \in ToSet(table[r])
  BY Numbers
<1>2. full \in Nat /\ full <= Len(table[r])
  <2> DEFINE most == BlocksFor(n)
  <2>1. full \in Nat /\ full <= most /\ most \in Nat /\ most <= Len(table[r])
    BY FullBlocks, BlocksForTokens
  <2> HIDE DEF full, most
  <2> QED BY <2>1, <1>1
<1>3. ASSUME NEW b \in Blocks
      PROVE  \/ key'[b] = key[b]
             \/ \E i \in 1..Len(table[r]) : table[r][i] = b /\ key'[b] = Content(r, i)
  <2>1. \/ key'[b] = key[b]
        \/ \E i \in 1..full : table[r][i] = b /\ key'[b] = Content(r, i)
    BY KeysAfter
  <2> HIDE DEF full
  <2>2. \A i \in 1..full : i \in 1..Len(table[r])
    BY <1>1, <1>2
  <2> QED BY <2>1, <2>2
<1> HIDE DEF full
<1>4. key' \in [Blocks -> Contents \cup {NoKey}]
  <2>1. \A i \in 1..Len(table[r]) : Content(r, i) \in Contents
    <3> SUFFICES ASSUME NEW i \in 1..Len(table[r]) PROVE Content(r, i) \in Contents
      OBVIOUS
    <3>1. i \in Nat \ {0} /\ i <= BlocksFor(MaxLen)
      BY <1>1, Constants DEF TableInv
    <3> QED BY <3>1, ContentIsKey
  <2>2. ASSUME NEW b \in Blocks PROVE key'[b] \in Contents \cup {NoKey}
    <3>1. key[b] \in Contents \cup {NoKey}
      BY DEF TypeOK
    <3> QED BY <1>3, <2>1, <3>1
  <2>3. key' = [b \in Blocks |-> key'[b]]
    BY DEF KeyedUpTo
  <2> QED BY <2>2, <2>3
<1>5. ASSUME NEW s \in Requests, NEW i \in DOMAIN table[s]
      PROVE  key'[table[s][i]] \in {NoKey, Content(s, i)}
  <2>1. table[s][i] \in Blocks
    BY Numbers
  <2>2. key[table[s][i]] \in {NoKey, Content(s, i)}
    BY DEF KeyInv
  <2>3. \A j \in 1..Len(table[r]) : table[r][j] = table[s][i] => Content(r, j) = Content(s, i)
    BY <1>1 DEF KeyInv
  <2> QED BY <1>3, <2>1, <2>2, <2>3
<1>6. ASSUME NEW s \in Requests, NEW x \in loading[s] PROVE key'[x[1]] = NoKey
  <2>1. s # r /\ x[1] \in ToSet(table[s]) /\ key[x[1]] = NoKey /\ x[1] \notin ToSet(table[r])
    BY DEF KeyInv
  <2>2. x[1] \in Blocks
    BY <2>1, Numbers
  <2> QED BY <1>1, <1>3, <2>1, <2>2
<1> QED BY <1>4, <1>5, <1>6 DEF KeyInv

\* Blocks given back by r, for which no load is under way.
LEMMA GiveBackKeeps ==
  ASSUME TypeOK, KeyInv, NEW rs, \A r \in rs \cap Requests : loading[r] = {},
         table' = [r \in Requests |-> IF r \in rs THEN <<>> ELSE table[r]],
         UNCHANGED <<key, loading>>
  PROVE  /\ table' \in [Requests -> Seq(Blocks)] /\ KeyInv'
         /\ \A r \in Requests : Len(table'[r]) = IF r \in rs THEN 0 ELSE Len(table[r])
<1>1. \A r \in Requests : table'[r] = IF r \in rs THEN <<>> ELSE table[r]
  OBVIOUS
<1>2. \A r \in Requests : table[r] \in Seq(Blocks)
  BY Numbers
<1>3. table' \in [Requests -> Seq(Blocks)]
  BY <1>1, <1>2, EmptySequence
<1>4. \A r \in Requests : /\ DOMAIN table'[r] \subseteq DOMAIN table[r]
                          /\ \A i \in DOMAIN table'[r] : table'[r][i] = table[r][i]
                          /\ ToSet(table'[r]) \subseteq ToSet(table[r])
                          /\ Len(table'[r]) = IF r \in rs THEN 0 ELSE Len(table[r])
  BY <1>1, EmptySequence
<1>5. \A r \in Requests : r \in rs \/ table'[r] = table[r]
  BY <1>1
<1>6. \A r, s \in Requests : \A i \in DOMAIN table'[r], j \in DOMAIN table'[s] :
        table'[r][i] = table'[s][j] => Content(r, i) = Content(s, j)
  BY <1>4 DEF KeyInv
<1>7. \A r \in Requests : \A i \in DOMAIN table'[r] : key'[table'[r][i]] \in {NoKey, Content(r, i)}
  BY <1>4 DEF KeyInv
<1>8. \A r \in Requests : \A x \in loading'[r] :
       /\ x[1] \in ToSet(table'[r]) /\ key'[x[1]] = NoKey
       /\ \A s \in Requests \ {r} : x[1] \notin ToSet(table'[s])
  BY <1>4, <1>5 DEF KeyInv
<1> QED BY <1>3, <1>4, <1>6, <1>7, <1>8 DEF KeyInv

\* _update_waiting_for_remote_kv: a request whose load ended waits again,
\* with the tokens that were loaded, less the last of a whole prompt.
LEMMA PromoteKeeps ==
  ASSUME IInv, PromoteLoaded
  PROVE  IInv'
<1>0. PICK r : r = Candidate
  OBVIOUS
<1> DEFINE failed == r \in failedRecving
<1>1. /\ InWaitingLoop /\ status[r] = "WAITING_FOR_REMOTE_KVS" /\ r \in finishedRecving
      /\ IF failed /\ computed[r] = 0 THEN DropLoaded(r) ELSE KeepLoaded(r)
      /\ computed' = [computed EXCEPT ![r] = IF ~failed /\ @ = tokens[r] THEN @ - 1 ELSE @]
      /\ status' = [status EXCEPT ![r] = IF r \in everPreempted THEN "PREEMPTED" ELSE "WAITING"]
      /\ finishedRecving' = finishedRecving \ {r}
      /\ failedRecving' = failedRecving \ {r}
      /\ UNCHANGED <<policy, queueVars, tokens, everPreempted, right, pc, stepVars,
                     syncLoads, outputVars, loadVars, skip, historyVars>>
  BY <1>0 DEF PromoteLoaded, StillLoading
<1>2. TypeOK /\ QueueInv /\ TokenInv /\ TableInv /\ KeyInv /\ LoadInv /\ IdleInv /\ ReportInv
  BY DEF IInv
<1>3. /\ r \in arrived /\ r \in Requests /\ r \in ToSet(waiting) \cup ToSet(skipped)
      /\ ~IsFinished(status[r]) /\ pc = "waiting"
  BY <1>0, <1>1, <1>2, CandidateWaits
<1>4. r \notin receiving \cup recved /\ loading[r] = {} /\ skip = {} /\ Planning
  BY <1>1, <1>2, <1>3 DEF LoadInv, ReportInv, Planning
<1>5. sched[r] = 0 /\ Given(r) = computed[r] /\ BlocksFor(computed[r]) <= Len(table[r])
  <2>1. sched[r] \in Nat /\ computed[r] \in Nat /\ ~ (sched[r] > 0)
    BY <1>1, <1>2, <1>3, Numbers DEF TokenInv
  <2>2. sched[r] = 0 /\ computed[r] + sched[r] = computed[r]
    BY <2>1
  <2> QED BY <1>2, <1>3, <1>4, <2>2 DEF Given, TableInv
\* One token of a full hit is to be computed again.
<1>6. /\ computed'[r] \in Nat /\ computed'[r] <= computed[r]
      /\ PromptLen > 1 /\ computed'[r] = 0 => failed /\ computed[r] = 0
      /\ computed' \in [Requests -> 0..MaxLen]
      /\ \A q \in Requests : q # r => computed'[q] = computed[q]
  <2>1. /\ computed'[r] = IF ~failed /\ computed[r] = tokens[r] THEN computed[r] - 1 ELSE computed[r]
        /\ \A q \in Requests : q # r => computed'[q] = computed[q]
        /\ computed \in [Requests -> 0..MaxLen]
    BY <1>1, <1>2, <1>3 DEF TypeOK
  <2>2. /\ computed[r] \in Nat /\ tokens[r] \in Nat /\ 1 <= tokens[r] /\ PromptLen <= tokens[r]
        /\ MaxLen \in Nat /\ computed[r] <= MaxLen /\ PromptLen \in Nat \ {0}
    BY <1>2, <1>3, Constants, Numbers
  <2>3. ~failed => computed[r] = PromptLen
    BY <1>1, <1>2, <1>3, <1>4 DEF IdleInv, Loading
  <2> HIDE DEF failed
  <2>4. computed'[r] \in Nat /\ computed'[r] <= computed[r]
    BY <2>1, <2>2
  <2>5. PromptLen > 1 /\ computed'[r] = 0 => failed /\ computed[r] = 0
    BY <2>1, <2>2, <2>3
  <2>6. computed'[r] \in 0..MaxLen
    BY <2>2, <2>4
  <2>7. computed' \in [Requests -> 0..MaxLen]
    BY <2>1, <2>6, <1>1
  <2> QED BY <2>1, <2>4, <2>5, <2>7
<1>7. /\ status' \in [Requests -> Statuses] /\ status'[r] \in {"WAITING", "PREEMPTED"}
      /\ \A q \in Requests : q # r => status'[q] = status[q]
  BY <1>1, <1>2, <1>3 DEF TypeOK, Statuses, QueuedStatuses
<1>8. /\ table' \in [Requests -> Seq(Blocks)] /\ key' \in [Blocks -> Contents \cup {NoKey}]
      /\ KeyInv' /\ \A q \in Requests : q # r => table'[q] = table[q]
      /\ \/ table'[r] = table[r]
         \/ computed[r] = 0 /\ table'[r] = <<>>
      /\ failed /\ computed[r] = 0 => table'[r] = <<>>
  <2>1. UNCHANGED loading
    BY <1>1 DEF loadVars
  <2>2. table \in [Requests -> Seq(Blocks)] /\ key \in [Blocks -> Contents \cup {NoKey}]
    BY <1>2 DEF TypeOK
  <2>3. CASE failed /\ computed[r] = 0
    <3>1. table' = [table EXCEPT ![r] = <<>>] /\ UNCHANGED key
      BY <1>1, <2>3 DEF DropLoaded
    <3>2. table' = [q \in Requests |-> IF q \in {r} THEN <<>> ELSE table[q]]
      BY <2>2, <3>1
    <3>3. \A q \in {r} \cap Requests : loading[q] = {}
      BY <1>4
    <3>4. table' \in [Requests -> Seq(Blocks)] /\ KeyInv'
      BY <1>2, <2>1, <3>1, <3>2, <3>3, GiveBackKeeps
    <3> QED BY <2>2, <2>3, <3>1, <3>2, <3>4, <1>3
  <2>4. CASE ~ (failed /\ computed[r] = 0)
    <3>1. key' = KeyedUpTo(key, r, table[r], computed[r]) /\ UNCHANGED table
      BY <1>1, <2>4 DEF KeepLoaded
    <3>2. computed[r] \in Nat
      BY <1>2, <1>3, Numbers
    <3>3. key' \in [Blocks -> Contents \cup {NoKey}] /\ KeyInv'
      BY <1>2, <1>3, <1>4, <1>5, <2>1, <3>1, <3>2, CacheOwnKeeps
    <3> QED BY <2>2, <2>4, <3>1, <3>3
  <2> QED BY <2>3, <2>4
<1> HIDE DEF failed
<1>9. TypeOK'
  BY <1>1, <1>2, <1>6, <1>7, <1>8 DEF TypeOK, queueVars, stepVars, outputVars, loadVars, historyVars
<1>10. QueueInv'
  <2>1. \A q \in Requests : /\ (status'[q] = "RUNNING") <=> (status[q] = "RUNNING")
                            /\ Waits(q) => Waits(q)'
    BY <1>1, <1>7 DEF Waits
  <2>2. ToSet(waiting) \cup ToSet(skipped) \cup ToSet(stepSkipped) \subseteq Requests
    <3>1. {waiting, skipped, stepSkipped} \subseteq Seq(Requests)
      BY <1>2 DEF TypeOK
    <3> QED BY <3>1, SetOfSequence
  <2>3. \A q \in Requests \ arrived : q # r
    BY <1>3
  <2> QED BY <1>1, <1>2, <1>6, <1>7, <1>8, <2>1, <2>2, <2>3
          DEF QueueInv, Planning, queueVars, stepVars
<1>11. \A q \in Requests : q # r => Given(q)' = Given(q)
  BY <1>1, <1>6 DEF Given, Planning, stepVars
<1>12. Given(r)' = computed'[r]
  <2>1. computed'[r] + sched[r] = computed'[r]
    BY <1>5, <1>6
  <2>2. pc' = pc /\ sched' = sched /\ Planning'
    BY <1>1, <1>4 DEF stepVars, Planning
  <2>3. Given(r)' = computed'[r] + sched[r]
    BY <2>2 DEF Given
  <2> QED BY <2>1, <2>3
<1>13. TokenInv'
  <2>1. Given(r)' <= tokens[r]
    BY <1>2, <1>3, <1>5, <1>6, <1>12, Numbers DEF TokenInv
  <2>2. \A q \in Requests : IsFinished(status'[q]) = IsFinished(status[q])
    BY <1>1, <1>3, <1>7 DEF IsFinished, FinishedStatuses
  <2>3. \A q \in Requests : sched[q] > 0 => status'[q] = "RUNNING"
    BY <1>2, <1>5, <1>7 DEF TokenInv
  <2>4. UNCHANGED <<pc, tokens, sched>> /\ pc = "waiting"
    BY <1>1, <1>3 DEF stepVars
  <2>5. \A q \in Requests : Given(q)' <= tokens[q] /\ (~IsFinished(status[q]) => tokens[q] < MaxLen)
    <3>1. \A q \in Requests : Given(q) <= tokens[q] /\ (~IsFinished(status[q]) => tokens[q] < MaxLen)
      BY <1>2 DEF TokenInv
    <3>2. \A q \in Requests : q = r \/ Given(q)' = Given(q)
      BY <1>11
    <3> QED BY ONLY <2>1, <3>1, <3>2
  <2> QED BY <2>2, <2>3, <2>4, <2>5 DEF TokenInv
<1>14. TableInv'
  <2>1. Len(table'[r]) <= BlocksFor(MaxLen) /\ BlocksFor(computed'[r]) <= Len(table'[r])
    <3>1. CASE table'[r] = table[r]
      <4>1. BlocksFor(computed'[r]) <= BlocksFor(computed[r])
        BY <1>2, <1>3, <1>6, Numbers, BlocksForMonotone
      <4>2. BlocksFor(computed'[r]) \in Nat /\ BlocksFor(computed[r]) \in Nat /\ Len(table[r]) \in Nat
        BY <1>2, <1>3, <1>6, Numbers, BlocksForTokens
      <4> QED BY <1>2, <1>3, <1>5, <3>1, <4>1, <4>2 DEF TableInv
    <3>2. CASE computed[r] = 0 /\ table'[r] = <<>>
      <4>1. computed'[r] = 0 /\ Len(table'[r]) = 0
        BY <1>6, <3>2, EmptySequence
      <4> QED BY <4>1, BlocksForZero, Constants
    <3> QED BY <1>8, <3>1, <3>2
  <2>2. \A q \in Requests : q # r => status'[q] = status[q] /\ table'[q] = table[q]
    BY <1>7, <1>8
  <2>3. BlocksFor(Given(r))' <= Len(table'[r])
    BY <1>12, <2>1 DEF BlocksFor
  <2>4. \A q \in Requests : q # r => BlocksFor(Given(q))' = BlocksFor(Given(q))
    BY <1>11 DEF BlocksFor
  <2>5. \A q \in Requests : /\ ~IsFinished(status'[q]) => BlocksFor(Given(q))' <= Len(table'[q])
                            /\ Len(table'[q]) <= BlocksFor(MaxLen)
    <3>1. \A q \in Requests : /\ ~IsFinished(status[q]) => BlocksFor(Given(q)) <= Len(table[q])
                              /\ Len(table[q]) <= BlocksFor(MaxLen)
      BY <1>2 DEF TableInv
    <3> SUFFICES ASSUME NEW q \in Requests
                 PROVE  /\ ~IsFinished(status'[q]) => BlocksFor(Given(q))' <= Len(table'[q])
                        /\ Len(table'[q]) <= BlocksFor(MaxLen)
      OBVIOUS
    <3>2. CASE q = r
      BY <3>2, <2>1, <2>3
    <3>3. CASE q # r
      BY <3>3, <3>1, <2>2, <2>4
    <3> QED BY <3>2, <3>3
  <2> QED BY <2>5 DEF TableInv, BlocksFor
<1>15. LoadInv'
  <2>1. \A q \in Requests : /\ Loading(q)' <=> Loading(q) /\ q # r
                            /\ IsFinished(status'[q]) <=> IsFinished(status[q])
    BY <1>1, <1>3, <1>7 DEF Loading, IsFinished, FinishedStatuses
  <2>2. /\ receiving \cup recved \subseteq Requests
        /\ finishedRecving \cup failedRecving \subseteq Requests
    BY <1>2 DEF TypeOK
  <2>3. \A q \in Requests : IsFinished(status[q]) => table'[q] = table[q]
    BY <1>3, <1>8
  <2> QED BY <1>1, <1>2, <1>4, <2>1, <2>2, <2>3 DEF LoadInv, loadVars, outputVars
<1>16. IdleInv'
  <2>1. \A q \in Requests : Loading(q)' => Loading(q) /\ q # r
    BY <1>7 DEF Loading
  <2> QED BY <1>1, <1>2, <1>6, <1>7, <1>8, <2>1 DEF IdleInv
<1>17. ReportInv'
  <2>1. \A q \in ToSet(running) : q \in Requests /\ q # r
    <3>1. running \in Seq(Requests)
      BY <1>2 DEF TypeOK
    <3>2. \A q \in ToSet(running) : q \in Requests
      BY <3>1, SetOfSequence
    <3> QED BY <1>1, <1>2, <3>2 DEF QueueInv
  <2>2. \A q \in ToSet(running) : \A b : Uses(q, computed[q], b) => Uses(q, computed[q], b)'
    BY <1>6, <1>8, <2>1 DEF Uses
  <2> QED BY <1>1, <1>2, <1>3, <1>4, <2>2 DEF ReportInv, queueVars
<1> QED BY <1>8, <1>9, <1>10, <1>13, <1>14, <1>15, <1>16, <1>17 DEF IInv

\* Slots at positions first..n - 1 of blocks t that have room for n tokens.
LEMMA SlotsPlaces ==
  ASSUME NEW t \in Seq(Blocks), NEW first \in Nat, NEW n \in Nat, BlocksFor(n) <= Len(t),
         NEW x \in SlotsOf(t, first, n)
  PROVE  /\ x \in Slots
         /\ \E i \in 1..Len(t) : /\ x[1] = t[i] /\ i <= BlocksFor(n)
                                 /\ \A k \in Nat : k * BlockSize <= first => k < i
<1>1. PICK p \in first..n - 1 : x = <<t[p \div BlockSize + 1], p % BlockSize>>
  BY DEF SlotsOf
<1> DEFINE i == p \div BlockSize + 1
           most == BlocksFor(n)
<1>2. p \in Nat /\ p < n /\ first <= p /\ BlockSize \in Nat \ {0}
  BY Constants
<1>3. /\ i \in Nat \ {0} /\ p % BlockSize \in 0..BlockSize - 1 /\ i <= most
      /\ \A k \in Nat : k * BlockSize <= p => k < i
  BY <1>2, PlaceOfPosition
<1>4. most \in Nat /\ Len(t) \in Nat /\ \A j \in 1..Len(t) : t[j] \in Blocks
  BY BlocksForTokens, SetOfSequence
<1>5. x = <<t[i], p % BlockSize>>
  BY <1>1
<1>6. most <= Len(t)
  OBVIOUS
<1>7. \A k \in Nat : k * BlockSize <= first => k < i
  <2> SUFFICES ASSUME NEW k \in Nat, k * BlockSize <= first PROVE k < i
    OBVIOUS
  <2>1. k * BlockSize \in Nat
    BY <1>2
  <2> DEFINE m == k * BlockSize
  <2>2. m <= p
    <3> HIDE DEF m
    <3>1. m \in Nat /\ m <= first
      BY <2>1 DEF m
    <3> QED BY <1>2, <3>1
  <2> HIDE DEF i
  <2> QED BY <1>3, <2>2
<1> HIDE DEF i, most
<1>8. i \in 1..Len(t)
  BY <1>3, <1>4, <1>6
<1>9. x \in Slots /\ x[1] = t[i]
  BY <1>3, <1>4, <1>5, <1>8 DEF Slots
<1> QED BY <1>3, <1>7, <1>8, <1>9 DEF most

\* A request that may be admitted waits, with no load under way and none that
\* has ended.
LEMMA CandidateReady ==
  ASSUME IInv, Schedulable, NEW r, r = Candidate
  PROVE  /\ r \in arrived /\ r \in Requests /\ r \in ToSet(waiting) \cup ToSet(skipped)
         /\ status[r] \in {"WAITING", "PREEMPTED"} /\ ~IsFinished(status[r])
         /\ pc = "waiting" /\ Planning /\ skip = {}
         /\ sched[r] = 0 /\ Given(r) = computed[r] /\ loading[r] = {}
         /\ r \notin receiving \cup recved \cup finishedRecving \cup failedRecving
         /\ BlocksFor(computed[r]) <= Len(table[r])
         /\ computed[r] <= tokens[r] /\ tokens[r] < MaxLen
         /\ \A q \in ToSet(running) : q \in Requests /\ q # r
         /\ r \notin ToSet(stepSkipped)
<1>1. TypeOK /\ QueueInv /\ TokenInv /\ TableInv /\ LoadInv /\ ReportInv /\ InWaitingLoop
  BY DEF IInv, Schedulable
<1>2. /\ r \in arrived /\ r \in Requests /\ r \in ToSet(waiting) \cup ToSet(skipped)
      /\ Waits(r) /\ ~IsFinished(status[r]) /\ status[r] # "RUNNING" /\ pc = "waiting"
  BY <1>1, CandidateWaits
<1>3. status[r] \in {"WAITING", "PREEMPTED"} /\ Planning /\ skip = {}
  BY <1>1, <1>2 DEF Waits, Schedulable, Planning, ReportInv
<1>4. /\ loading[r] = {}
      /\ r \notin receiving \cup recved \cup finishedRecving \cup failedRecving
  <2>1. ~Loading(r)
    BY <1>3 DEF Loading
  <2> QED BY <1>1, <1>2, <2>1 DEF LoadInv
<1>5. sched[r] = 0 /\ Given(r) = computed[r]
  <2>1. sched[r] \in Nat /\ computed[r] \in Nat /\ ~ (sched[r] > 0)
    BY <1>1, <1>2, Numbers DEF TokenInv
  <2>2. sched[r] = 0 /\ computed[r] + sched[r] = computed[r]
    BY <2>1
  <2> QED BY <1>3, <2>2 DEF Given
<1>6. /\ BlocksFor(computed[r]) <= Len(table[r])
      /\ computed[r] <= tokens[r] /\ tokens[r] < MaxLen
  BY <1>1, <1>2, <1>5 DEF TokenInv, TableInv
<1>7. \A q \in ToSet(running) : q \in Requests /\ q # r
  <2>1. running \in Seq(Requests)
    BY <1>1 DEF TypeOK
  <2>2. \A q \in ToSet(running) : q \in Requests
    BY <2>1, SetOfSequence
  <2> QED BY <1>1, <1>2, <2>2 DEF QueueInv
<1>8. r \notin ToSet(stepSkipped)
  BY <1>1, <1>2, <1>3 DEF QueueInv
<1> QED BY <1>2, <1>3, <1>4, <1>5, <1>6, <1>7, <1>8

\* A request is given the blocks of a background load and waits for it.
LEMMA StartLoadKeeps ==
  ASSUME IInv, StartLoad
  PROVE  IInv'
<1>0. PICK r : r = Candidate
  OBVIOUS
<1> DEFINE bs == CachedPrefix(r)
           first == Len(bs) * BlockSize
<1>1. /\ Schedulable /\ InWaitingLoop /\ PopCandidate /\ StartBlocks = bs /\ Local = first
      /\ Allocate(r, bs, PromptLen, 0)
      /\ loading' = [loading EXCEPT ![r] = SlotsOf(table'[r], first, PromptLen)]
      /\ receiving' = receiving \cup {r}
      /\ stepSkipped' = <<r>> \o stepSkipped
      /\ status' = [status EXCEPT ![r] = "WAITING_FOR_REMOTE_KVS"]
      /\ computed' = [computed EXCEPT ![r] = PromptLen]
      /\ UNCHANGED <<policy, arrived, running, tokens, everPreempted, pc, reqIndex,
                     budget, sched, preempted, syncLoads, outputVars, skip, recvVars,
                     historyVars>>
  BY <1>0 DEF StartLoad, LoadsAsync, StartBlocks, Local, Schedulable
<1>2. TypeOK /\ QueueInv /\ TokenInv /\ TableInv /\ KeyInv /\ LoadInv /\ IdleInv /\ ReportInv
  BY DEF IInv
<1>3. /\ r \in arrived /\ r \in Requests /\ r \in ToSet(waiting) \cup ToSet(skipped)
      /\ status[r] \in {"WAITING", "PREEMPTED"} /\ ~IsFinished(status[r])
      /\ pc = "waiting" /\ Planning /\ skip = {}
      /\ sched[r] = 0 /\ Given(r) = computed[r] /\ loading[r] = {}
      /\ r \notin receiving \cup recved \cup finishedRecving \cup failedRecving
      /\ \A q \in ToSet(running) : q \in Requests /\ q # r
      /\ r \notin ToSet(stepSkipped)
  BY <1>0, <1>1, CandidateReady
<1>4. /\ waiting' \in Seq(arrived) /\ skipped' \in Seq(arrived)
      /\ IsInjective(waiting') /\ IsInjective(skipped')
      /\ ToSet(waiting') \cap ToSet(skipped') = {}
      /\ ToSet(waiting') \cup ToSet(skipped') = (ToSet(waiting) \cup ToSet(skipped)) \ {r}
  BY <1>0, <1>1, <1>2, PopKeeps
<1>5. /\ stepSkipped' \in Seq(arrived) /\ IsInjective(stepSkipped')
      /\ ToSet(stepSkipped') = ToSet(stepSkipped) \cup {r}
  <2>1. stepSkipped \in Seq(arrived) /\ IsInjective(stepSkipped)
    BY <1>2, <1>3 DEF TypeOK, QueueInv
  <2> QED BY <1>1, <1>3, <2>1, PrependSet
<1>6. /\ PromptLen \in Nat \ {0} /\ MaxLen \in Nat /\ PromptLen < MaxLen /\ BlockSize \in Nat \ {0}
      /\ PromptLen <= tokens[r] /\ tokens[r] \in Nat
  BY <1>2, <1>3, Constants, Numbers
<1>7. bs \in Seq(Blocks) /\ Len(bs) \in Nat /\ first \in Nat /\ Usable(r, bs)
  BY <1>2, <1>3, <1>6, CachedPrefixBlocks, CachedUsable
<1> HIDE DEF bs
<1>8. /\ table' \in [Requests -> Seq(Blocks)] /\ right' \subseteq Slots
      /\ key' \in [Blocks -> Contents \cup {NoKey}]
      /\ \A s \in Requests : s # r => table'[s] = table[s]
      /\ BlocksFor(PromptLen) <= Len(table'[r]) /\ Len(table'[r]) <= BlocksFor(MaxLen)
      /\ \A s, q \in Requests : \A i \in DOMAIN table'[s], j \in DOMAIN table'[q] :
           table'[s][i] = table'[q][j] => Content(s, i) = Content(q, j)
      /\ \A s \in Requests : \A i \in DOMAIN table'[s] :
           key'[table'[s][i]] \in {NoKey, Content(s, i)}
      /\ \A s \in Requests : s # r =>
           \A x \in loading[s] :
             /\ x[1] \in ToSet(table'[s]) /\ key'[x[1]] = NoKey
             /\ \A q \in Requests \ {s} : x[1] \notin ToSet(table'[q])
      /\ \A i \in 1..Len(table'[r]) : i > Len(bs) =>
           /\ \A s \in Requests \ {r} : table'[r][i] \notin ToSet(table'[s])
           /\ key'[table'[r][i]] = NoKey
  <2>1. PromptLen <= MaxLen /\ 0 \in Nat /\ 0 <= PromptLen
    BY <1>6
  <2> QED BY <1>1, <1>2, <1>3, <1>6, <1>7, <2>1, AllocateKeeps
<1>9. /\ \A q \in Requests : q # r => loading'[q] = loading[q]
      /\ loading'[r] = SlotsOf(table'[r], first, PromptLen)
      /\ \A q \in Requests : q # r => status'[q] = status[q] /\ computed'[q] = computed[q]
      /\ status'[r] = "WAITING_FOR_REMOTE_KVS" /\ computed'[r] = PromptLen
  BY <1>1, <1>2, <1>3 DEF TypeOK
<1> HIDE DEF first
<1>10. ASSUME NEW x \in loading'[r]
       PROVE  /\ x \in Slots /\ x[1] \in ToSet(table'[r]) /\ key'[x[1]] = NoKey
              /\ \A q \in Requests \ {r} : x[1] \notin ToSet(table'[q])
  <2>1. table'[r] \in Seq(Blocks) /\ PromptLen \in Nat
    BY <1>3, <1>6, <1>8
  <2>2. /\ x \in Slots
        /\ \E i \in 1..Len(table'[r]) : /\ x[1] = table'[r][i]
                                        /\ \A k \in Nat : k * BlockSize <= first => k < i
    <3> DEFINE t == table'[r]
    <3>1. t \in Seq(Blocks) /\ BlocksFor(PromptLen) <= Len(t) /\ x \in SlotsOf(t, first, PromptLen)
      BY <1>8, <1>9, <1>10, <2>1
    <3>2. first \in Nat /\ PromptLen \in Nat
      BY <1>6, <1>7
    <3> HIDE DEF t
    <3>3. /\ x \in Slots
          /\ \E i \in 1..Len(t) : /\ x[1] = t[i]
                                  /\ \A k \in Nat : k * BlockSize <= first => k < i
      BY <3>1, <3>2, SlotsPlaces
    <3> QED BY <3>3 DEF t
  <2>3. PICK i \in 1..Len(table'[r]) : /\ x[1] = table'[r][i]
                                       /\ \A k \in Nat : k * BlockSize <= first => k < i
    BY <2>2
  <2>4. Len(bs) * BlockSize <= first
    BY <1>7 DEF first
  <2>5. i > Len(bs)
    BY <1>7, <2>3, <2>4
  <2>6. table'[r][i] \in ToSet(table'[r])
    BY <2>1, SetOfSequence
  <2> QED BY <1>8, <2>2, <2>3, <2>5, <2>6
<1>11. TypeOK'
  <2>1. status' \in [Requests -> Statuses]
    <3>1. "WAITING_FOR_REMOTE_KVS" \in Statuses
      BY DEF Statuses, QueuedStatuses, BlockedStatuses
    <3> QED BY <1>1, <1>2, <1>3, <3>1 DEF TypeOK
  <2>2. computed' \in [Requests -> 0..MaxLen]
    <3>1. PromptLen \in 0..MaxLen
      BY <1>6
    <3> QED BY <1>1, <1>2, <1>3, <3>1 DEF TypeOK
  <2>3. loading' \in [Requests -> SUBSET Slots]
    <3>1. loading'[r] \in SUBSET Slots
      BY <1>10
    <3>2. loading' = [loading EXCEPT ![r] = loading'[r]]
      BY <1>1, <1>9
    <3> QED BY <1>2, <1>3, <3>1, <3>2 DEF TypeOK
  <2>4. {waiting', skipped', running', stepSkipped'} \subseteq Seq(arrived')
    BY <1>1, <1>2, <1>4, <1>5 DEF TypeOK
  <2>5. /\ policy' \in Policies /\ arrived' \subseteq Requests /\ everPreempted' \subseteq Requests
        /\ tokens' \in [Requests -> PromptLen..MaxLen] /\ syncLoads' \subseteq Slots
        /\ pc' \in {"idle", "running", "waiting", "report", "outputs"} /\ reqIndex' \in Nat
        /\ budget' \in 0..TokenBudget /\ sched' \in [Requests -> 0..TokenBudget]
        /\ preempted' \in BOOLEAN /\ interrupted' \in BOOLEAN
        /\ report' \subseteq Blocks /\ failuresLeft' \in 0..MaxFailures
        /\ receiving' \cup recved' \cup sound' \cup skip' \subseteq Requests
        /\ finishedRecving' \cup failedRecving' \subseteq Requests
    BY <1>1, <1>2, <1>3 DEF TypeOK, outputVars, recvVars, historyVars
  <2> QED BY <1>8, <2>1, <2>2, <2>3, <2>4, <2>5 DEF TypeOK
<1>12. QueueInv'
  <2>1. \A q \in Requests : /\ (status'[q] = "RUNNING") <=> (status[q] = "RUNNING")
                            /\ Waits(q) => Waits(q)'
    BY <1>3, <1>9 DEF Waits
  <2>2. ToSet(waiting) \cup ToSet(skipped) \cup ToSet(stepSkipped) \subseteq Requests
    <3>1. {waiting, skipped, stepSkipped} \subseteq Seq(Requests)
      BY <1>2 DEF TypeOK
    <3> QED BY <3>1, SetOfSequence
  <2>3. Waits(r)'
    BY <1>9 DEF Waits
  <2>4. \A q \in Requests \ arrived : status'[q] = status[q] /\ computed'[q] = computed[q]
                                      /\ table'[q] = table[q]
    BY <1>3, <1>8, <1>9
  <2> QED BY <1>1, <1>2, <1>3, <1>4, <1>5, <2>1, <2>2, <2>3, <2>4 DEF QueueInv, Planning
<1>13. Given(r)' = PromptLen /\ \A q \in Requests : q # r => Given(q)' = Given(q)
  <2>1. pc' = pc /\ sched' = sched /\ PromptLen + sched[r] = PromptLen
    BY <1>1, <1>3, <1>6
  <2> QED BY <1>3, <1>9, <2>1 DEF Given, Planning
<1>14. \A q \in Requests : IsFinished(status'[q]) <=> IsFinished(status[q])
  BY <1>3, <1>9 DEF IsFinished, FinishedStatuses
<1>15. TokenInv'
  <2>1. \A q \in Requests : Given(q)' <= tokens[q] /\ (~IsFinished(status[q]) => tokens[q] < MaxLen)
    <3>1. \A q \in Requests : Given(q) <= tokens[q] /\ (~IsFinished(status[q]) => tokens[q] < MaxLen)
      BY <1>2 DEF TokenInv
    <3> QED BY <1>6, <1>13, <3>1
  <2>2. \A q \in Requests : sched[q] > 0 => status'[q] = "RUNNING"
    BY <1>2, <1>3, <1>9 DEF TokenInv
  <2> QED BY <1>1, <1>3, <1>14, <2>1, <2>2 DEF TokenInv
<1>16. TableInv'
  <2>1. BlocksFor(Given(r))' <= Len(table'[r])
    BY <1>8, <1>13 DEF BlocksFor
  <2>2. \A q \in Requests : q # r => BlocksFor(Given(q))' = BlocksFor(Given(q))
    BY <1>13 DEF BlocksFor
  <2>3. \A q \in Requests : /\ ~IsFinished(status'[q]) => BlocksFor(Given(q))' <= Len(table'[q])
                            /\ Len(table'[q]) <= BlocksFor(MaxLen)
    <3>1. \A q \in Requests : /\ ~IsFinished(status[q]) => BlocksFor(Given(q)) <= Len(table[q])
                              /\ Len(table[q]) <= BlocksFor(MaxLen)
      BY <1>2 DEF TableInv
    <3> SUFFICES ASSUME NEW q \in Requests
                 PROVE  /\ ~IsFinished(status'[q]) => BlocksFor(Given(q))' <= Len(table'[q])
                        /\ Len(table'[q]) <= BlocksFor(MaxLen)
      OBVIOUS
    <3>2. CASE q = r
      BY <3>2, <2>1, <1>8
    <3>3. CASE q # r
      BY <3>3, <3>1, <1>8, <1>9, <2>2
    <3> QED BY <3>2, <3>3
  <2> QED BY <2>3 DEF TableInv, BlocksFor
<1>17. KeyInv'
  BY <1>8, <1>9, <1>10 DEF KeyInv
<1>18. LoadInv'
  <2>1. \A q \in Requests : Loading(q)' <=> Loading(q) \/ q = r
    BY <1>9 DEF Loading
  <2>2. /\ receiving \cup recved \subseteq Requests
        /\ finishedRecving \cup failedRecving \subseteq Requests
    BY <1>2 DEF TypeOK
  <2>3. \A q \in Requests : IsFinished(status'[q]) => table'[q] = table[q]
    BY <1>3, <1>8, <1>14
  <2> QED BY <1>1, <1>2, <1>3, <1>9, <1>14, <2>1, <2>2, <2>3 DEF LoadInv, outputVars, recvVars
<1>19. IdleInv'
  <2>1. \A q \in Requests : Loading(q)' => Loading(q) \/ q = r
    BY <1>9 DEF Loading
  <2> QED BY <1>1, <1>2, <1>8, <1>9, <2>1 DEF IdleInv, recvVars
<1>20. ReportInv'
  <2>1. \A q \in ToSet(running) : \A b : Uses(q, computed[q], b) => Uses(q, computed[q], b)'
    BY <1>3, <1>8, <1>9 DEF Uses
  <2> QED BY <1>1, <1>2, <1>3, <2>1 DEF ReportInv
<1> QED BY <1>11, <1>12, <1>15, <1>16, <1>17, <1>18, <1>19, <1>20 DEF IInv

\* How many of m tokens a step grants.
LEMMA GrantedRange ==
  ASSUME TypeOK, NEW m \in Nat
  PROVE  Granted(m) \in Nat /\ Granted(m) <= m /\ Granted(m) <= budget
<1>1. budget \in Nat /\ PrefillThreshold \in Nat
  BY Constants DEF TypeOK
<1>2. Capped(m) \in Nat /\ Capped(m) <= m
  BY <1>1 DEF Capped
<1> DEFINE c == Capped(m)
<1>3. c \in Nat /\ c <= m /\ Granted(m) = IF c <= budget THEN c ELSE budget
  BY <1>2 DEF Granted, Least
<1> HIDE DEF c
<1> QED BY <1>1, <1>3

\* A batch that the budget is granted from: types of what Grant assigns.
LEMMA GrantTypes ==
  ASSUME TypeOK, NEW r \in Requests, NEW n \in Nat, n <= budget, Grant(r, n)
  PROVE  /\ sched' \in [Requests -> 0..TokenBudget] /\ budget' \in 0..TokenBudget
         /\ sched'[r] = n /\ \A q \in Requests : q # r => sched'[q] = sched[q]
<1>1. budget \in Nat /\ budget <= TokenBudget /\ TokenBudget \in Nat
      /\ sched \in [Requests -> 0..TokenBudget]
  BY Constants DEF TypeOK
<1>2. sched' = [sched EXCEPT ![r] = n] /\ budget' = budget - n
  BY DEF Grant
<1>3. n \in 0..TokenBudget /\ budget - n \in 0..TokenBudget
  BY <1>1
<1> QED BY <1>1, <1>2, <1>3

\* What a request is admitted with: blocks it may start from, the tokens that
\* the cache has in them, those the connector adds, and those it is granted.
LEMMA AdmitNumbers ==
  ASSUME IInv, Admit, NEW r, r = Candidate
  PROVE  \E bs \in Seq(Blocks), first, start, n \in Nat :
           /\ Usable(r, bs) /\ first <= start /\ start + n <= tokens[r] /\ start + n <= MaxLen
           /\ n <= budget /\ Allocate(r, bs, start + n, start + n)
           /\ syncLoads' = syncLoads \cup SlotsOf(table'[r], first, start)
           /\ Grant(r, n)
           /\ computed' = [computed EXCEPT ![r] = start]
<1>1. PICK hit \in SyncHits :
        /\ Allocate(r, StartBlocks, Upto(hit), Upto(hit))
        /\ syncLoads' = syncLoads \cup SlotsOf(table'[r], Start(0), Start(hit))
        /\ Grant(r, Upto(hit) - Start(hit))
        /\ computed' = [computed EXCEPT ![r] = Start(hit)]
  BY DEF Admit
<1>2. TypeOK /\ TableInv /\ KeyInv /\ Schedulable
  BY DEF IInv, Admit
<1>3. /\ r \in Requests /\ loading[r] = {} /\ computed[r] <= tokens[r]
  BY <1>2, CandidateReady
<1>4. /\ computed[r] \in Nat /\ tokens[r] \in Nat /\ 1 <= tokens[r] /\ PromptLen <= tokens[r]
      /\ PromptLen \in Nat \ {0} /\ tokens[r] <= MaxLen /\ MaxLen \in Nat
      /\ table[r] \in Seq(Blocks) /\ BlockSize \in Nat \ {0}
  BY <1>2, <1>3, Numbers, Constants
<1> DEFINE bs == StartBlocks
           first == Start(0)
           start == Start(hit)
           n == Granted(tokens[r] - Start(hit))
<1>5. /\ bs \in Seq(Blocks) /\ Usable(r, bs)
      /\ first \in Nat /\ start \in Nat /\ first <= start /\ start <= tokens[r]
  <2>1. CASE Asks
    <3> DEFINE known == Len(CachedPrefix(r)) * BlockSize
    <3>1. /\ bs = CachedPrefix(r) /\ first = known + 0 /\ start = known + hit
          /\ hit = 0 \/ (known < PromptLen - 1 /\ hit = PromptLen - 1 - known)
      BY <2>1 DEF StartBlocks, Start, Local, SyncHits
    <3>2. /\ CachedPrefix(r) \in Seq(Blocks) /\ Usable(r, CachedPrefix(r))
          /\ Len(CachedPrefix(r)) \in Nat /\ known <= tokens[r] - 1
      BY <1>2, <1>3, CachedPrefixBlocks, CachedUsable
    <3>3. known \in Nat
      BY <1>4, <3>2
    <3> HIDE DEF known, first, start
    <3>4. first \in Nat /\ start \in Nat /\ first <= start /\ start <= tokens[r]
      BY <1>4, <3>1, <3>2, <3>3
    <3> QED BY <3>1, <3>2, <3>4
  <2>2. CASE ~Asks
    <3>1. bs = table[r] /\ first = computed[r] /\ start = computed[r]
      BY <2>2 DEF StartBlocks, Start
    <3>2. Usable(r, table[r])
      BY <1>2, <1>3, OwnUsable
    <3> QED BY <1>3, <1>4, <3>1, <3>2
  <2> QED BY <2>1, <2>2
<1>6. /\ n \in Nat /\ n <= budget /\ start + n <= tokens[r] /\ start + n <= MaxLen
      /\ Upto(hit) = start + n /\ (start + n) - start = n
  <2>1. tokens[r] - Start(hit) \in Nat
    BY <1>4, <1>5
  <2>2. n \in Nat /\ n <= tokens[r] - Start(hit) /\ n <= budget
    BY <1>2, <2>1, GrantedRange
  <2>3. Upto(hit) = start + n
    BY DEF Upto
  <2> HIDE DEF start, n
  <2>4. n <= tokens[r] - start
    BY <2>2 DEF start
  <2> QED BY <1>4, <1>5, <2>2, <2>3, <2>4
<1>7. /\ Allocate(r, bs, start + n, start + n)
      /\ syncLoads' = syncLoads \cup SlotsOf(table'[r], first, start)
      /\ Grant(r, n) /\ computed' = [computed EXCEPT ![r] = start]
  BY <1>1, <1>6
<1>8. /\ bs \in Seq(Blocks) /\ first \in Nat /\ start \in Nat /\ n \in Nat
      /\ Usable(r, bs) /\ first <= start /\ start + n <= tokens[r] /\ start + n <= MaxLen
      /\ n <= budget
  BY <1>5, <1>6
<1> HIDE DEF bs, first, start, n
<1> QED BY <1>7, <1>8

\* A request enters the running queue with cached and loaded tokens.
LEMMA AdmitKeeps ==
  ASSUME IInv, Admit
  PROVE  IInv'
<1>0. PICK r : r = Candidate
  OBVIOUS
<1>1. /\ Schedulable /\ InWaitingLoop /\ PopCandidate
      /\ running' = Append(running, r)
      /\ status' = [status EXCEPT ![r] = "RUNNING"]
      /\ UNCHANGED <<policy, arrived, tokens, everPreempted, pc, reqIndex, preempted,
                     stepSkipped, outputVars, loadVars, skip, recvVars, historyVars>>
  BY <1>0 DEF Admit, Schedulable
<1>2. TypeOK /\ QueueInv /\ TokenInv /\ TableInv /\ KeyInv /\ LoadInv /\ IdleInv /\ ReportInv
  BY DEF IInv
<1>3. /\ r \in arrived /\ r \in Requests /\ r \in ToSet(waiting) \cup ToSet(skipped)
      /\ status[r] \in {"WAITING", "PREEMPTED"} /\ ~IsFinished(status[r])
      /\ pc = "waiting" /\ Planning /\ skip = {}
      /\ sched[r] = 0 /\ loading[r] = {}
      /\ r \notin receiving \cup recved \cup finishedRecving \cup failedRecving
      /\ \A q \in ToSet(running) : q \in Requests /\ q # r
      /\ r \notin ToSet(stepSkipped)
  BY <1>0, <1>1, CandidateReady
<1>4. /\ waiting' \in Seq(arrived) /\ skipped' \in Seq(arrived)
      /\ IsInjective(waiting') /\ IsInjective(skipped')
      /\ ToSet(waiting') \cap ToSet(skipped') = {}
      /\ ToSet(waiting') \cup ToSet(skipped') = (ToSet(waiting) \cup ToSet(skipped)) \ {r}
  BY <1>0, <1>1, <1>2, PopKeeps
<1>5. PICK bs \in Seq(Blocks), first \in Nat, start \in Nat, n \in Nat :
        /\ Usable(r, bs) /\ first <= start /\ start + n <= tokens[r] /\ start + n <= MaxLen
        /\ n <= budget /\ Allocate(r, bs, start + n, start + n)
        /\ syncLoads' = syncLoads \cup SlotsOf(table'[r], first, start)
        /\ Grant(r, n)
        /\ computed' = [computed EXCEPT ![r] = start]
  BY <1>0, AdmitNumbers
<1>6. /\ running' \in Seq(arrived) /\ IsInjective(running')
      /\ ToSet(running') = ToSet(running) \cup {r}
  <2>1. running \in Seq(arrived) /\ IsInjective(running) /\ r \notin ToSet(running)
    BY <1>2, <1>3 DEF TypeOK, QueueInv
  <2> QED BY <1>1, <1>3, <2>1, AppendSet
<1>7. PICK upto \in Nat : upto = start + n
  OBVIOUS
<1>8. /\ table' \in [Requests -> Seq(Blocks)] /\ right' \subseteq Slots
      /\ key' \in [Blocks -> Contents \cup {NoKey}]
      /\ \A s \in Requests : s # r => table'[s] = table[s]
      /\ BlocksFor(upto) <= Len(table'[r]) /\ Len(table'[r]) <= BlocksFor(MaxLen)
      /\ \A s, q \in Requests : \A i \in DOMAIN table'[s], j \in DOMAIN table'[q] :
           table'[s][i] = table'[q][j] => Content(s, i) = Content(q, j)
      /\ \A s \in Requests : \A i \in DOMAIN table'[s] :
           key'[table'[s][i]] \in {NoKey, Content(s, i)}
      /\ \A s \in Requests : s # r =>
           \A x \in loading[s] :
             /\ x[1] \in ToSet(table'[s]) /\ key'[x[1]] = NoKey
             /\ \A q \in Requests \ {s} : x[1] \notin ToSet(table'[q])
  <2>1. upto <= upto /\ upto <= MaxLen /\ Allocate(r, bs, upto, upto)
    BY <1>5, <1>7
  <2> QED BY <1>2, <1>3, <1>5, <2>1, AllocateKeeps
<1>9. /\ sched' \in [Requests -> 0..TokenBudget] /\ budget' \in 0..TokenBudget
      /\ sched'[r] = n /\ \A q \in Requests : q # r => sched'[q] = sched[q]
  BY <1>2, <1>3, <1>5, GrantTypes
<1>10. /\ \A q \in Requests : q # r => status'[q] = status[q] /\ computed'[q] = computed[q]
       /\ status'[r] = "RUNNING" /\ computed'[r] = start /\ loading' = loading
       /\ receiving' = receiving
  BY <1>1, <1>2, <1>3, <1>5 DEF TypeOK, loadVars
<1>11. MaxLen \in Nat /\ start <= upto /\ upto <= tokens[r] /\ start \in 0..MaxLen
       /\ tokens[r] \in Nat
  <2>1. MaxLen \in Nat /\ tokens[r] \in Nat
    BY <1>2, <1>3, Constants, Numbers
  <2> QED BY <1>5, <1>7, <2>1
\* What the batch is to load is in blocks of r's that it counts.
<1>12. ASSUME NEW x \in SlotsOf(table'[r], first, start)
       PROVE  x \in Slots /\ Uses(r, start, x[1])'
  <2> DEFINE t == table'[r]
             most == BlocksFor(start)
             room == BlocksFor(upto)
  <2>1. t \in Seq(Blocks) /\ most <= room /\ room <= Len(t)
    BY <1>3, <1>8, <1>11, BlocksForMonotone
  <2>2. most \in Nat /\ room \in Nat /\ Len(t) \in Nat /\ DOMAIN t = 1..Len(t)
    BY <2>1, BlocksForTokens
  <2>3. BlocksFor(start) <= Len(t)
    <3> HIDE DEF most, room, t
    <3>1. most <= Len(t)
      BY <2>1, <2>2
    <3> QED BY <3>1 DEF most
  <2>4. x \in SlotsOf(t, first, start)
    BY <1>12
  <2> HIDE DEF t
  <2>5. x \in Slots /\ \E i \in 1..Len(t) : x[1] = t[i] /\ i <= BlocksFor(start)
    BY <2>1, <2>3, <2>4, SlotsPlaces
  <2>6. x \in Slots /\ \E i \in DOMAIN t : t[i] = x[1] /\ i <= BlocksFor(start)
    BY <2>2, <2>5
  <2> QED BY <2>6 DEF Uses, BlocksFor, t
<1>13. TypeOK'
  <2>1. status' \in [Requests -> Statuses]
    <3>1. "RUNNING" \in Statuses
      BY DEF Statuses
    <3> QED BY <1>1, <1>2, <1>3, <3>1 DEF TypeOK
  <2>2. computed' \in [Requests -> 0..MaxLen]
    BY <1>2, <1>3, <1>5, <1>11 DEF TypeOK
  <2>3. syncLoads' \subseteq Slots
    BY <1>2, <1>5, <1>12 DEF TypeOK
  <2>4. {waiting', skipped', running', stepSkipped'} \subseteq Seq(arrived')
    BY <1>1, <1>2, <1>4, <1>6 DEF TypeOK
  <2>5. /\ policy' \in Policies /\ arrived' \subseteq Requests /\ everPreempted' \subseteq Requests
        /\ tokens' \in [Requests -> PromptLen..MaxLen] /\ loading' \in [Requests -> SUBSET Slots]
        /\ pc' \in {"idle", "running", "waiting", "report", "outputs"} /\ reqIndex' \in Nat
        /\ preempted' \in BOOLEAN /\ interrupted' \in BOOLEAN
        /\ report' \subseteq Blocks /\ failuresLeft' \in 0..MaxFailures
        /\ receiving' \cup recved' \cup sound' \cup skip' \subseteq Requests
        /\ finishedRecving' \cup failedRecving' \subseteq Requests
    BY <1>1, <1>2 DEF TypeOK, outputVars, loadVars, recvVars, historyVars
  <2> QED BY <1>8, <1>9, <2>1, <2>2, <2>3, <2>4, <2>5 DEF TypeOK
<1>14. QueueInv'
  <2>1. \A q \in Requests : /\ (status'[q] = "RUNNING") <=> (status[q] = "RUNNING" \/ q = r)
                            /\ Waits(q) /\ q # r => Waits(q)'
    BY <1>3, <1>10 DEF Waits
  <2>2. ToSet(waiting) \cup ToSet(skipped) \cup ToSet(stepSkipped) \subseteq Requests
    <3>1. {waiting, skipped, stepSkipped} \subseteq Seq(Requests)
      BY <1>2 DEF TypeOK
    <3> QED BY <3>1, SetOfSequence
  <2>3. \A q \in Requests \ arrived : status'[q] = status[q] /\ computed'[q] = computed[q]
                                      /\ table'[q] = table[q]
    BY <1>3, <1>8, <1>10
  <2> QED BY <1>1, <1>2, <1>3, <1>4, <1>6, <2>1, <2>2, <2>3 DEF QueueInv, Planning
<1>15. Given(r)' = upto /\ \A q \in Requests : q # r => Given(q)' = Given(q)
  <2>1. pc' = pc
    BY <1>1
  <2> QED BY <1>3, <1>7, <1>9, <1>10, <2>1 DEF Given, Planning
<1>16. \A q \in Requests : IsFinished(status'[q]) <=> IsFinished(status[q])
  BY <1>3, <1>10 DEF IsFinished, FinishedStatuses
<1>17. TokenInv'
  <2>1. \A q \in Requests : Given(q)' <= tokens[q] /\ (~IsFinished(status[q]) => tokens[q] < MaxLen)
    <3>1. \A q \in Requests : Given(q) <= tokens[q] /\ (~IsFinished(status[q]) => tokens[q] < MaxLen)
      BY <1>2 DEF TokenInv
    <3> QED BY <1>11, <1>15, <3>1
  <2>2. \A q \in Requests : sched'[q] > 0 => status'[q] = "RUNNING"
    BY <1>2, <1>3, <1>9, <1>10 DEF TokenInv
  <2> QED BY <1>1, <1>3, <1>16, <2>1, <2>2 DEF TokenInv
<1>18. TableInv'
  <2>1. BlocksFor(Given(r))' <= Len(table'[r])
    BY <1>8, <1>15 DEF BlocksFor
  <2>2. \A q \in Requests : q # r => BlocksFor(Given(q))' = BlocksFor(Given(q))
    BY <1>15 DEF BlocksFor
  <2>3. \A q \in Requests : /\ ~IsFinished(status'[q]) => BlocksFor(Given(q))' <= Len(table'[q])
                            /\ Len(table'[q]) <= BlocksFor(MaxLen)
    <3>1. \A q \in Requests : /\ ~IsFinished(status[q]) => BlocksFor(Given(q)) <= Len(table[q])
                              /\ Len(table[q]) <= BlocksFor(MaxLen)
      BY <1>2 DEF TableInv
    <3> SUFFICES ASSUME NEW q \in Requests
                 PROVE  /\ ~IsFinished(status'[q]) => BlocksFor(Given(q))' <= Len(table'[q])
                        /\ Len(table'[q]) <= BlocksFor(MaxLen)
      OBVIOUS
    <3>2. CASE q = r
      BY <3>2, <2>1, <1>8
    <3>3. CASE q # r
      BY <3>3, <3>1, <1>8, <1>10, <2>2
    <3> QED BY <3>2, <3>3
  <2> QED BY <2>3 DEF TableInv, BlocksFor
<1>19. KeyInv'
  <2>1. \A s \in Requests : \A x \in loading[s] : s # r
    BY <1>3
  <2> QED BY <1>8, <1>10, <2>1 DEF KeyInv
<1>20. LoadInv'
  <2>1. \A q \in Requests : Loading(q)' <=> Loading(q)
    BY <1>3, <1>10 DEF Loading
  <2>2. /\ receiving \cup recved \subseteq Requests
        /\ finishedRecving \cup failedRecving \subseteq Requests
    BY <1>2 DEF TypeOK
  <2>3. \A q \in Requests : IsFinished(status'[q]) => table'[q] = table[q]
    BY <1>3, <1>8, <1>16
  <2> QED BY <1>1, <1>2, <1>3, <1>10, <1>16, <2>1, <2>2, <2>3 DEF LoadInv, outputVars, recvVars
<1>21. IdleInv'
  <2>1. \A q \in Requests : Loading(q)' => Loading(q) /\ q # r
    BY <1>10 DEF Loading
  <2> QED BY <1>1, <1>2, <1>8, <1>10, <2>1 DEF IdleInv, recvVars
<1>22. ReportInv'
  <2>1. \A q \in ToSet(running) : \A b : Uses(q, computed[q], b) => Uses(q, computed[q], b)'
    BY <1>3, <1>8, <1>10 DEF Uses
  <2>2. \A x \in SlotsOf(table'[r], first, start) : Uses(r, computed[r], x[1])'
    BY <1>10, <1>12 DEF Uses, BlocksFor
  <2>3. \A x \in syncLoads' : \E q \in ToSet(running') : Uses(q, computed[q], x[1])'
    BY <1>2, <1>3, <1>5, <1>6, <2>1, <2>2 DEF ReportInv
  <2> QED BY <1>1, <1>2, <1>3, <2>3 DEF ReportInv
<1> QED BY <1>13, <1>14, <1>17, <1>18, <1>19, <1>20, <1>21, <1>22 DEF IInv

-------------------------------------------------------------------------------
(* The loop over the running requests *)

\* The request whose turn it is has not been scheduled yet.
LEMMA TurnReady ==
  ASSUME IInv, InRunningLoop, NEW r, r = Turn
  PROVE  /\ r \in arrived /\ r \in Requests /\ r \in ToSet(running)
         /\ reqIndex \in 1..Len(running) /\ DOMAIN running = 1..Len(running)
         /\ status[r] = "RUNNING" /\ pc = "running" /\ Planning
         /\ sched[r] = 0 /\ loading[r] = {} /\ computed[r] <= tokens[r]
         /\ syncLoads = {}
<1>1. TypeOK /\ QueueInv /\ TokenInv /\ LoadInv /\ ReportInv
  BY DEF IInv
<1>2. pc = "running" /\ reqIndex <= Len(running) /\ running \in Seq(arrived)
      /\ reqIndex \in Nat /\ reqIndex > 0 /\ arrived \subseteq Requests
  BY <1>1 DEF InRunningLoop, TypeOK, TokenInv
<1>3. DOMAIN running = 1..Len(running) /\ Len(running) \in Nat
      /\ \A i \in 1..Len(running) : running[i] \in ToSet(running) /\ running[i] \in arrived
  BY <1>2, SetOfSequence
<1>4. reqIndex \in 1..Len(running)
  BY <1>2, <1>3
<1>5. r \in ToSet(running) /\ r \in arrived /\ r \in Requests
  BY <1>2, <1>3, <1>4 DEF Turn
<1>6. status[r] = "RUNNING" /\ Planning /\ syncLoads = {}
  BY <1>1, <1>2, <1>5 DEF QueueInv, Planning, ReportInv
<1>7. sched[r] = 0
  <2>1. ~ (sched[r] > 0)
    BY <1>1, <1>2, <1>3, <1>4 DEF TokenInv, Turn
  <2> QED BY <1>1, <1>5, <2>1, Numbers
<1>8. loading[r] = {}
  BY <1>1, <1>5, <1>6 DEF LoadInv, Loading, IsFinished, FinishedStatuses
<1>9. computed[r] <= tokens[r]
  <2>1. Given(r) = computed[r] + 0 /\ computed[r] \in Nat
    BY <1>1, <1>5, <1>6, <1>7, Numbers DEF Given
  <2> QED BY <1>1, <1>5, <2>1 DEF TokenInv
<1> QED BY <1>2, <1>3, <1>4, <1>5, <1>6, <1>7, <1>8, <1>9

\* A running request is given its next tokens.
LEMMA ScheduleRunningKeeps ==
  ASSUME IInv, ScheduleRunning
  PROVE  IInv'
<1>0. PICK r, n : r = Turn /\ n = NumNew
  OBVIOUS
<1>1. /\ InRunningLoop
      /\ Allocate(r, table[r], computed[r] + n, computed[r] + n) /\ Grant(r, n)
      /\ reqIndex' = reqIndex + 1
      /\ UNCHANGED <<policy, queueVars, reqVars, pc, preempted, stepSkipped, syncLoads,
                     outputVars, loadVars, skip, recvVars, historyVars>>
  BY <1>0 DEF ScheduleRunning
<1>2. TypeOK /\ QueueInv /\ TokenInv /\ TableInv /\ KeyInv /\ LoadInv /\ IdleInv /\ ReportInv
  BY DEF IInv
<1>3. /\ r \in arrived /\ r \in Requests /\ r \in ToSet(running)
      /\ reqIndex \in 1..Len(running) /\ DOMAIN running = 1..Len(running)
      /\ status[r] = "RUNNING" /\ pc = "running" /\ Planning
      /\ sched[r] = 0 /\ loading[r] = {} /\ computed[r] <= tokens[r]
      /\ syncLoads = {}
  BY <1>0, <1>1, TurnReady
<1>4. /\ computed[r] \in Nat /\ tokens[r] \in Nat /\ tokens[r] <= MaxLen /\ MaxLen \in Nat
      /\ table[r] \in Seq(Blocks)
  BY <1>2, <1>3, Numbers, Constants
<1>5. n \in Nat /\ n <= tokens[r] - computed[r] /\ n <= budget
  <2>1. tokens[r] - computed[r] \in Nat
    BY <1>3, <1>4
  <2> QED BY <1>0, <1>2, <2>1, GrantedRange DEF NumNew
<1>6. PICK upto \in Nat : upto = computed[r] + n
  BY <1>4, <1>5
<1>7. upto <= tokens[r] /\ upto <= MaxLen /\ upto <= upto
  BY <1>4, <1>5, <1>6
<1>8. /\ table' \in [Requests -> Seq(Blocks)] /\ right' \subseteq Slots
      /\ key' \in [Blocks -> Contents \cup {NoKey}]
      /\ \A s \in Requests : s # r => table'[s] = table[s]
      /\ BlocksFor(upto) <= Len(table'[r]) /\ Len(table'[r]) <= BlocksFor(MaxLen)
      /\ \A s, q \in Requests : \A i \in DOMAIN table'[s], j \in DOMAIN table'[q] :
           table'[s][i] = table'[q][j] => Content(s, i) = Content(q, j)
      /\ \A s \in Requests : \A i \in DOMAIN table'[s] :
           key'[table'[s][i]] \in {NoKey, Content(s, i)}
      /\ \A s \in Requests : s # r =>
           \A x \in loading[s] :
             /\ x[1] \in ToSet(table'[s]) /\ key'[x[1]] = NoKey
             /\ \A q \in Requests \ {s} : x[1] \notin ToSet(table'[q])
  <2>1. Usable(r, table[r])
    BY <1>2, <1>3, OwnUsable
  <2>2. Allocate(r, table[r], upto, upto)
    BY <1>1, <1>6
  <2> QED BY <1>2, <1>3, <1>4, <1>7, <2>1, <2>2, AllocateKeeps
<1>9. /\ sched' \in [Requests -> 0..TokenBudget] /\ budget' \in 0..TokenBudget
      /\ sched'[r] = n /\ \A q \in Requests : q # r => sched'[q] = sched[q]
  BY <1>1, <1>2, <1>3, <1>5, GrantTypes
<1>10. status' = status /\ computed' = computed /\ tokens' = tokens /\ loading' = loading
       /\ running' = running /\ arrived' = arrived /\ pc' = pc
  BY <1>1 DEF queueVars, reqVars, loadVars
<1>11. TypeOK'
  <2>1. reqIndex' \in Nat
    BY <1>1, <1>2 DEF TypeOK
  <2> QED BY <1>1, <1>2, <1>8, <1>9, <2>1
          DEF TypeOK, queueVars, reqVars, outputVars, loadVars, recvVars, historyVars
<1>12. QueueInv'
  <2>1. \A q \in Requests \ arrived : table'[q] = table[q]
    BY <1>3, <1>8
  <2> QED BY <1>1, <1>2, <2>1 DEF QueueInv, Planning, Waits, queueVars, reqVars
<1>13. Given(r)' = upto /\ \A q \in Requests : q # r => Given(q)' = Given(q)
  BY <1>3, <1>6, <1>9, <1>10 DEF Given, Planning
<1>14. TokenInv'
  <2>1. \A q \in Requests : Given(q)' <= tokens[q] /\ (~IsFinished(status[q]) => tokens[q] < MaxLen)
    <3>1. \A q \in Requests : Given(q) <= tokens[q] /\ (~IsFinished(status[q]) => tokens[q] < MaxLen)
      BY <1>2 DEF TokenInv
    <3> QED BY <1>7, <1>13, <3>1
  <2>2. \A q \in Requests : sched'[q] > 0 => status[q] = "RUNNING"
    BY <1>2, <1>3, <1>9 DEF TokenInv
  <2>3. ASSUME NEW i \in DOMAIN running, sched'[running[i]] > 0 PROVE i < reqIndex + 1
    <3>1. i \in Nat /\ reqIndex \in Nat
      BY <1>3
    <3>2. CASE i = reqIndex
      BY <3>1, <3>2
    <3>3. CASE i # reqIndex
      <4>1. running[i] # r
        BY <1>0, <1>2, <1>3, <3>3 DEF QueueInv, IsInjective, Turn
      <4>2. running[i] \in Requests
        <5>1. running \in Seq(Requests)
          BY <1>2 DEF TypeOK
        <5> QED BY <5>1, SetOfSequence
      <4>3. sched[running[i]] > 0
        BY <1>9, <2>3, <4>1, <4>2
      <4>4. i < reqIndex
        BY <1>2, <1>3, <4>3 DEF TokenInv
      <4> QED BY <3>1, <4>4
    <3> QED BY <3>2, <3>3
  <2>4. reqIndex' > 0
    BY <1>1, <1>3
  <2> QED BY <1>1, <1>3, <1>10, <2>1, <2>2, <2>3, <2>4 DEF TokenInv
<1>15. TableInv'
  <2>1. BlocksFor(Given(r))' <= Len(table'[r])
    BY <1>8, <1>13 DEF BlocksFor
  <2>2. \A q \in Requests : q # r => BlocksFor(Given(q))' = BlocksFor(Given(q))
    BY <1>13 DEF BlocksFor
  <2>3. \A q \in Requests : /\ ~IsFinished(status[q]) => BlocksFor(Given(q))' <= Len(table'[q])
                            /\ Len(table'[q]) <= BlocksFor(MaxLen)
    <3>1. \A q \in Requests : /\ ~IsFinished(status[q]) => BlocksFor(Given(q)) <= Len(table[q])
                              /\ Len(table[q]) <= BlocksFor(MaxLen)
      BY <1>2 DEF TableInv
    <3> SUFFICES ASSUME NEW q \in Requests
                 PROVE  /\ ~IsFinished(status[q]) => BlocksFor(Given(q))' <= Len(table'[q])
                        /\ Len(table'[q]) <= BlocksFor(MaxLen)
      OBVIOUS
    <3>2. CASE q = r
      BY <3>2, <2>1, <1>8
    <3>3. CASE q # r
      BY <3>3, <3>1, <1>8, <2>2
    <3> QED BY <3>2, <3>3
  <2> QED BY <1>10, <2>3 DEF TableInv, BlocksFor
<1>16. KeyInv'
  <2>1. \A s \in Requests : \A x \in loading[s] : s # r
    BY <1>3
  <2> QED BY <1>8, <1>10, <2>1 DEF KeyInv
<1>17. LoadInv'
  <2>1. \A q \in Requests : IsFinished(status[q]) => table'[q] = table[q]
    BY <1>3, <1>8 DEF IsFinished, FinishedStatuses
  <2> QED BY <1>1, <1>2, <1>10, <2>1 DEF LoadInv, Loading, outputVars, recvVars, loadVars
<1>18. IdleInv'
  BY <1>1, <1>2, <1>3, <1>8, <1>10 DEF IdleInv, Loading, recvVars
<1>19. ReportInv'
  BY <1>1, <1>2, <1>3, <1>10 DEF ReportInv, Loading
<1> QED BY <1>11, <1>12, <1>14, <1>15, <1>16, <1>17, <1>18, <1>19 DEF IInv

\* The last running request loses its blocks and its computed tokens.
LEMMA PreemptKeeps ==
  ASSUME IInv, PreemptLast
  PROVE  IInv'
<1>0. PICK r : r = Last(running)
  OBVIOUS
<1>1. /\ InRunningLoop
      /\ running' = Front(running) /\ waiting' = <<r>> \o waiting
      /\ status' = [status EXCEPT ![r] = "PREEMPTED"]
      /\ computed' = [computed EXCEPT ![r] = 0]
      /\ everPreempted' = everPreempted \cup {r}
      /\ table' = [table EXCEPT ![r] = <<>>]
      /\ interrupted' = (interrupted \/ \E q \in {r} : OwesRecompute(q))
      /\ preempted' = TRUE
      /\ UNCHANGED <<policy, arrived, skipped, tokens, key, right, pc, reqIndex, budget,
                     sched, stepSkipped, syncLoads, outputVars, loadVars, skip,
                     recvVars, failuresLeft>>
  BY <1>0 DEF PreemptLast, LetGo
<1>2. TypeOK /\ QueueInv /\ TokenInv /\ TableInv /\ KeyInv /\ LoadInv /\ IdleInv /\ ReportInv
  BY DEF IInv
<1>3. /\ reqIndex \in 1..Len(running) /\ DOMAIN running = 1..Len(running)
      /\ pc = "running" /\ Planning /\ syncLoads = {}
  BY <1>1, TurnReady
<1>4. running \in Seq(arrived) /\ arrived \subseteq Requests /\ Len(running) \in Nat
      /\ Len(running) > 0 /\ IsInjective(running)
  <2>1. running \in Seq(arrived) /\ arrived \subseteq Requests /\ IsInjective(running)
    BY <1>2 DEF TypeOK, QueueInv
  <2>2. Len(running) \in Nat
    BY <2>1, SetOfSequence
  <2> QED BY <1>3, <2>1, <2>2
<1>5. /\ r \in arrived /\ r \in ToSet(running) /\ running' \in Seq(arrived)
      /\ Len(running') = Len(running) - 1
      /\ \A i \in 1..Len(running) - 1 : running'[i] = running[i]
      /\ IsInjective(running') /\ ToSet(running') = ToSet(running) \ {r}
  BY <1>0, <1>1, <1>4, FrontSet
<1>6. r \in Requests /\ status[r] = "RUNNING"
  BY <1>2, <1>4, <1>5 DEF QueueInv
<1>7. /\ waiting' \in Seq(arrived) /\ IsInjective(waiting')
      /\ ToSet(waiting') = ToSet(waiting) \cup {r} /\ r \notin ToSet(skipped)
      /\ r \notin ToSet(stepSkipped)
  <2>1. /\ r \notin ToSet(waiting) /\ r \notin ToSet(skipped) /\ r \notin ToSet(stepSkipped)
        /\ IsInjective(waiting) /\ waiting \in Seq(arrived)
    BY <1>2, <1>3, <1>6 DEF QueueInv, Waits, TypeOK
  <2> QED BY <1>1, <1>5, <2>1, PrependSet
<1>8. sched[r] = 0
  <2>1. r = running[Len(running)] /\ Len(running) \in DOMAIN running
    BY <1>0, <1>3, <1>4 DEF Last
  <2>2. ~ (sched[r] > 0)
    BY <1>2, <1>3, <1>4, <2>1 DEF TokenInv
  <2> QED BY <1>2, <1>6, <2>2, Numbers
<1>9. loading[r] = {}
  BY <1>2, <1>6 DEF LoadInv, Loading, IsFinished, FinishedStatuses
<1>10. /\ table' \in [Requests -> Seq(Blocks)] /\ KeyInv'
       /\ \A q \in Requests : Len(table'[q]) = IF q \in {r} THEN 0 ELSE Len(table[q])
  <2>1. table' = [q \in Requests |-> IF q \in {r} THEN <<>> ELSE table[q]]
    BY <1>1, <1>2 DEF TypeOK
  <2>2. \A q \in {r} \cap Requests : loading[q] = {}
    BY <1>9
  <2>3. UNCHANGED <<key, loading>>
    BY <1>1 DEF loadVars
  <2> QED BY <1>2, <2>1, <2>2, <2>3, GiveBackKeeps
<1>11. /\ \A q \in Requests : q # r => /\ status'[q] = status[q] /\ computed'[q] = computed[q]
                                       /\ table'[q] = table[q]
       /\ status'[r] = "PREEMPTED" /\ computed'[r] = 0 /\ table'[r] = <<>>
  BY <1>1, <1>2, <1>6 DEF TypeOK
<1>12. TypeOK'
  <2>1. status' \in [Requests -> Statuses]
    <3>1. "PREEMPTED" \in Statuses
      BY DEF Statuses, QueuedStatuses
    <3> QED BY <1>1, <1>2, <1>6, <3>1 DEF TypeOK
  <2>2. computed' \in [Requests -> 0..MaxLen]
    <3>1. 0 \in 0..MaxLen
      BY Constants
    <3> QED BY <1>1, <1>2, <1>6, <3>1 DEF TypeOK
  <2>3. {waiting', skipped', running', stepSkipped'} \subseteq Seq(arrived')
    BY <1>1, <1>2, <1>5, <1>7 DEF TypeOK
  <2>4. interrupted' \in BOOLEAN
    BY <1>1
  <2> QED BY <1>1, <1>2, <1>6, <1>10, <2>1, <2>2, <2>3, <2>4
          DEF TypeOK, outputVars, loadVars, recvVars
<1>13. QueueInv'
  <2>1. \A q \in Requests : /\ (status'[q] = "RUNNING") <=> (status[q] = "RUNNING" /\ q # r)
                            /\ Waits(q) => Waits(q)'
    BY <1>6, <1>11 DEF Waits
  <2>2. ToSet(waiting) \cup ToSet(skipped) \cup ToSet(stepSkipped) \subseteq Requests
    <3>1. {waiting, skipped, stepSkipped} \subseteq Seq(Requests)
      BY <1>2 DEF TypeOK
    <3> QED BY <3>1, SetOfSequence
  <2>3. Waits(r)'
    BY <1>11 DEF Waits
  <2>4. \A q \in Requests \ arrived : status'[q] = status[q] /\ computed'[q] = computed[q]
                                      /\ table'[q] = table[q]
    BY <1>5, <1>11
  <2>5. /\ IsInjective(waiting') /\ IsInjective(skipped') /\ IsInjective(running')
        /\ ToSet(waiting') \cap ToSet(skipped') = {}
        /\ IsInjective(stepSkipped')
        /\ ToSet(stepSkipped') \cap (ToSet(waiting') \cup ToSet(skipped')) = {}
    <3>1. skipped' = skipped /\ stepSkipped' = stepSkipped
      BY <1>1
    <3>2. /\ IsInjective(skipped) /\ IsInjective(stepSkipped)
          /\ ToSet(waiting) \cap ToSet(skipped) = {}
          /\ ToSet(stepSkipped) \cap (ToSet(waiting) \cup ToSet(skipped)) = {}
      BY <1>2, <1>3 DEF QueueInv
    <3> QED BY ONLY <1>5, <1>7, <3>1, <3>2
  <2>6. \A q \in ToSet(waiting') \cup ToSet(skipped') \cup ToSet(stepSkipped') : Waits(q)'
    BY <1>1, <1>2, <1>3, <1>7, <2>1, <2>2, <2>3 DEF QueueInv
  <2>7. \A q \in Requests : q \in ToSet(running') <=> status'[q] = "RUNNING"
    BY <1>2, <1>5, <2>1 DEF QueueInv
  <2>8. \A q \in Requests \ arrived' :
          status'[q] = "WAITING" /\ computed'[q] = 0 /\ table'[q] = <<>>
    BY <1>1, <1>2, <2>4 DEF QueueInv
  <2> QED BY <2>5, <2>6, <2>7, <2>8 DEF QueueInv
<1>14. Given(r)' = 0 /\ \A q \in Requests : q # r => Given(q)' = Given(q)
  BY <1>1, <1>3, <1>8, <1>11 DEF Given, Planning
<1>15. \A q \in Requests : IsFinished(status'[q]) <=> IsFinished(status[q])
  BY <1>6, <1>11 DEF IsFinished, FinishedStatuses
<1>16. TokenInv'
  <2>1. \A q \in Requests : Given(q)' <= tokens[q] /\ (~IsFinished(status[q]) => tokens[q] < MaxLen)
    <3>1. \A q \in Requests : Given(q) <= tokens[q] /\ (~IsFinished(status[q]) => tokens[q] < MaxLen)
      BY <1>2 DEF TokenInv
    <3>2. tokens[r] \in Nat
      BY <1>2, <1>6, Numbers
    <3> QED BY <1>14, <3>1, <3>2
  <2>2. \A q \in Requests : sched[q] > 0 => status'[q] = "RUNNING"
    BY <1>2, <1>8, <1>11 DEF TokenInv
  <2>3. \A i \in DOMAIN running' : i \in DOMAIN running /\ running'[i] = running[i]
    <3>1. DOMAIN running' = 1..Len(running) - 1
      BY <1>5
    <3> QED BY <1>3, <1>4, <1>5, <3>1
  <2> QED BY <1>1, <1>2, <1>3, <1>15, <2>1, <2>2, <2>3 DEF TokenInv
<1>17. TableInv'
  <2>1. BlocksFor(Given(r))' = 0
    BY <1>14, BlocksForZero DEF BlocksFor
  <2>2. \A q \in Requests : q # r => BlocksFor(Given(q))' = BlocksFor(Given(q))
    BY <1>14 DEF BlocksFor
  <2>3. \A q \in Requests : /\ ~IsFinished(status'[q]) => BlocksFor(Given(q))' <= Len(table'[q])
                            /\ Len(table'[q]) <= BlocksFor(MaxLen)
    <3>1. \A q \in Requests : /\ ~IsFinished(status[q]) => BlocksFor(Given(q)) <= Len(table[q])
                              /\ Len(table[q]) <= BlocksFor(MaxLen)
      BY <1>2 DEF TableInv
    <3> SUFFICES ASSUME NEW q \in Requests
                 PROVE  /\ ~IsFinished(status'[q]) => BlocksFor(Given(q))' <= Len(table'[q])
                        /\ Len(table'[q]) <= BlocksFor(MaxLen)
      OBVIOUS
    <3>2. CASE q = r
      BY <3>2, <2>1, <1>10, Constants
    <3>3. CASE q # r
      BY <3>3, <3>1, <1>11, <2>2
    <3> QED BY <3>2, <3>3
  <2> QED BY <2>3 DEF TableInv, BlocksFor
<1>18. LoadInv'
  <2>1. \A q \in Requests : Loading(q)' <=> Loading(q)
    BY <1>6, <1>11 DEF Loading
  <2>2. /\ receiving \cup recved \subseteq Requests
        /\ finishedRecving \cup failedRecving \subseteq Requests
    BY <1>2 DEF TypeOK
  <2>3. \A q \in Requests : IsFinished(status'[q]) => table'[q] = table[q]
    BY <1>6, <1>11, <1>15 DEF IsFinished, FinishedStatuses
  <2> QED BY <1>1, <1>2, <1>15, <2>1, <2>2, <2>3 DEF LoadInv, outputVars, loadVars, recvVars
<1>19. IdleInv'
  BY <1>1, <1>2, <1>11 DEF IdleInv, Loading, recvVars
<1>20. ReportInv'
  BY <1>1, <1>2, <1>3 DEF ReportInv
<1> QED BY <1>10, <1>12, <1>13, <1>16, <1>17, <1>18, <1>19, <1>20 DEF IInv

-------------------------------------------------------------------------------
(* The batch, and what it reports *)

LEMMA FinishKeeps ==
  ASSUME IInv, FinishSchedule
  PROVE  IInv'
<1> DEFINE asked == {s[1] : s \in syncLoads \cup UNION {loading[r] : r \in receiving}}
           left(failed) == [r \in Requests |-> Outside(loading[r], failed)]
           before(failed) == right \cup Outside(syncLoads, failed)
                                   \cup UNION {left(failed)[r] : r \in recved}
<1>1. PICK failed \in SUBSET asked :
        /\ pc = "waiting" /\ pc' = "report" /\ skipped' = stepSkipped \o skipped
        /\ computed' = [r \in Requests |-> computed[r] + sched[r]]
        /\ Cardinality(failed) <= failuresLeft
        /\ right' = RightAfter(before(failed))
        /\ report' = failed
        /\ failuresLeft' = failuresLeft - Cardinality(failed)
        /\ loading' = [r \in Requests |-> IF r \in recved THEN {} ELSE left(failed)[r]]
        /\ receiving' = receiving \ recved
        /\ sound' \subseteq Requests
        /\ UNCHANGED <<policy, arrived, waiting, running, status, tokens, everPreempted,
                       table, key, stepVars, syncLoads, recved, skip, recvVars, interrupted>>
  BY DEF FinishSchedule, NothingLeftToSchedule
<1>2. TypeOK /\ QueueInv /\ TokenInv /\ TableInv /\ KeyInv /\ LoadInv /\ IdleInv /\ ReportInv
  BY DEF IInv
<1>3. Planning /\ sched' = sched /\ ~Planning'
  BY <1>1 DEF Planning, stepVars
<1>4. ASSUME NEW r \in Requests
      PROVE  /\ Given(r) = computed[r] + sched[r] /\ computed'[r] = Given(r)
             /\ Given(r)' = Given(r) /\ computed'[r] \in 0..MaxLen
             /\ sched[r] <= computed'[r] /\ computed'[r] - sched[r] = computed[r]
             /\ computed'[r] = 0 => computed[r] = 0
             /\ status[r] # "RUNNING" => computed'[r] = computed[r]
  <2>1. /\ computed[r] \in Nat /\ sched[r] \in Nat /\ MaxLen \in Nat
        /\ tokens[r] \in Nat /\ tokens[r] <= MaxLen
    BY <1>2, Numbers, Constants
  <2>2. Given(r) = computed[r] + sched[r] /\ computed'[r] = computed[r] + sched[r]
    BY <1>1, <1>3 DEF Given
  <2>3. computed[r] + sched[r] <= tokens[r] /\ (status[r] # "RUNNING" => ~ (sched[r] > 0))
    BY <1>2, <2>2 DEF TokenInv
  <2>4. Given(r)' = computed'[r]
    BY <1>3 DEF Given
  <2> QED BY <2>1, <2>2, <2>3, <2>4
<1>5. ASSUME NEW r \in Requests
      PROVE  loading'[r] \subseteq loading[r] /\ (r \in recved => loading'[r] = {})
  BY <1>1 DEF Outside
<1>6. /\ stepSkipped \in Seq(arrived) /\ skipped \in Seq(arrived)
      /\ IsInjective(stepSkipped) /\ IsInjective(skipped)
      /\ ToSet(stepSkipped) \cap ToSet(skipped) = {}
  BY <1>2, <1>3 DEF TypeOK, QueueInv
<1>7. /\ skipped' \in Seq(arrived) /\ IsInjective(skipped')
      /\ ToSet(skipped') = ToSet(stepSkipped) \cup ToSet(skipped)
  BY <1>1, <1>6, ConcatSet
<1>8. right' \subseteq Slots
  <2>1. before(failed) \subseteq Slots
    <3>1. right \subseteq Slots /\ syncLoads \subseteq Slots /\ recved \subseteq Requests
          /\ \A r \in Requests : loading[r] \subseteq Slots
      BY <1>2 DEF TypeOK
    <3> QED BY <3>1 DEF Outside
  <2>2. \A r \in Requests : sched[r] > 0 => BlocksFor(computed[r] + sched[r]) <= Len(table[r])
    <3> SUFFICES ASSUME NEW r \in Requests, sched[r] > 0
                 PROVE  BlocksFor(computed[r] + sched[r]) <= Len(table[r])
      OBVIOUS
    <3>1. ~IsFinished(status[r])
      BY <1>2 DEF TokenInv, IsFinished, FinishedStatuses
    <3> QED BY <1>2, <1>4, <3>1 DEF TableInv
  <2> HIDE DEF before
  <2>3. RightAfter(before(failed)) \subseteq Slots
    BY <1>2, <2>1, <2>2, RightAfterSlots
  <2> QED BY <1>1, <2>3
<1>9. report' \subseteq Blocks
  <2>1. syncLoads \subseteq Slots /\ receiving \subseteq Requests
        /\ \A r \in Requests : loading[r] \subseteq Slots
    BY <1>2 DEF TypeOK
  <2>2. asked \subseteq Blocks
    BY <2>1 DEF Slots
  <2> QED BY <1>1, <2>2
<1>10. failuresLeft' \in 0..MaxFailures
  <2>1. IsFiniteSet(failed)
    BY <1>1, <1>9, Constants, FS_Subset
  <2>2. Cardinality(failed) \in Nat /\ MaxFailures \in Nat /\ failuresLeft \in 0..MaxFailures
    BY <1>2, <2>1, FS_CardinalityType, Constants DEF TypeOK
  <2> QED BY <1>1, <2>2
<1>11. TypeOK'
  <2>1. computed' \in [Requests -> 0..MaxLen]
    BY <1>1, <1>4
  <2>2. loading' \in [Requests -> SUBSET Slots]
    <3>1. \A r \in Requests : loading'[r] \in SUBSET Slots
      BY <1>2, <1>5 DEF TypeOK
    <3> QED BY <1>1, <3>1
  <2>3. receiving' \cup recved' \cup sound' \cup skip' \subseteq Requests
    BY <1>1, <1>2 DEF TypeOK
  <2> HIDE DEF asked, left, before
  <2> QED BY <1>1, <1>2, <1>7, <1>8, <1>9, <1>10, <2>1, <2>2, <2>3 DEF TypeOK, stepVars, recvVars
<1>12. QueueInv'
  <2>1. \A q \in ToSet(waiting') \cup ToSet(skipped') : Waits(q)'
    BY <1>1, <1>2, <1>3, <1>7 DEF QueueInv, Waits
  <2>2. \A q \in Requests \ arrived' :
          status'[q] = "WAITING" /\ computed'[q] = 0 /\ table'[q] = <<>>
    BY <1>1, <1>2, <1>4 DEF QueueInv
  <2>3. /\ IsInjective(waiting') /\ IsInjective(skipped') /\ IsInjective(running')
        /\ ToSet(waiting') \cap ToSet(skipped') = {}
        /\ \A q \in Requests : q \in ToSet(running') <=> status'[q] = "RUNNING"
    BY <1>1, <1>2, <1>3, <1>7 DEF QueueInv
  <2> QED BY <1>3, <2>1, <2>2, <2>3 DEF QueueInv
<1>13. TokenInv'
  BY <1>1, <1>2, <1>3, <1>4 DEF TokenInv
<1>14. TableInv'
  <2>1. \A q \in Requests : BlocksFor(Given(q))' = BlocksFor(Given(q))
    BY <1>4 DEF BlocksFor
  <2>2. table' = table /\ status' = status /\ BlocksFor(MaxLen)' = BlocksFor(MaxLen)
    BY <1>1 DEF BlocksFor, MaxLen
  <2> QED BY <1>2, <2>1, <2>2 DEF TableInv
<1>15. KeyInv'
  <2>1. table' = table /\ key' = key
    BY <1>1
  <2> QED BY <1>2, <1>5, <2>1 DEF KeyInv
<1>16. LoadInv'
  <2>1. /\ receiving' \cup recved' = receiving \cup recved /\ recved' \cap receiving' = {}
        /\ UNCHANGED <<status, table, finishedRecving, failedRecving, recved>>
    BY <1>1, <1>2 DEF LoadInv, recvVars
  <2>2. \A q \in Requests : loading'[q] # {} => q \in receiving'
    BY <1>1, <1>2, <1>5 DEF LoadInv
  <2> QED BY <1>1, <1>2, <2>1, <2>2 DEF LoadInv, Loading
<1>17. IdleInv'
  <2>1. UNCHANGED <<status, table, failedRecving, skip>>
    BY <1>1 DEF recvVars
  <2> QED BY <1>2, <1>4, <2>1 DEF IdleInv, Loading
<1>18. ReportInv'
  <2>1. ASSUME NEW b \in report'
        PROVE  key'[b] = NoKey \/ \E r \in ToSet(running') : Uses(r, Counted(r), b)'
    <3>1. b \in asked /\ key' = key /\ running' = running
      BY <1>1
    <3>2. PICK x \in syncLoads \cup UNION {loading[r] : r \in receiving} : b = x[1]
      BY <3>1
    <3>3. CASE x \in syncLoads
      <4>1. PICK r \in ToSet(running) : Uses(r, computed[r], b)
        BY <1>1, <1>2, <3>2, <3>3 DEF ReportInv
      <4>2. r \in Requests
        <5>1. running \in Seq(Requests)
          BY <1>2 DEF TypeOK
        <5> QED BY <4>1, <5>1, SetOfSequence
      <4>3. Counted(r)' = computed[r] /\ table' = table
        BY <1>1, <1>3, <1>4, <4>2 DEF Counted
      <4>4. Uses(r, Counted(r), b)'
        BY <4>1, <4>3 DEF Uses, BlocksFor
      <4> QED BY <3>1, <4>1, <4>4
    <3>4. CASE x \notin syncLoads
      <4>1. receiving \subseteq Requests
        BY <1>2 DEF TypeOK
      <4>2. key[b] = NoKey
        BY <1>2, <3>2, <3>4, <4>1 DEF KeyInv
      <4> QED BY <3>1, <4>2
    <3> QED BY <3>3, <3>4
  <2>2. skip' = skip /\ status' = status /\ policy' = policy
    BY <1>1
  <2> QED BY <1>1, <1>2, <2>1, <2>2 DEF ReportInv, Loading
<1> QED BY <1>11, <1>12, <1>13, <1>14, <1>15, <1>16, <1>17, <1>18 DEF IInv

\* The end of a sequence.
LEMMA SubSeqMember ==
  ASSUME NEW X, NEW s \in Seq(X), NEW m \in 1..Len(s), NEW i \in m..Len(s)
  PROVE  s[i] \in ToSet(SubSeq(s, m, Len(s)))
<1> DEFINE n == Len(s)
           t == SubSeq(s, m, n)
           j == i - m + 1
<1>1. n \in Nat /\ \A k \in 1..n : s[k] \in X
  BY ElementOfSeq
<1>2. /\ t \in Seq(X) /\ Len(t) = IF m <= n THEN n - m + 1 ELSE 0
      /\ \A k \in 1..n - m + 1 : t[k] = s[m + k - 1]
  <2> HIDE DEF n
  <2>1. m \in Int /\ n \in Int /\ \A k \in m..n : s[k] \in X
    BY <1>1
  <2> QED BY <2>1, SubSeqProperties
<1>3. m <= n /\ m \in Nat /\ i \in Nat /\ m <= i /\ i <= n
  BY <1>1
<1> HIDE DEF t, n
<1>4. j \in 1..Len(t) /\ t[j] = s[i]
  <2>1. j \in 1..n - m + 1 /\ m + j - 1 = i
    BY <1>1, <1>3
  <2>2. Len(t) = n - m + 1
    BY <1>2, <1>3
  <2> HIDE DEF j
  <2> QED BY <1>2, <2>1, <2>2
<1>5. DOMAIN t = 1..Len(t)
  BY <1>2
<1> HIDE DEF j
<1>6. s[i] \in ToSet(t)
  BY <1>4, <1>5, Zenon DEF ToSet
<1> QED BY <1>6 DEF t, n

\* Failed blocks that a request counts, and where it is cut back to.
LEMMA CutBackRange ==
  ASSUME TypeOK, NEW r \in Requests, sched[r] <= computed[r], NEW rs
  PROVE  /\ CutBack(rs, r) \in Nat /\ CutBack(rs, r) <= computed[r]
         /\ Counted(r) \in Nat
         /\ Invalid(r) = {i \in 1..Len(table[r]) : /\ i <= BlocksFor(Counted(r))
                                                   /\ table[r][i] \in report}
<1> DEFINE n == Counted(r)
<1>1. computed[r] \in Nat /\ sched[r] \in Nat /\ Len(table[r]) \in Nat
  BY Numbers
<1>2. n \in Nat /\ n <= computed[r]
  BY <1>1 DEF Counted
<1>3. BlocksFor(n) \in Nat
  BY <1>2, BlocksForTokens
<1>4. Invalid(r) = {i \in 1..Len(table[r]) : i <= BlocksFor(n) /\ table[r][i] \in report}
  <2> DEFINE q == BlocksFor(n)
             least == Least(q, Len(table[r]))
  <2>1. q \in Nat
    BY <1>3
  <2>2. Invalid(r) = {i \in 1..least : table[r][i] \in report}
    BY DEF Invalid
  <2> HIDE DEF q
  <2>3. \A i : i \in 1..least <=> i \in 1..Len(table[r]) /\ i <= q
    BY <1>1, <2>1 DEF Least
  <2> HIDE DEF least
  <2>4. Invalid(r) = {i \in 1..Len(table[r]) : i <= q /\ table[r][i] \in report}
    BY <2>2, <2>3
  <2> QED BY <2>4 DEF q
<1>5. CutBack(rs, r) \in Nat /\ CutBack(rs, r) <= n
  <2>1. CASE Own(rs, r) = {}
    BY <1>2, <2>1 DEF CutBack
  <2>2. CASE Own(rs, r) # {}
    <3> DEFINE m == Min(Own(rs, r))
    <3>1. Own(rs, r) \subseteq Invalid(r) /\ Own(rs, r) \subseteq Nat
      BY <1>4 DEF Own
    <3>2. m \in Own(rs, r)
      BY <2>2, <3>1, MinOfNumbers
    <3>3. m \in 1..BlocksFor(n)
      <4>1. m \in Nat /\ 1 <= m /\ m <= BlocksFor(n)
        BY <1>4, <3>1, <3>2
      <4> HIDE DEF m, n
      <4> QED BY <1>3, <4>1
    <3>4. CutBack(rs, r) = (m - 1) * BlockSize
      BY <2>2 DEF CutBack
    <3> HIDE DEF m, n
    <3> QED BY <1>2, <3>3, <3>4, TokensBefore
  <2> QED BY <2>1, <2>2
<1> HIDE DEF n
<1>6. CutBack(rs, r) <= computed[r]
  BY <1>1, <1>2, <1>5
<1> QED BY <1>2, <1>4, <1>5, <1>6 DEF n

\* Under the fail policy a failed block that a running request counts belongs to
\* the first such request, which evicts it.
LEMMA FailedEvictedByOwner ==
  ASSUME TypeOK, \A r \in Requests : sched[r] <= computed[r],
         NEW b \in report, NEW r \in ToSet(running), Uses(r, Counted(r), b)
  PROVE  b \in ToEvict(running)
<1>1. running \in Seq(Requests)
  BY DEF TypeOK
<1>2. /\ DOMAIN running = 1..Len(running)
      /\ \A k \in 1..Len(running) : running[k] \in Requests
      /\ ToSet(running) = {running[k] : k \in 1..Len(running)}
  BY <1>1, SetOfSequence
<1>3. \A q \in Requests :
        /\ Invalid(q) = {i \in 1..Len(table[q]) : i <= BlocksFor(Counted(q)) /\ table[q][i] \in report}
        /\ DOMAIN table[q] = 1..Len(table[q]) /\ Len(table[q]) \in Nat /\ table[q] \in Seq(Blocks)
  BY CutBackRange, Numbers
<1> DEFINE K == {k \in 1..Len(running) : \E i \in Invalid(running[k]) : table[running[k]][i] = b}
<1>4. K # {}
  <2>1. PICK k \in 1..Len(running) : r = running[k]
    BY <1>2
  <2>2. PICK i \in DOMAIN table[r] : table[r][i] = b /\ i <= BlocksFor(Counted(r))
    BY DEF Uses
  <2>3. i \in Invalid(r)
    BY <1>2, <1>3, <2>2
  <2> QED BY <2>1, <2>2, <2>3
<1>5. K \subseteq Nat
  OBVIOUS
<1>6. PICK k \in K : \A n \in K : k <= n
  <2> HIDE DEF K
  <2> QED BY <1>4, <1>5, LeastNumber
<1>7. PICK q \in Requests : q = running[k]
  BY <1>2, <1>6
<1>8. PICK i \in Invalid(q) : table[q][i] = b
  BY <1>6, <1>7
<1>9. b \notin Marked(running, q)
  <2> SUFFICES ASSUME NEW j \in DOMAIN running, \A m \in 1..j : running[m] # q,
                      NEW l \in Invalid(running[j]), table[running[j]][l] = b
               PROVE  FALSE
    BY DEF Marked
  <2>1. j \in K
    BY <1>2
  <2>2. k \in Nat /\ j \in Nat /\ 1 <= k /\ k <= j
    BY <1>6, <2>1
  <2>3. k \in 1..j
    BY <2>2
  <2> QED BY <1>7, <2>3
<1>10. i \in Own(running, q) /\ Own(running, q) \subseteq Nat
  BY <1>3, <1>8, <1>9 DEF Own
<1> DEFINE m == Min(Own(running, q))
<1>11. m \in Own(running, q) /\ m <= i
  BY <1>10, MinOfNumbers
<1>12. m \in 1..Len(table[q]) /\ i \in m..Len(table[q])
  <2>1. m \in 1..Len(table[q]) /\ i \in 1..Len(table[q])
    BY <1>3, <1>8, <1>11 DEF Own
  <2> HIDE DEF m
  <2> QED BY <1>3, <1>11, <2>1
<1>13. b \in ToSet(SubSeq(table[q], m, Len(table[q])))
  <2>1. table[q] \in Seq(Blocks)
    BY <1>3
  <2> HIDE DEF m
  <2>2. table[q][i] \in ToSet(SubSeq(table[q], m, Len(table[q])))
    BY <1>12, <2>1, SubSeqMember
  <2> QED BY <1>8, <2>2
<1>14. q \in ToSet(running) /\ Own(running, q) # {}
  BY <1>2, <1>6, <1>7, <1>10
<1> QED BY <1>13, <1>14 DEF ToEvict

\* _handle_invalid_blocks: the requests that hold a failed block are cut back,
\* or marked to fail and their blocks evicted.
LEMMA HandleKeeps ==
  ASSUME IInv, HandleInvalidBlocks
  PROVE  IInv'
<1> DEFINE scanned == Affected(AsyncLoads)
           ran == Affected(running)
<1>1. /\ pc = "report" /\ pc' = "outputs"
      /\ computed' = [r \in Requests |->
                        IF r \in scanned THEN CutBack(AsyncLoads, r)
                        ELSE IF r \in ran THEN CutBack(running, r) ELSE computed[r]]
      /\ \/ /\ policy = "fail"
            /\ key' = [b \in Blocks |-> IF b \in ToEvict(running) THEN NoKey ELSE key[b]]
            /\ skip' = scanned \cup ran
            /\ UNCHANGED failedRecving
         \/ /\ policy # "fail"
            /\ skip' = ran
            /\ failedRecving' = failedRecving \cup scanned
            /\ UNCHANGED key
      /\ UNCHANGED <<policy, queueVars, status, tokens, everPreempted, table, right,
                     stepVars, syncLoads, outputVars, loadVars, finishedRecving, historyVars>>
  BY DEF HandleInvalidBlocks
<1>2. TypeOK /\ QueueInv /\ TokenInv /\ TableInv /\ KeyInv /\ LoadInv /\ IdleInv /\ ReportInv
  BY DEF IInv
<1>3. ~Planning /\ ~Planning' /\ skip = {} /\ status' = status /\ table' = table /\ sched' = sched
      /\ tokens' = tokens
  BY <1>1, <1>2 DEF Planning, ReportInv, stepVars
<1>4. /\ scanned \subseteq Requests /\ scanned \subseteq arrived /\ \A r \in scanned : Loading(r)
  <2>1. skipped \in Seq(arrived) /\ arrived \subseteq Requests
    BY <1>2 DEF TypeOK
  <2>2. /\ AsyncLoads \in Seq(arrived)
        /\ ToSet(AsyncLoads) = ToSet(skipped) \cap {r \in Requests : Loading(r)}
    BY <2>1, SiftSet DEF AsyncLoads, Loading
  <2>3. ToSet(AsyncLoads) \subseteq arrived
    BY <2>2, SetOfSequence
  <2> QED BY <2>1, <2>2, <2>3 DEF Affected
<1>5. /\ ran \subseteq Requests /\ ran \subseteq arrived /\ \A r \in ran : status[r] = "RUNNING"
  <2>1. running \in Seq(arrived) /\ arrived \subseteq Requests
    BY <1>2 DEF TypeOK
  <2>2. ToSet(running) \subseteq arrived
    BY <2>1, SetOfSequence
  <2> QED BY <1>2, <2>1, <2>2 DEF Affected, QueueInv
<1>6. \A r \in Requests : sched[r] <= computed[r]
  BY <1>1, <1>2 DEF TokenInv
<1>7. ASSUME NEW r \in Requests
      PROVE  /\ computed'[r] \in Nat /\ computed'[r] <= computed[r] /\ computed'[r] \in 0..MaxLen
             /\ r \notin scanned \cup ran => computed'[r] = computed[r]
             /\ Given(r) = computed[r] /\ Given(r)' = computed'[r]
  <2>1. computed[r] \in Nat /\ computed[r] <= MaxLen /\ MaxLen \in Nat
    BY <1>2, Numbers, Constants
  <2>2. \A rs : CutBack(rs, r) \in Nat /\ CutBack(rs, r) <= computed[r]
    BY <1>2, <1>6, CutBackRange
  <2>3. computed'[r] = IF r \in scanned THEN CutBack(AsyncLoads, r)
                       ELSE IF r \in ran THEN CutBack(running, r) ELSE computed[r]
    BY <1>1
  <2>4. Given(r) = computed[r] /\ Given(r)' = computed'[r]
    BY <1>3 DEF Given
  <2> HIDE DEF scanned, ran
  <2> QED BY <2>1, <2>2, <2>3, <2>4
<1>8. computed' \in [Requests -> 0..MaxLen]
  <2>1. computed' = [r \in Requests |-> computed'[r]]
    BY <1>1
  <2> QED BY <1>7, <2>1
<1> HIDE DEF scanned, ran
<1>9. /\ key' \in [Blocks -> Contents \cup {NoKey}]
      /\ \A b \in Blocks : key'[b] = key[b] \/ key'[b] = NoKey
      /\ policy = "fail" => \A b \in Blocks : b \in ToEvict(running) => key'[b] = NoKey
  BY <1>1, <1>2 DEF TypeOK
<1>10. TypeOK'
  <2>1. skip' \subseteq Requests /\ failedRecving' \subseteq Requests
    BY <1>1, <1>2, <1>4, <1>5 DEF TypeOK
  <2> QED BY <1>1, <1>2, <1>8, <1>9, <2>1
          DEF TypeOK, queueVars, stepVars, outputVars, loadVars, historyVars
<1>11. QueueInv'
  <2>1. \A q \in Requests \ arrived : computed'[q] = computed[q]
    BY <1>4, <1>5, <1>7
  <2> QED BY <1>1, <1>2, <1>3, <2>1 DEF QueueInv, Waits, queueVars
<1>12. TokenInv'
  <2>1. \A q \in Requests : Given(q)' <= tokens[q]
    <3> SUFFICES ASSUME NEW q \in Requests PROVE Given(q)' <= tokens[q]
      OBVIOUS
    <3>1. Given(q) <= tokens[q] /\ computed[q] \in Nat /\ tokens[q] \in Nat
      BY <1>2, Numbers DEF TokenInv
    <3> QED BY <1>7, <3>1
  <2> QED BY <1>1, <1>2, <1>3, <2>1 DEF TokenInv
<1>13. TableInv'
  <2>1. \A q \in Requests : /\ ~IsFinished(status[q]) => BlocksFor(Given(q))' <= Len(table[q])
                            /\ Len(table[q]) <= BlocksFor(MaxLen)
    <3> SUFFICES ASSUME NEW q \in Requests
                 PROVE  /\ ~IsFinished(status[q]) => BlocksFor(Given(q))' <= Len(table[q])
                        /\ Len(table[q]) <= BlocksFor(MaxLen)
      OBVIOUS
    <3>1. /\ ~IsFinished(status[q]) => BlocksFor(computed[q]) <= Len(table[q])
          /\ Len(table[q]) <= BlocksFor(MaxLen) /\ Len(table[q]) \in Nat /\ computed[q] \in Nat
      BY <1>2, <1>7, Numbers DEF TableInv
    <3>2. /\ BlocksFor(computed'[q]) <= BlocksFor(computed[q])
          /\ BlocksFor(computed'[q]) \in Nat /\ BlocksFor(computed[q]) \in Nat
      BY <1>7, <3>1, BlocksForMonotone, BlocksForTokens
    <3>3. BlocksFor(Given(q))' = BlocksFor(computed'[q])
      BY <1>7 DEF BlocksFor
    <3> QED BY <3>1, <3>2, <3>3
  <2> QED BY <1>3, <2>1 DEF TableInv, BlocksFor, MaxLen
<1>14. KeyInv'
  <2>1. \A r \in Requests : \A i \in DOMAIN table[r] : table[r][i] \in Blocks
    BY <1>2, Numbers
  <2>2. \A r \in Requests : \A x \in loading[r] : x[1] \in Blocks /\ x[1] \in ToSet(table[r])
    BY <1>2, Numbers DEF KeyInv
  <2>3. loading' = loading
    BY <1>1 DEF loadVars
  <2>4. \A r \in Requests : \A i \in DOMAIN table[r] :
          key'[table[r][i]] \in {NoKey, Content(r, i)}
    BY <1>2, <1>9, <2>1 DEF KeyInv
  <2>5. \A r \in Requests : \A x \in loading[r] : key'[x[1]] = NoKey
    BY <1>2, <1>9, <2>2 DEF KeyInv
  <2> QED BY <1>2, <1>3, <2>3, <2>4, <2>5 DEF KeyInv
<1>15. LoadInv'
  <2>1. \A r \in finishedRecving' \cup failedRecving' : Loading(r)
    BY <1>1, <1>2, <1>4 DEF LoadInv
  <2> QED BY <1>1, <1>2, <1>3, <2>1 DEF LoadInv, Loading, outputVars, loadVars
<1>16. IdleInv'
  <2>1. \A q \in Requests : Loading(q) => q \notin ran
    BY <1>5 DEF Loading
  <2>2. \A q \in Requests : status[q] \in {"WAITING", "PREEMPTED"} => computed'[q] = computed[q]
    BY <1>4, <1>5, <1>7 DEF Loading
  <2>3. \A q \in Requests : Loading(q) /\ q \notin failedRecving' \cup skip' =>
          q \notin scanned \cup failedRecving \cup skip
    BY <1>1, <1>3
  <2>4. \A q \in Requests : Loading(q)' <=> Loading(q)
    BY <1>3 DEF Loading
  <2>5. \A q \in Requests : Loading(q) /\ q \notin failedRecving' \cup skip' => computed'[q] = PromptLen
    BY <1>2, <1>7, <2>1, <2>3 DEF IdleInv
  <2> QED BY <1>2, <1>3, <2>2, <2>4, <2>5 DEF IdleInv
<1>17. ReportInv'
  <2>1. \A r \in skip' : status[r] = "RUNNING" \/ (Loading(r) /\ policy = "fail")
    BY <1>1, <1>4, <1>5
  <2>2. ASSUME policy = "fail", NEW b \in report PROVE key'[b] = NoKey
    <3>1. b \in Blocks
      BY <1>2 DEF TypeOK
    <3>2. CASE key[b] = NoKey
      BY <1>9, <3>1, <3>2
    <3>3. CASE key[b] # NoKey
      <4>1. PICK r \in ToSet(running) : Uses(r, Counted(r), b)
        BY <1>1, <1>2, <3>3 DEF ReportInv
      <4>2. b \in ToEvict(running)
        BY <1>2, <1>6, <4>1, FailedEvictedByOwner
      <4> QED BY <1>9, <2>2, <3>1, <4>2
    <3> QED BY <3>2, <3>3
  <2>3. report' = report /\ policy' = policy
    BY <1>1 DEF outputVars
  <2> QED BY <1>1, <1>3, <2>1, <2>2, <2>3 DEF ReportInv, Loading
<1> QED BY <1>10, <1>11, <1>12, <1>13, <1>14, <1>15, <1>16, <1>17 DEF IInv

\* The rest of update_from_output(): samples, ends, failed requests, ended loads.
LEMMA ProcessKeeps ==
  ASSUME IInv, ProcessOutputs
  PROVE  IInv'
<1> DEFINE over == Stopped \cup Failed
           freed == (over \ Delays(over)) \cup {r \in recved : IsFinished(status'[r])}
<1>1. /\ pc = "outputs" /\ pc' = "idle"
      /\ tokens' = [r \in Requests |-> IF r \in Sampled THEN tokens[r] + 1 ELSE tokens[r]]
      /\ status' = [r \in Requests |->
                      IF r \in Stopped THEN "FINISHED_LENGTH_CAPPED"
                      ELSE IF r \in Failed THEN "FINISHED_ERROR" ELSE status[r]]
      /\ running' = Keep(running, over)
      /\ waiting' = Keep(waiting, Failed) /\ skipped' = Keep(skipped, Failed)
      /\ table' = [r \in Requests |-> IF r \in freed THEN <<>> ELSE table[r]]
      /\ finishedRecving' = (finishedRecving \ Failed) \cup RecvEnded(Failed)
      /\ failedRecving' = failedRecving \ Failed
      /\ skip' = {} /\ sched' = [r \in Requests |-> 0]
      /\ recved' = {} /\ report' = {} /\ sound' = {} /\ syncLoads' = {}
      /\ stepSkipped' = <<>>
      /\ UNCHANGED <<policy, arrived, computed, everPreempted, key, right, reqIndex,
                     budget, preempted, loadVars, historyVars>>
  BY DEF ProcessOutputs
<1>2. TypeOK /\ QueueInv /\ TokenInv /\ TableInv /\ KeyInv /\ LoadInv /\ IdleInv /\ ReportInv
  BY DEF IInv
<1>3. ~Planning /\ ~Planning'
  BY <1>1 DEF Planning
<1>4. \A r \in Sampled : r \in Requests /\ status[r] = "RUNNING"
  BY <1>2 DEF Sampled, TokenInv
<1>5. Stopped = {r \in Sampled : tokens[r] + 1 = MaxLen}
  BY DEF Stopped
<1>6. /\ \A r \in Failed : r \in Requests /\ r \in skip /\ (status[r] = "RUNNING" \/ Loading(r))
      /\ \A r \in skip : r \in Failed \/ status[r] = "RUNNING"
  <2>1. skip \subseteq Requests
    BY <1>2 DEF TypeOK
  <2> QED BY <1>2, <2>1 DEF Failed, ReportInv
<1>7. Delays(over) = {r \in over : Loading(r) /\ r \notin finishedRecving}
  BY DEF Delays, Loading
<1>8. RecvEnded(Failed) = {r \in recved : Loading(r)} \ Failed
  BY DEF RecvEnded, Loading
<1> HIDE DEF over
<1>9. over = Stopped \cup Failed
  BY DEF over
<1>10. \A r \in over : r \in Requests /\ (status[r] = "RUNNING" \/ (r \in Failed /\ Loading(r)))
  BY <1>4, <1>5, <1>6, <1>9
\* Who ends, and who does not.
<1>11. ASSUME NEW r \in Requests
       PROVE  /\ r \in over => IsFinished(status'[r])
              /\ r \notin over => status'[r] = status[r]
              /\ status'[r] \in Statuses
              /\ r \in freed => IsFinished(status'[r])
  <2>1. status'[r] = IF r \in Stopped THEN "FINISHED_LENGTH_CAPPED"
                     ELSE IF r \in Failed THEN "FINISHED_ERROR" ELSE status[r]
    BY <1>1
  <2>2. status[r] \in Statuses
    BY <1>2 DEF TypeOK
  <2>3. r \in over => status'[r] \in {"FINISHED_LENGTH_CAPPED", "FINISHED_ERROR"}
    BY <1>9, <2>1
  <2>4. r \notin over => status'[r] = status[r]
    BY <1>9, <2>1
  <2>5. \A s \in {"FINISHED_LENGTH_CAPPED", "FINISHED_ERROR"} : IsFinished(s) /\ s \in Statuses
    BY DEF IsFinished, FinishedStatuses, Statuses
  <2> QED BY <2>2, <2>3, <2>4, <2>5
<1>12. /\ \A r \in Requests : /\ Loading(r)' <=> Loading(r) /\ r \notin over
                              /\ Waits(r)' <=> Waits(r) /\ r \notin over
                              /\ (status'[r] = "RUNNING") <=> status[r] = "RUNNING" /\ r \notin over
                              /\ status'[r] \in {"WAITING", "PREEMPTED"} =>
                                   status'[r] = status[r] /\ r \notin over
                              /\ ~IsFinished(status'[r]) => ~IsFinished(status[r]) /\ r \notin over
  BY <1>11 DEF Loading, Waits, IsFinished, FinishedStatuses
<1>13. ASSUME NEW r \in Requests
       PROVE  /\ tokens'[r] \in PromptLen..MaxLen /\ tokens[r] <= tokens'[r]
              /\ ~IsFinished(status'[r]) => tokens'[r] < MaxLen
  <2>1. /\ tokens[r] \in Nat /\ PromptLen <= tokens[r] /\ tokens[r] <= MaxLen
        /\ MaxLen \in Nat /\ PromptLen \in Nat
    BY <1>2, Numbers, Constants
  <2>2. ~IsFinished(status[r]) => tokens[r] < MaxLen
    BY <1>2 DEF TokenInv
  <2>3. CASE r \in Sampled
    <3>1. tokens'[r] = tokens[r] + 1 /\ tokens[r] < MaxLen
      BY <1>1, <1>4, <2>2, <2>3 DEF IsFinished, FinishedStatuses
    <3>2. ~IsFinished(status'[r]) => tokens[r] + 1 # MaxLen
      BY <1>5, <1>9, <1>12, <2>3
    <3> QED BY <2>1, <3>1, <3>2
  <2>4. CASE r \notin Sampled
    <3>1. tokens'[r] = tokens[r]
      BY <1>1, <2>4
    <3> QED BY <1>12, <2>1, <2>2, <3>1
  <2> QED BY <2>3, <2>4
<1>14. /\ running' \in Seq(arrived) /\ IsInjective(running')
       /\ ToSet(running') = ToSet(running) \cap (Requests \ over)
       /\ waiting' \in Seq(arrived) /\ IsInjective(waiting')
       /\ ToSet(waiting') = ToSet(waiting) \cap (Requests \ Failed)
       /\ skipped' \in Seq(arrived) /\ IsInjective(skipped')
       /\ ToSet(skipped') = ToSet(skipped) \cap (Requests \ Failed)
  <2>1. /\ running \in Seq(arrived) /\ waiting \in Seq(arrived) /\ skipped \in Seq(arrived)
        /\ IsInjective(running) /\ IsInjective(waiting) /\ IsInjective(skipped)
    BY <1>2 DEF TypeOK, QueueInv
  <2> QED BY <1>1, <2>1, SiftSet DEF Keep
\* Blocks are given back by requests for which no load is under way.
<1>15. \A r \in freed : loading[r] = {}
  <2> SUFFICES ASSUME NEW r \in freed PROVE loading[r] = {}
    OBVIOUS
  <2>1. r \in Requests
    BY <1>2, <1>10 DEF TypeOK
  <2>2. r \notin receiving
    <3>1. CASE r \in recved
      BY <1>1, <1>2, <3>1 DEF LoadInv
    <3>2. CASE r \in over /\ status[r] = "RUNNING"
      BY <1>2, <3>2 DEF LoadInv, Loading, IsFinished, FinishedStatuses
    <3>3. CASE r \in over /\ Loading(r) /\ r \in finishedRecving
      BY <1>2, <3>3 DEF LoadInv
    <3> QED BY <1>7, <1>10, <3>1, <3>2, <3>3
  <2> QED BY <1>2, <2>1, <2>2 DEF LoadInv
<1>16. /\ table' \in [Requests -> Seq(Blocks)] /\ KeyInv'
       /\ \A r \in Requests : Len(table'[r]) = IF r \in freed THEN 0 ELSE Len(table[r])
  <2>1. UNCHANGED <<key, loading>>
    BY <1>1 DEF loadVars
  <2>2. \A r \in freed \cap Requests : loading[r] = {}
    BY <1>15
  <2>3. table' = [r \in Requests |-> IF r \in freed THEN <<>> ELSE table[r]]
    BY <1>1
  <2> HIDE DEF freed
  <2> QED BY <1>2, <2>1, <2>2, <2>3, GiveBackKeeps
<1>17. \A r \in Requests : table'[r] = IF r \in freed THEN <<>> ELSE table[r]
  BY <1>1
<1>18. TypeOK'
  <2>1. status' \in [Requests -> Statuses] /\ tokens' \in [Requests -> PromptLen..MaxLen]
    BY <1>1, <1>11, <1>13
  <2>2. sched' \in [Requests -> 0..TokenBudget]
    <3>1. 0 \in 0..TokenBudget
      BY Constants
    <3> QED BY <1>1, <3>1
  <2>3. {waiting', skipped', running', stepSkipped'} \subseteq Seq(arrived')
    BY <1>1, <1>14, EmptySequence
  <2>4. pc' \in {"idle", "running", "waiting", "report", "outputs"}
    BY <1>1
  <2>5. finishedRecving' \cup failedRecving' \subseteq Requests
    BY <1>1, <1>2, <1>8 DEF TypeOK
  <2> HIDE DEF freed
  <2> QED BY <1>1, <1>2, <1>16, <2>1, <2>2, <2>3, <2>4, <2>5 DEF TypeOK, loadVars, historyVars
<1>19. QueueInv'
  <2>1. \A q \in ToSet(waiting) \cup ToSet(skipped) : Waits(q) /\ (q \in over => q \in Failed)
    <3>1. \A q \in ToSet(waiting) \cup ToSet(skipped) : Waits(q)
      BY <1>2 DEF QueueInv
    <3> QED BY <1>10, <3>1 DEF Waits
  <2>2. \A q \in ToSet(waiting') \cup ToSet(skipped') : Waits(q)'
    BY <1>12, <1>14, <2>1
  <2>3. \A q \in Requests : q \in ToSet(running') <=> status'[q] = "RUNNING"
    BY <1>2, <1>12, <1>14 DEF QueueInv
  <2>4. \A q \in Requests \ arrived :
          status'[q] = "WAITING" /\ computed'[q] = 0 /\ table'[q] = <<>>
    <3> SUFFICES ASSUME NEW q \in Requests \ arrived
                 PROVE  status'[q] = "WAITING" /\ computed'[q] = 0 /\ table'[q] = <<>>
      OBVIOUS
    <3>1. status[q] = "WAITING" /\ computed[q] = 0 /\ table[q] = <<>>
      BY <1>2 DEF QueueInv
    <3>2. q \notin over
      BY <1>10, <3>1 DEF Loading
    <3> QED BY <1>1, <1>11, <1>17, <3>1, <3>2
  <2>5. ToSet(waiting') \cap ToSet(skipped') = {} /\ arrived' = arrived
    BY <1>1, <1>2, <1>14 DEF QueueInv
  <2> QED BY <1>3, <1>14, <2>2, <2>3, <2>4, <2>5 DEF QueueInv
<1>20. \A r \in Requests : Given(r) = computed[r] /\ Given(r)' = computed[r]
  BY <1>1, <1>3 DEF Given
<1>21. TokenInv'
  <2>1. \A q \in Requests : Given(q)' <= tokens'[q]
    <3> SUFFICES ASSUME NEW q \in Requests PROVE Given(q)' <= tokens'[q]
      OBVIOUS
    <3>1. computed[q] <= tokens[q] /\ computed[q] \in Nat /\ tokens[q] \in Nat
      BY <1>2, <1>20, Numbers DEF TokenInv
    <3>2. tokens'[q] \in Int /\ tokens[q] <= tokens'[q] /\ Given(q)' = computed[q]
      BY <1>13, <1>20
    <3> QED BY <3>1, <3>2
  <2>2. \A q \in Requests : sched'[q] = 0
    BY <1>1
  <2>3. \A q \in Requests : ~IsFinished(status'[q]) => tokens'[q] < MaxLen
    BY <1>13
  <2> QED BY <1>1, <2>1, <2>2, <2>3 DEF TokenInv, MaxLen
<1>22. TableInv'
  <2>1. ASSUME NEW q \in Requests
        PROVE  /\ ~IsFinished(status'[q]) => BlocksFor(computed[q]) <= Len(table'[q])
               /\ Len(table'[q]) <= BlocksFor(MaxLen)
    <3>1. /\ ~IsFinished(status[q]) => BlocksFor(computed[q]) <= Len(table[q])
          /\ Len(table[q]) <= BlocksFor(MaxLen) /\ Len(table[q]) \in Nat
      BY <1>2, <1>20, Numbers DEF TableInv
    <3>2. BlocksFor(MaxLen) \in Nat
      BY Constants
    <3> HIDE DEF freed
    <3> QED BY <1>11, <1>12, <1>16, <3>1, <3>2
  <2>2. \A q \in Requests : BlocksFor(Given(q))' = BlocksFor(computed[q])
    BY <1>20 DEF BlocksFor
  <2> QED BY <2>1, <2>2 DEF TableInv, BlocksFor, MaxLen
<1>23. LoadInv'
  <2>1. /\ receiving \cup recved \subseteq Requests
        /\ finishedRecving \cup failedRecving \subseteq Requests
    BY <1>2 DEF TypeOK
  <2>2. receiving' = receiving /\ loading' = loading /\ recved' = {} /\ pc' = "idle"
    BY <1>1 DEF loadVars
  <2>3. \A r \in receiving : Loading(r)' \/ IsFinished(status'[r])
    BY <1>2, <1>11, <1>12, <2>1 DEF LoadInv
  <2>4. \A r \in finishedRecving' \cup failedRecving' : Loading(r)'
    <3> SUFFICES ASSUME NEW r \in finishedRecving' \cup failedRecving' PROVE Loading(r)'
      OBVIOUS
    <3>1. r \in finishedRecving \cup failedRecving \cup recved /\ r \notin Failed /\ Loading(r)
      BY <1>1, <1>2, <1>8 DEF LoadInv
    <3>2. r \in Requests /\ r \notin over
      BY <1>10, <2>1, <3>1 DEF Loading
    <3> QED BY <1>12, <3>1, <3>2
  <2>5. finishedRecving' \cap receiving = {}
    BY <1>1, <1>2, <1>8 DEF LoadInv
  <2>6. \A r \in Requests : Loading(r)' => r \in receiving \cup finishedRecving'
    <3> SUFFICES ASSUME NEW r \in Requests, Loading(r)' PROVE r \in receiving \cup finishedRecving'
      OBVIOUS
    <3>1. Loading(r) /\ r \notin over /\ r \notin Failed
      BY <1>9, <1>12
    <3>2. r \in receiving \cup recved \cup finishedRecving
      BY <1>2, <3>1 DEF LoadInv
    <3> QED BY <1>1, <1>8, <3>1, <3>2
  <2>7. \A r \in Requests : IsFinished(status'[r]) /\ table'[r] # <<>> => r \in receiving
    <3> SUFFICES ASSUME NEW r \in Requests, IsFinished(status'[r]), table'[r] # <<>>
                 PROVE  r \in receiving
      OBVIOUS
    <3>1. r \notin freed /\ table[r] # <<>>
      BY <1>17
    <3>2. r \notin recved
      BY <3>1
    <3>3. CASE r \in over
      <4>1. Loading(r) /\ r \notin finishedRecving
        BY <1>7, <3>1, <3>3
      <4> QED BY <1>2, <3>2, <4>1 DEF LoadInv
    <3>4. CASE r \notin over
      BY <1>2, <1>11, <3>1, <3>2, <3>4 DEF LoadInv
    <3> QED BY <3>3, <3>4
  <2>8. \A r \in Requests : loading[r] # {} => r \in receiving
    BY <1>2 DEF LoadInv
  <2> QED BY <2>2, <2>3, <2>4, <2>5, <2>6, <2>7, <2>8 DEF LoadInv
<1>24. IdleInv'
  <2>1. ASSUME NEW q \in Requests, Loading(q)', q \notin failedRecving' PROVE computed[q] = PromptLen
    <3>1. Loading(q) /\ q \notin over /\ q \notin Failed
      BY <1>9, <1>12, <2>1
    <3>2. q \notin failedRecving /\ q \notin skip
      BY <1>1, <1>6, <2>1, <3>1 DEF Loading
    <3> QED BY <1>2, <3>1, <3>2 DEF IdleInv
  <2>2. ASSUME PromptLen > 1, NEW q \in Requests, status'[q] \in {"WAITING", "PREEMPTED"},
               computed[q] = 0
        PROVE  table'[q] = <<>>
    <3>1. table[q] = <<>>
      BY <1>2, <1>12, <2>2 DEF IdleInv
    <3> QED BY <1>17, <3>1
  <2>3. computed' = computed
    BY <1>1
  <2> QED BY <2>1, <2>2, <2>3 DEF IdleInv
<1>25. ReportInv'
  BY <1>1 DEF ReportInv
<1> QED BY <1>16, <1>18, <1>19, <1>21, <1>22, <1>23, <1>24, <1>25 DEF IInv

-------------------------------------------------------------------------------
(* Calls of the engine between steps *)

LEMMA AddKeeps ==
  ASSUME IInv, NEW r \in Requests, AddRequest(r)
  PROVE  IInv'
<1>1. /\ pc = "idle" /\ r \notin arrived /\ arrived' = arrived \cup {r}
      /\ waiting' = Append(waiting, r)
      /\ UNCHANGED <<policy, skipped, running, reqVars, cacheVars, pc, stepVars,
                     syncLoads, outputVars, loadVars, skip, recvVars, historyVars>>
  BY DEF AddRequest
<1>2. TypeOK /\ QueueInv
  BY DEF IInv
<1>3. /\ {waiting, skipped, running, stepSkipped} \subseteq Seq(arrived)
      /\ {waiting, skipped, running, stepSkipped} \subseteq Seq(arrived')
      /\ arrived' \subseteq Requests
  <2>1. {waiting, skipped, running, stepSkipped} \subseteq Seq(arrived)
    BY <1>2 DEF TypeOK
  <2>2. arrived \subseteq arrived' /\ arrived' \subseteq Requests
    BY <1>1, <1>2 DEF TypeOK
  <2>3. \A s \in Seq(arrived) : s \in Seq(arrived')
    BY <2>2
  <2> QED BY <2>1, <2>2, <2>3
<1>4. /\ r \notin ToSet(waiting) /\ r \notin ToSet(skipped)
  BY <1>1, <1>3, SetOfSequence
<1>5. /\ waiting' \in Seq(arrived') /\ IsInjective(waiting')
      /\ ToSet(waiting') = ToSet(waiting) \cup {r}
  <2>1. IsInjective(waiting) /\ waiting \in Seq(arrived') /\ r \in arrived'
    BY <1>1, <1>2, <1>3 DEF QueueInv
  <2> HIDE DEF IInv
  <2> QED BY <1>1, <1>4, <2>1, AppendSet
<1>6. status[r] = "WAITING"
  BY <1>1, <1>2 DEF QueueInv
<1>7. TypeOK'
  <2>1. {waiting', skipped', running', stepSkipped'} \subseteq Seq(arrived')
    BY <1>1, <1>3, <1>5 DEF stepVars
  <2> QED BY <1>1, <1>2, <1>3, <2>1 DEF TypeOK, reqVars, cacheVars, stepVars, outputVars,
                                        loadVars, recvVars, historyVars
<1>8. QueueInv'
  <2>1. ~Planning'
    BY <1>1 DEF Planning
  <2>2. status' = status /\ computed' = computed /\ table' = table
    BY <1>1 DEF reqVars, cacheVars
  <2> QED BY <1>1, <1>2, <1>4, <1>5, <1>6, <2>1, <2>2 DEF QueueInv, Waits
<1>9. TokenInv' /\ TableInv'
  BY <1>1 DEF IInv, TokenInv, TableInv, Given, Planning, reqVars, cacheVars, stepVars
<1>10. KeyInv' /\ LoadInv' /\ IdleInv'
  BY <1>1 DEF IInv, KeyInv, LoadInv, IdleInv, Loading, reqVars, cacheVars, outputVars,
              loadVars, recvVars
<1>11. ReportInv'
  BY <1>1 DEF IInv, ReportInv, Uses, Counted, Loading, reqVars, cacheVars, stepVars, outputVars
<1> QED BY <1>7, <1>8, <1>9, <1>10, <1>11 DEF IInv

\* An abort: blocks stay while a load writes to them.
LEMMA AbortKeeps ==
  ASSUME IInv, NEW r \in Requests, AbortRequest(r)
  PROVE  IInv'
<1> DEFINE freed == {q \in {r} : q \notin Delays({r})}
<1>1. /\ pc = "idle" /\ r \in arrived /\ ~IsFinished(status[r])
      /\ waiting' = Keep(waiting, {r}) /\ skipped' = Keep(skipped, {r})
      /\ running' = Keep(running, {r})
      /\ status' = [status EXCEPT ![r] = "FINISHED_ABORTED"]
      /\ table' = [table EXCEPT ![r] = IF r \in Delays({r}) THEN @ ELSE <<>>]
      /\ interrupted' = (interrupted \/ \E q \in {r} : OwesRecompute(q))
      /\ finishedRecving' = finishedRecving \ {r}
      /\ failedRecving' = failedRecving \ {r}
      /\ UNCHANGED <<policy, arrived, computed, tokens, everPreempted, key, right, pc,
                     stepVars, syncLoads, outputVars, loadVars, skip, failuresLeft>>
  BY DEF AbortRequest, LetGo
<1>2. TypeOK /\ QueueInv /\ TokenInv /\ TableInv /\ KeyInv /\ LoadInv /\ IdleInv /\ ReportInv
  BY DEF IInv
<1>3. r \in Delays({r}) <=> Loading(r) /\ r \notin finishedRecving
  BY DEF Delays, Loading
<1>4. ~Planning /\ ~Planning' /\ recved = {} /\ skip = {} /\ sched' = sched
  BY <1>1, <1>2 DEF Planning, LoadInv, ReportInv, stepVars
<1>5. /\ \A q \in Requests : q # r => status'[q] = status[q]
      /\ status'[r] = "FINISHED_ABORTED" /\ IsFinished(status'[r])
  BY <1>1, <1>2 DEF TypeOK, IsFinished, FinishedStatuses
<1>6. /\ running' \in Seq(arrived) /\ IsInjective(running')
      /\ ToSet(running') = ToSet(running) \cap (Requests \ {r})
      /\ waiting' \in Seq(arrived) /\ IsInjective(waiting')
      /\ ToSet(waiting') = ToSet(waiting) \cap (Requests \ {r})
      /\ skipped' \in Seq(arrived) /\ IsInjective(skipped')
      /\ ToSet(skipped') = ToSet(skipped) \cap (Requests \ {r})
  <2>1. /\ running \in Seq(arrived) /\ waiting \in Seq(arrived) /\ skipped \in Seq(arrived)
        /\ IsInjective(running) /\ IsInjective(waiting) /\ IsInjective(skipped)
    BY <1>2 DEF TypeOK, QueueInv
  <2> QED BY <1>1, <2>1, SiftSet DEF Keep
<1>7. \A q \in freed : q = r /\ loading[q] = {}
  <2>1. ~Loading(r) \/ r \in finishedRecving => r \notin receiving
    BY <1>1, <1>2 DEF LoadInv
  <2> QED BY <1>2, <1>3, <2>1 DEF LoadInv
<1>8. table' = [q \in Requests |-> IF q \in freed THEN <<>> ELSE table[q]]
  BY <1>1, <1>2 DEF TypeOK
<1>9. /\ table' \in [Requests -> Seq(Blocks)] /\ KeyInv'
      /\ \A q \in Requests : Len(table'[q]) = IF q \in freed THEN 0 ELSE Len(table[q])
  <2>1. UNCHANGED <<key, loading>>
    BY <1>1 DEF loadVars
  <2>2. \A q \in freed \cap Requests : loading[q] = {}
    BY <1>7
  <2> HIDE DEF freed
  <2> QED BY <1>2, <1>8, <2>1, <2>2, GiveBackKeeps
<1>10. \A q \in Requests : /\ q # r => table'[q] = table[q] /\ Len(table'[q]) = Len(table[q])
                           /\ table'[q] = table[q] \/ table'[q] = <<>>
                           /\ q = r /\ table'[q] # <<>> => r \in Delays({r})
  BY <1>8, <1>9
<1> HIDE DEF freed
<1>11. TypeOK'
  <2>1. status' \in [Requests -> Statuses]
    <3>1. "FINISHED_ABORTED" \in Statuses
      BY DEF Statuses, FinishedStatuses
    <3> QED BY <1>1, <1>2, <3>1 DEF TypeOK
  <2>2. {waiting', skipped', running', stepSkipped'} \subseteq Seq(arrived')
    BY <1>1, <1>2, <1>6 DEF TypeOK, stepVars
  <2>3. interrupted' \in BOOLEAN
    BY <1>1
  <2> QED BY <1>1, <1>2, <1>9, <2>1, <2>2, <2>3 DEF TypeOK, stepVars, outputVars, loadVars
<1>12. QueueInv'
  <2>1. \A q \in ToSet(waiting') \cup ToSet(skipped') : Waits(q)'
    BY <1>2, <1>5, <1>6 DEF QueueInv, Waits
  <2>2. \A q \in Requests : q \in ToSet(running') <=> status'[q] = "RUNNING"
    BY <1>2, <1>5, <1>6 DEF QueueInv
  <2>3. \A q \in Requests \ arrived' :
          status'[q] = "WAITING" /\ computed'[q] = 0 /\ table'[q] = <<>>
    BY <1>1, <1>2, <1>5, <1>10 DEF QueueInv
  <2>4. ToSet(waiting') \cap ToSet(skipped') = {}
    BY <1>2, <1>6 DEF QueueInv
  <2> QED BY <1>4, <1>6, <2>1, <2>2, <2>3, <2>4 DEF QueueInv
<1>13. \A q \in Requests : Given(q)' = Given(q)
  BY <1>1, <1>4 DEF Given
<1>14. TokenInv'
  <2>1. \A q \in Requests : ~IsFinished(status'[q]) => ~IsFinished(status[q])
    BY <1>1, <1>5
  <2>2. \A q \in Requests : ~ (sched[q] > 0)
    BY <1>1, <1>2 DEF TokenInv
  <2> QED BY <1>1, <1>2, <1>4, <1>13, <2>1, <2>2 DEF TokenInv
<1>15. TableInv'
  <2>1. \A q \in Requests : BlocksFor(Given(q))' = BlocksFor(Given(q))
    BY <1>13 DEF BlocksFor
  <2>2. \A q \in Requests : ~IsFinished(status'[q]) => q # r /\ ~IsFinished(status[q])
    BY <1>1, <1>5
  <2>3. \A q \in Requests : Len(table'[q]) = Len(table[q]) \/ Len(table'[q]) = 0
    BY <1>9
  <2>4. \A q \in Requests : Len(table'[q]) <= BlocksFor(MaxLen)
    BY <1>2, <2>3, Constants DEF TableInv
  <2>5. \A q \in Requests : ~IsFinished(status'[q]) => BlocksFor(Given(q))' <= Len(table'[q])
    BY <1>2, <1>10, <2>1, <2>2 DEF TableInv
  <2> QED BY <2>4, <2>5 DEF TableInv, BlocksFor, MaxLen
<1>16. LoadInv'
  <2>1. \A q \in Requests : Loading(q)' <=> Loading(q) /\ q # r
    BY <1>5 DEF Loading
  <2>2. /\ receiving \cup recved \subseteq Requests
        /\ finishedRecving \cup failedRecving \subseteq Requests
    BY <1>2 DEF TypeOK
  <2>3. \A q \in Requests : IsFinished(status'[q]) /\ table'[q] # <<>> => q \in receiving
    <3> SUFFICES ASSUME NEW q \in Requests, IsFinished(status'[q]), table'[q] # <<>>
                 PROVE  q \in receiving
      OBVIOUS
    <3>1. CASE q = r
      BY <1>2, <1>3, <1>4, <1>10, <3>1 DEF LoadInv
    <3>2. CASE q # r
      BY <1>2, <1>4, <1>5, <1>10, <3>2 DEF LoadInv
    <3> QED BY <3>1, <3>2
  <2>4. receiving' = receiving /\ recved' = recved /\ loading' = loading /\ pc' = pc
    BY <1>1 DEF loadVars, outputVars
  <2>5. \A q \in receiving : Loading(q)' \/ IsFinished(status'[q])
    BY <1>2, <1>5, <2>1, <2>2 DEF LoadInv
  <2>6. \A q \in finishedRecving' \cup failedRecving' : Loading(q)'
    BY <1>1, <1>2, <2>1, <2>2 DEF LoadInv
  <2> QED BY <1>1, <1>2, <1>4, <2>1, <2>3, <2>4, <2>5, <2>6 DEF LoadInv
<1>17. IdleInv'
  <2>1. \A q \in Requests : Loading(q)' => Loading(q) /\ q # r
    BY <1>5 DEF Loading
  <2>2. \A q \in Requests : status'[q] \in {"WAITING", "PREEMPTED"} =>
          status'[q] = status[q] /\ table'[q] = table[q]
    BY <1>5, <1>10
  <2> QED BY <1>1, <1>2, <2>1, <2>2 DEF IdleInv
<1>18. ReportInv'
  BY <1>1, <1>2, <1>4 DEF ReportInv
<1> QED BY <1>9, <1>11, <1>12, <1>14, <1>15, <1>16, <1>17, <1>18 DEF IInv

-------------------------------------------------------------------------------
(* The theorems *)

\* In every reachable state the queues, numbers of tokens, block tables, keys of
\* the prefix cache, background loads and reports agree with each other.
THEOREM Inductive == Spec => []IInv
<1>1. Init => IInv
  BY InitKeeps
<1>2. IInv /\ [Next]_vars => IInv'
  <2> SUFFICES ASSUME IInv, [Next]_vars PROVE IInv'
    OBVIOUS
  <2>1. CASE BeginSchedule
    BY <2>1, BeginKeeps
  <2>2. CASE ScheduleRunning
    BY <2>2, ScheduleRunningKeeps
  <2>3. CASE PreemptLast
    BY <2>3, PreemptKeeps
  <2>4. CASE EndRunning
    BY <2>4, EndRunningKeeps
  <2>5. CASE SkipLoading
    BY <2>5, SkipKeeps
  <2>6. CASE PromoteLoaded
    BY <2>6, PromoteKeeps
  <2>7. CASE StartLoad
    BY <2>7, StartLoadKeeps
  <2>8. CASE Admit
    BY <2>8, AdmitKeeps
  <2>9. CASE FinishSchedule
    BY <2>9, FinishKeeps
  <2>10. CASE HandleInvalidBlocks
    BY <2>10, HandleKeeps
  <2>11. CASE ProcessOutputs
    BY <2>11, ProcessKeeps
  <2>12. ASSUME NEW r \in Requests, LoadEnds(r) PROVE IInv'
    BY <2>12, LoadEndsKeeps
  <2>13. ASSUME NEW r \in Requests, AddRequest(r) PROVE IInv'
    BY <2>13, AddKeeps
  <2>14. ASSUME NEW r \in Requests, AbortRequest(r) PROVE IInv'
    BY <2>14, AbortKeeps
  <2>15. CASE UNCHANGED vars
    BY <2>15, StutterKeeps
  <2> QED BY <2>1, <2>2, <2>3, <2>4, <2>5, <2>6, <2>7, <2>8, <2>9, <2>10, <2>11, <2>12,
             <2>13, <2>14, <2>15 DEF Next, Step
<1> QED BY <1>1, <1>2, PTL DEF Spec

\* Every variable keeps its type: no request computes more than its maximal
\* length, no step grants more than its budget, and no block is held, cached,
\* loaded or reported that does not exist.
THEOREM Types == Spec => []TypeOK
<1>1. IInv => TypeOK
  BY DEF IInv
<1> QED BY <1>1, Inductive, PTL

\* Under the fail policy no later request can find a block that failed to load:
\* the first running request that counts it owns it, and what it owns is
\* evicted; what a background load fills is not cached before the load ends.
THEOREM FailedEvicted == Spec => []FailedLoadsEvicted
<1>1. IInv => FailedLoadsEvicted
  BY DEF IInv, ReportInv, FailedLoadsEvicted
<1> QED BY <1>1, Inductive, PTL

\* The sets of ended loads hold requests that still wait for them, and a request
\* that waits with nothing computed holds no block.  A prompt of one token that
\* the connector has in full is the exception: its promotion cuts it back to no
\* token and leaves it the block (scheduler.py:2098-2101).
THEOREM Accounted ==
  ASSUME PromptLen > 1
  PROVE  Spec => []LoadsAccounted
<1>1. IInv => LoadsAccounted
  <2> SUFFICES ASSUME IInv PROVE LoadsAccounted
    OBVIOUS
  <2>1. ASSUME NEW r \in Requests,
               r \in receiving \/ (r \in failedRecving /\ pc # "outputs") \/ r \in finishedRecving
        PROVE  status[r] = "WAITING_FOR_REMOTE_KVS" \/ (IsFinished(status[r]) /\ r \in receiving)
    BY <2>1 DEF IInv, LoadInv, Loading
  <2>2. ASSUME NEW r \in ToSet(waiting) \cup ToSet(skipped),
               computed[r] = 0, status[r] # "WAITING_FOR_REMOTE_KVS"
        PROVE  table[r] = <<>>
    <3>1. waiting \in Seq(Requests) /\ skipped \in Seq(Requests)
      BY DEF IInv, TypeOK
    <3>2. r \in Requests
      BY <3>1, SetOfSequence
    <3>3. status[r] \in {"WAITING", "PREEMPTED"}
      BY <2>2 DEF IInv, QueueInv, Waits
    <3> QED BY <2>2, <3>2, <3>3 DEF IInv, IdleInv
  <2> QED BY <2>1, <2>2 DEF LoadsAccounted
<1> QED BY <1>1, Inductive, PTL

\* No two requests hold a block for different content, a load fills blocks of
\* its own request's, and a finished request holds blocks only for its load.
THEOREM HeldForUse == Spec => []BlocksHeldForUse
<1>1. IInv => BlocksHeldForUse
  <2> SUFFICES ASSUME IInv PROVE BlocksHeldForUse
    OBVIOUS
  <2>1. \A r \in Requests : {s[1] : s \in loading[r]} \subseteq ToSet(table[r])
    BY DEF IInv, KeyInv
  <2>2. \A r \in Requests : IsFinished(status[r]) /\ table[r] # <<>> => r \in receiving \cup recved
    BY DEF IInv, LoadInv
  <2>3. \A r, s \in Requests : \A i \in DOMAIN table[r], j \in DOMAIN table[s] :
          table[r][i] = table[s][j] => Content(r, i) = Content(s, j)
    BY DEF IInv, KeyInv
  <2> QED BY <2>1, <2>2, <2>3 DEF BlocksHeldForUse
<1> QED BY <1>1, Inductive, PTL

==============================================================================
