--------------------------- MODULE Scheduler_proofs ---------------------------
(***************************************************************************)
(* Theorems about Scheduler, for any set of requests and any lengths,      *)
(* blocks, budgets, policy, adapters, sessions, tools and KV transfers:    *)
(* the inductive invariant IInv, and what its proof needs of the model's   *)
(* operators.                                                              *)
(***************************************************************************)
EXTENDS Scheduler, Collections_proofs

-------------------------------------------------------------------------------
(* The queues *)

LEMMA EmptyQueue ==
  /\ Members(<<>>) = {}
  /\ NoDuplicates(<<>>)
  /\ \A S : \A q \in Seq(S) : Members(q) = {} <=> q = <<>>
<1>1. Members(<<>>) = {} /\ NoDuplicates(<<>>)
  BY DEF Members, NoDuplicates
<1>2. ASSUME NEW S, NEW q \in Seq(S), q # <<>>
      PROVE  Members(q) # {}
  <2>1. Len(q) \in Nat /\ Len(q) # 0
    BY <1>2, LenProperties, EmptySeq
  <2>2. q[1] \in Members(q)
    BY <2>1 DEF Members
  <2> QED BY <2>2
<1> QED BY <1>1, <1>2

LEMMA MembersType ==
  ASSUME NEW S, NEW q \in Seq(S)
  PROVE  Members(q) \subseteq S
BY ElementOfSeq DEF Members

\* pop and remove: the requests after the removed one move up.
LEMMA RemoveAtShifts ==
  ASSUME NEW S, NEW q \in Seq(S), NEW i \in 1..Len(q)
  PROVE  /\ RemoveAt(q, i) \in Seq(S)
         /\ Len(RemoveAt(q, i)) = Len(q) - 1
         /\ \A j \in 1..(Len(q) - 1) :
               RemoveAt(q, i)[j] = IF j < i THEN q[j] ELSE q[j + 1]
<1> DEFINE p == SubSeq(q, 1, i - 1)
           s == SubSeq(q, i + 1, Len(q))
<1>1. Len(q) \in Nat /\ \A j \in 1..Len(q) : q[j] \in S
  BY LenProperties, ElementOfSeq
<1>2. /\ p \in Seq(S) /\ Len(p) = i - 1
      /\ \A j \in 1..(i - 1) : p[j] = q[j]
  <2>1. i - 1 \in Int /\ \A j \in 1..(i - 1) : q[j] \in S
    BY <1>1
  <2>2. /\ p \in Seq(S)
        /\ Len(p) = IF 1 <= i - 1 THEN (i - 1) - 1 + 1 ELSE 0
        /\ \A j \in 1..((i - 1) - 1 + 1) : p[j] = q[1 + j - 1]
    BY <2>1, SubSeqProperties
  <2> QED BY <2>2
<1>3. /\ s \in Seq(S) /\ Len(s) = Len(q) - i
      /\ \A j \in 1..(Len(q) - i) : s[j] = q[i + j]
  <2>1. i + 1 \in Int /\ Len(q) \in Int /\ \A j \in (i + 1)..Len(q) : q[j] \in S
    BY <1>1
  <2>2. /\ s \in Seq(S)
        /\ Len(s) = IF i + 1 <= Len(q) THEN Len(q) - (i + 1) + 1 ELSE 0
        /\ \A j \in 1..(Len(q) - (i + 1) + 1) : s[j] = q[i + 1 + j - 1]
    BY <2>1, SubSeqProperties
  <2>3. \A j \in 1..(Len(q) - i) : j \in 1..(Len(q) - (i + 1) + 1) /\ i + 1 + j - 1 = i + j
    BY <1>1
  <2> QED BY <1>1, <2>2, <2>3
<1>4. /\ p \o s \in Seq(S)
      /\ Len(p \o s) = Len(p) + Len(s)
      /\ \A j \in 1..(Len(p) + Len(s)) :
            (p \o s)[j] = IF j <= Len(p) THEN p[j] ELSE s[j - Len(p)]
  BY <1>2, <1>3, ConcatProperties
<1>5. RemoveAt(q, i) = p \o s
  BY DEF RemoveAt
<1> HIDE DEF p, s
<1>6. ASSUME NEW j \in 1..(Len(q) - 1)
      PROVE  (p \o s)[j] = IF j < i THEN q[j] ELSE q[j + 1]
  <2>1. (p \o s)[j] = IF j <= i - 1 THEN p[j] ELSE s[j - (i - 1)]
    BY <1>1, <1>2, <1>3, <1>4
  <2>2. CASE j < i
    BY <1>1, <1>2, <2>1, <2>2
  <2>3. CASE ~(j < i)
    <3>1. j - (i - 1) \in 1..(Len(q) - i) /\ i + (j - (i - 1)) = j + 1
      BY <1>1, <2>3
    <3>2. s[j - (i - 1)] = q[j + 1]
      BY <1>3, <3>1
    <3> QED BY <1>1, <2>1, <2>3, <3>2
  <2> QED BY <2>2, <2>3
<1>7. Len(RemoveAt(q, i)) = Len(q) - 1
  <2>1. (i - 1) + (Len(q) - i) = Len(q) - 1
    BY <1>1
  <2>2. Len(RemoveAt(q, i)) = (i - 1) + (Len(q) - i)
    BY <1>2, <1>3, <1>4, <1>5, Zenon
  <2> QED BY <2>1, <2>2
<1> QED BY <1>4, <1>5, <1>6, <1>7

\* The removed request is gone from a queue that held it once, and no other.
LEMMA RemoveAtMembers ==
  ASSUME NEW S, NEW q \in Seq(S), NoDuplicates(q), NEW i \in 1..Len(q)
  PROVE  /\ Members(RemoveAt(q, i)) = Members(q) \ {q[i]}
         /\ NoDuplicates(RemoveAt(q, i))
<1> DEFINE p == RemoveAt(q, i)
<1>1. /\ Len(q) \in Nat /\ Len(p) = Len(q) - 1
      /\ \A j \in 1..(Len(q) - 1) : p[j] = IF j < i THEN q[j] ELSE q[j + 1]
  BY LenProperties, RemoveAtShifts
<1> HIDE DEF p
<1>2. \A j \in 1..Len(p) : \E k \in 1..Len(q) :
         k # i /\ p[j] = q[k] /\ k = IF j < i THEN j ELSE j + 1
  <2>1. TAKE j \in 1..Len(p)
  <2>2. CASE j < i
    BY <1>1, <2>2
  <2>3. CASE ~(j < i)
    BY <1>1, <2>3
  <2> QED BY <2>2, <2>3
<1>3. \A k \in 1..Len(q) : k # i => \E j \in 1..Len(p) : p[j] = q[k]
  <2>1. SUFFICES ASSUME NEW k \in 1..Len(q), k # i
                 PROVE  \E j \in 1..Len(p) : p[j] = q[k]
    OBVIOUS
  <2>2. CASE k < i
    BY <1>1, <2>2
  <2>3. CASE k > i
    <3>1. k - 1 \in 1..Len(p) /\ p[k - 1] = q[k]
      BY <1>1, <2>3
    <3> QED BY <3>1
  <2> QED BY <2>1, <2>2, <2>3
<1>4. Members(p) = Members(q) \ {q[i]}
  <2>1. ASSUME NEW x \in Members(p) PROVE x \in Members(q) \ {q[i]}
    <3>1. PICK j \in 1..Len(p) : x = p[j]
      BY <2>1 DEF Members
    <3>2. PICK k \in 1..Len(q) : k # i /\ x = q[k]
      BY <1>2, <3>1
    <3>3. q[k] # q[i]
      BY <3>2 DEF NoDuplicates
    <3> QED BY <3>2, <3>3 DEF Members
  <2>2. ASSUME NEW x \in Members(q) \ {q[i]} PROVE x \in Members(p)
    <3>1. PICK k \in 1..Len(q) : x = q[k]
      BY <2>2 DEF Members
    <3>2. PICK j \in 1..Len(p) : p[j] = q[k]
      BY <1>3, <2>2, <3>1
    <3> QED BY <3>1, <3>2 DEF Members
  <2> QED BY <2>1, <2>2
<1>5. NoDuplicates(p)
  <2>1. SUFFICES ASSUME NEW j \in 1..Len(p), NEW k \in 1..Len(p), p[j] = p[k]
                 PROVE  j = k
    BY DEF NoDuplicates
  <2>2. PICK jj \in 1..Len(q) : p[j] = q[jj] /\ jj = IF j < i THEN j ELSE j + 1
    BY <1>2
  <2>3. PICK kk \in 1..Len(q) : p[k] = q[kk] /\ kk = IF k < i THEN k ELSE k + 1
    BY <1>2
  <2>4. jj = kk
    BY <2>1, <2>2, <2>3 DEF NoDuplicates
  <2> QED BY <1>1, <2>2, <2>3, <2>4
<1> QED BY <1>4, <1>5 DEF p

LEMMA AppendMembers ==
  ASSUME NEW S, NEW q \in Seq(S), NEW r \in S
  PROVE  /\ Members(Append(q, r)) = Members(q) \cup {r}
         /\ NoDuplicates(q) /\ r \notin Members(q) => NoDuplicates(Append(q, r))
<1> DEFINE p == Append(q, r)
<1>1. /\ Len(q) \in Nat /\ Len(p) = Len(q) + 1 /\ p[Len(q) + 1] = r
      /\ \A j \in 1..Len(q) : p[j] = q[j]
  BY LenProperties, AppendProperties
<1> HIDE DEF p
<1>2. \A j \in 1..Len(p) : j \in 1..Len(q) \/ j = Len(q) + 1
  BY <1>1
<1>3. Members(p) = Members(q) \cup {r}
  <2>1. Members(p) \subseteq Members(q) \cup {r}
    BY <1>1, <1>2 DEF Members
  <2>2. Members(q) \subseteq Members(p) /\ r \in Members(p)
    BY <1>1 DEF Members
  <2> QED BY <2>1, <2>2
<1>4. NoDuplicates(q) /\ r \notin Members(q) => NoDuplicates(p)
  BY <1>1, <1>2 DEF Members, NoDuplicates
<1> QED BY <1>3, <1>4 DEF p

LEMMA ConcatMembers ==
  ASSUME NEW S, NEW p \in Seq(S), NEW q \in Seq(S)
  PROVE  /\ Members(p \o q) = Members(p) \cup Members(q)
         /\ NoDuplicates(p) /\ NoDuplicates(q) /\ Members(p) \cap Members(q) = {}
               => NoDuplicates(p \o q)
<1> DEFINE s == p \o q
<1>1. /\ Len(p) \in Nat /\ Len(q) \in Nat /\ Len(s) = Len(p) + Len(q)
      /\ \A i \in 1..(Len(p) + Len(q)) :
            s[i] = IF i <= Len(p) THEN p[i] ELSE q[i - Len(p)]
  BY LenProperties, ConcatProperties
<1> HIDE DEF s
<1>2. \A i \in 1..Len(s) : \/ i \in 1..Len(p) /\ s[i] = p[i]
                           \/ i - Len(p) \in 1..Len(q) /\ s[i] = q[i - Len(p)]
  BY <1>1
<1>3. Members(s) = Members(p) \cup Members(q)
  <2>1. Members(s) \subseteq Members(p) \cup Members(q)
    BY <1>2 DEF Members
  <2>2. Members(p) \subseteq Members(s)
    BY <1>1 DEF Members
  <2>3. ASSUME NEW i \in 1..Len(q)
        PROVE  q[i] \in Members(s)
    <3>1. i + Len(p) \in 1..Len(s) /\ s[i + Len(p)] = q[i]
      BY <1>1
    <3> QED BY <3>1 DEF Members
  <2> QED BY <2>1, <2>2, <2>3 DEF Members
<1>4. ASSUME NoDuplicates(p), NoDuplicates(q), Members(p) \cap Members(q) = {}
      PROVE  NoDuplicates(s)
  <2>1. SUFFICES ASSUME NEW i \in 1..Len(s), NEW j \in 1..Len(s), s[i] = s[j]
                 PROVE  i = j
    BY DEF NoDuplicates
  <2>2. CASE i \in 1..Len(p) /\ s[i] = p[i] /\ j \in 1..Len(p) /\ s[j] = p[j]
    BY <1>4, <2>1, <2>2 DEF NoDuplicates
  <2>3. CASE /\ i - Len(p) \in 1..Len(q) /\ s[i] = q[i - Len(p)]
             /\ j - Len(p) \in 1..Len(q) /\ s[j] = q[j - Len(p)]
    <3>1. i - Len(p) = j - Len(p)
      BY <1>4, <2>1, <2>3 DEF NoDuplicates
    <3> QED BY <1>1, <3>1
  <2>4. CASE i \in 1..Len(p) /\ s[i] = p[i] /\ j - Len(p) \in 1..Len(q) /\ s[j] = q[j - Len(p)]
    BY <1>4, <2>1, <2>4 DEF Members
  <2>5. CASE j \in 1..Len(p) /\ s[j] = p[j] /\ i - Len(p) \in 1..Len(q) /\ s[i] = q[i - Len(p)]
    BY <1>4, <2>1, <2>5 DEF Members
  <2> QED BY <1>2, <2>2, <2>3, <2>4, <2>5
<1> QED BY <1>3, <1>4 DEF s

\* prepend_request
LEMMA PrependMembers ==
  ASSUME NEW S, NEW q \in Seq(S), NEW r \in S
  PROVE  /\ <<r>> \o q \in Seq(S)
         /\ Len(<<r>> \o q) = Len(q) + 1
         /\ Members(<<r>> \o q) = Members(q) \cup {r}
         /\ NoDuplicates(q) /\ r \notin Members(q) => NoDuplicates(<<r>> \o q)
<1>1. <<r>> \in Seq(S) /\ Len(<<r>>) = 1 /\ <<r>>[1] = r
  OBVIOUS
<1>2. Members(<<r>>) = {r} /\ NoDuplicates(<<r>>)
  BY <1>1 DEF Members, NoDuplicates
<1>3. Len(q) \in Nat
  BY LenProperties
<1>4. <<r>> \o q \in Seq(S) /\ Len(<<r>> \o q) = Len(<<r>>) + Len(q)
  BY <1>1, ConcatProperties
<1>5. /\ Members(<<r>> \o q) = Members(<<r>>) \cup Members(q)
      /\ NoDuplicates(<<r>>) /\ NoDuplicates(q) /\ Members(<<r>>) \cap Members(q) = {}
            => NoDuplicates(<<r>> \o q)
  BY <1>1, ConcatMembers
<1>6. r \notin Members(q) => Members(<<r>>) \cap Members(q) = {}
  BY <1>2
<1> QED BY <1>1, <1>2, <1>3, <1>4, <1>5, <1>6

\* remove_requests
LEMMA WithoutMembers ==
  ASSUME NEW S, NEW q \in Seq(S), NoDuplicates(q), NEW r
  PROVE  /\ Without(q, r) \in Seq(S)
         /\ Len(Without(q, r)) <= Len(q)
         /\ Members(Without(q, r)) = Members(q) \ {r}
         /\ NoDuplicates(Without(q, r))
<1>1. CASE \E i \in 1..Len(q) : q[i] = r
  <2>1. PICK i \in 1..Len(q) : i = CHOOSE k \in 1..Len(q) : q[k] = r
    BY <1>1
  <2>2. q[i] = r /\ Without(q, r) = RemoveAt(q, i)
    BY <1>1, <2>1 DEF Without
  <2>3. Len(q) \in Nat
    BY LenProperties
  <2> QED BY <2>2, <2>3, RemoveAtShifts, RemoveAtMembers
<1>2. CASE ~ \E i \in 1..Len(q) : q[i] = r
  <2>1. Without(q, r) = q /\ r \notin Members(q) /\ Len(q) \in Nat
    BY <1>2, LenProperties DEF Without, Members
  <2> QED BY <2>1
<1> QED BY <1>1, <1>2

\* A queue that is not empty has a request of least rank, and one of greatest.
LEMMA LeastRank ==
  ASSUME NEW q \in Seq(Requests), q # <<>>
  PROVE  \E i \in 1..Len(q) : \A j \in 1..Len(q) : Rank[q[i]] <= Rank[q[j]]
<1>1. Len(q) \in Nat \ {0} /\ \A i \in 1..Len(q) : q[i] \in Requests
  BY EmptySeq, ElementOfSeq
<1>2. \A i \in 1..Len(q) : Rank[q[i]] \in Nat
  BY <1>1, QueueAssumption
<1> DEFINE T == {Rank[q[i]] : i \in 1..Len(q)}
<1>3. T \subseteq Nat /\ T # {}
  BY <1>1, <1>2
<1>4. PICK m \in T : \A n \in T : m <= n
  BY <1>3, LeastNumber
<1> QED BY <1>4

LEMMA GreatestRank ==
  ASSUME NEW q \in Seq(Requests), q # <<>>
  PROVE  \E i \in 1..Len(q) : \A j \in 1..Len(q) : Rank[q[j]] <= Rank[q[i]]
<1> DEFINE f == [i \in 1..Len(q) |-> Rank[q[i]]]
<1>1. Len(q) \in Nat \ {0} /\ \A i \in 1..Len(q) : q[i] \in Requests
  BY EmptySeq, ElementOfSeq
<1>2. IsFiniteSet(1..Len(q)) /\ 1..Len(q) # {}
  <2>1. 1 \in 1..Len(q) /\ 1 \in Int /\ Len(q) \in Int
    BY <1>1
  <2> QED BY <2>1, FS_Interval
<1>3. \A i \in 1..Len(q) : f[i] = Rank[q[i]] /\ f[i] \in Int
  BY <1>1, QueueAssumption
<1> HIDE DEF f
<1>4. PICK i \in 1..Len(q) : \A j \in 1..Len(q) : f[j] <= f[i]
  BY <1>2, <1>3, GreatestValue
<1> QED BY <1>3, <1>4

\* peek_request and pop_request find a request.
LEMMA HeadIndexInQueue ==
  ASSUME NEW q \in Seq(Requests), q # <<>>
  PROVE  HeadIndex(q) \in 1..Len(q)
<1>1. Len(q) \in Nat \ {0}
  BY EmptySeq
<1>2. PICK i \in 1..Len(q) : \A j \in 1..Len(q) : Rank[q[i]] <= Rank[q[j]]
  BY LeastRank
<1>3. CASE Policy = "FCFS"
  BY <1>1, <1>3 DEF HeadIndex
<1>4. CASE Policy # "FCFS"
  <2>1. HeadIndex(q) = CHOOSE k \in 1..Len(q) : \A j \in 1..Len(q) : Rank[q[k]] <= Rank[q[j]]
    BY <1>4 DEF HeadIndex
  <2> QED BY <1>2, <2>1
<1> QED BY <1>3, <1>4

\* A queue without duplicates is as long as it has members.
LEMMA QueueLength ==
  ASSUME NEW S, NEW q \in Seq(S), NoDuplicates(q)
  PROVE  IsFiniteSet(Members(q)) /\ Cardinality(Members(q)) = Len(q)
<1>1. Len(q) \in Nat /\ q \in [1..Len(q) -> S]
  BY LenProperties
<1>2. q \in Bijection(1..Len(q), Members(q))
  BY <1>1 DEF Bijection, Injection, Surjection, IsInjective, Members, NoDuplicates
<1>3. ExistsBijection(1..Len(q), Members(q))
  BY <1>2 DEF ExistsBijection
<1>4. IsFiniteSet(1..Len(q)) /\ Cardinality(1..Len(q)) = Len(q)
  BY <1>1, FS_Interval
<1> QED BY <1>3, <1>4, FS_Bijection

-------------------------------------------------------------------------------
(* The inductive invariant *)

\* The executor works on one batch, or on two in an engine without sessions and
\* without resets of the prefix cache.  With two batches in flight a session is
\* lost from its queue, and a reset lets a request be sampled twice.
EngineAssumption ==
  \/ MaxInFlight = 1
  \/ MaxInFlight = 2 /\ Resumable = {} /\ ~MayReset

Planning == pc \in {"running", "alloc", "post", "waiting", "output"}
InRunningPhase == pc \in {"running", "alloc", "post"}
RunningReqs == {r \in Unfinished : status[r] = "RUNNING"}
QueuedReqs == {r \in Unfinished : status[r] \in QueuedStatuses}

\* Locals of a method are empty outside of it.
AtRest ==
  /\ pc \notin {"update", "remove"} => stoppedRunning = {} /\ stoppedPreempted = {}
  /\ pc # "update" => \A r \in Requests : batch.pos[r] = 0
  /\ ~Planning => Scheduled = {} /\ preempted = {}
  /\ pc \notin {"waiting", "output"} =>
        newReqs = {} /\ resumedReqs = {} /\ stepSkipped = <<>>
  /\ pc = "waiting" => preempted = {}

\* QueueAgreement in every state: update_from_output has put stopped requests in
\* their new queue, and has yet to take them from the old one.
QueueInv ==
  /\ NoDuplicates(running) /\ NoDuplicates(waiting)
  /\ NoDuplicates(skipped) /\ NoDuplicates(stepSkipped)
  /\ Members(running) \ stoppedRunning = RunningReqs
  /\ stoppedRunning \cap RunningReqs = {}
  /\ Members(waiting) \cap Members(skipped) \subseteq stoppedPreempted
  /\ Members(waiting) \cap Members(stepSkipped) = {}
  /\ Members(skipped) \cap Members(stepSkipped) = {}
  /\ (Members(waiting) \ stoppedPreempted) \cup Members(skipped) \cup Members(stepSkipped)
       = QueuedReqs

\* A request is stopped once per batch.
StoppedInv ==
  /\ \A r \in stoppedRunning \cup stoppedPreempted : batch.pos[r] = 0
  /\ MaxInFlight = 1 => stoppedPreempted = {}

\* A request that waits for a sampled token has as many tokens as when the step
\* was scheduled; it is running, with all of them computed, or was preempted
\* after that step, and then it stays in waiting, and is not scheduled again, until
\* the sample is back.
SampleOf(r, pos) ==
  /\ tokens[r] = pos
  /\ \/ status[r] = "RUNNING" /\ computed[r] = tokens[r]
     \/ status[r] = "PREEMPTED" /\ MaxInFlight = 2 /\ r \in Members(waiting)
PendingInv(r) ==
  /\ batch.pos[r] > 0 => SampleOf(r, batch.pos[r])
  /\ \A i \in 1..Len(inflight) :
        inflight[i].pos[r] > 0 =>
          /\ SampleOf(r, inflight[i].pos[r])
          /\ batch.pos[r] = 0
          /\ \A j \in 1..Len(inflight) : inflight[j].pos[r] > 0 => i = j
          /\ status[r] = "PREEMPTED" => \/ Planning /\ r \in preempted
                                        \/ pc = "idle" /\ i < Len(inflight)
InflightInv ==
  /\ Len(inflight) <= MaxInFlight
  /\ Planning \/ pc \in {"update", "remove", "kv"} => Len(inflight) < MaxInFlight
  /\ pc = "reset" => inflight = <<>>
  /\ \A r \in Requests, i \in 1..Len(inflight) : inflight[i].pos[r] > 0 => r \in arrived
SamplesInv == InflightInv /\ \A r \in Unfinished : PendingInv(r)

\* A request that has not been added is as it will be when it is.
NewcomersInv ==
  \A r \in Requests \ arrived :
     /\ status[r] = "WAITING" /\ computed[r] = 0 /\ blocks[r] = 0
     /\ tokens[r] = PromptLen[r] /\ output[r] = 0
     /\ streamQueue[r] = <<>>
     /\ updatesLeft[r] = IF r \in Resumable THEN MaxUpdates ELSE 0

\* A request has tokens for what it computes, and one that waits for its turn has
\* a token to compute.
LengthInv ==
  /\ \A r \in Requests : tokens[r] = prompt[r] + output[r] /\ prompt[r] > 0
  /\ \A r \in Unfinished :
       /\ computed[r] + sched[r] <= tokens[r]
       /\ status[r] \notin {"RUNNING", "WAITING_FOR_REMOTE_KVS"} => computed[r] < tokens[r]

\* A session that waits for its client has all but its last token computed.
SessionInv ==
  \A r \in Unfinished :
     status[r] = "WAITING_FOR_STREAMING_REQ" =>
        /\ r \in Resumable
        /\ streamQueue[r] = <<>> /\ computed[r] = tokens[r] - 1
        /\ output[r] > 0

\* A batch holds a token for a request or part of its prefill, not both.
ChunksInv ==
  \A r \in Requests :
     /\ batch.pos[r] > 0 => r \notin batch.chunks
     /\ \A i \in 1..Len(inflight) : inflight[i].pos[r] > 0 => r \notin inflight[i].chunks

\* Only a session that is continued outgrows max_model_len.  It has one token to
\* compute, which one step does, and the sample of that step stops it again: the
\* loop over RUNNING requests, which would compute a negative number of tokens
\* for it, never meets it.
AwaitsSample(r) == batch.pos[r] > 0 \/ \E i \in 1..Len(inflight) : inflight[i].pos[r] > 0
LongInv ==
  \A r \in Unfinished :
     tokens[r] >= MaxModelLen =>
        /\ MaxInFlight = 1
        /\ \/ /\ status[r] \in {"WAITING", "WAITING_FOR_STREAMING_REQ"}
              /\ computed[r] = tokens[r] - 1
           \/ /\ status[r] = "RUNNING" /\ computed[r] + sched[r] = tokens[r]
              /\ (pc \in {"waiting", "output"} /\ sched[r] > 0) \/ AwaitsSample(r)

\* KV transfers belong to requests that expect them.
TransferInv ==
  /\ loading \subseteq live /\ sending \subseteq live
  /\ loading \cap sending = {}
  /\ \A r \in loading : status[r] = "WAITING_FOR_REMOTE_KVS" \/ IsFinished(status[r])
  /\ \A r \in sending : IsFinished(status[r])
  /\ \A r \in finishedRecving : r \in Unfinished /\ status[r] = "WAITING_FOR_REMOTE_KVS"
  /\ finishedRecving \cap loading = {}
  /\ \A r \in Unfinished :
        status[r] = "WAITING_FOR_REMOTE_KVS" => r \in loading \cup finishedRecving

\* What schedule() has planned so far: requests it scheduled are before reqIndex,
\* and the one it allocates for is at or before it.
PlanInv ==
  /\ Scheduled \subseteq RunningReqs
  /\ preempted \cap RunningReqs = {}
  /\ Planning => budget >= 0
  /\ Len(running) <= MaxRunning
  /\ InRunningPhase =>
        /\ reqIndex >= 1
        /\ \A j \in 1..Len(running) : sched[running[j]] > 0 => j < reqIndex
  /\ pc = "alloc" =>
        /\ cur \in RunningReqs /\ sched[cur] = 0
        /\ numNew > 0 /\ numNew <= budget
        /\ computed[cur] + numNew <= tokens[cur]
        /\ \E j \in 1..Len(running) : j <= reqIndex /\ running[j] = cur
        /\ Policy = "FCFS" => reqIndex <= Len(running) /\ running[reqIndex] = cur

\* A request of the step before has computed tokens unless it was preempted, and
\* a preempted one is not resumed before the next step's output is made.
PrevInv ==
  /\ prevScheduled \subseteq arrived
  /\ resumedReqs \cap prevScheduled = {}
  /\ \A r \in prevScheduled \cap Unfinished :
        /\ status[r] # "WAITING_FOR_REMOTE_KVS"
        /\ status[r] = "PREEMPTED" => pc = "reset" \/ r \in preempted
        /\ status[r] # "PREEMPTED" => computed[r] > 0

\* num_waiting_for_streaming_input counts the sessions that wait.
StreamingReqs == {r \in Unfinished : status[r] = "WAITING_FOR_STREAMING_REQ"}
StreamingInv == numWaitingStreaming = Cardinality(StreamingReqs)

\* The pool's blocks: each is free or one request's.
OwnedBy(own, r) == {b \in 1..NumBlocks : own[b] = r}
PoolInv ==
  \E own \in [1..NumBlocks -> Requests \cup {NoReq}] :
     /\ freeBlocks = Cardinality(OwnedBy(own, NoReq))
     /\ \A r \in Requests : blocks[r] = Cardinality(OwnedBy(own, r))

IInv == /\ TypeOK /\ AtRest /\ QueueInv /\ StoppedInv /\ SamplesInv /\ NewcomersInv
        /\ LengthInv /\ SessionInv /\ ChunksInv /\ LongInv /\ TransferInv /\ PlanInv
        /\ PrevInv /\ StreamingInv /\ PoolInv /\ ComputedTokensHaveBlocks /\ BlocksReclaimed

------------------------------------------------------------------------------
(* Types.                                                                   *)

LEMMA InitTypes == Init => TypeOK
BY SchedulerAssumption DEF Init, TypeOK, NoBatch, Batches, Statuses, QueuedStatuses

\* What \div returns.
LEMMA Quotient ==
  ASSUME NEW a \in Nat, NEW b \in Nat \ {0}
  PROVE  a \div b \in Nat /\ b * (a \div b) <= a /\ a < b * (a \div b) + b
OBVIOUS

LEMMA BlocksForNat ==
  ASSUME NEW n \in Nat
  PROVE  BlocksFor(n) \in Nat
BY SchedulerAssumption DEF BlocksFor

\* More tokens need no fewer blocks, and no tokens need none.
LEMMA BlocksForMonotone ==
  ASSUME NEW m \in Nat, NEW n \in Nat, m <= n
  PROVE  BlocksFor(m) <= BlocksFor(n)
<1>1. BlockSize \in Nat \ {0}
  BY SchedulerAssumption
<1> DEFINE p == BlocksFor(m)
           q == BlocksFor(n)
<1>2. /\ p \in Nat /\ BlockSize * p <= m + BlockSize - 1
      /\ q \in Nat /\ n + BlockSize - 1 < BlockSize * q + BlockSize
  <2>1. m + BlockSize - 1 \in Nat /\ n + BlockSize - 1 \in Nat
    BY <1>1
  <2> QED BY <1>1, <2>1, Quotient DEF BlocksFor
<1> HIDE DEF p, q
<1>3. SUFFICES ASSUME q < p PROVE FALSE
  BY <1>2 DEF p, q
<1>4. BlockSize * (q + 1) <= BlockSize * p
  BY <1>1, <1>2, <1>3
<1>5. BlockSize * (q + 1) = BlockSize * q + BlockSize
  BY <1>1, <1>2
<1> QED BY <1>1, <1>2, <1>4, <1>5

LEMMA BlocksForZero == BlocksFor(0) = 0
<1>1. BlockSize \in Nat \ {0}
  BY SchedulerAssumption
<1>2. BlocksFor(0) \in Nat /\ BlockSize * BlocksFor(0) <= BlockSize - 1
  <2>1. 0 + BlockSize - 1 = BlockSize - 1 /\ BlockSize - 1 \in Nat
    BY <1>1
  <2> QED BY <1>1, <2>1, Quotient DEF BlocksFor
<1>3. ASSUME BlocksFor(0) >= 1 PROVE FALSE
  <2>1. BlockSize * 1 <= BlockSize * BlocksFor(0)
    BY <1>1, <1>2, <1>3
  <2> QED BY <1>1, <1>2, <2>1
<1> QED BY <1>2, <1>3

\* The head of the queue is popped; the queue it was in keeps the others.
LEMMA PopTypes ==
  ASSUME TypeOK, waiting # <<>> \/ skipped # <<>>
  PROVE  /\ HeadQueue \in Seq(Requests) /\ HeadQueue # <<>>
         /\ HeadIndex(HeadQueue) \in 1..Len(HeadQueue)
         /\ Candidate \in Requests
         /\ PopCandidate => waiting' \in Seq(Requests) /\ skipped' \in Seq(Requests)
<1>1. waiting \in Seq(Requests) /\ skipped \in Seq(Requests)
  BY DEF TypeOK
<1>2. FromSkipped => skipped # <<>>
  BY DEF FromSkipped
<1>3. ~FromSkipped => waiting # <<>>
  BY DEF FromSkipped
<1>4. HeadQueue \in Seq(Requests) /\ HeadQueue # <<>>
  BY <1>1, <1>2, <1>3 DEF HeadQueue
<1>5. HeadIndex(HeadQueue) \in 1..Len(HeadQueue)
  BY <1>4, HeadIndexInQueue
<1>6. Candidate \in Requests
  BY <1>4, <1>5, ElementOfSeq DEF Candidate
<1>7. ASSUME PopCandidate
      PROVE  waiting' \in Seq(Requests) /\ skipped' \in Seq(Requests)
  <2>1. CASE FromSkipped
    BY <1>1, <1>5, <1>7, <2>1, RemoveAtShifts DEF PopCandidate, HeadQueue
  <2>2. CASE ~FromSkipped
    BY <1>1, <1>5, <1>7, <2>2, RemoveAtShifts DEF PopCandidate, HeadQueue
  <2> QED BY <2>1, <2>2
<1> QED BY <1>4, <1>5, <1>6, <1>7

------------------------------------------------------------------------------
(* The pool of KV blocks.                                                   *)

LEMMA SubsetOfSize ==
  ASSUME NEW S, IsFiniteSet(S), NEW k \in Nat, k <= Cardinality(S)
  PROVE  \E T \in SUBSET S : IsFiniteSet(T) /\ Cardinality(T) = k
<1>1. Cardinality(S) \in Nat /\ ExistsBijection(1..Cardinality(S), S)
  BY FS_CardinalityType
<1>2. PICK f : f \in Bijection(1..Cardinality(S), S)
  BY <1>1 DEF ExistsBijection
<1> DEFINE T == {f[i] : i \in 1..k}
           g == [i \in 1..k |-> f[i]]
<1>3. 1..k \subseteq 1..Cardinality(S)
  BY <1>1
<1>4. /\ f \in [1..Cardinality(S) -> S]
      /\ \A i, j \in 1..Cardinality(S) : f[i] = f[j] => i = j
  BY <1>2 DEF Bijection, Injection, IsInjective
<1>5. T \in SUBSET S
  BY <1>3, <1>4
<1>6. g \in Bijection(1..k, T)
  BY <1>3, <1>4 DEF Bijection, Injection, Surjection, IsInjective
<1>7. ExistsBijection(1..k, T)
  BY <1>6 DEF ExistsBijection
<1>8. IsFiniteSet(T)
  BY <1>5, FS_Subset
<1>9. Cardinality(T) = k
  BY <1>7, FS_CountingElements
<1> QED BY <1>5, <1>8, <1>9

LEMMA OwnedFinite ==
  ASSUME NEW own, NEW r
  PROVE  /\ IsFiniteSet(OwnedBy(own, r)) /\ Cardinality(OwnedBy(own, r)) \in Nat
         /\ OwnedBy(own, r) \in SUBSET (1..NumBlocks)
<1>1. IsFiniteSet(1..NumBlocks)
  BY SchedulerAssumption, FS_Interval
<1>2. OwnedBy(own, r) \in SUBSET (1..NumBlocks)
  BY DEF OwnedBy
<1> QED BY <1>1, <1>2, FS_Subset, FS_CardinalityType

\* Two owners have no block in common, so together they have at most the pool.
LEMMA OwnersApart ==
  ASSUME NEW own, NEW r, NEW s, r # s
  PROVE  /\ OwnedBy(own, r) \cap OwnedBy(own, s) = {}
         /\ Cardinality(OwnedBy(own, r) \cup OwnedBy(own, s))
              = Cardinality(OwnedBy(own, r)) + Cardinality(OwnedBy(own, s))
         /\ Cardinality(OwnedBy(own, r)) + Cardinality(OwnedBy(own, s)) <= NumBlocks
<1> DEFINE A == OwnedBy(own, r)
           B == OwnedBy(own, s)
<1>1. A \cap B = {}
  BY DEF OwnedBy
<1>2. /\ IsFiniteSet(A) /\ Cardinality(A) \in Nat /\ A \in SUBSET (1..NumBlocks)
      /\ IsFiniteSet(B) /\ Cardinality(B) \in Nat /\ B \in SUBSET (1..NumBlocks)
  BY OwnedFinite
<1> HIDE DEF A, B
<1>3. Cardinality(A \cup B) = Cardinality(A) + Cardinality(B) - Cardinality(A \cap B)
  BY <1>2, FS_Union
<1>4. Cardinality(A \cap B) = 0
  BY <1>1, FS_EmptySet
<1>5. Cardinality(A \cup B) = Cardinality(A) + Cardinality(B)
  BY <1>2, <1>3, <1>4
<1>6. IsFiniteSet(1..NumBlocks) /\ Cardinality(1..NumBlocks) = NumBlocks
  BY SchedulerAssumption, FS_Interval
<1>7. A \cup B \in SUBSET (1..NumBlocks)
  BY <1>2
<1>8. Cardinality(A \cup B) <= Cardinality(1..NumBlocks)
  BY <1>6, <1>7, FS_Subset
<1> QED BY <1>1, <1>5, <1>6, <1>8 DEF A, B

LEMMA InitPool == Init => PoolInv
<1> SUFFICES ASSUME Init PROVE PoolInv
  OBVIOUS
<1> DEFINE own == [b \in 1..NumBlocks |-> NoReq]
<1>1. own \in [1..NumBlocks -> Requests \cup {NoReq}]
  OBVIOUS
<1>2. OwnedBy(own, NoReq) = 1..NumBlocks /\ \A r \in Requests : OwnedBy(own, r) = {}
  BY SchedulerAssumption DEF OwnedBy
<1>3. Cardinality(1..NumBlocks) = NumBlocks
  BY SchedulerAssumption, FS_Interval
<1>4. Cardinality({}) = 0
  BY FS_EmptySet
<1>5. freeBlocks = NumBlocks /\ \A r \in Requests : blocks[r] = 0
  BY DEF Init
<1> HIDE DEF own
<1> QED BY <1>1, <1>2, <1>3, <1>4, <1>5 DEF PoolInv

LEMMA FreeKeepsPool ==
  ASSUME TypeOK, PoolInv, NEW r \in Requests, Free(r)
  PROVE  /\ PoolInv'
         /\ freeBlocks' \in 0..NumBlocks /\ blocks' \in [Requests -> Nat]
<1>1. PICK own \in [1..NumBlocks -> Requests \cup {NoReq}] :
         /\ freeBlocks = Cardinality(OwnedBy(own, NoReq))
         /\ \A s \in Requests : blocks[s] = Cardinality(OwnedBy(own, s))
  BY DEF PoolInv
<1> DEFINE own2 == [b \in 1..NumBlocks |-> IF own[b] = r THEN NoReq ELSE own[b]]
<1>2. own2 \in [1..NumBlocks -> Requests \cup {NoReq}]
  OBVIOUS
<1>3. r # NoReq
  BY SchedulerAssumption
<1>4. OwnedBy(own2, NoReq) = OwnedBy(own, r) \cup OwnedBy(own, NoReq)
  BY DEF OwnedBy
<1>5. OwnedBy(own2, r) = {}
  BY <1>3 DEF OwnedBy
<1>6. \A s \in Requests : s # r => OwnedBy(own2, s) = OwnedBy(own, s)
  BY SchedulerAssumption DEF OwnedBy
<1> HIDE DEF own2
<1>7. /\ Cardinality(OwnedBy(own2, NoReq)) = blocks[r] + freeBlocks
      /\ blocks[r] + freeBlocks <= NumBlocks
  BY <1>1, <1>3, <1>4, OwnersApart
<1>8. Cardinality(OwnedBy(own2, r)) = 0
  BY <1>5, FS_EmptySet
<1>9. /\ blocks' = [blocks EXCEPT ![r] = 0] /\ freeBlocks' = freeBlocks + blocks[r]
      /\ blocks \in [Requests -> Nat] /\ freeBlocks \in Nat
  BY SchedulerAssumption DEF Free, TypeOK
<1>10. freeBlocks' = Cardinality(OwnedBy(own2, NoReq))
  BY <1>7, <1>9
<1>11. ASSUME NEW s \in Requests
       PROVE  blocks'[s] = Cardinality(OwnedBy(own2, s))
  BY <1>1, <1>6, <1>8, <1>9
<1>12. PoolInv'
  BY <1>2, <1>10, <1>11 DEF PoolInv
<1> QED BY <1>7, <1>9, <1>12, SchedulerAssumption

LEMMA AllocateKeepsPool ==
  ASSUME TypeOK, PoolInv, NEW r \in Requests, NEW n \in Nat,
         CanAllocate(r, n), Allocate(r, n)
  PROVE  /\ PoolInv'
         /\ freeBlocks' \in 0..NumBlocks /\ blocks' \in [Requests -> Nat]
<1>1. PICK own \in [1..NumBlocks -> Requests \cup {NoReq}] :
         /\ freeBlocks = Cardinality(OwnedBy(own, NoReq))
         /\ \A s \in Requests : blocks[s] = Cardinality(OwnedBy(own, s))
  BY DEF PoolInv
<1> DEFINE k == Shortage(r, n)
           F == OwnedBy(own, NoReq)
<1>2. k \in Nat /\ k <= freeBlocks /\ freeBlocks \in Nat
  <2>1. BlocksFor(n) \in Nat
    BY BlocksForNat
  <2>2. blocks[r] \in Nat /\ freeBlocks \in Nat
    BY SchedulerAssumption DEF TypeOK
  <2> QED BY <2>1, <2>2 DEF Shortage, CanAllocate
<1>3. IsFiniteSet(F) /\ F \in SUBSET (1..NumBlocks)
  BY OwnedFinite
<1> HIDE DEF k, F
<1>4. PICK T \in SUBSET F : IsFiniteSet(T) /\ Cardinality(T) = k
  BY <1>1, <1>2, <1>3, SubsetOfSize DEF F
<1> DEFINE own2 == [b \in 1..NumBlocks |-> IF b \in T THEN r ELSE own[b]]
<1>5. own2 \in [1..NumBlocks -> Requests \cup {NoReq}]
  OBVIOUS
<1>6. r # NoReq
  BY SchedulerAssumption
<1>7. OwnedBy(own2, NoReq) = F \ T
  BY <1>6 DEF OwnedBy, F
<1>8. OwnedBy(own2, r) = OwnedBy(own, r) \cup T /\ OwnedBy(own, r) \cap T = {}
  BY <1>3, <1>6 DEF OwnedBy, F
<1>9. \A s \in Requests : s # r => OwnedBy(own2, s) = OwnedBy(own, s)
  BY SchedulerAssumption DEF OwnedBy, F
<1> HIDE DEF own2
<1>10. Cardinality(OwnedBy(own2, NoReq)) = freeBlocks - k
  <2>1. Cardinality(F \ T) = Cardinality(F) - Cardinality(F \cap T)
    BY <1>3, FS_Difference
  <2>2. F \cap T = T
    OBVIOUS
  <2> QED BY <1>1, <1>4, <1>7, <2>1, <2>2 DEF F
<1>11. Cardinality(OwnedBy(own2, r)) = blocks[r] + k
  <2>1. IsFiniteSet(OwnedBy(own, r)) /\ Cardinality(OwnedBy(own, r)) \in Nat
    BY OwnedFinite
  <2>2. Cardinality(OwnedBy(own, r) \cup T)
          = Cardinality(OwnedBy(own, r)) + Cardinality(T) - Cardinality(OwnedBy(own, r) \cap T)
    BY <1>4, <2>1, FS_Union
  <2>3. Cardinality(OwnedBy(own, r) \cap T) = 0
    BY <1>8, FS_EmptySet
  <2> QED BY <1>1, <1>2, <1>4, <1>8, <2>1, <2>2, <2>3
<1>12. /\ blocks' = [blocks EXCEPT ![r] = @ + k] /\ freeBlocks' = freeBlocks - k
       /\ blocks \in [Requests -> Nat] /\ freeBlocks \in 0..NumBlocks
  BY DEF Allocate, TypeOK, k
<1>13. ASSUME NEW s \in Requests
       PROVE  blocks'[s] = Cardinality(OwnedBy(own2, s))
  BY <1>1, <1>9, <1>11, <1>12
<1>14. freeBlocks' = Cardinality(OwnedBy(own2, NoReq))
  BY <1>10, <1>12
<1>15. PoolInv'
  BY <1>5, <1>13, <1>14 DEF PoolInv
<1> QED BY <1>2, <1>12, <1>15, SchedulerAssumption

------------------------------------------------------------------------------
(* The steps, and what the helpers they share do.                           *)

\* Steps that leave queues, statuses, tokens, blocks and transfers alone.
Quiet ==
  \/ BeginSchedule \/ SkipRunning \/ PickRunning \/ EndRunningLoop
  \/ LoadDoesNotFit \/ ChunkTooBig \/ NoBlocksLeft
  \/ BeginUpdate \/ EndOutputs \/ EndUpdate \/ BeginReset \/ EndReset
  \/ \E r \in Requests : SkipOutput(r) \/ CompileGrammar(r) \/ SubmitToolResponse(r)
  \/ \E s \in PauseStates : SetPauseState(s)
  \/ UNCHANGED vars

\* Steps that move the candidate of the waiting queues aside.
SkipStep == SkipBlocked \/ SkipForLora \/ SkipForConnector

LEMMA StepCases ==
  ASSUME [Next]_vars
  PROVE  \/ Quiet \/ ScheduleRunning \/ PreemptVictim
         \/ SkipStep \/ PromoteBlocked \/ StartLoad \/ AdmitCandidate \/ FinishSchedule
         \/ RemoveStoppedRunning \/ RemoveStoppedPreempted \/ EndRemoval \/ ResetPreempt
         \/ \E r \in Requests :
               \/ KeepGoing(r) \/ FinishStopped(r) \/ ContinueSession(r)
               \/ AwaitSession(r) \/ CallTool(r)
               \/ FinishedRecving(r) \/ FinishedSending(r)
               \/ AddRequest(r) \/ AbortRequest(r) \/ CloseSession(r) \/ StartNextChunk(r)
               \/ QueueUpdate(r, "chunk") \/ QueueUpdate(r, "end")
BY Zenon DEF Next, ScheduleStep, RunningLoop, WaitingLoop, UpdateStep, OutputStep,
   ResetStep, ClientCall, OtherThread, Quiet, SkipStep

quietVars == <<waiting, skipped, running, stepSkipped, arrived, live, status,
               computed, tokens, prompt, output, everPreempted, streamQueue,
               numWaitingStreaming, updatesLeft, blocks, freeBlocks, sched,
               preempted, newReqs, resumedReqs, stoppedRunning, stoppedPreempted,
               finishedIds, toolAsked, activePauses, loading, sending, finishedRecving>>

LEMMA QuietFrame ==
  ASSUME Quiet
  PROVE  UNCHANGED quietVars
<1> USE DEF quietVars, queueVars, idVars, tokenVars, sessionVars, kvVars, stepVars,
            updateVars, hookVars, workerVars
<1>1. CASE BeginSchedule \/ SkipRunning \/ PickRunning \/ EndRunningLoop
  BY <1>1 DEF BeginSchedule, SkipRunning, PickRunning, EndRunningLoop
<1>2. CASE LoadDoesNotFit \/ ChunkTooBig \/ NoBlocksLeft
  BY <1>2 DEF LoadDoesNotFit, ChunkTooBig, NoBlocksLeft, BreakWaiting
<1>3. CASE BeginUpdate \/ EndOutputs \/ EndUpdate \/ BeginReset \/ EndReset
  BY <1>3 DEF BeginUpdate, EndOutputs, EndUpdate, BeginReset, EndReset
<1>4. ASSUME NEW r \in Requests, SkipOutput(r) \/ CompileGrammar(r) \/ SubmitToolResponse(r)
      PROVE  UNCHANGED quietVars
  BY <1>4 DEF SkipOutput, CompileGrammar, SubmitToolResponse
<1>5. ASSUME NEW s \in PauseStates, SetPauseState(s)
      PROVE  UNCHANGED quietVars
  BY <1>5 DEF SetPauseState
<1>6. CASE UNCHANGED vars
  BY <1>6 DEF vars
<1> QED BY <1>1, <1>2, <1>3, <1>4, <1>5, <1>6 DEF Quiet

\* The request is done with: it waits for no sample any more.
LEMMA DoneWithSample ==
  ASSUME TypeOK, NEW r \in Requests, DoneWith(r)
  PROVE  /\ batch' \in Batches
         /\ batch'.pos[r] = 0
         /\ \A s \in Requests : s # r => batch'.pos[s] = batch.pos[s]
<1>1. batch \in [pos : [Requests -> Nat], chunks : SUBSET Requests]
  BY DEF TypeOK, Batches
<1>2. /\ batch'.pos = [batch.pos EXCEPT ![r] = 0] /\ batch'.chunks = batch.chunks \ {r}
      /\ batch' = [pos |-> [batch.pos EXCEPT ![r] = 0], chunks |-> batch.chunks \ {r}]
  BY <1>1 DEF DoneWith
<1> QED BY <1>1, <1>2 DEF Batches

LEMMA EnqueueTypes ==
  ASSUME TypeOK, NEW r \in Requests, NEW s, EnqueueWaitingRequest(r, s)
  PROVE  waiting' \in Seq(Requests) /\ skipped' \in Seq(Requests)
<1>1. waiting \in Seq(Requests) /\ skipped \in Seq(Requests)
  BY DEF TypeOK
<1>2. CASE IsBlockedWaiting(s)
  BY <1>1, <1>2, AppendProperties DEF EnqueueWaitingRequest
<1>3. CASE ~IsBlockedWaiting(s)
  BY <1>1, <1>3, AppendProperties DEF EnqueueWaitingRequest
<1> QED BY <1>2, <1>3

LEMMA FreeRequestTypes ==
  ASSUME TypeOK, PoolInv, NEW r \in Requests, NEW delay, FreeRequest(r, delay)
  PROVE  /\ finishedIds' \subseteq Requests /\ sending' \subseteq Requests
         /\ live' \subseteq arrived /\ live' \subseteq live
         /\ blocks' \in [Requests -> Nat] /\ freeBlocks' \in 0..NumBlocks
<1>1. /\ finishedIds \subseteq Requests /\ sending \subseteq Requests /\ live \subseteq arrived
      /\ blocks \in [Requests -> Nat] /\ freeBlocks \in 0..NumBlocks
  BY DEF TypeOK
<1>2. /\ finishedIds' = finishedIds \cup {r}
      /\ sending' = sending \/ sending' = sending \cup {r}
      /\ \/ blocks' = blocks /\ freeBlocks' = freeBlocks /\ live' = live
         \/ Free(r) /\ live' = live \ {r}
  BY DEF FreeRequest, kvVars
<1>3. CASE blocks' = blocks /\ freeBlocks' = freeBlocks /\ live' = live
  BY <1>1, <1>2, <1>3
<1>4. CASE Free(r) /\ live' = live \ {r}
  BY <1>1, <1>2, <1>4, FreeKeepsPool
<1> QED BY <1>2, <1>3, <1>4

LEMMA PreemptTypes ==
  ASSUME TypeOK, PoolInv, NEW r \in Requests, PreemptRequest(r)
  PROVE  /\ status' \in [Requests -> Statuses] /\ computed' \in [Requests -> Nat]
         /\ everPreempted' \subseteq Requests /\ waiting' \in Seq(Requests)
         /\ blocks' \in [Requests -> Nat] /\ freeBlocks' \in 0..NumBlocks
<1>1. blocks' \in [Requests -> Nat] /\ freeBlocks' \in 0..NumBlocks
  BY FreeKeepsPool DEF PreemptRequest
<1>2. waiting' \in Seq(Requests)
  BY PrependMembers DEF PreemptRequest, Prepend, TypeOK
<1>3. status' \in [Requests -> Statuses] /\ computed' \in [Requests -> Nat]
  BY DEF PreemptRequest, TypeOK, Statuses, QueuedStatuses
<1>4. everPreempted' \subseteq Requests
  BY DEF PreemptRequest, TypeOK
<1> QED BY <1>1, <1>2, <1>3, <1>4

LEMMA LeaveQueuesTypes ==
  ASSUME TypeOK, QueueInv, NEW r \in Requests, LeaveQueues(r)
  PROVE  waiting' \in Seq(Requests) /\ skipped' \in Seq(Requests) /\ running' \in Seq(Requests)
BY WithoutMembers DEF TypeOK, QueueInv, LeaveQueues

------------------------------------------------------------------------------
(* Who is scheduled next, and with how many tokens.                         *)

LEMMA RunningAgrees ==
  ASSUME IInv, pc \notin {"update", "remove"}
  PROVE  /\ Members(running) = RunningReqs
         /\ Len(running) \in Nat
         /\ \A i \in 1..Len(running) : running[i] \in RunningReqs /\ running[i] \in Requests
<1>1. Members(running) = RunningReqs
  BY DEF IInv, AtRest, QueueInv
<1>2. running \in Seq(Requests)
  BY DEF IInv, TypeOK
<1>3. Len(running) \in Nat /\ \A i \in 1..Len(running) : running[i] \in Requests
  BY <1>2, ElementOfSeq, LenProperties
<1> QED BY <1>1, <1>3 DEF Members

LEMMA CandidateQueued ==
  ASSUME IInv, InWaitingLoop
  PROVE  /\ Candidate \in Requests /\ Candidate \in QueuedReqs
         /\ \/ FromSkipped /\ Candidate \in Members(skipped)
            \/ ~FromSkipped /\ Candidate \in Members(waiting)
         /\ pc = "waiting" /\ budget > 0 /\ preempted = {}
         /\ stoppedRunning = {} /\ stoppedPreempted = {}
<1>1. /\ pc = "waiting" /\ budget > 0 /\ (waiting # <<>> \/ skipped # <<>>)
      /\ TypeOK /\ QueueInv /\ AtRest
  BY DEF IInv, InWaitingLoop
<1>2. preempted = {} /\ stoppedRunning = {} /\ stoppedPreempted = {}
  BY <1>1 DEF AtRest
<1>3. HeadIndex(HeadQueue) \in 1..Len(HeadQueue) /\ Candidate \in Requests
  BY <1>1, PopTypes
<1>4. Candidate \in Members(HeadQueue)
  BY <1>3 DEF Candidate, Members
<1>5. \/ FromSkipped /\ Candidate \in Members(skipped)
      \/ ~FromSkipped /\ Candidate \in Members(waiting)
  BY <1>4 DEF HeadQueue
<1>6. Candidate \in QueuedReqs
  BY <1>1, <1>2, <1>5 DEF QueueInv
<1> QED BY <1>1, <1>2, <1>3, <1>5, <1>6

LEMMA CappedBounds ==
  ASSUME NEW n \in Nat
  PROVE  Capped(n) \in Nat /\ Capped(n) <= n /\ (n > 0 => Capped(n) > 0)
BY SchedulerAssumption DEF Capped

\* With no sample to wait for, a running request is not as long as a model can be.
LEMMA RunnersFit ==
  ASSUME IInv, InRunningPhase, NEW r \in RunningReqs
  PROVE  tokens[r] < MaxModelLen
<1>1. r \in Unfinished /\ r \in Requests /\ status[r] = "RUNNING"
  BY DEF RunningReqs, Unfinished, IInv, TypeOK
<1>2. tokens[r] \in Nat /\ MaxModelLen \in Nat
  BY <1>1, SchedulerAssumption DEF IInv, TypeOK
<1>3. ~(tokens[r] >= MaxModelLen)
  <2> SUFFICES ASSUME tokens[r] >= MaxModelLen PROVE FALSE
    OBVIOUS
  <2>1. MaxInFlight = 1 /\ AwaitsSample(r)
    BY <1>1 DEF IInv, LongInv, InRunningPhase
  <2>2. batch.pos[r] = 0
    BY <1>1 DEF IInv, AtRest, InRunningPhase
  <2>3. Len(inflight) < 1 /\ Len(inflight) \in Nat
    BY <2>1, LenProperties DEF IInv, SamplesInv, InflightInv, TypeOK, InRunningPhase, Planning
  <2> QED BY <2>1, <2>2, <2>3 DEF AwaitsSample
<1> QED BY <1>2, <1>3

LEMMA NextToRun ==
  ASSUME IInv, InRunningLoop, NEW r, r = running[reqIndex]
  PROVE  /\ r \in Requests /\ r \in RunningReqs /\ sched[r] = 0
         /\ NumNewTokens(r) \in Nat /\ NumNewTokens(r) <= budget
         /\ computed[r] + NumNewTokens(r) <= tokens[r]
         /\ tokens[r] < MaxModelLen
<1>1. pc = "running" /\ reqIndex <= Len(running) /\ budget > 0
  BY DEF InRunningLoop
<1>2. reqIndex \in Nat /\ budget \in Int /\ computed \in [Requests -> Nat]
      /\ tokens \in [Requests -> Nat] /\ sched \in [Requests -> Nat]
  BY DEF IInv, TypeOK
<1>3. /\ reqIndex >= 1
      /\ \A j \in 1..Len(running) : sched[running[j]] > 0 => j < reqIndex
  BY <1>1 DEF IInv, PlanInv, InRunningPhase
<1>4. Len(running) \in Nat /\ \A i \in 1..Len(running) : running[i] \in RunningReqs /\ running[i] \in Requests
  BY <1>1, RunningAgrees
<1>5. reqIndex \in 1..Len(running)
  BY <1>1, <1>2, <1>3, <1>4
<1>6. r \in Requests /\ r \in RunningReqs /\ ~(sched[r] > 0)
  BY <1>2, <1>3, <1>4, <1>5
<1>7. /\ computed[r] \in Nat /\ tokens[r] \in Nat /\ sched[r] = 0
  BY <1>2, <1>6
<1>8. tokens[r] < MaxModelLen /\ computed[r] + sched[r] <= tokens[r]
  BY <1>1, <1>6, RunnersFit DEF IInv, LengthInv, RunningReqs, InRunningPhase
<1>9. tokens[r] - computed[r] \in Nat /\ MaxModelLen \in Nat
      /\ MaxModelLen - 1 - computed[r] \in Nat
  BY <1>7, <1>8, SchedulerAssumption
<1>10. Capped(tokens[r] - computed[r]) \in Nat /\ Capped(tokens[r] - computed[r]) <= tokens[r] - computed[r]
  BY <1>9, CappedBounds
<1>11. /\ NumNewTokens(r) \in Nat /\ NumNewTokens(r) <= budget
       /\ NumNewTokens(r) <= Capped(tokens[r] - computed[r])
  <2> DEFINE c == Capped(tokens[r] - computed[r])
             m == MaxModelLen - 1 - computed[r]
  <2>1. c \in Nat /\ m \in Nat /\ budget \in Nat
    BY <1>1, <1>2, <1>9, <1>10
  <2>2. NumNewTokens(r) = Least(Least(c, budget), m)
    BY DEF NumNewTokens
  <2> HIDE DEF c, m
  <2>3. NumNewTokens(r) \in Nat /\ NumNewTokens(r) <= budget /\ NumNewTokens(r) <= c
    BY <2>1, <2>2 DEF Least
  <2> QED BY <2>3 DEF c
<1> QED BY <1>6, <1>7, <1>8, <1>10, <1>11

LEMMA NextToAdmit ==
  ASSUME IInv, Schedulable
  PROVE  /\ status[Candidate] \in {"WAITING", "PREEMPTED"}
         /\ Candidate \in Unfinished
         /\ computed[Candidate] \in Nat /\ tokens[Candidate] \in Nat /\ prompt[Candidate] \in Nat
         /\ sched[Candidate] = 0
         /\ prompt[Candidate] > 0 /\ prompt[Candidate] <= tokens[Candidate]
         /\ computed[Candidate] < tokens[Candidate]
<1>1. InWaitingLoop /\ ~IsBlockedWaiting(status[Candidate])
  BY DEF Schedulable
<1>2. Candidate \in Requests /\ Candidate \in QueuedReqs
  BY <1>1, CandidateQueued
<1>3. status[Candidate] \in {"WAITING", "PREEMPTED"} /\ Candidate \in Unfinished
  BY <1>1, <1>2 DEF QueuedReqs, QueuedStatuses, IsBlockedWaiting
<1>4. computed[Candidate] \in Nat /\ tokens[Candidate] \in Nat /\ prompt[Candidate] \in Nat
      /\ output[Candidate] \in Nat /\ sched[Candidate] \in Nat
  BY <1>2 DEF IInv, TypeOK
<1>5. Candidate \notin Scheduled
  BY <1>3 DEF IInv, PlanInv, RunningReqs
<1>6. sched[Candidate] = 0
  BY <1>2, <1>4, <1>5 DEF Scheduled
<1>7. /\ tokens[Candidate] = prompt[Candidate] + output[Candidate] /\ prompt[Candidate] > 0
      /\ computed[Candidate] < tokens[Candidate]
  BY <1>2, <1>3 DEF IInv, LengthInv
<1> QED BY <1>3, <1>4, <1>6, <1>7

LEMMA TokensToAdmit ==
  ASSUME IInv, Schedulable, NEW hit \in SyncHits
  PROVE  /\ Start(hit) \in Nat /\ computed[Candidate] <= Start(hit)
         /\ Wanted(hit) \in Nat /\ Granted(hit) \in Nat /\ Granted(hit) > 0
         /\ Granted(hit) <= budget
         /\ Start(hit) + Granted(hit) <= tokens[Candidate]
<1>1. /\ computed[Candidate] \in Nat /\ tokens[Candidate] \in Nat /\ prompt[Candidate] \in Nat
      /\ prompt[Candidate] > 0 /\ prompt[Candidate] <= tokens[Candidate]
      /\ computed[Candidate] < tokens[Candidate]
  BY NextToAdmit
<1>2. budget > 0 /\ budget \in Int
  BY CandidateQueued DEF Schedulable, IInv, TypeOK
<1>3. hit \in Nat /\ (hit = 0 \/ hit = prompt[Candidate] - 1)
  BY <1>1 DEF SyncHits
<1>4. Start(hit) \in Nat /\ Start(hit) < tokens[Candidate] /\ computed[Candidate] <= Start(hit)
  BY <1>1, <1>3 DEF Start
<1>5. tokens[Candidate] - Start(hit) \in Nat /\ tokens[Candidate] - Start(hit) > 0
  BY <1>1, <1>4
<1>6. Wanted(hit) \in Nat /\ Wanted(hit) > 0 /\ Wanted(hit) <= tokens[Candidate] - Start(hit)
  BY <1>5, CappedBounds DEF Wanted
<1>7. Granted(hit) \in Nat /\ Granted(hit) > 0 /\ Granted(hit) <= budget
      /\ Granted(hit) <= Wanted(hit)
  BY <1>2, <1>6 DEF Granted, Least
<1> QED BY <1>1, <1>4, <1>5, <1>6, <1>7

------------------------------------------------------------------------------
(* Types.                                                                   *)

LEMMA QuietTypes ==
  ASSUME IInv, Quiet
  PROVE  TypeOK'
<1>t. TypeOK
  BY DEF IInv
<1> USE SchedulerAssumption DEF queueVars, idVars, tokenVars, sessionVars, kvVars,
    stepVars, updateVars, hookVars, workerVars
<1>1. CASE BeginSchedule
  <2>1. pc' = "running" /\ reqIndex' \in Nat /\ budget' \in Int
    BY <1>1 DEF BeginSchedule
  <2> QED BY <1>t, <1>1, <2>1 DEF TypeOK, BeginSchedule
<1>2. CASE SkipRunning
  <2>1. reqIndex' \in Nat
    BY <1>t, <1>2 DEF SkipRunning, TypeOK
  <2> QED BY <1>t, <1>2, <2>1 DEF TypeOK, SkipRunning
<1>3. CASE PickRunning
  <2>1. cur' \in Requests /\ numNew' \in Nat /\ pc' = "alloc"
    BY <1>3, NextToRun DEF PickRunning
  <2> QED BY <1>t, <1>3, <2>1 DEF TypeOK, PickRunning
<1>4. CASE EndRunningLoop
  <2>1. pc' \in {"waiting", "output"}
    BY <1>4 DEF EndRunningLoop
  <2> QED BY <1>t, <1>4, <2>1 DEF TypeOK, EndRunningLoop
<1>5. CASE LoadDoesNotFit \/ ChunkTooBig \/ NoBlocksLeft
  <2>1. BreakWaiting
    BY <1>5 DEF LoadDoesNotFit, ChunkTooBig, NoBlocksLeft
  <2> QED BY <1>t, <2>1 DEF TypeOK, BreakWaiting
<1>6. CASE BeginUpdate
  <2>1. batch' \in Batches /\ inflight' \in Seq(Batches) /\ pc' = "update"
    BY <1>t, <1>6, HeadTailProperties DEF BeginUpdate, TypeOK
  <2> QED BY <1>t, <1>6, <2>1 DEF TypeOK, BeginUpdate
<1>7. CASE EndOutputs \/ EndUpdate \/ BeginReset
  <2>1. pc' \in {"remove", "idle", "reset"}
    BY <1>7 DEF EndOutputs, EndUpdate, BeginReset
  <2> QED BY <1>t, <1>7, <2>1 DEF TypeOK, EndOutputs, EndUpdate, BeginReset
<1>8. CASE EndReset
  <2>1. pc' = "idle" /\ prevScheduled' = {}
    BY <1>8 DEF EndReset, PrevAfterReset
  <2> QED BY <1>t, <1>8, <2>1 DEF TypeOK, EndReset
<1>9. ASSUME NEW r \in Requests, SkipOutput(r)
      PROVE  TypeOK'
  <2>1. batch' \in Batches
    BY <1>t, <1>9, DoneWithSample DEF SkipOutput
  <2> QED BY <1>t, <1>9, <2>1 DEF TypeOK, SkipOutput
<1>10. ASSUME NEW r \in Requests, CompileGrammar(r)
       PROVE  TypeOK'
  <2>1. grammarReady' \subseteq Requests
    BY <1>t, <1>10 DEF CompileGrammar, TypeOK
  <2> QED BY <1>t, <1>10, <2>1 DEF TypeOK, CompileGrammar
<1>11. ASSUME NEW r \in Requests, SubmitToolResponse(r)
       PROVE  TypeOK'
  <2>1. toolWaits' \subseteq Requests /\ toolResponses' \subseteq Requests
    BY <1>t, <1>11 DEF SubmitToolResponse, TypeOK
  <2> QED BY <1>t, <1>11, <2>1 DEF TypeOK, SubmitToolResponse
<1>12. ASSUME NEW s \in PauseStates, SetPauseState(s)
       PROVE  TypeOK'
  <2>1. pauseState' \in {"UNPAUSED", "PAUSED_NEW", "PAUSED_ALL"}
    BY <1>12 DEF SetPauseState
  <2> QED BY <1>t, <1>12, <2>1 DEF TypeOK, SetPauseState
<1>13. CASE UNCHANGED vars
  BY <1>t, <1>13 DEF TypeOK, vars
<1> QED BY <1>1, <1>2, <1>3, <1>4, <1>5, <1>6, <1>7, <1>8, <1>9, <1>10, <1>11,
           <1>12, <1>13 DEF Quiet

LEMMA PlanTypes ==
  ASSUME IInv,
         ScheduleRunning \/ PreemptVictim \/ SkipStep \/ PromoteBlocked \/ StartLoad
           \/ AdmitCandidate \/ FinishSchedule
  PROVE  TypeOK'
<1>t. TypeOK /\ PoolInv
  BY DEF IInv
<1> USE SchedulerAssumption DEF queueVars, idVars, tokenVars, sessionVars, kvVars,
    stepVars, updateVars, hookVars, workerVars
<1>1. CASE ScheduleRunning
  <2>1. cur \in Requests /\ numNew \in Nat /\ computed[cur] \in Nat /\ pc = "alloc"
    BY <1>t, <1>1 DEF ScheduleRunning, IInv, PlanInv, RunningReqs, Unfinished, TypeOK
  <2>2. Least(computed[cur] + numNew, MaxModelLen) \in Nat
    BY <2>1 DEF Least
  <2>3. blocks' \in [Requests -> Nat] /\ freeBlocks' \in 0..NumBlocks
    BY <1>t, <1>1, <2>1, <2>2, AllocateKeepsPool DEF ScheduleRunning, CurFits
  <2>4. sched' \in [Requests -> Nat] /\ budget' \in Int /\ reqIndex' \in Nat
    BY <1>t, <1>1, <2>1 DEF ScheduleRunning, TypeOK
  <2>5. pc' = "running" /\ cur' = NoReq /\ numNew' = 0
    BY <1>1 DEF ScheduleRunning
  <2>6. UNCHANGED <<queueVars, idVars, status, tokenVars, everPreempted, sessionVars,
                    preempted, newReqs, resumedReqs, stepSkipped, updateVars,
                    prevScheduled, finishedIds, pauseState, inflight, grammarReady,
                    hookVars, workerVars>>
    BY <1>1 DEF ScheduleRunning
  <2> QED BY <1>t, <2>3, <2>4, <2>5, <2>6 DEF TypeOK
<1>2. CASE PreemptVictim
  <2>1. PICK i \in 1..Len(running) :
          /\ PreemptRequest(running[i])
          /\ running' = RemoveAt(running, i)
          /\ preempted' = preempted \cup {running[i]}
          /\ \/ IsScheduled(running[i]) /\ budget' = budget + sched[running[i]]
                /\ sched' = [sched EXCEPT ![running[i]] = 0] /\ reqIndex' = reqIndex - 1
             \/ budget' = budget /\ sched' = sched /\ reqIndex' = reqIndex
          /\ \/ pc' = "post" /\ cur' = NoReq /\ numNew' = 0
             \/ pc' = pc /\ cur' = cur /\ numNew' = numNew
    BY <1>2, Zenon DEF PreemptVictim
  <2>2. pc = "alloc"
    BY <1>2 DEF PreemptVictim
  <2>3. running[i] \in Requests /\ Len(running) \in Nat
    BY <2>2, RunningAgrees
  <2>4. /\ status' \in [Requests -> Statuses] /\ computed' \in [Requests -> Nat]
        /\ everPreempted' \subseteq Requests /\ waiting' \in Seq(Requests)
        /\ blocks' \in [Requests -> Nat] /\ freeBlocks' \in 0..NumBlocks
    BY <1>t, <2>1, <2>3, PreemptTypes
  <2>5. running' \in Seq(Requests) /\ preempted' \subseteq Requests
    <3>1. running \in Seq(Requests) /\ preempted \subseteq Requests
      BY <1>t DEF TypeOK
    <3>2. RemoveAt(running, i) \in Seq(Requests)
      BY <3>1, RemoveAtShifts
    <3> QED BY <2>1, <2>3, <3>1, <3>2
  <2>6. budget' \in Int /\ sched' \in [Requests -> Nat]
    <3>1. budget \in Int /\ sched \in [Requests -> Nat] /\ sched[running[i]] \in Nat
      BY <1>t, <2>3 DEF TypeOK
    <3>2. \/ budget' = budget + sched[running[i]] \/ budget' = budget
      BY <2>1
    <3>3. \/ sched' = [sched EXCEPT ![running[i]] = 0] \/ sched' = sched
      BY <2>1
    <3>4. budget' \in Int
      BY <3>1, <3>2
    <3>5. sched' \in [Requests -> Nat]
      <4>1. CASE sched' = [sched EXCEPT ![running[i]] = 0]
        BY <3>1, <4>1
      <4>2. CASE sched' = sched
        BY <3>1, <4>2
      <4> QED BY <3>3, <4>1, <4>2
    <3> QED BY <3>4, <3>5
  <2>7. reqIndex' \in Nat
    <3>1. reqIndex \in Nat /\ (sched[running[i]] > 0 => i < reqIndex)
      BY <1>t, <2>2 DEF TypeOK, IInv, PlanInv, InRunningPhase
    <3> QED BY <2>1, <2>3, <3>1 DEF IsScheduled
  <2>8. pc' \in {"alloc", "post"} /\ cur' \in Requests \cup {NoReq} /\ numNew' \in Nat
    <3>1. cur \in Requests \cup {NoReq} /\ numNew \in Nat
      BY <1>t DEF TypeOK
    <3> QED BY <2>1, <2>2, <3>1
  <2> QED BY <1>t, <1>2, <2>4, <2>5, <2>6, <2>7, <2>8 DEF TypeOK, PreemptVictim
<1>3. CASE SkipStep
  <2>1. SkipCandidate /\ InWaitingLoop
    BY <1>3 DEF SkipStep, SkipBlocked, SkipForLora, SkipForConnector, Schedulable
  <2>2. waiting' \in Seq(Requests) /\ skipped' \in Seq(Requests) /\ Candidate \in Requests
    BY <1>t, <2>1, PopTypes DEF SkipCandidate, InWaitingLoop
  <2>3. stepSkipped' \in Seq(Requests)
    BY <1>t, <2>1, <2>2, AppendProperties DEF SkipCandidate, TypeOK
  <2> QED BY <1>t, <2>1, <2>2, <2>3 DEF TypeOK, SkipCandidate
<1>4. CASE PromoteBlocked
  <2>1. Candidate \in Requests
    BY <1>4, CandidateQueued DEF PromoteBlocked
  <2>2. status' \in [Requests -> Statuses]
    BY <1>t, <1>4, <2>1 DEF PromoteBlocked, TypeOK, Statuses, QueuedStatuses
  <2>3. computed' \in [Requests -> Nat]
    <3>1. /\ tokens[Candidate] \in Nat /\ prompt[Candidate] \in Nat /\ output[Candidate] \in Nat
          /\ computed \in [Requests -> Nat]
      BY <1>t, <2>1 DEF TypeOK
    <3>2. tokens[Candidate] = prompt[Candidate] + output[Candidate] /\ prompt[Candidate] > 0
      BY <2>1 DEF IInv, LengthInv
    <3>3. \/ computed' = computed
          \/ /\ computed[Candidate] = tokens[Candidate]
             /\ computed' = [computed EXCEPT ![Candidate] = @ - 1]
      BY <1>4 DEF PromoteBlocked
    <3>4. computed[Candidate] = tokens[Candidate] => computed[Candidate] - 1 \in Nat
      BY <3>1, <3>2
    <3> QED BY <2>1, <3>1, <3>3, <3>4
  <2>4. finishedRecving' \subseteq Requests /\ activePauses' \subseteq Requests
        /\ toolResponses' \subseteq Requests
    BY <1>t, <1>4 DEF PromoteBlocked, TypeOK, ResponsesAfterResume
  <2> QED BY <1>t, <1>4, <2>2, <2>3, <2>4 DEF TypeOK, PromoteBlocked
<1>5. CASE StartLoad
  <2>1. Schedulable /\ InWaitingLoop /\ PopCandidate
    BY <1>5 DEF StartLoad, Schedulable
  <2>2. Candidate \in Requests /\ waiting' \in Seq(Requests) /\ skipped' \in Seq(Requests)
    BY <1>t, <2>1, PopTypes DEF InWaitingLoop
  <2>3. prompt[Candidate] \in Nat
    BY <1>t, <2>2 DEF TypeOK
  <2>4. blocks' \in [Requests -> Nat] /\ freeBlocks' \in 0..NumBlocks
    BY <1>t, <1>5, <2>2, <2>3, AllocateKeepsPool DEF StartLoad, Fits
  <2>5. status' \in [Requests -> Statuses] /\ computed' \in [Requests -> Nat]
    BY <1>t, <1>5, <2>2, <2>3 DEF StartLoad, TypeOK, Statuses, QueuedStatuses, BlockedStatuses
  <2>6. stepSkipped' \in Seq(Requests) /\ loading' \subseteq Requests
    BY <1>t, <1>5, <2>2, AppendProperties DEF StartLoad, TypeOK
  <2> QED BY <1>t, <1>5, <2>2, <2>4, <2>5, <2>6 DEF TypeOK, StartLoad
<1>6. CASE AdmitCandidate
  <2>1. Schedulable /\ InWaitingLoop /\ PopCandidate
    BY <1>6 DEF AdmitCandidate, Schedulable
  <2>2. Candidate \in Requests /\ waiting' \in Seq(Requests) /\ skipped' \in Seq(Requests)
    BY <1>t, <2>1, PopTypes DEF InWaitingLoop
  <2>3. PICK hit \in SyncHits :
          /\ Fits(Candidate, Start(hit) + Granted(hit))
          /\ Allocate(Candidate, Start(hit) + Granted(hit))
          /\ running' = Append(running, Candidate)
          /\ \/ newReqs' = newReqs \cup {Candidate} /\ resumedReqs' = resumedReqs
             \/ resumedReqs' = resumedReqs \cup {Candidate} /\ newReqs' = newReqs
          /\ sched' = [sched EXCEPT ![Candidate] = Granted(hit)]
          /\ budget' = budget - Granted(hit)
          /\ status' = [status EXCEPT ![Candidate] = "RUNNING"]
          /\ computed' = [computed EXCEPT ![Candidate] = Start(hit)]
    BY <1>6, Zenon DEF AdmitCandidate
  <2>4. Start(hit) \in Nat /\ Granted(hit) \in Nat
    BY <2>1, TokensToAdmit
  <2>5. blocks' \in [Requests -> Nat] /\ freeBlocks' \in 0..NumBlocks
    BY <1>t, <2>2, <2>3, <2>4, AllocateKeepsPool DEF Fits
  <2>6. /\ status' \in [Requests -> Statuses] /\ computed' \in [Requests -> Nat]
        /\ sched' \in [Requests -> Nat] /\ budget' \in Int
    <3>1. /\ status \in [Requests -> Statuses] /\ computed \in [Requests -> Nat]
          /\ sched \in [Requests -> Nat] /\ budget \in Int
      BY <1>t DEF TypeOK
    <3>2. status' \in [Requests -> Statuses]
      BY <2>2, <2>3, <3>1 DEF Statuses
    <3>3. computed' \in [Requests -> Nat] /\ sched' \in [Requests -> Nat]
      BY <2>2, <2>3, <2>4, <3>1
    <3>4. budget' \in Int
      BY <2>3, <2>4, <3>1
    <3> QED BY <3>2, <3>3, <3>4
  <2>7. running' \in Seq(Requests) /\ newReqs' \subseteq Requests /\ resumedReqs' \subseteq Requests
    BY <1>t, <2>2, <2>3, AppendProperties DEF TypeOK
  <2> QED BY <1>t, <1>6, <2>2, <2>5, <2>6, <2>7 DEF TypeOK, AdmitCandidate
<1>7. CASE FinishSchedule
  <2>1. skipped' \in Seq(Requests) /\ stepSkipped' \in Seq(Requests)
    BY <1>t, <1>7, ConcatProperties, EmptySeq DEF FinishSchedule, TypeOK
  <2>2. NewBatch \in Batches
    BY <1>t DEF NewBatch, Batches, Scheduled, TypeOK
  <2>3. inflight' \in Seq(Batches)
    BY <1>t, <1>7, <2>2, AppendProperties DEF FinishSchedule, TypeOK
  <2>4. computed' \in [Requests -> Nat] /\ sched' \in [Requests -> Nat]
    <3>1. /\ computed \in [Requests -> Nat] /\ sched \in [Requests -> Nat]
          /\ computed' = [r \in Requests |-> computed[r] + sched[r]]
          /\ sched' = [r \in Requests |-> 0]
      BY <1>t, <1>7 DEF FinishSchedule, ComputedAfterSchedule, TypeOK
    <3> QED BY <3>1
  <2>5. /\ prevScheduled' \subseteq Requests /\ finishedIds' \subseteq Requests
        /\ preempted' \subseteq Requests /\ newReqs' \subseteq Requests
        /\ resumedReqs' \subseteq Requests
        /\ pc' = "idle" /\ reqIndex' \in Nat /\ budget' \in Int
    BY <1>7 DEF FinishSchedule, Scheduled
  <2>6. UNCHANGED <<waiting, running, idVars, status, tokens, prompt, output,
                    everPreempted, sessionVars, kvVars, cur, numNew, updateVars,
                    pauseState, grammarReady, hookVars, workerVars>>
    BY <1>7 DEF FinishSchedule
  <2> QED BY <1>t, <2>1, <2>3, <2>4, <2>5, <2>6 DEF TypeOK
<1> QED BY <1>1, <1>2, <1>3, <1>4, <1>5, <1>6, <1>7

LEMMA AppendTokenTypes ==
  ASSUME TypeOK, NEW r \in Requests, AppendToken(r)
  PROVE  tokens' \in [Requests -> Nat] /\ output' \in [Requests -> Nat]
<1>1. tokens \in [Requests -> Nat] /\ output \in [Requests -> Nat]
  BY DEF TypeOK
<1> QED BY <1>1 DEF AppendToken

LEMMA MarkStoppedTypes ==
  ASSUME TypeOK, NEW r \in Requests, MarkStopped(r)
  PROVE  stoppedRunning' \subseteq Requests /\ stoppedPreempted' \subseteq Requests
BY DEF TypeOK, MarkStopped

LEMMA SessionTypes ==
  ASSUME TypeOK, LengthInv, NEW r \in Requests, NEW len \in Nat, len >= tokens[r],
         UpdateRequestAsSession(r, len)
  PROVE  /\ tokens' \in [Requests -> Nat] /\ prompt' \in [Requests -> Nat]
         /\ output' \in [Requests -> Nat] /\ status' \in [Requests -> Statuses]
<1> DEFINE kept == IF computed[r] > prompt[r] THEN Least(computed[r], len) - prompt[r] ELSE 0
<1>1. /\ tokens \in [Requests -> Nat] /\ prompt \in [Requests -> Nat]
      /\ output \in [Requests -> Nat] /\ status \in [Requests -> Statuses]
      /\ computed[r] \in Nat /\ prompt[r] \in Nat /\ tokens[r] \in Nat /\ output[r] \in Nat
  BY DEF TypeOK
<1>2. tokens[r] = prompt[r] + output[r]
  BY DEF LengthInv
<1>3. Least(computed[r], len) \in Nat /\ kept \in Nat
  BY <1>1, <1>2 DEF Least
<1>4. /\ tokens' = [tokens EXCEPT ![r] = Least(computed[r], len) + 1]
      /\ prompt' = [prompt EXCEPT ![r] = @ + kept + 1]
      /\ output' = [output EXCEPT ![r] = 0]
      /\ status' = [status EXCEPT ![r] = "WAITING"]
  BY DEF UpdateRequestAsSession
<1> HIDE DEF kept
<1>5. tokens' \in [Requests -> Nat] /\ prompt' \in [Requests -> Nat]
  BY <1>1, <1>3, <1>4
<1>6. output' \in [Requests -> Nat] /\ status' \in [Requests -> Statuses]
  BY <1>1, <1>4 DEF Statuses, QueuedStatuses
<1> QED BY <1>5, <1>6

LEMMA UpdateTypes ==
  ASSUME IInv, NEW r \in Requests,
         KeepGoing(r) \/ FinishStopped(r) \/ ContinueSession(r) \/ AwaitSession(r)
           \/ CallTool(r) \/ FinishedRecving(r) \/ FinishedSending(r)
  PROVE  TypeOK'
<1>t. TypeOK /\ PoolInv /\ LengthInv
  BY DEF IInv
<1>s. /\ status \in [Requests -> Statuses] /\ tokens[r] \in Nat
      /\ streamQueue \in [Requests -> Seq({"chunk", "end"})]
  BY <1>t DEF TypeOK
<1> USE SchedulerAssumption DEF queueVars, idVars, tokenVars, sessionVars, kvVars,
    stepVars, updateVars, hookVars, workerVars
<1>1. CASE KeepGoing(r)
  <2>1. tokens' \in [Requests -> Nat] /\ output' \in [Requests -> Nat] /\ batch' \in Batches
    BY <1>t, <1>1, AppendTokenTypes, DoneWithSample DEF KeepGoing
  <2> QED BY <1>t, <1>1, <2>1 DEF TypeOK, KeepGoing
<1>2. CASE FinishStopped(r)
  <2>1. tokens' \in [Requests -> Nat] /\ output' \in [Requests -> Nat] /\ batch' \in Batches
        /\ stoppedRunning' \subseteq Requests /\ stoppedPreempted' \subseteq Requests
    BY <1>t, <1>2, AppendTokenTypes, DoneWithSample, MarkStoppedTypes DEF FinishStopped
  <2>2. /\ finishedIds' \subseteq Requests /\ sending' \subseteq Requests /\ live' \subseteq arrived
        /\ blocks' \in [Requests -> Nat] /\ freeBlocks' \in 0..NumBlocks
    BY <1>t, <1>2, FreeRequestTypes DEF FinishStopped
  <2>3. PICK s \in StopStatuses(r) :
           /\ \/ streamQueue' = streamQueue
              \/ streamQueue[r] # <<>> /\ streamQueue' = [streamQueue EXCEPT ![r] = Tail(@)]
           /\ status' = [status EXCEPT ![r] = s]
    BY <1>2, Zenon DEF FinishStopped
  <2>4. status' \in [Requests -> Statuses]
    BY <1>s, <2>3 DEF StopStatuses, Statuses, FinishedStatuses
  <2>5. streamQueue' \in [Requests -> Seq({"chunk", "end"})]
    <3>1. CASE streamQueue[r] # <<>> /\ streamQueue' = [streamQueue EXCEPT ![r] = Tail(@)]
      <4>1. Tail(streamQueue[r]) \in Seq({"chunk", "end"})
        BY <1>s, <3>1, HeadTailProperties
      <4> QED BY <1>s, <3>1, <4>1
    <3> QED BY <1>s, <2>3, <3>1
  <2>6. UNCHANGED <<queueVars, arrived, computed, prompt, everPreempted,
                    numWaitingStreaming, updatesLeft, pc, stepVars, prevScheduled,
                    pauseState, inflight, grammarReady, hookVars, loading,
                    finishedRecving>>
    BY <1>2 DEF FinishStopped
  <2> QED BY <1>t, <2>1, <2>2, <2>4, <2>5, <2>6 DEF TypeOK
<1>3. CASE ContinueSession(r)
  <2>1. tokens[r] + 1 \in Nat /\ tokens[r] + 1 >= tokens[r]
    BY <1>s
  <2>2. /\ tokens' \in [Requests -> Nat] /\ prompt' \in [Requests -> Nat]
        /\ output' \in [Requests -> Nat] /\ status' \in [Requests -> Statuses]
    BY <1>t, <1>3, <2>1, SessionTypes DEF ContinueSession
  <2>3. /\ waiting' \in Seq(Requests) /\ skipped' \in Seq(Requests) /\ batch' \in Batches
        /\ stoppedRunning' \subseteq Requests /\ stoppedPreempted' \subseteq Requests
    BY <1>t, <1>3, EnqueueTypes, DoneWithSample, MarkStoppedTypes DEF ContinueSession
  <2>4. streamQueue' \in [Requests -> Seq({"chunk", "end"})]
    BY <1>s, <1>3, HeadTailProperties DEF ContinueSession
  <2>5. UNCHANGED <<running, idVars, computed, everPreempted, numWaitingStreaming,
                    updatesLeft, kvVars, pc, stepVars, prevScheduled, finishedIds,
                    pauseState, inflight, grammarReady, hookVars, workerVars>>
    BY <1>3 DEF ContinueSession
  <2> QED BY <1>t, <2>2, <2>3, <2>4, <2>5 DEF TypeOK
<1>4. CASE AwaitSession(r)
  <2>1. /\ waiting' \in Seq(Requests) /\ skipped' \in Seq(Requests) /\ batch' \in Batches
        /\ stoppedRunning' \subseteq Requests /\ stoppedPreempted' \subseteq Requests
        /\ tokens' \in [Requests -> Nat] /\ output' \in [Requests -> Nat]
    BY <1>t, <1>4, EnqueueTypes, DoneWithSample, MarkStoppedTypes, AppendTokenTypes
       DEF AwaitSession
  <2>2. status' \in [Requests -> Statuses]
    BY <1>s, <1>4 DEF AwaitSession, Statuses, QueuedStatuses, BlockedStatuses
  <2>3. numWaitingStreaming' \in Int
    BY <1>t, <1>4 DEF AwaitSession, TypeOK
  <2>4. UNCHANGED <<running, idVars, computed, prompt, everPreempted, streamQueue,
                    updatesLeft, kvVars, pc, stepVars, prevScheduled, finishedIds,
                    pauseState, inflight, grammarReady, hookVars, workerVars>>
    BY <1>4 DEF AwaitSession
  <2> QED BY <1>t, <2>1, <2>2, <2>3, <2>4 DEF TypeOK
<1>5. CASE CallTool(r)
  <2>1. /\ waiting' \in Seq(Requests) /\ skipped' \in Seq(Requests) /\ batch' \in Batches
        /\ stoppedRunning' \subseteq Requests /\ stoppedPreempted' \subseteq Requests
        /\ tokens' \in [Requests -> Nat] /\ output' \in [Requests -> Nat]
    BY <1>t, <1>5, EnqueueTypes, DoneWithSample, MarkStoppedTypes, AppendTokenTypes
       DEF CallTool
  <2>2. status' \in [Requests -> Statuses]
    BY <1>s, <1>5 DEF CallTool, Statuses, QueuedStatuses, BlockedStatuses
  <2>3. /\ toolAsked' \in [Requests -> Nat] /\ toolWaits' \subseteq Requests
        /\ activePauses' \subseteq Requests
    <3>1. /\ toolAsked \in [Requests -> Nat] /\ toolWaits \subseteq Requests
          /\ activePauses \subseteq Requests
      BY <1>t DEF TypeOK
    <3>2. /\ toolAsked' = [toolAsked EXCEPT ![r] = @ + 1]
          /\ toolWaits' = toolWaits \cup {r} /\ activePauses' = activePauses \cup {r}
      BY <1>5 DEF CallTool
    <3> QED BY <3>1, <3>2
  <2>4. UNCHANGED <<running, idVars, computed, prompt, everPreempted, sessionVars,
                    kvVars, pc, stepVars, prevScheduled, finishedIds, pauseState,
                    inflight, grammarReady, toolResponses, workerVars>>
    BY <1>5 DEF CallTool
  <2> QED BY <1>t, <2>1, <2>2, <2>3, <2>4 DEF TypeOK
<1>6. CASE FinishedRecving(r)
  <2>1. /\ \/ UNCHANGED <<kvVars, live>>
           \/ Free(r) /\ live' = live \ {r}
        /\ finishedRecving' \in {finishedRecving, finishedRecving \cup {r}}
        /\ loading' = loading \ {r}
    BY <1>6 DEF FinishedRecving, LoadEnds
  <2>2. /\ blocks' \in [Requests -> Nat] /\ freeBlocks' \in 0..NumBlocks /\ live' \subseteq arrived
    <3>1. blocks \in [Requests -> Nat] /\ freeBlocks \in 0..NumBlocks /\ live \subseteq arrived
      BY <1>t DEF TypeOK
    <3>2. CASE UNCHANGED <<kvVars, live>>
      BY <3>1, <3>2
    <3>3. CASE Free(r) /\ live' = live \ {r}
      BY <1>t, <3>1, <3>3, FreeKeepsPool
    <3> QED BY <2>1, <3>2, <3>3
  <2>3. finishedRecving' \subseteq Requests /\ loading' \subseteq Requests
    BY <1>t, <2>1 DEF TypeOK
  <2> QED BY <1>t, <1>6, <2>2, <2>3 DEF TypeOK, FinishedRecving
<1>7. CASE FinishedSending(r)
  <2>1. /\ Free(r) /\ live' = live \ {r} /\ sending' = sending \ {r}
    BY <1>7 DEF FinishedSending
  <2>2. /\ blocks' \in [Requests -> Nat] /\ freeBlocks' \in 0..NumBlocks
        /\ live' \subseteq arrived /\ sending' \subseteq Requests
    BY <1>t, <2>1, FreeKeepsPool DEF TypeOK
  <2> QED BY <1>t, <1>7, <2>2 DEF TypeOK, FinishedSending
<1> QED BY <1>1, <1>2, <1>3, <1>4, <1>5, <1>6, <1>7

LEMMA FinishRequestTypes ==
  ASSUME TypeOK, PoolInv, QueueInv, NEW r \in Requests, FinishRequest(r),
         streamQueue' \in [Requests -> Seq({"chunk", "end"})],
         updatesLeft' \in [Requests -> Nat]
  PROVE  TypeOK'
<1> USE SchedulerAssumption DEF queueVars, idVars, tokenVars, sessionVars, kvVars,
    stepVars, updateVars, hookVars, workerVars
<1>1. waiting' \in Seq(Requests) /\ skipped' \in Seq(Requests) /\ running' \in Seq(Requests)
  BY LeaveQueuesTypes DEF FinishRequest
<1>2. /\ finishedIds' \subseteq Requests /\ sending' \subseteq Requests /\ live' \subseteq arrived
      /\ blocks' \in [Requests -> Nat] /\ freeBlocks' \in 0..NumBlocks
  BY FreeRequestTypes DEF FinishRequest
<1>3. status' \in [Requests -> Statuses]
  <2>1. status \in [Requests -> Statuses]
    BY DEF TypeOK
  <2> QED BY <2>1 DEF FinishRequest, Statuses, FinishedStatuses
<1>4. numWaitingStreaming' \in Int /\ finishedRecving' \subseteq Requests
  <2>1. numWaitingStreaming \in Int /\ finishedRecving \subseteq Requests
    BY DEF TypeOK
  <2> QED BY <2>1 DEF FinishRequest, OneLessStreaming
<1>5. UNCHANGED <<arrived, tokenVars, everPreempted, pc, stepVars, updateVars,
                  prevScheduled, pauseState, inflight, grammarReady, hookVars, loading>>
  BY DEF FinishRequest
<1> QED BY <1>1, <1>2, <1>3, <1>4, <1>5 DEF TypeOK

LEMMA CallTypes ==
  ASSUME IInv, NEW r \in Requests,
         AddRequest(r) \/ AbortRequest(r) \/ CloseSession(r) \/ StartNextChunk(r)
           \/ QueueUpdate(r, "chunk") \/ QueueUpdate(r, "end")
  PROVE  TypeOK'
<1>t. TypeOK /\ PoolInv /\ QueueInv /\ LengthInv
  BY DEF IInv
<1>s. /\ status \in [Requests -> Statuses] /\ tokens[r] \in Nat
      /\ streamQueue \in [Requests -> Seq({"chunk", "end"})]
      /\ updatesLeft \in [Requests -> Nat] /\ numWaitingStreaming \in Int
      /\ arrived \subseteq Requests /\ live \subseteq arrived
  BY <1>t DEF TypeOK
<1> USE SchedulerAssumption DEF queueVars, idVars, tokenVars, sessionVars, kvVars,
    stepVars, updateVars, hookVars, workerVars
<1>1. CASE AddRequest(r)
  <2>1. waiting' \in Seq(Requests) /\ skipped' \in Seq(Requests)
    BY <1>t, <1>1, EnqueueTypes DEF AddRequest
  <2>2. /\ status' \in [Requests -> Statuses]
        /\ arrived' \subseteq Requests /\ live' \subseteq arrived'
    BY <1>s, <1>1 DEF AddRequest, Statuses, QueuedStatuses, BlockedStatuses
  <2>3. UNCHANGED <<running, tokenVars, everPreempted, sessionVars, kvVars, pc,
                    stepVars, updateVars, prevScheduled, finishedIds, pauseState,
                    inflight, grammarReady, hookVars, workerVars>>
    BY <1>1 DEF AddRequest
  <2> QED BY <1>t, <2>1, <2>2, <2>3 DEF TypeOK
<1>2. CASE AbortRequest(r)
  BY <1>t, <1>s, <1>2, FinishRequestTypes DEF AbortRequest
<1>3. CASE CloseSession(r)
  <2>1. updatesLeft' \in [Requests -> Nat]
    BY <1>s, <1>3 DEF CloseSession
  <2> QED BY <1>t, <1>s, <1>3, <2>1, FinishRequestTypes DEF CloseSession
<1>4. CASE StartNextChunk(r)
  <2>1. /\ tokens' \in [Requests -> Nat] /\ prompt' \in [Requests -> Nat]
        /\ output' \in [Requests -> Nat] /\ status' \in [Requests -> Statuses]
    <3>1. PICK len \in Nat : len >= tokens[r] /\ UpdateRequestAsSession(r, len)
      BY <1>t, <1>s, <1>4 DEF StartNextChunk
    <3> QED BY <1>t, <1>s, <3>1, SessionTypes
  <2>2. numWaitingStreaming' \in Int
    BY <1>s, <1>4 DEF StartNextChunk, OneLessStreaming
  <2>3. updatesLeft' \in [Requests -> Nat]
    BY <1>s, <1>4 DEF StartNextChunk
  <2> QED BY <1>t, <1>4, <2>1, <2>2, <2>3 DEF TypeOK, StartNextChunk
<1>5. ASSUME NEW u \in {"chunk", "end"}, QueueUpdate(r, u)
      PROVE  TypeOK'
  <2>1. Append(streamQueue[r], u) \in Seq({"chunk", "end"})
    BY <1>s, AppendProperties
  <2>2. streamQueue' \in [Requests -> Seq({"chunk", "end"})]
    BY <1>s, <1>5, <2>1 DEF QueueUpdate
  <2>3. updatesLeft' \in [Requests -> Nat]
    BY <1>s, <1>5 DEF QueueUpdate
  <2> QED BY <1>t, <1>5, <2>2, <2>3 DEF TypeOK, QueueUpdate
<1> QED BY <1>1, <1>2, <1>3, <1>4, <1>5

LEMMA StepTypes ==
  ASSUME IInv, [Next]_vars
  PROVE  TypeOK'
<1>t. TypeOK /\ PoolInv
  BY DEF IInv
<1> USE SchedulerAssumption DEF queueVars, idVars, tokenVars, sessionVars, kvVars,
    stepVars, updateVars, hookVars, workerVars
<1>1. CASE RemoveStoppedRunning
  <2>1. running' \in Seq(Requests)
    BY <1>t, <1>1, RemoveAtShifts DEF RemoveStoppedRunning, TypeOK
  <2> QED BY <1>t, <1>1, <2>1 DEF TypeOK, RemoveStoppedRunning
<1>2. CASE RemoveStoppedPreempted
  <2>1. waiting' \in Seq(Requests)
    BY <1>t, <1>2, RemoveAtShifts DEF RemoveStoppedPreempted, TypeOK
  <2> QED BY <1>t, <1>2, <2>1 DEF TypeOK, RemoveStoppedPreempted
<1>3. CASE EndRemoval
  <2>1. pc' = "kv" /\ stoppedRunning' \subseteq Requests /\ stoppedPreempted' \subseteq Requests
    BY <1>3 DEF EndRemoval
  <2> QED BY <1>t, <1>3, <2>1 DEF TypeOK, EndRemoval
<1>4. CASE ResetPreempt
  <2>1. pc = "reset" /\ running # <<>> /\ PreemptRequest(running[Len(running)])
        /\ running' = RemoveAt(running, Len(running))
    BY <1>4 DEF ResetPreempt
  <2>2. running \in Seq(Requests) /\ Len(running) \in 1..Len(running)
    BY <1>t, <2>1, EmptySeq DEF TypeOK
  <2>3. running[Len(running)] \in Requests /\ running' \in Seq(Requests)
    BY <2>1, <2>2, ElementOfSeq, RemoveAtShifts
  <2>4. /\ status' \in [Requests -> Statuses] /\ computed' \in [Requests -> Nat]
        /\ everPreempted' \subseteq Requests /\ waiting' \in Seq(Requests)
        /\ blocks' \in [Requests -> Nat] /\ freeBlocks' \in 0..NumBlocks
    BY <1>t, <2>1, <2>3, PreemptTypes
  <2>5. UNCHANGED <<skipped, idVars, tokens, prompt, output, sessionVars, pc, stepVars,
                    updateVars, prevScheduled, finishedIds, pauseState, inflight,
                    grammarReady, hookVars, workerVars>>
    BY <1>4 DEF ResetPreempt
  <2> QED BY <1>t, <2>3, <2>4, <2>5 DEF TypeOK
<1> QED BY <1>1, <1>2, <1>3, <1>4, StepCases, QuietTypes, PlanTypes, UpdateTypes, CallTypes

==============================================================================
