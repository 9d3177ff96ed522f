----------------------------- MODULE RequestQueue -----------------------------
(***************************************************************************)
(* The request queues the scheduler builds with create_request_queue, as   *)
(* sequences.  An FCFS queue is a deque: its head is its first element.  A *)
(* PRIORITY queue is a heap: its head is its least element in the order of *)
(* Request.__lt__, wherever it was inserted.                               *)
(***************************************************************************)
EXTENDS Naturals, Sequences

CONSTANTS Requests,   \* request ids
          Policy,     \* scheduling policy
          Rank        \* Rank[r]: place of r in the order of Request.__lt__

ASSUME QueueAssumption ==
  /\ Policy \in {"FCFS", "PRIORITY"}
  /\ Rank \in [Requests -> Nat]
  /\ \A r, s \in Requests : r # s => Rank[r] # Rank[s]

RemoveAt(q, i) == SubSeq(q, 1, i - 1) \o SubSeq(q, i + 1, Len(q))

Members(q) == {q[i] : i \in 1..Len(q)}

NoDuplicates(q) == \A i, j \in 1..Len(q) : q[i] = q[j] => i = j

\* Index of the element peek_request returns and pop_request removes.
HeadIndex(q) ==
  IF Policy = "FCFS" THEN 1
  ELSE CHOOSE i \in 1..Len(q) : \A j \in 1..Len(q) : Rank[q[i]] <= Rank[q[j]]

\* remove_requests, for a request that is at most once in the queue.
Without(q, r) ==
  IF \E i \in 1..Len(q) : q[i] = r
  THEN RemoveAt(q, CHOOSE i \in 1..Len(q) : q[i] = r)
  ELSE q
==============================================================================
