---------------------------- MODULE EdmmHook_proofs ----------------------------
(***************************************************************************)
(* Theorems about EdmmHook, for any number of requests, handles, tokens    *)
(* and tool calls: the types, who owns a physical handle, that none is     *)
(* forgotten, and that the hook implements ToolPause.                      *)
(***************************************************************************)
EXTENDS EdmmHook, TLAPS

\* While the engine thread is between its decision and its critical section it
\* works on a request.
EngineHasRequest == engineOp \in {"pausing", "resuming"} => engineReq \in Requests

TypeInv == TypeOK /\ EngineHasRequest

\* Handles nobody has created yet are in no final place either: what makes
\* HandleOwnership survive GetActivePause.
FreshHandles == unallocated \cap (dropped \cup failed \cup lost) = {}

OwnerInv == TypeInv /\ HandleOwnership /\ FreshHandles

------------------------------------------------------------------------------
(* Types.                                                                   *)

LEMMA InitTypeInv == Init => TypeInv
BY HookAssumption DEF Init, TypeInv, TypeOK, EngineHasRequest, Decisions, Threads

\* The critical section of cleanup_request keeps the types, whoever runs it.
LEMMA PopKeepsTypes ==
  ASSUME TypeOK, NEW r \in Requests, NEW t \in Threads, PopForCleanup(r, t)
  PROVE  /\ activePauses' \subseteq Requests
         /\ handlesOf' \in [Requests -> SUBSET Handles]
         /\ decisionOf' \in [Requests -> Decisions]
         /\ toolResponses' \subseteq Requests
         /\ releasing' \in [Threads -> SUBSET Handles]
         /\ toAppend' \in [Requests -> SUBSET Handles]
         /\ lateAppend' \in [Threads -> SUBSET Handles]
BY DEF TypeOK, Decisions, PopForCleanup, PopResponse

\* So does leaving a release loop.
LEMMA LeaveKeepsTypes ==
  ASSUME TypeOK, NEW t \in Threads, LeaveLoop(t)
  PROVE  /\ releasing' \in [Threads -> SUBSET Handles]
         /\ toAppend' \in [Requests -> SUBSET Handles]
         /\ lateAppend' \in [Threads -> SUBSET Handles]
         /\ unallocated' \subseteq Handles /\ released' \subseteq Handles
         /\ dropped' \subseteq Handles /\ failed' \subseteq Handles
         /\ lost' \subseteq Handles
BY DEF TypeOK, LeaveLoop

\* No step leaves the types.
LEMMA StepTypeInv == TypeInv /\ [Next]_vars => TypeInv'
<1> SUFFICES ASSUME TypeInv, [Next]_vars PROVE TypeInv'
  OBVIOUS
<1> USE DEF TypeInv, EngineHasRequest
<1>1. ASSUME NEW r \in Requests, ProcessOutput(r) PROVE TypeInv'
  <2>1. PICK sentinel \in BOOLEAN :
          LET since == IF sentinel THEN 0
                       ELSE IF sinceSentinel[r] < Window THEN sinceSentinel[r] + 1
                       ELSE Window
          IN /\ calls' = IF sentinel THEN [calls EXCEPT ![r] = @ + 1] ELSE calls
             /\ sinceSentinel' = [sinceSentinel EXCEPT ![r] = since]
             /\ IF ShouldPauseForToolCall(since)
                THEN /\ engineOp' = "pausing"
                     /\ engineReq' = r
                     /\ engineDecision' \in Decisions
                     /\ blocked' = blocked \cup {r}
                ELSE UNCHANGED <<engineOp, engineReq, engineDecision, blocked>>
    BY <1>1 DEF ProcessOutput
  <2>2. tokens' \in [Requests -> Nat] /\ calls' \in [Requests -> Nat]
    BY <1>1, <2>1 DEF ProcessOutput, TypeOK
  <2>3. sinceSentinel' \in [Requests -> Nat]
    BY <2>1, HookAssumption DEF TypeOK
  <2>4. /\ engineOp' \in {"idle", "pausing", "resuming", "cleaning"}
        /\ engineReq' \in Requests \cup {NoReq}
        /\ engineDecision' \in Decisions
        /\ blocked' \subseteq Requests
        /\ EngineHasRequest'
    BY <2>1 DEF TypeOK
  <2> QED
    BY <1>1, <2>2, <2>3, <2>4
       DEF ProcessOutput, TypeOK, hookVars, workerVars, handleVars
<1>2. CASE OnToolCallPause
  BY <1>2 DEF OnToolCallPause, TypeOK, Decisions, outputVars, callVars
<1>3. CASE OnToolCallResume
  BY <1>3 DEF OnToolCallResume, PopResponse, TypeOK, Decisions, outputVars
<1>4. CASE EngineCleanupDone
  <2>1. Engine \in Threads
    BY DEF Threads
  <2> QED
    BY <1>4, <2>1, LeaveKeepsTypes
       DEF EngineCleanupDone, TypeOK, hookVars, outputVars, callVars
<1>5. ASSUME NEW r \in Requests, IsToolResponseReady(r) PROVE TypeInv'
  BY <1>5 DEF IsToolResponseReady, Answered, TypeOK, hookVars, workerVars, handleVars, outputVars,
              callVars
<1>6. ASSUME NEW r \in Requests, CleanupRequest(r) PROVE TypeInv'
  <2>1. Engine \in Threads
    BY DEF Threads
  <2> QED
    BY <1>6, <2>1, PopKeepsTypes
       DEF CleanupRequest, TypeOK, handleVars, outputVars, callVars
<1>7. CASE CleanupAll
  BY <1>7 DEF CleanupAll, KeysToClean, TypeOK, hookVars, workerVars, handleVars, outputVars,
              callVars
<1>8. ASSUME NEW r \in Requests, CleanupAllNext(r) PROVE TypeInv'
  <2>1. Shutdown \in Threads
    BY DEF Threads
  <2> QED
    BY <1>8, <2>1, PopKeepsTypes
       DEF CleanupAllNext, TypeOK, handleVars, outputVars, callVars
<1>9. ASSUME NEW r \in Requests, SubmitToolResponse(r) PROVE TypeInv'
  BY <1>9 DEF SubmitToolResponse, TypeOK, threadVars, workerVars, handleVars, outputVars
<1>10. ASSUME NEW r \in Requests, NEW h \in Handles,
              GetActivePause(r, h) \/ AppendHandle(r, h)
       PROVE TypeInv'
  BY <1>10 DEF GetActivePause, AppendHandle, TypeOK, hookVars, threadVars, handleVars,
               outputVars, callVars
<1>11. ASSUME NEW t \in Threads, NEW h \in Handles, ReleasePhysicalHandle(t, h)
       PROVE TypeInv'
  BY <1>11 DEF ReleasePhysicalHandle, TypeOK, hookVars, workerVars, outputVars, callVars
<1>12. ASSUME NEW t \in Threads, NEW h \in Handles, AppendLate(t, h) PROVE TypeInv'
  BY <1>12 DEF AppendLate, TypeOK, hookVars, handleVars, outputVars, callVars
<1>13. CASE ShutdownLoopDone
  <2>1. Shutdown \in Threads
    BY DEF Threads
  <2> QED
    BY <1>13, <2>1, LeaveKeepsTypes
       DEF ShutdownLoopDone, TypeOK, hookVars, outputVars, callVars
<1>14. CASE UNCHANGED vars
  BY <1>14 DEF vars, TypeOK, hookVars, threadVars, workerVars, handleVars, outputVars, callVars
<1> QED
  BY <1>1, <1>2, <1>3, <1>4, <1>5, <1>6, <1>7, <1>8, <1>9, <1>10, <1>11, <1>12, <1>13, <1>14
     DEF Next, EngineStep

\* The variables keep their types.
THEOREM TypeCorrect == Spec => []TypeOK
<1>1. TypeInv => TypeOK
  BY DEF TypeInv
<1> QED
  BY <1>1, InitTypeInv, StepTypeInv, PTL DEF Spec

------------------------------------------------------------------------------
(* Ownership of the physical handles.                                       *)

LEMMA InitOwnerInv == Init => OwnerInv
BY InitTypeInv
   DEF OwnerInv, Init, HandleOwnership, RecordsActive, RecordsApart, ThreadsApart,
       LoopsOwn, AppendedOnce, RecordsFresh, LoopsFresh, ReleasedOnce, FreshHandles,
       OfRecord, OfLoop, Threads

\* Popping a record moves its handles from one owner to another.
LEMMA PopKeepsOwners ==
  ASSUME OwnerInv, NEW r \in Requests, NEW t \in Threads, PopForCleanup(r, t),
         UNCHANGED handleVars
  PROVE  HandleOwnership' /\ FreshHandles'
<1>1. /\ activePauses' = activePauses \ {r}
      /\ \A s \in Requests : /\ handlesOf'[s] = IF s = r THEN {} ELSE handlesOf[s]
                             /\ toAppend'[s] = IF s = r THEN {} ELSE toAppend[s]
      /\ \A u \in Threads :
           /\ releasing'[u] = IF u = t THEN handlesOf[r] ELSE releasing[u]
           /\ lateAppend'[u] = IF u = t THEN toAppend[r] ELSE lateAppend[u]
      /\ UNCHANGED <<unallocated, released, dropped, failed, lost>>
  BY DEF OwnerInv, TypeInv, TypeOK, PopForCleanup, PopResponse, handleVars
<1>2. /\ \A s \in Requests : OfRecord(s)' = IF s = r THEN {} ELSE OfRecord(s)
      /\ \A u \in Threads : OfLoop(u)' = IF u = t THEN OfRecord(r) ELSE OfLoop(u)
      /\ Settled' = Settled
  BY <1>1 DEF OfRecord, OfLoop, Settled
<1>3. HandleOwnership /\ FreshHandles
  BY DEF OwnerInv
<1>4. RecordsActive'
  BY <1>1, <1>2, <1>3 DEF HandleOwnership, RecordsActive
<1>5. RecordsApart'
  BY <1>2, <1>3 DEF HandleOwnership, RecordsApart
<1>6. ThreadsApart'
  BY <1>2, <1>3 DEF HandleOwnership, ThreadsApart, LoopsOwn, Threads, Engine, Shutdown
<1>7. LoopsOwn'
  BY <1>2, <1>3 DEF HandleOwnership, LoopsOwn, RecordsApart
<1>8. AppendedOnce'
  BY <1>1, <1>3 DEF HandleOwnership, AppendedOnce
<1>9. RecordsFresh' /\ LoopsFresh'
  BY <1>2, <1>3 DEF HandleOwnership, RecordsFresh, LoopsFresh
<1>10. ReleasedOnce' /\ FreshHandles'
  BY <1>1, <1>3 DEF HandleOwnership, ReleasedOnce, FreshHandles
<1> QED
  BY <1>4, <1>5, <1>6, <1>7, <1>8, <1>9, <1>10 DEF HandleOwnership

\* A speculative worker creates a handle nobody owned for one record.
LEMMA GetKeepsOwners ==
  ASSUME OwnerInv, NEW r \in Requests, NEW h \in Handles, GetActivePause(r, h)
  PROVE  HandleOwnership' /\ FreshHandles'
<1>1. /\ r \in activePauses /\ h \in unallocated
      /\ unallocated' = unallocated \ {h}
      /\ \A s \in Requests :
           toAppend'[s] = IF s = r THEN toAppend[s] \cup {h} ELSE toAppend[s]
      /\ UNCHANGED <<activePauses, handlesOf, releasing, lateAppend, released, dropped,
                     failed, lost>>
  BY DEF OwnerInv, TypeInv, TypeOK, GetActivePause, hookVars, threadVars
<1>2. HandleOwnership /\ FreshHandles
  BY DEF OwnerInv
<1>3. /\ \A s \in Requests : OfRecord(s)' = IF s = r THEN OfRecord(s) \cup {h} ELSE OfRecord(s)
      /\ \A t \in Threads : OfLoop(t)' = OfLoop(t)
  BY <1>1 DEF OfRecord, OfLoop
<1>4. /\ \A s \in Requests : h \notin OfRecord(s)
      /\ \A t \in Threads : h \notin OfLoop(t)
      /\ h \notin released \cup dropped \cup failed \cup lost
  BY <1>1, <1>2
     DEF HandleOwnership, RecordsFresh, LoopsFresh, ReleasedOnce, FreshHandles, Settled
<1>5. RecordsActive'
  BY <1>1, <1>2, <1>3 DEF HandleOwnership, RecordsActive
<1>6. RecordsApart'
  <2>1. ASSUME NEW s \in Requests, NEW t \in Requests, s # t
        PROVE  OfRecord(s)' \cap OfRecord(t)' = {}
    <3>1. OfRecord(s) \cap OfRecord(t) = {}
      BY <1>2, <2>1 DEF HandleOwnership, RecordsApart
    <3>2. h \notin OfRecord(s) /\ h \notin OfRecord(t)
      BY <1>4
    <3>3. /\ OfRecord(s)' = IF s = r THEN OfRecord(s) \cup {h} ELSE OfRecord(s)
          /\ OfRecord(t)' = IF t = r THEN OfRecord(t) \cup {h} ELSE OfRecord(t)
      BY <1>3
    <3> QED BY <2>1, <3>1, <3>2, <3>3
  <2> QED BY <2>1 DEF RecordsApart
<1>7. ThreadsApart' /\ LoopsOwn'
  BY <1>2, <1>3, <1>4 DEF HandleOwnership, ThreadsApart, LoopsOwn, Threads
<1>8. AppendedOnce'
  <2>1. \A s \in Requests : h \notin handlesOf[s]
    BY <1>4 DEF OfRecord
  <2> QED
    BY <1>1, <1>2, <2>1 DEF HandleOwnership, AppendedOnce
<1>9. RecordsFresh'
  <2>1. h \notin Settled' /\ \A x \in Settled' : x \in Settled
    BY <1>1, <1>4 DEF Settled
  <2>2. \A s \in Requests : OfRecord(s) \cap Settled = {}
    BY <1>2 DEF HandleOwnership, RecordsFresh
  <2>3. ASSUME NEW s \in Requests, NEW x \in OfRecord(s)' PROVE x \notin Settled'
    BY <1>3, <2>1, <2>2
  <2> QED
    BY <2>3 DEF RecordsFresh
<1>10. LoopsFresh' /\ ReleasedOnce' /\ FreshHandles'
  BY <1>1, <1>2, <1>3 DEF HandleOwnership, LoopsFresh, ReleasedOnce, FreshHandles, Settled
<1> QED
  BY <1>5, <1>6, <1>7, <1>8, <1>9, <1>10 DEF HandleOwnership

\* Appending does not change the owner, whether the list is still the record's
\* or a release loop goes through it.
LEMMA AppendKeepsOwners ==
  ASSUME OwnerInv, NEW h \in Handles,
         \/ \E r \in Requests : AppendHandle(r, h)
         \/ \E t \in Threads : AppendLate(t, h)
  PROVE  HandleOwnership' /\ FreshHandles'
<1>1. HandleOwnership /\ FreshHandles
  BY DEF OwnerInv
<1> DEFINE SameOwners ==
             /\ UNCHANGED <<activePauses, unallocated, released, dropped, failed, lost>>
             /\ \A s \in Requests : OfRecord(s)' = OfRecord(s)
             /\ \A t \in Threads : OfLoop(t)' = OfLoop(t)
             /\ AppendedOnce'
<1>2. SameOwners
  <2>1. ASSUME NEW r \in Requests, AppendHandle(r, h) PROVE SameOwners
    <3>1. /\ h \in toAppend[r]
          /\ \A s \in Requests :
               /\ handlesOf'[s] = IF s = r THEN handlesOf[s] \cup {h} ELSE handlesOf[s]
               /\ toAppend'[s] = IF s = r THEN toAppend[s] \ {h} ELSE toAppend[s]
          /\ UNCHANGED <<activePauses, releasing, lateAppend, handleVars>>
      BY <2>1 DEF AppendHandle, OwnerInv, TypeInv, TypeOK, threadVars
    <3> QED
      BY <1>1, <3>1 DEF HandleOwnership, AppendedOnce, OfRecord, OfLoop, handleVars
  <2>2. ASSUME NEW t \in Threads, AppendLate(t, h) PROVE SameOwners
    <3>1. /\ h \in lateAppend[t]
          /\ \A u \in Threads :
               /\ releasing'[u] = IF u = t THEN releasing[u] \cup {h} ELSE releasing[u]
               /\ lateAppend'[u] = IF u = t THEN lateAppend[u] \ {h} ELSE lateAppend[u]
          /\ UNCHANGED <<activePauses, handlesOf, toAppend, handleVars>>
      BY <2>2 DEF AppendLate, OwnerInv, TypeInv, TypeOK, hookVars
    <3> QED
      BY <1>1, <3>1 DEF HandleOwnership, AppendedOnce, OfRecord, OfLoop, handleVars
  <2> QED
    BY <2>1, <2>2
<1> QED
  BY <1>1, <1>2
     DEF HandleOwnership, RecordsActive, RecordsApart, ThreadsApart, LoopsOwn,
         RecordsFresh, LoopsFresh, ReleasedOnce, FreshHandles, Settled, Threads

\* A release loop settles handles it alone held: the one it has tried to
\* release, or, when it is left, those that are appended too late.
LEMMA LoopKeepsOwners ==
  ASSUME OwnerInv, NEW t \in Threads, UNCHANGED hookVars,
         LeaveLoop(t) \/ \E h \in Handles : ReleasePhysicalHandle(t, h)
  PROVE  HandleOwnership' /\ FreshHandles'
<1>1. HandleOwnership /\ FreshHandles
  BY DEF OwnerInv
<1> DEFINE Gone == OfLoop(t) \ OfLoop(t)'
<1> DEFINE Settles ==
             /\ OfLoop(t)' \subseteq OfLoop(t)
             /\ \A u \in Threads : u # t => OfLoop(u)' = OfLoop(u)
             /\ AppendedOnce'
             /\ UNCHANGED <<activePauses, handlesOf, toAppend, unallocated, dropped>>
             /\ \/ released' = released \cup Gone /\ UNCHANGED <<failed, lost>>
                \/ failed' = failed \cup Gone /\ UNCHANGED <<released, lost>>
                \/ lost' = lost \cup Gone /\ UNCHANGED <<released, failed>>
<1>2. Settles
  <2>1. CASE LeaveLoop(t)
    <3>1. /\ releasing[t] = {} /\ lost' = lost \cup lateAppend[t]
          /\ \A u \in Threads : lateAppend'[u] = IF u = t THEN {} ELSE lateAppend[u]
          /\ UNCHANGED <<releasing, toAppend, unallocated, released, dropped, failed>>
      BY <2>1 DEF LeaveLoop, OwnerInv, TypeInv, TypeOK
    <3>2. /\ OfLoop(t)' = {} /\ OfLoop(t) = lateAppend[t]
          /\ \A u \in Threads : u # t => OfLoop(u)' = OfLoop(u)
      BY <3>1 DEF OfLoop
    <3>3. AppendedOnce'
      BY <1>1, <3>1 DEF HandleOwnership, AppendedOnce, hookVars
    <3> QED
      BY <3>1, <3>2, <3>3 DEF hookVars
  <2>2. ASSUME NEW h \in Handles, ReleasePhysicalHandle(t, h) PROVE Settles
    <3>1. /\ h \in releasing[t]
          /\ \A u \in Threads :
               releasing'[u] = IF u = t THEN releasing[u] \ {h} ELSE releasing[u]
          /\ \/ released' = released \cup {h} /\ UNCHANGED failed
             \/ failed' = failed \cup {h} /\ UNCHANGED released
          /\ UNCHANGED <<activePauses, handlesOf, toAppend, lateAppend, unallocated,
                         dropped, lost>>
      BY <2>2 DEF ReleasePhysicalHandle, OwnerInv, TypeInv, TypeOK, hookVars, workerVars
    <3>2. h \notin lateAppend[t]
      BY <1>1, <3>1 DEF HandleOwnership, AppendedOnce
    <3>3. OfLoop(t)' = OfLoop(t) \ {h} /\ h \in OfLoop(t)
      BY <3>1, <3>2 DEF OfLoop
    <3>4. AppendedOnce' /\ \A u \in Threads : u # t => OfLoop(u)' = OfLoop(u)
      BY <1>1, <3>1 DEF HandleOwnership, AppendedOnce, OfLoop
    <3>5. Gone = {h}
      BY <3>3
    <3> QED
      BY <3>1, <3>3, <3>4, <3>5
  <2> QED
    BY <2>1, <2>2
<1>3. /\ \A s \in Requests : Gone \cap OfRecord(s) = {}
      /\ \A u \in Threads : u # t => Gone \cap OfLoop(u) = {}
      /\ Gone \cap OfLoop(t)' = {}
      /\ Gone \cap Settled = {}
  BY <1>1 DEF HandleOwnership, LoopsOwn, LoopsFresh, ThreadsApart, Threads
<1>4. /\ \A s \in Requests : OfRecord(s)' = OfRecord(s)
      /\ Settled' = Settled \cup Gone
  BY <1>2 DEF OfRecord, Settled
<1> HIDE DEF Gone
<1>5. RecordsActive' /\ RecordsApart'
  BY <1>1, <1>2, <1>4 DEF HandleOwnership, RecordsActive, RecordsApart
<1>6. ThreadsApart'
  BY <1>1, <1>2 DEF HandleOwnership, ThreadsApart, Threads
<1>7. LoopsOwn'
  BY <1>1, <1>2, <1>4 DEF HandleOwnership, LoopsOwn
<1>8. RecordsFresh'
  BY <1>1, <1>3, <1>4 DEF HandleOwnership, RecordsFresh
<1>9. LoopsFresh'
  BY <1>1, <1>2, <1>3, <1>4 DEF HandleOwnership, LoopsFresh
<1>10. ReleasedOnce' /\ FreshHandles'
  BY <1>1, <1>2, <1>3 DEF HandleOwnership, ReleasedOnce, FreshHandles, Settled
<1> QED
  BY <1>2, <1>5, <1>6, <1>7, <1>8, <1>9, <1>10 DEF HandleOwnership

\* No step gives a handle a second owner.
LEMMA StepOwnerInv == OwnerInv /\ [Next]_vars => OwnerInv'
<1> SUFFICES ASSUME OwnerInv, [Next]_vars PROVE HandleOwnership' /\ FreshHandles'
  BY StepTypeInv DEF OwnerInv
<1> DEFINE Goal == HandleOwnership /\ FreshHandles
<1>1. Goal
  BY DEF OwnerInv
<1>2. CASE UNCHANGED <<activePauses, handlesOf, releasing, workerVars, handleVars>>
  BY <1>1, <1>2
     DEF HandleOwnership, RecordsActive, RecordsApart, ThreadsApart, LoopsOwn, AppendedOnce,
         RecordsFresh, LoopsFresh, ReleasedOnce, FreshHandles, Settled, OfRecord, OfLoop,
         workerVars, handleVars
<1>3. CASE OnToolCallPause \/ OnToolCallResume
  <2>1. /\ engineReq \in Requests
        /\ \A s \in Requests : /\ handlesOf'[s] = IF s = engineReq THEN {} ELSE handlesOf[s]
                               /\ toAppend'[s] = IF s = engineReq THEN {} ELSE toAppend[s]
        /\ activePauses' \cup {engineReq} = activePauses \cup {engineReq}
        /\ dropped' \in {dropped, dropped \cup handlesOf[engineReq]}
        /\ lost' = lost \cup toAppend[engineReq]
        /\ UNCHANGED <<releasing, lateAppend, unallocated, released, failed>>
    BY <1>3 DEF OwnerInv, TypeInv, TypeOK, EngineHasRequest, OnToolCallPause,
                OnToolCallResume, PopResponse
  <2>2. /\ \A s \in Requests : OfRecord(s)' = IF s = engineReq THEN {} ELSE OfRecord(s)
        /\ \A t \in Threads : OfLoop(t)' = OfLoop(t)
        /\ \A x \in Settled' : x \in Settled \/ x \in OfRecord(engineReq)
    BY <2>1 DEF OfRecord, OfLoop, Settled
  <2>3. RecordsActive' /\ RecordsApart' /\ LoopsOwn'
    BY <1>1, <2>1, <2>2 DEF HandleOwnership, RecordsActive, RecordsApart, LoopsOwn
  <2>4. ThreadsApart'
    BY <1>1, <2>2 DEF HandleOwnership, ThreadsApart, Threads
  <2>5. AppendedOnce'
    BY <1>1, <2>1 DEF HandleOwnership, AppendedOnce
  <2>6. RecordsFresh'
    BY <1>1, <2>1, <2>2 DEF HandleOwnership, RecordsFresh, RecordsApart
  <2>7. LoopsFresh'
    BY <1>1, <2>1, <2>2 DEF HandleOwnership, LoopsFresh, LoopsOwn
  <2>8. ReleasedOnce' /\ FreshHandles'
    <3>1. OfRecord(engineReq) \cap Settled = {}
      BY <1>1, <2>1 DEF HandleOwnership, RecordsFresh
    <3> QED
      BY <1>1, <2>1, <3>1
         DEF HandleOwnership, ReleasedOnce, FreshHandles, OfRecord, Settled
  <2> QED
    BY <2>3, <2>4, <2>5, <2>6, <2>7, <2>8 DEF HandleOwnership
<1>4. ASSUME NEW r \in Requests, CleanupRequest(r) \/ CleanupAllNext(r) PROVE Goal'
  BY <1>4, PopKeepsOwners DEF CleanupRequest, CleanupAllNext, Threads
<1>5. CASE EngineCleanupDone \/ ShutdownLoopDone
  BY <1>5, LoopKeepsOwners DEF EngineCleanupDone, ShutdownLoopDone, Threads
<1>6. ASSUME NEW t \in Threads, NEW h \in Handles, ReleasePhysicalHandle(t, h) PROVE Goal'
  BY <1>6, LoopKeepsOwners DEF ReleasePhysicalHandle
<1>7. CASE CleanupAll \/ UNCHANGED vars
  BY <1>2, <1>7 DEF CleanupAll, KeysToClean, vars, hookVars, threadVars
<1>8. ASSUME NEW r \in Requests,
             ProcessOutput(r) \/ IsToolResponseReady(r) \/ SubmitToolResponse(r)
      PROVE Goal'
  BY <1>2, <1>8
     DEF ProcessOutput, IsToolResponseReady, Answered, SubmitToolResponse, hookVars, threadVars
<1> QED
  BY <1>3, <1>4, <1>5, <1>6, <1>7, <1>8, GetKeepsOwners, AppendKeepsOwners
     DEF Next, EngineStep

\* A physical handle has one owner: none is released twice, by two threads or
\* while a pause still lists it, for any number of requests and handles.
THEOREM HandlesAreOwnedOnce == Spec => []HandleOwnership
<1>1. OwnerInv => HandleOwnership
  BY DEF OwnerInv
<1> QED
  BY <1>1, InitOwnerInv, StepOwnerInv, PTL DEF Spec

------------------------------------------------------------------------------
(* No handle is forgotten.                                                  *)

\* Only a blocked request has a record, none is blocked again before its record
\* is gone, and the engine thread starts a cleanup with no loop unfinished: the
\* three ways in which a record or a list could be overwritten.
OnlyBlockedPaused == activePauses \subseteq blocked
PausesAfresh      == engineOp = "pausing" => engineReq \in blocked \ activePauses
EngineLoopLeft    == engineOp # "cleaning" => LoopLeft(Engine)

KeepInv == /\ OwnerInv /\ NoHandleForgotten
           /\ OnlyBlockedPaused /\ PausesAfresh /\ EngineLoopLeft

LEMMA InitKeepInv == Init => KeepInv
BY InitOwnerInv
   DEF KeepInv, Init, NoHandleForgotten, Settled, OnlyBlockedPaused, PausesAfresh,
       EngineLoopLeft, LoopLeft, Threads

\* The engine thread keeps to the three conditions.
LEMMA StepPauses ==
  KeepInv /\ [Next]_vars => (OnlyBlockedPaused /\ PausesAfresh /\ EngineLoopLeft)'
<1> SUFFICES ASSUME KeepInv, [Next]_vars
             PROVE  OnlyBlockedPaused' /\ PausesAfresh' /\ EngineLoopLeft'
  OBVIOUS
<1> DEFINE Goal == OnlyBlockedPaused /\ PausesAfresh /\ EngineLoopLeft
<1> USE DEF OnlyBlockedPaused, PausesAfresh, EngineLoopLeft, LoopLeft
<1>1. Goal /\ TypeInv
  BY DEF KeepInv, OwnerInv
<1> USE DEF TypeInv, TypeOK
<1>2. ASSUME NEW r \in Requests, ProcessOutput(r) PROVE Goal'
  BY <1>1, <1>2 DEF ProcessOutput, Producing, hookVars, workerVars
<1>3. CASE OnToolCallPause
  BY <1>1, <1>3 DEF OnToolCallPause
<1>4. CASE OnToolCallResume
  BY <1>1, <1>4 DEF OnToolCallResume
<1>5. ASSUME NEW t \in Threads, LeaveLoop(t), EngineCleanupDone \/ ShutdownLoopDone,
             EngineCleanupDone => t = Engine
      PROVE  Goal'
  BY <1>1, <1>5 DEF LeaveLoop, EngineCleanupDone, ShutdownLoopDone, hookVars, Threads
<1>6. ASSUME NEW r \in Requests, IsToolResponseReady(r) \/ SubmitToolResponse(r) PROVE Goal'
  BY <1>1, <1>6
     DEF IsToolResponseReady, SubmitToolResponse, hookVars, threadVars, workerVars
<1>7. ASSUME NEW r \in Requests, CleanupRequest(r) PROVE Goal'
  BY <1>1, <1>7 DEF CleanupRequest, PopForCleanup
<1>8. ASSUME NEW r \in Requests, CleanupAllNext(r) PROVE Goal'
  BY <1>1, <1>8 DEF CleanupAllNext, PopForCleanup, Threads, Engine, Shutdown
<1>9. ASSUME NEW r \in Requests, NEW h \in Handles,
             GetActivePause(r, h) \/ AppendHandle(r, h)
      PROVE Goal'
  BY <1>1, <1>9 DEF GetActivePause, AppendHandle, hookVars, threadVars
<1>10. ASSUME NEW t \in Threads, NEW h \in Handles,
              AppendLate(t, h) \/ ReleasePhysicalHandle(t, h)
       PROVE Goal'
  BY <1>1, <1>10 DEF AppendLate, ReleasePhysicalHandle, hookVars, workerVars, Threads
<1>11. CASE CleanupAll \/ UNCHANGED vars
  BY <1>1, <1>11 DEF CleanupAll, vars, hookVars, threadVars, workerVars
<1> QED
  BY <1>2, <1>3, <1>4, <1>5, <1>6, <1>7, <1>8, <1>9, <1>10, <1>11
     DEF Next, EngineStep, EngineCleanupDone, ShutdownLoopDone, Threads

\* Popping a record moves its handles into the loop, which holds none before.
LEMMA PopForgetsNone ==
  ASSUME KeepInv, NEW r \in Requests, NEW t \in Threads, LoopLeft(t),
         PopForCleanup(r, t), UNCHANGED handleVars
  PROVE  NoHandleForgotten'
<1>1. /\ activePauses' = activePauses \ {r}
      /\ \A s \in Requests : s # r => OfRecord(s)' = OfRecord(s)
      /\ \A u \in Threads : u # t => OfLoop(u)' = OfLoop(u)
      /\ OfLoop(t)' = OfRecord(r)
      /\ Settled' = Settled
  BY DEF KeepInv, OwnerInv, TypeInv, TypeOK, PopForCleanup, OfRecord, OfLoop, Settled,
         handleVars
<1>2. OfLoop(t) = {}
  BY DEF LoopLeft, OfLoop
<1> QED
  BY <1>1, <1>2 DEF KeepInv, OwnerInv, TypeInv, TypeOK, NoHandleForgotten

\* No step forgets a handle.
LEMMA StepKeepInv == KeepInv /\ [Next]_vars => KeepInv'
<1> SUFFICES ASSUME KeepInv, [Next]_vars PROVE NoHandleForgotten'
  BY StepOwnerInv, StepPauses DEF KeepInv
<1>1. /\ NoHandleForgotten /\ RecordsActive
      /\ OnlyBlockedPaused /\ PausesAfresh /\ EngineLoopLeft
      /\ TypeInv
  BY DEF KeepInv, OwnerInv, HandleOwnership
<1>2. CASE UNCHANGED <<activePauses, handlesOf, releasing, workerVars, handleVars>>
  BY <1>1, <1>2 DEF NoHandleForgotten, Settled, OfRecord, OfLoop, workerVars, handleVars
<1>3. CASE OnToolCallPause
  <2>1. /\ engineReq \in Requests /\ engineReq \notin activePauses
        /\ activePauses' = activePauses \cup {engineReq}
        /\ \A s \in Requests : s # engineReq => OfRecord(s)' = OfRecord(s)
        /\ \A t \in Threads : OfLoop(t)' = OfLoop(t)
        /\ \A x \in Settled : x \in Settled'
    BY <1>1, <1>3
       DEF OnToolCallPause, PausesAfresh, TypeInv, TypeOK, EngineHasRequest, OfRecord, OfLoop,
           Settled
  <2> QED
    BY <1>1, <2>1 DEF NoHandleForgotten, TypeInv, TypeOK
<1>4. CASE OnToolCallResume
  <2>1. /\ engineReq \in Requests
        /\ activePauses' = activePauses \ {engineReq}
        /\ \A s \in Requests : s # engineReq => OfRecord(s)' = OfRecord(s)
        /\ \A t \in Threads : OfLoop(t)' = OfLoop(t)
        /\ Settled' = Settled \cup OfRecord(engineReq)
    BY <1>1, <1>4
       DEF OnToolCallResume, TypeInv, TypeOK, EngineHasRequest, OfRecord, OfLoop, Settled
  <2> QED
    BY <1>1, <2>1 DEF NoHandleForgotten, TypeInv, TypeOK
<1>5. ASSUME NEW r \in Requests, CleanupRequest(r) PROVE NoHandleForgotten'
  BY <1>1, <1>5, PopForgetsNone DEF CleanupRequest, EngineLoopLeft, Threads
<1>6. ASSUME NEW r \in Requests, CleanupAllNext(r) PROVE NoHandleForgotten'
  BY <1>6, PopForgetsNone DEF CleanupAllNext, Threads
<1>7. ASSUME NEW t \in Threads, LeaveLoop(t), UNCHANGED hookVars PROVE NoHandleForgotten'
  <2>1. /\ activePauses' = activePauses
        /\ \A s \in Requests : OfRecord(s)' = OfRecord(s)
        /\ \A u \in Threads : u # t => OfLoop(u)' = OfLoop(u)
        /\ OfLoop(t) = lateAppend[t]
        /\ Settled' = Settled \cup lateAppend[t]
    BY <1>1, <1>7 DEF LeaveLoop, TypeInv, TypeOK, OfRecord, OfLoop, Settled, hookVars
  <2> QED
    BY <1>1, <2>1 DEF NoHandleForgotten, TypeInv, TypeOK
<1>8. ASSUME NEW t \in Threads, NEW h \in Handles, ReleasePhysicalHandle(t, h)
      PROVE NoHandleForgotten'
  <2>1. /\ activePauses' = activePauses
        /\ \A s \in Requests : OfRecord(s)' = OfRecord(s)
        /\ \A u \in Threads : u # t => OfLoop(u)' = OfLoop(u)
        /\ \A x \in OfLoop(t) : x = h \/ x \in OfLoop(t)'
        /\ Settled' = Settled \cup {h}
    BY <1>1, <1>8
       DEF ReleasePhysicalHandle, TypeInv, TypeOK, OfRecord, OfLoop, Settled, hookVars,
           workerVars
  <2> QED
    BY <1>1, <2>1 DEF NoHandleForgotten, TypeInv, TypeOK
<1>9. ASSUME NEW r \in Requests, NEW h \in Handles, GetActivePause(r, h)
      PROVE NoHandleForgotten'
  <2>1. /\ activePauses' = activePauses /\ r \in activePauses
        /\ \A s \in Requests : \A x \in OfRecord(s) : x \in OfRecord(s)'
        /\ h \in OfRecord(r)'
        /\ \A t \in Threads : OfLoop(t)' = OfLoop(t)
        /\ \A x \in Settled : x = h \/ x \in Settled'
    BY <1>1, <1>9
       DEF GetActivePause, TypeInv, TypeOK, OfRecord, OfLoop, Settled, hookVars, threadVars
  <2> QED
    BY <1>1, <2>1 DEF NoHandleForgotten, TypeInv, TypeOK
<1>10. ASSUME NEW r \in Requests, NEW h \in Handles, AppendHandle(r, h)
       PROVE NoHandleForgotten'
  <2>1. /\ activePauses' = activePauses
        /\ \A s \in Requests : OfRecord(s)' = OfRecord(s)
        /\ \A t \in Threads : OfLoop(t)' = OfLoop(t)
        /\ Settled' = Settled
    BY <1>1, <1>10
       DEF AppendHandle, TypeInv, TypeOK, OfRecord, OfLoop, Settled, threadVars, handleVars
  <2> QED
    BY <1>1, <2>1 DEF NoHandleForgotten, TypeInv, TypeOK
<1>11. ASSUME NEW t \in Threads, NEW h \in Handles, AppendLate(t, h)
       PROVE NoHandleForgotten'
  <2>1. /\ activePauses' = activePauses
        /\ \A s \in Requests : OfRecord(s)' = OfRecord(s)
        /\ \A u \in Threads : OfLoop(u)' = OfLoop(u)
        /\ Settled' = Settled
    BY <1>1, <1>11
       DEF AppendLate, TypeInv, TypeOK, OfRecord, OfLoop, Settled, hookVars, handleVars
  <2> QED
    BY <1>1, <2>1 DEF NoHandleForgotten, TypeInv, TypeOK
<1>12. CASE CleanupAll \/ UNCHANGED vars
  BY <1>2, <1>12 DEF CleanupAll, vars, hookVars, threadVars
<1>13. ASSUME NEW r \in Requests,
              ProcessOutput(r) \/ IsToolResponseReady(r) \/ SubmitToolResponse(r)
       PROVE NoHandleForgotten'
  BY <1>2, <1>13
     DEF ProcessOutput, IsToolResponseReady, SubmitToolResponse, hookVars, threadVars
<1> QED
  BY <1>3, <1>4, <1>5, <1>6, <1>7, <1>8, <1>9, <1>10, <1>11, <1>12, <1>13
     DEF Next, EngineStep, EngineCleanupDone, ShutdownLoopDone, Threads

\* No handle vanishes, for any number of requests and handles: no second pause
\* of a request replaces a record that still has one, and no release loop is
\* left for the next record with one unsettled.
THEOREM NoHandleVanishes == Spec => []NoHandleForgotten
<1>1. KeepInv => NoHandleForgotten
  BY DEF KeepInv
<1> QED
  BY <1>1, InitKeepInv, StepKeepInv, PTL DEF Spec

------------------------------------------------------------------------------
(* The hook implements ToolPause.                                           *)

\* An answer that waits, or that the engine thread is about to use, is not used
\* yet: the poll and the resumption are two critical sections, and this is what
\* holds between them whatever cleanup_all and the tools do.
AnswersUnused ==
  /\ \A r \in Requests : resumes[r] <= answers[r]
  /\ \A r \in toolResponses : resumes[r] < answers[r]
  /\ engineOp = "resuming" => resumes[engineReq] < answers[engineReq]

RefineInv == TypeInv /\ AnswersUnused

LEMMA InitRefineInv == Init => RefineInv
BY InitTypeInv DEF RefineInv, Init, AnswersUnused

LEMMA StepRefineInv == RefineInv /\ [Next]_vars => RefineInv'
<1> SUFFICES ASSUME RefineInv, [Next]_vars PROVE AnswersUnused'
  BY StepTypeInv DEF RefineInv
<1> USE DEF RefineInv, TypeInv
<1>1. CASE /\ UNCHANGED <<answers, resumes>>
           /\ toolResponses' \subseteq toolResponses
           /\ engineOp' = "resuming" => engineOp = "resuming" /\ engineReq' = engineReq
  BY <1>1 DEF AnswersUnused
<1>2. CASE OnToolCallResume
  <2>1. /\ engineReq \in Requests /\ resumes[engineReq] < answers[engineReq]
        /\ \A s \in Requests :
             resumes'[s] = IF s = engineReq THEN resumes[s] + 1 ELSE resumes[s]
        /\ toolResponses' = toolResponses \ {engineReq}
        /\ answers' = answers /\ engineOp' = "idle"
    BY <1>2 DEF OnToolCallResume, PopResponse, TypeOK, EngineHasRequest, AnswersUnused
  <2> QED
    BY <2>1 DEF AnswersUnused, TypeOK
<1>3. ASSUME NEW r \in Requests, IsToolResponseReady(r) PROVE AnswersUnused'
  BY <1>3 DEF IsToolResponseReady, Answered, AnswersUnused, hookVars, callVars
<1>4. ASSUME NEW r \in Requests, SubmitToolResponse(r) PROVE AnswersUnused'
  <2>1. /\ \A s \in Requests : answers'[s] = IF s = r THEN answers[s] + 1 ELSE answers[s]
        /\ toolResponses' = toolResponses \cup {r}
        /\ UNCHANGED <<resumes, engineOp, engineReq>>
        /\ \A s \in Requests : answers[s] \in Nat /\ resumes[s] \in Nat
    BY <1>4 DEF SubmitToolResponse, TypeOK, threadVars
  <2> QED
    BY <2>1 DEF AnswersUnused, EngineHasRequest, TypeOK
<1>5. CASE \/ OnToolCallPause \/ EngineCleanupDone \/ CleanupAll \/ ShutdownLoopDone
         \/ UNCHANGED vars
  BY <1>1, <1>5
     DEF OnToolCallPause, EngineCleanupDone, CleanupAll, KeysToClean, ShutdownLoopDone, vars,
         hookVars, threadVars, callVars
<1>6. ASSUME NEW r \in Requests, ProcessOutput(r) PROVE AnswersUnused'
  <2>1. engineOp' # "resuming"
    BY <1>6 DEF ProcessOutput
  <2> QED
    BY <1>1, <1>6, <2>1 DEF ProcessOutput, hookVars
<1>7. ASSUME NEW r \in Requests, CleanupRequest(r) \/ CleanupAllNext(r)
      PROVE AnswersUnused'
  BY <1>1, <1>7 DEF CleanupRequest, CleanupAllNext, PopForCleanup, PopResponse, callVars
<1>8. ASSUME NEW r \in Requests, NEW h \in Handles,
             GetActivePause(r, h) \/ AppendHandle(r, h)
      PROVE AnswersUnused'
  BY <1>1, <1>8 DEF GetActivePause, AppendHandle, hookVars, threadVars, callVars
<1>9. ASSUME NEW t \in Threads, NEW h \in Handles,
             AppendLate(t, h) \/ ReleasePhysicalHandle(t, h)
      PROVE AnswersUnused'
  BY <1>1, <1>9 DEF AppendLate, ReleasePhysicalHandle, hookVars, callVars
<1> QED
  BY <1>2, <1>3, <1>4, <1>5, <1>6, <1>7, <1>8, <1>9 DEF Next, EngineStep

\* Every step of the hook is a step of its promise or leaves it alone.
LEMMA StepRefines == RefineInv /\ [Next]_vars => [Promise!Next]_(Promise!vars)
<1> SUFFICES ASSUME RefineInv, [Next]_vars PROVE [Promise!Next]_(Promise!vars)
  OBVIOUS
<1> USE DEF Promise!vars
<1>1. CASE UNCHANGED <<calls, answers, resumes>>
  BY <1>1
<1>2. ASSUME NEW r \in Requests, ProcessOutput(r) PROVE [Promise!Next]_(Promise!vars)
  <2>1. \/ Promise!Call(r)
        \/ UNCHANGED <<calls, answers, resumes>>
    BY <1>2 DEF ProcessOutput, Promise!Call
  <2> QED
    BY <2>1 DEF Promise!Next
<1>3. CASE OnToolCallResume
  <2>1. engineReq \in Requests /\ Promise!Resume(engineReq)
    BY <1>3 DEF OnToolCallResume, PopResponse, Promise!Resume, RefineInv, TypeInv, EngineHasRequest,
                AnswersUnused
  <2> QED
    BY <2>1 DEF Promise!Next
<1>4. ASSUME NEW r \in Requests, SubmitToolResponse(r)
      PROVE [Promise!Next]_(Promise!vars)
  <2>1. Promise!Answer(r)
    BY <1>4 DEF SubmitToolResponse, Promise!Answer
  <2> QED
    BY <2>1 DEF Promise!Next
<1>5. CASE \/ OnToolCallPause \/ EngineCleanupDone \/ CleanupAll \/ ShutdownLoopDone
         \/ UNCHANGED vars
  BY <1>1, <1>5 DEF OnToolCallPause, EngineCleanupDone, CleanupAll, ShutdownLoopDone, vars, callVars
<1>6. ASSUME NEW r \in Requests,
             IsToolResponseReady(r) \/ CleanupRequest(r) \/ CleanupAllNext(r)
      PROVE [Promise!Next]_(Promise!vars)
  BY <1>1, <1>6 DEF IsToolResponseReady, Answered, CleanupRequest, CleanupAllNext, callVars
<1>7. ASSUME NEW r \in Requests, NEW h \in Handles,
             GetActivePause(r, h) \/ AppendHandle(r, h)
      PROVE [Promise!Next]_(Promise!vars)
  BY <1>1, <1>7 DEF GetActivePause, AppendHandle, callVars
<1>8. ASSUME NEW t \in Threads, NEW h \in Handles,
             AppendLate(t, h) \/ ReleasePhysicalHandle(t, h)
      PROVE [Promise!Next]_(Promise!vars)
  BY <1>1, <1>8 DEF AppendLate, ReleasePhysicalHandle, callVars
<1> QED
  BY <1>2, <1>3, <1>4, <1>5, <1>6, <1>7, <1>8 DEF Next, EngineStep

\* The detailed hook implements the abstract promise: at most one resumption per
\* delivered answer, whatever the threads do between poll and resumption.
THEOREM HookImplementsToolPause == Spec => ImplementsToolPause
<1>1. Init => Promise!Init
  BY DEF Init, Promise!Init
<1> QED
  BY <1>1, InitRefineInv, StepRefineInv, StepRefines, PTL
     DEF Spec, ImplementsToolPause, Promise!Spec

\* An answer is used up only by the resumption or the cleanup of its request, or
\* by cleanup_all for a key it copied: no pause, poll, speculation or release
\* of a handle discards it.
THEOREM AnswersAreKept == Spec => AnswerKeptUntilUsed
<1> DEFINE Kept == \A r \in toolResponses \ toolResponses' : r \notin blocked' \/ r \in toClean
<1>1. ASSUME [Next]_vars PROVE Kept
  <2>1. CASE UNCHANGED toolResponses
    BY <2>1
  <2>2. CASE OnToolCallResume
    BY <2>2 DEF OnToolCallResume, PopResponse
  <2>3. ASSUME NEW r \in Requests, CleanupRequest(r) PROVE Kept
    BY <2>3 DEF CleanupRequest, PopForCleanup, PopResponse
  <2>4. ASSUME NEW r \in Requests, CleanupAllNext(r) PROVE Kept
    BY <2>4 DEF CleanupAllNext, PopForCleanup, PopResponse
  <2>5. ASSUME NEW r \in Requests, SubmitToolResponse(r) PROVE Kept
    BY <2>5 DEF SubmitToolResponse
  <2>6. CASE \/ OnToolCallPause \/ EngineCleanupDone \/ CleanupAll \/ ShutdownLoopDone
           \/ UNCHANGED vars
    BY <2>1, <2>6
       DEF OnToolCallPause, EngineCleanupDone, CleanupAll, ShutdownLoopDone, vars, hookVars
  <2>7. ASSUME NEW r \in Requests, ProcessOutput(r) \/ IsToolResponseReady(r) PROVE Kept
    BY <2>1, <2>7 DEF ProcessOutput, IsToolResponseReady, hookVars
  <2>8. ASSUME NEW r \in Requests, NEW h \in Handles,
               GetActivePause(r, h) \/ AppendHandle(r, h)
        PROVE Kept
    BY <2>1, <2>8 DEF GetActivePause, AppendHandle, hookVars
  <2>9. ASSUME NEW t \in Threads, NEW h \in Handles,
               AppendLate(t, h) \/ ReleasePhysicalHandle(t, h)
        PROVE Kept
    BY <2>1, <2>9 DEF AppendLate, ReleasePhysicalHandle, hookVars
  <2> QED
    BY <1>1, <2>2, <2>3, <2>4, <2>5, <2>6, <2>7, <2>8, <2>9 DEF Next, EngineStep
<1>2. [Next]_vars => [Kept]_vars
  BY <1>1
<1> QED
  BY <1>2, PTL DEF Spec, AnswerKeptUntilUsed
==============================================================================
