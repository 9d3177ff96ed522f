------------------------------- MODULE EdmmHook -------------------------------
(***************************************************************************)
(* EdmmSchedulerHook (vllm_v1_core_sched/edmm_hook.py): the pause records  *)
(* and tool responses two dictionaries keep under one lock, the engine     *)
(* thread that pauses, polls, resumes and cleans up requests, the tool     *)
(* clients that submit responses, the thread that runs cleanup_all on      *)
(* shutdown, and the speculative workers that hang physical handles on a   *)
(* pause.  A step is one critical section of the lock, or one piece of     *)
(* work between two critical sections.                                     *)
(***************************************************************************)
EXTENDS Naturals, FiniteSets

CONSTANTS
  Requests,     \* request ids
  Handles,      \* physical handles the speculative workers may create
  MaxCalls,     \* bound: tool calls one request makes
  MaxTokens,    \* bound: output tokens one request produces
  Window,       \* tokens should_pause_for_tool_call looks back at (10 in the code)
  NoReq         \* no request

ASSUME HookAssumption == /\ NoReq \notin Requests
                         /\ MaxCalls \in Nat
                         /\ MaxTokens \in Nat
                         /\ Window \in Nat \ {0}

Engine   == "engine"     \* the thread that runs the scheduler
Shutdown == "shutdown"   \* the thread that calls cleanup_all
Threads  == {Engine, Shutdown}

Decisions == {"SPECULATE", "DEFER"}

VARIABLES
  \* the hook's two dictionaries
  activePauses,     \* keys of _active_pauses
  handlesOf,        \* handlesOf[r]: speculative_handles of r's pause record
  decisionOf,       \* decisionOf[r]: speculation_decision of r's pause record; DEFER
                    \* without one
  toolResponses,    \* keys of _tool_responses
  \* where each thread is
  engineOp,         \* "idle", "pausing", "resuming" or "cleaning"
  engineReq,        \* the request the engine thread works on
  engineDecision,   \* the decision it took before it takes the lock, else DEFER
  toClean,          \* cleanup_all: the keys it copied and has not visited
  releasing,        \* releasing[t]: handles of the record thread t popped
  \* speculative workers: handles created for a record they have looked up and
  \* not appended to it yet
  toAppend,         \* toAppend[r]: the record is the one of r in _active_pauses
  lateAppend,       \* lateAppend[t]: thread t has popped it and is in its loop
  \* the physical handles (edmm_allocator.create_/release_physical_handle)
  unallocated, released,
  dropped,          \* handles of records on_tool_call_resume gave back
  failed,           \* handles whose release raised, logged and forgotten
  lost,             \* handles whose record was given up before they were appended
  \* the requests and their tools
  tokens,           \* tokens[r]: output tokens of r
  sinceSentinel,    \* tokens after r's last sentinel; Window: none in sight
  blocked,          \* requests whose status is WAITING_FOR_TOOL_CALL
  cancelled,        \* requests cleanup_request was called for
  calls, answers, resumes   \* tool calls made, answers delivered, resumptions

hookVars   == <<activePauses, handlesOf, decisionOf, toolResponses>>
threadVars == <<engineOp, engineReq, engineDecision, toClean, releasing>>
workerVars == <<toAppend, lateAppend>>
handleVars == <<unallocated, released, dropped, failed, lost>>
outputVars == <<tokens, sinceSentinel>>
callVars   == <<calls, answers, resumes>>
vars == <<hookVars, threadVars, workerVars, handleVars, outputVars, blocked,
          cancelled, callVars>>

TypeOK ==
  /\ activePauses \subseteq Requests
  /\ handlesOf \in [Requests -> SUBSET Handles]
  /\ decisionOf \in [Requests -> Decisions]
  /\ toolResponses \subseteq Requests
  /\ engineOp \in {"idle", "pausing", "resuming", "cleaning"}
  /\ engineReq \in Requests \cup {NoReq}
  /\ engineDecision \in Decisions
  /\ toClean \subseteq Requests
  /\ releasing \in [Threads -> SUBSET Handles]
  /\ unallocated \subseteq Handles
  /\ released \subseteq Handles
  /\ dropped \subseteq Handles
  /\ failed \subseteq Handles
  /\ lost \subseteq Handles
  /\ toAppend \in [Requests -> SUBSET Handles]
  /\ lateAppend \in [Threads -> SUBSET Handles]
  /\ tokens \in [Requests -> Nat]
  /\ sinceSentinel \in [Requests -> Nat]
  /\ blocked \subseteq Requests
  /\ cancelled \subseteq Requests
  /\ calls \in [Requests -> Nat]
  /\ answers \in [Requests -> Nat]
  /\ resumes \in [Requests -> Nat]

Init ==
  /\ activePauses = {}
  /\ handlesOf = [r \in Requests |-> {}]
  /\ decisionOf = [r \in Requests |-> "DEFER"]
  /\ toolResponses = {}
  /\ engineOp = "idle"
  /\ engineReq = NoReq
  /\ engineDecision = "DEFER"
  /\ toClean = {}
  /\ releasing = [t \in Threads |-> {}]
  /\ unallocated = Handles
  /\ released = {}
  /\ dropped = {}
  /\ failed = {}
  /\ lost = {}
  /\ toAppend = [r \in Requests |-> {}]
  /\ lateAppend = [t \in Threads |-> {}]
  /\ tokens = [r \in Requests |-> 0]
  /\ sinceSentinel = [r \in Requests |-> Window]
  /\ blocked = {}
  /\ cancelled = {}
  /\ calls = [r \in Requests |-> 0]
  /\ answers = [r \in Requests |-> 0]
  /\ resumes = [r \in Requests |-> 0]

------------------------------------------------------------------------------
(* The engine thread: output, pause, poll, resume, cleanup.                 *)

\* (Mutant.)  A paused request stays in running and is scheduled again.
ProducingUnlessCancelled(r) == r \notin cancelled

\* A pause keeps a request out of the batch.
Producing(r) == r \notin blocked \cup cancelled

\* The last Window output tokens, decoded, contain the sentinel.
ShouldPauseForToolCall(since) == since < Window

\* The usage note of the class: the output processor appends a token of r and
\* asks whether to pause.  The decision is taken from the CPU load (cached for
\* 100 ms, 0 on error) before the lock is taken.
ProcessOutput(r) ==
  /\ engineOp = "idle"
  /\ Producing(r)
  /\ tokens[r] < MaxTokens
  /\ tokens' = [tokens EXCEPT ![r] = @ + 1]
  /\ \E sentinel \in BOOLEAN :
        LET since == IF sentinel THEN 0
                     ELSE IF sinceSentinel[r] < Window THEN sinceSentinel[r] + 1
                     ELSE Window
        IN /\ sentinel => calls[r] < MaxCalls
           /\ calls' = IF sentinel THEN [calls EXCEPT ![r] = @ + 1] ELSE calls
           /\ sinceSentinel' = [sinceSentinel EXCEPT ![r] = since]
           /\ IF ShouldPauseForToolCall(since)
              THEN /\ engineOp' = "pausing"
                   /\ engineReq' = r
                   /\ engineDecision' \in Decisions
                   /\ blocked' = blocked \cup {r}
              ELSE UNCHANGED <<engineOp, engineReq, engineDecision, blocked>>
  /\ UNCHANGED <<hookVars, toClean, releasing, workerVars, handleVars, cancelled,
                 answers, resumes>>

\* (Mutant.)  The pause drops a response it takes for a stale one.
PauseDropsResponse ==
  /\ engineOp = "pausing"
  /\ activePauses' = activePauses \cup {engineReq}
  /\ toolResponses' = toolResponses \ {engineReq}
  /\ engineOp' = "idle"
  /\ UNCHANGED <<handlesOf, decisionOf, engineReq, engineDecision, toClean, releasing,
                 workerVars, handleVars, outputVars, blocked, cancelled, callVars>>

\* The critical section of on_tool_call_pause: a fresh record replaces
\* whatever the dictionary held under the key.
OnToolCallPause ==
  /\ engineOp = "pausing"
  /\ activePauses' = activePauses \cup {engineReq}
  /\ handlesOf' = [handlesOf EXCEPT ![engineReq] = {}]
  /\ decisionOf' = [decisionOf EXCEPT ![engineReq] = engineDecision]
  /\ lost' = lost \cup toAppend[engineReq]
  /\ toAppend' = [toAppend EXCEPT ![engineReq] = {}]
  /\ engineOp' = "idle"
  /\ engineReq' = NoReq
  /\ engineDecision' = "DEFER"
  /\ UNCHANGED <<toolResponses, toClean, releasing, lateAppend, unallocated,
                 released, dropped, failed, outputVars, blocked, cancelled, callVars>>

Answered(r) == r \in toolResponses

\* _try_promote_blocked_waiting_request finds r blocked and its response ready.
IsToolResponseReady(r) ==
  /\ engineOp = "idle"
  /\ r \in blocked
  /\ Answered(r)
  /\ engineOp' = "resuming"
  /\ engineReq' = r
  /\ UNCHANGED <<hookVars, engineDecision, toClean, releasing, workerVars, handleVars,
                 outputVars, blocked, cancelled, callVars>>

\* (Mutant.)  get instead of pop: the response stays for the next pause.
GetResponse(r) == toolResponses

PopResponse(r) == toolResponses \ {r}

\* on_tool_call_resume pops response and record in one critical section and
\* returns the record, which the scheduler ignores: what a worker appends to it
\* later is lost.
OnToolCallResume ==
  /\ engineOp = "resuming"
  /\ toolResponses' = PopResponse(engineReq)
  /\ activePauses' = activePauses \ {engineReq}
  /\ dropped' = dropped \cup handlesOf[engineReq]
  /\ handlesOf' = [handlesOf EXCEPT ![engineReq] = {}]
  /\ decisionOf' = [decisionOf EXCEPT ![engineReq] = "DEFER"]
  /\ lost' = lost \cup toAppend[engineReq]
  /\ toAppend' = [toAppend EXCEPT ![engineReq] = {}]
  /\ resumes' = [resumes EXCEPT ![engineReq] = @ + 1]
  /\ blocked' = blocked \ {engineReq}
  /\ engineOp' = "idle"
  /\ engineReq' = NoReq
  /\ UNCHANGED <<engineDecision, toClean, releasing, lateAppend, unallocated, released,
                 failed, outputVars, cancelled, calls, answers>>

\* (Mutant.)  The record is looked up, not popped, before its handles go.
GetForCleanup(r, t) ==
  /\ releasing' = [releasing EXCEPT ![t] = handlesOf[r]]
  /\ UNCHANGED <<hookVars, workerVars>>

\* The critical section of cleanup_request, run by thread t.  A worker that
\* has looked the record up appends to the list thread t goes through.
PopForCleanup(r, t) ==
  /\ toolResponses' = PopResponse(r)
  /\ activePauses' = activePauses \ {r}
  /\ releasing' = [releasing EXCEPT ![t] = handlesOf[r]]
  /\ handlesOf' = [handlesOf EXCEPT ![r] = {}]
  /\ decisionOf' = [decisionOf EXCEPT ![r] = "DEFER"]
  /\ lateAppend' = [lateAppend EXCEPT ![t] = toAppend[r]]
  /\ toAppend' = [toAppend EXCEPT ![r] = {}]

\* A client aborts r, or r fails or finishes: cleanup_request must be called.
CleanupRequest(r) ==
  /\ engineOp = "idle"
  /\ r \notin cancelled
  /\ PopForCleanup(r, Engine)
  /\ cancelled' = cancelled \cup {r}
  /\ blocked' = blocked \ {r}
  /\ engineOp' = "cleaning"
  /\ UNCHANGED <<engineReq, engineDecision, toClean, handleVars, outputVars,
                 callVars>>

\* Thread t finds the end of the list, and forgets the record.
LeaveLoop(t) ==
  /\ releasing[t] = {}
  /\ lost' = lost \cup lateAppend[t]
  /\ lateAppend' = [lateAppend EXCEPT ![t] = {}]
  /\ UNCHANGED <<releasing, toAppend, unallocated, released, dropped, failed>>

EngineCleanupDone ==
  /\ engineOp = "cleaning"
  /\ LeaveLoop(Engine)
  /\ engineOp' = "idle"
  /\ UNCHANGED <<hookVars, engineReq, engineDecision, toClean, outputVars, blocked,
                 cancelled, callVars>>

------------------------------------------------------------------------------
(* Shutdown, tool clients, the speculative workers, handle release.         *)

\* (Mutant.)  The engine thread's request is cleaned too, if it has one or not.
KeysAndCurrent == activePauses \cup {engineReq}

KeysToClean == activePauses

\* No record is being cleaned by thread t.
LoopLeft(t) == releasing[t] = {} /\ lateAppend[t] = {}

\* cleanup_all copies the keys under the lock and cleans them one by one.
CleanupAll ==
  /\ toClean = {}
  /\ LoopLeft(Shutdown)
  /\ activePauses # {}
  /\ toClean' = KeysToClean
  /\ UNCHANGED <<hookVars, engineOp, engineReq, engineDecision, releasing, workerVars,
                 handleVars, outputVars, blocked, cancelled, callVars>>

\* (Mutant.)  The loop does not get past a key it has visited.
CleanupAllAgain(r) ==
  /\ r \in toClean
  /\ LoopLeft(Shutdown)
  /\ PopForCleanup(r, Shutdown)
  /\ UNCHANGED <<engineOp, engineReq, engineDecision, toClean, handleVars,
                 outputVars, blocked, cancelled, callVars>>

CleanupAllNext(r) ==
  /\ r \in toClean
  /\ LoopLeft(Shutdown)
  /\ toClean' = toClean \ {r}
  /\ PopForCleanup(r, Shutdown)
  /\ UNCHANGED <<engineOp, engineReq, engineDecision, handleVars, outputVars,
                 blocked, cancelled, callVars>>

\* cleanup_all leaves the loop of a record that a worker still wants to append
\* to; any other loop it leaves by going on.
ShutdownLoopDone ==
  /\ lateAppend[Shutdown] # {}
  /\ LeaveLoop(Shutdown)
  /\ UNCHANGED <<hookVars, engineOp, engineReq, engineDecision, toClean, outputVars,
                 blocked, cancelled, callVars>>

\* (Mutant.)  The first release that fails ends the loop.
ReleaseOrGiveUp(t, h) ==
  /\ h \in releasing[t]
  /\ \/ /\ released' = released \cup {h} /\ UNCHANGED failed
        /\ releasing' = [releasing EXCEPT ![t] = @ \ {h}]
     \/ /\ failed' = failed \cup {h} /\ UNCHANGED released
        /\ releasing' = [releasing EXCEPT ![t] = {}]
  /\ UNCHANGED <<hookVars, engineOp, engineReq, engineDecision, toClean, workerVars,
                 unallocated, dropped, lost, outputVars, blocked, cancelled, callVars>>

\* One turn of the release loop, outside the lock; a failing release is logged
\* and the loop goes on.
ReleasePhysicalHandle(t, h) ==
  /\ h \in releasing[t]
  /\ releasing' = [releasing EXCEPT ![t] = @ \ {h}]
  /\ \/ released' = released \cup {h} /\ UNCHANGED failed
     \/ failed' = failed \cup {h} /\ UNCHANGED released
  /\ UNCHANGED <<hookVars, engineOp, engineReq, engineDecision, toClean, workerVars,
                 unallocated, dropped, lost, outputVars, blocked, cancelled, callVars>>

\* Each tool call is answered once, at any time after the model made it.
SubmitToolResponse(r) ==
  /\ answers[r] < calls[r]
  /\ toolResponses' = toolResponses \cup {r}
  /\ answers' = [answers EXCEPT ![r] = @ + 1]
  /\ UNCHANGED <<activePauses, handlesOf, decisionOf, threadVars, workerVars, handleVars,
                 outputVars, blocked, cancelled, calls, resumes>>

\* A speculative worker gets the record of r from get_active_pause, and creates
\* a handle for it.
GetActivePause(r, h) ==
  /\ r \in activePauses
  /\ decisionOf[r] = "SPECULATE"
  /\ h \in unallocated
  /\ unallocated' = unallocated \ {h}
  /\ toAppend' = [toAppend EXCEPT ![r] = @ \cup {h}]
  /\ UNCHANGED <<hookVars, threadVars, lateAppend, released, dropped, failed, lost,
                 outputVars, blocked, cancelled, callVars>>

\* The worker appends the handle to speculative_handles, without the lock.
AppendHandle(r, h) ==
  /\ h \in toAppend[r]
  /\ toAppend' = [toAppend EXCEPT ![r] = @ \ {h}]
  /\ handlesOf' = [handlesOf EXCEPT ![r] = @ \cup {h}]
  /\ UNCHANGED <<activePauses, decisionOf, toolResponses, threadVars, lateAppend,
                 handleVars, outputVars, blocked, cancelled, callVars>>

\* ... to the list that thread t is going through, which is the same list.
AppendLate(t, h) ==
  /\ h \in lateAppend[t]
  /\ lateAppend' = [lateAppend EXCEPT ![t] = @ \ {h}]
  /\ releasing' = [releasing EXCEPT ![t] = @ \cup {h}]
  /\ UNCHANGED <<hookVars, engineOp, engineReq, engineDecision, toClean, toAppend,
                 handleVars, outputVars, blocked, cancelled, callVars>>

------------------------------------------------------------------------------

EngineStep == OnToolCallPause \/ OnToolCallResume \/ EngineCleanupDone

Next ==
  \/ EngineStep
  \/ \E r \in Requests : \/ ProcessOutput(r)
                         \/ IsToolResponseReady(r)
                         \/ CleanupRequest(r)
                         \/ CleanupAllNext(r)
                         \/ SubmitToolResponse(r)
  \/ CleanupAll \/ ShutdownLoopDone
  \/ \E r \in Requests, h \in Handles : GetActivePause(r, h) \/ AppendHandle(r, h)
  \/ \E t \in Threads, h \in Handles : AppendLate(t, h) \/ ReleasePhysicalHandle(t, h)

Spec == Init /\ [][Next]_vars

\* A release loop that was entered is left, and cleanup_all goes on to its last
\* key.  Nothing is assumed of the engine thread: how often it polls a request
\* depends on the queues of the scheduler.
Fairness ==
  /\ \A t \in Threads : WF_vars(\E h \in Handles : ReleasePhysicalHandle(t, h))
  /\ WF_vars(ShutdownLoopDone)
  /\ WF_vars(\E r \in Requests : CleanupAllNext(r))

FairSpec == Spec /\ Fairness

------------------------------------------------------------------------------
(* Properties.                                                              *)

\* A handle is of a pause record or of a release loop, appended to its list or
\* not yet, or it is settled: not created yet, or where a handle ends.
OfRecord(r) == handlesOf[r] \cup toAppend[r]
OfLoop(t)   == releasing[t] \cup lateAppend[t]
Settled == unallocated \cup released \cup dropped \cup failed \cup lost

RecordsActive == \A r \in Requests : OfRecord(r) # {} => r \in activePauses
RecordsApart  == \A r, s \in Requests : r # s => OfRecord(r) \cap OfRecord(s) = {}
ThreadsApart  == OfLoop(Engine) \cap OfLoop(Shutdown) = {}
LoopsOwn      == \A r \in Requests, t \in Threads : OfRecord(r) \cap OfLoop(t) = {}
AppendedOnce  == /\ \A r \in Requests : handlesOf[r] \cap toAppend[r] = {}
                 /\ \A t \in Threads : releasing[t] \cap lateAppend[t] = {}
RecordsFresh  == \A r \in Requests : OfRecord(r) \cap Settled = {}
LoopsFresh    == \A t \in Threads : OfLoop(t) \cap Settled = {}
ReleasedOnce  == released \cap (unallocated \cup dropped \cup failed \cup lost) = {}

\* Every physical handle has at most one owner, so none is released twice and
\* none is released while a pause record still lists it, although cleanup of a
\* request and cleanup_all run in two threads and release outside the lock,
\* and workers append outside it.
HandleOwnership ==
  /\ RecordsActive /\ RecordsApart /\ ThreadsApart /\ LoopsOwn /\ AppendedOnce
  /\ RecordsFresh /\ LoopsFresh /\ ReleasedOnce

\* No handle vanishes: not with a record that a second pause of its request
\* replaces, nor with a release loop that is left for the next one.
NoHandleForgotten ==
  \A h \in Handles : \/ h \in Settled
                     \/ \E r \in activePauses : h \in OfRecord(r)
                     \/ \E t \in Threads : h \in OfLoop(t)

\* The hook implements its promise: one resumption per delivered answer.  The
\* poll and the resumption are two critical sections, and cleanup_all may run
\* between them.
Promise == INSTANCE ToolPause
ImplementsToolPause == Promise!Spec

\* An answer is used up only by the resumption or the cleanup of its request,
\* or by cleanup_all on its way through the keys it copied; in particular the
\* pause itself does not discard an answer that came before its record.
AnswerKeptUntilUsed ==
  [][\A r \in toolResponses \ toolResponses' : r \notin blocked' \/ r \in toClean]_vars

\* Every handle of a cleaned up record is released, or its own release was
\* tried and failed: one failure does not keep the others.
HandlesTried ==
  \A h \in Handles : (\E t \in Threads : h \in releasing[t]) ~> h \in released \cup failed

\* cleanup_all empties the handles of every pause that was active when it
\* copied the keys: the thread never rests with an unvisited key or an
\* unreleased handle.
ShutdownCompletes == (toClean # {} \/ releasing[Shutdown] # {})
                        ~> (toClean = {} /\ releasing[Shutdown] = {})

\* (Stated by progress_5_26.md:55; does not hold.)  Handles a pause collected
\* are released: none is given up when the request resumes.
SpeculationIsReclaimed == dropped = {}
==============================================================================
