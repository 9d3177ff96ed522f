---------------------------- MODULE RequestStatus ----------------------------
(***************************************************************************)
(* RequestStatus (request.py): the enum, its finished half (everything     *)
(* after PREEMPTED), and the scheduler's blocked statuses.                 *)
(***************************************************************************)

FinishedStatuses == {"FINISHED_STOPPED", "FINISHED_LENGTH_CAPPED",
                     "FINISHED_ABORTED", "FINISHED_ERROR"}

\* FINISHED_IGNORED and FINISHED_REPETITION are never assigned by the modelled
\* code paths.
BlockedStatuses == {"WAITING_FOR_STRUCTURED_OUTPUT_GRAMMAR",
                    "WAITING_FOR_REMOTE_KVS",
                    "WAITING_FOR_STREAMING_REQ",
                    "WAITING_FOR_TOOL_CALL"}

QueuedStatuses == {"WAITING", "PREEMPTED"} \cup BlockedStatuses

Statuses == QueuedStatuses \cup {"RUNNING"} \cup FinishedStatuses

IsFinished(status) == status \in FinishedStatuses

IsBlockedWaiting(status) == status \in BlockedStatuses
==============================================================================
