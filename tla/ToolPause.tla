------------------------------ MODULE ToolPause ------------------------------
(***************************************************************************)
(* What the tool-call hook promises to the scheduler, without threads,     *)
(* locks, dictionaries or GPU handles: a request is resumed at most once   *)
(* per tool answer, and only after that answer was delivered; an answer is *)
(* delivered only for a call the model really made.                        *)
(***************************************************************************)
EXTENDS Naturals

CONSTANTS Requests,     \* request ids
          MaxCalls      \* bound: tool calls one request makes

VARIABLES calls,        \* calls[r]: tool calls request r has emitted
          answers,      \* answers[r]: answers delivered for r
          resumes       \* resumes[r]: times r was taken out of its pause

vars == <<calls, answers, resumes>>

TypeOK == /\ calls \in [Requests -> Nat]
          /\ answers \in [Requests -> Nat]
          /\ resumes \in [Requests -> Nat]

Init == /\ calls = [r \in Requests |-> 0]
        /\ answers = [r \in Requests |-> 0]
        /\ resumes = [r \in Requests |-> 0]

Call(r) == /\ calls[r] < MaxCalls
           /\ calls' = [calls EXCEPT ![r] = @ + 1]
           /\ UNCHANGED <<answers, resumes>>

Answer(r) == /\ answers[r] < calls[r]
             /\ answers' = [answers EXCEPT ![r] = @ + 1]
             /\ UNCHANGED <<calls, resumes>>

Resume(r) == /\ resumes[r] < answers[r]
             /\ resumes' = [resumes EXCEPT ![r] = @ + 1]
             /\ UNCHANGED <<calls, answers>>

Next == \E r \in Requests : Call(r) \/ Answer(r) \/ Resume(r)

Spec == Init /\ [][Next]_vars
==============================================================================
