----------------------------- MODULE RetryPool ------------------------------
(***************************************************************************)
(* What the pools of providers/_executor.py promise to each task, without  *)
(* threads, queues and locks: an attempt at a time, a further attempt only *)
(* after a failure and at most max_retries of them, and an end that stays. *)
(***************************************************************************)
EXTENDS Naturals

CONSTANTS
    Task,       \* task ids
    MaxRetries  \* max_retries of each task

VARIABLES
    stage,  \* "none" before the submission, then the status of the task
    tries   \* retry_count: attempts that failed

Init ==
    /\ stage = [t \in Task |-> "none"]
    /\ tries = [t \in Task |-> 0]

Becomes(t, s) == stage' = [stage EXCEPT ![t] = s]

Submit(t)  == stage[t] = "none" /\ Becomes(t, "pending") /\ UNCHANGED tries
Attempt(t) == stage[t] \in {"pending", "retrying"} /\ Becomes(t, "running") /\ UNCHANGED tries
Succeed(t) == stage[t] = "running" /\ Becomes(t, "success") /\ UNCHANGED tries

Fail(t) ==
    /\ stage[t] = "running"
    /\ tries' = [tries EXCEPT ![t] = @ + 1]
    /\ Becomes(t, IF tries[t] < MaxRetries[t] THEN "retrying" ELSE "failed")

Next == \E t \in Task : Submit(t) \/ Attempt(t) \/ Succeed(t) \/ Fail(t)

Spec == Init /\ [][Next]_<<stage, tries>>
=============================================================================
