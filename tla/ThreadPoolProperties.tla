------------------------ MODULE ThreadPoolProperties ------------------------
(***************************************************************************)
(* What a pool of threads owes to its tasks and to those who wait for      *)
(* them, with submissions, retries and a shutdown in any order.            *)
(***************************************************************************)
EXTENDS ThreadPool

\* The type of every variable.
ThreadTypeOK ==
    /\ isRunning \in BOOLEAN /\ taskQueue \in Seq(Task) /\ unfinished \in Nat
    /\ lock \in Client \cup {None}
    /\ status \in [Task -> {"none", "pending", "running", "retrying"} \cup Final]
    /\ retries \in [Task -> Nat] /\ completed \in Nat /\ total \in 0..MaxTasks
    /\ wpc \in [Thread -> {"new", "check", "get", "start", "run", "returned", "raised",
                           "putback", "done", "unwinding", "exit", "dead"}]
    /\ hand \in [Thread -> Task \cup {None}]
    /\ cpc \in [Client -> {"idle", "put", "count", "join", "drain"}]
    /\ calls \in [Client -> Nat] /\ dropped \subseteq Task

Accepted == {t \in Task : t < total}
Ended(t) == status[t] \in Final

\* A task is at one place: once in the queue or with one worker that has not
\* given it back, so no attempt runs beside another one.
OnePlace ==
    \A t \in Task :
        LET places == {i \in DOMAIN taskQueue : taskQueue[i] = t}
            hands  == {w \in Thread : hand[w] = t /\ wpc[w] # "done"}
        IN Cardinality(places) + Cardinality(hands) <= 1

\* _executor.py:103: submit counts a task only after it has put it into the
\* queue, so get_progress would exceed 100% if the lock did not keep a worker
\* from recording the end in between.
CompletedWithinTotal == completed <= total

\* A task whose function ended its thread (_executor.py:150): it stays RUNNING for
\* ever and is never counted as completed.
Abandoned(t) == \E w \in Thread : hand[w] = t /\ wpc[w] \in {"unwinding", "dead"}

\* task_queue.join() in wait_completion returns only when every accepted task has
\* ended or was taken out by shutdown, however often it was put back.  It also
\* counts the task_done of an abandoned task, which has not ended.
WaitSeesAll ==
    [][\A c \in Client : cpc[c] = "join" /\ cpc'[c] = "idle" =>
          \A t \in Accepted : Ended(t) \/ t \in dropped \/ Abandoned(t)]_tpVars

\* Statuses and retry counts change as RetryPool says: an end is final, and a
\* task is tried at most max_retries + 1 times.
Promise == INSTANCE RetryPool WITH stage <- status, tries <- retries
ImplementsRetryPool == Promise!Spec

\* All workers wait to put a task back into the full queue: nobody makes room.
Jammed ==
    /\ Full
    /\ \E w \in Thread : Live(w)
    /\ \A w \in Thread : Live(w) => wpc[w] = "putback"

\* Tasks are left and no thread lives: functions have ended them, and start creates
\* none while is_running holds.
Deserted ==
    /\ taskQueue # <<>>
    /\ \E w \in Thread : wpc[w] = "dead"
    /\ \A w \in Thread : ~Live(w)

Stopped == ~isRunning

\* An accepted task ends or is dropped, unless it is abandoned or the pool is
\* stopped, jams or is deserted for good; that submit blocks with the lock does no
\* harm.
AcceptedTaskEnds ==
    \A t \in Task : t \in Accepted ~>
        Ended(t) \/ t \in dropped \/ Abandoned(t) \/ Stopped \/ Jammed \/ Deserted

\* A task that was put back after shutdown had emptied the queue.
Stranded == Stopped /\ taskQueue # <<>>

\* _executor.py:218 "task_done() must still be called for each remaining item to
\* unblock join()": shutdown releases whoever waits, unless a retry was put back
\* after the queue had been emptied; without a shutdown the workers do, unless they
\* jam or no thread is left to them.
WaiterIsReleased ==
    \A c \in Client : cpc[c] = "join" ~> cpc[c] # "join" \/ Jammed \/ Stranded \/ Deserted
=============================================================================
