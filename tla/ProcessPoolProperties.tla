----------------------- MODULE ProcessPoolProperties ------------------------
(***************************************************************************)
(* What a pool of processes owes to its tasks and to the thread that waits *)
(* for them, although its counters and records are written in separate     *)
(* steps by processes that may be terminated.                              *)
(***************************************************************************)
EXTENDS ProcessPool

\* The type of every variable.
ProcessTypeOK ==
    /\ going \in BOOLEAN /\ closed \in BOOLEAN
    /\ \A d \in pipe : d.id \in Item /\ d.tries \in 0..MaxAttempts[d.id]
    /\ record \in [Item -> {"none", "pending", "running", "retrying"} \cup Finished]
    /\ doneCount \in Nat /\ sent \in 0..MaxSubmissions
    /\ submitting \in User \cup {Nothing} /\ crew \subseteq Process
    /\ ppc \in [Process -> {"new", "check", "get", "load", "run", "putback", "save", "exit"}]
    /\ \A p \in Process : task[p] = Idle \/ task[p].id \in Item
    /\ upc \in [User -> {"idle", "count", "poll", "reap"}]
    /\ uses \in [User -> Nat] /\ counted \in [Item -> Nat]
    /\ lost \subseteq Item /\ orphaned \subseteq Item

Submitted == {t \in Item : t < sent}

\* wait_completion compares two counters only.  When they let it return, every
\* submitted task has ended or could not be read, unless a submit had put its task
\* and not counted it yet (_executor.py:438, 440): then one may be missing.
PollSeesAll ==
    [][\A u \in User : PollEnds(u) =>
          \/ \A t \in Submitted : life[t].stage \in Finished \/ t \in lost
          \/ \E v \in User : upc[v] = "count"]_ppVars

\* _executor.py:343: when no process holds a finished task any more, its record is
\* final.  Only the late report of an earlier attempt, which was put back before it
\* was reported, can hide the end, and a process that could not write it.
EndIsRecorded ==
    \A t \in Item \ lost :
        life[t].stage \in Finished /\ (\A p \in Process : task[p].id # t) =>
            \/ record[t] = life[t].stage
            \/ record[t] = "retrying" /\ life[t].tries > 0

\* The attempts of a task follow RetryPool, whatever its record says.
Attempts == INSTANCE RetryPool WITH Task <- Item, MaxRetries <- MaxAttempts,
                stage <- [t \in Item |-> life[t].stage], tries <- [t \in Item |-> life[t].tries]
ImplementsRetries == Attempts!Spec

\* A submitted task is counted, unless the process that had it died with it, the pool
\* is stopped or all its processes have ended: by such a death, or over a result that
\* cannot be pickled.  The death of a process does not keep the others from the rest.
SubmittedIsCounted ==
    \A t \in Item : t \in Submitted ~>
        counted[t] = 1 \/ t \in orphaned \/ ~going \/ \A p \in crew : ~Alive(p)
=============================================================================
