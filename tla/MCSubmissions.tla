--------------------------- MODULE MCSubmissions ----------------------------
(* TLC instance of Submissions, with the job, scheduler and control modules under it. *)
EXTENDS Submissions

\* A job that has a stage which is neither INFLIGHT nor REGISTERED was submitted by
\* the owner itself; it is followed to its first step.
Followed ==
    \A j \in Jobs : jobs[j] # None /\ Stage(j) \in {"RECEIVING", "READY", "RETRY_READY"} => jobs[j].events <= 1
=============================================================================
