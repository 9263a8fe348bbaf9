---------------------------- MODULE JobLifecycle ----------------------------
(***************************************************************************)
(* What the queue between assistant-api and assistant-worker promises of a *)
(* job, whatever adapter carries it (QueueAdapter / QueueConsumer).  A job *)
(* is one accepted POST /conversation request.  RedisQueue and FileQueue   *)
(* implement this module.                                                  *)
(***************************************************************************)
CONSTANTS Jobs,      \* the jobs that may be enqueued
          Workers    \* the assistant-worker processes

VARIABLES status,    \* status[j]: where job j is in its life
          holder     \* holder[j]: the worker processing j, or none

vars == <<status, holder>>

NoWorker == "no_worker"

Status == {"new", "queued", "held", "done", "lost"}

TypeOK ==
    /\ status \in [Jobs -> Status]
    /\ holder \in [Jobs -> Workers \cup {NoWorker}]

Init ==
    /\ status = [j \in Jobs |-> "new"]
    /\ holder = [j \in Jobs |-> NoWorker]

(* QueueAdapter.enqueue makes the job visible to the workers.              *)
Enqueue(j) ==
    /\ status[j] = "new"
    /\ status' = [status EXCEPT ![j] = "queued"]
    /\ UNCHANGED holder

(* QueueConsumer.reserveNext hands a queued job to one worker, which holds *)
(* no other.                                                               *)
Reserve(w, j) ==
    /\ status[j] = "queued"
    /\ \A k \in Jobs : holder[k] # w
    /\ status' = [status EXCEPT ![j] = "held"]
    /\ holder' = [holder EXCEPT ![j] = w]

(* The holder gives the job up: for good (markDone), back to the queue     *)
(* (markFailed), or by dying or dropping it.                               *)
Release(w, j, to) ==
    /\ status[j] = "held"
    /\ holder[j] = w
    /\ status' = [status EXCEPT ![j] = to]
    /\ holder' = [holder EXCEPT ![j] = NoWorker]

Complete(w, j) == Release(w, j, "done")
Requeue(w, j)  == Release(w, j, "queued")
Lose(w, j)     == Release(w, j, "lost")

Next ==
    \E j \in Jobs :
        \/ Enqueue(j)
        \/ \E w \in Workers :
            Reserve(w, j) \/ Complete(w, j) \/ Requeue(w, j) \/ Lose(w, j)

Spec == Init /\ [][Next]_vars
=============================================================================
