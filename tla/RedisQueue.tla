----------------------------- MODULE RedisQueue -----------------------------
(***************************************************************************)
(* The default queue.  Handlers of assistant-api (one per POST             *)
(* /conversation request, all in one process) push on the right end of a   *)
(* Redis list; assistant-worker processes pop from the right end too and   *)
(* put a failed job back on the left end.  Every Redis command is atomic;  *)
(* the steps of different handlers and workers interleave between them.    *)
(***************************************************************************)
EXTENDS Integers, Sequences

CONSTANTS Jobs,      \* one job per POST /conversation request
          Workers,   \* assistant-worker processes
          NoJob      \* hold[w] of a worker that processes nothing

ASSUME NoJobAssumption == NoJob \notin Jobs /\ "no_worker" \notin Workers

VARIABLES request,   \* request[j]: the API handler of job j
          list,      \* the Redis list, left end first
          hold,      \* hold[w]: the job whose payload worker w has popped
          fate,      \* fate[j]: how job j left the queue for good
          retried    \* jobs that have been through markFailed

vars == <<request, list, hold, fate, retried>>

RequestStates == {"new", "enqueueing", "pushed", "accepted", "failed", "rejected"}
Fates == {"open", "done", "dropped", "crashed"}

InList(j) == \E i \in 1..Len(list) : list[i] = j
IsHeld(j) == \E w \in Workers : hold[w] = j

TypeOK ==
    /\ request \in [Jobs -> RequestStates]
    /\ list \in Seq(Jobs)
    /\ hold \in [Workers -> Jobs \cup {NoJob}]
    /\ fate \in [Jobs -> Fates]
    /\ retried \in SUBSET Jobs

Init ==
    /\ request = [j \in Jobs |-> "new"]
    /\ list = <<>>
    /\ hold = [w \in Workers |-> NoJob]
    /\ fate = [j \in Jobs |-> "open"]
    /\ retried = {}

-----------------------------------------------------------------------------
(* assistant-api: ConversationController.acceptConversation                *)

(* The request arrives.  An empty message, host or conversation id is      *)
(* answered 400 before anything is queued.                                 *)
AcceptConversation(j) ==
    /\ request[j] = "new"
    /\ \E answer \in {"enqueueing", "rejected"} :
          request' = [request EXCEPT ![j] = answer]
    /\ UNCHANGED <<list, hold, fate, retried>>

(* RedisQueueAdapter.enqueue: RPUSH.                                       *)
Enqueue(j) ==
    /\ request[j] = "enqueueing"
    /\ request' = [request EXCEPT ![j] = "pushed"]
    /\ list' = Append(list, j)
    /\ UNCHANGED <<hold, fate, retried>>

(* Mutant of Answer: enqueue is not awaited.                               *)
AnswerUnawaited(j) ==
    /\ request[j] \in {"enqueueing", "pushed"}
    /\ request' = [request EXCEPT ![j] = "accepted"]
    /\ UNCHANGED <<list, hold, fate, retried>>

(* refreshQueueDepth after the push: its LLEN answers and the handler      *)
(* returns 202.                                                            *)
Answer(j) ==
    /\ request[j] = "pushed"
    /\ request' = [request EXCEPT ![j] = "accepted"]
    /\ UNCHANGED <<list, hold, fate, retried>>

(* The awaited Redis command rejects and Nest answers 500.  From "pushed"  *)
(* the job is in the queue all the same.                                   *)
AnswerError(j) ==
    /\ request[j] \in {"enqueueing", "pushed"}
    /\ request' = [request EXCEPT ![j] = "failed"]
    /\ UNCHANGED <<list, hold, fate, retried>>

(* The API process dies: every handler in progress is gone with it.        *)
ApiCrash ==
    /\ \E j \in Jobs : request[j] \in {"enqueueing", "pushed"}
    /\ request' = [j \in Jobs |-> IF request[j] \in {"enqueueing", "pushed"}
                                  THEN "failed" ELSE request[j]]
    /\ UNCHANGED <<list, hold, fate, retried>>

-----------------------------------------------------------------------------
(* assistant-worker: RedisQueueConsumerService                             *)

(* Mutants of ReserveNext: the element is read and not popped; a timeout   *)
(* without an element is not recognised.                                   *)
ReserveNextPeeks(w) ==
    /\ hold[w] = NoJob
    /\ list # <<>>
    /\ hold' = [hold EXCEPT ![w] = list[Len(list)]]
    /\ UNCHANGED <<request, list, fate, retried>>

ReserveNextUnchecked(w) ==
    /\ hold[w] = NoJob
    /\ hold' = [hold EXCEPT ![w] = IF list = <<>> THEN "null" ELSE list[Len(list)]]
    /\ list' = SubSeq(list, 1, Len(list) - 1)
    /\ UNCHANGED <<request, fate, retried>>

(* BRPOP takes the rightmost element; the payload now exists only in the   *)
(* memory of the worker.                                                   *)
ReserveNext(w) ==
    /\ hold[w] = NoJob
    /\ list # <<>>
    /\ hold' = [hold EXCEPT ![w] = list[Len(list)]]
    /\ list' = SubSeq(list, 1, Len(list) - 1)
    /\ UNCHANGED <<request, fate, retried>>

(* markDone does nothing in Redis: the job has already been popped.        *)
MarkDone(w) ==
    /\ hold[w] # NoJob
    /\ fate' = [fate EXCEPT ![hold[w]] = "done"]
    /\ hold' = [hold EXCEPT ![w] = NoJob]
    /\ UNCHANGED <<request, list, retried>>

(* Mutants of MarkFailed: RPUSH puts the job where it is popped next; the  *)
(* worker goes on with the job it has put back.                            *)
MarkFailedRight(w) ==
    /\ hold[w] # NoJob
    /\ list' = Append(list, hold[w])
    /\ retried' = retried \cup {hold[w]}
    /\ hold' = [hold EXCEPT ![w] = NoJob]
    /\ UNCHANGED <<request, fate>>

MarkFailedKeeps(w) ==
    /\ hold[w] # NoJob
    /\ ~InList(hold[w])
    /\ list' = <<hold[w]>> \o list
    /\ retried' = retried \cup {hold[w]}
    /\ UNCHANGED <<request, hold, fate>>

(* markFailed: LPUSH on the other end.                                     *)
MarkFailed(w) ==
    /\ hold[w] # NoJob
    /\ list' = <<hold[w]>> \o list
    /\ retried' = retried \cup {hold[w]}
    /\ hold' = [hold EXCEPT ![w] = NoJob]
    /\ UNCHANGED <<request, fate>>

(* processOnce ends on an error that is not the job (the configuration or  *)
(* the conversation could not be read): neither markDone nor markFailed.   *)
Drop(w) ==
    /\ hold[w] # NoJob
    /\ fate' = [fate EXCEPT ![hold[w]] = "dropped"]
    /\ hold' = [hold EXCEPT ![w] = NoJob]
    /\ UNCHANGED <<request, list, retried>>

(* The worker process dies with the job in memory and is restarted.        *)
WorkerCrash(w) ==
    /\ hold[w] # NoJob
    /\ fate' = [fate EXCEPT ![hold[w]] = "crashed"]
    /\ hold' = [hold EXCEPT ![w] = NoJob]
    /\ UNCHANGED <<request, list, retried>>

Settle(w) == MarkDone(w) \/ MarkFailed(w) \/ Drop(w)

Next ==
    \/ \E j \in Jobs :
          AcceptConversation(j) \/ Enqueue(j) \/ Answer(j) \/ AnswerError(j)
    \/ ApiCrash
    \/ \E w \in Workers : ReserveNext(w) \/ Settle(w) \/ WorkerCrash(w)

Spec == Init /\ [][Next]_vars

(* The poll timer of a worker fires for ever and every await settles; a    *)
(* handler of the API runs to its answer.  Nothing is assumed of how a job *)
(* ends: a job may fail every time it is tried.                            *)
Fairness ==
    /\ \A w \in Workers : WF_vars(ReserveNext(w)) /\ WF_vars(Settle(w))
    /\ \A j \in Jobs : WF_vars(Enqueue(j) \/ AnswerError(j)) /\ WF_vars(Answer(j))

FairSpec == Spec /\ Fairness

-----------------------------------------------------------------------------
(* A job is in one place at a time: never twice in the list, never in the  *)
(* list and with a worker, never with two workers, and nowhere once it is  *)
(* settled.  Two workers popping, failing and crashing at once must not    *)
(* duplicate a job.                                                        *)
ExclusiveReservation ==
    /\ \A i, k \in 1..Len(list) : list[i] = list[k] => i = k
    /\ \A v, w \in Workers : hold[v] = hold[w] /\ hold[v] # NoJob => v = w
    /\ \A j \in Jobs : ~(InList(j) /\ IsHeld(j))
    /\ \A j \in Jobs : InList(j) \/ IsHeld(j) => fate[j] = "open"

(* What the API knows of a request agrees with where its job is: a job     *)
(* answered 202 is in the list, with a worker, or settled, and a job whose *)
(* enqueue has not run is nowhere, not even as a leftover of a retry.      *)
RequestsAccounted ==
    \A j \in Jobs :
        /\ request[j] \in {"pushed", "accepted"} =>
              InList(j) \/ IsHeld(j) \/ fate[j] # "open"
        /\ request[j] \in {"new", "enqueueing", "rejected"} =>
              ~InList(j) /\ ~IsHeld(j) /\ fate[j] = "open" /\ j \notin retried

(* The retried jobs stay at the left end of the list, so that BRPOP takes  *)
(* every job not yet tried before it tries one again: a job that always    *)
(* fails cannot block the others.                                          *)
FreshBeforeRetried ==
    \A i, k \in 1..Len(list) : i < k /\ list[k] \in retried => list[i] \in retried

(* The four invariants are inductive together; RedisQueueProofs proves it. *)
IInv == TypeOK /\ ExclusiveReservation /\ RequestsAccounted /\ FreshBeforeRetried

(* From some moment on no new job is pushed.  The queue needs this: RPUSH  *)
(* and BRPOP work on the same end, so that while pushes keep coming, the   *)
(* newest job is always the next one, and older and retried ones wait.     *)
ArrivalsEnd == <>[][\A j \in Jobs : ~Enqueue(j)]_vars

(* Once pushes cease, every job in the list is reserved some day, even if  *)
(* every job fails every time: LPUSH makes the retries round-robin.        *)
QueuedIsReserved ==
    ArrivalsEnd => \A j \in Jobs : InList(j) ~> ~InList(j)

-----------------------------------------------------------------------------
(* The queue implements JobLifecycle.                                      *)
StatusOf(j) ==
    IF InList(j) THEN "queued"
    ELSE IF IsHeld(j) THEN "held"
    ELSE IF fate[j] = "done" THEN "done"
    ELSE IF fate[j] # "open" THEN "lost"
    ELSE "new"

HolderOf(j) ==
    IF IsHeld(j) THEN CHOOSE w \in Workers : hold[w] = j ELSE "no_worker"

Lifecycle == INSTANCE JobLifecycle WITH
    status <- [j \in Jobs |-> StatusOf(j)],
    holder <- [j \in Jobs |-> HolderOf(j)]

(* Every step of the API, of Redis and of the workers is a step of the     *)
(* abstract job life cycle.                                                *)
ImplementsLifecycle == Lifecycle!Spec
=============================================================================
