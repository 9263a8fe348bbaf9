----------------------------- MODULE FileQueue ------------------------------
(***************************************************************************)
(* The file queue: assistant-api writes one <time>-<uuid>.json file per    *)
(* request, a worker renames the first file by name to                     *)
(* <name>.json.processing, reads it, and at the end removes it or renames  *)
(* it back.  Each filesystem call is one step; the calls of the API        *)
(* handlers and of the workers interleave, and every process may die       *)
(* between two of its calls.                                               *)
(*                                                                         *)
(* A job is the number of its file name in localeCompare order.  Handlers  *)
(* take their names in any order: two requests of one millisecond are      *)
(* ordered by their uuid, and Date.now() may be set back.                  *)
(***************************************************************************)
EXTENDS Integers

CONSTANTS MaxJobs,     \* the number of requests
          Workers,     \* assistant-worker processes
          MayCrash     \* whether processes die

ASSUME FileQueueAssumption ==
    MaxJobs \in Nat /\ MayCrash \in BOOLEAN /\ "no_worker" \notin Workers

Jobs == 1..MaxJobs
NoJob == 0

VARIABLES request,   \* request[j]: the API handler of job j
          place,     \* place[j]: under which name the file of j exists
          content,   \* content[j]: what the file of j holds
          step,      \* step[w]: the call of the consumer worker w is in
          target,    \* target[w]: the job that call is about
          done,      \* jobs removed by markDone
          read       \* jobs whose payload some worker has parsed

vars == <<request, place, content, step, target, done, read>>

RequestStates == {"new", "named", "writing", "written", "accepted", "failed"}
InProgress == {"named", "writing", "written"}
Places == {"absent", "inbox", "processing"}
Steps == {"idle", "renaming", "reading", "holding"}

TypeOK ==
    /\ request \in [Jobs -> RequestStates]
    /\ place \in [Jobs -> Places]
    /\ content \in [Jobs -> {"empty", "full"}]
    /\ step \in [Workers -> Steps]
    /\ target \in [Workers -> Jobs \cup {NoJob}]
    /\ done \in SUBSET Jobs
    /\ read \in SUBSET Jobs

Init ==
    /\ request = [j \in Jobs |-> "new"]
    /\ place = [j \in Jobs |-> "absent"]
    /\ content = [j \in Jobs |-> "empty"]
    /\ step = [w \in Workers |-> "idle"]
    /\ target = [w \in Workers |-> NoJob]
    /\ done = {}
    /\ read = {}

-----------------------------------------------------------------------------
(* assistant-api: FileQueueAdapter.enqueue                                 *)

(* The handler is past its validation and the mkdir and has built the name.*)
PickName(j) ==
    /\ request[j] = "new"
    /\ request' = [request EXCEPT ![j] = "named"]
    /\ UNCHANGED <<place, content, step, target, done, read>>

(* writeFile opens the file: it is there, under its final name, and empty  *)
(* ("empty" stands for every incomplete content).                          *)
CreateFile(j) ==
    /\ request[j] = "named"
    /\ request' = [request EXCEPT ![j] = "writing"]
    /\ place' = [place EXCEPT ![j] = "inbox"]
    /\ UNCHANGED <<content, step, target, done, read>>

(* writeFile writes through its descriptor, whatever the file is called by *)
(* now.                                                                    *)
WriteFile(j) ==
    /\ request[j] = "writing"
    /\ request' = [request EXCEPT ![j] = "written"]
    /\ content' = [content EXCEPT ![j] = "full"]
    /\ UNCHANGED <<place, step, target, done, read>>

(* acceptConversation answers 202 once refreshQueueDepth has counted the   *)
(* directory.                                                              *)
Answer(j) ==
    /\ request[j] = "written"
    /\ request' = [request EXCEPT ![j] = "accepted"]
    /\ UNCHANGED <<place, content, step, target, done, read>>

(* A filesystem call of the handler rejects and Nest answers 500; a file   *)
(* that exists stays as it is.                                             *)
AnswerError(j) ==
    /\ request[j] \in InProgress
    /\ request' = [request EXCEPT ![j] = "failed"]
    /\ UNCHANGED <<place, content, step, target, done, read>>

(* The API process dies: every handler in progress is gone with it.        *)
ApiCrash ==
    /\ MayCrash
    /\ \E j \in Jobs : request[j] \in InProgress
    /\ request' = [j \in Jobs |->
                     IF request[j] \in InProgress THEN "failed" ELSE request[j]]
    /\ UNCHANGED <<place, content, step, target, done, read>>

-----------------------------------------------------------------------------
(* assistant-worker: FileQueueConsumerService                              *)

Inbox == {j \in Jobs : place[j] = "inbox"}

(* Mutants of ListInbox: the last name is taken, not the first; an empty   *)
(* directory is not recognised.                                            *)
ListInboxLast(w) ==
    /\ step[w] = "idle"
    /\ Inbox # {}
    /\ step' = [step EXCEPT ![w] = "renaming"]
    /\ \E j \in Inbox :
          /\ \A k \in Inbox : j >= k
          /\ target' = [target EXCEPT ![w] = j]
    /\ UNCHANGED <<request, place, content, done, read>>

ListInboxUnchecked(w) ==
    /\ step[w] = "idle"
    /\ step' = [step EXCEPT ![w] = "renaming"]
    /\ \E j \in (IF Inbox = {} THEN {-1} ELSE Inbox) :
          /\ \A k \in Inbox : j <= k
          /\ target' = [target EXCEPT ![w] = j]
    /\ UNCHANGED <<request, place, content, done, read>>

(* reserveNext: readdir, keep the .json files, sort, take the first.       *)
ListInbox(w) ==
    /\ step[w] = "idle"
    /\ Inbox # {}
    /\ step' = [step EXCEPT ![w] = "renaming"]
    /\ \E j \in Inbox :
          /\ \A k \in Inbox : j <= k
          /\ target' = [target EXCEPT ![w] = j]
    /\ UNCHANGED <<request, place, content, done, read>>

(* Mutant of RenameToProcessing: the worker takes the file it has listed   *)
(* whatever has become of it.                                              *)
RenameUnchecked(w) ==
    /\ step[w] = "renaming"
    /\ step' = [step EXCEPT ![w] = "reading"]
    /\ place' = [place EXCEPT ![target[w]] = "processing"]
    /\ UNCHANGED <<request, content, target, done, read>>

(* The rename decides between workers that listed the same file.           *)
RenameToProcessing(w) ==
    /\ step[w] = "renaming"
    /\ place[target[w]] = "inbox"
    /\ step' = [step EXCEPT ![w] = "reading"]
    /\ place' = [place EXCEPT ![target[w]] = "processing"]
    /\ UNCHANGED <<request, content, target, done, read>>

GiveUp(w) ==
    /\ step' = [step EXCEPT ![w] = "idle"]
    /\ target' = [target EXCEPT ![w] = NoJob]

(* ENOENT: another worker renamed it first.  processOnce swallows the      *)
(* error, which carries no job.                                            *)
RenameMissing(w) ==
    /\ step[w] = "renaming"
    /\ place[target[w]] # "inbox"
    /\ GiveUp(w)
    /\ UNCHANGED <<request, place, content, done, read>>

(* Mutant of ReadPayload: the payload is not parsed.                       *)
ReadPayloadUnchecked(w) ==
    /\ step[w] = "reading"
    /\ step' = [step EXCEPT ![w] = "holding"]
    /\ read' = read \cup {target[w]}
    /\ UNCHANGED <<request, place, content, target, done>>

(* readFile and JSON.parse.                                                *)
ReadPayload(w) ==
    /\ step[w] = "reading"
    /\ content[target[w]] = "full"
    /\ step' = [step EXCEPT ![w] = "holding"]
    /\ read' = read \cup {target[w]}
    /\ UNCHANGED <<request, place, content, target, done>>

(* JSON.parse throws on the incomplete file, which stays under its         *)
(* .processing name: no readdir selects it again.                          *)
ReadFails(w) ==
    /\ step[w] = "reading"
    /\ content[target[w]] = "empty"
    /\ GiveUp(w)
    /\ UNCHANGED <<request, place, content, done, read>>

(* markDone: rm with force.                                                *)
MarkDone(w) ==
    /\ step[w] = "holding"
    /\ place' = [place EXCEPT ![target[w]] = "absent"]
    /\ done' = done \cup {target[w]}
    /\ GiveUp(w)
    /\ UNCHANGED <<request, content, read>>

(* Mutant of MarkFailed: the worker goes on with the job it has put back.  *)
MarkFailedKeeps(w) ==
    /\ step[w] = "holding"
    /\ place[target[w]] = "processing"
    /\ place' = [place EXCEPT ![target[w]] = "inbox"]
    /\ UNCHANGED <<request, content, step, target, done, read>>

(* markFailed: rename back to the original name.                           *)
MarkFailed(w) ==
    /\ step[w] = "holding"
    /\ place' = [place EXCEPT ![target[w]] = "inbox"]
    /\ GiveUp(w)
    /\ UNCHANGED <<request, content, done, read>>

(* Mutant of Drop: the file is removed on every way out of processOnce.    *)
DropRemoves(w) ==
    /\ step[w] = "holding"
    /\ place' = [place EXCEPT ![target[w]] = "absent"]
    /\ GiveUp(w)
    /\ UNCHANGED <<request, content, done, read>>

(* processOnce ends on an error that is not the job, or rm fails: the file *)
(* keeps its .processing name.                                             *)
Drop(w) ==
    /\ step[w] = "holding"
    /\ GiveUp(w)
    /\ UNCHANGED <<request, place, content, done, read>>

(* The worker dies in any call and is restarted; nothing recovers the      *)
(* .processing file it leaves.                                             *)
WorkerCrash(w) ==
    /\ MayCrash
    /\ step[w] # "idle"
    /\ GiveUp(w)
    /\ UNCHANGED <<request, place, content, done, read>>

Reserve(w) ==
    \/ RenameToProcessing(w) \/ RenameMissing(w)
    \/ ReadPayload(w) \/ ReadFails(w)
Settle(w) == MarkDone(w) \/ MarkFailed(w) \/ Drop(w)

Next ==
    \/ \E j \in Jobs :
          \/ PickName(j) \/ CreateFile(j) \/ WriteFile(j)
          \/ Answer(j) \/ AnswerError(j)
    \/ ApiCrash
    \/ \E w \in Workers :
          ListInbox(w) \/ Reserve(w) \/ Settle(w) \/ WorkerCrash(w)

Spec == Init /\ [][Next]_vars

(* The poll timer fires for ever, every call of a handler or a worker      *)
(* returns, and some day no worker dies in its calls any more.  Nothing is *)
(* assumed of how the processing of a job ends.                            *)
Fairness ==
    /\ \A j \in Jobs :
          WF_vars(CreateFile(j) \/ WriteFile(j) \/ Answer(j) \/ AnswerError(j))
    /\ \A w \in Workers :
          WF_vars(ListInbox(w)) /\ WF_vars(Reserve(w)) /\ WF_vars(Settle(w))
    /\ <>[][\A w \in Workers : ~WorkerCrash(w)]_vars

FairSpec == Spec /\ Fairness

-----------------------------------------------------------------------------
Holds(w, j) == step[w] \in {"reading", "holding"} /\ target[w] = j
IsHeld(j) == \E w \in Workers : Holds(w, j)

(* Two workers that list the same file at the same moment never process it *)
(* twice: whoever is past the rename is alone, and the file is under its   *)
(* .processing name as long as it works on it.                             *)
ExclusiveReservation ==
    /\ \A v, w \in Workers, j \in Jobs : Holds(v, j) /\ Holds(w, j) => v = w
    /\ \A w \in Workers, j \in Jobs : Holds(w, j) => place[j] = "processing"

(* A job for which the API answered 202 has its complete file on disk      *)
(* until markDone removes it, whatever dies.  A worker that finishes late  *)
(* must not remove or restore a file that is no longer its own.            *)
AcceptedStaysOnDisk ==
    \A j \in Jobs :
        request[j] = "accepted" =>
            content[j] = "full" /\ (place[j] = "absent" <=> j \in done)

(* What a worker processes is complete, and is not finished already: a     *)
(* stale directory listing never brings a finished job back.               *)
OnlyWholeOpenJobs ==
    \A w \in Workers :
        step[w] = "holding" => content[target[w]] = "full" /\ target[w] \notin done

(* docs/services/queue.md: "Keep jobs until a worker reads them".  An      *)
(* accepted job that no worker has read is still waiting in the queue, or  *)
(* a worker is about to read it.                                           *)
KeptUntilRead ==
    \A j \in Jobs :
        request[j] = "accepted" /\ j \notin read => place[j] = "inbox" \/ IsHeld(j)

(* The first file by name leaves the inbox, or a smaller name arrives,     *)
(* however the workers race for it.                                        *)
FirstIsReserved ==
    \A j \in Jobs :
        place[j] = "inbox" /\ (\A k \in Inbox : j <= k)
            ~> place[j] # "inbox" \/ (\E k \in Inbox : k < j)

-----------------------------------------------------------------------------
(* The queue implements JobLifecycle: a visible file is a queued job, and  *)
(* a .processing file nobody works on is a lost one.                       *)
StatusOf(j) ==
    IF place[j] = "inbox" THEN "queued"
    ELSE IF IsHeld(j) THEN "held"
    ELSE IF place[j] = "processing" THEN "lost"
    ELSE IF j \in done THEN "done"
    ELSE "new"

HolderOf(j) ==
    IF IsHeld(j) THEN CHOOSE w \in Workers : Holds(w, j) ELSE "no_worker"

Lifecycle == INSTANCE JobLifecycle WITH
    status <- [j \in Jobs |-> StatusOf(j)],
    holder <- [j \in Jobs |-> HolderOf(j)]

(* Every filesystem call is a step of the abstract job life cycle or       *)
(* leaves it alone.                                                        *)
ImplementsLifecycle == Lifecycle!Spec
=============================================================================
