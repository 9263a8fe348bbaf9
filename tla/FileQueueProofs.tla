--------------------------- MODULE FileQueueProofs --------------------------
(***************************************************************************)
(* FileQueue is correct for every number of requests and workers: its      *)
(* invariants hold, and it implements JobLifecycle.                        *)
(***************************************************************************)
EXTENDS FileQueue, TLAPS

(* What the invariants rest on: a worker in a call has a job, and how far  *)
(* the API handler of a job and its workers have come tells which file     *)
(* there is and what it holds.                                             *)
BusyHasTarget == \A w \in Workers : step[w] # "idle" => target[w] \in Jobs

FilesAgree ==
    \A j \in Jobs :
        /\ request[j] \in {"new", "named"} => place[j] = "absent" /\ j \notin done
        /\ request[j] \in {"written", "accepted"} => content[j] = "full"
        /\ j \in done => place[j] = "absent"
        /\ place[j] = "absent" /\ j \notin done => request[j] \in {"new", "named", "failed"}

IInv ==
    /\ TypeOK
    /\ BusyHasTarget
    /\ ExclusiveReservation
    /\ FilesAgree
    /\ OnlyWholeOpenJobs

-----------------------------------------------------------------------------
LEMMA NoJobIsNoJob == NoJob \notin Jobs
  BY DEF NoJob, Jobs

(* The type invariant, and that a worker in a call has a job.              *)
LEMMA TypeStep ==
    ASSUME IInv, [Next]_vars
    PROVE  TypeOK' /\ BusyHasTarget'
  <1> USE DEF IInv, TypeOK, BusyHasTarget, RequestStates, InProgress, Places, Steps
  <1>1. ASSUME NEW j \in Jobs,
               PickName(j) \/ CreateFile(j) \/ WriteFile(j) \/ Answer(j) \/ AnswerError(j)
        PROVE  TypeOK' /\ BusyHasTarget'
    BY <1>1 DEF PickName, CreateFile, WriteFile, Answer, AnswerError
  <1>2. CASE ApiCrash
    BY <1>2 DEF ApiCrash
  <1>3. ASSUME NEW w \in Workers, ListInbox(w) PROVE TypeOK' /\ BusyHasTarget'
    BY <1>3 DEF ListInbox, Inbox
  <1>4. ASSUME NEW w \in Workers, RenameToProcessing(w) \/ ReadPayload(w)
        PROVE  TypeOK' /\ BusyHasTarget'
    BY <1>4 DEF RenameToProcessing, ReadPayload
  <1>5. ASSUME NEW w \in Workers, RenameMissing(w) \/ ReadFails(w) \/ Settle(w) \/ WorkerCrash(w)
        PROVE  TypeOK' /\ BusyHasTarget'
    BY <1>5
       DEF RenameMissing, ReadFails, Settle, MarkDone, MarkFailed, Drop, WorkerCrash, GiveUp
  <1>6. CASE UNCHANGED vars
    BY <1>6 DEF vars
  <1> QED BY <1>1, <1>2, <1>3, <1>4, <1>5, <1>6 DEF Next, Reserve

-----------------------------------------------------------------------------
(* Who works on which job after a step of worker w.                        *)
LEMMA OthersHold ==
    ASSUME NEW w \in Workers,
           \A v \in Workers : v # w => step'[v] = step[v] /\ target'[v] = target[v]
    PROVE  \A v \in Workers, j \in Jobs : v # w => (Holds(v, j)' <=> Holds(v, j))
  BY DEF Holds

LEMMA GiveUpEffect ==
    ASSUME TypeOK, BusyHasTarget, NEW w \in Workers, GiveUp(w)
    PROVE  /\ \A v \in Workers, j \in Jobs : Holds(v, j)' <=> Holds(v, j) /\ v # w
           /\ step'[w] = "idle"
           /\ \A v \in Workers : v # w => step'[v] = step[v] /\ target'[v] = target[v]
  BY DEF TypeOK, GiveUp, Holds

(* The steps of the API handlers, which touch no .processing file: they    *)
(* create files and complete them.                                         *)
LEMMA ApiEffect ==
    ASSUME IInv,
           \/ \E j \in Jobs : \/ PickName(j) \/ CreateFile(j) \/ WriteFile(j)
                              \/ Answer(j) \/ AnswerError(j)
           \/ ApiCrash
    PROVE  /\ step' = step /\ target' = target /\ done' = done
           /\ FilesAgree'
           /\ \A j \in Jobs : /\ place[j] = "processing" => place'[j] = "processing"
                              /\ content[j] = "full" => content'[j] = "full"
  <1> USE DEF IInv, TypeOK, FilesAgree, InProgress
  <1>1. ASSUME NEW j \in Jobs, PickName(j) \/ Answer(j) \/ AnswerError(j)
        PROVE  /\ step' = step /\ target' = target /\ done' = done
               /\ FilesAgree'
               /\ place' = place /\ content' = content
    BY <1>1 DEF PickName, Answer, AnswerError
  <1>2. ASSUME NEW j \in Jobs, CreateFile(j)
        PROVE  /\ step' = step /\ target' = target /\ done' = done
               /\ FilesAgree'
               /\ content' = content
               /\ \A k \in Jobs : place[k] = "processing" => place'[k] = "processing"
    BY <1>2 DEF CreateFile
  <1>3. ASSUME NEW j \in Jobs, WriteFile(j)
        PROVE  /\ step' = step /\ target' = target /\ done' = done
               /\ FilesAgree'
               /\ place' = place
               /\ \A k \in Jobs : content[k] = "full" => content'[k] = "full"
    BY <1>3 DEF WriteFile
  <1>4. CASE ApiCrash
    BY <1>4 DEF ApiCrash
  <1> QED BY <1>1, <1>2, <1>3, <1>4

(* No step puts two workers on one file.                                   *)
LEMMA ExclusiveStep ==
    ASSUME IInv, [Next]_vars
    PROVE  ExclusiveReservation'
  <1> USE DEF IInv
  <1>1. ASSUME step' = step, target' = target,
               \A j \in Jobs : place[j] = "processing" => place'[j] = "processing"
        PROVE  ExclusiveReservation'
    BY <1>1 DEF ExclusiveReservation, Holds
  <1>2. ASSUME NEW w \in Workers, ListInbox(w) PROVE ExclusiveReservation'
    <2>1. \A v \in Workers, j \in Jobs : Holds(v, j)' <=> Holds(v, j)
      BY <1>2 DEF ListInbox, Holds, TypeOK
    <2> QED BY <1>2, <2>1 DEF ListInbox, ExclusiveReservation
  <1>3. ASSUME NEW w \in Workers, RenameToProcessing(w) PROVE ExclusiveReservation'
    <2>1. \A v \in Workers, j \in Jobs :
              Holds(v, j)' <=> Holds(v, j) \/ (v = w /\ j = target[w])
      BY <1>3 DEF RenameToProcessing, Holds, TypeOK
    <2>2. \A v \in Workers : ~Holds(v, target[w])
      BY <1>3 DEF RenameToProcessing, ExclusiveReservation, BusyHasTarget
    <2>3. \A j \in Jobs : place'[j] = IF j = target[w] THEN "processing" ELSE place[j]
      BY <1>3 DEF RenameToProcessing, TypeOK
    <2> QED BY <2>1, <2>2, <2>3 DEF ExclusiveReservation
  <1>4. ASSUME NEW w \in Workers, ReadPayload(w) PROVE ExclusiveReservation'
    <2>1. \A v \in Workers, j \in Jobs : Holds(v, j)' <=> Holds(v, j)
      BY <1>4 DEF ReadPayload, Holds, TypeOK
    <2> QED BY <1>4, <2>1 DEF ReadPayload, ExclusiveReservation
  <1>5. ASSUME NEW w \in Workers, RenameMissing(w) \/ ReadFails(w) \/ Drop(w) \/ WorkerCrash(w)
        PROVE  ExclusiveReservation'
    <2>1. GiveUp(w) /\ place' = place
      BY <1>5 DEF RenameMissing, ReadFails, Drop, WorkerCrash
    <2> QED BY <2>1, GiveUpEffect DEF ExclusiveReservation
  <1>6. ASSUME NEW w \in Workers, MarkDone(w) \/ MarkFailed(w)
        PROVE  ExclusiveReservation'
    <2>1. GiveUp(w) /\ \A j \in Jobs : j # target[w] => place'[j] = place[j]
      BY <1>6 DEF MarkDone, MarkFailed, TypeOK
    <2>2. Holds(w, target[w]) /\ target[w] \in Jobs
      BY <1>6 DEF MarkDone, MarkFailed, Holds, BusyHasTarget
    <2> QED BY <2>1, <2>2, GiveUpEffect DEF ExclusiveReservation
  <1>7. CASE UNCHANGED vars
    BY <1>1, <1>7 DEF vars
  <1> QED
    BY <1>1, <1>2, <1>3, <1>4, <1>5, <1>6, <1>7, ApiEffect DEF Next, Reserve, Settle

(* The states of handlers, files and finished jobs stay in agreement.      *)
LEMMA FilesStep ==
    ASSUME IInv, [Next]_vars
    PROVE  FilesAgree'
  <1> USE DEF IInv
  <1>1. ASSUME request' = request, place' = place, content' = content, done' = done
        PROVE  FilesAgree'
    BY <1>1 DEF FilesAgree
  <1>2. ASSUME NEW w \in Workers,
               \/ ListInbox(w) \/ RenameMissing(w) \/ ReadPayload(w)
               \/ ReadFails(w) \/ Drop(w) \/ WorkerCrash(w)
        PROVE  FilesAgree'
    BY <1>1, <1>2 DEF ListInbox, RenameMissing, ReadPayload, ReadFails, Drop, WorkerCrash
  <1>3. ASSUME NEW w \in Workers, RenameToProcessing(w) PROVE FilesAgree'
    BY <1>3 DEF RenameToProcessing, FilesAgree, TypeOK, BusyHasTarget
  <1>4. ASSUME NEW w \in Workers, MarkDone(w) \/ MarkFailed(w) PROVE FilesAgree'
    <2>1. target[w] \in Jobs /\ place[target[w]] = "processing"
      BY <1>4 DEF MarkDone, MarkFailed, Holds, ExclusiveReservation, BusyHasTarget
    <2>2. target[w] \notin done /\ request[target[w]] \notin {"new", "named"}
      BY <2>1 DEF FilesAgree
    <2>3. /\ request' = request /\ content' = content
          /\ \A j \in Jobs : j # target[w] =>
                 place'[j] = place[j] /\ (j \in done' <=> j \in done)
          /\ \/ place'[target[w]] = "absent" /\ target[w] \in done'
             \/ place'[target[w]] = "inbox" /\ target[w] \notin done'
      BY <1>4, <2>1, <2>2 DEF MarkDone, MarkFailed, TypeOK
    <2> QED BY <2>2, <2>3 DEF FilesAgree
  <1>5. CASE UNCHANGED vars
    BY <1>1, <1>5 DEF vars
  <1> QED BY <1>2, <1>3, <1>4, <1>5, ApiEffect DEF Next, Reserve, Settle

(* A worker goes on with complete, open jobs only.                         *)
LEMMA WholeOpenStep ==
    ASSUME IInv, [Next]_vars
    PROVE  OnlyWholeOpenJobs'
  <1> USE DEF IInv
  <1>1. ASSUME step' = step, target' = target, done' = done,
               \A j \in Jobs : content[j] = "full" => content'[j] = "full"
        PROVE  OnlyWholeOpenJobs'
    BY <1>1 DEF OnlyWholeOpenJobs, BusyHasTarget
  <1>2. ASSUME NEW w \in Workers, ListInbox(w) \/ RenameToProcessing(w)
        PROVE  OnlyWholeOpenJobs'
    BY <1>2 DEF ListInbox, RenameToProcessing, OnlyWholeOpenJobs, TypeOK
  <1>3. ASSUME NEW w \in Workers, ReadPayload(w) PROVE OnlyWholeOpenJobs'
    <2>1. place[target[w]] = "processing" /\ target[w] \in Jobs
      BY <1>3 DEF ReadPayload, Holds, ExclusiveReservation, BusyHasTarget
    <2>2. target[w] \notin done
      BY <2>1 DEF FilesAgree
    <2> QED BY <1>3, <2>2 DEF ReadPayload, OnlyWholeOpenJobs, TypeOK
  <1>4. ASSUME NEW w \in Workers, GiveUp(w), content' = content,
               \A v \in Workers : v # w /\ step[v] = "holding" /\ target[v] \notin done
                                  => target[v] \notin done'
        PROVE  OnlyWholeOpenJobs'
    BY <1>4, GiveUpEffect DEF OnlyWholeOpenJobs
  <1>5. ASSUME NEW w \in Workers,
               RenameMissing(w) \/ ReadFails(w) \/ MarkFailed(w) \/ Drop(w) \/ WorkerCrash(w)
        PROVE  OnlyWholeOpenJobs'
    BY <1>4, <1>5 DEF RenameMissing, ReadFails, MarkFailed, Drop, WorkerCrash
  <1>6. ASSUME NEW w \in Workers, MarkDone(w) PROVE OnlyWholeOpenJobs'
    <2>1. \A v \in Workers : v # w /\ step[v] = "holding" => target[v] # target[w]
      BY <1>6 DEF MarkDone, Holds, ExclusiveReservation, BusyHasTarget
    <2> QED BY <1>4, <1>6, <2>1 DEF MarkDone
  <1>7. CASE UNCHANGED vars
    BY <1>1, <1>7 DEF vars
  <1> QED BY <1>1, <1>2, <1>3, <1>5, <1>6, <1>7, ApiEffect DEF Next, Reserve, Settle

(* In every reachable state of the directory a reserved file has one       *)
(* worker and is under its .processing name, files agree with the answers  *)
(* of the API, and what is processed is complete and open.                 *)
THEOREM InvariantHolds == Spec => []IInv
  <1>1. Init => IInv
    BY DEF Init, IInv, TypeOK, BusyHasTarget, ExclusiveReservation, FilesAgree,
           OnlyWholeOpenJobs, Holds, RequestStates, Places, Steps
  <1>2. IInv /\ [Next]_vars => IInv'
    BY TypeStep, ExclusiveStep, FilesStep, WholeOpenStep DEF IInv
  <1> QED BY <1>1, <1>2, PTL DEF Spec

(* The handlers and workers keep to their steps and the files to their     *)
(* names, for any number of either: TypeOK.                                *)
THEOREM FilesTypeCorrect == Spec => []TypeOK
  <1>1. IInv => TypeOK
    BY DEF IInv
  <1> QED BY <1>1, InvariantHolds, PTL

(* The rename decides every race between workers: ExclusiveReservation.    *)
THEOREM ReservationIsExclusive == Spec => []ExclusiveReservation
  <1>1. IInv => ExclusiveReservation
    BY DEF IInv
  <1> QED BY <1>1, InvariantHolds, PTL

(* An accepted job keeps its complete file until markDone, whatever dies:  *)
(* AcceptedStaysOnDisk.                                                    *)
THEOREM AcceptedIsKept == Spec => []AcceptedStaysOnDisk
  <1>1. IInv => AcceptedStaysOnDisk
    BY DEF IInv, FilesAgree, AcceptedStaysOnDisk
  <1> QED BY <1>1, InvariantHolds, PTL

(* No worker processes an incomplete or a finished job: OnlyWholeOpenJobs. *)
THEOREM HeldIsWholeAndOpen == Spec => []OnlyWholeOpenJobs
  <1>1. IInv => OnlyWholeOpenJobs
    BY DEF IInv
  <1> QED BY <1>1, InvariantHolds, PTL

-----------------------------------------------------------------------------
(* The refinement of JobLifecycle.                                         *)
StatusMap == [j \in Jobs |-> StatusOf(j)]
HolderMap == [j \in Jobs |-> HolderOf(j)]

LEMMA HolderIs ==
    ASSUME ExclusiveReservation, NEW w \in Workers, NEW j \in Jobs, Holds(w, j)
    PROVE  HolderOf(j) = w
  <1>1. \A v \in Workers : Holds(v, j) <=> v = w
    BY DEF ExclusiveReservation
  <1>2. (CHOOSE v \in Workers : Holds(v, j)) = w
    <2>1. \E v \in Workers : Holds(v, j)
      OBVIOUS
    <2>2. Holds((CHOOSE v \in Workers : Holds(v, j)), j)
          /\ (CHOOSE v \in Workers : Holds(v, j)) \in Workers
      BY <2>1, Zenon
    <2> QED BY <1>1, <2>2
  <1>3. IsHeld(j)
    BY DEF IsHeld
  <1> QED BY <1>2, <1>3, Zenon DEF HolderOf

LEMMA NotHolder ==
    ASSUME ExclusiveReservation, NEW w \in Workers, NEW j \in Jobs, ~Holds(w, j)
    PROVE  HolderOf(j) # w
  <1>1. CASE IsHeld(j)
    <2>1. PICK v \in Workers : Holds(v, j)
      BY <1>1 DEF IsHeld
    <2> QED BY <2>1, HolderIs
  <1>2. CASE ~IsHeld(j)
    BY <1>2, FileQueueAssumption DEF HolderOf
  <1> QED BY <1>1, <1>2

(* A step that changes neither the file nor the workers of a job keeps its *)
(* abstract status and holder.                                             *)
LEMMA SameJob ==
    ASSUME NEW j \in Jobs, place'[j] = place[j], j \in done' <=> j \in done,
           \A v \in Workers : Holds(v, j)' <=> Holds(v, j)
    PROVE  StatusOf(j)' = StatusOf(j) /\ HolderOf(j)' = HolderOf(j)
  <1>1. IsHeld(j)' <=> IsHeld(j)
    BY DEF IsHeld
  <1>2. StatusOf(j)' = StatusOf(j)
    BY <1>1 DEF StatusOf
  <1> DEFINE Now(v) == step[v] \in {"reading", "holding"} /\ target[v] = j
             Then(v) == step'[v] \in {"reading", "holding"} /\ target'[v] = j
  <1>3. HolderOf(j) = IF IsHeld(j) THEN CHOOSE v \in Workers : Now(v) ELSE "no_worker"
    BY Zenon DEF HolderOf, Holds
  <1>4. HolderOf(j)' = IF IsHeld(j)' THEN CHOOSE v \in Workers : Then(v) ELSE "no_worker"
    BY Zenon DEF HolderOf, Holds
  <1>5. (CHOOSE v \in Workers : Then(v)) = (CHOOSE v \in Workers : Now(v))
    BY DEF Holds
  <1> HIDE DEF Now, Then
  <1>6. CASE IsHeld(j)
    BY <1>1, <1>2, <1>3, <1>4, <1>5, <1>6, Zenon
  <1>7. CASE ~IsHeld(j)
    BY <1>1, <1>2, <1>3, <1>4, <1>7, Zenon
  <1> QED BY <1>6, <1>7

(* Steps that keep files and holders stutter.                              *)
LEMMA StutterRefines ==
    ASSUME place' = place, done' = done,
           \A v \in Workers, j \in Jobs : Holds(v, j)' <=> Holds(v, j)
    PROVE  UNCHANGED <<StatusMap, HolderMap>>
  <1>1. \A j \in Jobs : StatusOf(j)' = StatusOf(j) /\ HolderOf(j)' = HolderOf(j)
    BY SameJob
  <1> QED BY <1>1 DEF StatusMap, HolderMap

(* A worker that gives up the file it works on releases the job.           *)
LEMMA ReleaseRefines ==
    ASSUME IInv, IInv', NEW w \in Workers, NEW j \in Jobs, Holds(w, j), GiveUp(w),
           NEW to \in {"done", "queued", "lost"},
           StatusOf(j)' = to,
           \A k \in Jobs : k # j => place'[k] = place[k] /\ (k \in done' <=> k \in done)
    PROVE  Lifecycle!Next
  <1>1. \A v \in Workers, k \in Jobs : Holds(v, k)' <=> Holds(v, k) /\ v # w
    BY GiveUpEffect DEF IInv
  <1>2. \A v \in Workers : Holds(v, j) <=> v = w
    BY DEF IInv, ExclusiveReservation
  <1>3. \A k \in Jobs : k # j => ~Holds(w, k)
    BY DEF Holds
  <1>4. \A k \in Jobs : k # j => StatusOf(k)' = StatusOf(k) /\ HolderOf(k)' = HolderOf(k)
    BY <1>1, <1>3, SameJob
  <1>5. HolderOf(j)' = "no_worker"
    <2>1. ~IsHeld(j)'
      BY <1>1, <1>2 DEF IsHeld
    <2> QED BY <2>1 DEF HolderOf
  <1>6. StatusOf(j) = "held" /\ HolderOf(j) = w
    BY HolderIs DEF StatusOf, IInv, ExclusiveReservation, IsHeld
  <1>7. StatusMap' = [StatusMap EXCEPT ![j] = to]
    BY <1>4 DEF StatusMap
  <1>8. HolderMap' = [HolderMap EXCEPT ![j] = "no_worker"]
    BY <1>4, <1>5 DEF HolderMap
  <1>9. Lifecycle!Release(w, j, to)
    BY <1>6, <1>7, <1>8 DEF Lifecycle!Release, Lifecycle!NoWorker, StatusMap, HolderMap
  <1> QED BY <1>9 DEF Lifecycle!Next, Lifecycle!Complete, Lifecycle!Requeue, Lifecycle!Lose

LEMMA CreateRefines ==
    ASSUME IInv, NEW j \in Jobs, CreateFile(j)
    PROVE  Lifecycle!Next
  <1> USE DEF IInv
  <1>1. place[j] = "absent" /\ j \notin done
    BY DEF CreateFile, FilesAgree
  <1>2. \A v \in Workers : ~Holds(v, j)
    BY <1>1 DEF ExclusiveReservation
  <1>3. /\ place'[j] = "inbox" /\ done' = done
        /\ \A k \in Jobs : k # j => place'[k] = place[k]
        /\ \A v \in Workers, k \in Jobs : Holds(v, k)' <=> Holds(v, k)
    BY DEF CreateFile, TypeOK, Holds
  <1>4. \A k \in Jobs : k # j => StatusOf(k)' = StatusOf(k) /\ HolderOf(k)' = HolderOf(k)
    BY <1>3, SameJob
  <1>5. StatusOf(j) = "new" /\ StatusOf(j)' = "queued"
    BY <1>1, <1>2, <1>3 DEF StatusOf, IsHeld
  <1>6. HolderOf(j)' = HolderOf(j)
    BY <1>2, <1>3 DEF HolderOf, IsHeld
  <1>7. StatusMap' = [StatusMap EXCEPT ![j] = "queued"] /\ HolderMap' = HolderMap
    BY <1>4, <1>5, <1>6 DEF StatusMap, HolderMap
  <1> QED
    BY <1>5, <1>7 DEF Lifecycle!Next, Lifecycle!Enqueue, StatusMap, HolderMap

LEMMA RenameRefines ==
    ASSUME IInv, IInv', NEW w \in Workers, RenameToProcessing(w)
    PROVE  Lifecycle!Next
  <1> USE DEF IInv
  <1>1. PICK j \in Jobs : j = target[w]
    BY DEF RenameToProcessing, BusyHasTarget
  <1>2. /\ place[j] = "inbox" /\ place'[j] = "processing" /\ done' = done
        /\ \A k \in Jobs : k # j => place'[k] = place[k]
    BY <1>1 DEF RenameToProcessing, TypeOK
  <1>3. /\ \A k \in Jobs : ~Holds(w, k)
        /\ \A v \in Workers, k \in Jobs : Holds(v, k)' <=> Holds(v, k) \/ (v = w /\ k = j)
    BY <1>1 DEF RenameToProcessing, TypeOK, Holds
  <1>4. \A k \in Jobs : k # j => StatusOf(k)' = StatusOf(k) /\ HolderOf(k)' = HolderOf(k)
    BY <1>2, <1>3, SameJob
  <1>5. StatusOf(j) = "queued"
    BY <1>2 DEF StatusOf
  <1>6. StatusOf(j)' = "held"
    BY <1>2, <1>3 DEF StatusOf, IsHeld
  <1>7. HolderOf(j)' = w
    <2>1. Holds(w, j)'
      BY <1>3
    <2>2. IsHeld(j)'
      BY <2>1 DEF IsHeld
    <2> DEFINE Then(v) == step'[v] \in {"reading", "holding"} /\ target'[v] = j
    <2>3. HolderOf(j)' = IF IsHeld(j)' THEN CHOOSE v \in Workers : Then(v) ELSE "no_worker"
      BY Zenon DEF HolderOf, Holds
    <2>4. \A v \in Workers : Then(v) <=> v = w
      BY <2>1 DEF ExclusiveReservation, Holds
    <2> HIDE DEF Then
    <2>5. (CHOOSE v \in Workers : Then(v)) = w
      BY <2>4
    <2> QED BY <2>2, <2>3, <2>5
  <1>8. StatusMap' = [StatusMap EXCEPT ![j] = "held"]
    BY <1>4, <1>6 DEF StatusMap
  <1>9. HolderMap' = [HolderMap EXCEPT ![j] = w]
    BY <1>4, <1>7 DEF HolderMap
  <1>10. \A k \in Jobs : HolderMap[k] # w
    BY <1>3, NotHolder DEF HolderMap
  <1> QED
    BY <1>5, <1>8, <1>9, <1>10
       DEF Lifecycle!Next, Lifecycle!Reserve, StatusMap, HolderMap

LEMMA SettleRefines ==
    ASSUME IInv, IInv', NEW w \in Workers,
           \/ Settle(w) \/ ReadFails(w)
           \/ WorkerCrash(w) /\ step[w] # "renaming"
    PROVE  Lifecycle!Next
  <1> USE DEF IInv
  <1>1. GiveUp(w) /\ step[w] \in {"reading", "holding"}
    BY DEF Settle, MarkDone, MarkFailed, Drop, ReadFails, WorkerCrash, TypeOK, Steps
  <1>2. PICK j \in Jobs : j = target[w]
    BY <1>1 DEF BusyHasTarget
  <1>3. /\ Holds(w, j) /\ place[j] = "processing" /\ j \notin done
    BY <1>1, <1>2 DEF Holds, ExclusiveReservation, FilesAgree
  <1>4. ~IsHeld(j)'
    BY <1>1, <1>3, GiveUpEffect DEF IsHeld, ExclusiveReservation
  <1>5. \A k \in Jobs : k # j => place'[k] = place[k] /\ (k \in done' <=> k \in done)
    BY <1>2 DEF Settle, MarkDone, MarkFailed, Drop, ReadFails, WorkerCrash, TypeOK
  <1>6. PICK to \in {"done", "queued", "lost"} : StatusOf(j)' = to
    <2>1. CASE MarkDone(w)
      BY <1>2, <1>4, <2>1 DEF MarkDone, StatusOf, TypeOK
    <2>2. CASE MarkFailed(w)
      BY <1>2, <1>4, <2>2 DEF MarkFailed, StatusOf, TypeOK
    <2>3. CASE Drop(w) \/ ReadFails(w) \/ WorkerCrash(w)
      BY <1>3, <1>4, <2>3 DEF Drop, ReadFails, WorkerCrash, StatusOf
    <2> QED BY <2>1, <2>2, <2>3 DEF Settle
  <1> QED BY <1>1, <1>3, <1>5, <1>6, ReleaseRefines

LEMMA NextRefines ==
    ASSUME IInv, IInv', [Next]_vars
    PROVE  [Lifecycle!Next]_<<StatusMap, HolderMap>>
  <1>1. ASSUME place' = place, done' = done, step' = step, target' = target
        PROVE  UNCHANGED <<StatusMap, HolderMap>>
    BY <1>1, StutterRefines DEF Holds
  <1>2. ASSUME NEW j \in Jobs, PickName(j) \/ WriteFile(j) \/ Answer(j) \/ AnswerError(j)
        PROVE  UNCHANGED <<StatusMap, HolderMap>>
    BY <1>1, <1>2 DEF PickName, WriteFile, Answer, AnswerError
  <1>3. CASE ApiCrash \/ UNCHANGED vars
    BY <1>1, <1>3 DEF ApiCrash, vars
  <1>4. ASSUME NEW w \in Workers, ListInbox(w) \/ ReadPayload(w)
        PROVE  UNCHANGED <<StatusMap, HolderMap>>
    <2>1. \A v \in Workers, j \in Jobs : Holds(v, j)' <=> Holds(v, j)
      BY <1>4 DEF ListInbox, ReadPayload, Holds, IInv, TypeOK
    <2> QED BY <1>4, <2>1, StutterRefines DEF ListInbox, ReadPayload
  <1>5. ASSUME NEW w \in Workers, RenameMissing(w) \/ WorkerCrash(w), step[w] = "renaming"
        PROVE  UNCHANGED <<StatusMap, HolderMap>>
    <2>1. GiveUp(w) /\ place' = place /\ done' = done
      BY <1>5 DEF RenameMissing, WorkerCrash
    <2>2. \A j \in Jobs : ~Holds(w, j)
      BY <1>5 DEF Holds
    <2>3. \A v \in Workers, j \in Jobs : Holds(v, j)' <=> Holds(v, j)
      BY <2>1, <2>2, GiveUpEffect DEF IInv
    <2> QED BY <2>1, <2>3, StutterRefines
  <1>6. ASSUME NEW w \in Workers, RenameMissing(w) PROVE step[w] = "renaming"
    BY <1>6 DEF RenameMissing
  <1> QED
    BY <1>2, <1>3, <1>4, <1>5, <1>6, CreateRefines, RenameRefines, SettleRefines
       DEF Next, Reserve

(* The file queue implements the abstract life cycle of a job, for every   *)
(* number of requests and workers: ImplementsLifecycle of FileQueue.       *)
THEOREM FileQueueImplementsLifecycle == Spec => ImplementsLifecycle
  <1>1. Init => Lifecycle!Init
    <2>1. Init => \A j \in Jobs : StatusOf(j) = "new" /\ HolderOf(j) = "no_worker"
      BY DEF Init, StatusOf, HolderOf, IsHeld, Holds
    <2> QED BY <2>1 DEF Lifecycle!Init, Lifecycle!NoWorker
  <1>2. IInv /\ IInv' /\ [Next]_vars => [Lifecycle!Next]_Lifecycle!vars
    BY NextRefines DEF Lifecycle!vars, StatusMap, HolderMap
  <1> QED
    BY <1>1, <1>2, InvariantHolds, PTL DEF Spec, ImplementsLifecycle, Lifecycle!Spec
=============================================================================
