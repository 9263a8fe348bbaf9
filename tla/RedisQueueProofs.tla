-------------------------- MODULE RedisQueueProofs --------------------------
(***************************************************************************)
(* RedisQueue is correct for every set of requests and workers: its        *)
(* invariants hold, and it implements JobLifecycle.                        *)
(***************************************************************************)
EXTENDS RedisQueue, SequenceTheorems, TLAPS

(* What each command does to the list, position by position.               *)
LEMMA PushRight ==
    ASSUME NEW s \in Seq(Jobs), NEW j \in Jobs
    PROVE  /\ Append(s, j) \in Seq(Jobs)
           /\ Len(Append(s, j)) = Len(s) + 1
           /\ \A i \in 1..Len(s) : Append(s, j)[i] = s[i]
           /\ Append(s, j)[Len(s) + 1] = j
  BY AppendProperties

LEMMA PushLeft ==
    ASSUME NEW s \in Seq(Jobs), NEW j \in Jobs
    PROVE  /\ <<j>> \o s \in Seq(Jobs)
           /\ Len(<<j>> \o s) = Len(s) + 1
           /\ (<<j>> \o s)[1] = j
           /\ \A i \in 1..Len(s) : (<<j>> \o s)[i + 1] = s[i]
           /\ \A i \in 2..Len(s) + 1 : (<<j>> \o s)[i] = s[i - 1]
  <1>1. <<j>> \in Seq(Jobs) /\ Len(<<j>>) = 1 /\ <<j>>[1] = j
    OBVIOUS
  <1>2. \A i \in 1..1 + Len(s) :
            (<<j>> \o s)[i] = IF i <= 1 THEN <<j>>[i] ELSE s[i - 1]
    BY <1>1, ConcatProperties
  <1>3. <<j>> \o s \in Seq(Jobs) /\ Len(<<j>> \o s) = Len(s) + 1
    BY <1>1, ConcatProperties, LenProperties
  <1>4. Len(s) \in Nat
    BY LenProperties
  <1> QED BY <1>1, <1>2, <1>3, <1>4

LEMMA PopRight ==
    ASSUME NEW s \in Seq(Jobs), s # <<>>
    PROVE  /\ Len(s) \in Nat \ {0}
           /\ s[Len(s)] \in Jobs
           /\ SubSeq(s, 1, Len(s) - 1) \in Seq(Jobs)
           /\ Len(SubSeq(s, 1, Len(s) - 1)) = Len(s) - 1
           /\ \A i \in 1..Len(s) - 1 : SubSeq(s, 1, Len(s) - 1)[i] = s[i]
  <1>1. Len(s) \in Nat \ {0}
    BY EmptySeq
  <1>2. \A i \in 1..Len(s) : s[i] \in Jobs
    BY ElementOfSeq
  <1> DEFINE n == Len(s) - 1
             t == SubSeq(s, 1, n)
  <1>3. n \in Nat /\ n - 1 + 1 = n /\ (\A i \in 1..n : s[i] \in Jobs)
    BY <1>1, <1>2
  <1>4. /\ t \in Seq(Jobs)
        /\ Len(t) = IF 1 <= n THEN n - 1 + 1 ELSE 0
        /\ \A i \in 1..n - 1 + 1 : t[i] = s[1 + i - 1]
    <2> HIDE DEF n
    <2> QED BY <1>3, SubSeqProperties
  <1>5. Len(t) = n /\ (\A i \in 1..n : t[i] = s[i])
    <2> HIDE DEF n, t
    <2>1. Len(t) = n
      BY <1>3, <1>4
    <2>2. ASSUME NEW i \in 1..n PROVE t[i] = s[i]
      <3>1. i \in 1..n - 1 + 1 /\ 1 + i - 1 = i
        BY <1>3
      <3> QED BY <1>4, <3>1
    <2> QED BY <2>1, <2>2
  <1> QED BY <1>1, <1>2, <1>4, <1>5

-----------------------------------------------------------------------------
(* Where the jobs are after each step that moves one.                      *)
LEMMA EnqueueEffect ==
    ASSUME TypeOK, NEW j \in Jobs, Enqueue(j)
    PROVE  \A k \in Jobs : /\ InList(k)' <=> InList(k) \/ k = j
                           /\ IsHeld(k)' <=> IsHeld(k)
  <1>1. /\ list' \in Seq(Jobs)
        /\ Len(list') = Len(list) + 1
        /\ \A i \in 1..Len(list) : list'[i] = list[i]
        /\ list'[Len(list) + 1] = j
    BY PushRight DEF TypeOK, Enqueue
  <1>2. Len(list) \in Nat
    BY LenProperties DEF TypeOK
  <1>3. \A k \in Jobs : InList(k)' <=> InList(k) \/ k = j
    BY <1>1, <1>2 DEF InList
  <1> QED BY <1>3 DEF IsHeld, Enqueue

LEMMA ReserveEffect ==
    ASSUME TypeOK, ExclusiveReservation, NEW w \in Workers, ReserveNext(w)
    PROVE  /\ hold'[w] \in Jobs
           /\ InList(hold'[w])
           /\ \A k \in Jobs : /\ InList(k)' <=> InList(k) /\ k # hold'[w]
                              /\ IsHeld(k)' <=> IsHeld(k) \/ k = hold'[w]
  <1>1. list \in Seq(Jobs) /\ list # <<>>
    BY DEF TypeOK, ReserveNext
  <1>2. /\ Len(list) \in Nat \ {0}
        /\ list[Len(list)] \in Jobs
        /\ list' \in Seq(Jobs)
        /\ Len(list') = Len(list) - 1
        /\ \A i \in 1..Len(list) - 1 : list'[i] = list[i]
    BY <1>1, PopRight DEF ReserveNext
  <1>3. hold'[w] = list[Len(list)] /\ \A v \in Workers : v # w => hold'[v] = hold[v]
    BY DEF ReserveNext, TypeOK
  <1>4. InList(hold'[w])
    BY <1>2, <1>3 DEF InList
  <1>5. \A k \in Jobs : InList(k)' <=> InList(k) /\ k # hold'[w]
    BY <1>2, <1>3 DEF InList, ExclusiveReservation
  <1>6. \A k \in Jobs : IsHeld(k)' <=> IsHeld(k) \/ k = hold'[w]
    BY <1>3, NoJobAssumption DEF IsHeld, ReserveNext
  <1> QED BY <1>2, <1>3, <1>4, <1>5, <1>6

LEMMA ReleaseEffect ==
    ASSUME TypeOK, ExclusiveReservation, NEW w \in Workers, hold[w] # NoJob,
           hold' = [hold EXCEPT ![w] = NoJob]
    PROVE  /\ hold[w] \in Jobs
           /\ \A k \in Jobs : IsHeld(k)' <=> IsHeld(k) /\ k # hold[w]
  <1>1. hold[w] \in Jobs
    BY DEF TypeOK
  <1>2. hold'[w] = NoJob /\ \A v \in Workers : v # w => hold'[v] = hold[v]
    BY DEF TypeOK
  <1>3. \A k \in Jobs : IsHeld(k)' <=> IsHeld(k) /\ k # hold[w]
    BY <1>1, <1>2, NoJobAssumption DEF IsHeld, ExclusiveReservation
  <1> QED BY <1>1, <1>3

LEMMA MarkFailedEffect ==
    ASSUME TypeOK, ExclusiveReservation, NEW w \in Workers, MarkFailed(w)
    PROVE  \A k \in Jobs : /\ InList(k)' <=> InList(k) \/ k = hold[w]
                           /\ IsHeld(k)' <=> IsHeld(k) /\ k # hold[w]
  <1>1. /\ hold[w] \in Jobs
        /\ \A k \in Jobs : IsHeld(k)' <=> IsHeld(k) /\ k # hold[w]
    BY ReleaseEffect DEF MarkFailed
  <1>2. /\ Len(list') = Len(list) + 1
        /\ list'[1] = hold[w]
        /\ \A i \in 1..Len(list) : list'[i + 1] = list[i]
        /\ \A i \in 2..Len(list) + 1 : list'[i] = list[i - 1]
    BY <1>1, PushLeft DEF MarkFailed, TypeOK
  <1>3. Len(list) \in Nat
    BY LenProperties DEF TypeOK
  <1>4. \A k \in Jobs : InList(k) => InList(k)'
    BY <1>2, <1>3 DEF InList
  <1>5. \A k \in Jobs : k = hold[w] => InList(k)'
    BY <1>2, <1>3 DEF InList
  <1>6. \A k \in Jobs : InList(k)' => InList(k) \/ k = hold[w]
    BY <1>2, <1>3 DEF InList
  <1> QED BY <1>1, <1>4, <1>5, <1>6

-----------------------------------------------------------------------------
(* The type invariant: every reachable state of the queue has well-formed  *)
(* handlers, list and workers.                                             *)
THEOREM TypeCorrect == Spec => []TypeOK
  <1>1. Init => TypeOK
    BY EmptySeq DEF Init, TypeOK, RequestStates, Fates
  <1>2. TypeOK /\ [Next]_vars => TypeOK'
    <2> SUFFICES ASSUME TypeOK, [Next]_vars PROVE TypeOK'
      OBVIOUS
    <2> USE DEF TypeOK, RequestStates, Fates
    <2>1. ASSUME NEW j \in Jobs, AcceptConversation(j) PROVE TypeOK'
      BY <2>1 DEF AcceptConversation
    <2>2. ASSUME NEW j \in Jobs, Enqueue(j) PROVE TypeOK'
      BY <2>2, PushRight DEF Enqueue
    <2>3. ASSUME NEW j \in Jobs, Answer(j) \/ AnswerError(j) PROVE TypeOK'
      BY <2>3 DEF Answer, AnswerError
    <2>4. CASE ApiCrash
      BY <2>4 DEF ApiCrash
    <2>5. ASSUME NEW w \in Workers, ReserveNext(w) PROVE TypeOK'
      BY <2>5, PopRight DEF ReserveNext
    <2>6. ASSUME NEW w \in Workers, MarkFailed(w) PROVE TypeOK'
      <3>1. hold[w] \in Jobs
        BY <2>6 DEF MarkFailed
      <3> QED BY <2>6, <3>1, PushLeft DEF MarkFailed
    <2>7. ASSUME NEW w \in Workers, MarkDone(w) \/ Drop(w) \/ WorkerCrash(w)
          PROVE  TypeOK'
      BY <2>7 DEF MarkDone, Drop, WorkerCrash
    <2>8. CASE UNCHANGED vars
      BY <2>8 DEF vars
    <2> QED BY <2>1, <2>2, <2>3, <2>4, <2>5, <2>6, <2>7, <2>8 DEF Next, Settle
  <1> QED BY <1>1, <1>2, PTL DEF Spec

-----------------------------------------------------------------------------
(* The steps that move no job keep the places of the jobs.                 *)
LEMMA SamePlaces ==
    ASSUME list' = list, hold' = hold, NEW k \in Jobs
    PROVE  /\ InList(k)' <=> InList(k)
           /\ IsHeld(k)' <=> IsHeld(k)
  BY DEF InList, IsHeld

LEMMA ExclusiveStep ==
    ASSUME IInv, TypeOK', [Next]_vars
    PROVE  ExclusiveReservation'
  <1> USE DEF IInv
  <1>1. ASSUME list' = list, hold' = hold, fate' = fate PROVE ExclusiveReservation'
    BY <1>1 DEF ExclusiveReservation, InList, IsHeld
  <1>2. ASSUME NEW j \in Jobs, AcceptConversation(j) \/ Answer(j) \/ AnswerError(j)
        PROVE  ExclusiveReservation'
    BY <1>1, <1>2 DEF AcceptConversation, Answer, AnswerError
  <1>3. ASSUME NEW j \in Jobs, Enqueue(j) PROVE ExclusiveReservation'
    <2>1. ~InList(j) /\ ~IsHeld(j) /\ fate[j] = "open"
      BY <1>3 DEF Enqueue, RequestsAccounted
    <2>2. \A k \in Jobs : /\ InList(k)' <=> InList(k) \/ k = j
                          /\ IsHeld(k)' <=> IsHeld(k)
      BY <1>3, EnqueueEffect
    <2>3. \A i, k \in 1..Len(list') : list'[i] = list'[k] => i = k
      <3>1. /\ Len(list') = Len(list) + 1
            /\ \A i \in 1..Len(list) : list'[i] = list[i]
            /\ list'[Len(list) + 1] = j
        BY <1>3, PushRight DEF Enqueue, TypeOK
      <3>2. Len(list) \in Nat
        BY LenProperties DEF TypeOK
      <3>3. \A i \in 1..Len(list) : list[i] # j
        BY <2>1 DEF InList
      <3> QED BY <3>1, <3>2, <3>3 DEF ExclusiveReservation
    <2>4. hold' = hold /\ fate' = fate
      BY <1>3 DEF Enqueue
    <2>5. \A k \in Jobs : ~(InList(k)' /\ IsHeld(k)')
      BY <2>1, <2>2 DEF ExclusiveReservation
    <2>6. \A k \in Jobs : InList(k)' \/ IsHeld(k)' => fate'[k] = "open"
      BY <2>1, <2>2, <2>4 DEF ExclusiveReservation
    <2> QED BY <2>3, <2>4, <2>5, <2>6 DEF ExclusiveReservation
  <1>4. CASE ApiCrash
    BY <1>1, <1>4 DEF ApiCrash
  <1>5. ASSUME NEW w \in Workers, ReserveNext(w) PROVE ExclusiveReservation'
    <2>1. /\ hold'[w] \in Jobs
          /\ InList(hold'[w])
          /\ \A k \in Jobs : /\ InList(k)' <=> InList(k) /\ k # hold'[w]
                             /\ IsHeld(k)' <=> IsHeld(k) \/ k = hold'[w]
      BY <1>5, ReserveEffect
    <2>2. /\ Len(list) \in Nat \ {0}
          /\ Len(list') = Len(list) - 1
          /\ \A i \in 1..Len(list) - 1 : list'[i] = list[i]
      BY <1>5, PopRight DEF ReserveNext, TypeOK
    <2>3. \A i, k \in 1..Len(list') : list'[i] = list'[k] => i = k
      BY <2>2 DEF ExclusiveReservation
    <2>4. fate' = fate /\ \A v \in Workers : v # w => hold'[v] = hold[v]
      BY <1>5 DEF ReserveNext, TypeOK
    <2>5. \A v \in Workers : hold[v] # hold'[w]
      BY <2>1 DEF IsHeld, ExclusiveReservation
    <2>6. \A v, u \in Workers : hold'[v] = hold'[u] /\ hold'[v] # NoJob => v = u
      BY <2>4, <2>5 DEF ExclusiveReservation
    <2>7. \A k \in Jobs : /\ ~(InList(k)' /\ IsHeld(k)')
                          /\ InList(k)' \/ IsHeld(k)' => fate'[k] = "open"
      BY <2>1, <2>4 DEF ExclusiveReservation
    <2> QED BY <2>3, <2>6, <2>7 DEF ExclusiveReservation
  <1>6. ASSUME NEW w \in Workers, MarkFailed(w) PROVE ExclusiveReservation'
    <2>1. \A k \in Jobs : /\ InList(k)' <=> InList(k) \/ k = hold[w]
                          /\ IsHeld(k)' <=> IsHeld(k) /\ k # hold[w]
      BY <1>6, MarkFailedEffect
    <2>2. /\ hold[w] \in Jobs
          /\ IsHeld(hold[w])
          /\ ~InList(hold[w])
      BY <1>6 DEF MarkFailed, TypeOK, IsHeld, ExclusiveReservation
    <2>3. /\ Len(list) \in Nat
          /\ Len(list') = Len(list) + 1
          /\ list'[1] = hold[w]
          /\ \A i \in 2..Len(list) + 1 : list'[i] = list[i - 1]
      BY <1>6, <2>2, PushLeft, LenProperties DEF MarkFailed, TypeOK
    <2>4. \A i \in 2..Len(list) + 1 : list'[i] # hold[w]
      BY <2>2, <2>3 DEF InList
    <2>5. \A i, k \in 1..Len(list') : list'[i] = list'[k] => i = k
      BY <2>3, <2>4 DEF ExclusiveReservation
    <2>6. \A v, u \in Workers : hold'[v] = hold'[u] /\ hold'[v] # NoJob => v = u
      BY <1>6 DEF MarkFailed, TypeOK, ExclusiveReservation
    <2>7. \A k \in Jobs : /\ ~(InList(k)' /\ IsHeld(k)')
                          /\ InList(k)' \/ IsHeld(k)' => fate'[k] = "open"
      BY <1>6, <2>1, <2>2 DEF ExclusiveReservation, MarkFailed
    <2> QED BY <2>5, <2>6, <2>7 DEF ExclusiveReservation
  <1>7. ASSUME NEW w \in Workers, MarkDone(w) \/ Drop(w) \/ WorkerCrash(w)
        PROVE  ExclusiveReservation'
    <2>1. /\ hold[w] # NoJob
          /\ hold' = [hold EXCEPT ![w] = NoJob]
          /\ list' = list
          /\ \A k \in Jobs : k # hold[w] => fate'[k] = fate[k]
      BY <1>7 DEF MarkDone, Drop, WorkerCrash, TypeOK
    <2>2. /\ hold[w] \in Jobs
          /\ \A k \in Jobs : IsHeld(k)' <=> IsHeld(k) /\ k # hold[w]
      BY <2>1, ReleaseEffect
    <2>3. /\ \A k \in Jobs : InList(k)' <=> InList(k)
          /\ ~InList(hold[w])
      BY <2>1, <2>2 DEF InList, IsHeld, ExclusiveReservation
    <2>4. \A v, u \in Workers : hold'[v] = hold'[u] /\ hold'[v] # NoJob => v = u
      BY <2>1 DEF TypeOK, ExclusiveReservation
    <2>5. \A k \in Jobs : /\ ~(InList(k)' /\ IsHeld(k)')
                          /\ InList(k)' \/ IsHeld(k)' => fate'[k] = "open"
      BY <2>1, <2>2, <2>3 DEF ExclusiveReservation
    <2> QED BY <2>1, <2>4, <2>5 DEF ExclusiveReservation
  <1>8. CASE UNCHANGED vars
    BY <1>1, <1>8 DEF vars
  <1> QED BY <1>2, <1>3, <1>4, <1>5, <1>6, <1>7, <1>8 DEF Next, Settle

LEMMA AccountedStep ==
    ASSUME IInv, [Next]_vars
    PROVE  RequestsAccounted'
  <1> USE DEF IInv
  <1>1. ASSUME NEW j \in Jobs, AcceptConversation(j) \/ Answer(j) \/ AnswerError(j)
        PROVE  RequestsAccounted'
    <2>1. /\ list' = list /\ hold' = hold /\ fate' = fate /\ retried' = retried
          /\ \A k \in Jobs : k # j => request'[k] = request[k]
          /\ \/ request[j] = "new" /\ request'[j] \in {"enqueueing", "rejected"}
             \/ request[j] = "pushed" /\ request'[j] = "accepted"
             \/ request'[j] = "failed"
      BY <1>1 DEF AcceptConversation, Answer, AnswerError, TypeOK
    <2> QED BY <2>1, SamePlaces DEF RequestsAccounted
  <1>2. ASSUME NEW j \in Jobs, Enqueue(j) PROVE RequestsAccounted'
    <2>1. \A k \in Jobs : /\ InList(k)' <=> InList(k) \/ k = j
                          /\ IsHeld(k)' <=> IsHeld(k)
      BY <1>2, EnqueueEffect
    <2>2. /\ fate' = fate /\ retried' = retried
          /\ request'[j] = "pushed"
          /\ \A k \in Jobs : k # j => request'[k] = request[k]
      BY <1>2 DEF Enqueue, TypeOK
    <2> QED BY <2>1, <2>2 DEF RequestsAccounted
  <1>3. CASE ApiCrash
    <2>1. /\ list' = list /\ hold' = hold /\ fate' = fate /\ retried' = retried
          /\ \A k \in Jobs : request'[k] \in {request[k], "failed"}
      BY <1>3 DEF ApiCrash
    <2> QED BY <2>1, SamePlaces DEF RequestsAccounted
  <1>4. ASSUME NEW w \in Workers, ReserveNext(w) PROVE RequestsAccounted'
    <2>1. /\ InList(hold'[w])
          /\ \A k \in Jobs : /\ InList(k)' <=> InList(k) /\ k # hold'[w]
                             /\ IsHeld(k)' <=> IsHeld(k) \/ k = hold'[w]
      BY <1>4, ReserveEffect
    <2>2. fate' = fate /\ retried' = retried /\ request' = request
      BY <1>4 DEF ReserveNext
    <2> QED BY <2>1, <2>2 DEF RequestsAccounted
  <1>5. ASSUME NEW w \in Workers, MarkFailed(w) PROVE RequestsAccounted'
    <2>1. \A k \in Jobs : /\ InList(k)' <=> InList(k) \/ k = hold[w]
                          /\ IsHeld(k)' <=> IsHeld(k) /\ k # hold[w]
      BY <1>5, MarkFailedEffect
    <2>2. /\ hold[w] \in Jobs /\ IsHeld(hold[w])
          /\ retried' = retried \cup {hold[w]}
          /\ fate' = fate /\ request' = request
      BY <1>5 DEF MarkFailed, TypeOK, IsHeld
    <2> QED BY <2>1, <2>2 DEF RequestsAccounted
  <1>6. ASSUME NEW w \in Workers, MarkDone(w) \/ Drop(w) \/ WorkerCrash(w)
        PROVE  RequestsAccounted'
    <2>1. /\ hold[w] # NoJob /\ hold' = [hold EXCEPT ![w] = NoJob]
          /\ list' = list /\ retried' = retried /\ request' = request
      BY <1>6 DEF MarkDone, Drop, WorkerCrash
    <2>2. /\ hold[w] \in Jobs /\ IsHeld(hold[w])
          /\ \A k \in Jobs : IsHeld(k)' <=> IsHeld(k) /\ k # hold[w]
      BY <2>1, ReleaseEffect DEF IsHeld
    <2>3. /\ fate'[hold[w]] # "open"
          /\ \A k \in Jobs : k # hold[w] => fate'[k] = fate[k]
      BY <1>6, <2>2 DEF MarkDone, Drop, WorkerCrash, TypeOK
    <2>4. \A k \in Jobs : InList(k)' <=> InList(k)
      BY <2>1 DEF InList
    <2> QED BY <2>1, <2>2, <2>3, <2>4 DEF RequestsAccounted
  <1>7. CASE UNCHANGED vars
    BY <1>7, SamePlaces DEF vars, RequestsAccounted
  <1> QED BY <1>1, <1>2, <1>3, <1>4, <1>5, <1>6, <1>7 DEF Next, Settle

LEMMA FreshStep ==
    ASSUME IInv, [Next]_vars
    PROVE  FreshBeforeRetried'
  <1> USE DEF IInv
  <1>1. ASSUME list' = list, retried' = retried PROVE FreshBeforeRetried'
    BY <1>1 DEF FreshBeforeRetried
  <1>2. ASSUME NEW j \in Jobs, Enqueue(j) PROVE FreshBeforeRetried'
    <2>1. /\ Len(list) \in Nat
          /\ Len(list') = Len(list) + 1
          /\ \A i \in 1..Len(list) : list'[i] = list[i]
          /\ list'[Len(list) + 1] = j
      BY <1>2, PushRight, LenProperties DEF Enqueue, TypeOK
    <2>2. j \notin retried /\ retried' = retried
      BY <1>2 DEF Enqueue, RequestsAccounted
    <2> QED BY <2>1, <2>2 DEF FreshBeforeRetried
  <1>3. ASSUME NEW w \in Workers, ReserveNext(w) PROVE FreshBeforeRetried'
    <2>1. /\ Len(list) \in Nat \ {0}
          /\ Len(list') = Len(list) - 1
          /\ \A i \in 1..Len(list) - 1 : list'[i] = list[i]
      BY <1>3, PopRight DEF ReserveNext, TypeOK
    <2>2. retried' = retried
      BY <1>3 DEF ReserveNext
    <2> QED BY <2>1, <2>2 DEF FreshBeforeRetried
  <1>4. ASSUME NEW w \in Workers, MarkFailed(w) PROVE FreshBeforeRetried'
    <2>1. hold[w] \in Jobs /\ ~InList(hold[w])
      BY <1>4 DEF MarkFailed, TypeOK, IsHeld, ExclusiveReservation
    <2>2. /\ Len(list) \in Nat
          /\ Len(list') = Len(list) + 1
          /\ list'[1] = hold[w]
          /\ \A i \in 2..Len(list) + 1 : list'[i] = list[i - 1]
      BY <1>4, <2>1, PushLeft, LenProperties DEF MarkFailed, TypeOK
    <2>3. retried' = retried \cup {hold[w]}
      BY <1>4 DEF MarkFailed
    <2>4. ASSUME NEW i \in 1..Len(list'), NEW k \in 1..Len(list'), i < k,
                 list'[k] \in retried'
          PROVE  list'[i] \in retried'
      <3>1. CASE i = 1
        BY <2>2, <2>3, <3>1
      <3>2. CASE i # 1
        <4>1. /\ i - 1 \in 1..Len(list) /\ k - 1 \in 1..Len(list) /\ i - 1 < k - 1
              /\ list'[i] = list[i - 1] /\ list'[k] = list[k - 1]
          BY <2>2, <2>4, <3>2
        <4>2. list[k - 1] \in retried
          BY <2>1, <2>3, <2>4, <4>1 DEF InList
        <4> QED BY <2>3, <4>1, <4>2 DEF FreshBeforeRetried
      <3> QED BY <3>1, <3>2
    <2> QED BY <2>4 DEF FreshBeforeRetried
  <1> QED
    BY <1>1, <1>2, <1>3, <1>4
       DEF Next, Settle, AcceptConversation, Answer, AnswerError, ApiCrash,
           MarkDone, Drop, WorkerCrash, vars

(* In every reachable state a job is in one place only, the answers of the *)
(* API agree with the places of the jobs, and retried jobs wait behind the *)
(* jobs not yet tried.                                                     *)
THEOREM InvariantHolds == Spec => []IInv
  <1>1. Init => IInv
    BY EmptySeq, NoJobAssumption
       DEF Init, IInv, TypeOK, RequestStates, Fates, ExclusiveReservation,
           RequestsAccounted, FreshBeforeRetried, InList, IsHeld
  <1>2. IInv /\ TypeOK' /\ [Next]_vars => IInv'
    BY ExclusiveStep, AccountedStep, FreshStep DEF IInv
  <1> QED BY <1>1, <1>2, TypeCorrect, PTL DEF Spec

(* No interleaving of API handlers, workers and crashes puts a job in two  *)
(* places: ExclusiveReservation of RedisQueue.                             *)
THEOREM ReservationIsExclusive == Spec => []ExclusiveReservation
  <1>1. IInv => ExclusiveReservation
    BY DEF IInv
  <1> QED BY <1>1, InvariantHolds, PTL

(* A job answered 202 is in the list, with a worker, or settled.           *)
THEOREM RequestsAreAccounted == Spec => []RequestsAccounted
  <1>1. IInv => RequestsAccounted
    BY DEF IInv
  <1> QED BY <1>1, InvariantHolds, PTL

(* Every job not yet tried is reserved before one is retried.              *)
THEOREM FreshComesFirst == Spec => []FreshBeforeRetried
  <1>1. IInv => FreshBeforeRetried
    BY DEF IInv
  <1> QED BY <1>1, InvariantHolds, PTL

-----------------------------------------------------------------------------
(* The refinement of JobLifecycle.                                         *)
StatusMap == [j \in Jobs |-> StatusOf(j)]
HolderMap == [j \in Jobs |-> HolderOf(j)]

LEMMA ChosenHolder ==
    ASSUME NEW h, NEW w \in Workers, \A v \in Workers : h[v] = h[w] => v = w
    PROVE  (CHOOSE v \in Workers : h[v] = h[w]) = w
  OBVIOUS

LEMMA HolderIs ==
    ASSUME TypeOK, ExclusiveReservation, NEW w \in Workers, NEW j \in Jobs, hold[w] = j
    PROVE  HolderOf(j) = w
  <1>1. \A v \in Workers : hold[v] = hold[w] => v = w
    BY NoJobAssumption DEF ExclusiveReservation
  <1> QED BY <1>1, ChosenHolder DEF HolderOf, IsHeld

LEMMA NotHolder ==
    ASSUME TypeOK, ExclusiveReservation, NEW w \in Workers, hold[w] = NoJob,
           NEW j \in Jobs
    PROVE  HolderOf(j) # w
  <1>1. CASE IsHeld(j)
    <2>1. PICK v \in Workers : hold[v] = j
      BY <1>1 DEF IsHeld
    <2> QED BY <2>1, HolderIs, NoJobAssumption
  <1>2. CASE ~IsHeld(j)
    BY <1>2, NoJobAssumption DEF HolderOf
  <1> QED BY <1>1, <1>2

(* A step that keeps the hold of every worker but w keeps the holder of    *)
(* every job w does not hold before or after.                              *)
LEMMA OtherHolders ==
    ASSUME NEW w \in Workers, NEW j \in Jobs, hold[w] # j, hold'[w] # j,
           \A v \in Workers : v # w => hold'[v] = hold[v]
    PROVE  HolderOf(j)' = HolderOf(j)
  <1>1. \A v \in Workers : hold'[v] = j <=> hold[v] = j
    OBVIOUS
  <1>2. IsHeld(j)' <=> IsHeld(j)
    BY <1>1 DEF IsHeld
  <1>3. (CHOOSE v \in Workers : hold'[v] = j) = (CHOOSE v \in Workers : hold[v] = j)
    BY <1>1
  <1>4. HolderOf(j) = IF IsHeld(j) THEN CHOOSE v \in Workers : hold[v] = j ELSE "no_worker"
    BY Zenon DEF HolderOf
  <1>5. HolderOf(j)' = IF IsHeld(j)' THEN CHOOSE v \in Workers : hold'[v] = j ELSE "no_worker"
    BY Zenon DEF HolderOf
  <1>6. CASE IsHeld(j)
    <2>1. HolderOf(j) = CHOOSE v \in Workers : hold[v] = j
      BY <1>4, <1>6, Zenon
    <2>2. HolderOf(j)' = CHOOSE v \in Workers : hold'[v] = j
      BY <1>2, <1>5, <1>6, Zenon
    <2> QED BY <1>3, <2>1, <2>2, Zenon
  <1>7. CASE ~IsHeld(j)
    BY <1>2, <1>4, <1>5, <1>7, Zenon
  <1> QED BY <1>6, <1>7

(* A release of hold[w] is the abstract release of the same job by w.      *)
LEMMA ReleaseRefines ==
    ASSUME IInv, NEW w \in Workers, hold[w] # NoJob,
           hold' = [hold EXCEPT ![w] = NoJob],
           NEW to \in {"done", "queued", "lost"},
           \A k \in Jobs : StatusOf(k)' = IF k = hold[w] THEN to ELSE StatusOf(k)
    PROVE  Lifecycle!Next
  <1> DEFINE j == hold[w]
  <1>1. /\ j \in Jobs
        /\ \A k \in Jobs : IsHeld(k)' <=> IsHeld(k) /\ k # j
    BY ReleaseEffect DEF IInv
  <1>2. IsHeld(j) /\ ~InList(j)
    BY <1>1 DEF IsHeld, IInv, ExclusiveReservation
  <1>3. StatusOf(j) = "held" /\ HolderOf(j) = w
    BY <1>1, <1>2, HolderIs DEF StatusOf, IInv
  <1>4. \A k \in Jobs : HolderOf(k)' = IF k = j THEN "no_worker" ELSE HolderOf(k)
    <2>1. /\ hold'[w] = NoJob
          /\ \A v \in Workers : v # w => hold'[v] = hold[v]
      BY DEF IInv, TypeOK
    <2>2. \A k \in Jobs : k # j => HolderOf(k)' = HolderOf(k)
      BY <2>1, OtherHolders, NoJobAssumption
    <2>3. \A k \in Jobs : k = j => HolderOf(k)' = "no_worker"
      BY <1>1 DEF HolderOf
    <2> QED BY <2>2, <2>3
  <1>5. StatusMap' = [StatusMap EXCEPT ![j] = to]
    BY <1>1 DEF StatusMap
  <1>6. HolderMap' = [HolderMap EXCEPT ![j] = "no_worker"]
    BY <1>1, <1>4 DEF HolderMap
  <1>7. Lifecycle!Release(w, j, to)
    BY <1>1, <1>3, <1>5, <1>6
       DEF Lifecycle!Release, Lifecycle!NoWorker, StatusMap, HolderMap
  <1> QED
    BY <1>1, <1>7
       DEF Lifecycle!Next, Lifecycle!Complete, Lifecycle!Requeue, Lifecycle!Lose

LEMMA NextRefines ==
    ASSUME IInv, [Next]_vars
    PROVE  [Lifecycle!Next]_<<StatusMap, HolderMap>>
  <1> USE DEF IInv
  <1>1. ASSUME list' = list, hold' = hold, fate' = fate
        PROVE  UNCHANGED <<StatusMap, HolderMap>>
    BY <1>1 DEF StatusMap, HolderMap, StatusOf, HolderOf, InList, IsHeld
  <1>2. ASSUME NEW j \in Jobs, Enqueue(j) PROVE Lifecycle!Next
    <2>1. ~InList(j) /\ ~IsHeld(j) /\ fate[j] = "open"
      BY <1>2 DEF Enqueue, RequestsAccounted
    <2>2. \A k \in Jobs : /\ InList(k)' <=> InList(k) \/ k = j
                          /\ IsHeld(k)' <=> IsHeld(k)
      BY <1>2, EnqueueEffect
    <2>3. hold' = hold /\ fate' = fate
      BY <1>2 DEF Enqueue
    <2>4. \A k \in Jobs : StatusOf(k)' = IF k = j THEN "queued" ELSE StatusOf(k)
      BY <2>2, <2>3 DEF StatusOf
    <2>5. StatusMap' = [StatusMap EXCEPT ![j] = "queued"]
      BY <2>4 DEF StatusMap
    <2>6. HolderMap' = HolderMap
      BY <2>3 DEF HolderMap, HolderOf, IsHeld
    <2>7. StatusMap[j] = "new"
      BY <2>1 DEF StatusMap, StatusOf
    <2> QED
      BY <2>5, <2>6, <2>7
         DEF Lifecycle!Next, Lifecycle!Enqueue, StatusMap, HolderMap
  <1>3. ASSUME NEW w \in Workers, ReserveNext(w) PROVE Lifecycle!Next
    <2>1. PICK j \in Jobs : j = hold'[w]
      BY <1>3, ReserveEffect
    <2>2. /\ InList(j)
          /\ \A k \in Jobs : /\ InList(k)' <=> InList(k) /\ k # j
                             /\ IsHeld(k)' <=> IsHeld(k) \/ k = j
      BY <1>3, <2>1, ReserveEffect
    <2>3. /\ fate' = fate /\ hold[w] = NoJob /\ hold'[w] = j
          /\ \A v \in Workers : v # w => hold'[v] = hold[v]
      BY <1>3, <2>1 DEF ReserveNext, TypeOK
    <2>4. ~IsHeld(j)
      BY <2>2 DEF ExclusiveReservation
    <2>5. \A k \in Jobs : StatusOf(k)' = IF k = j THEN "held" ELSE StatusOf(k)
      BY <2>2, <2>3 DEF StatusOf
    <2>6. \A k \in Jobs : k # j => HolderOf(k)' = HolderOf(k)
      BY <2>3, OtherHolders, NoJobAssumption
    <2>7. HolderOf(j)' = w
      <3>1. \A v \in Workers : hold'[v] = hold'[w] => v = w
        BY <2>3, <2>4 DEF IsHeld
      <3>2. (CHOOSE v \in Workers : hold'[v] = hold'[w]) = w
        BY <3>1, ChosenHolder
      <3> QED BY <2>2, <2>3, <3>2 DEF HolderOf
    <2>8. StatusMap' = [StatusMap EXCEPT ![j] = "held"]
      BY <2>5 DEF StatusMap
    <2>9. HolderMap' = [HolderMap EXCEPT ![j] = w]
      BY <2>6, <2>7 DEF HolderMap
    <2>10. StatusMap[j] = "queued" /\ \A k \in Jobs : HolderMap[k] # w
      BY <2>2, <2>3, NotHolder DEF StatusMap, HolderMap, StatusOf
    <2> QED
      BY <2>8, <2>9, <2>10
         DEF Lifecycle!Next, Lifecycle!Reserve, StatusMap, HolderMap
  <1>4. ASSUME NEW w \in Workers, MarkFailed(w) PROVE Lifecycle!Next
    <2>1. \A k \in Jobs : /\ InList(k)' <=> InList(k) \/ k = hold[w]
                          /\ IsHeld(k)' <=> IsHeld(k) /\ k # hold[w]
      BY <1>4, MarkFailedEffect
    <2>2. /\ hold[w] # NoJob /\ fate' = fate
          /\ hold' = [hold EXCEPT ![w] = NoJob]
      BY <1>4 DEF MarkFailed
    <2>3. \A k \in Jobs : StatusOf(k)' = IF k = hold[w] THEN "queued" ELSE StatusOf(k)
      BY <2>1, <2>2 DEF StatusOf
    <2> QED BY <2>2, <2>3, ReleaseRefines
  <1>5. ASSUME NEW w \in Workers, MarkDone(w) \/ Drop(w) \/ WorkerCrash(w)
        PROVE  Lifecycle!Next
    <2>1. /\ hold[w] # NoJob /\ hold' = [hold EXCEPT ![w] = NoJob] /\ list' = list
          /\ \A k \in Jobs : k # hold[w] => fate'[k] = fate[k]
      BY <1>5 DEF MarkDone, Drop, WorkerCrash, TypeOK
    <2>2. /\ hold[w] \in Jobs
          /\ \A k \in Jobs : IsHeld(k)' <=> IsHeld(k) /\ k # hold[w]
      BY <2>1, ReleaseEffect
    <2>3. /\ \A k \in Jobs : InList(k)' <=> InList(k)
          /\ ~InList(hold[w])
      BY <2>1, <2>2 DEF InList, IsHeld, ExclusiveReservation
    <2>4. PICK to \in {"done", "lost"} :
              fate'[hold[w]] # "open" /\ (fate'[hold[w]] = "done" <=> to = "done")
      BY <1>5, <2>2 DEF MarkDone, Drop, WorkerCrash, TypeOK
    <2>5. \A k \in Jobs : StatusOf(k)' = IF k = hold[w] THEN to ELSE StatusOf(k)
      BY <2>1, <2>2, <2>3, <2>4 DEF StatusOf
    <2> QED BY <2>1, <2>5, ReleaseRefines
  <1> QED
    BY <1>1, <1>2, <1>3, <1>4, <1>5
       DEF Next, Settle, AcceptConversation, Answer, AnswerError, ApiCrash, vars

(* The Redis queue implements the abstract life cycle of a job, for every  *)
(* number of requests and workers: ImplementsLifecycle of RedisQueue.      *)
THEOREM RedisImplementsLifecycle == Spec => ImplementsLifecycle
  <1>1. Init => Lifecycle!Init
    <2>1. Init => \A j \in Jobs : ~InList(j) /\ ~IsHeld(j) /\ fate[j] = "open"
      <3> SUFFICES ASSUME Init, NEW j \in Jobs
                   PROVE  ~InList(j) /\ ~IsHeld(j) /\ fate[j] = "open"
        OBVIOUS
      <3>1. Len(list) = 0
        BY EmptySeq DEF Init
      <3>2. ~InList(j)
        BY <3>1 DEF InList
      <3> QED BY <3>2, NoJobAssumption DEF Init, IsHeld
    <2> QED
      BY <2>1 DEF Lifecycle!Init, Lifecycle!NoWorker, StatusOf, HolderOf
  <1>2. IInv /\ [Next]_vars => [Lifecycle!Next]_Lifecycle!vars
    BY NextRefines DEF Lifecycle!vars, StatusMap, HolderMap
  <1> QED
    BY <1>1, <1>2, InvariantHolds, PTL DEF Spec, ImplementsLifecycle, Lifecycle!Spec
=============================================================================
