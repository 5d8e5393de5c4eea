------------------------ MODULE RagCapacityProofs ------------------------
(***************************************************************************)
(* The permits and slots of RagCapacity are conserved, for any number of   *)
(* requests, threads, permits, slots and retries.                          *)
(***************************************************************************)
EXTENDS RagCapacity, FiniteSetTheorems, SequenceTheorems, TLAPS

Handlers == {"new", "waiting", "granted", "awaiting"} \cup Ended

\* Only waiting requests are queued at the semaphore, each of them once.
Queued(q, h) ==
  /\ \A i \in 1 .. Len(q) : h[q[i]] = "waiting"
  /\ \A i, j \in 1 .. Len(q) : q[i] = q[j] => i = j

QueueInv == Queued(waiters, handler)

\* A request has no job before it was submitted.
JobInv == \A r \in Requests : handler[r] \in {"new", "waiting", "granted"} => job[r] = "none"

(***************************************************************************)
(* The queue of the semaphore.                                             *)
(***************************************************************************)
\* A request joins the queue at its end.
LEMMA JoinQueue ==
  ASSUME NEW q \in Seq(Requests), NEW h \in [Requests -> Handlers], Queued(q, h),
         NEW r \in Requests, h[r] # "waiting"
  PROVE  Queued(Append(q, r), [h EXCEPT ![r] = "waiting"])
<1> DEFINE a == Append(q, r)
<1>1. /\ Len(q) \in Nat /\ Len(a) = Len(q) + 1
      /\ \A i \in 1 .. Len(q) : a[i] = q[i] /\ q[i] \in Requests
      /\ a[Len(q) + 1] = r
  BY LenProperties, ElementOfSeq
<1>2. \A i \in 1 .. Len(q) : q[i] # r
  BY DEF Queued
<1> HIDE DEF a
<1>3. QED
  BY <1>1, <1>2 DEF Queued, Handlers, a

\* The first request leaves the queue and is not waiting any more.
LEMMA LeaveHead ==
  ASSUME NEW q \in Seq(Requests), q # <<>>, NEW h \in [Requests -> Handlers],
         Queued(q, h), NEW v
  PROVE  /\ Head(q) \in Requests /\ h[Head(q)] = "waiting"
         /\ Tail(q) \in Seq(Requests)
         /\ Queued(Tail(q), [h EXCEPT ![Head(q)] = v])
<1> DEFINE t == Tail(q)
<1>1. /\ Len(q) \in Nat \ {0} /\ Len(t) = Len(q) - 1 /\ t \in Seq(Requests)
      /\ \A i \in 1 .. Len(q) - 1 : t[i] = q[i + 1]
      /\ Head(q) = q[1] /\ q[1] \in Requests
  BY HeadTailProperties, EmptySeq, ElementOfSeq
<1> HIDE DEF t
<1>2. \A i \in 1 .. Len(t) : t[i] # Head(q) /\ h[t[i]] = "waiting" /\ t[i] \in Requests
  BY <1>1, ElementOfSeq DEF Queued
<1>3. \A i, j \in 1 .. Len(t) : t[i] = t[j] => i = j
  BY <1>1 DEF Queued
<1>4. QED
  BY <1>1, <1>2, <1>3 DEF Queued, t

\* A request leaves the queue at any place.
LEMMA LeaveAnywhere ==
  ASSUME NEW q \in Seq(Requests), NEW h \in [Requests -> Handlers], Queued(q, h),
         NEW k \in 1 .. Len(q), NEW v
  PROVE  /\ Without(q, k) \in Seq(Requests)
         /\ h[q[k]] = "waiting"
         /\ Queued(Without(q, k), [h EXCEPT ![q[k]] = v])
<1> DEFINE w == Without(q, k)
           f == SubSeq(q, 1, k - 1)
           g == SubSeq(q, k + 1, Len(q))
<1>1. Len(q) \in Nat /\ \A i \in 1 .. Len(q) : q[i] \in Requests
  BY LenProperties, ElementOfSeq
<1>2. /\ f \in Seq(Requests) /\ Len(f) = k - 1
      /\ \A i \in 1 .. k - 1 : f[i] = q[i]
  BY <1>1, SubSeqProperties
<1>3. /\ g \in Seq(Requests) /\ Len(g) = Len(q) - k
      /\ \A i \in 1 .. Len(q) - k : g[i] = q[k + i]
  BY <1>1, SubSeqProperties
<1> HIDE DEF f, g
<1>4. /\ w \in Seq(Requests) /\ Len(w) = Len(q) - 1
      /\ \A i \in 1 .. Len(q) - 1 : w[i] = IF i < k THEN q[i] ELSE q[i + 1]
  <2>1. w = f \o g
    BY DEF Without, f, g
  <2>2. /\ f \o g \in Seq(Requests) /\ Len(f \o g) = Len(f) + Len(g)
        /\ \A i \in 1 .. Len(f) + Len(g) :
             (f \o g)[i] = IF i <= Len(f) THEN f[i] ELSE g[i - Len(f)]
    BY <1>2, <1>3, ConcatProperties
  <2> HIDE DEF w
  <2>3. QED
    BY <1>1, <1>2, <1>3, <2>1, <2>2
<1> HIDE DEF w
<1>5. \A i \in 1 .. Len(w) : w[i] # q[k] /\ h[w[i]] = "waiting" /\ w[i] \in Requests
  BY <1>1, <1>4 DEF Queued
<1>6. \A i, j \in 1 .. Len(w) : w[i] = w[j] => i = j
  BY <1>1, <1>4 DEF Queued
<1>7. QED
  BY <1>4, <1>5, <1>6 DEF Queued, w

\* The handler of a request that is not queued changes, but not to waiting.
LEMMA OtherHandler ==
  ASSUME NEW q \in Seq(Requests), NEW h \in [Requests -> Handlers], Queued(q, h),
         NEW r \in Requests, h[r] # "waiting", NEW v
  PROVE  Queued(q, [h EXCEPT ![r] = v])
  BY ElementOfSeq DEF Queued

\* What release() does to the queue, after the handlers became h.
LEMMA ReleaseEffect ==
  ASSUME TypeOK, NEW h \in [Requests -> Handlers], Queued(waiters, h), Release(h)
  PROVE  /\ \/ /\ waiters = <<>> /\ waiters' = <<>>
               /\ handler' = h /\ permits' = permits + 1
            \/ \E w \in Requests :
                 /\ waiters # <<>> /\ h[w] = "waiting"
                 /\ handler' = [h EXCEPT ![w] = "granted"] /\ permits' = permits
         /\ waiters' \in Seq(Requests)
         /\ handler' \in [Requests -> Handlers]
         /\ permits' \in Nat
         /\ QueueInv'
<1>1. CASE waiters = <<>>
  BY <1>1 DEF Release, TypeOK, QueueInv
<1>2. CASE waiters # <<>>
  <2>1. /\ handler' = [h EXCEPT ![Head(waiters)] = "granted"]
        /\ waiters' = Tail(waiters) /\ permits' = permits
    BY <1>2 DEF Release
  <2>2. /\ Head(waiters) \in Requests /\ h[Head(waiters)] = "waiting"
        /\ waiters' \in Seq(Requests) /\ Queued(waiters', handler')
    BY <1>2, <2>1, LeaveHead DEF TypeOK
  <2>3. QED
    BY <1>2, <2>1, <2>2 DEF TypeOK, QueueInv, Handlers
<1>3. QED
  BY <1>1, <1>2

(***************************************************************************)
(* Types, the queue and the jobs.                                          *)
(***************************************************************************)
CapacityInv == TypeOK /\ QueueInv /\ JobInv

\* The invariant holds at the start.
LEMMA InitCapacity == Init => CapacityInv
  BY CapacityAssumption, EmptySeq
  DEF Init, CapacityInv, TypeOK, QueueInv, Queued, JobInv, Ended, InThread

\* A step of a thread, seen from the event loop.
LEMMA ThreadEffect ==
  ASSUME TypeOK, NEW r \in Requests, ThreadStep(r)
  PROVE  /\ UNCHANGED <<handler, waiters, permits, cancelled, warmup>>
         /\ job[r] \notin {"none", "returned", "settled"}
         /\ job' = [job EXCEPT ![r] = job'[r]]
         /\ job'[r] \in {"returned"} \cup InThread
  BY DEF TypeOK, ThreadStep, StartJob, Retrieve, StartGeneration, TakeSlot, NoSlot, CheckCancel,
         LeaveSlot, Post, Retry, Generated, Move, loopVars, InThread

\* A step of a thread keeps the types.
LEMMA ThreadType ==
  ASSUME TypeOK, NEW r \in Requests, ThreadStep(r)
  PROVE  TypeOK'
<1>1. job' \in [Requests -> {"none", "queued", "returned", "settled"} \cup InThread]
  BY ThreadEffect DEF TypeOK
<1>2. UNCHANGED <<handler, waiters, permits, cancelled, warmup>>
  BY ThreadEffect
<1> USE DEF ThreadStep, Retrieve, StartGeneration, TakeSlot, NoSlot, CheckCancel, LeaveSlot,
           Generated
<1>3. backlog' \in Seq(Requests)
  <2>1. backlog' = backlog \/ (backlog # <<>> /\ backlog' = Tail(backlog))
    BY DEF StartJob, Post, Retry
  <2>2. QED
    BY <2>1, HeadTailProperties DEF TypeOK
<1>4. attempt' \in [Requests -> 0 .. MaxRetries]
  <2>1. CASE Retry(r)
    BY <2>1, CapacityAssumption DEF Retry, TypeOK
  <2>2. CASE ~Retry(r)
    BY <2>2 DEF StartJob, Post, TypeOK
  <2>3. QED
    BY <2>1, <2>2
<1>5. slots' \in Nat
  BY DEF TypeOK, StartJob, Post, Retry
<1>6. late' \in [Requests -> Nat]
  <2>1. CASE Post(r)
    BY <2>1 DEF Post, TypeOK
  <2>2. CASE ~Post(r)
    BY <2>2 DEF StartJob, Retry, TypeOK
  <2>3. QED
    BY <2>1, <2>2
<1>7. QED
  BY <1>1, <1>2, <1>3, <1>4, <1>5, <1>6 DEF TypeOK

\* Every step keeps the types, the queue and the jobs in order.
LEMMA CapacityInvStep == CapacityInv /\ [Next]_vars => CapacityInv'
<1> SUFFICES ASSUME CapacityInv, [Next]_vars PROVE CapacityInv'
  OBVIOUS
<1> USE DEF CapacityInv, jobVars
<1>1. ASSUME NEW r \in Requests, Arrive(r) PROVE CapacityInv'
  <2>1. /\ handler[r] = "new" /\ handler \in [Requests -> Handlers] /\ waiters \in Seq(Requests)
        /\ UNCHANGED <<job, backlog, attempt, slots, warmup, late, cancelled>>
    BY <1>1 DEF Arrive, TypeOK, Handlers
  <2>2. CASE permits > 0 /\ waiters = <<>>
    <3>1. /\ permits' = permits - 1 /\ waiters' = waiters
          /\ handler' = [handler EXCEPT ![r] = "granted"]
      BY <1>1, <2>2 DEF Arrive
    <3>2. TypeOK'
      BY <2>1, <2>2, <3>1 DEF TypeOK
    <3>3. QueueInv'
      BY <2>1, <3>1, OtherHandler DEF QueueInv
    <3>4. JobInv'
      BY <2>1, <3>1 DEF JobInv
    <3>5. QED
      BY <3>2, <3>3, <3>4
  <2>3. CASE ~(permits > 0 /\ waiters = <<>>)
    <3>1. /\ permits' = permits /\ waiters' = Append(waiters, r)
          /\ handler' = [handler EXCEPT ![r] = "waiting"]
      BY <1>1, <2>3 DEF Arrive
    <3>2. TypeOK'
      BY <2>1, <3>1 DEF TypeOK
    <3>3. QueueInv'
      BY <2>1, <3>1, JoinQueue DEF QueueInv
    <3>4. JobInv'
      BY <2>1, <3>1 DEF JobInv
    <3>5. QED
      BY <3>2, <3>3, <3>4
  <2>4. QED
    BY <2>2, <2>3
<1>2. ASSUME NEW r \in Requests, NEW end \in Ended, LeaveQueue(r, end) PROVE CapacityInv'
  <2>1. PICK k \in 1 .. Len(waiters) : waiters[k] = r /\ waiters' = Without(waiters, k)
    BY <1>2 DEF LeaveQueue
  <2>2. /\ waiters' \in Seq(Requests) /\ handler[r] = "waiting"
        /\ Queued(waiters', [handler EXCEPT ![r] = end])
    BY <2>1, LeaveAnywhere DEF TypeOK, QueueInv, Handlers
  <2>3. TypeOK'
    BY <1>2, <2>2 DEF LeaveQueue, TypeOK
  <2>4. QueueInv'
    BY <1>2, <2>2 DEF LeaveQueue, QueueInv
  <2>5. JobInv'
    BY <1>2, <2>2 DEF LeaveQueue, TypeOK, JobInv, Ended
  <2>6. QED
    BY <2>3, <2>4, <2>5
<1>3. ASSUME NEW r \in Requests, GiveBack(r) PROVE CapacityInv'
  <2>1. PICK end \in {"rejected", "failed", "gone"} : Release([handler EXCEPT ![r] = end])
    BY <1>3 DEF GiveBack
  <2> DEFINE h == [handler EXCEPT ![r] = end]
  <2>2. h \in [Requests -> Handlers]
    BY DEF TypeOK, Handlers, Ended
  <2>3. Queued(waiters, h)
    BY <1>3, OtherHandler DEF GiveBack, TypeOK, QueueInv, Handlers
  <2> HIDE DEF h
  <2>4. /\ waiters' \in Seq(Requests) /\ handler' \in [Requests -> Handlers]
        /\ permits' \in Nat /\ QueueInv'
        /\ handler' = h \/ \E w \in Requests : /\ h[w] = "waiting"
                                               /\ handler' = [h EXCEPT ![w] = "granted"]
    BY <2>1, <2>2, <2>3, ReleaseEffect DEF h
  <2>5. TypeOK'
    BY <1>3, <2>4 DEF GiveBack, TypeOK, Handlers
  <2>6. JobInv'
    BY <1>3, <2>2, <2>4 DEF GiveBack, JobInv, TypeOK, h, Ended
  <2>7. QED
    BY <2>4, <2>5, <2>6
<1>4. ASSUME NEW r \in Requests, Submit(r) PROVE CapacityInv'
  <2>1. TypeOK'
    BY <1>4 DEF Submit, TypeOK
  <2>2. QueueInv'
    BY <1>4, OtherHandler DEF Submit, TypeOK, QueueInv, Handlers
  <2>3. JobInv'
    BY <1>4 DEF Submit, TypeOK, JobInv
  <2>4. QED
    BY <2>1, <2>2, <2>3
<1>5. ASSUME NEW r \in Requests, handler[r] = "awaiting", cancelled' \in {cancelled, Cancel(r)},
             UNCHANGED <<waiters, permits, jobVars>>, NEW end \in Ended \cup {"awaiting"},
             handler' = [handler EXCEPT ![r] = end]
      PROVE  CapacityInv'
  <2>1. TypeOK'
    BY <1>5 DEF TypeOK, Cancel
  <2>2. QueueInv'
    BY <1>5, OtherHandler DEF TypeOK, QueueInv, Handlers
  <2>3. JobInv'
    BY <1>5 DEF TypeOK, JobInv, Ended
  <2>4. QED
    BY <2>1, <2>2, <2>3
<1>6. ASSUME NEW r \in Requests, RequestTimeout(r) \/ Answer(r) PROVE CapacityInv'
  BY <1>5, <1>6 DEF RequestTimeout, Answer, Ended
<1>7. ASSUME NEW r \in Requests, Disconnect(r) PROVE CapacityInv'
  <2>1. CASE LeaveQueue(r, "gone")
    BY <1>2, <2>1 DEF Ended
  <2>2. CASE ~LeaveQueue(r, "gone")
    <3>1. handler = [handler EXCEPT ![r] = handler[r]]
      BY DEF TypeOK
    <3>2. QED
      BY <1>5, <1>7, <2>2, <3>1 DEF Disconnect, Ended
  <2>3. QED
    BY <2>1, <2>2
<1>8. ASSUME NEW r \in Requests, Settle(r) PROVE CapacityInv'
  <2>1. handler \in [Requests -> Handlers] /\ Release(handler)
    BY <1>8 DEF TypeOK, Handlers, Settle
  <2>2. /\ waiters' \in Seq(Requests) /\ handler' \in [Requests -> Handlers]
        /\ permits' \in Nat /\ QueueInv'
        /\ handler' = handler \/ \E w \in Requests : /\ handler[w] = "waiting"
                                                     /\ handler' = [handler EXCEPT ![w] = "granted"]
    BY <2>1, ReleaseEffect DEF QueueInv
  <2>3. TypeOK'
    BY <1>8, <2>2 DEF Settle, TypeOK, Handlers
  <2>4. JobInv'
    BY <1>8, <2>2 DEF Settle, JobInv, TypeOK
  <2>5. QED
    BY <2>2, <2>3, <2>4
<1>9. ASSUME NEW r \in Requests, Reuse(r) PROVE CapacityInv'
  <2>1. TypeOK'
    BY <1>9, CapacityAssumption DEF Reuse, TypeOK
  <2>2. QueueInv'
    BY <1>9, OtherHandler DEF Reuse, TypeOK, QueueInv, Handlers, Ended
  <2>3. JobInv'
    BY <1>9 DEF Reuse, TypeOK, JobInv
  <2>4. QED
    BY <2>1, <2>2, <2>3
<1>10. ASSUME NEW r \in Requests, ThreadStep(r) PROVE CapacityInv'
  <2>1. TypeOK'
    BY <1>10, ThreadType
  <2>2. QueueInv' /\ JobInv'
    BY <1>10, ThreadEffect DEF QueueInv, JobInv, TypeOK
  <2>3. QED
    BY <2>1, <2>2
<1>11. CASE UNCHANGED vars
  BY <1>11 DEF vars, TypeOK, QueueInv, JobInv
<1>12. ASSUME NEW r \in Requests, CapacityTimeout(r) PROVE CapacityInv'
  BY <1>2, <1>12 DEF CapacityTimeout, Ended
<1>13. ASSUME WarmUp PROVE CapacityInv'
  <2>1. TypeOK'
    BY <1>13 DEF WarmUp, TypeOK
  <2>2. QueueInv' /\ JobInv'
    BY <1>13 DEF WarmUp, QueueInv, JobInv
  <2>3. QED
    BY <2>1, <2>2
<1>14. QED
  BY <1>1, <1>3, <1>4, <1>6, <1>7, <1>8, <1>9, <1>10, <1>11, <1>12, <1>13 DEF Next, LoopStep

\* The types, and with them that a request is queued at the semaphore only while it
\* waits and has no job before it was submitted.
THEOREM CapacityInvariant == Spec => []CapacityInv
  BY InitCapacity, CapacityInvStep, PTL DEF Spec

\* Each variable of RagCapacity has its type.
THEOREM TypeCorrect == Spec => []TypeOK
<1>1. CapacityInv => TypeOK
  BY DEF CapacityInv
<1>2. QED
  BY <1>1, CapacityInvariant, PTL

(***************************************************************************)
(* Permits.                                                                *)
(***************************************************************************)
Holders(h, j) == {r \in Requests : h[r] = "granted" \/ j[r] \notin {"none", "settled"}}

\* Holders are finitely many, and one more or one less is one more or one less.
LEMMA Counting ==
  ASSUME NEW A \in SUBSET Requests
  PROVE  /\ Cardinality(A) \in Nat
         /\ \A r \in Requests \ A : Cardinality(A \cup {r}) = Cardinality(A) + 1
         /\ \A r \in A : Cardinality(A \ {r}) = Cardinality(A) - 1
<1>1. IsFiniteSet(A)
  BY CapacityAssumption, FS_Subset
<1>2. QED
  BY <1>1, FS_CardinalityType, FS_AddElement, FS_RemoveElement

\* release() makes one permit more, which is free or held by the first waiter.
LEMMA ReleaseCount ==
  ASSUME TypeOK, NEW h \in [Requests -> Handlers], NEW j,
         \A r \in Requests : h[r] = "waiting" => j[r] = "none",
         Queued(waiters, h), Release(h)
  PROVE  permits' + Cardinality(Holders(handler', j))
           = permits + 1 + Cardinality(Holders(h, j))
<1>1. CASE handler' = h /\ permits' = permits + 1
  BY <1>1
<1>2. ASSUME NEW w \in Requests, h[w] = "waiting",
             handler' = [h EXCEPT ![w] = "granted"], permits' = permits
      PROVE  permits' + Cardinality(Holders(handler', j))
               = permits + 1 + Cardinality(Holders(h, j))
  <2>1. w \notin Holders(h, j) /\ Holders(handler', j) = Holders(h, j) \cup {w}
    BY <1>2 DEF Holders
  <2>2. Holders(h, j) \in SUBSET Requests
    BY DEF Holders
  <2>3. /\ Cardinality(Holders(h, j)) \in Nat
        /\ Cardinality(Holders(h, j) \cup {w}) = Cardinality(Holders(h, j)) + 1
    BY <2>1, <2>2, Counting
  <2>4. \A a, b \in Nat : a + (b + 1) = (a + 1) + b
    OBVIOUS
  <2>5. permits \in Nat
    BY DEF TypeOK
  <2>6. QED
    BY <1>2, <2>1, <2>3, <2>4, <2>5
<1>3. QED
  BY <1>1, <1>2, ReleaseEffect

\* Every step conserves the permits.
LEMMA PermitsStep == CapacityInv /\ PermitsConserved /\ [Next]_vars => PermitsConserved'
<1> SUFFICES ASSUME CapacityInv, PermitsConserved, [Next]_vars PROVE PermitsConserved'
  OBVIOUS
<1> DEFINE H == Holders(handler, job)
<1>1. /\ PermitHolders = H /\ H \in SUBSET Requests
      /\ permits + Cardinality(H) = Limit
      /\ permits \in Nat /\ Cardinality(H) \in Nat
  <2>1. PermitHolders = H /\ H \in SUBSET Requests
    BY DEF PermitHolders, HoldsPermit, Holders
  <2>2. QED
    BY <2>1, Counting DEF PermitsConserved, CapacityInv, TypeOK
<1>2. PermitHolders' = Holders(handler', job')
  BY DEF PermitHolders, HoldsPermit, Holders
<1>3. ASSUME Holders(handler', job') = H, permits' = permits PROVE PermitsConserved'
  BY <1>1, <1>2, <1>3 DEF PermitsConserved
<1>4. ASSUME NEW r \in Requests, Arrive(r) PROVE PermitsConserved'
  <2>1. CASE permits > 0 /\ waiters = <<>>
    <3>1. /\ r \notin H /\ Holders(handler', job') = H \cup {r} /\ permits' = permits - 1
      BY <1>4, <2>1 DEF Arrive, Holders, CapacityInv, JobInv, TypeOK, jobVars
    <3>2. Cardinality(H \cup {r}) = Cardinality(H) + 1
      BY <1>1, <3>1, Counting
    <3>3. QED
      BY <1>1, <1>2, <3>1, <3>2 DEF PermitsConserved
  <2>2. CASE ~(permits > 0 /\ waiters = <<>>)
    BY <1>3, <1>4, <2>2 DEF Arrive, Holders, CapacityInv, TypeOK, jobVars
  <2>3. QED
    BY <2>1, <2>2
<1>5. ASSUME NEW r \in Requests, NEW end \in Ended, LeaveQueue(r, end) PROVE PermitsConserved'
  <2>1. handler[r] = "waiting"
    BY <1>5 DEF LeaveQueue, CapacityInv, QueueInv, Queued
  <2>2. QED
    BY <1>3, <1>5, <2>1 DEF LeaveQueue, Holders, CapacityInv, TypeOK, jobVars, Ended
<1>6. ASSUME NEW r \in Requests, GiveBack(r) PROVE PermitsConserved'
  <2>1. PICK end \in {"rejected", "failed", "gone"} : Release([handler EXCEPT ![r] = end])
    BY <1>6 DEF GiveBack
  <2> DEFINE h == [handler EXCEPT ![r] = end]
  <2>2. /\ handler[r] = "granted" /\ job' = job
        /\ h \in [Requests -> Handlers]
        /\ \A q \in Requests : h[q] = "waiting" => job[q] = "none"
    BY <1>6 DEF GiveBack, jobVars, CapacityInv, TypeOK, JobInv, Handlers, Ended
  <2>3. Queued(waiters, h)
    BY <2>2, OtherHandler DEF CapacityInv, TypeOK, QueueInv, Handlers
  <2>4. r \in H /\ Holders(h, job) = H \ {r}
    BY <2>2 DEF Holders, CapacityInv, TypeOK, JobInv
  <2>5. Cardinality(H \ {r}) = Cardinality(H) - 1
    BY <1>1, <2>4, Counting
  <2> HIDE DEF h
  <2>6. permits' + Cardinality(Holders(handler', job)) = permits + 1 + Cardinality(Holders(h, job))
    BY <2>1, <2>2, <2>3, ReleaseCount DEF h, CapacityInv
  <2>7. QED
    BY <1>1, <1>2, <2>2, <2>4, <2>5, <2>6 DEF PermitsConserved
<1>7. ASSUME NEW r \in Requests, Submit(r) PROVE PermitsConserved'
  BY <1>3, <1>7 DEF Submit, Holders, CapacityInv, TypeOK
<1>8. ASSUME NEW r \in Requests, RequestTimeout(r) \/ Answer(r) PROVE PermitsConserved'
  BY <1>3, <1>8 DEF RequestTimeout, Answer, Holders, CapacityInv, TypeOK, jobVars
<1>9. ASSUME NEW r \in Requests, Disconnect(r) PROVE PermitsConserved'
  <2>1. CASE LeaveQueue(r, "gone")
    BY <1>5, <2>1 DEF Ended
  <2>2. CASE ~LeaveQueue(r, "gone")
    BY <1>3, <1>9, <2>2 DEF Disconnect, Holders, CapacityInv, TypeOK, jobVars
  <2>3. QED
    BY <2>1, <2>2
<1>10. ASSUME NEW r \in Requests, Settle(r) PROVE PermitsConserved'
  <2>1. /\ job[r] = "returned" /\ job' = [job EXCEPT ![r] = "settled"] /\ Release(handler)
        /\ handler \in [Requests -> Handlers] /\ Queued(waiters, handler)
        /\ handler[r] \notin {"new", "waiting", "granted"}
    BY <1>10 DEF Settle, CapacityInv, TypeOK, QueueInv, JobInv, Handlers
  <2>2. \A q \in Requests : handler[q] = "waiting" => job'[q] = "none"
    BY <2>1 DEF CapacityInv, JobInv, TypeOK
  <2>3. permits' + Cardinality(Holders(handler', job'))
          = permits + 1 + Cardinality(Holders(handler, job'))
    BY <2>1, <2>2, ReleaseCount DEF CapacityInv
  <2>4. r \in H /\ Holders(handler, job') = H \ {r}
    BY <2>1 DEF Holders, CapacityInv, TypeOK
  <2>5. Cardinality(H \ {r}) = Cardinality(H) - 1
    BY <1>1, <2>4, Counting
  <2>6. QED
    BY <1>1, <1>2, <2>3, <2>4, <2>5 DEF PermitsConserved
<1>11. ASSUME NEW r \in Requests, Reuse(r) PROVE PermitsConserved'
  BY <1>3, <1>11 DEF Reuse, Holders, CapacityInv, TypeOK, Ended
<1>12. ASSUME NEW r \in Requests, ThreadStep(r) PROVE PermitsConserved'
  BY <1>3, <1>12, ThreadEffect DEF Holders, CapacityInv, TypeOK, InThread
<1>13. CASE UNCHANGED vars
  BY <1>3, <1>13 DEF vars, Holders
<1>14. ASSUME NEW r \in Requests, CapacityTimeout(r) PROVE PermitsConserved'
  BY <1>5, <1>14 DEF CapacityTimeout, Ended
<1>15. ASSUME WarmUp PROVE PermitsConserved'
  BY <1>3, <1>15 DEF WarmUp, Holders
<1>16. QED
  BY <1>4, <1>6, <1>7, <1>8, <1>9, <1>10, <1>11, <1>12, <1>13, <1>14, <1>15 DEF Next, LoopStep

\* No timeout, disconnect, error or late permit ever loses a permit of the semaphore
\* or returns it twice, for any number of requests, permits and threads.
THEOREM PermitsAreConserved == Spec => []PermitsConserved
<1>1. Init => PermitsConserved
  <2>1. ASSUME Init PROVE PermitHolders = {}
    BY <2>1 DEF Init, PermitHolders, HoldsPermit
  <2>2. Cardinality({}) = 0
    BY FS_EmptySet
  <2>3. Limit + 0 = Limit
    BY CapacityAssumption
  <2>4. QED
    BY <2>1, <2>2, <2>3 DEF Init, PermitsConserved
<1>2. QED
  BY <1>1, PermitsStep, CapacityInvariant, PTL DEF Spec

(***************************************************************************)
(* Slots.                                                                  *)
(***************************************************************************)
\* A slot that passes between the free ones and the warm-up is still there.
LEMMA SlotMoves ==
  ASSUME NEW a \in Nat, NEW b \in Nat, NEW c \in Nat, NEW d \in Nat, NEW h \in Nat, NEW n,
         a + b = c + d, c + h + d = n
  PROVE  a + h + b = n
  OBVIOUS

\* Every step conserves the slots.
LEMMA SlotsStep == CapacityInv /\ SlotsConserved /\ [Next]_vars => SlotsConserved'
<1> SUFFICES ASSUME CapacityInv, SlotsConserved, [Next]_vars PROVE SlotsConserved'
  OBVIOUS
<1> DEFINE H == Cardinality(SlotHolders)
<1>1. /\ SlotHolders \in SUBSET Requests
      /\ slots \in Nat /\ H \in Nat /\ WarmupSlots \in Nat
      /\ slots + H + WarmupSlots = Slots
  <2>1. SlotHolders \in SUBSET Requests
    BY DEF SlotHolders
  <2>2. QED
    BY <2>1, Counting DEF SlotsConserved, WarmupSlots, CapacityInv, TypeOK
<1>s. ASSUME slots' + Cardinality(SlotHolders') = slots + H, warmup' = warmup PROVE SlotsConserved'
  <2>1. WarmupSlots' = WarmupSlots
    BY <1>s DEF WarmupSlots
  <2> QED
    BY <1>1, <1>s, <2>1 DEF SlotsConserved
<1> HIDE DEF H
<1>2. ASSUME SlotHolders' = SlotHolders, slots' = slots, warmup' = warmup PROVE SlotsConserved'
  BY <1>s, <1>2 DEF H
<1>3. ASSUME NEW r \in Requests, LoopStep(r) PROVE SlotsConserved'
  <2>1. slots' = slots /\ warmup' = warmup
    BY <1>3 DEF LoopStep, Arrive, CapacityTimeout, LeaveQueue, GiveBack, Submit, RequestTimeout,
       Disconnect, Answer, Settle, Reuse, jobVars
  <2>2. \A q \in Requests : job'[q] \in HoldsSlot <=> job[q] \in HoldsSlot
    BY <1>3 DEF LoopStep, Arrive, CapacityTimeout, LeaveQueue, GiveBack, Submit, RequestTimeout,
       Disconnect, Answer, Settle, Reuse, jobVars, HoldsSlot, CapacityInv, TypeOK, JobInv
  <2> QED
    BY <1>2, <2>1, <2>2 DEF SlotHolders
<1>4. ASSUME NEW r \in Requests, TakeSlot(r) PROVE SlotsConserved'
  <2>1. /\ r \notin SlotHolders /\ SlotHolders' = SlotHolders \cup {r} /\ slots' = slots - 1
        /\ warmup' = warmup
    BY <1>4 DEF TakeSlot, Move, loopVars, SlotHolders, HoldsSlot, CapacityInv, TypeOK
  <2>2. Cardinality(SlotHolders \cup {r}) = H + 1
    BY <1>1, <2>1, Counting DEF H
  <2>3. QED
    BY <1>1, <1>s, <2>1, <2>2
<1>5. ASSUME NEW r \in Requests, NEW from \in {"check", "ollama"}, LeaveSlot(r, from)
      PROVE  SlotsConserved'
  <2>1. /\ r \in SlotHolders /\ SlotHolders' = SlotHolders \ {r} /\ slots' = slots + 1
        /\ warmup' = warmup
    BY <1>5 DEF LeaveSlot, Move, loopVars, SlotHolders, HoldsSlot, CapacityInv, TypeOK
  <2>2. Cardinality(SlotHolders \ {r}) = H - 1
    BY <1>1, <2>1, Counting DEF H
  <2>3. QED
    BY <1>1, <1>s, <2>1, <2>2
<1>6. ASSUME NEW r \in Requests, NEW from, NEW to, Move(r, from, to),
             from \in HoldsSlot <=> to \in HoldsSlot, slots' = slots
      PROVE  SlotsConserved'
  BY <1>2, <1>6 DEF Move, loopVars, SlotHolders, CapacityInv, TypeOK
<1>7. ASSUME NEW r \in Requests, ThreadStep(r) PROVE SlotsConserved'
  <2>1. CASE StartJob(r) \/ Retrieve(r) \/ StartGeneration(r) \/ NoSlot(r) \/ Post(r) \/ Retry(r)
    BY <1>6, <2>1 DEF StartJob, Retrieve, StartGeneration, NoSlot, Post, Retry, HoldsSlot
  <2>2. CASE CheckCancel(r)
    BY <1>5, <1>6, <2>2 DEF CheckCancel, HoldsSlot
  <2>3. QED
    BY <1>4, <1>5, <1>7, <2>1, <2>2 DEF ThreadStep, Generated
<1>8. CASE UNCHANGED vars
  BY <1>2, <1>8 DEF vars, SlotHolders
<1>9. ASSUME WarmUp PROVE SlotsConserved'
  <2>1. SlotHolders' = SlotHolders /\ slots' + WarmupSlots' = slots + WarmupSlots
    BY <1>1, <1>9 DEF WarmUp, SlotHolders, WarmupSlots
  <2>2. slots' \in Nat /\ WarmupSlots' \in Nat
    BY <1>1, <1>9 DEF WarmUp, WarmupSlots
  <2>3. Cardinality(SlotHolders') \in Nat /\ slots + Cardinality(SlotHolders') + WarmupSlots = Slots
    BY <1>1, <2>1 DEF H
  <2>4. slots \in Nat /\ WarmupSlots \in Nat
    BY <1>1
  <2> DEFINE a == slots'
             b == WarmupSlots'
             h == Cardinality(SlotHolders')
  <2>5. a \in Nat /\ b \in Nat /\ h \in Nat /\ a + b = slots + WarmupSlots /\ slots + h + WarmupSlots = Slots
    BY <2>1, <2>2, <2>3
  <2> HIDE DEF a, b, h
  <2>6. a + h + b = Slots
    BY <2>4, <2>5, SlotMoves
  <2> QED
    BY <2>6 DEF SlotsConserved, a, b, h
<1>10. QED
  BY <1>3, <1>7, <1>8, <1>9 DEF Next

\* Retries, errors, cancelled posts, abandoned streams and the warm-up return every
\* generation slot exactly once, for any number of slots and retries.
THEOREM SlotsAreConserved == Spec => []SlotsConserved
<1>1. Init => SlotsConserved
  <2>1. ASSUME Init PROVE SlotHolders = {} /\ WarmupSlots = 0
    BY <2>1 DEF Init, SlotHolders, HoldsSlot, WarmupSlots
  <2>2. Cardinality({}) = 0
    BY FS_EmptySet
  <2>3. Slots + 0 + 0 = Slots
    BY CapacityAssumption
  <2>4. QED
    BY <2>1, <2>2, <2>3 DEF Init, SlotsConserved
<1>2. QED
  BY <1>1, SlotsStep, CapacityInvariant, PTL DEF Spec

(***************************************************************************)
(* No work and no request to Ollama for nobody.                            *)
(***************************************************************************)
\* A job that has not returned although its handler has ended knows of it, unless it
\* only retrieves.
ToldInv ==
  \A r \in Requests :
    /\ handler[r] \in Ended /\ Kind[r] # "retrieve" /\ job[r] \in {"queued"} \cup InThread
    => r \in cancelled

\* Every step keeps the jobs informed.
LEMMA ToldStep == CapacityInv /\ ToldInv /\ [Next]_vars => ToldInv'
<1> SUFFICES ASSUME CapacityInv, ToldInv, [Next]_vars PROVE ToldInv'
  OBVIOUS
<1>1. ASSUME NEW r \in Requests, ThreadStep(r) PROVE ToldInv'
  BY <1>1, ThreadEffect DEF CapacityInv, TypeOK, ToldInv, InThread, ThreadStep, StartJob, Retrieve,
     StartGeneration, TakeSlot, NoSlot, CheckCancel, LeaveSlot, Post, Retry, Generated, Move
<1>2. ASSUME NEW r \in Requests, LoopStep(r), ~Reuse(r) PROVE ToldInv'
  <2>1. cancelled \subseteq cancelled'
    BY <1>2 DEF LoopStep, Arrive, CapacityTimeout, LeaveQueue, GiveBack, Submit, RequestTimeout,
       Disconnect, Answer, Settle, Cancel
  <2>2. ASSUME NEW q \in Requests, handler'[q] \in Ended, Kind[q] # "retrieve",
               job'[q] \in {"queued"} \cup InThread
        PROVE  q \in cancelled'
    <3>1. CASE handler[q] \in Ended /\ job[q] \in {"queued"} \cup InThread
      BY <2>1, <2>2, <3>1 DEF ToldInv
    <3>2. CASE ~(handler[q] \in Ended /\ job[q] \in {"queued"} \cup InThread)
      <4>1. CASE RequestTimeout(r) \/ Disconnect(r) \/ Answer(r)
        BY <2>2, <3>2, <4>1 DEF RequestTimeout, Disconnect, Answer, LeaveQueue, Cancel, jobVars,
           ResultSeen, CapacityInv, TypeOK, JobInv, QueueInv, Queued, Ended, InThread
      <4>2. CASE Arrive(r) \/ CapacityTimeout(r) \/ Submit(r)
        BY <2>2, <3>2, <4>2 DEF Arrive, CapacityTimeout, LeaveQueue, Submit, jobVars,
           CapacityInv, TypeOK, JobInv, QueueInv, Queued, Ended, InThread
      <4>r. ASSUME NEW h \in [Requests -> Handlers], Release(h)
            PROVE  handler'[q] = h[q] \/ handler'[q] = "granted"
        BY <4>r DEF Release
      <4>3. CASE GiveBack(r)
        <5>1. PICK end \in {"rejected", "failed", "gone"} : Release([handler EXCEPT ![r] = end])
          BY <4>3 DEF GiveBack
        <5>2. [handler EXCEPT ![r] = end] \in [Requests -> Handlers]
          BY DEF CapacityInv, TypeOK, Handlers, Ended
        <5>3. handler'[q] = [handler EXCEPT ![r] = end][q]
          BY <2>2, <4>r, <5>1, <5>2 DEF Ended
        <5>4. job' = job /\ job[r] = "none"
          BY <4>3 DEF GiveBack, jobVars, CapacityInv, JobInv
        <5> QED
          BY <2>2, <3>2, <5>3, <5>4 DEF CapacityInv, TypeOK, InThread
      <4>4. CASE Settle(r)
        <5>1. handler'[q] = handler[q]
          BY <2>2, <4>r, <4>4 DEF Settle, CapacityInv, TypeOK, Handlers, Ended
        <5> QED
          BY <2>2, <3>2, <4>4, <5>1 DEF Settle, CapacityInv, TypeOK, InThread
      <4> QED
        BY <1>2, <4>1, <4>2, <4>3, <4>4 DEF LoopStep
    <3> QED
      BY <3>1, <3>2
  <2> QED
    BY <2>2 DEF ToldInv
<1>3. ASSUME NEW r \in Requests, Reuse(r) PROVE ToldInv'
  BY <1>3 DEF Reuse, ToldInv, CapacityInv, TypeOK, Ended
<1>4. CASE UNCHANGED vars \/ WarmUp
  BY <1>4 DEF vars, WarmUp, ToldInv
<1> QED
  BY <1>1, <1>2, <1>3, <1>4 DEF Next

\* A job whose handler has given up retrieves nothing when its thread comes, and a chat
\* goes on to no generation, whatever the number of requests and threads.
THEOREM NobodyIsWorkedFor == Spec => AbandonedStartsNothing
<1> DEFINE Idle(r) == handler[r] \in Ended /\ Kind[r] # "retrieve" =>
                        /\ job[r] = "queued" => job'[r] # "retrieve"
                        /\ job[r] = "prompt" /\ Kind[r] = "chat" => job'[r] # "slot"
<1>1. Init => ToldInv
  BY DEF Init, ToldInv, Ended
<1>2. ASSUME CapacityInv, ToldInv, [Next]_vars, NEW r \in Requests PROVE Idle(r)
  <2> SUFFICES ASSUME handler[r] \in Ended, Kind[r] # "retrieve", job[r] \in {"queued", "prompt"},
                      job'[r] # job[r]
               PROVE  job'[r] # "retrieve" /\ (Kind[r] = "chat" => job'[r] # "slot")
    BY DEF CapacityInv, TypeOK
  <2>1. r \in cancelled
    BY <1>2 DEF ToldInv, InThread
  <2>2. ASSUME NEW q \in Requests, ThreadStep(q)
        PROVE  job'[r] # "retrieve" /\ (Kind[r] = "chat" => job'[r] # "slot")
    BY <1>2, <2>1, <2>2 DEF CapacityInv, TypeOK, ThreadStep, StartJob, Retrieve, StartGeneration,
       TakeSlot, NoSlot, CheckCancel, LeaveSlot, Post, Retry, Generated, Move
  <2>3. ASSUME NEW q \in Requests, LoopStep(q)
        PROVE  job'[r] # "retrieve" /\ (Kind[r] = "chat" => job'[r] # "slot")
    BY <1>2, <2>3 DEF LoopStep, Arrive, CapacityTimeout, LeaveQueue, GiveBack, Submit, RequestTimeout,
       Disconnect, Answer, Settle, Reuse, jobVars, CapacityInv, TypeOK
  <2>4. CASE UNCHANGED vars \/ WarmUp
    BY <2>4 DEF vars, WarmUp
  <2> QED
    BY <1>2, <2>2, <2>3, <2>4 DEF Next
<1>3. CapacityInv /\ ToldInv /\ [Next]_vars => [\A r \in Requests : Idle(r)]_vars
  BY <1>2
<1> QED
  BY <1>1, <1>3, ToldStep, CapacityInvariant, PTL DEF Spec, AbandonedStartsNothing

\* A post that came after the cancel event is the last of its job: the event stays
\* set, and the job cannot pass its check again.
LateInv ==
  \A r \in Requests :
    /\ late[r] \in {0, 1}
    /\ late[r] = 1 => r \in cancelled /\ job[r] \in {"ollama", "check", "returned", "settled"}

\* Every step keeps the account of late posts.
LEMMA LateStep == CapacityInv /\ LateInv /\ [Next]_vars => LateInv'
<1> SUFFICES ASSUME CapacityInv, LateInv, [Next]_vars PROVE LateInv'
  OBVIOUS
<1>1. ASSUME late' = late, cancelled \subseteq cancelled',
             \A r \in Requests : job'[r] = job[r] \/ late[r] = 0
                                   \/ job'[r] \in {"check", "returned", "settled"}
      PROVE  LateInv'
  BY <1>1 DEF LateInv
<1>2. ASSUME NEW r \in Requests, Reuse(r) PROVE LateInv'
  BY <1>2 DEF Reuse, LateInv, CapacityInv, TypeOK
<1>3. ASSUME NEW r \in Requests, LoopStep(r), ~Reuse(r) PROVE LateInv'
  <2>1. /\ late' = late /\ cancelled \subseteq cancelled'
        /\ \A q \in Requests : job'[q] = job[q] \/ job[q] = "none" \/ job'[q] = "settled"
    BY <1>3 DEF LoopStep, Arrive, CapacityTimeout, LeaveQueue, GiveBack, Submit, RequestTimeout,
       Disconnect, Answer, Settle, Cancel, jobVars, CapacityInv, TypeOK, JobInv
  <2>2. QED
    BY <1>1, <2>1 DEF LateInv
<1>4. ASSUME NEW r \in Requests, Post(r) PROVE LateInv'
  BY <1>4 DEF Post, Move, loopVars, LateInv, CapacityInv, TypeOK
<1>5. ASSUME NEW r \in Requests, ThreadStep(r), ~Post(r) PROVE LateInv'
  <2>1. late' = late /\ cancelled' = cancelled
    BY <1>5, ThreadEffect DEF CapacityInv, ThreadStep, StartJob, Retrieve, StartGeneration, TakeSlot,
       NoSlot, CheckCancel, LeaveSlot, Retry, Generated
  <2>2. \A q \in Requests : job'[q] = job[q] \/ late[q] = 0
                              \/ job'[q] \in {"check", "returned", "settled"}
    BY <1>5 DEF ThreadStep, StartJob, Retrieve, StartGeneration, TakeSlot, NoSlot, CheckCancel,
       LeaveSlot, Retry, Generated, Move, CapacityInv, TypeOK, LateInv
  <2>3. QED
    BY <1>1, <2>1, <2>2
<1>6. CASE UNCHANGED vars \/ WarmUp
  BY <1>1, <1>6 DEF vars, WarmUp
<1>7. QED
  BY <1>2, <1>3, <1>4, <1>5, <1>6 DEF Next

\* After the cancel event a job posts to Ollama at most once, the post whose check it
\* had passed, for any number of retries.
THEOREM PostsStop == Spec => []CancelStopsPosts
<1>1. Init => LateInv
  BY DEF Init, LateInv
<1>2. LateInv => CancelStopsPosts
  BY DEF LateInv, CancelStopsPosts
<1>3. QED
  BY <1>1, <1>2, LateStep, CapacityInvariant, PTL DEF Spec
=============================================================================
