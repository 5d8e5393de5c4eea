---------------------------- MODULE RagCapacity ----------------------------
(***************************************************************************)
(* How the API bounds the work of the RAG pipeline: the asyncio semaphore  *)
(* a request must hold, the thread pool its job runs in, the cancel event  *)
(* and the generation slots in front of Ollama.                            *)
(*                                                                         *)
(* A request has a handler on the event loop and, once it was submitted, a *)
(* job in a thread.  The handler may give up while the job goes on, so the *)
(* permit belongs to the job.  A request that has ended is reused for the  *)
(* next one of its kind.  Time is abstract: a timeout may come at any time *)
(* at which its timer runs.  Next to the first requests the models are     *)
(* warmed up, in a thread of another pool.                                 *)
(***************************************************************************)
EXTENDS Naturals, Sequences, FiniteSets

CONSTANTS
  Requests,     \* requests in the air at the same time
  Kind,         \* "chat" (complete answer), "stream" or "retrieve"
  Limit,        \* RAG_CONCURRENCY_LIMIT
  Workers,      \* RAG_EXECUTOR_WORKERS
  Slots,        \* GENERATION_CONCURRENCY_LIMIT
  MaxRetries    \* OLLAMA_MAX_RETRIES

ASSUME CapacityAssumption ==
  /\ IsFiniteSet(Requests)
  /\ Kind \in [Requests -> {"chat", "stream", "retrieve"}]
  /\ Limit \in Nat \ {0} /\ Workers \in Nat \ {0} /\ Slots \in Nat \ {0}
  /\ MaxRetries \in Nat

VARIABLES
  handler,    \* what the coroutine of the request does
  waiters,    \* the requests queued at the semaphore, first in first out
  permits,    \* the value of the semaphore
  job,        \* where the job of the request is
  backlog,    \* the work queue of the executor
  attempt,    \* retries the job has used
  cancelled,  \* the requests whose cancel event is set
  slots,      \* free generation slots
  warmup,     \* the generate() of _warm_models, which needs a slot too
  late        \* history: posts to Ollama that started after the cancel event

vars == <<handler, waiters, permits, job, backlog, attempt, cancelled, slots, warmup, late>>
jobVars == <<job, backlog, attempt, slots, warmup, late>>

Ended == {"answered", "failed", "timedout", "rejected", "gone"}

\* A job waits for a thread, runs in one, has returned, or the event loop knows.
InThread == {"retrieve", "prompt", "slot", "check", "post", "ollama"}
HoldsSlot == {"check", "post", "ollama"}

Running == {r \in Requests : job[r] \in InThread}

Init ==
  /\ handler = [r \in Requests |-> "new"]
  /\ waiters = <<>>
  /\ permits = Limit
  /\ job = [r \in Requests |-> "none"]
  /\ backlog = <<>>
  /\ attempt = [r \in Requests |-> 0]
  /\ cancelled = {}
  /\ slots = Slots
  /\ warmup \in {"slot", "done"}
  /\ late = [r \in Requests |-> 0]

(***************************************************************************)
(* The event loop: asyncio.Semaphore and the handlers.                     *)
(***************************************************************************)
\* release() hands the permit to the first waiter, or puts it back.
Release(h) ==
  IF waiters = <<>>
    THEN handler' = h /\ permits' = permits + 1 /\ UNCHANGED waiters
    ELSE /\ handler' = [h EXCEPT ![Head(waiters)] = "granted"]
         /\ waiters' = Tail(waiters)
         /\ UNCHANGED permits

\* acquire() queues behind the waiters unless there is a permit.
Arrive(r) ==
  /\ handler[r] = "new"
  /\ IF permits > 0 /\ waiters = <<>>
       THEN /\ permits' = permits - 1
            /\ handler' = [handler EXCEPT ![r] = "granted"]
            /\ UNCHANGED waiters
       ELSE /\ waiters' = Append(waiters, r)
            /\ handler' = [handler EXCEPT ![r] = "waiting"]
            /\ UNCHANGED permits
  /\ UNCHANGED <<jobVars, cancelled>>

Without(q, i) == SubSeq(q, 1, i - 1) \o SubSeq(q, i + 1, Len(q))

\* acquire() is cancelled.
LeaveQueue(r, end) ==
  /\ \E i \in 1 .. Len(waiters) :
       waiters[i] = r /\ waiters' = Without(waiters, i)
  /\ handler' = [handler EXCEPT ![r] = end]
  /\ UNCHANGED <<permits, jobVars, cancelled>>

CapacityTimeout(r) == LeaveQueue(r, "rejected")

\* The permit came with no time left or after the client had gone, or the executor
\* takes no job.
GiveBack(r) ==
  /\ handler[r] = "granted"
  /\ \E end \in {"rejected", "failed", "gone"} :
       (end = "gone" => Kind[r] = "stream") /\ Release([handler EXCEPT ![r] = end])
  /\ UNCHANGED <<jobVars, cancelled>>

Submit(r) ==
  /\ handler[r] = "granted"
  /\ handler' = [handler EXCEPT ![r] = "awaiting"]
  /\ job' = [job EXCEPT ![r] = "queued"]
  /\ backlog' = Append(backlog, r)
  /\ UNCHANGED <<waiters, permits, attempt, slots, warmup, late, cancelled>>

\* retrieve_best takes no cancel event.
Cancel(r) == IF Kind[r] = "retrieve" THEN cancelled ELSE cancelled \cup {r}

\* MUTANT: the timeout of the handler releases the permit as well.
TimeoutReleases(r) ==
  /\ handler[r] = "awaiting" /\ job[r] # "settled"
  /\ Release([handler EXCEPT ![r] = "timedout"])
  /\ cancelled' = Cancel(r)
  /\ UNCHANGED jobVars

\* MUTANT: the handler that stops waiting does not tell the job.
TimeoutUntold(r) ==
  /\ handler[r] = "awaiting" /\ job[r] # "settled"
  /\ handler' = [handler EXCEPT ![r] = "timedout"]
  /\ UNCHANGED <<cancelled, waiters, permits, jobVars>>

\* The handler stops waiting; shield() keeps the job and its permit.
RequestTimeout(r) ==
  /\ handler[r] = "awaiting" /\ job[r] # "settled"
  /\ handler' = [handler EXCEPT ![r] = "timedout"]
  /\ cancelled' = Cancel(r)
  /\ UNCHANGED <<waiters, permits, jobVars>>

\* The client of a stream goes away before or after the job was submitted.  Either
\* the response is cancelled or _watch_disconnect notices first.
Disconnect(r) ==
  /\ Kind[r] = "stream"
  /\ \/ LeaveQueue(r, "gone")
     \/ /\ handler[r] = "awaiting"
        /\ handler' \in {handler, [handler EXCEPT ![r] = "gone"]}
        /\ cancelled' = Cancel(r)
        /\ UNCHANGED <<waiters, permits, jobVars>>

\* A stream is told the end by its thread, the others by the future.
ResultSeen(r) == job[r] = "settled" \/ (Kind[r] = "stream" /\ job[r] = "returned")

\* The handler sees the result; an error of a chat sets its cancel event, and so
\* does the end of every stream.
Answer(r) ==
  /\ handler[r] = "awaiting" /\ ResultSeen(r)
  /\ \/ /\ handler' = [handler EXCEPT ![r] = "answered"]
        /\ cancelled' = IF Kind[r] = "stream" THEN Cancel(r) ELSE cancelled
     \/ /\ handler' = [handler EXCEPT ![r] = "failed"]
        /\ cancelled' = Cancel(r)
  /\ UNCHANGED <<waiters, permits, jobVars>>

\* MUTANT: the permit is released by the handler that awaits the job.
SettleAwaited(r) ==
  /\ job[r] = "returned" /\ handler[r] = "awaiting"
  /\ Release(handler)
  /\ job' = [job EXCEPT ![r] = "settled"]
  /\ UNCHANGED <<backlog, attempt, slots, warmup, late, cancelled>>

\* The done callback of the future runs on the event loop after the job returned.
Settle(r) ==
  /\ job[r] = "returned"
  /\ Release(handler)
  /\ job' = [job EXCEPT ![r] = "settled"]
  /\ UNCHANGED <<backlog, attempt, slots, warmup, late, cancelled>>

\* The next request takes the place of one that has ended with its job.
Reuse(r) ==
  /\ handler[r] \in Ended /\ job[r] \in {"none", "settled"}
  /\ handler' = [handler EXCEPT ![r] = "new"]
  /\ job' = [job EXCEPT ![r] = "none"]
  /\ attempt' = [attempt EXCEPT ![r] = 0]
  /\ late' = [late EXCEPT ![r] = 0]
  /\ cancelled' = cancelled \ {r}
  /\ UNCHANGED <<waiters, permits, backlog, slots, warmup>>

(***************************************************************************)
(* The threads: ask, ask_stream_sync, retrieve_best and ollama_client.     *)
(***************************************************************************)
loopVars == <<handler, waiters, permits, cancelled, warmup>>

Move(r, from, to) ==
  /\ job[r] = from
  /\ job' = [job EXCEPT ![r] = to]
  /\ UNCHANGED loopVars

StartJob(r) ==
  /\ backlog # <<>> /\ Head(backlog) = r
  /\ Cardinality(Running) < Workers
  /\ Move(r, "queued", IF r \in cancelled THEN "returned" ELSE "retrieve")
  /\ backlog' = Tail(backlog)
  /\ UNCHANGED <<attempt, slots, late>>

\* Retrieval ends the job (an answer, a direct reply, an error) or gives a prompt.
Retrieve(r) ==
  /\ \E to \in {"returned", "prompt"} :
       (Kind[r] = "retrieve" => to = "returned") /\ Move(r, "retrieve", to)
  /\ UNCHANGED <<backlog, attempt, slots, late>>

\* ask() looks at the cancel event once more, ask_stream_sync does not.
StartGeneration(r) ==
  /\ Move(r, "prompt", IF r \in cancelled /\ Kind[r] = "chat" THEN "returned" ELSE "slot")
  /\ UNCHANGED <<backlog, attempt, slots, late>>

\* The slot may be taken although the event was set since it was last polled.
TakeSlot(r) ==
  /\ slots > 0
  /\ slots' = slots - 1
  /\ Move(r, "slot", IF Kind[r] = "chat" THEN "check" ELSE "post")
  /\ UNCHANGED <<backlog, attempt, late>>

\* The wait for a slot ends with the cancel event or with its own timeout.
NoSlot(r) ==
  /\ Move(r, "slot", "returned")
  /\ UNCHANGED <<backlog, attempt, slots, late>>

LeaveSlot(r, from) ==
  /\ Move(r, from, "returned")
  /\ slots' = slots + 1
  /\ UNCHANGED <<backlog, attempt, late>>

\* MUTANT: post_with_retry ignores the cancel event.
AlwaysPosts(r) ==
  /\ Move(r, "check", "post")
  /\ UNCHANGED <<backlog, attempt, slots, late>>

\* post_with_retry looks at the event before every attempt.
CheckCancel(r) ==
  \/ r \in cancelled /\ LeaveSlot(r, "check")
  \/ /\ r \notin cancelled
     /\ Move(r, "check", "post")
     /\ UNCHANGED <<backlog, attempt, slots, late>>

Post(r) ==
  /\ Move(r, "post", "ollama")
  /\ late' = IF r \in cancelled THEN [late EXCEPT ![r] = @ + 1] ELSE late
  /\ UNCHANGED <<backlog, attempt, slots>>

\* HTTP 5xx or no connection: a chat tries again.
Retry(r) ==
  /\ Kind[r] = "chat" /\ attempt[r] < MaxRetries
  /\ Move(r, "ollama", "check")
  /\ attempt' = [attempt EXCEPT ![r] = @ + 1]
  /\ UNCHANGED <<backlog, slots, late>>

\* MUTANT: the slot is released only when the generation succeeded.
KeepsSlotOnError(r) ==
  \/ LeaveSlot(r, "ollama")
  \/ Move(r, "ollama", "returned") /\ UNCHANGED <<backlog, attempt, slots, late>>

\* The answer, the end of the stream, a cancelled stream, or an error.
Generated(r) == LeaveSlot(r, "ollama")

\* _warm_models, started once and awaited by nobody, calls generate() without a cancel
\* event: the wait for a slot ends with its timeout, retries stay within the slot.
WarmUp ==
  /\ \/ warmup = "slot" /\ slots > 0 /\ warmup' = "busy" /\ slots' = slots - 1
     \/ warmup = "slot" /\ warmup' = "done" /\ UNCHANGED slots
     \/ warmup = "busy" /\ warmup' = "done" /\ slots' = slots + 1
  /\ UNCHANGED <<handler, waiters, permits, cancelled, job, backlog, attempt, late>>

LoopStep(r) ==
  Arrive(r) \/ CapacityTimeout(r) \/ GiveBack(r) \/ Submit(r) \/ RequestTimeout(r)
    \/ Disconnect(r) \/ Answer(r) \/ Settle(r) \/ Reuse(r)

ThreadStep(r) ==
  StartJob(r) \/ Retrieve(r) \/ StartGeneration(r) \/ TakeSlot(r) \/ NoSlot(r)
    \/ CheckCancel(r) \/ Post(r) \/ Retry(r) \/ Generated(r)

Next == WarmUp \/ \E r \in Requests : LoopStep(r) \/ ThreadStep(r)

Spec == Init /\ [][Next]_vars

\* Ollama may stream tokens for ever: only a stream nobody wants has to end.
Stream(r) == Kind[r] = "stream" /\ job[r] = "ollama" /\ r \notin cancelled

\* The callback and the threads run, and every call a thread makes has a timeout:
\* of the retrieval, of the wait for a slot and of Ollama's next bytes.
FairSpec ==
  /\ Spec
  /\ \A r \in Requests :
       /\ WF_vars(GiveBack(r) \/ Submit(r))
       /\ WF_vars(Settle(r))
       /\ WF_vars(~Stream(r) /\ ThreadStep(r))

(***************************************************************************)
(* Properties.                                                             *)
(***************************************************************************)
TypeOK ==
  /\ handler \in [Requests -> {"new", "waiting", "granted", "awaiting"} \cup Ended]
  /\ waiters \in Seq(Requests)
  /\ permits \in Nat
  /\ job \in [Requests -> {"none", "queued", "returned", "settled"} \cup InThread]
  /\ backlog \in Seq(Requests)
  /\ attempt \in [Requests -> 0 .. MaxRetries]
  /\ cancelled \subseteq Requests
  /\ slots \in Nat
  /\ warmup \in {"slot", "busy", "done"}
  /\ late \in [Requests -> Nat]

HoldsPermit(r) == handler[r] = "granted" \/ job[r] \notin {"none", "settled"}

PermitHolders == {r \in Requests : HoldsPermit(r)}
SlotHolders == {r \in Requests : job[r] \in HoldsSlot}

\* No timeout, disconnect or error loses a permit of the semaphore or returns one
\* twice: the permits out are the requests about to submit and the jobs that have
\* not returned, whether or not their handlers still wait.
PermitsConserved == permits + Cardinality(PermitHolders) = Limit

WarmupSlots == IF warmup = "busy" THEN 1 ELSE 0

\* The same for the generation slots in front of Ollama, of which the warm-up takes one.
SlotsConserved == slots + Cardinality(SlotHolders) + WarmupSlots = Slots

\* Nobody works for a request whose handler has given up: a job that gets its thread
\* later retrieves nothing, and a chat that has retrieved goes on to no generation.
AbandonedStartsNothing ==
  [][\A r \in Requests :
       handler[r] \in Ended /\ Kind[r] # "retrieve" =>
         /\ job[r] = "queued" => job'[r] # "retrieve"
         /\ job[r] = "prompt" /\ Kind[r] = "chat" => job'[r] # "slot"]_vars

\* After the cancel event a job sends Ollama at most the one generation request whose
\* check had already passed: retries stop.
CancelStopsPosts == \A r \in Requests : late[r] <= 1

\* However a request ends (answer, error, timeout, client gone), the permit it held
\* comes back, even if Ollama would go on streaming: the cancel event reaches the
\* job, and no wait of the job depends on a reader.
AbandonedReturns ==
  \A r \in Requests : handler[r] \in Ended ~> ~HoldsPermit(r)
=============================================================================
