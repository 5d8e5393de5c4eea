------------------------ MODULE WatcherThreadsProofs ------------------------
(***************************************************************************)
(* An orderly end of the watcher loses no path, whatever is submitted and  *)
(* whenever the worker's thread dies.  The invariant relates the count of  *)
(* queue.Queue to what is in the queue, and the stage of main() to what    *)
(* the other threads can still do.                                         *)
(***************************************************************************)
EXTENDS WatcherThreads, TLAPS

Early == {"scanning", "running", "join_observer", "join_queue", "put_sentinel"}

Items(q) == {q[i] : i \in 1 .. Len(q)}

\* unfinished_tasks counts what is queued and what the worker has in hand.
Counted == unfinished = Len(queue) + (IF worker = "busy" THEN 1 ELSE 0)

\* Before the sentinel is put there are only paths.
OnlyPaths ==
  main \in Early =>
    /\ queue \in Seq(Paths) /\ worker # "ended"
    /\ worker = "busy" => path \in Paths

\* The observer has ended before the worker is stopped.
ObserverFirst ==
  main \in {"join_queue", "put_sentinel", "join_thread", "exited"} => observer = "ended"

\* The sentinel is put behind nothing, and nothing is put behind it.
Emptied ==
  /\ main = "put_sentinel" => queue = <<>> /\ worker # "busy"
  /\ main \in {"join_thread", "exited"} =>
       \/ queue = <<Sentinel>> /\ worker \in {"waiting", "dead"}
       \/ queue = <<>> /\ worker \in {"busy", "ended"} /\ path = Sentinel

\* A submitted path is handled, in hand or in the queue.
Accounted ==
  submitted \subseteq handled \cup Items(queue) \cup (IF worker = "busy" THEN {path} ELSE {})

HandledWereSubmitted ==
  /\ handled \subseteq submitted
  /\ Items(queue) \subseteq submitted \cup {Sentinel}
  /\ worker = "busy" => path \in submitted \cup {Sentinel}

ThreadsInv ==
  /\ TypeOK /\ Counted /\ OnlyPaths /\ ObserverFirst /\ Emptied
  /\ Accounted /\ HandledWereSubmitted /\ SentinelIsLast

(***************************************************************************)
(* The two steps of a queue.                                               *)
(***************************************************************************)
\* Putting an item adds it at the end and nothing else.
LEMMA PutLast ==
  ASSUME NEW S, NEW q \in Seq(S), NEW e \in S
  PROVE  /\ Append(q, e) \in Seq(S)
         /\ Len(Append(q, e)) = Len(q) + 1
         /\ Items(Append(q, e)) = Items(q) \cup {e}
<1>1. Append(q, e) \in Seq(S) /\ Len(Append(q, e)) = Len(q) + 1
  OBVIOUS
<1>2. /\ Append(q, e)[Len(q) + 1] = e
      /\ \A i \in 1 .. Len(q) : Append(q, e)[i] = q[i]
  OBVIOUS
<1>3. 1 .. Len(Append(q, e)) = (1 .. Len(q)) \cup {Len(q) + 1}
  BY <1>1
<1> QED
  BY <1>1, <1>2, <1>3 DEF Items

\* Getting an item takes it from the front.
LEMMA GetFirst ==
  ASSUME NEW S, NEW q \in Seq(S), q # <<>>
  PROVE  /\ Head(q) \in S /\ Tail(q) \in Seq(S)
         /\ Len(q) = Len(Tail(q)) + 1
         /\ \A i \in 1 .. Len(Tail(q)) : Tail(q)[i] = q[i + 1]
         /\ Items(q) = {Head(q)} \cup Items(Tail(q))
<1>1. /\ Head(q) = q[1] /\ Head(q) \in S /\ Tail(q) \in Seq(S)
      /\ Len(Tail(q)) = Len(q) - 1 /\ Len(q) \in Nat \ {0}
  OBVIOUS
<1>2. \A i \in 1 .. Len(Tail(q)) : Tail(q)[i] = q[i + 1]
  OBVIOUS
<1>3. Items(q) \subseteq {Head(q)} \cup Items(Tail(q))
  <2> SUFFICES ASSUME NEW i \in 1 .. Len(q), i # 1 PROVE q[i] \in Items(Tail(q))
    BY <1>1 DEF Items
  <2>1. i - 1 \in 1 .. Len(Tail(q)) /\ (i - 1) + 1 = i
    BY <1>1
  <2> QED
    BY <1>2, <2>1 DEF Items
<1>4. {Head(q)} \cup Items(Tail(q)) \subseteq Items(q)
  <2>1. \A i \in 1 .. Len(Tail(q)) : i + 1 \in 1 .. Len(q)
    BY <1>1
  <2>2. 1 \in 1 .. Len(q)
    BY <1>1
  <2> QED
    BY <1>1, <1>2, <2>1, <2>2 DEF Items
<1> QED
  BY <1>1, <1>2, <1>3, <1>4

(***************************************************************************)
(* The invariant.                                                          *)
(***************************************************************************)
LEMMA InitThreads == Init => ThreadsInv
<1> SUFFICES ASSUME Init PROVE ThreadsInv
  OBVIOUS
<1>1. <<>> \in Seq(Paths) /\ <<>> \in Seq(Paths \cup {Sentinel}) /\ Len(<<>>) = 0
  OBVIOUS
<1> QED
  BY <1>1 DEF Init, ThreadsInv, TypeOK, Counted, OnlyPaths, ObserverFirst, Emptied, Accounted,
     HandledWereSubmitted, SentinelIsLast, Items, Early

\* A path that is submitted before the sentinel goes to the end of a queue of paths.
LEMMA SubmitKeeps ==
  ASSUME ThreadsInv, Submit, main \in Early \ {"put_sentinel"}, UNCHANGED <<main, workerVars>>,
         observer' \in {"none", "idle", "handling", "ended"},
         main \in {"scanning", "running", "join_observer"} \/ observer' = observer
  PROVE  ThreadsInv'
<1>1. PICK p \in Paths \ submitted : Put(p) /\ submitted' = submitted \cup {p}
  BY DEF Submit
<1>2. queue \in Seq(Paths) /\ queue \in Seq(Paths \cup {Sentinel})
  BY DEF ThreadsInv, TypeOK, OnlyPaths
<1>3. /\ queue' \in Seq(Paths) /\ queue' \in Seq(Paths \cup {Sentinel})
      /\ Len(queue') = Len(queue) + 1 /\ Items(queue') = Items(queue) \cup {p}
  BY <1>1, <1>2, PutLast DEF Put
<1>4. TypeOK' /\ Counted'
  BY <1>1, <1>2, <1>3 DEF ThreadsInv, TypeOK, Counted, Put, workerVars
<1>5. OnlyPaths' /\ ObserverFirst' /\ Emptied'
  BY <1>3 DEF ThreadsInv, OnlyPaths, ObserverFirst, Emptied, Early, workerVars
<1>6. Accounted' /\ HandledWereSubmitted'
  BY <1>1, <1>3 DEF ThreadsInv, Accounted, HandledWereSubmitted, workerVars
<1>7. SentinelIsLast'
  <2>1. worker' # "ended"
    BY DEF ThreadsInv, OnlyPaths, workerVars
  <2>2. \A i \in 1 .. Len(queue') : queue'[i] \in Paths
    BY <1>3
  <2> QED
    BY <2>1, <2>2, ThreadsAssumption DEF SentinelIsLast
<1> QED
  BY <1>4, <1>5, <1>6, <1>7 DEF ThreadsInv

LEMMA MainKeeps ==
  ASSUME ThreadsInv, MainStep \/ Interrupt \/ Killed PROVE ThreadsInv'
<1> USE DEF ThreadsInv, workerVars, queueVars
<1>1. CASE StartObserver \/ Interrupt \/ JoinObserver \/ Killed
  BY <1>1 DEF StartObserver, Interrupt, JoinObserver, Killed, Running, TypeOK, Counted, OnlyPaths,
     ObserverFirst, Emptied, Accounted, HandledWereSubmitted, SentinelIsLast, Items, Early
<1>2. CASE JoinQueue
  <2>1. queue = <<>> /\ worker # "busy"
    BY <1>2 DEF JoinQueue, Counted, TypeOK
  <2> QED
    BY <1>2, <2>1 DEF JoinQueue, TypeOK, Counted, OnlyPaths, ObserverFirst, Emptied, Accounted,
       HandledWereSubmitted, SentinelIsLast, Items, Early
<1>3. CASE PutSentinel
  <2>1. queue = <<>> /\ worker \in {"waiting", "dead"} /\ Items(queue) = {}
    BY <1>3 DEF PutSentinel, Emptied, OnlyPaths, TypeOK, Early, Items
  <2>2. /\ queue' = <<Sentinel>> /\ Len(queue') = 1 /\ queue'[1] = Sentinel
        /\ queue' \in Seq(Paths \cup {Sentinel}) /\ Items(queue') = {Sentinel}
    BY <1>3, <2>1 DEF PutSentinel, Put, Items
  <2>3. TypeOK' /\ Counted' /\ SentinelIsLast'
    BY <1>3, <2>1, <2>2 DEF PutSentinel, Put, TypeOK, Counted, SentinelIsLast
  <2> QED
    BY <1>3, <2>1, <2>2, <2>3 DEF PutSentinel, OnlyPaths, ObserverFirst, Emptied, Accounted,
       HandledWereSubmitted, Early
<1>4. CASE JoinThread
  BY <1>4 DEF JoinThread, TypeOK, Counted, OnlyPaths, ObserverFirst, Emptied, Accounted,
     HandledWereSubmitted, SentinelIsLast, Items, Early
<1> QED
  BY <1>1, <1>2, <1>3, <1>4 DEF MainStep

LEMMA ObserverKeeps ==
  ASSUME ThreadsInv, Scan \/ TakeEvent \/ ObserverStep PROVE ThreadsInv'
<1>1. CASE Scan
  BY <1>1, SubmitKeeps DEF Scan, Early, ThreadsInv, TypeOK
<1>2. CASE TakeEvent \/ EndObserver \/ (HandleEvent /\ UNCHANGED queueVars)
  BY <1>2 DEF TakeEvent, EndObserver, HandleEvent, StopRequested, ThreadsInv, workerVars, queueVars,
     TypeOK, Counted, OnlyPaths, ObserverFirst, Emptied, Accounted, HandledWereSubmitted,
     SentinelIsLast, Items, Early
<1>3. CASE HandleEvent /\ Submit
  <2>1. main \in {"scanning", "running", "join_observer"}
    BY <1>3 DEF HandleEvent, Running, ThreadsInv, ObserverFirst, TypeOK
  <2> QED
    BY <1>3, <2>1, SubmitKeeps DEF HandleEvent, Early
<1> QED
  BY <1>1, <1>2, <1>3 DEF ObserverStep, HandleEvent

LEMMA WorkerKeeps ==
  ASSUME ThreadsInv, WorkerStep PROVE ThreadsInv'
<1>1. CASE Get
  <2>1. /\ path' \in Paths \cup {Sentinel} /\ queue' \in Seq(Paths \cup {Sentinel})
        /\ Len(queue) = Len(queue') + 1 /\ Len(queue') \in Nat
        /\ \A i \in 1 .. Len(queue') : queue'[i] = queue[i + 1]
        /\ Items(queue) = {path'} \cup Items(queue')
    BY <1>1, GetFirst DEF Get, ThreadsInv, TypeOK
  <2>2. TypeOK' /\ Counted'
    BY <1>1, <2>1 DEF Get, ThreadsInv, TypeOK, Counted
  <2>3. OnlyPaths'
    <3> SUFFICES ASSUME main \in Early PROVE queue' \in Seq(Paths) /\ path' \in Paths
      BY <1>1 DEF Get, OnlyPaths
    <3> QED
      BY <1>1, GetFirst DEF Get, ThreadsInv, OnlyPaths
  <2>4. ObserverFirst'
    BY <1>1 DEF Get, ThreadsInv, ObserverFirst
  <2>5. Emptied'
    BY <1>1, <2>1 DEF Get, ThreadsInv, Emptied
  <2>6. Accounted' /\ HandledWereSubmitted'
    BY <1>1, <2>1 DEF Get, ThreadsInv, Accounted, HandledWereSubmitted
  <2>7. SentinelIsLast'
    <3>1. \A i \in 1 .. Len(queue') : i + 1 \in 1 .. Len(queue)
      BY <2>1
    <3>2. ASSUME NEW i \in 1 .. Len(queue'), queue'[i] = Sentinel PROVE i = Len(queue')
      <4>1. queue[i + 1] = Sentinel /\ i + 1 \in 1 .. Len(queue)
        BY <2>1, <3>1, <3>2
      <4>2. i + 1 = Len(queue)
        BY <4>1 DEF ThreadsInv, SentinelIsLast
      <4> QED
        BY <2>1, <4>2
    <3>3. worker' # "ended"
      BY <1>1 DEF Get
    <3> QED
      BY <3>2, <3>3 DEF SentinelIsLast
  <2> QED
    BY <2>2, <2>3, <2>4, <2>5, <2>6, <2>7 DEF ThreadsInv
<1>2. CASE GotSentinel
  <2>1. queue = <<>> /\ main \in {"join_thread"} /\ Items(queue) = {}
    BY <1>2, ThreadsAssumption
    DEF GotSentinel, Running, ThreadsInv, TypeOK, OnlyPaths, Emptied, Early, Items
  <2>2. handled = submitted
    BY <1>2, <2>1, ThreadsAssumption
    DEF GotSentinel, ThreadsInv, TypeOK, Accounted, HandledWereSubmitted
  <2>3. TypeOK' /\ Counted'
    BY <1>2, <2>1 DEF GotSentinel, TaskDone, ThreadsInv, TypeOK, Counted
  <2> QED
    BY <1>2, <2>1, <2>2, <2>3 DEF GotSentinel, ThreadsInv, OnlyPaths, ObserverFirst, Emptied, Early,
       Accounted, HandledWereSubmitted, SentinelIsLast, Items
<1>3. CASE Index
  <2>1. main \in Early /\ path \in submitted
    BY <1>3 DEF Index, Running, ThreadsInv, TypeOK, Emptied, Early, HandledWereSubmitted
  <2>2. TypeOK' /\ Counted'
    BY <1>3 DEF Index, TaskDone, ThreadsInv, TypeOK, Counted
  <2> QED
    BY <1>3, <2>1, <2>2 DEF Index, ThreadsInv, OnlyPaths, ObserverFirst, Emptied, Early, Accounted,
       HandledWereSubmitted, SentinelIsLast, Items
<1> QED
  BY <1>1, <1>2, <1>3 DEF WorkerStep

\* The queue's count, the stage of main() and what is still on its way agree in every
\* reachable state, for any set of paths.
THEOREM ThreadsInvariant == Spec => []ThreadsInv
<1>1. ThreadsInv /\ [Next]_vars => ThreadsInv'
  <2> SUFFICES ASSUME ThreadsInv, [Next]_vars PROVE ThreadsInv'
    OBVIOUS
  <2>1. CASE UNCHANGED vars
    BY <2>1 DEF vars, ThreadsInv, TypeOK, Counted, OnlyPaths, ObserverFirst, Emptied, Accounted,
       HandledWereSubmitted, SentinelIsLast, Items, Early
  <2> QED
    BY <2>1, MainKeeps, ObserverKeeps, WorkerKeeps DEF Next
<1> QED
  BY <1>1, InitThreads, PTL DEF Spec

\* Every variable of WatcherThreads has its type; in particular unfinished_tasks never
\* drops below zero, where queue.Queue would raise ValueError.
THEOREM TypeCorrect == Spec => []TypeOK
<1>1. ThreadsInv => TypeOK
  BY DEF ThreadsInv
<1> QED
  BY <1>1, ThreadsInvariant, PTL

\* The sentinel is the last item ever put, and a worker that got it leaves no path.
THEOREM SentinelStaysLast == Spec => []SentinelIsLast
<1>1. ThreadsInv => SentinelIsLast
  BY DEF ThreadsInv
<1> QED
  BY <1>1, ThreadsInvariant, PTL

\* When main() returns, every path that was submitted has been handled.
THEOREM NothingIsLost == Spec => []ExitLosesNothing
<1>1. ThreadsInv => ExitLosesNothing
  <2> SUFFICES ASSUME ThreadsInv, main = "exited" PROVE handled = submitted
    BY DEF ExitLosesNothing
  <2>1. Items(queue) \subseteq {Sentinel}
    BY DEF ThreadsInv, Emptied, Items
  <2>2. worker = "busy" => path = Sentinel
    BY DEF ThreadsInv, Emptied
  <2> QED
    BY <2>1, <2>2, ThreadsAssumption DEF ThreadsInv, TypeOK, Accounted, HandledWereSubmitted
<1> QED
  BY <1>1, ThreadsInvariant, PTL
=============================================================================
