--------------------------- MODULE WatcherThreads ---------------------------
(***************************************************************************)
(* Life and end of the threads of the watcher process: the main thread     *)
(* that starts them, scans and later joins them, the observer's thread     *)
(* that runs WatchHandler, and the thread of IndexWorker with the          *)
(* queue.Queue in front of it, whose join() counts unfinished tasks.       *)
(*                                                                         *)
(* What indexing a path does is the subject of IndexPipeline; here it      *)
(* returns, or p.exists() raises outside the try block of                  *)
(* _index_if_changed (PermissionError, a stale network file handle), which *)
(* ends the thread.                                                        *)
(***************************************************************************)
EXTENDS Naturals, Sequences

CONSTANT Paths   \* the paths submitted, each submission under a name of its own

Sentinel == "None"

ASSUME ThreadsAssumption == Sentinel \notin Paths

VARIABLES
  main,        \* where main() is
  observer,    \* the observer's thread: "none", "idle", "handling" or "ended"
  queue,       \* IndexWorker._queue
  unfinished,  \* its unfinished_tasks
  worker,      \* IndexWorker._thread: "waiting", "busy", "ended" or "dead"
  path,        \* the item the worker took last
  submitted,   \* history: the paths submitted
  handled      \* history: the paths the worker is done with

vars == <<main, observer, queue, unfinished, worker, path, submitted, handled>>
queueVars == <<queue, unfinished, submitted>>
workerVars == <<worker, path, handled>>

Init ==
  /\ main = "scanning" /\ observer = "none"
  /\ queue = <<>> /\ unfinished = 0
  /\ worker = "waiting" /\ path = Sentinel
  /\ submitted = {} /\ handled = {}

Running == main \notin {"exited", "killed"}

\* Queue.put
Put(item) == queue' = Append(queue, item) /\ unfinished' = unfinished + 1

Submit ==
  \E p \in Paths \ submitted : Put(p) /\ submitted' = submitted \cup {p}

(***************************************************************************)
(* The main thread.                                                        *)
(***************************************************************************)
\* initial_scan finds an indexable file.
Scan == main = "scanning" /\ Submit /\ UNCHANGED <<main, observer, workerVars>>

\* The scan is over; observer.start().
StartObserver ==
  /\ main = "scanning" /\ main' = "running"
  /\ observer' = "idle"
  /\ UNCHANGED <<queueVars, workerVars>>

\* KeyboardInterrupt in the loop of main: observer.stop(), and on to the joins.
Interrupt ==
  /\ main = "running" /\ main' = "join_observer"
  /\ UNCHANGED <<observer, queueVars, workerVars>>

\* MUTANT: the worker is stopped without waiting for the observer.
JoinWorkerOnly ==
  /\ main = "join_observer" /\ main' = "join_queue"
  /\ UNCHANGED <<observer, queueVars, workerVars>>

JoinObserver ==
  /\ main = "join_observer" /\ observer = "ended"
  /\ main' = "join_queue"
  /\ UNCHANGED <<observer, queueVars, workerVars>>

\* Queue.join returns when every item that was put has been marked as done.
JoinQueue ==
  /\ main = "join_queue" /\ unfinished = 0
  /\ main' = "put_sentinel"
  /\ UNCHANGED <<observer, queueVars, workerVars>>

PutSentinel ==
  /\ main = "put_sentinel" /\ main' = "join_thread"
  /\ Put(Sentinel)
  /\ UNCHANGED <<observer, submitted, workerVars>>

JoinThread ==
  /\ main = "join_thread" /\ worker \in {"ended", "dead"}
  /\ main' = "exited"
  /\ UNCHANGED <<observer, queueVars, workerVars>>

\* Ctrl-C during the scan or the joins, an exception of the startup, a signal: the
\* other threads are daemons and end with the process.
Killed == Running /\ main' = "killed" /\ UNCHANGED <<observer, queueVars, workerVars>>

(***************************************************************************)
(* The observer's thread.                                                  *)
(***************************************************************************)
StopRequested == main \notin {"scanning", "running"}

\* The loop of the observer looks at its stop flag before it takes an event.
TakeEvent ==
  /\ Running /\ ~StopRequested /\ observer = "idle" /\ observer' = "handling"
  /\ UNCHANGED <<main, queueVars, workerVars>>

\* enqueue, or an event that submits nothing.
HandleEvent ==
  /\ Running /\ observer = "handling" /\ observer' = "idle"
  /\ Submit \/ UNCHANGED queueVars
  /\ UNCHANGED <<main, workerVars>>

EndObserver ==
  /\ Running /\ StopRequested
  /\ observer = "idle" /\ observer' = "ended"
  /\ UNCHANGED <<main, queueVars, workerVars>>

(***************************************************************************)
(* The worker's thread: _run.                                              *)
(***************************************************************************)
Get ==
  /\ Running /\ worker = "waiting" /\ queue # <<>>
  /\ path' = Head(queue) /\ queue' = Tail(queue)
  /\ worker' = "busy"
  /\ UNCHANGED <<main, observer, unfinished, submitted, handled>>

TaskDone == unfinished' = unfinished - 1

GotSentinel ==
  /\ Running /\ worker = "busy" /\ path = Sentinel
  /\ TaskDone
  /\ worker' = "ended"
  /\ UNCHANGED <<main, observer, queue, path, submitted, handled>>

\* MUTANT: task_done only if _index_if_changed returned.
IndexNoFinally ==
  /\ Running /\ worker = "busy" /\ path # Sentinel
  /\ handled' = handled \cup {path}
  /\ \/ worker' = "waiting" /\ TaskDone
     \/ worker' = "dead" /\ UNCHANGED unfinished
  /\ UNCHANGED <<main, observer, queue, path, submitted>>

\* _index_if_changed returns or raises; finally task_done.
Index ==
  /\ Running /\ worker = "busy" /\ path # Sentinel
  /\ handled' = handled \cup {path}
  /\ worker' \in {"waiting", "dead"}
  /\ TaskDone
  /\ UNCHANGED <<main, observer, queue, path, submitted>>

MainStep == StartObserver \/ JoinObserver \/ JoinQueue \/ PutSentinel \/ JoinThread
ObserverStep == HandleEvent \/ EndObserver
WorkerStep == Get \/ GotSentinel \/ Index

Next == MainStep \/ ObserverStep \/ WorkerStep \/ Scan \/ TakeEvent \/ Interrupt \/ Killed

Spec == Init /\ [][Next]_vars

\* Each thread goes on when it can: the calls an indexing makes have timeouts or come
\* from a local store.  Nobody has to press Ctrl-C, and events need not come.
FairSpec ==
  Spec /\ WF_vars(MainStep) /\ WF_vars(ObserverStep) /\ WF_vars(WorkerStep)

(***************************************************************************)
(* Properties.                                                             *)
(***************************************************************************)
TypeOK ==
  /\ main \in {"scanning", "running", "join_observer", "join_queue", "put_sentinel",
               "join_thread", "exited", "killed"}
  /\ observer \in {"none", "idle", "handling", "ended"}
  /\ queue \in Seq(Paths \cup {Sentinel})
  /\ unfinished \in Nat
  /\ worker \in {"waiting", "busy", "ended", "dead"}
  /\ path \in Paths \cup {Sentinel}
  /\ submitted \subseteq Paths /\ handled \subseteq Paths

\* An orderly end loses nothing: whatever the observer submitted while main was already
\* stopping has been handled when main leaves.
ExitLosesNothing == main = "exited" => handled = submitted

\* The worker stops only when no path can follow, and leaves no path behind: the
\* sentinel is the last item ever put.
SentinelIsLast ==
  /\ worker = "ended" => queue = <<>> /\ handled = submitted
  /\ \A i \in 1 .. Len(queue) : queue[i] = Sentinel => i = Len(queue)

\* Ctrl-C ends the watcher, except behind a dead worker with paths in its queue.
ShutdownEnds ==
  main = "join_observer" ~> ~Running \/ (worker = "dead" /\ queue # <<>>)
=============================================================================
