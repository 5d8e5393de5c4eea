--------------------------- MODULE IndexPipeline ---------------------------
(***************************************************************************)
(* The ingestion pipeline of the watcher process: the polling observer     *)
(* that notices changed files, the dispatcher thread that runs             *)
(* WatchHandler, the queue and the thread of IndexWorker, cleanup_stale    *)
(* and initial_scan at startup, and the two stores they keep: the Qdrant   *)
(* collection and the SQLite table of fingerprints.                        *)
(*                                                                         *)
(* A step of the model is one call that touches a store or the disk, so    *)
(* the threads interleave between any two of them.  A SHA-256 digest is    *)
(* only ever compared for equality, so the model keeps the content in its  *)
(* place.  All chunks of one upsert share one index_version; the model     *)
(* keeps one element of points for them.                                   *)
(***************************************************************************)
EXTENDS Naturals, Sequences, FiniteSets

CONSTANTS
  Paths,          \* the files with an indexable name, by normalized path
  Contents,       \* what a file may hold
  Unindexable,    \* contents that are too large or have no non-empty chunk
  Versions,       \* values of index_version
  RequiredRoots,  \* required_mounts: each one the set of paths below it
  Changes,        \* kinds of change the user makes to files
  Budget,         \* how many edits, outages, faults and crashes may happen
  Absent,         \* no such file
  None            \* no fingerprint, no path, no value

Kinds == {"write", "replace", "delete", "rename"}
Resources == {"edits", "outages", "faults", "crashes"}

ASSUME PipelineAssumption ==
  /\ Unindexable \subseteq Contents
  /\ Absent \notin Contents /\ None \notin Contents
  /\ None \notin Paths
  /\ RequiredRoots \subseteq SUBSET Paths
  /\ Changes \subseteq Kinds
  /\ Budget \in [Resources -> Nat]

VARIABLES
  disk,         \* what the user's files hold
  offline,      \* required mounts whose bind mount is broken (an empty dir)
  snapshot,     \* how a path differs from the observer's last snapshot
  events,       \* the observer's event queue
  dispatcher,   \* the observer's thread that runs the handler
  queue,        \* IndexWorker._queue
  worker,       \* the thread of IndexWorker
  boot,         \* progress of main()
  points,       \* the Qdrant collection
  fingerprint,  \* the SQLite table of fingerprints
  suspect,      \* history: paths whose stores an overlap or a failure touched
  missed,       \* history: paths with a change the handler did not act on
  torn,         \* history: paths last read with another content than was hashed
  budget        \* what is left of Budget

stores == <<points, fingerprint>>
history == <<suspect, missed, torn>>
vars == <<disk, offline, snapshot, events, dispatcher, queue, worker, boot,
          points, fingerprint, suspect, missed, torn, budget>>

Point == [path : Paths, content : Contents, version : Versions]

\* What the snapshot of a watched directory says of a path: not watched yet,
\* not in it, unchanged, other mtime or size, other inode, or renamed.
Marks == {"unwatched", "absent", "same", "modified", "replaced", "renamed"}

NoTask == [pc |-> "idle", path |-> None, hash |-> None, prev |-> None,
           content |-> None, version |-> None]
NoRemoval == [pc |-> "idle", path |-> None]
Down == [phase |-> "down", todo |-> {}, path |-> None]

(***************************************************************************)
(* Reading the disk and the stores.                                        *)
(***************************************************************************)
\* A broken bind mount shows an empty directory.
Visible(p) == IF \E R \in offline : p \in R THEN Absent ELSE disk[p]

Exists(p) == Visible(p) # Absent

EmptyRoot(R) == \A p \in R : ~Exists(p)

\* MUTANT: no check for a broken bind mount.
NoBrokenMountCheck(p) == FALSE

BrokenMountFor(p) == \E R \in RequiredRoots : p \in R /\ EmptyRoot(R)

PointsOf(p) == {pt \in points : pt.path = p}

Searchable(p) == PointsOf(p) # {}

NewPoint(v) == [path |-> worker.path, content |-> worker.content, version |-> v]

\* uuid4 gives a version no point of the path has.
UnusedVersions(p) == {v \in Versions : \A pt \in points : pt.path = p => pt.version # v}

FreshVersion == CHOOSE v \in UnusedVersions(worker.path) : TRUE

Spend(r) == budget[r] > 0 /\ budget' = [budget EXCEPT ![r] = @ - 1]

(***************************************************************************)
(* The user's files.  What an edit does to the observer's view of the path *)
(* shows in snapshot; an edit of a path nobody watches leaves no trace.    *)
(***************************************************************************)
Init ==
  /\ disk \in [Paths -> Contents \cup {Absent}]
  /\ offline = {}
  /\ snapshot = [p \in Paths |-> "unwatched"]
  /\ events = <<>>
  /\ dispatcher = NoRemoval
  /\ queue = <<>>
  /\ worker = NoTask
  /\ boot = Down
  /\ points = {}
  /\ fingerprint = [p \in Paths |-> None]
  /\ suspect = {} /\ missed = {} /\ torn = {}
  /\ budget = Budget

Remark(p, from, to) ==
  IF snapshot[p] \in from THEN [snapshot EXCEPT ![p] = to] ELSE snapshot

Edit(kind) ==
  /\ kind \in Changes
  /\ Spend("edits")
  /\ UNCHANGED <<offline, events, dispatcher, queue, worker, boot, stores, history>>

\* Write in place: the same inode.
Write(p, c) ==
  /\ disk[p] \notin {Absent, c}
  /\ disk' = [disk EXCEPT ![p] = c]
  /\ snapshot' = Remark(p, {"same"}, "modified")
  /\ Edit("write")

\* A new inode under the path: a new file, or an editor that saves by rename.
Replace(p, c) ==
  /\ disk[p] # c /\ snapshot[p] # "renamed"
  /\ disk' = [disk EXCEPT ![p] = c]
  /\ snapshot' = Remark(p, {"same", "modified"}, "replaced")
  /\ Edit("replace")

Delete(p) ==
  /\ disk[p] # Absent /\ snapshot[p] # "renamed"
  /\ disk' = [disk EXCEPT ![p] = Absent]
  /\ UNCHANGED snapshot
  /\ Edit("delete")

\* A rename inside one watched directory to a name the snapshot does not hold.
Rename(p, q) ==
  /\ disk[p] # Absent /\ disk[q] = Absent
  /\ \A R \in RequiredRoots : p \in R <=> q \in R
  /\ snapshot[q] \in {"unwatched", "absent"}
  /\ snapshot[p] \in {"unwatched", "absent", "same", "modified"}
  /\ disk' = [disk EXCEPT ![p] = Absent, ![q] = disk[p]]
  /\ snapshot' = IF snapshot[p] \in {"same", "modified"} /\ snapshot[q] = "absent"
                   THEN [snapshot EXCEPT ![p] = "renamed", ![q] = "renamed"]
                   ELSE snapshot
  /\ Edit("rename")

\* A bind mount breaks, or comes back with the files it had.
MountChange(R) ==
  /\ Spend("outages")
  /\ \A p \in R : snapshot[p] # "renamed"
  /\ offline' = IF R \in offline THEN offline \ {R} ELSE offline \cup {R}
  /\ UNCHANGED <<disk, snapshot, events, dispatcher, queue, worker, boot, stores, history>>

(***************************************************************************)
(* The polling observer: one emitter per watched directory.                *)
(***************************************************************************)
\* watchdog's EventQueue drops an event equal to the last one still queued.
Emit(q, e) == IF q # <<>> /\ q[Len(q)] = e THEN q ELSE Append(q, e)

FileEvent(k, p) == [kind |-> k, path |-> p]

Current(p) == IF Exists(p) THEN "same" ELSE "absent"

\* An emitter takes its first snapshot when observer.start() starts its thread.
TakeSnapshot(p) ==
  /\ boot.phase = "watch" /\ snapshot[p] = "unwatched"
  /\ snapshot' = [snapshot EXCEPT ![p] = Current(p)]
  /\ UNCHANGED <<disk, offline, events, dispatcher, queue, worker, boot, stores,
                 history, budget>>

\* The next snapshot and its difference to the last one, deletions first.
Poll(p) ==
  /\ snapshot[p] \notin {"unwatched", "renamed", Current(p)}
  /\ LET deleted == Emit(events, FileEvent("deleted", p))
     IN events' = CASE snapshot[p] = "absent" -> Emit(events, FileEvent("created", p))
                    [] snapshot[p] # "absent" /\ ~Exists(p) -> deleted
                    [] snapshot[p] = "modified" /\ Exists(p) ->
                         Emit(events, FileEvent("modified", p))
                    [] snapshot[p] = "replaced" /\ Exists(p) ->
                         Append(deleted, FileEvent("created", p))
  /\ snapshot' = [snapshot EXCEPT ![p] = Current(p)]
  /\ UNCHANGED <<disk, offline, dispatcher, queue, worker, boot, stores, history, budget>>

\* A rename gives one FileMovedEvent, and WatchHandler has no on_moved.
PollRename ==
  /\ \E p \in Paths : snapshot[p] = "renamed"
  /\ snapshot' = [p \in Paths |-> IF snapshot[p] = "renamed" THEN Current(p)
                                                             ELSE snapshot[p]]
  /\ missed' = missed \cup {p \in Paths : snapshot[p] = "renamed"}
  /\ UNCHANGED <<disk, offline, events, dispatcher, queue, worker, boot, stores,
                 suspect, torn, budget>>

(***************************************************************************)
(* The dispatcher thread: WatchHandler.                                    *)
(***************************************************************************)
\* A change of p that is let go because the mount of p looks broken.
Lost(p) == IF BrokenMountFor(p) THEN missed \cup {p} ELSE missed

NextEvent(kinds) ==
  /\ events # <<>> /\ dispatcher = NoRemoval
  /\ Head(events).kind \in kinds
  /\ events' = Tail(events)
  /\ UNCHANGED <<disk, offline, snapshot, worker, boot, stores, suspect, torn, budget>>

\* MUTANT: a modified file is not submitted.
OnCreatedOnly ==
  /\ NextEvent({"created", "modified"})
  /\ queue' = IF Head(events).kind = "created" THEN Append(queue, Head(events).path) ELSE queue
  /\ UNCHANGED <<dispatcher, missed>>

OnCreatedOrModified ==
  /\ NextEvent({"created", "modified"})
  /\ queue' = Append(queue, Head(events).path)
  /\ UNCHANGED <<dispatcher, missed>>

OnDeleted ==
  /\ NextEvent({"deleted"})
  /\ dispatcher' = IF BrokenMountFor(Head(events).path)
                     THEN NoRemoval
                     ELSE [pc |-> "delete", path |-> Head(events).path]
  /\ missed' = Lost(Head(events).path)
  /\ UNCHANGED queue

\* The dispatcher deleted the points of p and has not deleted its hash yet.
Forgetting(p) == dispatcher.pc = "forget" /\ dispatcher.path = p

\* The worker holds the text of p or its points and has not recorded them yet.
Publishing(p) == worker.path = p /\ worker.pc \in {"upsert", "stale", "record"}

Overlap(p) == IF Publishing(p) THEN suspect \cup {p} ELSE suspect

DispatcherDelete ==
  /\ dispatcher.pc = "delete"
  /\ points' = points \ PointsOf(dispatcher.path)
  /\ dispatcher' = [dispatcher EXCEPT !.pc = "forget"]
  /\ suspect' = Overlap(dispatcher.path)
  /\ UNCHANGED <<disk, offline, snapshot, events, queue, worker, boot, fingerprint, budget, missed, torn>>

\* MUTANT: delete_document without delete_hash.
DispatcherKeepsHash ==
  /\ dispatcher.pc = "forget"
  /\ dispatcher' = NoRemoval
  /\ suspect' = Overlap(dispatcher.path)
  /\ UNCHANGED <<disk, offline, snapshot, events, queue, worker, boot, stores, budget, missed, torn>>

DispatcherForget ==
  /\ dispatcher.pc = "forget"
  /\ fingerprint' = [fingerprint EXCEPT ![dispatcher.path] = None]
  /\ dispatcher' = NoRemoval
  /\ suspect' = Overlap(dispatcher.path)
  /\ UNCHANGED <<disk, offline, snapshot, events, queue, worker, boot, points, budget, missed, torn>>

\* Qdrant or SQLite raises; a failed delete may still have been applied.
DispatcherFails ==
  /\ dispatcher # NoRemoval
  /\ Spend("faults")
  /\ \/ UNCHANGED points
     \/ dispatcher.pc = "delete" /\ points' = points \ PointsOf(dispatcher.path)
  /\ dispatcher' = NoRemoval
  /\ suspect' = suspect \cup {dispatcher.path}
  /\ UNCHANGED <<disk, offline, snapshot, events, queue, worker, boot, fingerprint, missed, torn>>

(***************************************************************************)
(* The worker thread: _index_if_changed and index_file.                    *)
(***************************************************************************)
WorkerFrame == UNCHANGED <<disk, offline, snapshot, events, dispatcher, boot>>

\* _run takes a path; exists() and sha256_file, which fails for a lost file.
HashFile ==
  /\ worker.pc = "idle" /\ queue # <<>>
  /\ queue' = Tail(queue)
  /\ LET p == Head(queue)
     IN /\ worker' = IF Exists(p)
                       THEN [NoTask EXCEPT !.pc = "compare", !.path = p, !.hash = Visible(p)]
                       ELSE NoTask
        /\ missed' = IF Exists(p) THEN missed \ {p} ELSE Lost(p)
  /\ WorkerFrame /\ UNCHANGED <<stores, suspect, torn, budget>>

CompareHash ==
  /\ worker.pc = "compare"
  /\ worker' = IF fingerprint[worker.path] = worker.hash
                 THEN NoTask
                 ELSE [worker EXCEPT !.pc = "read", !.prev = fingerprint[worker.path]]
  /\ WorkerFrame /\ UNCHANGED <<queue, stores, history, budget>>

\* index_file returned SKIPPED.
Skipped == IF worker.prev = None THEN NoTask ELSE [worker EXCEPT !.pc = "delete"]

ReadFrame == WorkerFrame /\ UNCHANGED <<queue, stores, budget>>

\* stat raises for a file that is gone.
ReadLostFile ==
  /\ worker.pc = "read" /\ ~Exists(worker.path)
  /\ worker' = NoTask
  /\ missed' = Lost(worker.path)
  /\ ReadFrame /\ UNCHANGED <<suspect, torn>>

ReadUnindexable ==
  /\ worker.pc = "read" /\ Visible(worker.path) \in Unindexable
  /\ worker' = Skipped
  /\ ReadFrame /\ UNCHANGED history

\* MUTANT: the text is read without looking whether the file is still there.
ReadTextUnguarded ==
  /\ worker.pc = "read"
  /\ worker' = [worker EXCEPT !.pc = "upsert", !.content = Visible(worker.path)]
  /\ ReadFrame /\ UNCHANGED history

\* The text is read and split; index_file embeds it next.
ReadText ==
  /\ worker.pc = "read" /\ Visible(worker.path) \in Contents \ Unindexable
  /\ worker' = [worker EXCEPT !.pc = "upsert", !.content = Visible(worker.path)]
  /\ suspect' = IF Forgetting(worker.path)
                  THEN suspect \cup {worker.path}
                  ELSE suspect \ {worker.path}
  /\ torn' = IF Visible(worker.path) # worker.hash
               THEN torn \cup {worker.path}
               ELSE torn \ {worker.path}
  /\ ReadFrame /\ UNCHANGED missed

\* MUTANT: the old points go before the new ones are there.
UpsertAfterDelete ==
  /\ worker.pc = "upsert" /\ UnusedVersions(worker.path) # {}
  /\ points' = (points \ PointsOf(worker.path)) \cup {NewPoint(FreshVersion)}
  /\ worker' = [worker EXCEPT !.pc = "stale", !.version = FreshVersion]
  /\ WorkerFrame /\ UNCHANGED <<queue, fingerprint, history, budget>>

UpsertPoints ==
  /\ worker.pc = "upsert" /\ UnusedVersions(worker.path) # {}
  /\ points' = points \cup {NewPoint(FreshVersion)}
  /\ worker' = [worker EXCEPT !.pc = "stale", !.version = FreshVersion]
  /\ WorkerFrame /\ UNCHANGED <<queue, fingerprint, history, budget>>

\* MUTANT: the filter lacks must_not, so the new points match as well.
StalePointsAll == PointsOf(worker.path)

\* The points the filter of the stale delete matches.
StalePoints == {pt \in PointsOf(worker.path) : pt.version # worker.version}

\* MUTANT: the stale delete is left out.
KeepStale ==
  /\ worker.pc = "stale"
  /\ worker' = [worker EXCEPT !.pc = "record"]
  /\ WorkerFrame /\ UNCHANGED <<queue, stores, history, budget>>

DeleteStale ==
  /\ worker.pc = "stale"
  /\ points' = points \ StalePoints
  /\ worker' = [worker EXCEPT !.pc = "record"]
  /\ WorkerFrame /\ UNCHANGED <<queue, fingerprint, history, budget>>

RecordHash ==
  /\ worker.pc = "record"
  /\ fingerprint' = [fingerprint EXCEPT ![worker.path] = worker.hash]
  /\ worker' = NoTask
  /\ WorkerFrame /\ UNCHANGED <<queue, points, history, budget>>

\* MUTANT: the vectors of a file that became unindexable stay.
SkipKeepsPoints ==
  /\ worker.pc = "delete"
  /\ worker' = [worker EXCEPT !.pc = "forget"]
  /\ WorkerFrame /\ UNCHANGED <<queue, stores, history, budget>>

\* remove_indexed_document for a file that is no longer indexable.
SkipDelete ==
  /\ worker.pc = "delete"
  /\ points' = points \ PointsOf(worker.path)
  /\ worker' = [worker EXCEPT !.pc = "forget"]
  /\ WorkerFrame /\ UNCHANGED <<queue, fingerprint, history, budget>>

SkipForget ==
  /\ worker.pc = "forget"
  /\ fingerprint' = [fingerprint EXCEPT ![worker.path] = None]
  /\ worker' = NoTask
  /\ WorkerFrame /\ UNCHANGED <<queue, points, history, budget>>

\* A call raises and the outcome is FAILED; Qdrant may have applied the call.
WorkerFails ==
  /\ worker.pc # "idle"
  /\ Spend("faults")
  /\ \/ UNCHANGED points
     \/ worker.pc = "upsert" /\ UnusedVersions(worker.path) # {}
          /\ points' = points \cup {NewPoint(FreshVersion)}
     \/ worker.pc = "stale" /\ points' = points \ StalePoints
     \/ worker.pc = "delete" /\ points' = points \ PointsOf(worker.path)
  /\ worker' = NoTask
  /\ suspect' = IF worker.pc \in {"compare", "read"} THEN suspect
                                                    ELSE suspect \cup {worker.path}
  /\ WorkerFrame /\ UNCHANGED <<queue, fingerprint, missed, torn>>

\* read_text raises, which _read_file turns into SKIPPED.
ReadFails ==
  /\ worker.pc = "read"
  /\ Spend("faults")
  /\ worker' = Skipped
  /\ WorkerFrame /\ UNCHANGED <<queue, stores, history>>

(***************************************************************************)
(* main(): validate_required_mounts, cleanup_stale, initial_scan, observer.*)
(***************************************************************************)
BootFrame == UNCHANGED <<disk, offline, snapshot, events, dispatcher, worker>>

\* The container (re)starts; an empty required mount makes main() exit.
Start ==
  /\ boot = Down
  /\ \A R \in RequiredRoots : ~EmptyRoot(R)
  /\ boot' = [phase |-> "cleanup", path |-> None,
              todo |-> {p \in Paths : fingerprint[p] # None}]
  /\ BootFrame /\ UNCHANGED <<queue, stores, history, budget>>

\* One tracked path of cleanup_stale: still there, or its vectors go.
CleanupPath(p) ==
  /\ boot.phase = "cleanup" /\ boot.path = None /\ p \in boot.todo
  /\ IF Exists(p)
       THEN /\ boot' = [boot EXCEPT !.todo = @ \ {p}]
            /\ UNCHANGED points
       ELSE /\ boot' = [phase |-> "cleanup", todo |-> boot.todo \ {p}, path |-> p]
            /\ points' = points \ PointsOf(p)
  /\ BootFrame /\ UNCHANGED <<queue, fingerprint, history, budget>>

CleanupForget ==
  /\ boot.phase = "cleanup" /\ boot.path # None
  /\ fingerprint' = [fingerprint EXCEPT ![boot.path] = None]
  /\ boot' = [boot EXCEPT !.path = None]
  /\ BootFrame /\ UNCHANGED <<queue, points, history, budget>>

BeginScan ==
  /\ boot.phase = "cleanup" /\ boot.path = None /\ boot.todo = {}
  /\ boot' = [phase |-> "scan", todo |-> Paths, path |-> None]
  /\ BootFrame /\ UNCHANGED <<queue, stores, history, budget>>

\* MUTANT: the scan submits only files that were never indexed.
ScanNewOnly(p) ==
  /\ boot.phase = "scan" /\ p \in boot.todo
  /\ boot' = [boot EXCEPT !.todo = @ \ {p}]
  /\ queue' = IF Exists(p) /\ fingerprint[p] = None THEN Append(queue, p) ELSE queue
  /\ BootFrame /\ UNCHANGED <<stores, history, budget>>

ScanPath(p) ==
  /\ boot.phase = "scan" /\ p \in boot.todo
  /\ boot' = [boot EXCEPT !.todo = @ \ {p}]
  /\ queue' = IF Exists(p) THEN Append(queue, p) ELSE queue
  /\ BootFrame /\ UNCHANGED <<stores, history, budget>>

BeginWatch ==
  /\ boot.phase = "scan" /\ boot.todo = {}
  /\ boot' = [phase |-> "watch", todo |-> {}, path |-> None]
  /\ BootFrame /\ UNCHANGED <<queue, stores, history, budget>>

Interrupted ==
  {p \in Paths : Publishing(p) \/ (worker.path = p /\ worker.pc = "forget")
                 \/ Forgetting(p) \/ boot.path = p}

\* The process dies: the stores stay, everything else is lost.
Restart ==
  /\ boot' = Down
  /\ snapshot' = [p \in Paths |-> "unwatched"]
  /\ events' = <<>> /\ queue' = <<>>
  /\ dispatcher' = NoRemoval /\ worker' = NoTask
  /\ missed' = {}
  /\ UNCHANGED <<disk, offline, fingerprint, torn>>

Crash ==
  /\ boot # Down
  /\ Spend("crashes")
  /\ Restart
  /\ suspect' = suspect \cup Interrupted
  /\ UNCHANGED points

\* Nothing catches what a failed call of cleanup_stale raises.
CleanupFails ==
  /\ boot.phase = "cleanup"
  /\ Spend("faults")
  /\ Restart
  /\ \/ UNCHANGED points /\ suspect' = suspect \cup Interrupted
     \/ \E p \in boot.todo : /\ boot.path = None /\ ~Exists(p)
                             /\ points' = points \ PointsOf(p)
                             /\ suspect' = suspect \cup {p}

(***************************************************************************)
(* The whole pipeline.                                                     *)
(***************************************************************************)
UserStep ==
  \/ \E p \in Paths, c \in Contents : Write(p, c) \/ Replace(p, c)
  \/ \E p \in Paths : Delete(p)
  \/ \E p, q \in Paths : Rename(p, q)
  \/ \E R \in RequiredRoots : MountChange(R)

ObserverStep == PollRename \/ \E p \in Paths : TakeSnapshot(p) \/ Poll(p)

DispatcherStep ==
  OnCreatedOrModified \/ OnDeleted \/ DispatcherDelete \/ DispatcherForget

WorkerStep ==
  \/ HashFile \/ CompareHash
  \/ ReadLostFile \/ ReadUnindexable \/ ReadText
  \/ UpsertPoints \/ DeleteStale \/ RecordHash
  \/ SkipDelete \/ SkipForget

MainStep ==
  \/ Start \/ CleanupForget \/ BeginScan \/ BeginWatch
  \/ \E p \in Paths : CleanupPath(p) \/ ScanPath(p)

FailureStep ==
  DispatcherFails \/ WorkerFails \/ ReadFails \/ CleanupFails \/ Crash

Next ==
  UserStep \/ ObserverStep \/ DispatcherStep \/ WorkerStep \/ MainStep \/ FailureStep

Spec == Init /\ [][Next]_vars

\* Threads run, the observer polls on a timer and Docker restarts the container.
FairSpec ==
  /\ Spec
  /\ \A p \in Paths : WF_vars(TakeSnapshot(p)) /\ WF_vars(Poll(p))
  /\ WF_vars(PollRename)
  /\ WF_vars(DispatcherStep)
  /\ WF_vars(WorkerStep)
  /\ WF_vars(MainStep)

(***************************************************************************)
(* Properties.                                                             *)
(***************************************************************************)
TaskPcs == {"compare", "read", "upsert", "stale", "record", "delete", "forget"}

Task == [pc : TaskPcs, path : Paths, hash : Contents, prev : Contents \cup {None},
         content : Contents \cup {None}, version : Versions \cup {None}]

Removal == [pc : {"delete", "forget"}, path : Paths]

\* Every variable has its type; a thread is idle or has a path to work on.
TypeOK ==
  /\ disk \in [Paths -> Contents \cup {Absent}]
  /\ offline \subseteq RequiredRoots
  /\ snapshot \in [Paths -> Marks]
  /\ events \in Seq([kind : {"created", "modified", "deleted"}, path : Paths])
  /\ dispatcher \in Removal \cup {NoRemoval}
  /\ queue \in Seq(Paths)
  /\ worker \in Task \cup {NoTask}
  /\ worker.pc \in {"upsert", "stale", "record"} => worker.content \in Contents
  /\ worker.pc \in {"stale", "record"} => worker.version \in Versions
  /\ boot \in [phase : {"down", "cleanup", "scan", "watch"},
               todo : SUBSET Paths, path : Paths \cup {None}]
  /\ points \subseteq Point
  /\ fingerprint \in [Paths -> Contents \cup {None}]
  /\ suspect \subseteq Paths /\ missed \subseteq Paths /\ torn \subseteq Paths
  /\ budget \in [Resources -> Nat]

\* When the worker is about to record a fingerprint, Qdrant holds no point of an
\* older version of that file (_upsert_chunks cleans up before upsert_hash).
CleanedBeforeRecorded ==
  worker.pc = "record" => \A pt \in PointsOf(worker.path) : pt.version = worker.version

\* A thread is between two calls that change the stores of p.
Busy(p) ==
  \/ Publishing(p)
  \/ worker.path = p /\ worker.pc = "forget"
  \/ Forgetting(p)
  \/ boot.path = p

\* Only a failed call, a crash or a deletion that overlaps with the indexing of
\* the same file can make the two stores disagree on which files are indexed.
StoresAgree ==
  \A p \in Paths \ suspect : Busy(p) \/ (Searchable(p) <=> fingerprint[p] # None)

\* The threads start in the order of main(): the observer after the scan, the
\* worker gets nothing to do before it.
StartOrder ==
  /\ boot.phase # "watch" =>
       /\ snapshot = [p \in Paths |-> "unwatched"]
       /\ events = <<>> /\ dispatcher = NoRemoval
  /\ boot.phase \in {"down", "cleanup"} => queue = <<>> /\ worker = NoTask
  /\ boot.phase # "cleanup" => boot.path = None
  /\ boot.phase \in {"down", "watch"} => boot.todo = {}

\* Between two store calls of a thread the points are what the thread left, unless
\* the path is suspect.
StoresInStep ==
  /\ worker.pc = "stale" =>
       NewPoint(worker.version) \in points \/ ~Searchable(worker.path)
  /\ worker.pc \in {"stale", "record"} /\ worker.path \notin suspect =>
       Searchable(worker.path)
  /\ worker.pc = "forget" => ~Searchable(worker.path)
  /\ dispatcher.pc = "forget" /\ dispatcher.path \notin suspect =>
       ~Searchable(dispatcher.path) /\ ~Publishing(dispatcher.path)
  /\ boot.path # None => ~Searchable(boot.path)

\* The inductive invariant behind StoresAgree and NoSearchGap.
StoresInv ==
  /\ StartOrder
  /\ StoresInStep
  /\ StoresAgree
  /\ CleanedBeforeRecorded

\* Replacing a document never leaves it without points: only a removal (of a
\* deleted, stale or no longer indexable file) takes the last point of a path.
NoSearchGap ==
  [][\A p \in Paths :
       Searchable(p) /\ ~Searchable(p)' =>
         \/ dispatcher.pc = "delete" /\ dispatcher.path = p
         \/ worker.path = p /\ worker.pc = "delete"
         \/ boot.phase = "cleanup" /\ p \in boot.todo]_vars

Exhausted == \A r \in Resources : budget[r] = 0

MountsOK == \A R \in RequiredRoots : ~EmptyRoot(R)

\* The fingerprint describes the file: a file that is gone has none, a file that
\* can be indexed has the one of its content, no file has that of other content.
ReconciledAt(p) ==
  /\ ~Exists(p) => fingerprint[p] = None
  /\ Exists(p) /\ Visible(p) \notin Unindexable => fingerprint[p] = Visible(p)
  /\ Exists(p) => fingerprint[p] \in {None, Visible(p)}

Reconciled == \A p \in Paths : ReconciledAt(p)

\* Whatever happened before, a restart with healthy mounts and no further change
\* or failure reconciles the fingerprints with the files: initial_scan submits
\* every file and cleanup_stale drops what is gone.
RestartReconciles ==
  (boot = Down /\ Exhausted /\ MountsOK) ~> []Reconciled

\* Nothing is queued or being worked on and every change has been noticed.
Quiet ==
  /\ queue = <<>> /\ events = <<>> /\ worker = NoTask /\ dispatcher = NoRemoval
  /\ \A p \in Paths : snapshot[p] = Current(p)

\* No failure or crash lies ahead; edits and outages of a mount may.
Undisturbed == budget["faults"] = 0 /\ budget["crashes"] = 0

\* The fingerprint describes the file, and so do the points, unless the text was
\* last read after the file had changed under the hash.
UpToDate(p) ==
  /\ ReconciledAt(p)
  /\ p \in torn \/ \A pt \in PointsOf(p) : pt.content = Visible(p)

\* Once the fingerprints have caught up with the files, fingerprints and points
\* keep up with what happens to the files from then on.  Exempt by name: a path
\* whose deletion overlapped with its indexing (suspect), a path that was renamed
\* to or from, or whose deletion was taken for a broken mount, and that was not
\* hashed since (missed), and the points of a path whose hash and text were read
\* from different contents (torn).
WatchKeepsUp ==
  (Quiet /\ Reconciled /\ Undisturbed) ~>
     [](\A p \in Paths \ (suspect \cup missed) : UpToDate(p))

\* A thread has decided that the document goes.
Removing(p) == dispatcher.path = p \/ (worker.path = p /\ worker.pc \in {"delete", "forget"})

\* While a required mount shows an empty directory the watcher neither starts to
\* remove a document below it nor loses its points; a removal that was decided
\* before the mount broke goes on, and a failed read is taken for an unindexable file.
OutageSparesDocuments ==
  [][\A R \in offline, p \in Paths :
       p \in R /\ boot.phase = "watch" /\ ~Removing(p) /\ UNCHANGED budget["faults"] =>
         ~Removing(p)' /\ (Searchable(p) => Searchable(p)')]_vars

(***************************************************************************)
(* The points of each document, as the search side sees them.              *)
(***************************************************************************)
Edition == [content : Contents, version : Versions]

EditionsOf(p) == {[content |-> pt.content, version |-> pt.version] : pt \in PointsOf(p)}

EditionIndex == [p \in Paths |-> EditionsOf(p)]

TakingOver ==
  IF worker.pc = "stale"
    THEN [document |-> worker.path,
          edition |-> [content |-> worker.content, version |-> worker.version]]
    ELSE [document |-> None, edition |-> None]

Index == INSTANCE DocumentIndex WITH
           Documents <- Paths, Editions <- Edition, Nobody <- None,
           index <- EditionIndex, fresh <- TakingOver

\* Threads, failures and crashes included, the collection changes as DocumentIndex
\* says: add next to the old, retire the old, or withdraw.
ImplementsDocumentIndex == Index!Spec
=============================================================================
