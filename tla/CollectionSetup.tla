--------------------------- MODULE CollectionSetup ---------------------------
(***************************************************************************)
(* The life of the Qdrant collection: the watcher that checks and creates  *)
(* it before its first write, and the commands an operator runs next to    *)
(* the watcher or while it is stopped: reset_collection, purge_ignored and *)
(* cleanup_stale.                                                          *)
(*                                                                         *)
(* What indexing one file does to the stores is the subject of             *)
(* IndexPipeline; here a document is there or not, and a path is tracked   *)
(* (has a fingerprint) or not.  Files come and go while the watcher is     *)
(* down and no command runs; they may be edited at any time, so a tracked  *)
(* file may or may not have its old hash.  The operator gives one command  *)
(* at a time and, as the README asks, stops the watcher before a reset.    *)
(***************************************************************************)
EXTENDS Naturals, Sequences, FiniteSets

CONSTANTS
  Paths,      \* normalized paths
  Roots,      \* the watch roots: each one the set of paths below it
  Filters,    \* the paths that pass the filters, for each config file there may be
  Budget,     \* how many commands, changes and faults may happen
  None        \* no path

Resources == {"commands", "changes", "faults"}
Fields == {"filepath", "filename"}

ASSUME CollectionAssumption ==
  /\ IsFiniteSet(Paths) /\ None \notin Paths
  /\ Roots \subseteq SUBSET Paths
  /\ Filters \subseteq SUBSET Paths
  /\ Budget \in [Resources -> Nat]

VARIABLES
  layout,      \* of the collection: "missing", "old" (no sparse vectors), "hybrid"
  payload,     \* the fields of the collection with a payload index
  documents,   \* the paths with points
  tracked,     \* the paths with a fingerprint
  files,       \* the files on disk
  config,      \* what the config file lets pass
  stopped,     \* the operator stopped the watcher: Docker does not restart it
  phase,       \* of the watcher: "down", "cleanup" or "serving"
  accept,      \* what the watcher's copy of the config lets pass
  ensured,     \* _collection_ensured in the watcher's process
  queue,       \* IndexWorker._queue
  task,        \* the worker thread
  removal,     \* cleanup_stale at the start of the watcher
  operator,    \* the command that runs in a container of its own
  suspect,     \* history: paths whose removal was cut short or overlapped
  unfinished,  \* history: the creation of the collection was cut short
  budget       \* what is left of Budget

collection == <<layout, payload, documents>>
process == <<phase, accept, ensured, queue, task, removal>>
user == <<files, config, stopped>>
history == <<suspect, unfinished>>
vars == <<collection, tracked, user, process, operator, history, budget>>

Idle == [pc |-> "idle", path |-> None]

\* A loop over paths that removes documents: points first, then the fingerprint.
NoRemoval == [pc |-> "idle", todo |-> {}, path |-> None]
Removing(victims) == [pc |-> "remove", todo |-> victims, path |-> None]

Spend(r) == budget[r] > 0 /\ budget' = [budget EXCEPT ![r] = @ - 1]

\* A new installation, or one that is upgraded from the old layout.
Init ==
  /\ layout \in {"missing", "old"}
  /\ payload = {}
  /\ documents \in IF layout = "old" THEN SUBSET Paths ELSE {{}}
  /\ tracked = documents
  /\ files \in SUBSET Paths
  /\ config \in Filters /\ accept = config
  /\ stopped \in BOOLEAN
  /\ phase = "down" /\ ensured = FALSE /\ queue = <<>>
  /\ task = Idle /\ removal = NoRemoval /\ operator = NoRemoval
  /\ suspect = {} /\ unfinished = FALSE
  /\ budget = Budget

(***************************************************************************)
(* remove_indexed_document: the steps the loops share.                     *)
(***************************************************************************)
\* The worker wrote the points of p and has not recorded them yet.
Publishing(p) == task.pc = "record" /\ task.path = p

\* Qdrant refuses to delete from a collection that is missing.
DeletePoints(loop, p) ==
  /\ loop.pc = "remove" /\ p \in loop.todo /\ layout # "missing"
  /\ documents' = documents \ {p}
  /\ suspect' = IF Publishing(p) THEN suspect \cup {p} ELSE suspect
  /\ UNCHANGED <<layout, payload, tracked, unfinished>>

Forget(loop) ==
  /\ loop.pc = "forget"
  /\ tracked' = tracked \ {loop.path}
  /\ UNCHANGED <<collection, history>>

Deleted(loop, p) == [pc |-> "forget", todo |-> loop.todo \ {p}, path |-> p]

Forgotten(loop) == [loop EXCEPT !.pc = "remove", !.path = None]

\* Between the two calls the points are gone and the fingerprint is not.
HalfRemoved(loop) == IF loop.pc = "forget" THEN {loop.path} ELSE {}

(***************************************************************************)
(* The watcher process: main() and ensure_collection.                      *)
(***************************************************************************)
WatcherFrame == UNCHANGED <<user, operator, budget>>

Start ==
  /\ phase = "down" /\ ~stopped
  /\ phase' = "cleanup"
  /\ accept' = config
  /\ removal' = Removing(tracked \ files)
  /\ WatcherFrame /\ UNCHANGED <<collection, tracked, ensured, queue, task, history>>

CleanupDelete(p) ==
  /\ phase = "cleanup"
  /\ DeletePoints(removal, p)
  /\ removal' = Deleted(removal, p)
  /\ WatcherFrame /\ UNCHANGED <<phase, accept, ensured, queue, task>>

CleanupForget ==
  /\ phase = "cleanup"
  /\ Forget(removal)
  /\ removal' = Forgotten(removal)
  /\ WatcherFrame /\ UNCHANGED <<phase, accept, ensured, queue, task>>

\* Files that pass the filters are queued, each directory in any order.
Orders(S) == {q \in [1 .. Cardinality(S) -> S] : \A p \in S : \E i \in DOMAIN q : q[i] = p}

\* MUTANT: only files that were indexed before are queued.
ScanTracked ==
  /\ phase = "cleanup" /\ removal = Removing({})
  /\ phase' = "serving"
  /\ removal' = NoRemoval
  /\ queue' \in Orders(files \cap accept \cap tracked)
  /\ WatcherFrame /\ UNCHANGED <<collection, tracked, accept, ensured, task, history>>

InitialScan ==
  /\ phase = "cleanup" /\ removal = Removing({})
  /\ phase' = "serving"
  /\ removal' = NoRemoval
  /\ queue' \in Orders(files \cap accept)
  /\ WatcherFrame /\ UNCHANGED <<collection, tracked, accept, ensured, task, history>>

\* The observer reports a change of a file; a path is not queued twice here.
Notice(p) ==
  /\ phase = "serving" /\ p \in files \cap accept
  /\ \A i \in DOMAIN queue : queue[i] # p
  /\ queue' = Append(queue, p)
  /\ WatcherFrame
  /\ UNCHANGED <<collection, tracked, phase, accept, ensured, task, removal, history>>

WorkerFrame == WatcherFrame /\ UNCHANGED <<phase, accept, removal>>

GoTo(pc) == task' = [task EXCEPT !.pc = pc]

\* A file whose fingerprint has not changed is done; index_file begins with
\* ensure_collection.
TakePath ==
  /\ phase = "serving" /\ task = Idle /\ queue # <<>>
  /\ queue' = Tail(queue)
  /\ \/ Head(queue) \in tracked /\ task' = Idle
     \/ task' = [pc |-> IF ensured THEN "upsert" ELSE "exists", path |-> Head(queue)]
  /\ WorkerFrame /\ UNCHANGED <<collection, tracked, ensured, history>>

\* MUTANT: a collection of the old layout is replaced.
ReplaceOldLayout ==
  /\ task.pc = "exists"
  /\ IF layout = "hybrid" THEN GoTo("upsert") /\ ensured' = TRUE
                          ELSE GoTo("create") /\ UNCHANGED ensured
  /\ WorkerFrame /\ UNCHANGED <<collection, tracked, queue, history>>

\* The old layout raises, and the file is FAILED.
CheckCollection ==
  /\ task.pc = "exists"
  /\ task' = CASE layout = "missing" -> [task EXCEPT !.pc = "create"]
               [] layout = "old"     -> Idle
               [] layout = "hybrid"  -> [task EXCEPT !.pc = "upsert"]
  /\ ensured' = (layout = "hybrid")
  /\ WorkerFrame /\ UNCHANGED <<collection, tracked, queue, history>>

\* MUTANT: the new collection is used at once.
CreateWithoutIndexes ==
  /\ task.pc = "create"
  /\ layout' = "hybrid" /\ payload' = {} /\ documents' = {}
  /\ GoTo("upsert") /\ ensured' = TRUE
  /\ unfinished' = FALSE
  /\ WorkerFrame /\ UNCHANGED <<tracked, queue, suspect>>

CreateCollection ==
  /\ task.pc = "create"
  /\ layout' = "hybrid" /\ payload' = {} /\ documents' = {}
  /\ GoTo("filepath")
  /\ unfinished' = FALSE
  /\ WorkerFrame /\ UNCHANGED <<tracked, ensured, queue, suspect>>

CreatePayloadIndex ==
  /\ task.pc \in Fields
  /\ payload' = payload \cup {task.pc}
  /\ IF task.pc = "filepath"
       THEN GoTo("filename") /\ UNCHANGED ensured
       ELSE GoTo("upsert") /\ ensured' = TRUE
  /\ WorkerFrame /\ UNCHANGED <<layout, documents, tracked, queue, history>>

\* The points are written and the older ones of the path deleted.
Upsert ==
  /\ task.pc = "upsert" /\ layout = "hybrid"
  /\ documents' = documents \cup {task.path}
  /\ suspect' = suspect \ {task.path}
  /\ GoTo("record")
  /\ WorkerFrame /\ UNCHANGED <<layout, payload, tracked, ensured, queue, unfinished>>

Record ==
  /\ task.pc = "record"
  /\ tracked' = tracked \cup {task.path}
  /\ task' = Idle
  /\ WorkerFrame /\ UNCHANGED <<collection, ensured, queue, history>>

(***************************************************************************)
(* What ends the watcher, or one of its calls.                             *)
(***************************************************************************)
Die ==
  /\ phase' = "down" /\ ensured' = FALSE /\ queue' = <<>>
  /\ task' = Idle /\ removal' = NoRemoval
  /\ suspect' = suspect \cup HalfRemoved(removal)
  /\ unfinished' = (unfinished \/ task.pc \in Fields)
  /\ UNCHANGED <<collection, tracked, accept, operator, files, config>>

\* The process dies or one of the calls of cleanup_stale raises; Docker restarts it.
Crash ==
  /\ phase # "down" /\ Spend("faults")
  /\ Die
  /\ UNCHANGED stopped

\* Nothing catches what a delete from a missing collection raises.
CleanupRaises ==
  /\ phase = "cleanup" /\ removal.pc = "remove" /\ removal.todo # {}
  /\ layout = "missing"
  /\ Die
  /\ UNCHANGED <<stopped, budget>>

\* A call of the worker raises, before or after it was applied: the file is FAILED.
WorkerFails ==
  /\ task # Idle /\ Spend("faults")
  /\ \/ UNCHANGED collection
     \/ /\ task.pc = "create"
        /\ layout' = "hybrid" /\ payload' = {} /\ documents' = {}
     \/ /\ task.pc \in Fields
        /\ payload' = payload \cup {task.pc}
        /\ UNCHANGED <<layout, documents>>
     \/ /\ task.pc = "upsert" /\ layout = "hybrid"
        /\ documents' = documents \cup {task.path}
        /\ UNCHANGED <<layout, payload>>
  /\ task' = Idle
  /\ unfinished' = (unfinished \/ task.pc \in {"create"} \cup Fields)
  /\ UNCHANGED <<tracked, user, operator, phase, accept, ensured, queue, removal, suspect>>

(***************************************************************************)
(* The operator and the user.                                              *)
(***************************************************************************)
Command(next) ==
  /\ operator = NoRemoval /\ Spend("commands")
  /\ operator' = next

\* docker compose stop watcher
Stop ==
  /\ ~stopped /\ operator = NoRemoval /\ Spend("commands")
  /\ Die
  /\ stopped' = TRUE

\* docker compose up -d watcher
Up ==
  /\ stopped /\ operator = NoRemoval
  /\ stopped' = FALSE
  /\ UNCHANGED <<collection, tracked, files, config, process, operator, history, budget>>

Resetting == [pc |-> "clear", todo |-> {}, path |-> None]

DropCollection ==
  /\ stopped
  /\ layout' = "missing" /\ payload' = {} /\ documents' = {}
  /\ unfinished' = FALSE
  /\ UNCHANGED <<tracked, user, process>>

\* reset_collection: the collection first, then the fingerprints.
ResetCollection ==
  /\ Command(Resetting)
  /\ DropCollection
  /\ UNCHANGED suspect

\* reset_collection --vectors-only leaves fingerprints that nothing backs.
ResetVectorsOnly ==
  /\ Command(NoRemoval)
  /\ DropCollection
  /\ suspect' = suspect \cup tracked

\* MUTANT: the rows of paths that are no longer there stay.
ClearMostHashes ==
  /\ operator.pc = "clear"
  /\ tracked' = tracked \ files /\ suspect' = {}
  /\ operator' = NoRemoval
  /\ UNCHANGED <<collection, user, process, unfinished, budget>>

ClearHashes ==
  /\ operator.pc = "clear"
  /\ tracked' = {} /\ suspect' = {}
  /\ operator' = NoRemoval
  /\ UNCHANGED <<collection, user, process, unfinished, budget>>

\* find_ignored_paths: what is tracked below an accessible root and is filtered now.
PurgeIgnored ==
  /\ \E accessible \in SUBSET Roots \ {{}} :
       Command(Removing((tracked \cap UNION accessible) \ config))
  /\ UNCHANGED <<collection, tracked, user, process, history>>

\* cleanup_stale as a command of its own.
CleanupStale ==
  /\ Command(Removing(tracked \ files))
  /\ UNCHANGED <<collection, tracked, user, process, history>>

CommandDelete(p) ==
  /\ DeletePoints(operator, p)
  /\ operator' = Deleted(operator, p)
  /\ UNCHANGED <<user, process, budget>>

CommandForget ==
  /\ Forget(operator)
  /\ operator' = Forgotten(operator)
  /\ UNCHANGED <<user, process, budget>>

\* The loop is through, or its next delete finds no collection.
CommandEnds ==
  /\ operator.pc = "remove"
  /\ operator.todo = {} \/ layout = "missing"
  /\ operator' = NoRemoval
  /\ UNCHANGED <<collection, tracked, user, process, history, budget>>

\* A call raises, or the command is interrupted.
CommandFails ==
  /\ operator # NoRemoval /\ Spend("faults")
  /\ operator' = NoRemoval
  /\ suspect' = suspect \cup HalfRemoved(operator)
                \cup (IF operator.pc = "clear" THEN tracked ELSE {})
  /\ UNCHANGED <<collection, tracked, user, process, unfinished>>

ChangeConfig ==
  /\ Spend("changes")
  /\ config' \in Filters \ {config}
  /\ UNCHANGED <<collection, tracked, files, stopped, process, operator, history>>

ChangeFile(p) ==
  /\ Spend("changes") /\ phase = "down" /\ operator = NoRemoval
  /\ files' = IF p \in files THEN files \ {p} ELSE files \cup {p}
  /\ UNCHANGED <<collection, tracked, config, stopped, process, operator, history>>

MainStep ==
  \/ Start \/ CleanupForget \/ CleanupRaises \/ InitialScan
  \/ \E p \in Paths : CleanupDelete(p)

WorkerStep ==
  TakePath \/ CheckCollection \/ CreateCollection \/ CreatePayloadIndex \/ Upsert \/ Record

OperatorStep ==
  \/ Stop \/ Up \/ ResetCollection \/ ResetVectorsOnly \/ ClearHashes
  \/ PurgeIgnored \/ CleanupStale \/ CommandForget \/ CommandEnds
  \/ \E p \in Paths : CommandDelete(p)

UserStep == ChangeConfig \/ \E p \in Paths : ChangeFile(p) \/ Notice(p)

Next ==
  MainStep \/ WorkerStep \/ OperatorStep \/ UserStep
    \/ Crash \/ WorkerFails \/ CommandFails

Spec == Init /\ [][Next]_vars

\* Docker restarts what is not stopped, and threads run.  Nobody has to give a command.
FairSpec == Spec /\ WF_vars(MainStep) /\ WF_vars(WorkerStep)

(***************************************************************************)
(* Properties.                                                             *)
(***************************************************************************)
Loop == [pc : {"idle", "remove", "forget", "clear"}, todo : SUBSET Paths,
         path : Paths \cup {None}]

TaskPcs == {"exists", "create", "upsert", "record"} \cup Fields

\* Every variable has its type; the worker is idle or has a path to work on.
TypeOK ==
  /\ layout \in {"missing", "old", "hybrid"}
  /\ payload \subseteq Fields
  /\ documents \subseteq Paths /\ tracked \subseteq Paths
  /\ files \subseteq Paths /\ config \in Filters /\ stopped \in BOOLEAN
  /\ phase \in {"down", "cleanup", "serving"}
  /\ accept \in Filters /\ ensured \in BOOLEAN
  /\ queue \in Seq(Paths)
  /\ task \in [pc : TaskPcs, path : Paths] \cup {Idle}
  /\ removal \in Loop /\ operator \in Loop
  /\ removal.pc = "forget" => removal.path \in Paths
  /\ operator.pc = "forget" => operator.path \in Paths
  /\ suspect \subseteq Paths /\ unfinished \in BOOLEAN
  /\ budget \in [Resources -> Nat]

BeingForgotten == HalfRemoved(removal) \cup HalfRemoved(operator)

\* Every path with a fingerprint is in the collection, so no file is skipped that is
\* not indexed, across resets, purges and restarts.  Exempt are removals and resets
\* that are under way, and the paths of those that were cut short, that overlapped
\* with the indexing of the file, or that were told to leave the fingerprints.
TrackedIsSearchable ==
  operator.pc = "clear" \/ tracked \subseteq documents \cup suspect \cup BeingForgotten

\* The inductive invariant behind TrackedIsSearchable and OldLayoutKept: what each
\* process holds when the collection is in which state.
CollectionInv ==
  /\ stopped => phase = "down"
  /\ phase # "serving" => task = Idle /\ ~ensured
  /\ phase # "cleanup" => removal = NoRemoval
  /\ operator.pc = "clear" => stopped
  /\ layout = "missing" => documents = {}
  /\ task.pc = "create" => layout = "missing"
  /\ ensured \/ task.pc \in Fields \cup {"upsert", "record"} => layout = "hybrid"
  /\ task.pc = "record" => task.path \in documents \cup suspect
  /\ TrackedIsSearchable

\* Points are written only to a collection that has both payload indexes, unless its
\* creation was cut short: ensure_collection never completes such a collection.
PointsHavePayloadIndexes ==
  layout = "hybrid" /\ documents # {} => unfinished \/ payload = Fields

\* The inductive invariant behind PointsHavePayloadIndexes.
PayloadInv ==
  /\ task.pc \in Fields => documents = {}
  /\ task.pc = "filename" => unfinished \/ "filepath" \in payload
  /\ layout = "hybrid" => unfinished \/ payload = Fields \/ task.pc \in Fields

\* ensure_collection refuses the old layout: only reset_collection takes it away, and
\* nothing is added to it.
OldLayoutKept ==
  [][layout = "old" =>
       \/ layout' = "old" /\ payload' = payload /\ documents' \subseteq documents
       \/ stopped /\ layout' = "missing"]_vars

Undisturbed == \A r \in Resources : budget[r] = 0

JustReset ==
  phase = "down" /\ operator = NoRemoval /\ layout = "missing" /\ tracked = {} /\ ~stopped

Rebuilt == files \cap accept \subseteq documents

\* "The watcher recreates the collection and re-indexes everything" (README): started
\* after a reset, it indexes every file that passes its filters and keeps it.
ResetRebuilds == (JustReset /\ Undisturbed) ~> [](phase = "serving" /\ Rebuilt)
=============================================================================
