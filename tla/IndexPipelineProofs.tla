------------------------ MODULE IndexPipelineProofs ------------------------
(***************************************************************************)
(* Proofs about IndexPipeline for every set of files, contents, versions,  *)
(* mounts and every budget of changes and failures.                        *)
(***************************************************************************)
EXTENDS IndexPipeline, TLAPS

USE DEF Resources, history

\* uuid4: the version of a new upsert is one that no point of the path has.
LEMMA FreshVersionIsUnused ==
  UnusedVersions(worker.path) # {} =>
    /\ FreshVersion \in Versions
    /\ \A pt \in points : pt.path = worker.path => pt.version # FreshVersion
<1>1. SUFFICES ASSUME UnusedVersions(worker.path) # {}
               PROVE  FreshVersion \in UnusedVersions(worker.path)
  BY DEF UnusedVersions
<1>2. QED
  BY <1>1 DEF FreshVersion

\* Spending a resource leaves a budget.
LEMMA SpendType ==
  ASSUME NEW r \in Resources, budget \in [Resources -> Nat], Spend(r)
  PROVE  budget' \in [Resources -> Nat]
  BY DEF Spend

\* What the disk shows of a path is a content or nothing.
LEMMA VisibleType ==
  ASSUME TypeOK, NEW p \in Paths
  PROVE  Visible(p) \in Contents \cup {Absent}
  BY DEF Visible, TypeOK

\* A thread that is not idle has a path to work on.
LEMMA WorkerType ==
  ASSUME TypeOK, worker.pc # "idle"
  PROVE  /\ worker \in Task /\ worker.path \in Paths /\ worker.hash \in Contents
         /\ worker.prev \in Contents \cup {None}
  BY DEF TypeOK, Task, NoTask

\* A dispatcher that is not idle has a path to remove.
LEMMA DispatcherType ==
  ASSUME TypeOK, dispatcher.pc # "idle"
  PROVE  dispatcher \in Removal /\ dispatcher.path \in Paths
  BY DEF TypeOK, Removal, NoRemoval

\* The initial state is typed.
LEMMA InitType == Init => TypeOK
<1> SUFFICES ASSUME Init PROVE TypeOK
  OBVIOUS
<1> USE PipelineAssumption
<1>1. boot \in [phase : {"down", "cleanup", "scan", "watch"},
                todo : SUBSET Paths, path : Paths \cup {None}]
  BY DEF Init, Down
<1>2. snapshot \in [Paths -> Marks] /\ fingerprint \in [Paths -> Contents \cup {None}]
  BY DEF Init, Marks
<1>3. QED
  BY <1>1, <1>2 DEF Init, TypeOK, NoTask, NoRemoval

(***************************************************************************)
(* Type correctness, one lemma for the actions of each thread.             *)
(***************************************************************************)
\* The event queue stays a sequence of events.
LEMMA EmitType ==
  ASSUME NEW E, NEW q \in Seq(E), NEW e \in E
  PROVE  Emit(q, e) \in Seq(E)
<1>1. Append(q, e) \in Seq(E)
  OBVIOUS
<1>2. QED
  BY <1>1 DEF Emit

\* Taking from and adding to a queue keeps its type.
LEMMA QueueType ==
  ASSUME NEW E, NEW q \in Seq(E), q # <<>>
  PROVE  Head(q) \in E /\ Tail(q) \in Seq(E)
  OBVIOUS

\* An edit changes the disk, the marks of the observer and the budget only.
LEMMA EditType ==
  ASSUME TypeOK, NEW kind, Edit(kind),
         disk' \in [Paths -> Contents \cup {Absent}], snapshot' \in [Paths -> Marks]
  PROVE  TypeOK'
  BY SpendType DEF TypeOK, Edit, stores

\* One lemma per actor: its steps keep the types.
LEMMA UserType == TypeOK /\ UserStep => TypeOK'
<1> SUFFICES ASSUME TypeOK, UserStep PROVE TypeOK'
  OBVIOUS
<1>1. ASSUME NEW p \in Paths, NEW c \in Contents, Write(p, c) \/ Replace(p, c)
      PROVE  TypeOK'
  <2>1. disk' \in [Paths -> Contents \cup {Absent}]
    BY <1>1 DEF Write, Replace, TypeOK
  <2>2. snapshot' \in [Paths -> Marks]
    BY <1>1 DEF Write, Replace, Remark, TypeOK, Marks
  <2>3. QED
    BY <1>1, <2>1, <2>2, EditType DEF Write, Replace
<1>2. ASSUME NEW p \in Paths, Delete(p) PROVE TypeOK'
  BY <1>2, EditType DEF Delete, TypeOK
<1>3. ASSUME NEW p \in Paths, NEW q \in Paths, Rename(p, q) PROVE TypeOK'
  <2>1. disk' \in [Paths -> Contents \cup {Absent}]
    BY <1>3 DEF Rename, TypeOK
  <2>2. snapshot' \in [Paths -> Marks]
    BY <1>3 DEF Rename, TypeOK, Marks
  <2>3. QED
    BY <1>3, <2>1, <2>2, EditType DEF Rename
<1>4. ASSUME NEW R \in RequiredRoots, MountChange(R) PROVE TypeOK'
  BY <1>4, SpendType DEF MountChange, stores, TypeOK
<1>5. QED
  BY <1>1, <1>2, <1>3, <1>4 DEF UserStep

\* The observer keeps the types.
LEMMA ObserverType == TypeOK /\ ObserverStep => TypeOK'
<1> SUFFICES ASSUME TypeOK, ObserverStep PROVE TypeOK'
  OBVIOUS
<1> DEFINE Event == [kind : {"created", "modified", "deleted"}, path : Paths]
<1>1. \A p \in Paths : Current(p) \in Marks
  BY DEF Current, Marks
<1>3. CASE PollRename
  BY <1>3, <1>1 DEF PollRename, TypeOK, stores
<1>4. ASSUME NEW p \in Paths, TakeSnapshot(p) PROVE TypeOK'
  BY <1>4, <1>1 DEF TakeSnapshot, TypeOK, stores
<1>5. ASSUME NEW p \in Paths, Poll(p) PROVE TypeOK'
  <2>1. \A k \in {"created", "modified", "deleted"} : FileEvent(k, p) \in Event
    BY DEF FileEvent
  <2>2. events \in Seq(Event)
    BY DEF TypeOK
  <2>3. events' \in Seq(Event)
    <3>1. \A k \in {"created", "modified", "deleted"} :
             Emit(events, FileEvent(k, p)) \in Seq(Event)
      BY EmitType, <2>1, <2>2
    <3>2. Append(Emit(events, FileEvent("deleted", p)), FileEvent("created", p)) \in Seq(Event)
      BY <3>1, <2>1
    <3>3. snapshot[p] \in {"absent", "same", "modified", "replaced"}
      BY <1>5 DEF Poll, TypeOK, Marks
    <3>4. ~(snapshot[p] = "same" /\ Exists(p))
      BY <1>5 DEF Poll, Current
    <3>5. QED
      BY <1>5, <3>1, <3>2, <3>3, <3>4 DEF Poll
  <2>4. QED
    BY <1>5, <1>1, <2>3 DEF Poll, TypeOK, stores
<1>6. QED
  BY <1>3, <1>4, <1>5 DEF ObserverStep

\* The dispatcher keeps the types.
LEMMA DispatcherStepType == TypeOK /\ DispatcherStep => TypeOK'
<1> SUFFICES ASSUME TypeOK, DispatcherStep PROVE TypeOK'
  OBVIOUS
<1> USE PipelineAssumption
<1> DEFINE Event == [kind : {"created", "modified", "deleted"}, path : Paths]
<1>1. events # <<>> => Head(events).path \in Paths /\ Tail(events) \in Seq(Event)
  <2>1. events \in Seq(Event)
    BY DEF TypeOK
  <2>2. events # <<>> => Head(events) \in Event /\ Tail(events) \in Seq(Event)
    BY <2>1, QueueType
  <2>3. QED
    BY <2>2
<1>2. CASE OnCreatedOrModified
  BY <1>2, <1>1 DEF OnCreatedOrModified, NextEvent, TypeOK, stores
<1>3. CASE OnDeleted
  BY <1>3, <1>1 DEF OnDeleted, NextEvent, Lost, TypeOK, stores, Removal
<1>4. CASE DispatcherDelete
  <2>1. dispatcher' \in Removal
    BY <1>4, DispatcherType DEF DispatcherDelete, Removal
  <2>2. points' \subseteq Point /\ suspect' \subseteq Paths
    BY <1>4, DispatcherType DEF DispatcherDelete, PointsOf, Overlap, TypeOK
  <2>3. QED
    BY <1>4, <2>1, <2>2 DEF DispatcherDelete, TypeOK
<1>5. CASE DispatcherForget
  BY <1>5, DispatcherType DEF DispatcherForget, Overlap, TypeOK
<1>6. QED
  BY <1>2, <1>3, <1>4, <1>5 DEF DispatcherStep

\* The worker keeps the types.
LEMMA WorkerStepType == TypeOK /\ WorkerStep => TypeOK'
<1> SUFFICES ASSUME TypeOK, WorkerStep PROVE TypeOK'
  OBVIOUS
<1> USE PipelineAssumption DEF WorkerFrame, ReadFrame, stores
<1>1. CASE HashFile
  <2>1. Head(queue) \in Paths /\ Tail(queue) \in Seq(Paths)
    BY <1>1 DEF HashFile, TypeOK
  <2>2. Exists(Head(queue)) => Visible(Head(queue)) \in Contents
    BY <2>1, VisibleType DEF Exists
  <2>3. worker' \in Task \cup {NoTask} /\ worker'.pc \in {"compare", "idle"}
    BY <1>1, <2>1, <2>2 DEF HashFile, Task, TaskPcs, NoTask
  <2>4. missed' \subseteq Paths
    BY <1>1, <2>1 DEF HashFile, Lost, TypeOK
  <2>5. QED
    BY <1>1, <2>1, <2>3, <2>4 DEF HashFile, TypeOK
<1>2. CASE CompareHash
  <2>1. worker' \in Task \cup {NoTask} /\ worker'.pc \in {"read", "idle"}
    BY <1>2, WorkerType DEF CompareHash, TypeOK, Task, TaskPcs, NoTask
  <2>2. QED
    BY <1>2, <2>1 DEF CompareHash, TypeOK
<1>3. CASE ReadLostFile
  <2>1. missed' \subseteq Paths
    BY <1>3, WorkerType DEF ReadLostFile, Lost, TypeOK
  <2>2. QED
    BY <1>3, <2>1 DEF ReadLostFile, TypeOK, NoTask
<1>4. CASE ReadUnindexable
  <2>1. worker' \in Task \cup {NoTask} /\ worker'.pc \in {"delete", "idle"}
    BY <1>4, WorkerType DEF ReadUnindexable, Skipped, Task, TaskPcs, NoTask
  <2>2. QED
    BY <1>4, <2>1 DEF ReadUnindexable, TypeOK
<1>5. CASE ReadText
  <2>1. worker' \in Task /\ worker'.pc = "upsert" /\ worker'.content \in Contents
    BY <1>5, WorkerType DEF ReadText, Task, TaskPcs
  <2>2. suspect' \subseteq Paths /\ torn' \subseteq Paths
    BY <1>5, WorkerType DEF ReadText, TypeOK
  <2>3. QED
    BY <1>5, <2>1, <2>2 DEF ReadText, TypeOK
<1>6. CASE UpsertPoints
  <2>1. worker \in Task /\ FreshVersion \in Versions /\ worker.content \in Contents
    BY <1>6, WorkerType, FreshVersionIsUnused DEF UpsertPoints, TypeOK
  <2>2. worker' \in Task /\ worker'.content \in Contents /\ worker'.version \in Versions
    BY <1>6, <2>1 DEF UpsertPoints, Task, TaskPcs
  <2>3. points' \subseteq Point
    BY <1>6, <2>1, WorkerType DEF UpsertPoints, NewPoint, Point, TypeOK
  <2>4. QED
    BY <1>6, <2>2, <2>3 DEF UpsertPoints, TypeOK
<1>7. CASE DeleteStale
  <2>1. worker \in Task /\ worker.content \in Contents /\ worker.version \in Versions
    BY <1>7, WorkerType DEF DeleteStale, TypeOK
  <2>2. worker' \in Task /\ worker'.content \in Contents /\ worker'.version \in Versions
    BY <1>7, <2>1 DEF DeleteStale, Task, TaskPcs
  <2>3. QED
    BY <1>7, <2>2 DEF DeleteStale, TypeOK
<1>8. CASE RecordHash
  BY <1>8, WorkerType DEF RecordHash, TypeOK, NoTask
<1>9. CASE SkipDelete
  <2>1. worker' \in Task /\ worker'.pc = "forget"
    BY <1>9, WorkerType DEF SkipDelete, Task, TaskPcs
  <2>2. QED
    BY <1>9, <2>1 DEF SkipDelete, TypeOK
<1>10. CASE SkipForget
  BY <1>10, WorkerType DEF SkipForget, TypeOK, NoTask
<1>11. QED
  BY <1>1, <1>2, <1>3, <1>4, <1>5, <1>6, <1>7, <1>8, <1>9, <1>10 DEF WorkerStep

\* The main thread keeps the types.
LEMMA MainStepType == TypeOK /\ MainStep => TypeOK'
<1> SUFFICES ASSUME TypeOK, MainStep PROVE TypeOK'
  OBVIOUS
<1> USE PipelineAssumption DEF BootFrame, stores, TypeOK
<1>1. CASE Start
  BY <1>1 DEF Start
<1>2. CASE CleanupForget
  BY <1>2 DEF CleanupForget
<1>3. CASE BeginScan
  BY <1>3 DEF BeginScan
<1>4. CASE BeginWatch
  BY <1>4 DEF BeginWatch
<1>5. ASSUME NEW p \in Paths, CleanupPath(p) PROVE TypeOK'
  <2>1. points' \subseteq Point
    BY <1>5 DEF CleanupPath
  <2>2. boot' \in [phase : {"down", "cleanup", "scan", "watch"},
                   todo : SUBSET Paths, path : Paths \cup {None}]
    <3>1. CASE Exists(p)
      BY <1>5, <3>1 DEF CleanupPath
    <3>2. CASE ~Exists(p)
      BY <1>5, <3>2 DEF CleanupPath
    <3>3. QED
      BY <3>1, <3>2
  <2>3. QED
    BY <1>5, <2>1, <2>2 DEF CleanupPath
<1>6. ASSUME NEW p \in Paths, ScanPath(p) PROVE TypeOK'
  <2>1. queue' \in Seq(Paths)
    BY <1>6 DEF ScanPath
  <2>2. boot' \in [phase : {"down", "cleanup", "scan", "watch"},
                   todo : SUBSET Paths, path : Paths \cup {None}]
    BY <1>6 DEF ScanPath
  <2>3. QED
    BY <1>6, <2>1, <2>2 DEF ScanPath
<1>7. QED
  BY <1>1, <1>2, <1>3, <1>4, <1>5, <1>6 DEF MainStep

\* Failed calls and crashes keep the types.
LEMMA FailureType == TypeOK /\ FailureStep => TypeOK'
<1> SUFFICES ASSUME TypeOK, FailureStep PROVE TypeOK'
  OBVIOUS
<1> USE PipelineAssumption DEF WorkerFrame, stores
<1>1. CASE DispatcherFails
  <2>1. suspect' \subseteq Paths
    <3>1. dispatcher \in Removal
      BY <1>1 DEF DispatcherFails, TypeOK
    <3>2. QED
      BY <1>1, <3>1 DEF DispatcherFails, TypeOK, Removal
  <2>2. points' \subseteq Point
    BY <1>1 DEF DispatcherFails, TypeOK
  <2>3. QED
    BY <1>1, <2>1, <2>2, SpendType DEF DispatcherFails, TypeOK
<1>2. CASE WorkerFails
  <2>1. worker \in Task /\ worker.path \in Paths
    BY <1>2, WorkerType DEF WorkerFails
  <2>2. points' \subseteq Point
    <3>1. worker.pc = "upsert" /\ UnusedVersions(worker.path) # {} =>
             NewPoint(FreshVersion) \in Point
      BY <2>1, FreshVersionIsUnused DEF NewPoint, Point, TypeOK
    <3>2. QED
      BY <1>2, <3>1 DEF WorkerFails, TypeOK
  <2>3. QED
    BY <1>2, <2>1, <2>2, SpendType DEF WorkerFails, TypeOK, NoTask
<1>3. CASE ReadFails
  <2>1. worker' \in Task \cup {NoTask} /\ worker'.pc \in {"delete", "idle"}
    BY <1>3, WorkerType DEF ReadFails, Skipped, Task, TaskPcs, NoTask
  <2>2. QED
    BY <1>3, <2>1, SpendType DEF ReadFails, TypeOK
<1>4. ASSUME Restart, points' \subseteq Point, suspect' \subseteq Paths,
             budget' \in [Resources -> Nat]
      PROVE  TypeOK'
  BY <1>4 DEF Restart, TypeOK, Down, Marks, NoTask, NoRemoval
<1>5. CASE CleanupFails
  <2>1. points' \subseteq Point /\ suspect' \subseteq Paths
    BY <1>5 DEF CleanupFails, Interrupted, TypeOK
  <2>2. QED
    BY <1>4, <1>5, <2>1, SpendType DEF CleanupFails, TypeOK
<1>6. CASE Crash
  BY <1>4, <1>6, SpendType DEF Crash, Interrupted, TypeOK
<1>7. QED
  BY <1>1, <1>2, <1>3, <1>5, <1>6 DEF FailureStep

\* Every step keeps the types.
LEMMA NextType == TypeOK /\ [Next]_vars => TypeOK'
<1>1. TypeOK /\ UNCHANGED vars => TypeOK'
  BY DEF TypeOK, vars, stores
<1>2. QED
  BY <1>1, UserType, ObserverType, DispatcherStepType, WorkerStepType, MainStepType,
     FailureType DEF Next

\* In every reachable state each variable has its type: no thread works on a file
\* that is not there, no event and no queue entry lacks its path.
THEOREM TypeCorrect == Spec => []TypeOK
BY InitType, NextType, PTL DEF Spec

(***************************************************************************)
(* The stale delete comes before the fingerprint.                          *)
(***************************************************************************)
\* How each step of the worker moves its task on.
LEMMA WorkerEffect ==
  ASSUME TypeOK
  PROVE  /\ HashFile => worker' = NoTask \/ worker'.pc = "compare"
         /\ CompareHash => worker' = NoTask \/ worker'.pc = "read"
         /\ ReadUnindexable \/ ReadFails => worker' = NoTask \/ worker'.pc = "delete"
         /\ ReadText => worker'.pc = "upsert" /\ worker'.path = worker.path
         /\ UpsertPoints => /\ worker'.pc = "stale" /\ worker'.path = worker.path
                            /\ worker'.content = worker.content
                            /\ worker'.version = FreshVersion
         /\ DeleteStale => /\ worker'.pc = "record" /\ worker'.path = worker.path
                           /\ worker'.version = worker.version
         /\ SkipDelete => worker'.pc = "forget" /\ worker'.path = worker.path
<1>1. HashFile => worker' = NoTask \/ worker'.pc = "compare"
  BY DEF HashFile, NoTask
<1>2. CompareHash => worker' = NoTask \/ worker'.pc = "read"
  BY WorkerType DEF CompareHash, Task
<1>3. ReadUnindexable => worker' = NoTask \/ worker'.pc = "delete"
  BY WorkerType DEF ReadUnindexable, Skipped, Task
<1>4. ReadFails => worker' = NoTask \/ worker'.pc = "delete"
  BY WorkerType DEF ReadFails, Skipped, Task
<1>5. ReadText => worker'.pc = "upsert" /\ worker'.path = worker.path
  BY WorkerType DEF ReadText, Task
<1>6. UpsertPoints => /\ worker'.pc = "stale" /\ worker'.path = worker.path
                      /\ worker'.content = worker.content
                      /\ worker'.version = FreshVersion
  BY WorkerType DEF UpsertPoints, Task
<1>7. DeleteStale => /\ worker'.pc = "record" /\ worker'.path = worker.path
                     /\ worker'.version = worker.version
  BY WorkerType DEF DeleteStale, Task
<1>8. SkipDelete => worker'.pc = "forget" /\ worker'.path = worker.path
  BY WorkerType DEF SkipDelete, Task
<1>9. QED
  BY <1>1, <1>2, <1>3, <1>4, <1>5, <1>6, <1>7, <1>8

\* Only the worker changes its task and adds points; a failure ends the task.
LEMMA OthersLeaveTask ==
  ASSUME TypeOK, [Next]_vars, ~WorkerStep, ~ReadFails
  PROVE  worker' = NoTask \/ (worker' = worker /\ points' \subseteq points)
<1>1. CASE UserStep
  BY <1>1 DEF UserStep, Write, Replace, Delete, Rename, Edit, MountChange, stores
<1>2. CASE ObserverStep
  BY <1>2 DEF ObserverStep, PollRename, TakeSnapshot, Poll, stores
<1>3. CASE DispatcherStep
  BY <1>3 DEF DispatcherStep, OnCreatedOrModified, OnDeleted, NextEvent, DispatcherDelete,
              DispatcherForget, stores
<1>4. CASE MainStep
  BY <1>4 DEF MainStep, Start, CleanupForget, BeginScan, BeginWatch, CleanupPath, ScanPath,
              BootFrame, stores
<1>5. CASE FailureStep
  BY <1>5 DEF FailureStep, DispatcherFails, WorkerFails, CleanupFails, Crash, Restart,
              WorkerFrame
<1>6. CASE UNCHANGED vars
  BY <1>6 DEF vars, stores
<1>7. QED
  BY <1>1, <1>2, <1>3, <1>4, <1>5, <1>6 DEF Next

\* The worker reaches the record step only through the delete of the old versions.
LEMMA CleanedStep ==
  TypeOK /\ CleanedBeforeRecorded /\ [Next]_vars => CleanedBeforeRecorded'
<1> SUFFICES ASSUME TypeOK, CleanedBeforeRecorded, [Next]_vars PROVE CleanedBeforeRecorded'
  OBVIOUS
<1>1. CASE DeleteStale
  BY <1>1, WorkerType DEF DeleteStale, StalePoints, PointsOf, CleanedBeforeRecorded, Task
<1>2. CASE WorkerStep /\ ~DeleteStale
  <2>1. worker'.pc # "record"
    <3>1. CASE ReadLostFile \/ RecordHash \/ SkipForget
      BY <3>1 DEF ReadLostFile, RecordHash, SkipForget, NoTask
    <3>2. QED
      BY <1>2, <3>1, WorkerEffect DEF WorkerStep, NoTask
  <2>2. QED
    BY <2>1 DEF CleanedBeforeRecorded
<1>3. CASE ReadFails
  <2>1. worker'.pc # "record"
    BY <1>3, WorkerEffect DEF NoTask
  <2>2. QED
    BY <2>1 DEF CleanedBeforeRecorded
<1>4. CASE ~WorkerStep /\ ~ReadFails
  <2>1. worker' = NoTask \/ (worker' = worker /\ points' \subseteq points)
    BY <1>4, OthersLeaveTask
  <2>2. QED
    BY <2>1 DEF CleanedBeforeRecorded, PointsOf, NoTask
<1>5. QED
  BY <1>1, <1>2, <1>3, <1>4

(***************************************************************************)
(* The two stores agree: StoresInv is inductive.                           *)
(***************************************************************************)
\* Which paths can be found when points stay as they are, ...
LEMMA SamePoints ==
  ASSUME points' = points, NEW p
  PROVE  Searchable(p)' <=> Searchable(p)
  BY DEF Searchable, PointsOf

\* ... when all points of one path go, ...
LEMMA RemovedPoints ==
  ASSUME NEW q, points' = points \ PointsOf(q), NEW p
  PROVE  Searchable(p)' <=> p # q /\ Searchable(p)
  BY DEF Searchable, PointsOf

\* ... and when one point is added.
LEMMA AddedPoint ==
  ASSUME NEW pt, points' = points \cup {pt}, NEW p
  PROVE  Searchable(p)' <=> p = pt.path \/ Searchable(p)
  BY DEF Searchable, PointsOf

\* Deleting the stale points of a path leaves the new edition and other paths.
LEMMA StaleDeleted ==
  ASSUME points' = points \ StalePoints, NEW p,
         NewPoint(worker.version) \in points \/ ~Searchable(worker.path)
  PROVE  Searchable(p)' <=> Searchable(p)
<1>1. NewPoint(worker.version) \in points => NewPoint(worker.version) \in points'
  BY DEF StalePoints, PointsOf, NewPoint
<1>2. CASE p # worker.path
  BY <1>2 DEF StalePoints, Searchable, PointsOf
<1>3. CASE p = worker.path
  BY <1>1, <1>3 DEF Searchable, PointsOf, NewPoint
<1>4. QED
  BY <1>2, <1>3

\* The observer and the dispatcher run after the scan only, the worker after the
\* cleanup only.
LEMMA StartOrderStep == TypeOK /\ StartOrder /\ [Next]_vars => StartOrder'
<1> SUFFICES ASSUME TypeOK, StartOrder, [Next]_vars PROVE StartOrder'
  OBVIOUS
<1> USE DEF StartOrder, stores
<1>1. CASE UserStep
  <2>1. boot.phase # "watch" => snapshot' = snapshot
    BY <1>1 DEF UserStep, Write, Replace, Delete, Rename, Edit, MountChange, Remark
  <2>2. UNCHANGED <<boot, events, dispatcher, queue, worker>>
    BY <1>1 DEF UserStep, Write, Replace, Delete, Rename, Edit, MountChange
  <2>3. QED
    BY <2>1, <2>2
<1>2. CASE ObserverStep
  <2>1. boot.phase = "watch"
    BY <1>2 DEF ObserverStep, PollRename, TakeSnapshot, Poll
  <2>2. UNCHANGED boot
    BY <1>2 DEF ObserverStep, PollRename, TakeSnapshot, Poll
  <2>3. QED
    BY <2>1, <2>2
<1>3. CASE DispatcherStep
  <2>1. boot.phase = "watch"
    BY <1>3 DEF DispatcherStep, OnCreatedOrModified, OnDeleted, NextEvent, DispatcherDelete,
                DispatcherForget, NoRemoval
  <2>2. UNCHANGED boot
    BY <1>3 DEF DispatcherStep, OnCreatedOrModified, OnDeleted, NextEvent, DispatcherDelete,
                DispatcherForget
  <2>3. QED
    BY <2>1, <2>2
<1>4. CASE WorkerStep
  <2>1. boot.phase \notin {"down", "cleanup"}
    BY <1>4 DEF WorkerStep, HashFile, CompareHash, ReadLostFile, ReadUnindexable, ReadText,
                UpsertPoints, DeleteStale, RecordHash, SkipDelete, SkipForget, NoTask
  <2>2. UNCHANGED <<boot, snapshot, events, dispatcher>>
    BY <1>4 DEF WorkerStep, HashFile, CompareHash, ReadLostFile, ReadUnindexable, ReadText,
                UpsertPoints, DeleteStale, RecordHash, SkipDelete, SkipForget, WorkerFrame,
                ReadFrame
  <2>3. QED
    BY <2>1, <2>2
<1>5. CASE MainStep
  <2> USE DEF BootFrame, TypeOK
  <2>1. CASE Start
    BY <1>5, <2>1 DEF Start, Down
  <2>2. CASE CleanupForget
    BY <1>5, <2>2 DEF CleanupForget
  <2>3. CASE BeginScan
    BY <1>5, <2>3 DEF BeginScan
  <2>4. CASE BeginWatch
    BY <1>5, <2>4 DEF BeginWatch
  <2>5. CASE \E p \in Paths : CleanupPath(p)
    BY <1>5, <2>5 DEF CleanupPath
  <2>6. CASE \E p \in Paths : ScanPath(p)
    BY <1>5, <2>6 DEF ScanPath
  <2>7. QED
    BY <1>5, <2>1, <2>2, <2>3, <2>4, <2>5, <2>6 DEF MainStep
<1>6. CASE FailureStep
  <2>1. CASE DispatcherFails
    BY <2>1 DEF DispatcherFails
  <2>2. CASE WorkerFails
    BY <2>2 DEF WorkerFails, WorkerFrame
  <2>3. CASE ReadFails
    <3>1. boot.phase \notin {"down", "cleanup"}
      BY <2>3 DEF ReadFails, NoTask
    <3>2. QED
      BY <2>3, <3>1 DEF ReadFails, WorkerFrame
  <2>4. CASE Restart
    BY <2>4 DEF Restart, Down
  <2>5. QED
    BY <1>6, <2>1, <2>2, <2>3, <2>4 DEF FailureStep, CleanupFails, Crash
<1>7. CASE UNCHANGED vars
  BY <1>7 DEF vars
<1>8. QED
  BY <1>1, <1>2, <1>3, <1>4, <1>5, <1>6, <1>7 DEF Next

StoresParts == StoresInStep /\ StoresAgree

\* A step that moves no thread between two store calls.
LEMMA StoresUntouched ==
  ASSUME StoresInv, UNCHANGED <<stores, suspect>>, boot'.path = boot.path,
         \/ dispatcher' = dispatcher
         \/ dispatcher.pc # "forget" /\ dispatcher'.pc # "forget",
         \/ worker' = worker
         \/ /\ worker.pc \notin {"upsert", "stale", "record", "forget"}
            /\ worker'.pc \notin {"upsert", "stale", "record", "forget"}
  PROVE  StoresParts'
<1> USE DEF StoresInv, StoresParts, stores
<1>1. \A p : Searchable(p)' <=> Searchable(p)
  BY SamePoints
<1>2. \A p : Publishing(p)' <=> Publishing(p)
  BY DEF Publishing
<1>3. worker'.pc = "stale" => worker' = worker
  OBVIOUS
<1>4. StoresInStep'
  BY <1>1, <1>2, <1>3 DEF StoresInStep, NewPoint
<1>5. StoresAgree'
  BY <1>1, <1>2 DEF StoresAgree, Busy, Forgetting
<1>6. QED
  BY <1>4, <1>5

\* Steps that touch neither the stores nor what a thread does with them.
LEMMA QuietSteps ==
  ASSUME TypeOK, StoresInv,
         \/ UserStep \/ ObserverStep \/ OnCreatedOrModified \/ OnDeleted
         \/ HashFile \/ CompareHash \/ ReadLostFile \/ ReadUnindexable \/ ReadFails
         \/ Start \/ BeginScan \/ BeginWatch \/ (\E p \in Paths : ScanPath(p))
         \/ UNCHANGED vars
  PROVE  StoresParts'
<1>1. CASE UserStep
  <2>1. UNCHANGED <<stores, suspect, boot, dispatcher, worker>>
    BY <1>1 DEF UserStep, Write, Replace, Delete, Rename, Edit, MountChange
  <2>2. QED
    BY <2>1, StoresUntouched
<1>2. CASE ObserverStep
  <2>1. UNCHANGED <<stores, suspect, boot, dispatcher, worker>>
    BY <1>2 DEF ObserverStep, PollRename, TakeSnapshot, Poll
  <2>2. QED
    BY <2>1, StoresUntouched
<1>3. CASE OnCreatedOrModified \/ OnDeleted
  <2>1. UNCHANGED <<stores, suspect, boot, worker>>
    BY <1>3 DEF OnCreatedOrModified, OnDeleted, NextEvent
  <2>2. dispatcher.pc # "forget" /\ dispatcher'.pc # "forget"
    BY <1>3 DEF OnCreatedOrModified, OnDeleted, NextEvent, NoRemoval
  <2>3. QED
    BY <2>1, <2>2, StoresUntouched
<1>4. CASE HashFile \/ CompareHash \/ ReadLostFile \/ ReadUnindexable \/ ReadFails
  <2>1. UNCHANGED <<stores, suspect, boot, dispatcher>>
    BY <1>4 DEF HashFile, CompareHash, ReadLostFile, ReadUnindexable, ReadFails, ReadFrame,
                WorkerFrame
  <2>2. worker.pc \notin {"upsert", "stale", "record", "forget"}
    BY <1>4 DEF HashFile, CompareHash, ReadLostFile, ReadUnindexable, ReadFails
  <2>3. worker'.pc \notin {"upsert", "stale", "record", "forget"}
    BY <1>4, WorkerEffect DEF ReadLostFile, NoTask
  <2>4. QED
    BY <2>1, <2>2, <2>3, StoresUntouched
<1>5. CASE Start \/ BeginScan \/ BeginWatch \/ (\E p \in Paths : ScanPath(p))
  <2>1. UNCHANGED <<stores, suspect, dispatcher, worker>>
    BY <1>5 DEF Start, BeginScan, BeginWatch, ScanPath, BootFrame
  <2>2. boot'.path = boot.path
    BY <1>5 DEF Start, BeginScan, BeginWatch, ScanPath, StoresInv, StartOrder, TypeOK, Down
  <2>3. QED
    BY <2>1, <2>2, StoresUntouched
<1>6. CASE UNCHANGED vars
  BY <1>6, StoresUntouched DEF vars, stores
<1>7. QED
  BY <1>1, <1>2, <1>3, <1>4, <1>5, <1>6

\* The removal of the dispatcher: the points, then the fingerprint.
LEMMA DispatcherStores ==
  ASSUME TypeOK, StoresInv, DispatcherDelete \/ DispatcherForget \/ DispatcherFails
  PROVE  StoresParts'
<1> DEFINE d == dispatcher.path
<1> USE DEF StoresInv, StoresParts
<1>0. d \in Paths /\ dispatcher \in Removal
  BY DispatcherType DEF DispatcherDelete, DispatcherForget, DispatcherFails, TypeOK, Removal
<1>1. CASE DispatcherDelete
  <2>1. dispatcher'.pc = "forget" /\ dispatcher'.path = d
    BY <1>0, <1>1 DEF DispatcherDelete, Removal
  <2>2. \A p : Searchable(p)' <=> p # d /\ Searchable(p)
    BY <1>1, RemovedPoints DEF DispatcherDelete
  <2>3. worker' = worker /\ boot' = boot /\ fingerprint' = fingerprint
    BY <1>1 DEF DispatcherDelete
  <2>4. suspect' = IF Publishing(d) THEN suspect \cup {d} ELSE suspect
    BY <1>1 DEF DispatcherDelete, Overlap
  <2>5. worker.pc = "stale" /\ worker.path # d /\ NewPoint(worker.version) \in points =>
          NewPoint(worker.version)' \in points'
    BY <1>1, <2>3 DEF DispatcherDelete, NewPoint, PointsOf
  <2>6. StoresInStep'
    BY <2>1, <2>2, <2>3, <2>4, <2>5 DEF StoresInStep, NewPoint, Publishing
  <2>7. StoresAgree'
    BY <1>1, <2>1, <2>2, <2>3, <2>4 DEF StoresAgree, Busy, Forgetting, Publishing,
       DispatcherDelete
  <2>8. QED
    BY <2>6, <2>7
<1>2. CASE DispatcherForget
  <2>1. dispatcher' = NoRemoval /\ dispatcher'.pc = "idle" /\ dispatcher.pc = "forget"
    BY <1>2 DEF DispatcherForget, NoRemoval
  <2>2. \A p : Searchable(p)' <=> Searchable(p)
    BY <1>2, SamePoints DEF DispatcherForget
  <2>3. UNCHANGED <<worker, boot, points>>
    BY <1>2 DEF DispatcherForget
  <2>4. suspect' = IF Publishing(d) THEN suspect \cup {d} ELSE suspect
    BY <1>2 DEF DispatcherForget, Overlap
  <2>5. StoresInStep'
    BY <2>1, <2>2, <2>3, <2>4 DEF StoresInStep, NewPoint
  <2>6. fingerprint' = [fingerprint EXCEPT ![d] = None]
    BY <1>2 DEF DispatcherForget
  <2>7. StoresAgree'
    BY <1>0, <2>1, <2>2, <2>3, <2>4, <2>6 DEF StoresAgree, StoresInStep, Busy, Forgetting,
       Publishing, TypeOK
  <2>8. QED
    BY <2>5, <2>7
<1>3. CASE DispatcherFails
  <2>1. dispatcher' = NoRemoval /\ dispatcher'.pc = "idle"
    BY <1>3 DEF DispatcherFails, NoRemoval
  <2>2. UNCHANGED <<worker, boot, fingerprint>> /\ suspect' = suspect \cup {d}
    BY <1>3 DEF DispatcherFails
  <2>3. points' = points \/ points' = points \ PointsOf(d)
    BY <1>3 DEF DispatcherFails
  <2>4. \A p : p # d => (Searchable(p)' <=> Searchable(p))
    BY <2>3, SamePoints, RemovedPoints
  <2>5. \A p : Searchable(p)' => Searchable(p)
    BY <2>3, SamePoints, RemovedPoints
  <2>6. worker.pc = "stale" /\ worker.path # d /\ NewPoint(worker.version) \in points =>
          NewPoint(worker.version)' \in points'
    BY <2>2, <2>3 DEF NewPoint, PointsOf
  <2>7. StoresInStep'
    <3>1. points' = points => NewPoint(worker.version)' = NewPoint(worker.version)
      BY <2>2 DEF NewPoint
    <3>2. points' = points \ PointsOf(d) => \A p : p = d => ~Searchable(p)'
      BY RemovedPoints
    <3>3. worker'.pc = "stale" => NewPoint(worker.version)' \in points' \/ ~Searchable(worker.path)'
      BY <2>2, <2>3, <2>5, <2>6, <3>1, <3>2 DEF StoresInStep
    <3>4. worker.path \notin suspect' => (Searchable(worker.path)' <=> Searchable(worker.path))
      BY <2>2, <2>4
    <3>5. QED
      BY <2>1, <2>2, <2>5, <3>3, <3>4 DEF StoresInStep
  <2>8. StoresAgree'
    BY <2>1, <2>2, <2>4 DEF StoresAgree, StoresInStep, Busy, Forgetting, Publishing
  <2>9. QED
    BY <2>7, <2>8
<1>4. QED
  BY <1>1, <1>2, <1>3

\* The worker publishes an edition or removes a file that became unindexable.
LEMMA WorkerStores ==
  ASSUME TypeOK, StoresInv,
         \/ ReadText \/ UpsertPoints \/ DeleteStale \/ RecordHash
         \/ SkipDelete \/ SkipForget
  PROVE  StoresParts'
<1> USE DEF StoresInv, StoresParts, WorkerFrame, ReadFrame
<1>0. PICK w \in Paths : w = worker.path
  BY WorkerType DEF ReadText, UpsertPoints, DeleteStale, RecordHash, SkipDelete, SkipForget
<1>a. worker.pc # "idle" /\ UNCHANGED <<dispatcher, boot>>
  BY DEF ReadText, UpsertPoints, DeleteStale, RecordHash, SkipDelete, SkipForget
<1>b. boot.path = None
  BY <1>a DEF StartOrder, NoTask, TypeOK
<1>1. CASE ReadText
  <2>1. worker'.pc = "upsert" /\ worker'.path = w /\ worker.pc = "read"
    BY <1>0, <1>1, WorkerEffect DEF ReadText
  <2>2. UNCHANGED <<points, fingerprint>>
    BY <1>1 DEF ReadText, stores
  <2>3. \A p : Searchable(p)' <=> Searchable(p)
    BY <2>2, SamePoints
  <2>4. suspect' = IF Forgetting(w) THEN suspect \cup {w} ELSE suspect \ {w}
    BY <1>0, <1>1 DEF ReadText
  <2>5. StoresInStep'
    BY <1>a, <1>b, <2>1, <2>3, <2>4 DEF StoresInStep, Publishing, Forgetting
  <2>6. StoresAgree'
    BY <1>0, <1>a, <2>1, <2>2, <2>3, <2>4 DEF StoresAgree, Busy, Publishing, Forgetting
  <2>7. QED
    BY <2>5, <2>6
<1>2. CASE UpsertPoints
  <2> DEFINE new == NewPoint(FreshVersion)
  <2>1. /\ worker'.pc = "stale" /\ worker'.path = w /\ worker.pc = "upsert"
        /\ worker'.content = worker.content /\ worker'.version = FreshVersion
    BY <1>0, <1>2, WorkerEffect DEF UpsertPoints
  <2>2. fingerprint' = fingerprint /\ suspect' = suspect
    BY <1>2 DEF UpsertPoints
  <2>3. points' = points \cup {new} /\ new.path = w
    BY <1>0, <1>2 DEF UpsertPoints, NewPoint
  <2>4. \A p : Searchable(p)' <=> p = w \/ Searchable(p)
    BY <2>3, AddedPoint
  <2>5. NewPoint(worker.version)' \in points'
    BY <1>0, <2>1, <2>3 DEF NewPoint
  <2>6. StoresInStep'
    BY <1>0, <1>a, <1>b, <2>1, <2>2, <2>4, <2>5 DEF StoresInStep, Publishing
  <2>7. StoresAgree'
    BY <1>0, <1>a, <2>1, <2>2, <2>4 DEF StoresAgree, Busy, Publishing, Forgetting
  <2>8. QED
    BY <2>6, <2>7
<1>3. CASE DeleteStale
  <2>1. worker'.pc = "record" /\ worker'.path = w /\ worker.pc = "stale"
    BY <1>0, <1>3, WorkerEffect DEF DeleteStale
  <2>2. fingerprint' = fingerprint /\ suspect' = suspect
    BY <1>3 DEF DeleteStale
  <2>3. \A p : Searchable(p)' <=> Searchable(p)
    BY <1>3, <2>1, StaleDeleted DEF DeleteStale, StoresInStep
  <2>4. StoresInStep'
    BY <1>0, <1>a, <1>b, <2>1, <2>2, <2>3 DEF StoresInStep, Publishing
  <2>5. StoresAgree'
    BY <1>0, <1>a, <2>1, <2>2, <2>3 DEF StoresAgree, Busy, Publishing, Forgetting
  <2>6. QED
    BY <2>4, <2>5
<1>4. CASE RecordHash
  <2>1. worker' = NoTask /\ worker'.pc = "idle" /\ worker.pc = "record"
    BY <1>4 DEF RecordHash, NoTask
  <2>2. points' = points /\ suspect' = suspect
    BY <1>4 DEF RecordHash
  <2>3. \A p : Searchable(p)' <=> Searchable(p)
    BY <2>2, SamePoints
  <2>4. StoresInStep'
    BY <1>a, <1>b, <2>1, <2>2, <2>3 DEF StoresInStep, Publishing
  <2>5. fingerprint' = [fingerprint EXCEPT ![w] = worker.hash] /\ worker.hash # None
    BY <1>0, <1>a, <1>4, WorkerType, PipelineAssumption DEF RecordHash
  <2>6. w \notin suspect => Searchable(w)
    BY <1>0, <2>1 DEF StoresInStep
  <2>7. \A p \in Paths : p # w => fingerprint'[p] = fingerprint[p]
    BY <2>5 DEF TypeOK
  <2>8. fingerprint'[w] # None
    BY <2>5, <1>0 DEF TypeOK
  <2>9. StoresAgree'
    BY <1>0, <1>a, <2>1, <2>2, <2>3, <2>6, <2>7, <2>8 DEF StoresAgree, Busy, Publishing,
       Forgetting
  <2>10. QED
    BY <2>4, <2>9
<1>5. CASE SkipDelete
  <2>1. worker'.pc = "forget" /\ worker'.path = w /\ worker.pc = "delete"
    BY <1>0, <1>5, WorkerEffect DEF SkipDelete
  <2>2. fingerprint' = fingerprint /\ suspect' = suspect
    BY <1>5 DEF SkipDelete
  <2>3. \A p : Searchable(p)' <=> p # w /\ Searchable(p)
    BY <1>0, <1>5, RemovedPoints DEF SkipDelete
  <2>4. StoresInStep'
    BY <1>0, <1>a, <1>b, <2>1, <2>2, <2>3 DEF StoresInStep, Publishing
  <2>5. StoresAgree'
    BY <1>0, <1>a, <2>1, <2>2, <2>3 DEF StoresAgree, Busy, Publishing, Forgetting
  <2>6. QED
    BY <2>4, <2>5
<1>6. CASE SkipForget
  <2>1. worker' = NoTask /\ worker'.pc = "idle" /\ worker.pc = "forget"
    BY <1>6 DEF SkipForget, NoTask
  <2>2. points' = points /\ suspect' = suspect
    BY <1>6 DEF SkipForget
  <2>3. \A p : Searchable(p)' <=> Searchable(p)
    BY <2>2, SamePoints
  <2>4. StoresInStep'
    BY <1>a, <1>b, <2>1, <2>2, <2>3 DEF StoresInStep, Publishing
  <2>5. fingerprint' = [fingerprint EXCEPT ![w] = None] /\ ~Searchable(w)
    BY <1>0, <1>6, <2>1 DEF SkipForget, StoresInStep
  <2>6. StoresAgree'
    BY <1>0, <1>a, <2>1, <2>2, <2>3, <2>5 DEF StoresAgree, Busy, Publishing, Forgetting,
       TypeOK
  <2>7. QED
    BY <2>4, <2>6
<1>7. QED
  BY <1>1, <1>2, <1>3, <1>4, <1>5, <1>6

\* A failed call of the worker makes its path suspect where it may have been applied.
LEMMA WorkerFailsStores ==
  ASSUME TypeOK, StoresInv, WorkerFails
  PROVE  StoresParts'
<1> USE DEF StoresInv, StoresParts, WorkerFrame
<1>1. PICK w \in Paths : w = worker.path
  BY WorkerType DEF WorkerFails
<1>2. /\ worker.pc # "idle" /\ worker' = NoTask /\ worker'.pc = "idle"
      /\ UNCHANGED <<dispatcher, boot, fingerprint>>
  BY DEF WorkerFails, NoTask
<1>3. boot.path = None
  BY <1>2 DEF StartOrder, NoTask, TypeOK
<1>4. \A p : p # w => (Searchable(p)' <=> Searchable(p))
  <2>1. CASE UNCHANGED points
    BY <2>1, SamePoints
  <2>2. CASE points' = points \cup {NewPoint(FreshVersion)}
    <3>1. NewPoint(FreshVersion).path = w
      BY <1>1 DEF NewPoint
    <3>2. QED
      BY <2>2, <3>1, AddedPoint
  <2>3. CASE points' = points \ StalePoints
    BY <1>1, <2>3 DEF StalePoints, Searchable, PointsOf
  <2>4. CASE points' = points \ PointsOf(worker.path)
    BY <1>1, <2>4, RemovedPoints
  <2>5. QED
    BY <2>1, <2>2, <2>3, <2>4 DEF WorkerFails
<1>5. suspect' = IF worker.pc \in {"compare", "read"} THEN suspect ELSE suspect \cup {w}
  BY <1>1 DEF WorkerFails
<1>6. worker.pc \in {"compare", "read"} => points' = points
  BY DEF WorkerFails
<1>7. worker.pc \in {"compare", "read"} => \A p : Searchable(p)' <=> Searchable(p)
  BY <1>6, SamePoints
<1>8. StoresInStep'
  BY <1>1, <1>2, <1>3, <1>4, <1>5, <1>7 DEF StoresInStep, Publishing
<1>9. StoresAgree'
  BY <1>1, <1>2, <1>4, <1>5, <1>7 DEF StoresAgree, Busy, Publishing, Forgetting
<1>10. QED
  BY <1>8, <1>9

\* cleanup_stale removes the points of a lost file, then its fingerprint.
LEMMA CleanupStores ==
  ASSUME TypeOK, StoresInv, CleanupForget \/ \E p \in Paths : CleanupPath(p)
  PROVE  StoresParts'
<1> USE DEF StoresInv, StoresParts, BootFrame
<1>1. boot.phase = "cleanup" /\ UNCHANGED <<worker, dispatcher, suspect>>
  BY DEF CleanupForget, CleanupPath
<1>2. worker.pc = "idle" /\ dispatcher.pc = "idle"
  BY <1>1 DEF StartOrder, NoTask, NoRemoval
<1>3. CASE CleanupForget
  <2>1. PICK b \in Paths : b = boot.path
    BY <1>3 DEF CleanupForget, TypeOK
  <2>2. /\ boot.path # None /\ points' = points /\ boot'.path = None
        /\ fingerprint' = [fingerprint EXCEPT ![b] = None]
    BY <1>3, <2>1 DEF CleanupForget, TypeOK
  <2>3. \A p : Searchable(p)' <=> Searchable(p)
    BY <2>2, SamePoints
  <2>4. StoresInStep'
    BY <1>1, <1>2, <2>2, <2>3 DEF StoresInStep
  <2>5. ~Searchable(b)
    BY <2>1, <2>2 DEF StoresInStep
  <2>6. StoresAgree'
    BY <1>1, <1>2, <2>1, <2>2, <2>3, <2>5 DEF StoresAgree, Busy, Publishing, Forgetting, TypeOK
  <2>7. QED
    BY <2>4, <2>6
<1>4. ASSUME NEW q \in Paths, CleanupPath(q) PROVE StoresParts'
  <2>1. boot.path = None /\ fingerprint' = fingerprint
    BY <1>4 DEF CleanupPath
  <2>2. CASE Exists(q)
    <3>1. points' = points /\ boot'.path = boot.path
      BY <1>4, <2>2 DEF CleanupPath, TypeOK
    <3>2. QED
      BY <1>1, <2>1, <3>1, StoresUntouched DEF stores
  <2>3. CASE ~Exists(q)
    <3>1. points' = points \ PointsOf(q) /\ boot'.path = q
      BY <1>4, <2>3 DEF CleanupPath
    <3>2. \A p : Searchable(p)' <=> p # q /\ Searchable(p)
      BY <3>1, RemovedPoints
    <3>3. StoresInStep'
      BY <1>1, <1>2, <3>1, <3>2 DEF StoresInStep
    <3>4. StoresAgree'
      BY <1>1, <1>2, <2>1, <3>1, <3>2, PipelineAssumption DEF StoresAgree, Busy,
         Publishing, Forgetting
    <3>5. QED
      BY <3>3, <3>4
  <2>4. QED
    BY <2>2, <2>3
<1>5. QED
  BY <1>3, <1>4

\* A restart makes every path suspect whose stores a thread was working on.
LEMMA RestartStores ==
  ASSUME TypeOK, StoresInv, CleanupFails \/ Crash
  PROVE  StoresParts'
<1> USE DEF StoresInv, StoresParts
<1>1. /\ worker'.pc = "idle" /\ dispatcher'.pc = "idle" /\ boot'.path = None
      /\ fingerprint' = fingerprint
  BY DEF CleanupFails, Crash, Restart, NoTask, NoRemoval, Down
<1>2. StoresInStep'
  BY <1>1 DEF StoresInStep
<1>3. \A p \in Paths : Busy(p) => p \in Interrupted
  BY DEF Busy, Interrupted
<1>4. CASE points' = points /\ suspect' = suspect \cup Interrupted
  <2>1. \A p : Searchable(p)' <=> Searchable(p)
    BY <1>4, SamePoints
  <2>2. StoresAgree'
    BY <1>1, <1>3, <1>4, <2>1 DEF StoresAgree
  <2>3. QED
    BY <1>2, <2>2
<1>5. ASSUME CleanupFails, NEW q \in Paths, boot.path = None,
             points' = points \ PointsOf(q), suspect' = suspect \cup {q}
      PROVE  StoresParts'
  <2>1. \A p : p # q => (Searchable(p)' <=> Searchable(p))
    BY <1>5, RemovedPoints
  <2>2. worker.pc = "idle" /\ dispatcher.pc = "idle"
    BY <1>5 DEF CleanupFails, StartOrder, NoTask, NoRemoval
  <2>3. \A p \in Paths : ~Busy(p)
    BY <1>5, <2>2, PipelineAssumption DEF Busy, Publishing, Forgetting
  <2>4. StoresAgree'
    BY <1>1, <1>5, <2>1, <2>3 DEF StoresAgree
  <2>5. QED
    BY <1>2, <2>4
<1>6. QED
  BY <1>4, <1>5 DEF CleanupFails, Crash, TypeOK

\* Every step keeps the inductive invariant.
LEMMA StoresStep == TypeOK /\ StoresInv /\ [Next]_vars => StoresInv'
<1> SUFFICES ASSUME TypeOK, StoresInv, [Next]_vars PROVE StoresInv'
  OBVIOUS
<1>1. StartOrder'
  BY StartOrderStep DEF StoresInv
<1>2. StoresParts'
  BY QuietSteps, DispatcherStores, WorkerStores, WorkerFailsStores, CleanupStores,
     RestartStores
  DEF Next, DispatcherStep, WorkerStep, MainStep, FailureStep
<1>3. CleanedBeforeRecorded'
  BY CleanedStep DEF StoresInv
<1>4. QED
  BY <1>1, <1>2, <1>3 DEF StoresInv, StoresParts

\* The inductive invariant: the threads start in the order of main(), leave the stores
\* in step between their calls, and Qdrant and SQLite agree on which files are indexed.
THEOREM StoresInvariant == Spec => []StoresInv
<1>1. Init => StoresInv
  BY DEF Init, StoresInv, StartOrder, StoresInStep, StoresAgree, CleanedBeforeRecorded,
         Down, NoTask, NoRemoval, Searchable, PointsOf
<1>2. QED
  BY <1>1, StoresStep, TypeCorrect, PTL DEF Spec

\* Qdrant and SQLite agree on which files are indexed, except for a path between
\* two store calls and a path that a failure or an overlapping deletion touched.
THEOREM StoresAlwaysAgree == Spec => []StoresAgree
<1>1. StoresInv => StoresAgree
  BY DEF StoresInv
<1>2. QED
  BY <1>1, StoresInvariant, PTL

\* A fingerprint is recorded only over points of one edition: _upsert_chunks has
\* deleted every older one, whatever the other threads and the user did meanwhile.
THEOREM RecordsOneEdition == Spec => []CleanedBeforeRecorded
<1>1. StoresInv => CleanedBeforeRecorded
  BY DEF StoresInv
<1>2. QED
  BY <1>1, StoresInvariant, PTL

(***************************************************************************)
(* Replacing a document leaves no gap, and DocumentIndex is implemented.   *)
(***************************************************************************)
\* Only a removal takes the last point of a path in one step.
LEMMA GapStep ==
  ASSUME TypeOK, StoresInv, [Next]_vars, NEW p \in Paths, Searchable(p), ~Searchable(p)'
  PROVE  \/ dispatcher.pc = "delete" /\ dispatcher.path = p
         \/ worker.path = p /\ worker.pc = "delete"
         \/ boot.phase = "cleanup" /\ p \in boot.todo
<1>1. CASE points' = points
  BY <1>1, SamePoints
<1>2. CASE DispatcherDelete \/ DispatcherFails
  BY <1>2, SamePoints, RemovedPoints DEF DispatcherDelete, DispatcherFails
<1>3. CASE UpsertPoints
  BY <1>3, AddedPoint DEF UpsertPoints
<1>4. CASE DeleteStale
  BY <1>4, StaleDeleted DEF DeleteStale, StoresInv, StoresInStep
<1>5. CASE SkipDelete
  BY <1>5, RemovedPoints DEF SkipDelete
<1>6. CASE WorkerFails
  <2>1. CASE points' = points \cup {NewPoint(FreshVersion)}
    BY <2>1, AddedPoint
  <2>2. CASE worker.pc = "stale" /\ points' = points \ StalePoints
    BY <2>2, StaleDeleted DEF StoresInv, StoresInStep
  <2>3. CASE worker.pc = "delete" /\ points' = points \ PointsOf(worker.path)
    BY <2>3, RemovedPoints
  <2>4. QED
    BY <1>1, <1>6, <2>1, <2>2, <2>3 DEF WorkerFails
<1>7. CASE \E q \in Paths : CleanupPath(q)
  BY <1>1, <1>7, RemovedPoints DEF CleanupPath
<1>8. CASE CleanupFails
  BY <1>1, <1>8, RemovedPoints DEF CleanupFails
<1>9. [Next]_vars => \/ points' = points \/ DispatcherDelete \/ DispatcherFails
                     \/ UpsertPoints \/ DeleteStale \/ SkipDelete \/ WorkerFails
                     \/ (\E q \in Paths : CleanupPath(q)) \/ CleanupFails
  <2>1. CASE UserStep \/ ObserverStep
    BY <2>1 DEF UserStep, Write, Replace, Delete, Rename, Edit, MountChange, ObserverStep,
                PollRename, TakeSnapshot, Poll, stores
  <2>2. CASE DispatcherStep
    BY <2>2 DEF DispatcherStep, OnCreatedOrModified, OnDeleted, NextEvent, DispatcherForget,
                stores
  <2>3. CASE WorkerStep
    BY <2>3 DEF WorkerStep, HashFile, CompareHash, ReadLostFile, ReadUnindexable, ReadText,
                RecordHash, SkipForget, ReadFrame, stores
  <2>4. CASE MainStep
    BY <2>4 DEF MainStep, Start, CleanupForget, BeginScan, BeginWatch, ScanPath, stores
  <2>5. CASE FailureStep
    BY <2>5 DEF FailureStep, ReadFails, Crash, stores
  <2>6. CASE UNCHANGED vars
    BY <2>6 DEF vars, stores
  <2>7. QED
    BY <2>1, <2>2, <2>3, <2>4, <2>5, <2>6 DEF Next
<1>10. QED
  BY <1>1, <1>2, <1>3, <1>4, <1>5, <1>6, <1>7, <1>8, <1>9

\* A query always finds some edition of a document that is being replaced: only a
\* removal takes the last point of a path, whatever fails or crashes.
THEOREM ReplacesWithoutGap == Spec => NoSearchGap
<1>1. TypeOK /\ StoresInv /\ [Next]_vars =>
        [\A p \in Paths :
           Searchable(p) /\ ~Searchable(p)' =>
             \/ dispatcher.pc = "delete" /\ dispatcher.path = p
             \/ worker.path = p /\ worker.pc = "delete"
             \/ boot.phase = "cleanup" /\ p \in boot.todo]_vars
  BY GapStep
<1>2. QED
  BY <1>1, TypeCorrect, StoresInvariant, PTL DEF Spec, NoSearchGap

(***************************************************************************)
(* A broken bind mount costs no documents.                                 *)
(***************************************************************************)
\* What lies below a broken mount looks deleted, and its root empty.
LEMMA BrokenLooksEmpty ==
  ASSUME TypeOK, NEW R \in offline, NEW p \in Paths, p \in R
  PROVE  Visible(p) = Absent /\ BrokenMountFor(p)
<1>1. \A q \in R : Visible(q) = Absent
  BY DEF Visible
<1>2. R \in RequiredRoots
  BY DEF TypeOK
<1>3. QED
  BY <1>1, <1>2 DEF BrokenMountFor, EmptyRoot, Exists

\* A call that fails spends a fault.
LEMMA FailureSpends ==
  ASSUME TypeOK, UNCHANGED budget["faults"]
  PROVE  ~DispatcherFails /\ ~WorkerFails /\ ~ReadFails /\ ~CleanupFails
<1>1. ~Spend("faults")
  BY DEF TypeOK, Spend
<1>2. QED
  BY <1>1 DEF DispatcherFails, WorkerFails, ReadFails, CleanupFails

\* No step of the running watcher starts a removal below a broken mount.
LEMMA OutageStep ==
  ASSUME TypeOK, StoresInv, [Next]_vars,
         NEW R \in offline, NEW p \in Paths, p \in R,
         boot.phase = "watch", ~Removing(p), UNCHANGED budget["faults"]
  PROVE  ~Removing(p)' /\ (Searchable(p) => Searchable(p)')
<1>1. Visible(p) = Absent /\ BrokenMountFor(p)
  BY BrokenLooksEmpty
<1>2. p # None /\ Absent \notin Unindexable
  BY PipelineAssumption
<1> USE DEF Removing, stores
<1>3. ASSUME points' = points,
             dispatcher' = NoRemoval \/ dispatcher' = dispatcher,
             worker' = NoTask \/ worker' = worker \/ worker'.pc \notin {"delete", "forget"}
      PROVE  ~Removing(p)' /\ (Searchable(p) => Searchable(p)')
  BY <1>2, <1>3, SamePoints DEF NoRemoval, NoTask
<1>4. CASE UserStep \/ ObserverStep \/ UNCHANGED vars
  <2>1. UNCHANGED <<points, dispatcher, worker>>
    BY <1>4 DEF UserStep, Write, Replace, Delete, Rename, Edit, MountChange, ObserverStep,
                PollRename, TakeSnapshot, Poll, vars
  <2>2. QED
    BY <1>3, <2>1
<1>5. CASE OnCreatedOrModified
  BY <1>3, <1>5 DEF OnCreatedOrModified, NextEvent
<1>6. CASE OnDeleted
  <2>1. UNCHANGED <<points, worker>>
    BY <1>6 DEF OnDeleted, NextEvent
  <2>2. dispatcher' = NoRemoval \/ dispatcher'.path # p
    BY <1>1, <1>6 DEF OnDeleted
  <2>3. QED
    BY <1>2, <2>1, <2>2, SamePoints DEF NoRemoval
<1>7. CASE DispatcherDelete
  <2>1. /\ dispatcher.path # p /\ dispatcher'.path = dispatcher.path /\ worker' = worker
        /\ points' = points \ PointsOf(dispatcher.path)
    BY <1>7, DispatcherType DEF DispatcherDelete, Removal
  <2>2. QED
    BY <2>1, RemovedPoints
<1>8. CASE DispatcherForget
  BY <1>3, <1>8 DEF DispatcherForget
<1>9. CASE HashFile \/ CompareHash \/ ReadLostFile \/ ReadText \/ RecordHash
  <2>1. worker' = NoTask \/ worker'.pc \in {"compare", "read", "upsert"}
    BY <1>9, WorkerEffect DEF ReadLostFile, RecordHash
  <2>2. UNCHANGED <<points, dispatcher>>
    BY <1>9 DEF HashFile, CompareHash, ReadLostFile, ReadText, RecordHash, ReadFrame,
                WorkerFrame
  <2>3. QED
    BY <1>3, <2>1, <2>2
<1>10. CASE ReadUnindexable
  <2>1. worker.path # p
    BY <1>1, <1>2, <1>10 DEF ReadUnindexable
  <2>2. worker' = NoTask \/ worker'.path = worker.path
    BY <1>10, WorkerType DEF ReadUnindexable, Skipped, Task
  <2>3. UNCHANGED <<points, dispatcher>>
    BY <1>10 DEF ReadUnindexable, ReadFrame, WorkerFrame
  <2>4. QED
    BY <1>2, <2>1, <2>2, <2>3, SamePoints DEF NoTask
<1>11. CASE UpsertPoints
  <2>1. worker'.pc = "stale" /\ dispatcher' = dispatcher
    BY <1>11, WorkerEffect DEF UpsertPoints, WorkerFrame
  <2>2. points' = points \cup {NewPoint(FreshVersion)}
    BY <1>11 DEF UpsertPoints
  <2>3. QED
    BY <2>1, <2>2, AddedPoint
<1>12. CASE DeleteStale
  <2>1. worker'.pc = "record" /\ dispatcher' = dispatcher
    BY <1>12, WorkerEffect DEF DeleteStale, WorkerFrame
  <2>2. Searchable(p)' <=> Searchable(p)
    BY <1>12, StaleDeleted DEF DeleteStale, StoresInv, StoresInStep
  <2>3. QED
    BY <2>1, <2>2
<1>13. CASE SkipDelete
  <2>1. worker.path # p /\ worker'.path = worker.path /\ dispatcher' = dispatcher
    BY <1>13, WorkerEffect DEF SkipDelete, WorkerFrame
  <2>2. points' = points \ PointsOf(worker.path)
    BY <1>13 DEF SkipDelete
  <2>3. QED
    BY <2>1, <2>2, RemovedPoints
<1>14. CASE SkipForget
  BY <1>3, <1>14 DEF SkipForget, WorkerFrame
<1>15. ~MainStep
  BY DEF MainStep, Start, Down, CleanupForget, BeginScan, BeginWatch, CleanupPath, ScanPath
<1>16. CASE FailureStep
  <2>1. Crash
    BY <1>16, FailureSpends DEF FailureStep
  <2>2. QED
    BY <1>3, <2>1 DEF Crash, Restart
<1>17. QED
  BY <1>4, <1>5, <1>6, <1>7, <1>8, <1>9, <1>10, <1>11, <1>12, <1>13, <1>14, <1>15, <1>16
  DEF Next, DispatcherStep, WorkerStep

\* While a required mount is broken the watcher neither starts to remove a document
\* below it nor loses its points: on_deleted asks _broken_mount_for, and a file that
\* cannot be read is no unindexable file.
THEOREM OutagesSpareDocuments == Spec => OutageSparesDocuments
<1>1. TypeOK /\ StoresInv /\ [Next]_vars =>
        [\A R \in offline, p \in Paths :
           p \in R /\ boot.phase = "watch" /\ ~Removing(p) /\ UNCHANGED budget["faults"] =>
             ~Removing(p)' /\ (Searchable(p) => Searchable(p)')]_vars
  BY OutageStep
<1>2. QED
  BY <1>1, TypeCorrect, StoresInvariant, PTL DEF Spec, OutageSparesDocuments

\* The points of the version the worker published last are its own.
OwnEdition ==
  worker.pc = "stale" =>
    \A pt \in PointsOf(worker.path) :
      pt.version = worker.version => pt.content = worker.content

\* Every step keeps the invariant about the edition of the worker.
LEMMA OwnEditionStep == TypeOK /\ OwnEdition /\ [Next]_vars => OwnEdition'
<1> SUFFICES ASSUME TypeOK, OwnEdition, [Next]_vars PROVE OwnEdition'
  OBVIOUS
<1>1. CASE UpsertPoints
  <2>1. /\ worker'.path = worker.path /\ worker'.content = worker.content
        /\ worker'.version = FreshVersion
    BY <1>1, WorkerEffect
  <2>2. \A pt \in points : pt.path = worker.path => pt.version # FreshVersion
    BY <1>1, FreshVersionIsUnused DEF UpsertPoints
  <2>3. QED
    BY <1>1, <2>1, <2>2 DEF UpsertPoints, OwnEdition, PointsOf, NewPoint
<1>2. CASE (WorkerStep \/ ReadFails) /\ ~UpsertPoints
  <2>1. worker'.pc # "stale"
    <3>1. CASE ReadLostFile \/ RecordHash \/ SkipForget
      BY <3>1 DEF ReadLostFile, RecordHash, SkipForget, NoTask
    <3>2. QED
      BY <1>2, <3>1, WorkerEffect DEF WorkerStep, NoTask
  <2>2. QED
    BY <2>1 DEF OwnEdition
<1>3. CASE ~WorkerStep /\ ~ReadFails
  <2>1. worker' = NoTask \/ (worker' = worker /\ points' \subseteq points)
    BY <1>3, OthersLeaveTask
  <2>2. QED
    BY <2>1 DEF OwnEdition, PointsOf, NoTask
<1>4. QED
  BY <1>1, <1>2, <1>3 DEF WorkerStep

\* The edition the worker is about to make the only one is one of its own path.
LEMMA OwnEditionInvariant == Spec => []OwnEdition
<1>1. Init => OwnEdition
  BY DEF Init, OwnEdition, NoTask
<1>2. QED
  BY <1>1, OwnEditionStep, TypeCorrect, PTL DEF Spec

NobodyTakesOver == [document |-> None, edition |-> None]

\* The removal of all points of a path is a withdrawal.
LEMMA RemovalWithdraws ==
  ASSUME NEW q \in Paths, points' = points \ PointsOf(q),
         TakingOver' \in {NobodyTakesOver, TakingOver}
  PROVE  Index!Next
<1>1. EditionIndex' = [EditionIndex EXCEPT ![q] = {}]
  BY DEF EditionIndex, EditionsOf, PointsOf
<1>2. Index!Withdraw(q)
  BY <1>1 DEF Index!Withdraw, Index!Empty, NobodyTakesOver
<1>3. QED
  BY <1>2 DEF Index!Next

\* The upsert adds an edition.
LEMMA UpsertAdds ==
  ASSUME TypeOK, worker.pc = "upsert", UnusedVersions(worker.path) # {},
         points' = points \cup {NewPoint(FreshVersion)},
         TakingOver' \in {NobodyTakesOver,
                          [document |-> worker.path,
                           edition |-> [content |-> worker.content, version |-> FreshVersion]]}
  PROVE  Index!Next
<1> DEFINE e == [content |-> worker.content, version |-> FreshVersion]
<1>1. PICK w \in Paths : w = worker.path
  BY WorkerType
<1>2. PICK x \in Edition : x = e
  BY FreshVersionIsUnused DEF TypeOK, Edition
<1>3. TakingOver = Index!Empty
  BY DEF TakingOver, Index!Empty
<1>4. x \notin EditionsOf(w)
  BY <1>1, <1>2, FreshVersionIsUnused DEF EditionsOf, PointsOf
<1>5. \A p \in Paths : EditionsOf(p)' = IF p = w THEN EditionsOf(p) \cup {x} ELSE EditionsOf(p)
  <2>1. NewPoint(FreshVersion).path = w
    BY <1>1 DEF NewPoint
  <2>2. [content |-> NewPoint(FreshVersion).content,
         version |-> NewPoint(FreshVersion).version] = x
    BY <1>2 DEF NewPoint
  <2>3. \A p \in Paths : PointsOf(p)' = IF p = w THEN PointsOf(p) \cup {NewPoint(FreshVersion)}
                                               ELSE PointsOf(p)
    BY <2>1 DEF PointsOf
  <2>4. QED
    BY <2>2, <2>3 DEF EditionsOf
<1>6. EditionIndex' = [EditionIndex EXCEPT ![w] = @ \cup {x}]
  BY <1>5 DEF EditionIndex
<1>7. TakingOver' \in {Index!Empty, [document |-> w, edition |-> x]}
  BY <1>1, <1>2 DEF NobodyTakesOver, Index!Empty
<1>8. Index!Add(w, x)
  BY <1>3, <1>4, <1>6, <1>7 DEF Index!Add, EditionIndex
<1>9. QED
  BY <1>8 DEF Index!Next

\* The delete of the stale points retires the older editions.
LEMMA StaleDeleteRetires ==
  ASSUME TypeOK, OwnEdition, worker.pc = "stale", points' = points \ StalePoints,
         TakingOver' = NobodyTakesOver
  PROVE  Index!Next
<1>1. PICK w \in Paths : w = worker.path
  BY WorkerType
<1> DEFINE e == [content |-> worker.content, version |-> worker.version]
<1>2. TakingOver.document = w /\ TakingOver.edition = e
  BY <1>1 DEF TakingOver
<1>3. PointsOf(w)' = {pt \in PointsOf(w) : pt.version = worker.version}
  BY <1>1 DEF PointsOf, StalePoints
<1>4. EditionsOf(w)' = EditionsOf(w) \cap {e}
  BY <1>1, <1>3 DEF EditionsOf, OwnEdition
<1>5. \A p \in Paths : p # w => EditionsOf(p)' = EditionsOf(p)
  BY <1>1 DEF EditionsOf, PointsOf, StalePoints
<1>6. EditionIndex' = [EditionIndex EXCEPT ![w] = @ \cap {e}]
  BY <1>4, <1>5 DEF EditionIndex
<1>7. Index!Retire(w)
  BY <1>2, <1>6, PipelineAssumption DEF Index!Retire, Index!Empty, NobodyTakesOver
<1>8. QED
  BY <1>7 DEF Index!Next

\* A step that leaves the points and the worker alone is a stutter of the index.
LEMMA NothingChanges ==
  ASSUME points' = points, TakingOver' \in {NobodyTakesOver, TakingOver}
  PROVE  [Index!Next]_<<EditionIndex, TakingOver>>
<1>1. EditionIndex' = EditionIndex
  BY DEF EditionIndex, EditionsOf, PointsOf
<1>2. CASE TakingOver' = NobodyTakesOver
  BY <1>1, <1>2 DEF Index!Next, Index!Abandon, Index!Empty, NobodyTakesOver
<1>3. QED
  BY <1>1, <1>2

\* Every step of the pipeline is a step of the index or a stutter.
LEMMA RefinementStep ==
  ASSUME TypeOK, StoresInv, OwnEdition, [Next]_vars
  PROVE  [Index!Next]_<<EditionIndex, TakingOver>>
<1>1. worker' = worker => TakingOver' = TakingOver
  BY DEF TakingOver
<1>2. worker'.pc # "stale" => TakingOver' = NobodyTakesOver
  BY DEF TakingOver, NobodyTakesOver
<1>3. worker' = NoTask => TakingOver' = NobodyTakesOver
  BY <1>2 DEF NoTask
<1>4. CASE points' = points /\ (worker' = worker \/ worker'.pc # "stale")
  BY <1>1, <1>2, <1>4, NothingChanges
<1>5. CASE DispatcherDelete \/ DispatcherFails
  <2>1. dispatcher.path \in Paths /\ worker' = worker
    BY <1>5, DispatcherType DEF DispatcherDelete, DispatcherFails, TypeOK, Removal
  <2>2. points' = points \/ points' = points \ PointsOf(dispatcher.path)
    BY <1>5 DEF DispatcherDelete, DispatcherFails
  <2>3. QED
    BY <1>1, <1>4, <2>1, <2>2, RemovalWithdraws
<1>6. CASE UpsertPoints
  <2>1. TakingOver' = [document |-> worker.path,
                       edition |-> [content |-> worker.content, version |-> FreshVersion]]
    BY <1>6, WorkerEffect DEF TakingOver
  <2>2. QED
    BY <1>6, <2>1, UpsertAdds DEF UpsertPoints
<1>7. CASE DeleteStale
  BY <1>2, <1>7, WorkerEffect, StaleDeleteRetires DEF DeleteStale
<1>8. CASE SkipDelete
  <2>1. worker'.pc # "stale" /\ worker.path \in Paths
    BY <1>8, WorkerEffect, WorkerType DEF SkipDelete
  <2>2. QED
    BY <1>2, <1>8, <2>1, RemovalWithdraws DEF SkipDelete
<1>9. CASE WorkerFails
  <2>1. TakingOver' = NobodyTakesOver /\ worker.path \in Paths
    BY <1>3, <1>9, WorkerType DEF WorkerFails
  <2>2. CASE UNCHANGED points
    BY <2>1, <2>2, NothingChanges
  <2>3. CASE /\ worker.pc = "upsert" /\ UnusedVersions(worker.path) # {}
             /\ points' = points \cup {NewPoint(FreshVersion)}
    BY <2>1, <2>3, UpsertAdds
  <2>4. CASE worker.pc = "stale" /\ points' = points \ StalePoints
    BY <2>1, <2>4, StaleDeleteRetires
  <2>5. CASE worker.pc = "delete" /\ points' = points \ PointsOf(worker.path)
    BY <2>1, <2>5, RemovalWithdraws
  <2>6. QED
    BY <1>9, <2>2, <2>3, <2>4, <2>5 DEF WorkerFails
<1>10. ASSUME NEW q \in Paths, CleanupPath(q) PROVE [Index!Next]_<<EditionIndex, TakingOver>>
  <2>1. worker' = worker
    BY <1>10 DEF CleanupPath, BootFrame
  <2>2. QED
    BY <1>1, <1>4, <1>10, <2>1, RemovalWithdraws DEF CleanupPath
<1>11. CASE CleanupFails
  <2>1. TakingOver' = NobodyTakesOver
    BY <1>3, <1>11 DEF CleanupFails, Restart
  <2>2. points' = points \/ \E q \in Paths : points' = points \ PointsOf(q)
    BY <1>11 DEF CleanupFails, TypeOK
  <2>3. QED
    BY <2>1, <2>2, NothingChanges, RemovalWithdraws
<1>12. CASE UserStep \/ ObserverStep \/ UNCHANGED vars
  <2>1. points' = points /\ worker' = worker
    BY <1>12 DEF UserStep, Write, Replace, Delete, Rename, Edit, MountChange, ObserverStep,
                 PollRename, TakeSnapshot, Poll, vars, stores
  <2>2. QED
    BY <1>4, <2>1
<1>13. CASE DispatcherStep /\ ~DispatcherDelete
  <2>1. points' = points /\ worker' = worker
    BY <1>13 DEF DispatcherStep, OnCreatedOrModified, OnDeleted, NextEvent, DispatcherForget,
                 stores
  <2>2. QED
    BY <1>4, <2>1
<1>14. CASE (WorkerStep \/ ReadFails) /\ ~UpsertPoints /\ ~DeleteStale /\ ~SkipDelete
  <2>1. points' = points
    BY <1>14 DEF WorkerStep, HashFile, CompareHash, ReadLostFile, ReadUnindexable, ReadText,
                 RecordHash, SkipForget, ReadFails, ReadFrame, stores
  <2>2. worker'.pc # "stale"
    <3>1. CASE ReadLostFile \/ RecordHash \/ SkipForget
      BY <3>1 DEF ReadLostFile, RecordHash, SkipForget, NoTask
    <3>2. QED
      BY <1>14, <3>1, WorkerEffect DEF WorkerStep, NoTask
  <2>3. QED
    BY <1>4, <2>1, <2>2
<1>15. CASE Start \/ CleanupForget \/ BeginScan \/ BeginWatch \/ \E p \in Paths : ScanPath(p)
  <2>1. points' = points /\ worker' = worker
    BY <1>15 DEF Start, CleanupForget, BeginScan, BeginWatch, ScanPath, BootFrame, stores
  <2>2. QED
    BY <1>4, <2>1
<1>16. CASE Crash
  BY <1>3, <1>16, NothingChanges DEF Crash, Restart
<1>17. QED
  BY <1>5, <1>6, <1>7, <1>8, <1>9, <1>10, <1>11, <1>12, <1>13, <1>14, <1>15, <1>16
  DEF Next, DispatcherStep, MainStep, FailureStep, WorkerStep

\* Seen from the search side, the watcher only ever adds an edition next to the old
\* ones, retires the old ones for the new one, or withdraws a document.
THEOREM PipelineImplementsIndex == Spec => ImplementsDocumentIndex
<1>1. Init => Index!Init
  BY DEF Init, Index!Init, EditionIndex, EditionsOf, PointsOf, TakingOver, NoTask, Index!Empty
<1>2. QED
  BY <1>1, RefinementStep, TypeCorrect, StoresInvariant, OwnEditionInvariant, PTL
  DEF Spec, Index!Spec, ImplementsDocumentIndex

IndexType ==
  /\ EditionIndex \in [Paths -> SUBSET Edition]
  /\ TakingOver # Index!Empty => TakingOver \in [document : Paths, edition : Edition]

LEMMA IndexTypeCorrect == TypeOK => IndexType
<1> SUFFICES ASSUME TypeOK PROVE IndexType
  OBVIOUS
<1>1. EditionIndex \in [Paths -> SUBSET Edition]
  BY DEF TypeOK, EditionIndex, EditionsOf, PointsOf, Point, Edition
<1>2. CASE worker.pc = "stale"
  BY <1>1, <1>2, WorkerType DEF TypeOK, IndexType, TakingOver, Edition
<1>3. CASE worker.pc # "stale"
  BY <1>1, <1>3 DEF IndexType, TakingOver, Index!Empty
<1> QED
  BY <1>2, <1>3

\* DocumentIndex keeps the edition that takes over, whoever implements it.
LEMMA IndexKeepsFresh ==
  IndexType /\ Index!FreshIsThere /\ [Index!Next]_<<EditionIndex, TakingOver>>
    => Index!FreshIsThere'
<1> SUFFICES ASSUME IndexType, Index!FreshIsThere, [Index!Next]_<<EditionIndex, TakingOver>>
             PROVE  Index!FreshIsThere'
  OBVIOUS
<1> USE DEF IndexType, Index!FreshIsThere
<1>1. ASSUME NEW p \in Paths, NEW e \in Edition, Index!Add(p, e) PROVE Index!FreshIsThere'
  BY <1>1 DEF Index!Add
<1>2. ASSUME NEW p \in Paths, Index!Retire(p) PROVE Index!FreshIsThere'
  <2>1. TakingOver # Index!Empty
    BY <1>2 DEF Index!Retire, Index!Empty
  <2> QED
    BY <1>2, <2>1 DEF Index!Retire
<1>3. ASSUME NEW p \in Paths, Index!Withdraw(p) PROVE Index!FreshIsThere'
  BY <1>3 DEF Index!Withdraw
<1>4. CASE Index!Abandon
  BY <1>4 DEF Index!Abandon
<1>5. CASE UNCHANGED <<EditionIndex, TakingOver>>
  BY <1>5
<1> QED
  BY <1>1, <1>2, <1>3, <1>4, <1>5 DEF Index!Next

\* What DocumentIndex means to a query: one that looks while a document is replaced
\* finds the edition that takes over, unless the whole document was withdrawn (the
\* upsert precedes the stale delete).
THEOREM FreshStaysThere == Spec => []Index!FreshIsThere
<1>1. Init => Index!FreshIsThere
  BY DEF Init, NoTask, TakingOver, Index!FreshIsThere, Index!Empty
<1>2. TypeOK /\ StoresInv /\ OwnEdition /\ [Next]_vars /\ Index!FreshIsThere => Index!FreshIsThere'
  BY RefinementStep, IndexTypeCorrect, IndexKeepsFresh
<1> QED
  BY <1>1, <1>2, TypeCorrect, StoresInvariant, OwnEditionInvariant, PTL DEF Spec
=============================================================================
