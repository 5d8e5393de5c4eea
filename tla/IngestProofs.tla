---------------------------- MODULE IngestProofs ----------------------------
(***************************************************************************)
(* Of the collection: what is tracked is searchable, points have their     *)
(* payload indexes and the old layout is kept, for any files, filters,     *)
(* roots and budgets.  Of the chunks: every word of a document reaches the *)
(* index, in the order of the document, for any documents and sizes; code  *)
(* blocks of short Markdown documents stay whole; chunks fit if the        *)
(* maximum has room for a window; two chunks share at most the overlap.    *)
(***************************************************************************)
EXTENDS CollectionSetup, Chunkers, FiniteSetTheorems, SequenceTheorems,
        WellFoundedInduction, TLAPS

(***************************************************************************)
(***************************************************************************)
(* The collection.                                                         *)
(***************************************************************************)
(***************************************************************************)
(***************************************************************************)
(* Types.                                                                  *)
(***************************************************************************)
\* The loops that remove documents go through values of their type.
LEMMA LoopTypes ==
  /\ NoRemoval \in Loop /\ NoRemoval.pc = "idle"
  /\ \A S \in SUBSET Paths : Removing(S) \in Loop /\ Removing(S).pc = "remove"
  /\ Resetting \in Loop /\ Resetting.pc = "clear"
  /\ \A loop \in Loop, p \in Paths :
       /\ Deleted(loop, p) \in Loop
       /\ Deleted(loop, p).pc = "forget" /\ Deleted(loop, p).path = p
  /\ \A loop \in Loop : Forgotten(loop) \in Loop /\ Forgotten(loop).pc = "remove"
  BY DEF Loop, NoRemoval, Removing, Resetting, Deleted, Forgotten

\* The scan queues paths.
LEMMA ScanTypes ==
  ASSUME NEW S \in SUBSET Paths
  PROVE  Orders(S) \subseteq Seq(Paths)
<1>1. IsFiniteSet(S)
  BY CollectionAssumption, FS_Subset DEF CollectionAssumption
<1>2. Cardinality(S) \in Nat
  BY <1>1, FS_CardinalityType
<1>3. [1 .. Cardinality(S) -> S] \subseteq Seq(S)
  BY <1>2
<1>4. QED
  BY <1>3 DEF Orders

\* Spending keeps the type of the budget.
LEMMA SpendTypes ==
  ASSUME budget \in [Resources -> Nat], NEW r \in Resources, Spend(r)
  PROVE  budget' \in [Resources -> Nat]
  BY DEF Spend

\* A busy worker goes on with its path.
LEMMA TaskTypes ==
  ASSUME task \in [pc : TaskPcs, path : Paths] \cup {Idle}, task.pc # "idle"
  PROVE  /\ task \in [pc : TaskPcs, path : Paths]
         /\ \A pc \in TaskPcs :
              /\ [task EXCEPT !.pc = pc] \in [pc : TaskPcs, path : Paths]
              /\ [task EXCEPT !.pc = pc].pc = pc
              /\ [task EXCEPT !.pc = pc].path = task.path
  BY DEF Idle

\* Initially every variable has its type.
LEMMA InitTypes == Init => TypeOK
<1> SUFFICES ASSUME Init PROVE TypeOK
  OBVIOUS
<1>1. documents \subseteq Paths /\ tracked \subseteq Paths
  <2>1. CASE layout = "old"
    BY <2>1 DEF Init
  <2>2. CASE layout # "old"
    BY <2>2 DEF Init
  <2>3. QED
    BY <2>1, <2>2
<1>2. queue \in Seq(Paths)
  BY EmptySeq DEF Init
<1>3. removal \in Loop /\ operator \in Loop /\ removal.pc = "idle" /\ operator.pc = "idle"
  BY LoopTypes DEF Init
<1>4. budget \in [Resources -> Nat]
  BY CollectionAssumption DEF Init, CollectionAssumption
<1>5. QED
  BY <1>1, <1>2, <1>3, <1>4 DEF Init, TypeOK

\* The watcher's start keeps the types.
LEMMA MainTypes ==
  ASSUME TypeOK, MainStep PROVE TypeOK'
<1> USE LoopTypes DEF TypeOK, WatcherFrame, user, process, collection, history
<1>1. CASE Start
  BY <1>1 DEF Start
<1>2. CASE \E p \in Paths : CleanupDelete(p)
  BY <1>2 DEF CleanupDelete, DeletePoints
<1>3. CASE CleanupForget
  BY <1>3 DEF CleanupForget, Forget
<1>4. CASE CleanupRaises
  BY <1>4, EmptySeq DEF CleanupRaises, Die, HalfRemoved
<1>5. CASE InitialScan
  <2>1. queue' \in Seq(Paths)
    BY <1>5, ScanTypes DEF InitialScan
  <2>2. QED
    BY <1>5, <2>1 DEF InitialScan
<1>6. QED
  BY <1>1, <1>2, <1>3, <1>4, <1>5 DEF MainStep

\* The worker keeps the types.
LEMMA WorkerTypes ==
  ASSUME TypeOK, WorkerStep PROVE TypeOK'
<1> USE DEF TypeOK, WorkerFrame, WatcherFrame, user, collection, history, GoTo
<1>1. CASE TakePath
  <2>1. Head(queue) \in Paths /\ Tail(queue) \in Seq(Paths)
    BY <1>1 DEF TakePath
  <2>2. QED
    BY <1>1, <2>1 DEF TakePath, TaskPcs
<1>2. CASE CheckCollection
  BY <1>2 DEF CheckCollection, TaskPcs, Idle
<1>3. CASE CreateCollection
  <2>1. task' \in [pc : TaskPcs, path : Paths]
    BY <1>3, TaskTypes DEF CreateCollection, TaskPcs, Fields
  <2>2. QED
    BY <1>3, <2>1 DEF CreateCollection
<1>4. CASE CreatePayloadIndex
  <2>1. task' \in [pc : TaskPcs, path : Paths]
    BY <1>4, TaskTypes DEF CreatePayloadIndex, TaskPcs, Fields
  <2>2. ensured' \in BOOLEAN
    BY <1>4 DEF CreatePayloadIndex
  <2>3. QED
    BY <1>4, <2>1, <2>2 DEF CreatePayloadIndex
<1>5. CASE Upsert
  BY <1>5 DEF Upsert, TaskPcs, Idle
<1>6. CASE Record
  BY <1>6 DEF Record, Idle
<1>7. QED
  BY <1>1, <1>2, <1>3, <1>4, <1>5, <1>6 DEF WorkerStep

\* The operator's commands keep the types.
LEMMA OperatorTypes ==
  ASSUME TypeOK, OperatorStep PROVE TypeOK'
<1> USE LoopTypes DEF TypeOK, user, process, collection, history
<1>1. CASE Stop
  BY <1>1, SpendTypes, EmptySeq DEF Stop, Die, HalfRemoved, Resources
<1>2. CASE Up
  BY <1>2 DEF Up
<1>3. CASE ResetCollection \/ ResetVectorsOnly
  BY <1>3, SpendTypes DEF ResetCollection, ResetVectorsOnly, DropCollection, Command, Resources
<1>4. CASE ClearHashes
  BY <1>4 DEF ClearHashes
<1>5. CASE PurgeIgnored
  BY <1>5, SpendTypes DEF PurgeIgnored, Command, Resources
<1>6. CASE CleanupStale
  BY <1>6, SpendTypes DEF CleanupStale, Command, Resources
<1>7. CASE \E p \in Paths : CommandDelete(p)
  BY <1>7 DEF CommandDelete, DeletePoints
<1>8. CASE CommandForget
  BY <1>8 DEF CommandForget, Forget
<1>9. CASE CommandEnds
  BY <1>9 DEF CommandEnds
<1>10. QED
  BY <1>1, <1>2, <1>3, <1>4, <1>5, <1>6, <1>7, <1>8, <1>9 DEF OperatorStep

\* The user's changes keep the types.
LEMMA UserTypes ==
  ASSUME TypeOK, UserStep PROVE TypeOK'
<1> USE DEF TypeOK, user, process, collection, history
<1>1. CASE ChangeConfig
  BY <1>1, SpendTypes DEF ChangeConfig, Resources
<1>2. CASE \E p \in Paths : ChangeFile(p)
  BY <1>2, SpendTypes DEF ChangeFile, Resources
<1>3. CASE \E p \in Paths : Notice(p)
  BY <1>3 DEF Notice, WatcherFrame
<1>4. QED
  BY <1>1, <1>2, <1>3 DEF UserStep

\* Failures keep the types.
LEMMA FailureTypes ==
  ASSUME TypeOK, Crash \/ WorkerFails \/ CommandFails PROVE TypeOK'
<1> USE LoopTypes DEF TypeOK, user, process, collection, history
<1>1. CASE Crash
  BY <1>1, SpendTypes, EmptySeq DEF Crash, Die, HalfRemoved, Resources
<1>2. CASE WorkerFails
  <2>1. budget' \in [Resources -> Nat]
    BY <1>2, SpendTypes DEF WorkerFails, Resources
  <2>2. layout' \in {"missing", "old", "hybrid"} /\ payload' \subseteq Fields
        /\ documents' \subseteq Paths
    BY <1>2 DEF WorkerFails, Idle
  <2>3. QED
    BY <1>2, <2>1, <2>2 DEF WorkerFails
<1>3. CASE CommandFails
  BY <1>3, SpendTypes DEF CommandFails, HalfRemoved, Resources
<1>4. QED
  BY <1>1, <1>2, <1>3

\* Every step keeps the types.
LEMMA StepTypes ==
  ASSUME TypeOK, [Next]_vars PROVE TypeOK'
<1>1. CASE UNCHANGED vars
  BY <1>1 DEF TypeOK, vars, collection, user, process, history
<1>2. QED
  BY <1>1, MainTypes, WorkerTypes, OperatorTypes, UserTypes, FailureTypes DEF Next

\* Type correctness.
THEOREM TypeCorrect == Spec => []TypeOK
<1>1. TypeOK /\ [Next]_vars => TypeOK'
  BY StepTypes
<1>2. QED
  BY <1>1, InitTypes, PTL DEF Spec

(***************************************************************************)
(* What is tracked is searchable.                                          *)
(***************************************************************************)
\* Initially the collection and the processes fit together.
LEMMA InitCollection == Init => CollectionInv
  BY LoopTypes DEF Init, CollectionInv, TrackedIsSearchable, BeingForgotten, Idle, Fields

\* The watcher's start keeps the invariant: what cleanup_stale takes from the
\* collection is being forgotten.
LEMMA MainCollection ==
  ASSUME TypeOK, CollectionInv, MainStep PROVE CollectionInv'
<1> USE LoopTypes
    DEF CollectionInv, TrackedIsSearchable, BeingForgotten, HalfRemoved, Publishing,
        WatcherFrame, user, process, collection, history
<1>1. CASE Start
  BY <1>1 DEF Start, TypeOK
<1>2. CASE \E p \in Paths : CleanupDelete(p)
  BY <1>2 DEF CleanupDelete, DeletePoints, TypeOK
<1>3. CASE CleanupForget
  BY <1>3 DEF CleanupForget, Forget, TypeOK
<1>4. CASE CleanupRaises
  BY <1>4 DEF CleanupRaises, Die, Idle, Fields
<1>5. CASE InitialScan
  BY <1>5 DEF InitialScan, Idle, Fields
<1>6. QED
  BY <1>1, <1>2, <1>3, <1>4, <1>5 DEF MainStep

\* The worker keeps the invariant: it creates a collection only where none is, and
\* records a path whose points it wrote.
LEMMA WorkerCollection ==
  ASSUME TypeOK, CollectionInv, WorkerStep PROVE CollectionInv'
<1> USE DEF CollectionInv, TrackedIsSearchable, BeingForgotten, HalfRemoved,
        WorkerFrame, WatcherFrame, user, collection, history, GoTo
<1>0. task \in [pc : TaskPcs, path : Paths] \cup {Idle}
  BY DEF TypeOK
<1>1. CASE TakePath
  BY <1>1 DEF TakePath, Idle, Fields
<1>2. CASE CheckCollection
  <2>1. \/ layout = "missing" /\ task' = [task EXCEPT !.pc = "create"]
        \/ layout = "old" /\ task' = Idle
        \/ layout = "hybrid" /\ task' = [task EXCEPT !.pc = "upsert"]
    BY <1>2 DEF CheckCollection, TypeOK
  <2>2. task.pc = "exists" /\ ensured' = (layout = "hybrid") /\ phase = "serving"
    BY <1>2 DEF CheckCollection, Idle, TypeOK
  <2>3. task'.pc \in {"create", "idle", "upsert"}
    BY <1>0, <2>1, <2>2, TaskTypes DEF Idle, TaskPcs
  <2>4. /\ task'.pc = "create" => layout = "missing"
        /\ task'.pc = "upsert" => layout = "hybrid"
    BY <1>0, <2>1, <2>2, TaskTypes DEF Idle, TaskPcs
  <2>5. QED
    BY <1>2, <2>2, <2>3, <2>4 DEF CheckCollection, Fields
<1>3. CASE CreateCollection
  BY <1>3, <1>0, TaskTypes DEF CreateCollection, Idle, Fields, TaskPcs
<1>4. CASE CreatePayloadIndex
  BY <1>4, <1>0, TaskTypes DEF CreatePayloadIndex, Idle, Fields, TaskPcs
<1>5. CASE Upsert
  BY <1>5, <1>0, TaskTypes DEF Upsert, Idle, Fields, TaskPcs
<1>6. CASE Record
  BY <1>6, <1>0, TaskTypes DEF Record, Idle, Fields
<1>7. QED
  BY <1>1, <1>2, <1>3, <1>4, <1>5, <1>6 DEF WorkerStep

\* The commands keep the invariant: a reset meets no watcher, and a purge marks what
\* the worker is about to record.
LEMMA OperatorCollection ==
  ASSUME TypeOK, CollectionInv, OperatorStep PROVE CollectionInv'
<1> USE LoopTypes
    DEF CollectionInv, TrackedIsSearchable, BeingForgotten, HalfRemoved, Publishing,
        user, process, collection, history
<1>1. CASE Stop
  BY <1>1 DEF Stop, Die, Idle, Fields
<1>2. CASE Up
  BY <1>2 DEF Up
<1>3. CASE ResetCollection \/ ResetVectorsOnly
  BY <1>3 DEF ResetCollection, ResetVectorsOnly, DropCollection, Command, Idle, Fields
<1>4. CASE ClearHashes
  BY <1>4 DEF ClearHashes, Idle, Fields
<1>5. CASE PurgeIgnored \/ CleanupStale
  <2>1. PICK victims \in SUBSET tracked : Command(Removing(victims))
    BY <1>5 DEF PurgeIgnored, CleanupStale
  <2>2. operator.pc = "idle" /\ operator'.pc = "remove"
    BY <2>1 DEF Command, TypeOK
  <2>3. UNCHANGED <<collection, tracked, user, process, history>>
    BY <1>5 DEF PurgeIgnored, CleanupStale
  <2>4. QED
    BY <2>2, <2>3
<1>6. CASE \E p \in Paths : CommandDelete(p)
  BY <1>6 DEF CommandDelete, DeletePoints, TypeOK
<1>7. CASE CommandForget
  BY <1>7 DEF CommandForget, Forget, TypeOK
<1>8. CASE CommandEnds
  BY <1>8 DEF CommandEnds
<1>9. QED
  BY <1>1, <1>2, <1>3, <1>4, <1>5, <1>6, <1>7, <1>8 DEF OperatorStep

\* The user does not touch what the invariant is about.
LEMMA UserCollection ==
  ASSUME TypeOK, CollectionInv, UserStep PROVE CollectionInv'
  BY DEF CollectionInv, TrackedIsSearchable, BeingForgotten, HalfRemoved,
         UserStep, ChangeConfig, ChangeFile, Notice, WatcherFrame, user, process,
         collection, history

\* Failures keep the invariant: what they leave half removed is suspect.
LEMMA FailureCollection ==
  ASSUME TypeOK, CollectionInv, Crash \/ WorkerFails \/ CommandFails
  PROVE  CollectionInv'
<1> USE LoopTypes
    DEF CollectionInv, TrackedIsSearchable, BeingForgotten, HalfRemoved,
        user, process, collection, history
<1>1. CASE Crash
  BY <1>1 DEF Crash, Die, Idle, Fields
<1>2. CASE WorkerFails
  BY <1>2 DEF WorkerFails, Idle, Fields
<1>3. CASE CommandFails
  BY <1>3 DEF CommandFails
<1>4. QED
  BY <1>1, <1>2, <1>3

\* Every step keeps the invariant.
LEMMA StepCollection ==
  ASSUME TypeOK, CollectionInv, [Next]_vars PROVE CollectionInv'
<1>1. CASE UNCHANGED vars
  BY <1>1 DEF CollectionInv, TrackedIsSearchable, BeingForgotten, HalfRemoved, vars,
              collection, user, process, history
<1>2. QED
  BY <1>1, MainCollection, WorkerCollection, OperatorCollection, UserCollection,
     FailureCollection DEF Next

\* The processes fit the state of the collection.
THEOREM CollectionInvariant == Spec => []CollectionInv
<1>1. TypeOK /\ CollectionInv /\ [Next]_vars => CollectionInv'
  BY StepCollection
<1>2. QED
  BY <1>1, InitCollection, TypeCorrect, PTL DEF Spec

\* No file with a fingerprint is missing from the collection, across resets, purges
\* and restarts.
THEOREM TrackedStaysSearchable == Spec => []TrackedIsSearchable
<1>1. CollectionInv => TrackedIsSearchable
  BY DEF CollectionInv
<1>2. QED
  BY <1>1, CollectionInvariant, PTL

(***************************************************************************)
(* Payload indexes and the old layout.                                     *)
(***************************************************************************)
\* The worker keeps the payload invariant: no points come before the last index.
LEMMA WorkerPayload ==
  ASSUME TypeOK, CollectionInv, PayloadInv, WorkerStep PROVE PayloadInv'
<1> USE DEF PayloadInv, WorkerFrame, WatcherFrame, user, collection, history, GoTo
<1>0. task \in [pc : TaskPcs, path : Paths] \cup {Idle}
  BY DEF TypeOK
<1>1. CASE TakePath
  BY <1>1 DEF TakePath, Idle, Fields
<1>2. CASE CheckCollection
  <2>1. task.pc = "exists" /\ task'.pc \in {"create", "idle", "upsert"}
    BY <1>2, <1>0, TaskTypes DEF CheckCollection, Idle, TaskPcs, TypeOK
  <2>2. QED
    BY <1>2, <2>1 DEF CheckCollection, Fields
<1>3. CASE CreateCollection
  BY <1>3, <1>0, TaskTypes DEF CreateCollection, Idle, Fields, TaskPcs
<1>4. CASE CreatePayloadIndex
  BY <1>4, <1>0, TaskTypes DEF CreatePayloadIndex, Idle, Fields, TaskPcs, TypeOK
<1>5. CASE Upsert
  BY <1>5, <1>0, TaskTypes DEF Upsert, Idle, Fields, TaskPcs
<1>6. CASE Record
  BY <1>6, <1>0, TaskTypes DEF Record, Idle, Fields
<1>7. QED
  BY <1>1, <1>2, <1>3, <1>4, <1>5, <1>6 DEF WorkerStep

\* Every other step keeps it: a creation that is cut short is marked unfinished.
LEMMA StepPayload ==
  ASSUME TypeOK, CollectionInv, PayloadInv, [Next]_vars PROVE PayloadInv'
<1> USE DEF PayloadInv, user, process, collection, history
<1>1. CASE MainStep
  BY <1>1 DEF MainStep, Start, CleanupDelete, DeletePoints, CleanupForget, Forget,
              CleanupRaises, Die, InitialScan, WatcherFrame, Idle, Fields
<1>2. CASE Stop \/ Crash
  <2>1. task'.pc = "idle" /\ UNCHANGED collection
    BY <1>2 DEF Stop, Crash, Die, Idle
  <2>2. unfinished \in BOOLEAN /\ unfinished' = (unfinished \/ task.pc \in Fields)
    BY <1>2 DEF Stop, Crash, Die, TypeOK
  <2>3. QED
    BY <2>1, <2>2 DEF Fields
<1>3. CASE ResetCollection \/ ResetVectorsOnly
  BY <1>3 DEF ResetCollection, ResetVectorsOnly, DropCollection, CollectionInv, Idle, Fields
<1>4. CASE \/ Up \/ ClearHashes \/ PurgeIgnored \/ CleanupStale \/ CommandForget
           \/ CommandEnds \/ CommandFails \/ \E p \in Paths : CommandDelete(p)
  BY <1>4 DEF Up, ClearHashes, PurgeIgnored, CleanupStale, CommandForget, Forget,
              CommandEnds, CommandFails, CommandDelete, DeletePoints
<1>5. CASE UserStep
  BY <1>5 DEF UserStep, ChangeConfig, ChangeFile, Notice, WatcherFrame
<1>6. CASE WorkerFails
  BY <1>6 DEF WorkerFails, Idle, Fields
<1>7. CASE UNCHANGED vars
  BY <1>7 DEF vars
<1>8. QED
  BY <1>1, <1>2, <1>3, <1>4, <1>5, <1>6, <1>7, WorkerPayload DEF Next, OperatorStep

\* Points come after both payload indexes, unless the creation was cut short.
THEOREM PointsAreIndexed == Spec => []PointsHavePayloadIndexes
<1>1. Init => PayloadInv
  BY DEF Init, PayloadInv, Idle, Fields
<1>2. TypeOK /\ CollectionInv /\ PayloadInv /\ [Next]_vars => PayloadInv'
  BY StepPayload
<1>3. PayloadInv => PointsHavePayloadIndexes
  BY DEF PayloadInv, PointsHavePayloadIndexes
<1>4. QED
  BY <1>1, <1>2, <1>3, TypeCorrect, CollectionInvariant, PTL DEF Spec

\* A collection of the old layout goes only with a reset, and nothing is added to it.
THEOREM OldLayoutStays == Spec => OldLayoutKept
<1> DEFINE Kept == \/ layout' = "old" /\ payload' = payload /\ documents' \subseteq documents
                   \/ stopped /\ layout' = "missing"
<1>1. ASSUME TypeOK, CollectionInv, [Next]_vars, layout = "old" PROVE Kept
  <2> USE <1>1 DEF user, process, collection, history
  <2>1. CASE MainStep
    BY <2>1 DEF MainStep, Start, CleanupDelete, DeletePoints, CleanupForget, Forget,
                CleanupRaises, InitialScan
  <2>2. CASE WorkerStep
    BY <2>2 DEF WorkerStep, TakePath, CheckCollection, CreateCollection, CreatePayloadIndex,
                Upsert, Record, CollectionInv
  <2>3. CASE OperatorStep
    BY <2>3 DEF OperatorStep, Stop, Die, Up, ResetCollection, ResetVectorsOnly, DropCollection,
                ClearHashes, PurgeIgnored, CleanupStale, CommandForget, Forget, CommandEnds,
                CommandDelete, DeletePoints
  <2>4. CASE UserStep
    BY <2>4 DEF UserStep, ChangeConfig, ChangeFile, Notice
  <2>5. CASE Crash \/ WorkerFails \/ CommandFails
    BY <2>5 DEF Crash, Die, WorkerFails, CommandFails, CollectionInv, Idle, Fields
  <2>6. CASE UNCHANGED vars
    BY <2>6 DEF vars
  <2>7. QED
    BY <2>1, <2>2, <2>3, <2>4, <2>5, <2>6 DEF Next
<1>2. TypeOK /\ CollectionInv /\ [Next]_vars => [layout = "old" => Kept]_vars
  BY <1>1
<1>3. QED
  BY <1>2, TypeCorrect, CollectionInvariant, PTL DEF Spec, OldLayoutKept

(***************************************************************************)
(***************************************************************************)
(* The chunks.                                                             *)
(***************************************************************************)
(***************************************************************************)

(***************************************************************************)
(* Induction and recursion over the turns of a loop.  What holds of a turn *)
(* is given as a set, so that the facts can be instantiated.               *)
(***************************************************************************)
Below == {p \in Nat \X Nat : p[1] < p[2]}

\* A set of naturals that is not empty has a least member.
LEMMA HasLeast ==
  ASSUME NEW T \in SUBSET Nat, T # {}
  PROVE  \E i \in T : \A j \in T : i <= j
<1>1. OpToRel(<, Nat) = Below
  BY DEF OpToRel, Below
<1>2. IsWellFoundedOn(Below, Nat)
  BY <1>1, NatLessThanWellFounded
<1>3. PICK i \in T : \A j \in T : <<j, i>> \notin Below
  BY <1>2, WFMin
<1>4. ASSUME NEW j \in T PROVE i <= j
  <2>1. i \in Nat /\ j \in Nat
    OBVIOUS
  <2>2. j < i => <<j, i>> \in Below
    BY <2>1 DEF Below
  <2> QED
    BY <1>3, <2>1, <2>2
<1> QED
  BY <1>4

\* What holds of 0 and goes from each number to the next holds up to n.
LEMMA InductTo ==
  ASSUME NEW n \in Nat, NEW S, 0 \in S, \A k \in 1 .. n : k - 1 \in S => k \in S
  PROVE  \A k \in 0 .. n : k \in S
<1> DEFINE T == {k \in 0 .. n : k \notin S}
<1> SUFFICES ASSUME T # {} PROVE FALSE
  OBVIOUS
<1>1. T \in SUBSET Nat
  OBVIOUS
<1> HIDE DEF T
<1>2. PICK i \in T : \A j \in T : i <= j
  BY <1>1, HasLeast
<1> USE DEF T
<1>3. i \in 0 .. n /\ i \notin S /\ i # 0
  OBVIOUS
<1>4. i \in 1 .. n /\ i - 1 \in 0 .. n /\ ~(i <= i - 1)
  BY <1>3
<1>5. i - 1 \notin T
  BY <1>2, <1>4
<1> QED
  BY <1>3, <1>4, <1>5

\* A set of numbers up to n that is not empty has a greatest member.
LEMMA HasGreatest ==
  ASSUME NEW n \in Nat, NEW T \in SUBSET (0 .. n), T # {}
  PROVE  \E i \in T : \A j \in T : i >= j
<1> DEFINE R == {n - i : i \in T}
<1>1. R \in SUBSET Nat /\ R # {}
  <2>1. \A i \in T : i \in 0 .. n /\ n - i \in Nat
    OBVIOUS
  <2> QED
    BY <2>1
<1> HIDE DEF R
<1>2. PICK r \in R : \A j \in R : r <= j
  BY <1>1, HasLeast
<1>3. PICK i \in T : r = n - i
  BY <1>2 DEF R
<1>4. \A j \in T : n - j \in R
  BY DEF R
<1>5. \A j \in T : i >= j
  BY <1>2, <1>3, <1>4
<1> QED
  BY <1>5

LengthRun(f, s) ==
  /\ f[0] = 0
  /\ \A k \in 1 .. Len(s) : f[k] = f[k - 1] + Width(s[k].kind)
  /\ Length(s) = f[Len(s)]

\* Length is the sum that its loop makes.
LEMMA LengthLoop ==
  ASSUME NEW s, Len(s) \in Nat
  PROVE  \E f : LengthRun(f, s)
<1> DEFINE n == Len(s)
           base == 0
           Turn(k, v) == v + Width(s[k].kind)
           Def(g, m) == [k \in 0 .. m |-> IF k = 0 THEN base ELSE Turn(k, g[k - 1])]
           h == CHOOSE g : g = Def(g, n)
           S == {m \in 0 .. n : \E g : g = Def(g, m)}
<1>1. Length(s) = h[n]
  BY DEF Length
<1>n. n \in Nat
  OBVIOUS
<1> HIDE DEF n, base, Turn
<1>2. 0 \in S
  <2>1. [k \in 0 .. 0 |-> base] = Def([k \in 0 .. 0 |-> base], 0)
    OBVIOUS
  <2> HIDE DEF Def
  <2> QED
    BY <1>n, <2>1
<1>3. ASSUME NEW m \in 1 .. n, m - 1 \in S PROVE m \in S
  <2>1. PICK f : f = Def(f, m - 1)
    BY <1>3
  <2> DEFINE g == [k \in 0 .. m |-> IF k = m THEN Turn(m, f[m - 1]) ELSE f[k]]
  <2>2. \A k \in 0 .. m - 1 : k # m /\ k \in 0 .. m
    BY <1>n
  <2>3. \A k \in 1 .. m : k - 1 \in 0 .. m - 1 /\ k # 0 /\ (k = m \/ k \in 0 .. m - 1)
    BY <1>n
  <2>4. m # 0 /\ m \in 0 .. m /\ 0 \in 0 .. m - 1 /\ m \in 0 .. n
    BY <1>n
  <2>5. \A k \in 0 .. m - 1 : g[k] = f[k]
    BY <2>2
  <2>6. g[m] = Turn(m, g[m - 1])
    BY <2>3, <2>4, <2>5
  <2>7. \A k \in 0 .. m - 1 : f[k] = IF k = 0 THEN base ELSE Turn(k, f[k - 1])
    BY <2>1
  <2>8. ASSUME NEW k \in 0 .. m PROVE g[k] = IF k = 0 THEN base ELSE Turn(k, g[k - 1])
    <3>1. k \in 0 .. m - 1 => g[k - 1] = f[k - 1] \/ k = 0
      BY <1>n, <2>3, <2>5
    <3>2. k = m \/ k \in 0 .. m - 1
      BY <1>n
    <3> HIDE DEF g
    <3> QED
      BY <2>4, <2>5, <2>6, <2>7, <3>1, <3>2
  <2>9. g = Def(g, m)
    BY <2>8
  <2> HIDE DEF g, Def
  <2> QED
    BY <2>4, <2>9
<1>4. n \in S
  <2> HIDE DEF S
  <2>1. \A k \in 1 .. n : k - 1 \in S => k \in S
    BY <1>3
  <2>2. \A k \in 0 .. n : k \in S
    BY <1>n, <1>2, <2>1, InductTo
  <2> QED
    BY <1>n, <2>2
<1>5. h = Def(h, n)
  BY <1>4
<1> HIDE DEF h
<1>6. \A k \in 0 .. n : h[k] = IF k = 0 THEN base ELSE Turn(k, h[k - 1])
  BY <1>5
<1>7. h[0] = base /\ \A k \in 1 .. n : h[k] = Turn(k, h[k - 1])
  BY <1>n, <1>6
<1> QED
  BY <1>1, <1>7 DEF n, base, Turn, LengthRun

JoinRun(f, parts, kind) ==
  /\ f[0] = <<>>
  /\ \A k \in 1 .. Len(parts) : f[k] = JoinPart(parts, kind, k, f[k - 1])
  /\ Join(parts, kind) = f[Len(parts)]

\* Join is the text that its loop makes.
LEMMA JoinLoop ==
  ASSUME NEW parts, Len(parts) \in Nat, NEW kind
  PROVE  \E f : JoinRun(f, parts, kind)
<1> DEFINE n == Len(parts)
           base == <<>>
           Turn(k, v) == JoinPart(parts, kind, k, v)
           Def(g, m) == [k \in 0 .. m |-> IF k = 0 THEN base ELSE Turn(k, g[k - 1])]
           h == CHOOSE g : g = Def(g, n)
           S == {m \in 0 .. n : \E g : g = Def(g, m)}
<1>1. Join(parts, kind) = h[n]
  BY DEF Join
<1>n. n \in Nat
  OBVIOUS
<1> HIDE DEF n, base, Turn
<1>2. 0 \in S
  <2>1. [k \in 0 .. 0 |-> base] = Def([k \in 0 .. 0 |-> base], 0)
    OBVIOUS
  <2> HIDE DEF Def
  <2> QED
    BY <1>n, <2>1
<1>3. ASSUME NEW m \in 1 .. n, m - 1 \in S PROVE m \in S
  <2>1. PICK f : f = Def(f, m - 1)
    BY <1>3
  <2> DEFINE g == [k \in 0 .. m |-> IF k = m THEN Turn(m, f[m - 1]) ELSE f[k]]
  <2>2. \A k \in 0 .. m - 1 : k # m /\ k \in 0 .. m
    BY <1>n
  <2>3. \A k \in 1 .. m : k - 1 \in 0 .. m - 1 /\ k # 0 /\ (k = m \/ k \in 0 .. m - 1)
    BY <1>n
  <2>4. m # 0 /\ m \in 0 .. m /\ 0 \in 0 .. m - 1 /\ m \in 0 .. n
    BY <1>n
  <2>5. \A k \in 0 .. m - 1 : g[k] = f[k]
    BY <2>2
  <2>6. g[m] = Turn(m, g[m - 1])
    BY <2>3, <2>4, <2>5
  <2>7. \A k \in 0 .. m - 1 : f[k] = IF k = 0 THEN base ELSE Turn(k, f[k - 1])
    BY <2>1
  <2>8. ASSUME NEW k \in 0 .. m PROVE g[k] = IF k = 0 THEN base ELSE Turn(k, g[k - 1])
    <3>1. k \in 0 .. m - 1 => g[k - 1] = f[k - 1] \/ k = 0
      BY <1>n, <2>3, <2>5
    <3>2. k = m \/ k \in 0 .. m - 1
      BY <1>n
    <3> HIDE DEF g
    <3> QED
      BY <2>4, <2>5, <2>6, <2>7, <3>1, <3>2
  <2>9. g = Def(g, m)
    BY <2>8
  <2> HIDE DEF g, Def
  <2> QED
    BY <2>4, <2>9
<1>4. n \in S
  <2> HIDE DEF S
  <2>1. \A k \in 1 .. n : k - 1 \in S => k \in S
    BY <1>3
  <2>2. \A k \in 0 .. n : k \in S
    BY <1>n, <1>2, <2>1, InductTo
  <2> QED
    BY <1>n, <2>2
<1>5. h = Def(h, n)
  BY <1>4
<1> HIDE DEF h
<1>6. \A k \in 0 .. n : h[k] = IF k = 0 THEN base ELSE Turn(k, h[k - 1])
  BY <1>5
<1>7. h[0] = base /\ \A k \in 1 .. n : h[k] = Turn(k, h[k - 1])
  BY <1>n, <1>6
<1> QED
  BY <1>1, <1>7 DEF n, base, Turn, JoinRun

ConcatRun(f, lists) ==
  /\ f[0] = <<>>
  /\ \A k \in 1 .. Len(lists) : f[k] = f[k - 1] \o lists[k]
  /\ Concat(lists) = f[Len(lists)]

\* Concat is the list that its loop makes.
LEMMA ConcatLoop ==
  ASSUME NEW lists, Len(lists) \in Nat
  PROVE  \E f : ConcatRun(f, lists)
<1> DEFINE n == Len(lists)
           base == <<>>
           Turn(k, v) == v \o lists[k]
           Def(g, m) == [k \in 0 .. m |-> IF k = 0 THEN base ELSE Turn(k, g[k - 1])]
           h == CHOOSE g : g = Def(g, n)
           S == {m \in 0 .. n : \E g : g = Def(g, m)}
<1>1. Concat(lists) = h[n]
  BY DEF Concat
<1>n. n \in Nat
  OBVIOUS
<1> HIDE DEF n, base, Turn
<1>2. 0 \in S
  <2>1. [k \in 0 .. 0 |-> base] = Def([k \in 0 .. 0 |-> base], 0)
    OBVIOUS
  <2> HIDE DEF Def
  <2> QED
    BY <1>n, <2>1
<1>3. ASSUME NEW m \in 1 .. n, m - 1 \in S PROVE m \in S
  <2>1. PICK f : f = Def(f, m - 1)
    BY <1>3
  <2> DEFINE g == [k \in 0 .. m |-> IF k = m THEN Turn(m, f[m - 1]) ELSE f[k]]
  <2>2. \A k \in 0 .. m - 1 : k # m /\ k \in 0 .. m
    BY <1>n
  <2>3. \A k \in 1 .. m : k - 1 \in 0 .. m - 1 /\ k # 0 /\ (k = m \/ k \in 0 .. m - 1)
    BY <1>n
  <2>4. m # 0 /\ m \in 0 .. m /\ 0 \in 0 .. m - 1 /\ m \in 0 .. n
    BY <1>n
  <2>5. \A k \in 0 .. m - 1 : g[k] = f[k]
    BY <2>2
  <2>6. g[m] = Turn(m, g[m - 1])
    BY <2>3, <2>4, <2>5
  <2>7. \A k \in 0 .. m - 1 : f[k] = IF k = 0 THEN base ELSE Turn(k, f[k - 1])
    BY <2>1
  <2>8. ASSUME NEW k \in 0 .. m PROVE g[k] = IF k = 0 THEN base ELSE Turn(k, g[k - 1])
    <3>1. k \in 0 .. m - 1 => g[k - 1] = f[k - 1] \/ k = 0
      BY <1>n, <2>3, <2>5
    <3>2. k = m \/ k \in 0 .. m - 1
      BY <1>n
    <3> HIDE DEF g
    <3> QED
      BY <2>4, <2>5, <2>6, <2>7, <3>1, <3>2
  <2>9. g = Def(g, m)
    BY <2>8
  <2> HIDE DEF g, Def
  <2> QED
    BY <2>4, <2>9
<1>4. n \in S
  <2> HIDE DEF S
  <2>1. \A k \in 1 .. n : k - 1 \in S => k \in S
    BY <1>3
  <2>2. \A k \in 0 .. n : k \in S
    BY <1>n, <1>2, <2>1, InductTo
  <2> QED
    BY <1>n, <2>2
<1>5. h = Def(h, n)
  BY <1>4
<1> HIDE DEF h
<1>6. \A k \in 0 .. n : h[k] = IF k = 0 THEN base ELSE Turn(k, h[k - 1])
  BY <1>5
<1>7. h[0] = base /\ \A k \in 1 .. n : h[k] = Turn(k, h[k - 1])
  BY <1>n, <1>6
<1> QED
  BY <1>1, <1>7 DEF n, base, Turn, ConcatRun

StrippedRun(f, texts) ==
  /\ f[0] = <<>>
  /\ \A k \in 1 .. Len(texts) : f[k] = KeepStripped(texts, k, f[k - 1])
  /\ Stripped(texts) = f[Len(texts)]

\* Stripped is the list that its loop makes.
LEMMA StrippedLoop ==
  ASSUME NEW texts, Len(texts) \in Nat
  PROVE  \E f : StrippedRun(f, texts)
<1> DEFINE n == Len(texts)
           base == <<>>
           Turn(k, v) == KeepStripped(texts, k, v)
           Def(g, m) == [k \in 0 .. m |-> IF k = 0 THEN base ELSE Turn(k, g[k - 1])]
           h == CHOOSE g : g = Def(g, n)
           S == {m \in 0 .. n : \E g : g = Def(g, m)}
<1>1. Stripped(texts) = h[n]
  BY DEF Stripped
<1>n. n \in Nat
  OBVIOUS
<1> HIDE DEF n, base, Turn
<1>2. 0 \in S
  <2>1. [k \in 0 .. 0 |-> base] = Def([k \in 0 .. 0 |-> base], 0)
    OBVIOUS
  <2> HIDE DEF Def
  <2> QED
    BY <1>n, <2>1
<1>3. ASSUME NEW m \in 1 .. n, m - 1 \in S PROVE m \in S
  <2>1. PICK f : f = Def(f, m - 1)
    BY <1>3
  <2> DEFINE g == [k \in 0 .. m |-> IF k = m THEN Turn(m, f[m - 1]) ELSE f[k]]
  <2>2. \A k \in 0 .. m - 1 : k # m /\ k \in 0 .. m
    BY <1>n
  <2>3. \A k \in 1 .. m : k - 1 \in 0 .. m - 1 /\ k # 0 /\ (k = m \/ k \in 0 .. m - 1)
    BY <1>n
  <2>4. m # 0 /\ m \in 0 .. m /\ 0 \in 0 .. m - 1 /\ m \in 0 .. n
    BY <1>n
  <2>5. \A k \in 0 .. m - 1 : g[k] = f[k]
    BY <2>2
  <2>6. g[m] = Turn(m, g[m - 1])
    BY <2>3, <2>4, <2>5
  <2>7. \A k \in 0 .. m - 1 : f[k] = IF k = 0 THEN base ELSE Turn(k, f[k - 1])
    BY <2>1
  <2>8. ASSUME NEW k \in 0 .. m PROVE g[k] = IF k = 0 THEN base ELSE Turn(k, g[k - 1])
    <3>1. k \in 0 .. m - 1 => g[k - 1] = f[k - 1] \/ k = 0
      BY <1>n, <2>3, <2>5
    <3>2. k = m \/ k \in 0 .. m - 1
      BY <1>n
    <3> HIDE DEF g
    <3> QED
      BY <2>4, <2>5, <2>6, <2>7, <3>1, <3>2
  <2>9. g = Def(g, m)
    BY <2>8
  <2> HIDE DEF g, Def
  <2> QED
    BY <2>4, <2>9
<1>4. n \in S
  <2> HIDE DEF S
  <2>1. \A k \in 1 .. n : k - 1 \in S => k \in S
    BY <1>3
  <2>2. \A k \in 0 .. n : k \in S
    BY <1>n, <1>2, <2>1, InductTo
  <2> QED
    BY <1>n, <2>2
<1>5. h = Def(h, n)
  BY <1>4
<1> HIDE DEF h
<1>6. \A k \in 0 .. n : h[k] = IF k = 0 THEN base ELSE Turn(k, h[k - 1])
  BY <1>5
<1>7. h[0] = base /\ \A k \in 1 .. n : h[k] = Turn(k, h[k - 1])
  BY <1>n, <1>6
<1> QED
  BY <1>1, <1>7 DEF n, base, Turn, StrippedRun

SpansRun(f, s, cuts) ==
  /\ f[0] = <<>>
  /\ \A k \in 1 .. Len(s) : f[k] = NextSpan(cuts, k, f[k - 1])
  /\ Spans(s, cuts) = f[Len(s)]

\* Spans is the list that its loop makes.
LEMMA SpansLoop ==
  ASSUME NEW s, Len(s) \in Nat, NEW cuts
  PROVE  \E f : SpansRun(f, s, cuts)
<1> DEFINE n == Len(s)
           base == <<>>
           Turn(k, v) == NextSpan(cuts, k, v)
           Def(g, m) == [k \in 0 .. m |-> IF k = 0 THEN base ELSE Turn(k, g[k - 1])]
           h == CHOOSE g : g = Def(g, n)
           S == {m \in 0 .. n : \E g : g = Def(g, m)}
<1>1. Spans(s, cuts) = h[n]
  BY DEF Spans
<1>n. n \in Nat
  OBVIOUS
<1> HIDE DEF n, base, Turn
<1>2. 0 \in S
  <2>1. [k \in 0 .. 0 |-> base] = Def([k \in 0 .. 0 |-> base], 0)
    OBVIOUS
  <2> HIDE DEF Def
  <2> QED
    BY <1>n, <2>1
<1>3. ASSUME NEW m \in 1 .. n, m - 1 \in S PROVE m \in S
  <2>1. PICK f : f = Def(f, m - 1)
    BY <1>3
  <2> DEFINE g == [k \in 0 .. m |-> IF k = m THEN Turn(m, f[m - 1]) ELSE f[k]]
  <2>2. \A k \in 0 .. m - 1 : k # m /\ k \in 0 .. m
    BY <1>n
  <2>3. \A k \in 1 .. m : k - 1 \in 0 .. m - 1 /\ k # 0 /\ (k = m \/ k \in 0 .. m - 1)
    BY <1>n
  <2>4. m # 0 /\ m \in 0 .. m /\ 0 \in 0 .. m - 1 /\ m \in 0 .. n
    BY <1>n
  <2>5. \A k \in 0 .. m - 1 : g[k] = f[k]
    BY <2>2
  <2>6. g[m] = Turn(m, g[m - 1])
    BY <2>3, <2>4, <2>5
  <2>7. \A k \in 0 .. m - 1 : f[k] = IF k = 0 THEN base ELSE Turn(k, f[k - 1])
    BY <2>1
  <2>8. ASSUME NEW k \in 0 .. m PROVE g[k] = IF k = 0 THEN base ELSE Turn(k, g[k - 1])
    <3>1. k \in 0 .. m - 1 => g[k - 1] = f[k - 1] \/ k = 0
      BY <1>n, <2>3, <2>5
    <3>2. k = m \/ k \in 0 .. m - 1
      BY <1>n
    <3> HIDE DEF g
    <3> QED
      BY <2>4, <2>5, <2>6, <2>7, <3>1, <3>2
  <2>9. g = Def(g, m)
    BY <2>8
  <2> HIDE DEF g, Def
  <2> QED
    BY <2>4, <2>9
<1>4. n \in S
  <2> HIDE DEF S
  <2>1. \A k \in 1 .. n : k - 1 \in S => k \in S
    BY <1>3
  <2>2. \A k \in 0 .. n : k \in S
    BY <1>n, <1>2, <2>1, InductTo
  <2> QED
    BY <1>n, <2>2
<1>5. h = Def(h, n)
  BY <1>4
<1> HIDE DEF h
<1>6. \A k \in 0 .. n : h[k] = IF k = 0 THEN base ELSE Turn(k, h[k - 1])
  BY <1>5
<1>7. h[0] = base /\ \A k \in 1 .. n : h[k] = Turn(k, h[k - 1])
  BY <1>n, <1>6
<1> QED
  BY <1>1, <1>7 DEF n, base, Turn, SpansRun

WindowsRun(f, splits, kind, overlap) ==
  /\ f[0] = [out |-> <<>>, first |-> 1]
  /\ \A k \in 1 .. Len(splits) : f[k] = AddSplit(splits, kind, overlap, k, f[k - 1])
  /\ Windows(splits, kind, overlap) =
       IF splits = <<>> THEN <<>> ELSE Append(f[Len(splits)].out, <<f[Len(splits)].first, Len(splits)>>)

\* Windows is what the loop of _merge_splits makes, and the window that is left.
LEMMA WindowsLoop ==
  ASSUME NEW splits, Len(splits) \in Nat, NEW kind, NEW overlap
  PROVE  \E f : WindowsRun(f, splits, kind, overlap)
<1> DEFINE n == Len(splits)
           base == [out |-> <<>>, first |-> 1]
           Turn(k, v) == AddSplit(splits, kind, overlap, k, v)
           Def(g, m) == [k \in 0 .. m |-> IF k = 0 THEN base ELSE Turn(k, g[k - 1])]
           h == CHOOSE g : g = Def(g, n)
           S == {m \in 0 .. n : \E g : g = Def(g, m)}
<1>1. Windows(splits, kind, overlap) =
       IF splits = <<>> THEN <<>> ELSE Append(h[n].out, <<h[n].first, n>>)
  BY DEF Windows
<1>n. n \in Nat
  OBVIOUS
<1> HIDE DEF n, base, Turn
<1>2. 0 \in S
  <2>1. [k \in 0 .. 0 |-> base] = Def([k \in 0 .. 0 |-> base], 0)
    OBVIOUS
  <2> HIDE DEF Def
  <2> QED
    BY <1>n, <2>1
<1>3. ASSUME NEW m \in 1 .. n, m - 1 \in S PROVE m \in S
  <2>1. PICK f : f = Def(f, m - 1)
    BY <1>3
  <2> DEFINE g == [k \in 0 .. m |-> IF k = m THEN Turn(m, f[m - 1]) ELSE f[k]]
  <2>2. \A k \in 0 .. m - 1 : k # m /\ k \in 0 .. m
    BY <1>n
  <2>3. \A k \in 1 .. m : k - 1 \in 0 .. m - 1 /\ k # 0 /\ (k = m \/ k \in 0 .. m - 1)
    BY <1>n
  <2>4. m # 0 /\ m \in 0 .. m /\ 0 \in 0 .. m - 1 /\ m \in 0 .. n
    BY <1>n
  <2>5. \A k \in 0 .. m - 1 : g[k] = f[k]
    BY <2>2
  <2>6. g[m] = Turn(m, g[m - 1])
    BY <2>3, <2>4, <2>5
  <2>7. \A k \in 0 .. m - 1 : f[k] = IF k = 0 THEN base ELSE Turn(k, f[k - 1])
    BY <2>1
  <2>8. ASSUME NEW k \in 0 .. m PROVE g[k] = IF k = 0 THEN base ELSE Turn(k, g[k - 1])
    <3>1. k \in 0 .. m - 1 => g[k - 1] = f[k - 1] \/ k = 0
      BY <1>n, <2>3, <2>5
    <3>2. k = m \/ k \in 0 .. m - 1
      BY <1>n
    <3> HIDE DEF g
    <3> QED
      BY <2>4, <2>5, <2>6, <2>7, <3>1, <3>2
  <2>9. g = Def(g, m)
    BY <2>8
  <2> HIDE DEF g, Def
  <2> QED
    BY <2>4, <2>9
<1>4. n \in S
  <2> HIDE DEF S
  <2>1. \A k \in 1 .. n : k - 1 \in S => k \in S
    BY <1>3
  <2>2. \A k \in 0 .. n : k \in S
    BY <1>n, <1>2, <2>1, InductTo
  <2> QED
    BY <1>n, <2>2
<1>5. h = Def(h, n)
  BY <1>4
<1> HIDE DEF h
<1>6. \A k \in 0 .. n : h[k] = IF k = 0 THEN base ELSE Turn(k, h[k - 1])
  BY <1>5
<1>7. h[0] = base /\ \A k \in 1 .. n : h[k] = Turn(k, h[k - 1])
  BY <1>n, <1>6
<1> QED
  BY <1>1, <1>7 DEF n, base, Turn, WindowsRun

CollectRun(f, parts, kind, finer) ==
  /\ f[0] = [out |-> <<>>, first |-> 1]
  /\ \A k \in 1 .. Len(parts) : f[k] = AddPart(parts, kind, finer, k, f[k - 1])
  /\ Collect(parts, kind, finer) =
       f[Len(parts)].out \o Good(parts, kind, f[Len(parts)].first, Len(parts))

\* Collect is what the loop of _recursive_split makes, and the short parts that are left.
LEMMA CollectLoop ==
  ASSUME NEW parts, Len(parts) \in Nat, NEW kind, NEW finer
  PROVE  \E f : CollectRun(f, parts, kind, finer)
<1> DEFINE n == Len(parts)
           base == [out |-> <<>>, first |-> 1]
           Turn(k, v) == AddPart(parts, kind, finer, k, v)
           Def(g, m) == [k \in 0 .. m |-> IF k = 0 THEN base ELSE Turn(k, g[k - 1])]
           h == CHOOSE g : g = Def(g, n)
           S == {m \in 0 .. n : \E g : g = Def(g, m)}
<1>1. Collect(parts, kind, finer) =
       h[n].out \o Good(parts, kind, h[n].first, n)
  BY DEF Collect
<1>n. n \in Nat
  OBVIOUS
<1> HIDE DEF n, base, Turn
<1>2. 0 \in S
  <2>1. [k \in 0 .. 0 |-> base] = Def([k \in 0 .. 0 |-> base], 0)
    OBVIOUS
  <2> HIDE DEF Def
  <2> QED
    BY <1>n, <2>1
<1>3. ASSUME NEW m \in 1 .. n, m - 1 \in S PROVE m \in S
  <2>1. PICK f : f = Def(f, m - 1)
    BY <1>3
  <2> DEFINE g == [k \in 0 .. m |-> IF k = m THEN Turn(m, f[m - 1]) ELSE f[k]]
  <2>2. \A k \in 0 .. m - 1 : k # m /\ k \in 0 .. m
    BY <1>n
  <2>3. \A k \in 1 .. m : k - 1 \in 0 .. m - 1 /\ k # 0 /\ (k = m \/ k \in 0 .. m - 1)
    BY <1>n
  <2>4. m # 0 /\ m \in 0 .. m /\ 0 \in 0 .. m - 1 /\ m \in 0 .. n
    BY <1>n
  <2>5. \A k \in 0 .. m - 1 : g[k] = f[k]
    BY <2>2
  <2>6. g[m] = Turn(m, g[m - 1])
    BY <2>3, <2>4, <2>5
  <2>7. \A k \in 0 .. m - 1 : f[k] = IF k = 0 THEN base ELSE Turn(k, f[k - 1])
    BY <2>1
  <2>8. ASSUME NEW k \in 0 .. m PROVE g[k] = IF k = 0 THEN base ELSE Turn(k, g[k - 1])
    <3>1. k \in 0 .. m - 1 => g[k - 1] = f[k - 1] \/ k = 0
      BY <1>n, <2>3, <2>5
    <3>2. k = m \/ k \in 0 .. m - 1
      BY <1>n
    <3> HIDE DEF g
    <3> QED
      BY <2>4, <2>5, <2>6, <2>7, <3>1, <3>2
  <2>9. g = Def(g, m)
    BY <2>8
  <2> HIDE DEF g, Def
  <2> QED
    BY <2>4, <2>9
<1>4. n \in S
  <2> HIDE DEF S
  <2>1. \A k \in 1 .. n : k - 1 \in S => k \in S
    BY <1>3
  <2>2. \A k \in 0 .. n : k \in S
    BY <1>n, <1>2, <2>1, InductTo
  <2> QED
    BY <1>n, <2>2
<1>5. h = Def(h, n)
  BY <1>4
<1> HIDE DEF h
<1>6. \A k \in 0 .. n : h[k] = IF k = 0 THEN base ELSE Turn(k, h[k - 1])
  BY <1>5
<1>7. h[0] = base /\ \A k \in 1 .. n : h[k] = Turn(k, h[k - 1])
  BY <1>n, <1>6
<1> QED
  BY <1>1, <1>7 DEF n, base, Turn, CollectRun

ParagraphsRun(f, s) ==
  /\ f[0] = <<<<1, 0>>>>
  /\ \A k \in 1 .. Len(s) : f[k] = NextParagraph(s, k, f[k - 1])
  /\ Paragraphs(s) =
       [i \in DOMAIN f[Len(s)] |-> SubSeq(s, f[Len(s)][i][1], f[Len(s)][i][2])]

\* Paragraphs are what their loop makes.
LEMMA ParagraphsLoop ==
  ASSUME NEW s, Len(s) \in Nat
  PROVE  \E f : ParagraphsRun(f, s)
<1> DEFINE n == Len(s)
           base == <<<<1, 0>>>>
           Turn(k, v) == NextParagraph(s, k, v)
           Def(g, m) == [k \in 0 .. m |-> IF k = 0 THEN base ELSE Turn(k, g[k - 1])]
           h == CHOOSE g : g = Def(g, n)
           S == {m \in 0 .. n : \E g : g = Def(g, m)}
<1>1. Paragraphs(s) =
       [i \in DOMAIN h[n] |-> SubSeq(s, h[n][i][1], h[n][i][2])]
  BY DEF Paragraphs
<1>n. n \in Nat
  OBVIOUS
<1> HIDE DEF n, base, Turn
<1>2. 0 \in S
  <2>1. [k \in 0 .. 0 |-> base] = Def([k \in 0 .. 0 |-> base], 0)
    OBVIOUS
  <2> HIDE DEF Def
  <2> QED
    BY <1>n, <2>1
<1>3. ASSUME NEW m \in 1 .. n, m - 1 \in S PROVE m \in S
  <2>1. PICK f : f = Def(f, m - 1)
    BY <1>3
  <2> DEFINE g == [k \in 0 .. m |-> IF k = m THEN Turn(m, f[m - 1]) ELSE f[k]]
  <2>2. \A k \in 0 .. m - 1 : k # m /\ k \in 0 .. m
    BY <1>n
  <2>3. \A k \in 1 .. m : k - 1 \in 0 .. m - 1 /\ k # 0 /\ (k = m \/ k \in 0 .. m - 1)
    BY <1>n
  <2>4. m # 0 /\ m \in 0 .. m /\ 0 \in 0 .. m - 1 /\ m \in 0 .. n
    BY <1>n
  <2>5. \A k \in 0 .. m - 1 : g[k] = f[k]
    BY <2>2
  <2>6. g[m] = Turn(m, g[m - 1])
    BY <2>3, <2>4, <2>5
  <2>7. \A k \in 0 .. m - 1 : f[k] = IF k = 0 THEN base ELSE Turn(k, f[k - 1])
    BY <2>1
  <2>8. ASSUME NEW k \in 0 .. m PROVE g[k] = IF k = 0 THEN base ELSE Turn(k, g[k - 1])
    <3>1. k \in 0 .. m - 1 => g[k - 1] = f[k - 1] \/ k = 0
      BY <1>n, <2>3, <2>5
    <3>2. k = m \/ k \in 0 .. m - 1
      BY <1>n
    <3> HIDE DEF g
    <3> QED
      BY <2>4, <2>5, <2>6, <2>7, <3>1, <3>2
  <2>9. g = Def(g, m)
    BY <2>8
  <2> HIDE DEF g, Def
  <2> QED
    BY <2>4, <2>9
<1>4. n \in S
  <2> HIDE DEF S
  <2>1. \A k \in 1 .. n : k - 1 \in S => k \in S
    BY <1>3
  <2>2. \A k \in 0 .. n : k \in S
    BY <1>n, <1>2, <2>1, InductTo
  <2> QED
    BY <1>n, <2>2
<1>5. h = Def(h, n)
  BY <1>4
<1> HIDE DEF h
<1>6. \A k \in 0 .. n : h[k] = IF k = 0 THEN base ELSE Turn(k, h[k - 1])
  BY <1>5
<1>7. h[0] = base /\ \A k \in 1 .. n : h[k] = Turn(k, h[k - 1])
  BY <1>n, <1>6
<1> QED
  BY <1>1, <1>7 DEF n, base, Turn, ParagraphsRun

SplitOversizedRun(f, section) ==
  /\ f[0] = [out |-> <<>>, first |-> 1, size |-> 0]
  /\ \A k \in 1 .. Len(Paragraphs(section)) : f[k] = AddParagraph(Paragraphs(section), k, f[k - 1])
  /\ SplitOversized(section) =
       IF Length(section) <= MaxChars THEN <<section>>
       ELSE IF f[Len(Paragraphs(section))].first > Len(Paragraphs(section)) THEN f[Len(Paragraphs(section))].out
       ELSE Append(f[Len(Paragraphs(section))].out, Buffer(Paragraphs(section), f[Len(Paragraphs(section))].first, Len(Paragraphs(section))))

\* SplitOversized is what the loop of _split_oversized_markdown_section makes, and the buffer
\* that is left.
LEMMA SplitOversizedLoop ==
  ASSUME NEW section, Len(Paragraphs(section)) \in Nat
  PROVE  \E f : SplitOversizedRun(f, section)
<1> DEFINE n == Len(Paragraphs(section))
           base == [out |-> <<>>, first |-> 1, size |-> 0]
           Turn(k, v) == AddParagraph(Paragraphs(section), k, v)
           Def(g, m) == [k \in 0 .. m |-> IF k = 0 THEN base ELSE Turn(k, g[k - 1])]
           h == CHOOSE g : g = Def(g, n)
           S == {m \in 0 .. n : \E g : g = Def(g, m)}
<1>1. SplitOversized(section) =
       IF Length(section) <= MaxChars THEN <<section>>
       ELSE IF h[n].first > n THEN h[n].out
       ELSE Append(h[n].out, Buffer(Paragraphs(section), h[n].first, n))
  BY DEF SplitOversized
<1>n. n \in Nat
  OBVIOUS
<1> HIDE DEF n, base, Turn
<1>2. 0 \in S
  <2>1. [k \in 0 .. 0 |-> base] = Def([k \in 0 .. 0 |-> base], 0)
    OBVIOUS
  <2> HIDE DEF Def
  <2> QED
    BY <1>n, <2>1
<1>3. ASSUME NEW m \in 1 .. n, m - 1 \in S PROVE m \in S
  <2>1. PICK f : f = Def(f, m - 1)
    BY <1>3
  <2> DEFINE g == [k \in 0 .. m |-> IF k = m THEN Turn(m, f[m - 1]) ELSE f[k]]
  <2>2. \A k \in 0 .. m - 1 : k # m /\ k \in 0 .. m
    BY <1>n
  <2>3. \A k \in 1 .. m : k - 1 \in 0 .. m - 1 /\ k # 0 /\ (k = m \/ k \in 0 .. m - 1)
    BY <1>n
  <2>4. m # 0 /\ m \in 0 .. m /\ 0 \in 0 .. m - 1 /\ m \in 0 .. n
    BY <1>n
  <2>5. \A k \in 0 .. m - 1 : g[k] = f[k]
    BY <2>2
  <2>6. g[m] = Turn(m, g[m - 1])
    BY <2>3, <2>4, <2>5
  <2>7. \A k \in 0 .. m - 1 : f[k] = IF k = 0 THEN base ELSE Turn(k, f[k - 1])
    BY <2>1
  <2>8. ASSUME NEW k \in 0 .. m PROVE g[k] = IF k = 0 THEN base ELSE Turn(k, g[k - 1])
    <3>1. k \in 0 .. m - 1 => g[k - 1] = f[k - 1] \/ k = 0
      BY <1>n, <2>3, <2>5
    <3>2. k = m \/ k \in 0 .. m - 1
      BY <1>n
    <3> HIDE DEF g
    <3> QED
      BY <2>4, <2>5, <2>6, <2>7, <3>1, <3>2
  <2>9. g = Def(g, m)
    BY <2>8
  <2> HIDE DEF g, Def
  <2> QED
    BY <2>4, <2>9
<1>4. n \in S
  <2> HIDE DEF S
  <2>1. \A k \in 1 .. n : k - 1 \in S => k \in S
    BY <1>3
  <2>2. \A k \in 0 .. n : k \in S
    BY <1>n, <1>2, <2>1, InductTo
  <2> QED
    BY <1>n, <2>2
<1>5. h = Def(h, n)
  BY <1>4
<1> HIDE DEF h
<1>6. \A k \in 0 .. n : h[k] = IF k = 0 THEN base ELSE Turn(k, h[k - 1])
  BY <1>5
<1>7. h[0] = base /\ \A k \in 1 .. n : h[k] = Turn(k, h[k - 1])
  BY <1>n, <1>6
<1> QED
  BY <1>1, <1>7 DEF n, base, Turn, SplitOversizedRun

(***************************************************************************)
(* The places of a text that are no blanks, and the order of two texts.    *)
(***************************************************************************)
Tokens == [kind : Kinds, at : Nat]
Texts == Seq(Tokens)

Inky(s) == {i \in DOMAIN s : s[i].kind \notin Blank}
Ink(s) == {s[i].at : i \in Inky(s)}

\* The first word of s has the least place, and the last word the greatest.
Frame(s, f, l) ==
  \A i \in Inky(s) : f <= i /\ i <= l /\ s[f].at <= s[i].at /\ s[i].at <= s[l].at
Framed(s) == Inky(s) # {} => \E f, l \in Inky(s) : Frame(s, f, l)

\* What has the words I begins and ends no later than what has the words J.
Ahead(I, J) == \A p \in I, q \in J : (\E r \in I : r <= q) /\ (\E r \in J : p <= r)
Before(I, J) == \A p \in I, q \in J : p < q

\* The words of a text are at its indices, and places are numbers.
LEMMA InkyOf ==
  ASSUME NEW s \in Texts
  PROVE  /\ Inky(s) \subseteq 1 .. Len(s) /\ Len(s) \in Nat
         /\ \A i \in 1 .. Len(s) : s[i] \in Tokens /\ s[i].at \in Nat
         /\ Ink(s) \subseteq Nat
<1>1. Inky(s) \subseteq 1 .. Len(s) /\ Len(s) \in Nat
  BY DEF Inky, Texts
<1>2. \A i \in 1 .. Len(s) : s[i] \in Tokens
  BY DEF Texts
<1>3. \A i \in 1 .. Len(s) : s[i].at \in Nat
  BY <1>2 DEF Tokens
<1> QED
  BY <1>1, <1>2, <1>3 DEF Ink

\* An empty text has no words.
LEMMA EmptyInk == Ink(<<>>) = {} /\ Inky(<<>>) = {} /\ Framed(<<>>) /\ <<>> \in Texts
BY DEF Inky, Ink, Framed, Texts

\* A separator has no words.
LEMMA GlueInk ==
  ASSUME NEW kind \in Blank \cup {"none"}
  PROVE  Glue(kind) \in Texts /\ Ink(Glue(kind)) = {} /\ Framed(Glue(kind))
<1>1. CASE kind = "none"
  BY <1>1, EmptyInk DEF Glue
<1>2. CASE kind # "none"
  <2>1. Glue(kind) = <<[kind |-> kind, at |-> 0]>>
    BY <1>2 DEF Glue
  <2>2. kind \in Kinds
    BY <1>2 DEF Blank, Kinds
  <2>3. Inky(Glue(kind)) = {}
    BY <1>2, <2>1 DEF Inky
  <2>4. Glue(kind) \in Texts
    BY <2>1, <2>2 DEF Texts, Tokens
  <2> QED
    BY <2>3, <2>4 DEF Ink, Framed
<1> QED
  BY <1>1, <1>2

\* The words of two texts, one behind the other, keep their order.
LEMMA InkyCat ==
  ASSUME NEW s \in Texts, NEW t \in Texts
  PROVE  /\ s \o t \in Texts /\ Len(s \o t) = Len(s) + Len(t)
         /\ \A i \in 1 .. Len(s) : (s \o t)[i] = s[i] /\ (i \in Inky(s \o t) <=> i \in Inky(s))
         /\ \A i \in 1 .. Len(t) :
              /\ (s \o t)[Len(s) + i] = t[i]
              /\ Len(s) + i \in Inky(s \o t) <=> i \in Inky(t)
         /\ \A i \in Inky(s \o t) : i \in Inky(s) \/ \E j \in Inky(t) : i = Len(s) + j
<1>1. s \o t \in Texts /\ Len(s \o t) = Len(s) + Len(t)
  BY DEF Texts
<1>2. \A i \in 1 .. Len(s) : (s \o t)[i] = s[i]
  BY DEF Texts
<1>3. \A i \in 1 .. Len(t) : (s \o t)[Len(s) + i] = t[i]
  BY DEF Texts
<1>4. DOMAIN s = 1 .. Len(s) /\ DOMAIN t = 1 .. Len(t) /\ DOMAIN (s \o t) = 1 .. Len(s) + Len(t)
  BY <1>1 DEF Texts
<1>5. Len(s) \in Nat /\ Len(t) \in Nat
  BY DEF Texts
<1>6. \A i \in 1 .. Len(s) : i \in 1 .. Len(s) + Len(t)
  BY <1>5
<1>7. \A i \in 1 .. Len(t) : Len(s) + i \in 1 .. Len(s) + Len(t)
  BY <1>5
<1>8. \A i \in 1 .. Len(s) + Len(t) : i \in 1 .. Len(s) \/ \E j \in 1 .. Len(t) : i = Len(s) + j
  <2> TAKE i \in 1 .. Len(s) + Len(t)
  <2>1. i > Len(s) => i - Len(s) \in 1 .. Len(t) /\ i = Len(s) + (i - Len(s))
    BY <1>5
  <2> QED
    BY <1>5, <2>1
<1>9. \A i \in 1 .. Len(s) : i \in Inky(s \o t) <=> i \in Inky(s)
  BY <1>2, <1>4, <1>6 DEF Inky
<1>10. \A i \in 1 .. Len(t) : Len(s) + i \in Inky(s \o t) <=> i \in Inky(t)
  BY <1>3, <1>4, <1>7 DEF Inky
<1>11. \A i \in Inky(s \o t) : i \in Inky(s) \/ \E j \in Inky(t) : i = Len(s) + j
  <2>1. \A i \in Inky(s \o t) : i \in 1 .. Len(s) + Len(t)
    BY <1>4 DEF Inky
  <2> QED
    BY <1>8, <1>9, <1>10, <2>1
<1> QED
  BY <1>1, <1>2, <1>3, <1>9, <1>10, <1>11

\* Two texts together have the words of both.
LEMMA InkCat ==
  ASSUME NEW s \in Texts, NEW t \in Texts
  PROVE  s \o t \in Texts /\ Ink(s \o t) = Ink(s) \cup Ink(t)
<1> DEFINE u == s \o t
           n == Len(s)
<1>1. Inky(s) \subseteq 1 .. n /\ Inky(t) \subseteq 1 .. Len(t)
  BY InkyOf
<1>2. /\ \A i \in Inky(s) : i \in Inky(u) /\ u[i] = s[i]
      /\ \A i \in Inky(t) : n + i \in Inky(u) /\ u[n + i] = t[i]
      /\ \A i \in Inky(u) : i \in Inky(s) \/ \E j \in Inky(t) : i = n + j
  BY <1>1, InkyCat
<1>3. s \o t \in Texts
  BY InkyCat
<1> HIDE DEF u, n
<1>4. Ink(u) = Ink(s) \cup Ink(t)
  BY <1>2 DEF Ink
<1> QED
  BY <1>3, <1>4 DEF u

\* If the second of two texts does not begin or end before the first, their first and last
\* words are those of both together.
LEMMA FramedCat ==
  ASSUME NEW s \in Texts, NEW t \in Texts, Framed(s), Framed(t), Ahead(Ink(s), Ink(t))
  PROVE  Framed(s \o t)
<1> DEFINE u == s \o t
           n == Len(s)
<1>1. Inky(s) \subseteq 1 .. n /\ Inky(t) \subseteq 1 .. Len(t) /\ n \in Nat /\ Len(t) \in Nat
  BY InkyOf
<1>2. /\ \A i \in Inky(s) : i \in Inky(u) /\ u[i] = s[i]
      /\ \A i \in Inky(t) : n + i \in Inky(u) /\ u[n + i] = t[i]
      /\ \A i \in Inky(u) : i \in Inky(s) \/ \E j \in Inky(t) : i = n + j
  BY <1>1, InkyCat
<1>3. \A i \in Inky(s) : s[i].at \in Ink(s) /\ s[i].at \in Nat
  BY <1>1, InkyOf DEF Ink
<1>4. \A i \in Inky(t) : t[i].at \in Ink(t) /\ t[i].at \in Nat
  BY <1>1, InkyOf DEF Ink
<1> HIDE DEF u, n
<1>5. CASE Inky(s) = {} /\ Inky(t) = {}
  BY <1>2, <1>5 DEF Framed, u
<1>6. CASE Inky(s) # {} /\ Inky(t) = {}
  <2>1. PICK f \in Inky(s), l \in Inky(s) : Frame(s, f, l)
    BY <1>6 DEF Framed
  <2>2. Frame(u, f, l)
    BY <1>2, <1>6, <2>1 DEF Frame
  <2> QED
    BY <1>2, <2>2 DEF Framed, u
<1>7. CASE Inky(s) = {} /\ Inky(t) # {}
  <2>1. PICK f \in Inky(t), l \in Inky(t) : Frame(t, f, l)
    BY <1>7 DEF Framed
  <2>2. ASSUME NEW i \in Inky(u)
        PROVE  /\ n + f <= i /\ i <= n + l
               /\ u[n + f].at <= u[i].at /\ u[i].at <= u[n + l].at
    <3>1. PICK j \in Inky(t) : i = n + j
      BY <1>2, <1>7
    <3>2. f <= j /\ j <= l /\ t[f].at <= t[j].at /\ t[j].at <= t[l].at
      BY <2>1 DEF Frame
    <3>3. n + f <= n + j /\ n + j <= n + l
      BY <1>1, <3>2
    <3> QED
      BY <1>2, <3>1, <3>2, <3>3
  <2>3. Frame(u, n + f, n + l)
    BY <2>2 DEF Frame
  <2> QED
    BY <1>2, <2>3 DEF Framed, u
<1>8. CASE Inky(s) # {} /\ Inky(t) # {}
  <2>1. PICK f \in Inky(s), f2 \in Inky(s) : Frame(s, f, f2)
    BY <1>8 DEF Framed
  <2>2. PICK l1 \in Inky(t), l \in Inky(t) : Frame(t, l1, l)
    BY <1>8 DEF Framed
  <2>3. \A q \in Ink(t) : s[f].at <= q
    <3> TAKE q \in Ink(t)
    <3>1. PICK r \in Ink(s) : r <= q
      BY <1>3 DEF Ahead
    <3>2. PICK i \in Inky(s) : r = s[i].at
      BY DEF Ink
    <3>3. s[f].at <= s[i].at
      BY <2>1 DEF Frame
    <3>4. q \in Nat
      BY InkyOf
    <3> QED
      BY <1>3, <3>1, <3>2, <3>3, <3>4
  <2>4. \A p \in Ink(s) : p <= t[l].at
    <3> TAKE p \in Ink(s)
    <3>1. PICK r \in Ink(t) : p <= r
      BY <1>4 DEF Ahead
    <3>2. PICK i \in Inky(t) : r = t[i].at
      BY DEF Ink
    <3>3. t[i].at <= t[l].at
      BY <2>2 DEF Frame
    <3>4. p \in Nat
      BY InkyOf
    <3> QED
      BY <1>4, <3>1, <3>2, <3>3, <3>4
  <2>5. ASSUME NEW i \in Inky(u)
        PROVE  f <= i /\ i <= n + l /\ u[f].at <= u[i].at /\ u[i].at <= u[n + l].at
    <3>1. CASE i \in Inky(s)
      <4>1. f <= i /\ s[f].at <= s[i].at
        BY <2>1, <3>1 DEF Frame
      <4>2. i <= n + l
        BY <1>1, <3>1
      <4>3. s[i].at <= t[l].at
        BY <1>3, <2>4, <3>1
      <4> QED
        BY <1>2, <3>1, <4>1, <4>2, <4>3
    <3>2. CASE \E j \in Inky(t) : i = n + j
      <4>1. PICK j \in Inky(t) : i = n + j
        BY <3>2
      <4>2. j <= l /\ t[j].at <= t[l].at
        BY <2>2 DEF Frame
      <4>3. s[f].at <= t[j].at
        BY <1>4, <2>3
      <4>4. f <= n + j /\ n + j <= n + l
        BY <1>1, <4>2
      <4> QED
        BY <1>2, <4>1, <4>2, <4>3, <4>4
    <3> QED
      BY <1>2, <3>1, <3>2
  <2>6. Frame(u, f, n + l)
    BY <2>5 DEF Frame
  <2> QED
    BY <1>2, <2>6 DEF Framed, u
<1> QED
  BY <1>5, <1>6, <1>7, <1>8

(***************************************************************************)
(* Pieces of the document.                                                 *)
(***************************************************************************)
\* A piece of the document as it stands.
Passage(s) ==
  s \in Texts /\ \A i, j \in 1 .. Len(s) : i < j => s[i].at < s[j].at

\* The words of a part of a text are those of the text between its ends.
LEMMA SubInky ==
  ASSUME NEW s \in Texts, NEW a \in Nat, NEW b \in Nat, 1 <= a, b <= Len(s)
  PROVE  /\ SubSeq(s, a, b) \in Texts
         /\ Len(SubSeq(s, a, b)) = (IF a <= b THEN b - a + 1 ELSE 0)
         /\ \A i \in 1 .. Len(SubSeq(s, a, b)) :
              /\ a + i - 1 \in a .. b /\ a + i - 1 \in 1 .. Len(s)
              /\ SubSeq(s, a, b)[i] = s[a + i - 1]
              /\ i \in Inky(SubSeq(s, a, b)) <=> a + i - 1 \in Inky(s)
         /\ \A i \in a .. b : i - a + 1 \in 1 .. Len(SubSeq(s, a, b)) /\ i = a + (i - a + 1) - 1
<1> DEFINE t == SubSeq(s, a, b)
           n == Len(s)
<1>1. n \in Nat
  BY DEF Texts
<1>2. Len(t) = (IF a <= b THEN b - a + 1 ELSE 0)
  BY DEF Texts
<1>3. t \in Texts
  BY DEF Texts
<1>4. \A i \in 1 .. Len(t) : t[i] = s[a + i - 1]
  BY DEF Texts
<1>5. DOMAIN s = 1 .. n /\ DOMAIN t = 1 .. Len(t)
  BY <1>3 DEF Texts
<1> HIDE DEF t, n
<1>6. \A i \in 1 .. Len(t) : a + i - 1 \in a .. b /\ a + i - 1 \in 1 .. n
  <2>1. b <= n
    BY DEF n
  <2> QED
    BY <1>1, <1>2, <2>1
<1>7. \A i \in a .. b : i - a + 1 \in 1 .. Len(t) /\ i = a + (i - a + 1) - 1
  BY <1>1, <1>2
<1>8. \A i \in 1 .. Len(t) : i \in Inky(t) <=> a + i - 1 \in Inky(s)
  BY <1>4, <1>5, <1>6 DEF Inky
<1> QED
  BY <1>2, <1>3, <1>4, <1>6, <1>7, <1>8 DEF t, n

\* The places of the words of a part are those of the text between its ends.
LEMMA SubInk ==
  ASSUME NEW s \in Texts, NEW a \in Nat, NEW b \in Nat, 1 <= a, b <= Len(s)
  PROVE  Ink(SubSeq(s, a, b)) = {s[i].at : i \in {j \in Inky(s) : j \in a .. b}}
<1> DEFINE t == SubSeq(s, a, b)
<1>1. /\ t \in Texts
      /\ \A i \in 1 .. Len(t) :
           /\ a + i - 1 \in a .. b /\ t[i] = s[a + i - 1]
           /\ i \in Inky(t) <=> a + i - 1 \in Inky(s)
      /\ \A i \in a .. b : i - a + 1 \in 1 .. Len(t) /\ i = a + (i - a + 1) - 1
  BY SubInky
<1> HIDE DEF t
<1>2. Inky(t) \subseteq 1 .. Len(t)
  BY <1>1, InkyOf
<1>3. ASSUME NEW i \in Inky(s), i \in a .. b PROVE \E j \in Inky(t) : t[j] = s[i]
  <2>1. i - a + 1 \in 1 .. Len(t) /\ i = a + (i - a + 1) - 1
    BY <1>1, <1>3
  <2>2. t[i - a + 1] = s[i] /\ i - a + 1 \in Inky(t)
    BY <1>1, <2>1
  <2> QED
    BY <2>2
<1>4. ASSUME NEW i \in Inky(t) PROVE \E j \in Inky(s) : j \in a .. b /\ t[i] = s[j]
  BY <1>1, <1>2
<1> DEFINE I == {j \in Inky(s) : j \in a .. b}
<1>5. \A i \in I : \E j \in Inky(t) : t[j] = s[i]
  BY <1>3
<1>6. \A i \in Inky(t) : \E j \in I : t[i] = s[j]
  BY <1>4
<1> HIDE DEF I
<1>7. {t[i].at : i \in Inky(t)} = {s[i].at : i \in I}
  BY <1>5, <1>6
<1> QED
  BY <1>7 DEF Ink, t, I

\* A part of a passage is a passage.
LEMMA PassageSub ==
  ASSUME NEW s, Passage(s), NEW a \in Nat, NEW b \in Nat, 1 <= a, b <= Len(s)
  PROVE  Passage(SubSeq(s, a, b))
<1> DEFINE t == SubSeq(s, a, b)
<1>1. s \in Texts /\ Len(s) \in Nat
  BY DEF Passage, Texts
<1>2. /\ t \in Texts
      /\ \A i \in 1 .. Len(t) :
           a + i - 1 \in 1 .. Len(s) /\ t[i] = s[a + i - 1]
  BY <1>1, SubInky
<1>3. Len(t) \in Nat
  BY <1>2 DEF Texts
<1> HIDE DEF t
<1>4. ASSUME NEW i \in 1 .. Len(t), NEW j \in 1 .. Len(t), i < j PROVE t[i].at < t[j].at
  <2>1. a + i - 1 < a + j - 1
    BY <1>3, <1>4
  <2> QED
    BY <1>2, <2>1 DEF Passage
<1> QED
  BY <1>2, <1>4 DEF Passage, t

\* A text with words has a first and a last one.
LEMMA FirstAndLast ==
  ASSUME NEW s \in Texts, Inky(s) # {}
  PROVE  /\ Least(Inky(s)) \in Inky(s) /\ Greatest(Inky(s)) \in Inky(s)
         /\ \A i \in Inky(s) : Least(Inky(s)) <= i /\ i <= Greatest(Inky(s))
<1>1. Inky(s) \in SUBSET Nat /\ Inky(s) \in SUBSET (0 .. Len(s)) /\ Len(s) \in Nat
  BY InkyOf
<1> DEFINE I == Inky(s)
<1> HIDE DEF I
<1>2. \E i \in I : \A j \in I : i <= j
  BY <1>1, HasLeast DEF I
<1>3. \E i \in I : \A j \in I : i >= j
  BY <1>1, HasGreatest DEF I
<1>4. Least(I) \in I /\ \A i \in I : Least(I) <= i
  BY <1>2 DEF Least
<1>5. Greatest(I) \in I /\ \A i \in I : Greatest(I) >= i
  BY <1>3 DEF Greatest
<1>6. \A i \in I : i <= Greatest(I)
  BY <1>1, <1>5 DEF I
<1> QED
  BY <1>4, <1>5, <1>6 DEF I

\* A passage begins and ends with its least and greatest place.
LEMMA PassageFramed ==
  ASSUME NEW s, Passage(s)
  PROVE  Framed(s)
<1> SUFFICES ASSUME Inky(s) # {} PROVE \E f, l \in Inky(s) : Frame(s, f, l)
  BY DEF Framed
<1>1. s \in Texts
  BY DEF Passage
<1>2. Inky(s) \subseteq 1 .. Len(s) /\ Len(s) \in Nat
      /\ \A i \in 1 .. Len(s) : s[i].at \in Nat
  BY <1>1, InkyOf
<1> DEFINE f == Least(Inky(s))
           l == Greatest(Inky(s))
<1>3. f \in Inky(s) /\ l \in Inky(s) /\ \A i \in Inky(s) : f <= i /\ i <= l
  BY <1>1, FirstAndLast
<1> HIDE DEF f, l
<1>4. \A i, j \in Inky(s) : i <= j => s[i].at <= s[j].at
  <2> TAKE i, j \in Inky(s)
  <2>1. i \in 1 .. Len(s) /\ j \in 1 .. Len(s) /\ s[i].at \in Nat /\ s[j].at \in Nat
    BY <1>2
  <2>2. CASE i < j
    BY <2>1, <2>2 DEF Passage
  <2>3. CASE i = j
    BY <2>1, <2>3
  <2> QED
    BY <2>1, <2>2, <2>3
<1>5. Frame(s, f, l)
  BY <1>3, <1>4 DEF Frame
<1> QED
  BY <1>3, <1>5

\* Strip takes what is between the first and the last word.
LEMMA StripIs ==
  ASSUME NEW s \in Texts
  PROVE  \/ Inky(s) = {} /\ Strip(s) = <<>>
         \/ \E x, y \in Inky(s) :
              Strip(s) = SubSeq(s, x, y) /\ \A i \in Inky(s) : x <= i /\ i <= y
<1>1. Strip(s) = IF Inky(s) = {} THEN <<>> ELSE SubSeq(s, Least(Inky(s)), Greatest(Inky(s)))
  BY DEF Strip, Inky
<1> QED
  BY <1>1, FirstAndLast

\* Strip keeps the words, and leaves a text that begins and ends with one.
LEMMA StripKeeps ==
  ASSUME NEW s \in Texts
  PROVE  /\ Strip(s) \in Texts /\ Ink(Strip(s)) = Ink(s)
         /\ Framed(s) => Framed(Strip(s))
         /\ Passage(s) => Passage(Strip(s))
         /\ Strip(s) # <<>> =>
              Len(Strip(s)) \in Nat \ {0} /\ 1 \in Inky(Strip(s)) /\ Len(Strip(s)) \in Inky(Strip(s))
<1>1. CASE Inky(s) = {} /\ Strip(s) = <<>>
  <2>1. Ink(s) = {}
    BY <1>1 DEF Ink
  <2>2. Passage(<<>>)
    BY EmptyInk DEF Passage
  <2> QED
    BY <1>1, <2>1, <2>2, EmptyInk
<1>2. ASSUME NEW x \in Inky(s), NEW y \in Inky(s),
             Strip(s) = SubSeq(s, x, y), \A i \in Inky(s) : x <= i /\ i <= y
      PROVE  /\ Strip(s) \in Texts /\ Ink(Strip(s)) = Ink(s)
             /\ Framed(s) => Framed(Strip(s))
             /\ Passage(s) => Passage(Strip(s))
             /\ Len(Strip(s)) \in Nat \ {0} /\ 1 \in Inky(Strip(s)) /\ Len(Strip(s)) \in Inky(Strip(s))
  <2> DEFINE t == SubSeq(s, x, y)
  <2>1. Inky(s) \subseteq 1 .. Len(s) /\ Len(s) \in Nat
    BY InkyOf
  <2>2. x \in Nat /\ y \in Nat /\ 1 <= x /\ y <= Len(s) /\ x <= y
    BY <1>2, <2>1
  <2>3. /\ t \in Texts /\ Len(t) = y - x + 1
        /\ \A i \in 1 .. Len(t) :
             /\ x + i - 1 \in x .. y /\ t[i] = s[x + i - 1]
             /\ i \in Inky(t) <=> x + i - 1 \in Inky(s)
        /\ \A i \in x .. y : i - x + 1 \in 1 .. Len(t) /\ i = x + (i - x + 1) - 1
    BY <2>2, SubInky
  <2>4. Ink(t) = {s[i].at : i \in {j \in Inky(s) : j \in x .. y}}
    BY <2>2, SubInk
  <2> HIDE DEF t
  <2>5. \A i \in Inky(s) : i \in x .. y
    BY <1>2, <2>1, <2>2
  <2>6. Ink(t) = Ink(s)
    BY <2>4, <2>5 DEF Ink
  <2>7. Len(t) \in Nat \ {0} /\ 1 \in Inky(t) /\ Len(t) \in Inky(t)
    <3>1. 1 \in 1 .. Len(t) /\ Len(t) \in 1 .. Len(t) /\ x + 1 - 1 = x /\ x + Len(t) - 1 = y
      BY <2>2, <2>3
    <3> QED
      BY <2>2, <2>3, <3>1
  <2>8. ASSUME Framed(s) PROVE Framed(t)
    <3>1. PICK f \in Inky(s), l \in Inky(s) : Frame(s, f, l)
      BY <2>8 DEF Framed
    <3>2. f \in x .. y /\ l \in x .. y
      BY <2>5
    <3> DEFINE g == f - x + 1
               m == l - x + 1
    <3>3. g \in 1 .. Len(t) /\ f = x + g - 1 /\ m \in 1 .. Len(t) /\ l = x + m - 1
      BY <2>3, <3>2
    <3> HIDE DEF g, m
    <3>4. g \in Inky(t) /\ m \in Inky(t) /\ t[g] = s[f] /\ t[m] = s[l]
      BY <2>3, <3>3
    <3>5. ASSUME NEW i \in Inky(t)
          PROVE  g <= i /\ i <= m /\ t[g].at <= t[i].at /\ t[i].at <= t[m].at
      <4>1. i \in 1 .. Len(t) /\ Len(t) \in Nat
        BY <2>3, InkyOf
      <4>2. x + i - 1 \in Inky(s) /\ t[i] = s[x + i - 1]
        BY <2>3, <4>1
      <4>3. f <= x + i - 1 /\ x + i - 1 <= l /\ s[f].at <= t[i].at /\ t[i].at <= s[l].at
        BY <3>1, <4>2 DEF Frame
      <4>4. g <= i /\ i <= m
        BY <2>2, <3>3, <4>1, <4>3
      <4> QED
        BY <3>4, <4>3, <4>4
    <3>6. Frame(t, g, m)
      BY <3>5 DEF Frame
    <3> QED
      BY <3>4, <3>6 DEF Framed
  <2>9. Passage(s) => Passage(t)
    BY <2>2, PassageSub DEF t
  <2> QED
    BY <1>2, <2>3, <2>6, <2>7, <2>8, <2>9 DEF t
<1> QED
  BY <1>1, <1>2, StripIs

(***************************************************************************)
(* Lists of texts.                                                         *)
(***************************************************************************)
InkOf(ts, a, b) == UNION {Ink(ts[k]) : k \in a .. b}

\* The texts ts have the words I, in the order in which CoversInOrder wants them.
Renders(ts, I) ==
  /\ ts \in Seq(Texts) /\ InkOf(ts, 1, Len(ts)) = I
  /\ \A k \in 1 .. Len(ts) : Framed(ts[k])
  /\ \A j, k \in 1 .. Len(ts) : j < k => Ahead(Ink(ts[j]), Ink(ts[k]))

\* The texts ts are passages that follow each other.
Parted(ts) ==
  /\ ts \in Seq(Texts) /\ \A k \in 1 .. Len(ts) : Passage(ts[k])
  /\ \A j, k \in 1 .. Len(ts) : j < k => Before(Ink(ts[j]), Ink(ts[k]))

\* What is behind another does not begin or end before it.
LEMMA BeforeAhead ==
  ASSUME NEW I \in SUBSET Nat, NEW J \in SUBSET Nat, Before(I, J)
  PROVE  Ahead(I, J)
BY DEF Before, Ahead

\* The words of some texts are those of each of them.
LEMMA InkOfNat ==
  ASSUME NEW ts \in Seq(Texts), NEW a \in Nat, NEW b \in Nat, 1 <= a, b <= Len(ts)
  PROVE  /\ InkOf(ts, a, b) \in SUBSET Nat
         /\ \A k \in a .. b : Ink(ts[k]) \subseteq InkOf(ts, a, b)
         /\ \A p \in InkOf(ts, a, b) : \E k \in a .. b : p \in Ink(ts[k])
<1>1. \A k \in a .. b : ts[k] \in Texts
  BY DEF Texts
<1>2. \A k \in a .. b : Ink(ts[k]) \subseteq Nat
  BY <1>1, InkyOf
<1> QED
  BY <1>2 DEF InkOf

\* Passages that follow each other are in order.
LEMMA PartedRenders ==
  ASSUME NEW ts, Parted(ts)
  PROVE  Renders(ts, InkOf(ts, 1, Len(ts)))
<1>1. ts \in Seq(Texts) /\ \A k \in 1 .. Len(ts) : ts[k] \in Texts
  BY DEF Parted
<1>2. \A k \in 1 .. Len(ts) : Ink(ts[k]) \in SUBSET Nat /\ Framed(ts[k])
  BY <1>1, InkyOf, PassageFramed DEF Parted
<1>3. \A j, k \in 1 .. Len(ts) : j < k => Ahead(Ink(ts[j]), Ink(ts[k]))
  BY <1>2, BeforeAhead DEF Parted
<1> QED
  BY <1>1, <1>2, <1>3 DEF Renders

\* A part of a list of texts has the words of its members.
LEMMA SubTexts ==
  ASSUME NEW ts \in Seq(Texts), NEW a \in Nat, NEW b \in Nat, 1 <= a, b <= Len(ts)
  PROVE  /\ SubSeq(ts, a, b) \in Seq(Texts)
         /\ \A i \in 1 .. Len(SubSeq(ts, a, b)) :
              /\ a + i - 1 \in a .. b /\ a + i - 1 \in 1 .. Len(ts)
              /\ SubSeq(ts, a, b)[i] = ts[a + i - 1]
         /\ \A i, j \in 1 .. Len(SubSeq(ts, a, b)) : i < j => a + i - 1 < a + j - 1
         /\ InkOf(SubSeq(ts, a, b), 1, Len(SubSeq(ts, a, b))) = InkOf(ts, a, b)
<1> DEFINE t == SubSeq(ts, a, b)
           n == Len(ts)
<1>1. Len(t) = IF a <= b THEN b - a + 1 ELSE 0
  OBVIOUS
<1>2. t \in Seq(Texts) /\ n \in Nat
  OBVIOUS
<1>3. \A i \in 1 .. Len(t) : t[i] = ts[a + i - 1]
  OBVIOUS
<1> HIDE DEF t, n
<1>4. \A i \in 1 .. Len(t) : a + i - 1 \in a .. b /\ a + i - 1 \in 1 .. n
  <2>1. b <= n
    BY DEF n
  <2> QED
    BY <1>1, <1>2, <2>1
<1>5. \A i \in a .. b : i - a + 1 \in 1 .. Len(t) /\ i = a + (i - a + 1) - 1
  BY <1>1, <1>2
<1>6. \A i, j \in 1 .. Len(t) : i < j => a + i - 1 < a + j - 1
  BY <1>1
<1>7. InkOf(t, 1, Len(t)) = InkOf(ts, a, b)
  <2>1. \A i \in 1 .. Len(t) : \E j \in a .. b : Ink(t[i]) = Ink(ts[j])
    BY <1>3, <1>4
  <2>2. \A i \in a .. b : \E j \in 1 .. Len(t) : Ink(t[j]) = Ink(ts[i])
    BY <1>3, <1>5
  <2> QED
    BY <2>1, <2>2 DEF InkOf
<1> QED
  BY <1>2, <1>3, <1>4, <1>6, <1>7 DEF t, n

\* A part of a list in order is in order.
LEMMA RendersSub ==
  ASSUME NEW ts, NEW I, Renders(ts, I), NEW a \in Nat, NEW b \in Nat, 1 <= a, b <= Len(ts)
  PROVE  Renders(SubSeq(ts, a, b), InkOf(ts, a, b))
<1> DEFINE t == SubSeq(ts, a, b)
<1>1. ts \in Seq(Texts)
  BY DEF Renders
<1>2. /\ t \in Seq(Texts) /\ InkOf(t, 1, Len(t)) = InkOf(ts, a, b)
      /\ \A i \in 1 .. Len(t) : a + i - 1 \in 1 .. Len(ts) /\ t[i] = ts[a + i - 1]
      /\ \A i, j \in 1 .. Len(t) : i < j => a + i - 1 < a + j - 1
  BY <1>1, SubTexts
<1> HIDE DEF t
<1>3. \A k \in 1 .. Len(t) : Framed(t[k])
  BY <1>2 DEF Renders
<1>4. \A j, k \in 1 .. Len(t) : j < k => Ahead(Ink(t[j]), Ink(t[k]))
  BY <1>2 DEF Renders
<1>5. Renders(t, InkOf(ts, a, b))
  BY <1>2, <1>3, <1>4 DEF Renders
<1> QED
  BY <1>5 DEF t

\* A part of a list of passages is one.
LEMMA PartedSub ==
  ASSUME NEW ts, Parted(ts), NEW a \in Nat, NEW b \in Nat, 1 <= a, b <= Len(ts)
  PROVE  Parted(SubSeq(ts, a, b))
<1> DEFINE t == SubSeq(ts, a, b)
<1>1. ts \in Seq(Texts)
  BY DEF Parted
<1>2. /\ t \in Seq(Texts)
      /\ \A i \in 1 .. Len(t) : a + i - 1 \in 1 .. Len(ts) /\ t[i] = ts[a + i - 1]
      /\ \A i, j \in 1 .. Len(t) : i < j => a + i - 1 < a + j - 1
  BY <1>1, SubTexts
<1> HIDE DEF t
<1>3. \A k \in 1 .. Len(t) : Passage(t[k])
  BY <1>2 DEF Parted
<1>4. \A j, k \in 1 .. Len(t) : j < k => Before(Ink(t[j]), Ink(t[k]))
  BY <1>2 DEF Parted
<1>5. Parted(t)
  BY <1>2, <1>3, <1>4 DEF Parted
<1> QED
  BY <1>5 DEF t

\* The words of one text more.
LEMMA InkOfNext ==
  ASSUME NEW ts, NEW k \in Nat \ {0}
  PROVE  InkOf(ts, 1, k) = InkOf(ts, 1, k - 1) \cup Ink(ts[k])
<1>1. 1 .. k = (1 .. k - 1) \cup {k}
  OBVIOUS
<1> QED
  BY <1>1 DEF InkOf

\* The words of a list are those of its two parts.
LEMMA InkOfSplit ==
  ASSUME NEW ts, NEW a \in Nat, NEW k \in Nat, a <= k + 1, 1 <= a
  PROVE  InkOf(ts, 1, k) = InkOf(ts, 1, a - 1) \cup InkOf(ts, a, k)
<1>1. 1 .. k = (1 .. a - 1) \cup (a .. k)
  OBVIOUS
<1> QED
  BY <1>1 DEF InkOf

\* No texts have no words.
LEMMA NoInkOf == \A ts : InkOf(ts, 1, 0) = {}
<1>1. 1 .. 0 = {}
  OBVIOUS
<1> QED
  BY <1>1 DEF InkOf

\* The empty list is in order.
LEMMA RendersNone == Renders(<<>>, {})
<1>1. 1 .. 0 = {} /\ Len(<<>>) = 0 /\ <<>> \in Seq(Texts)
  OBVIOUS
<1> QED
  BY <1>1 DEF Renders, InkOf

\* Two lists in order, the one behind the other, are in order together.
LEMMA RendersCat ==
  ASSUME NEW ts, NEW us, NEW I, NEW J, Renders(ts, I), Renders(us, J), Before(I, J)
  PROVE  Renders(ts \o us, I \cup J)
<1> DEFINE v == ts \o us
           n == Len(ts)
           m == Len(us)
<1>1. ts \in Seq(Texts) /\ us \in Seq(Texts) /\ n \in Nat /\ m \in Nat
  BY DEF Renders
<1>2. v \in Seq(Texts) /\ Len(v) = n + m
  BY <1>1
<1>3. \A k \in 1 .. n : v[k] = ts[k]
  BY <1>1
<1>4. \A k \in 1 .. m : v[n + k] = us[k]
  BY <1>1
<1>5. /\ \A k \in 1 .. n : Framed(ts[k]) /\ Ink(ts[k]) \in SUBSET Nat /\ Ink(ts[k]) \subseteq I
      /\ \A k \in 1 .. m : Framed(us[k]) /\ Ink(us[k]) \in SUBSET Nat /\ Ink(us[k]) \subseteq J
  BY <1>1, InkyOf DEF Renders, InkOf
<1>6. InkOf(ts, 1, n) = I /\ InkOf(us, 1, m) = J
  BY DEF Renders
<1> HIDE DEF v, n, m
<1>7. \A k \in 1 .. n + m : k \in 1 .. n \/ \E i \in 1 .. m : k = n + i
  <2> TAKE k \in 1 .. n + m
  <2>1. k > n => k - n \in 1 .. m /\ k = n + (k - n)
    BY <1>1
  <2> QED
    BY <1>1, <2>1
<1>8. (\A k \in 1 .. n : k \in 1 .. n + m) /\ \A k \in 1 .. m : n + k \in 1 .. n + m
  BY <1>1
<1>9. InkOf(v, 1, n + m) = I \cup J
  <2>1. \A k \in 1 .. n + m : (\E i \in 1 .. n : v[k] = ts[i]) \/ \E i \in 1 .. m : v[k] = us[i]
    BY <1>3, <1>4, <1>7
  <2>2. \A i \in 1 .. n : \E k \in 1 .. n + m : v[k] = ts[i]
    BY <1>3, <1>8
  <2>3. \A i \in 1 .. m : \E k \in 1 .. n + m : v[k] = us[i]
    BY <1>4, <1>8
  <2> QED
    BY <1>6, <2>1, <2>2, <2>3 DEF InkOf
<1>10. \A k \in 1 .. n + m : Framed(v[k])
  BY <1>3, <1>4, <1>5, <1>7
<1>11. ASSUME NEW j \in 1 .. n + m, NEW k \in 1 .. n + m, j < k
       PROVE  Ahead(Ink(v[j]), Ink(v[k]))
  <2>1. CASE k \in 1 .. n
    <3>1. j \in 1 .. n
      BY <1>1, <1>11, <2>1
    <3> QED
      BY <1>3, <1>11, <2>1, <3>1 DEF Renders, n
  <2>2. CASE j \in 1 .. n /\ k \notin 1 .. n
    <3>1. PICK i \in 1 .. m : k = n + i
      BY <1>7, <2>2
    <3>2. v[j] = ts[j] /\ v[k] = us[i]
      BY <1>3, <1>4, <2>2, <3>1
    <3>3. Before(Ink(ts[j]), Ink(us[i]))
      BY <1>5, <2>2 DEF Before
    <3> QED
      BY <1>5, <2>2, <3>2, <3>3, BeforeAhead
  <2>3. CASE j \notin 1 .. n /\ k \notin 1 .. n
    <3>1. PICK i \in 1 .. m : k = n + i
      BY <1>7, <2>3
    <3>2. PICK h \in 1 .. m : j = n + h
      BY <1>7, <2>3
    <3>3. h < i
      BY <1>1, <1>11, <3>1, <3>2
    <3> QED
      BY <1>4, <3>1, <3>2, <3>3 DEF Renders, m
  <2> QED
    BY <2>1, <2>2, <2>3
<1>12. Renders(v, I \cup J)
  BY <1>2, <1>9, <1>10, <1>11 DEF Renders
<1> QED
  BY <1>12 DEF v

\* A list of one text is in order.
LEMMA RendersOne ==
  ASSUME NEW s \in Texts, Framed(s)
  PROVE  Renders(<<s>>, Ink(s))
<1>1. <<s>> \in Seq(Texts) /\ Len(<<s>>) = 1 /\ <<s>>[1] = s
  OBVIOUS
<1>2. 1 .. 1 = {1}
  OBVIOUS
<1>3. \A j, k \in 1 .. 1 : ~(j < k)
  OBVIOUS
<1>4. InkOf(<<s>>, 1, 1) = Ink(s)
  BY <1>1, <1>2 DEF InkOf
<1> QED
  BY <1>1, <1>2, <1>3, <1>4 DEF Renders

(***************************************************************************)
(* Joining texts.                                                          *)
(***************************************************************************)
Separators == Blank \cup {"none"}

\* Joining keeps the words and their first and last one.
LEMMA JoinKeeps ==
  ASSUME NEW ts, NEW I, Renders(ts, I), NEW kind \in Separators
  PROVE  Join(ts, kind) \in Texts /\ Ink(Join(ts, kind)) = I /\ Framed(Join(ts, kind))
<1> DEFINE n == Len(ts)
           glue == Glue(kind)
<1>1. /\ n \in Nat /\ ts \in Seq(Texts) /\ InkOf(ts, 1, n) = I
      /\ \A k \in 1 .. n : ts[k] \in Texts /\ Framed(ts[k])
  BY DEF Renders
<1>f. PICK f : JoinRun(f, ts, kind)
  BY <1>1, JoinLoop
<1>2. /\ f[0] = <<>> /\ Join(ts, kind) = f[n]
      /\ \A k \in 1 .. n : f[k] = JoinPart(ts, kind, k, f[k - 1])
  BY <1>f DEF JoinRun
<1>3. glue \in Texts /\ Ink(glue) = {} /\ Framed(glue)
  BY GlueInk DEF Separators
<1>4. \A k \in 1 .. n : f[k] = IF k = 1 THEN ts[k] ELSE f[k - 1] \o glue \o ts[k]
  BY <1>2 DEF JoinPart
<1> HIDE DEF n, glue
<1> DEFINE S == {k \in 0 .. n : f[k] \in Texts /\ Ink(f[k]) = InkOf(ts, 1, k) /\ Framed(f[k])}
<1>5. 0 \in S
  <2>1. InkOf(ts, 1, 0) = {}
    BY NoInkOf
  <2>2. f[0] \in Texts /\ Ink(f[0]) = {} /\ Framed(f[0])
    BY <1>2, EmptyInk
  <2>3. 0 \in 0 .. n
    BY <1>1
  <2> QED
    BY <2>1, <2>2, <2>3
<1>6. ASSUME NEW k \in 1 .. n, k - 1 \in S PROVE k \in S
  <2>1. /\ k - 1 \in 0 .. n /\ k \in 0 .. n /\ k \in Nat \ {0} /\ f[k - 1] \in Texts
        /\ Ink(f[k - 1]) = InkOf(ts, 1, k - 1) /\ Framed(f[k - 1])
    BY <1>1, <1>6
  <2>2. InkOf(ts, 1, k) = InkOf(ts, 1, k - 1) \cup Ink(ts[k])
    BY <2>1, InkOfNext
  <2> DEFINE x == f[k - 1]
             y == ts[k]
  <2>3. y \in Texts /\ Framed(y)
    BY <1>1
  <2>4. CASE k = 1
    <3>1. InkOf(ts, 1, k - 1) = {}
      <4>1. k - 1 = 0
        BY <2>4
      <4> QED
        BY <4>1, NoInkOf
    <3>2. f[k] = y
      BY <1>4, <2>4
    <3> QED
      BY <2>1, <2>2, <2>3, <3>1, <3>2
  <2>5. CASE k # 1
    <3>1. f[k] = x \o glue \o y
      BY <1>4, <2>5
    <3>2. \A j \in 1 .. k - 1 : Ahead(Ink(ts[j]), Ink(y))
      <4>1. \A j \in 1 .. k - 1 : j \in 1 .. n /\ j < k
        BY <1>1
      <4> QED
        BY <4>1 DEF Renders, n
    <3>3. Ahead(InkOf(ts, 1, k - 1), Ink(y))
      BY <3>2 DEF Ahead, InkOf
    <3>4. x \in Texts /\ Ink(x) = InkOf(ts, 1, k - 1) /\ Framed(x)
      BY <2>1
    <3> HIDE DEF x, y
    <3>a. Ahead(Ink(x), Ink(glue))
      BY <1>3 DEF Ahead
    <3> DEFINE z == x \o glue
    <3>b. Framed(z)
      BY <1>3, <3>4, <3>a, FramedCat
    <3>c. z \in Texts /\ Ink(z) = Ink(x) \cup Ink(glue)
      BY <1>3, <3>4, InkCat
    <3>5. z \in Texts /\ Ink(z) = InkOf(ts, 1, k - 1) /\ Framed(z)
      BY <1>3, <3>4, <3>b, <3>c
    <3> HIDE DEF z
    <3>6. z \o y \in Texts /\ Ink(z \o y) = InkOf(ts, 1, k - 1) \cup Ink(y) /\ Framed(z \o y)
      BY <2>3, <3>3, <3>5, InkCat, FramedCat
    <3> QED
      BY <2>1, <2>2, <3>1, <3>6 DEF z, y
  <2> QED
    BY <2>4, <2>5
<1>7. n \in S
  <2> HIDE DEF S
  <2>1. \A k \in 1 .. n : k - 1 \in S => k \in S
    BY <1>6
  <2>2. \A k \in 0 .. n : k \in S
    BY <1>1, <1>5, <2>1, InductTo
  <2> QED
    BY <1>1, <2>2
<1> QED
  BY <1>1, <1>2, <1>7

\* Joining nothing makes the empty text.
LEMMA JoinEmpty == \A kind : Join(<<>>, kind) = <<>> /\ Length(<<>>) = 0
<1> TAKE kind
<1>1. Len(<<>>) = 0 /\ Len(<<>>) \in Nat
  OBVIOUS
<1>2. PICK f : JoinRun(f, <<>>, kind)
  BY <1>1, JoinLoop
<1>3. PICK g : LengthRun(g, <<>>)
  BY <1>1, LengthLoop
<1> QED
  BY <1>1, <1>2, <1>3 DEF JoinRun, LengthRun

(***************************************************************************)
(* The windows of _merge_splits: they go forward and leave nothing out.    *)
(***************************************************************************)
Spread(w, n) ==
  /\ w \in Seq(Nat \X Nat)
  /\ \A k \in 1 .. Len(w) : 1 <= w[k][1] /\ w[k][2] <= n
  /\ \A j, k \in 1 .. Len(w) : j < k => w[j][1] <= w[k][1] /\ w[j][2] <= w[k][2]

Reaches(w, a) == \A k \in 1 .. Len(w) : w[k][1] <= a

Covered(w, i) == \E k \in 1 .. Len(w) : w[k][1] <= i /\ i <= w[k][2]

\* A window that does not begin before the others and ends at b can follow them.
LEMMA SpreadAppend ==
  ASSUME NEW w, NEW n \in Nat, NEW a \in Nat, NEW b \in Nat, Spread(w, n), 1 <= a, n <= b,
         Reaches(w, a)
  PROVE  /\ Spread(Append(w, <<a, b>>), b)
         /\ \A i : Covered(w, i) => Covered(Append(w, <<a, b>>), i)
         /\ \A i \in a .. b : Covered(Append(w, <<a, b>>), i)
         /\ Reaches(Append(w, <<a, b>>), a)
<1> DEFINE u == Append(w, <<a, b>>)
           m == Len(w)
<1>1. w \in Seq(Nat \X Nat) /\ m \in Nat
  BY DEF Spread
<1>2. u \in Seq(Nat \X Nat) /\ Len(u) = m + 1 /\ u[m + 1] = <<a, b>>
  BY <1>1
<1>3. \A k \in 1 .. m : u[k] = w[k] /\ w[k] \in Nat \X Nat
  BY <1>1
<1>4. \A k \in 1 .. m : w[k][1] \in Nat /\ w[k][2] \in Nat /\ w[k][1] <= a /\ 1 <= w[k][1] /\ w[k][2] <= b
  <2>1. \A k \in 1 .. m : w[k][1] \in Nat /\ w[k][2] \in Nat /\ w[k][2] <= n
    BY <1>3 DEF Spread
  <2> QED
    BY <2>1 DEF Spread, Reaches
<1>a. u[m + 1][1] = a /\ u[m + 1][2] = b
  BY <1>2
<1> HIDE DEF u, m
<1>5. \A k \in 1 .. m + 1 : k \in 1 .. m \/ k = m + 1
  BY <1>1
<1>6. (\A k \in 1 .. m : k \in 1 .. m + 1) /\ m + 1 \in 1 .. m + 1
  BY <1>1
<1>7. \A k \in 1 .. m + 1 : 1 <= u[k][1] /\ u[k][2] <= b /\ u[k][1] <= a
  BY <1>a, <1>3, <1>4, <1>5
<1>8. ASSUME NEW j \in 1 .. m + 1, NEW k \in 1 .. m + 1, j < k
      PROVE  u[j][1] <= u[k][1] /\ u[j][2] <= u[k][2]
  <2>1. j \in 1 .. m
    BY <1>1, <1>8
  <2>2. CASE k = m + 1
    BY <1>a, <1>3, <1>4, <2>1, <2>2
  <2>3. CASE k \in 1 .. m
    BY <1>3, <1>8, <2>1, <2>3 DEF Spread, m
  <2> QED
    BY <1>5, <2>2, <2>3
<1>9. Spread(u, b)
  BY <1>2, <1>7, <1>8 DEF Spread
<1>10. \A i : Covered(w, i) => Covered(u, i)
  BY <1>2, <1>3, <1>6 DEF Covered, m
<1>11. \A i \in a .. b : Covered(u, i)
  BY <1>2, <1>a, <1>6 DEF Covered
<1> QED
  BY <1>2, <1>7, <1>9, <1>10, <1>11 DEF u, Reaches

\* Least is a least member.
LEMMA LeastIn ==
  ASSUME NEW S \in SUBSET Nat, S # {}
  PROVE  Least(S) \in S /\ \A i \in S : Least(S) <= i
<1>1. \E i \in S : \A j \in S : i <= j
  BY HasLeast
<1> QED
  BY <1>1 DEF Least

\* What holds of the loop after n splits.
Merging(st, n) ==
  /\ st.first \in Nat \ {0} /\ (st.first <= n \/ st.first = 1)
  /\ Spread(st.out, n) /\ Reaches(st.out, st.first)
  /\ \A i \in 1 .. st.first - 1 : Covered(st.out, i)

\* One turn of _merge_splits leaves no split out and does not go back.
LEMMA AddSplitMerging ==
  ASSUME NEW splits \in Seq(Texts), NEW kind, NEW overlap \in Nat, NEW n \in Nat \ {0},
         NEW st, Merging(st, n - 1)
  PROVE  Merging(AddSplit(splits, kind, overlap, n, st), n)
<1> DEFINE K == {k \in st.first .. n : JoinSize(splits, kind, k, n - 1) <= overlap}
<1>1. /\ st.first \in Nat \ {0} /\ (st.first <= n - 1 \/ st.first = 1)
      /\ Spread(st.out, n - 1) /\ Reaches(st.out, st.first)
      /\ \A i \in 1 .. st.first - 1 : Covered(st.out, i)
  BY DEF Merging
<1>2. CASE st.first < n /\ JoinSize(splits, kind, st.first, n) > ChunkSize
  <2> DEFINE u == Append(st.out, <<st.first, n - 1>>)
             first == Least(K)
  <2>1. AddSplit(splits, kind, overlap, n, st) = [out |-> u, first |-> first]
    BY <1>2 DEF AddSplit
  <2>2. first \in st.first .. n
    <3>1. SubSeq(splits, n, n - 1) = <<>>
      OBVIOUS
    <3>2. JoinSize(splits, kind, n, n - 1) = 0
      BY <3>1, JoinEmpty DEF JoinSize
    <3>3. n \in K
      BY <1>1, <1>2, <3>2
    <3>4. K \in SUBSET Nat /\ K \subseteq st.first .. n
      BY <1>1
    <3> HIDE DEF K
    <3> QED
      BY <3>3, <3>4, LeastIn
  <2>3. n - 1 \in Nat /\ n - 1 <= n - 1 /\ st.first \in Nat /\ 1 <= st.first
    BY <1>1
  <2>4. /\ Spread(u, n - 1) /\ \A i : Covered(st.out, i) => Covered(u, i)
        /\ \A i \in st.first .. n - 1 : Covered(u, i)
        /\ Reaches(u, st.first)
    BY <1>1, <2>3, SpreadAppend
  <2> HIDE DEF u, first
  <2>5. Spread(u, n)
    <3>1. u \in Seq(Nat \X Nat) /\ \A k \in 1 .. Len(u) : u[k] \in Nat \X Nat
      BY <2>4 DEF Spread
    <3>2. \A k \in 1 .. Len(u) : u[k][2] <= n - 1 /\ u[k][2] \in Nat
      BY <2>4, <3>1 DEF Spread
    <3>3. \A k \in 1 .. Len(u) : u[k][2] <= n
      BY <3>2
    <3> QED
      BY <2>4, <3>3 DEF Spread
  <2>6. Reaches(u, first)
    <3>1. \A k \in 1 .. Len(u) : u[k] \in Nat \X Nat
      BY <2>4 DEF Spread
    <3>2. \A k \in 1 .. Len(u) : u[k][1] \in Nat /\ u[k][1] <= st.first
      BY <2>4, <3>1 DEF Reaches
    <3>3. \A k \in 1 .. Len(u) : u[k][1] <= first
      BY <1>1, <2>2, <3>2
    <3> QED
      BY <3>3 DEF Reaches
  <2>7. \A i \in 1 .. first - 1 : Covered(u, i)
    <3>1. \A i \in 1 .. first - 1 : i \in 1 .. st.first - 1 \/ i \in st.first .. n - 1
      BY <1>1, <2>2
    <3> QED
      BY <1>1, <2>4, <3>1
  <2> QED
    BY <1>1, <2>1, <2>2, <2>5, <2>6, <2>7 DEF Merging
<1>3. CASE ~(st.first < n /\ JoinSize(splits, kind, st.first, n) > ChunkSize)
  <2>1. AddSplit(splits, kind, overlap, n, st) = st
    BY <1>3 DEF AddSplit
  <2>2. Spread(st.out, n)
    <3>1. \A k \in 1 .. Len(st.out) : st.out[k] \in Nat \X Nat
      BY <1>1 DEF Spread
    <3>2. \A k \in 1 .. Len(st.out) : st.out[k][2] <= n - 1 /\ st.out[k][2] \in Nat
      BY <1>1, <3>1 DEF Spread
    <3>3. \A k \in 1 .. Len(st.out) : st.out[k][2] <= n
      BY <3>2
    <3> QED
      BY <1>1, <3>3 DEF Spread
  <2> QED
    BY <1>1, <2>1, <2>2 DEF Merging
<1> QED
  BY <1>2, <1>3

\* The windows go forward and cover every split.
LEMMA WindowsSpread ==
  ASSUME NEW splits \in Seq(Texts), NEW kind, NEW overlap \in Nat
  PROVE  /\ Spread(Windows(splits, kind, overlap), Len(splits))
         /\ \A i \in 1 .. Len(splits) : Covered(Windows(splits, kind, overlap), i)
<1> DEFINE n == Len(splits)
<1>1. n \in Nat
  OBVIOUS
<1>f. PICK f : WindowsRun(f, splits, kind, overlap)
  BY <1>1, WindowsLoop
<1>2. /\ f[0] = [out |-> <<>>, first |-> 1]
      /\ \A k \in 1 .. n : f[k] = AddSplit(splits, kind, overlap, k, f[k - 1])
      /\ Windows(splits, kind, overlap) =
           IF splits = <<>> THEN <<>> ELSE Append(f[n].out, <<f[n].first, n>>)
  BY <1>f DEF WindowsRun
<1>3. CASE splits = <<>>
  <2>1. n = 0 /\ 1 .. 0 = {} /\ <<>> \in Seq(Nat \X Nat) /\ Len(<<>>) = 0
    BY <1>3
  <2>2. Windows(splits, kind, overlap) = <<>>
    BY <1>2, <1>3
  <2> HIDE DEF n
  <2>3. Spread(<<>>, n)
    BY <2>1 DEF Spread
  <2> QED
    BY <2>1, <2>2, <2>3 DEF n
<1>4. CASE splits # <<>>
  <2>1. n # 0
    BY <1>4
  <2> HIDE DEF n
  <2> DEFINE S == {k \in 0 .. n : Merging(f[k], k)}
  <2>2. 0 \in S
    <3>1. Spread(<<>>, 0)
      <4>1. 1 .. 0 = {} /\ <<>> \in Seq(Nat \X Nat) /\ Len(<<>>) = 0
        OBVIOUS
      <4> QED
        BY <4>1 DEF Spread
    <3>2. f[0].out = <<>> /\ f[0].first = 1 /\ 1 .. Len(<<>>) = {} /\ 1 .. 1 - 1 = {}
      BY <1>2
    <3>3. Merging(f[0], 0)
      BY <3>1, <3>2 DEF Merging, Reaches
    <3> QED
      BY <1>1, <3>3
  <2>3. ASSUME NEW k \in 1 .. n, k - 1 \in S PROVE k \in S
    <3>1. k \in Nat \ {0} /\ k \in 0 .. n
      BY <1>1
    <3>2. Merging(f[k - 1], k - 1)
      BY <2>3
    <3>3. Merging(AddSplit(splits, kind, overlap, k, f[k - 1]), k)
      BY <3>1, <3>2, AddSplitMerging
    <3> QED
      BY <1>2, <3>1, <3>3
  <2>4. Merging(f[n], n)
    <3>1. \A k \in 1 .. n : k - 1 \in S => k \in S
      BY <2>3
    <3> HIDE DEF S
    <3>2. \A k \in 0 .. n : k \in S
      BY <1>1, <2>2, <3>1, InductTo
    <3>3. n \in S
      BY <1>1, <3>2
    <3> QED
      BY <3>3 DEF S
  <2> DEFINE a == f[n].first
             w == f[n].out
  <2>5. /\ a \in Nat \ {0} /\ (a <= n \/ a = 1) /\ Spread(w, n)
        /\ Reaches(w, a)
        /\ \A i \in 1 .. a - 1 : Covered(w, i)
    BY <2>4 DEF Merging
  <2>6. Windows(splits, kind, overlap) = Append(w, <<a, n>>)
    BY <1>2, <1>4
  <2>a. a \in Nat /\ 1 <= a /\ n <= n
    BY <1>1, <2>5
  <2> HIDE DEF a, w
  <2>7. /\ Spread(Append(w, <<a, n>>), n)
        /\ \A i : Covered(w, i) => Covered(Append(w, <<a, n>>), i)
        /\ \A i \in a .. n : Covered(Append(w, <<a, n>>), i)
    BY <1>1, <2>5, <2>a, SpreadAppend
  <2>8. \A i \in 1 .. n : i \in 1 .. a - 1 \/ i \in a .. n
    BY <1>1, <2>5
  <2> QED
    BY <2>5, <2>6, <2>7, <2>8 DEF n
<1> QED
  BY <1>3, <1>4

(***************************************************************************)
(* Packing texts into windows.                                             *)
(***************************************************************************)
\* Packing keeps every word, and its chunks are in order.
LEMMA MergeRenders ==
  ASSUME NEW splits, NEW I, Renders(splits, I), NEW kind \in Separators, NEW overlap \in Nat
  PROVE  Renders(MergeSplits(splits, kind, overlap), I)
<1> DEFINE w == Windows(splits, kind, overlap)
           us == MergeSplits(splits, kind, overlap)
           n == Len(splits)
           m == Len(w)
<1>1. splits \in Seq(Texts) /\ n \in Nat /\ InkOf(splits, 1, n) = I
  BY DEF Renders
<1>2. Spread(w, n) /\ \A i \in 1 .. n : Covered(w, i)
  BY <1>1, WindowsSpread
<1>3. w \in Seq(Nat \X Nat) /\ m \in Nat /\ DOMAIN w = 1 .. m
  BY <1>2 DEF Spread
<1>4. us = [k \in 1 .. m |-> Join(SubSeq(splits, w[k][1], w[k][2]), kind)]
  BY <1>3 DEF MergeSplits
<1> HIDE DEF w, us, n, m
<1>5. ASSUME NEW k \in 1 .. m
      PROVE  /\ w[k][1] \in Nat /\ w[k][2] \in Nat /\ 1 <= w[k][1] /\ w[k][2] <= n
             /\ us[k] \in Texts /\ Framed(us[k]) /\ Ink(us[k]) = InkOf(splits, w[k][1], w[k][2])
  <2>1. w[k] \in Nat \X Nat
    BY <1>3 DEF m
  <2>2. w[k][1] \in Nat /\ w[k][2] \in Nat /\ 1 <= w[k][1] /\ w[k][2] <= n
    BY <1>2, <2>1 DEF Spread, m
  <2>3. Renders(SubSeq(splits, w[k][1], w[k][2]), InkOf(splits, w[k][1], w[k][2]))
    BY <2>2, RendersSub DEF n
  <2>4. us[k] = Join(SubSeq(splits, w[k][1], w[k][2]), kind)
    BY <1>4
  <2> QED
    BY <2>2, <2>3, <2>4, JoinKeeps
<1>6. us \in Seq(Texts) /\ Len(us) = m
  <2>1. us \in [1 .. m -> Texts]
    BY <1>4, <1>5
  <2> QED
    BY <1>3, <2>1
<1>7. \A k \in 1 .. m, i \in Nat : w[k][1] <= i /\ i <= w[k][2] => Ink(splits[i]) \subseteq Ink(us[k])
  <2> TAKE k \in 1 .. m, i \in Nat
  <2> HAVE w[k][1] <= i /\ i <= w[k][2]
  <2>1. i \in w[k][1] .. w[k][2]
    BY <1>5
  <2> QED
    BY <1>5, <2>1 DEF InkOf
<1>8. \A k \in 1 .. m : \A p \in Ink(us[k]) :
        \E i \in 1 .. n : w[k][1] <= i /\ i <= w[k][2] /\ p \in Ink(splits[i])
  <2> TAKE k \in 1 .. m
  <2> TAKE p \in Ink(us[k])
  <2>1. PICK i \in w[k][1] .. w[k][2] : p \in Ink(splits[i])
    BY <1>5 DEF InkOf
  <2>2. i \in 1 .. n /\ w[k][1] <= i /\ i <= w[k][2]
    BY <1>1, <1>5
  <2> QED
    BY <2>1, <2>2
<1>9. InkOf(us, 1, m) = I
  <2>1. ASSUME NEW p \in I PROVE \E k \in 1 .. m : p \in Ink(us[k])
    <3>1. PICK i \in 1 .. n : p \in Ink(splits[i])
      BY <1>1 DEF InkOf
    <3>2. PICK k \in 1 .. m : w[k][1] <= i /\ i <= w[k][2]
      BY <1>2 DEF Covered, m
    <3> QED
      BY <1>1, <1>7, <3>1, <3>2
  <2>2. ASSUME NEW k \in 1 .. m, NEW p \in Ink(us[k]) PROVE p \in I
    BY <1>1, <1>8 DEF InkOf
  <2> QED
    BY <2>1, <2>2 DEF InkOf
<1>10. ASSUME NEW j \in 1 .. m, NEW k \in 1 .. m, j < k PROVE Ahead(Ink(us[j]), Ink(us[k]))
  <2>1. w[j][1] <= w[k][1] /\ w[j][2] <= w[k][2]
    BY <1>2, <1>10 DEF Spread, m
  <2>2. Ink(us[j]) \subseteq Nat /\ Ink(us[k]) \subseteq Nat
    BY <1>5, InkyOf
  <2> SUFFICES ASSUME NEW p \in Ink(us[j]), NEW q \in Ink(us[k])
               PROVE  (\E r \in Ink(us[j]) : r <= q) /\ (\E r \in Ink(us[k]) : p <= r)
    BY DEF Ahead
  <2>3. PICK x \in 1 .. n : w[j][1] <= x /\ x <= w[j][2] /\ p \in Ink(splits[x])
    BY <1>8
  <2>4. PICK y \in 1 .. n : w[k][1] <= y /\ y <= w[k][2] /\ q \in Ink(splits[y])
    BY <1>8
  <2>5. x \in Nat /\ y \in Nat /\ p \in Nat /\ q \in Nat
    BY <1>1, <2>2
  <2>6. /\ w[j][1] \in Nat /\ w[j][2] \in Nat /\ w[k][1] \in Nat /\ w[k][2] \in Nat
    BY <1>5
  <2>7. x < y => /\ \E r \in Ink(splits[x]) : r <= q
                 /\ \E r \in Ink(splits[y]) : p <= r
    BY <2>3, <2>4 DEF Renders, Ahead, n
  <2>8. \E r \in Ink(us[j]) : r <= q
    <3>1. CASE y <= w[j][2]
      <4>1. w[j][1] <= y
        BY <2>1, <2>4, <2>5, <2>6
      <4>2. q \in Ink(us[j])
        BY <1>7, <2>4, <2>5, <3>1, <4>1
      <4> QED
        BY <2>5, <4>2
    <3>2. CASE ~(y <= w[j][2])
      <4>1. x < y
        BY <2>3, <2>5, <2>6, <3>2
      <4>2. Ink(splits[x]) \subseteq Ink(us[j])
        BY <1>7, <2>3, <2>5
      <4> QED
        BY <2>7, <4>1, <4>2
    <3> QED
      BY <3>1, <3>2
  <2>9. \E r \in Ink(us[k]) : p <= r
    <3>1. CASE w[k][1] <= x
      <4>1. x <= w[k][2]
        BY <2>1, <2>3, <2>5, <2>6
      <4>2. p \in Ink(us[k])
        BY <1>7, <2>3, <2>5, <3>1, <4>1
      <4> QED
        BY <2>5, <4>2
    <3>2. CASE ~(w[k][1] <= x)
      <4>1. x < y
        BY <2>4, <2>5, <2>6, <3>2
      <4>2. Ink(splits[y]) \subseteq Ink(us[k])
        BY <1>7, <2>4, <2>5
      <4> QED
        BY <2>7, <4>1, <4>2
    <3> QED
      BY <3>1, <3>2
  <2> QED
    BY <2>8, <2>9
<1>11. Renders(us, I)
  BY <1>5, <1>6, <1>9, <1>10 DEF Renders
<1> QED
  BY <1>11 DEF us

(***************************************************************************)
(* The parts between cuts.                                                 *)
(***************************************************************************)
Pieces(w, n, cuts) ==
  /\ w \in Seq(Nat \X Nat)
  /\ \A k \in 1 .. Len(w) : 1 <= w[k][1] /\ w[k][2] <= n
  /\ \A j, k \in 1 .. Len(w) : j < k => w[j][2] < w[k][1]
  /\ \A i \in 1 .. n : i \in cuts \/ Covered(w, i)

\* The last piece is open, and may be empty.
Open(w, n) == Len(w) \in Nat \ {0} /\ w[Len(w)][2] = n /\ w[Len(w)][1] <= n + 1

PiecesOf(s, w) == [k \in DOMAIN w |-> SubSeq(s, w[k][1], w[k][2])]

\* A part is a pair of numbers within the text.
LEMMA PieceIs ==
  ASSUME NEW w, NEW n \in Nat, NEW cuts, Pieces(w, n, cuts), NEW k \in 1 .. Len(w)
  PROVE  /\ w[k] \in Nat \X Nat /\ w[k][1] \in Nat /\ w[k][2] \in Nat
         /\ w[k] = <<w[k][1], w[k][2]>>
         /\ 1 <= w[k][1] /\ w[k][2] <= n
<1>1. w[k] \in Nat \X Nat
  BY DEF Pieces
<1>2. 1 <= w[k][1] /\ w[k][2] <= n
  BY DEF Pieces
<1> QED
  BY <1>1, <1>2

\* The parts between cuts are passages that follow each other, and lose no word if each cut
\* is at a blank.
LEMMA PiecesParted ==
  ASSUME NEW s, Passage(s), NEW w, NEW cuts, Pieces(w, Len(s), cuts),
         \A i \in 1 .. Len(s) : i \in cuts => s[i].kind \in Blank
  PROVE  Parted(PiecesOf(s, w)) /\ InkOf(PiecesOf(s, w), 1, Len(PiecesOf(s, w))) = Ink(s)
<1> DEFINE ts == PiecesOf(s, w)
           n == Len(s)
           m == Len(w)
<1>1. s \in Texts /\ n \in Nat /\ DOMAIN s = 1 .. n
  BY DEF Passage, Texts
<1>2. w \in Seq(Nat \X Nat) /\ m \in Nat /\ DOMAIN w = 1 .. m
  BY DEF Pieces
<1>3. ts = [k \in 1 .. m |-> SubSeq(s, w[k][1], w[k][2])]
  BY <1>2 DEF PiecesOf
<1> HIDE DEF ts, n, m
<1>4. ASSUME NEW k \in 1 .. m
      PROVE  /\ Passage(ts[k]) /\ ts[k] \in Texts
             /\ Ink(ts[k]) = {s[i].at : i \in {j \in Inky(s) : j \in w[k][1] .. w[k][2]}}
  <2>1. w[k][1] \in Nat /\ w[k][2] \in Nat /\ 1 <= w[k][1] /\ w[k][2] <= Len(s)
    BY <1>1, PieceIs DEF m, n
  <2>2. Passage(SubSeq(s, w[k][1], w[k][2]))
    BY <2>1, PassageSub
  <2>3. Ink(SubSeq(s, w[k][1], w[k][2])) = {s[i].at : i \in {j \in Inky(s) : j \in w[k][1] .. w[k][2]}}
    BY <1>1, <2>1, SubInk
  <2>4. ts[k] = SubSeq(s, w[k][1], w[k][2])
    BY <1>3
  <2> QED
    BY <2>2, <2>3, <2>4 DEF Passage
<1>5. ts \in Seq(Texts) /\ Len(ts) = m
  BY <1>2, <1>3, <1>4
<1>6. ASSUME NEW j \in 1 .. m, NEW k \in 1 .. m, j < k,
             NEW p \in Ink(ts[j]), NEW q \in Ink(ts[k])
      PROVE  p < q
  <2>1. PICK x \in Inky(s) : x \in w[j][1] .. w[j][2] /\ p = s[x].at
    BY <1>4
  <2>2. PICK y \in Inky(s) : y \in w[k][1] .. w[k][2] /\ q = s[y].at
    BY <1>4
  <2>3. w[j][2] < w[k][1] /\ w[j][2] \in Nat /\ w[k][1] \in Nat
    BY <1>1, <1>6, PieceIs DEF Pieces, m, n
  <2>4. x < y
    BY <2>1, <2>2, <2>3
  <2>5. x \in 1 .. Len(s) /\ y \in 1 .. Len(s)
    BY <1>1, InkyOf
  <2> QED
    BY <2>1, <2>2, <2>4, <2>5 DEF Passage
<1>7. InkOf(ts, 1, m) = Ink(s)
  <2>1. ASSUME NEW i \in Inky(s) PROVE \E k \in 1 .. m : s[i].at \in Ink(ts[k])
    <3>1. i \in 1 .. n /\ s[i].kind \notin Blank
      BY <1>1 DEF Inky
    <3>2. PICK k \in 1 .. m : w[k][1] <= i /\ i <= w[k][2]
      BY <3>1 DEF Pieces, Covered, m, n
    <3>3. w[k][1] \in Nat /\ w[k][2] \in Nat
      BY <1>1, PieceIs DEF m, n
    <3>4. i \in w[k][1] .. w[k][2]
      BY <1>1, <3>1, <3>2, <3>3
    <3> QED
      BY <1>4, <3>4
  <2>2. \A k \in 1 .. m : \A p \in Ink(ts[k]) : \E i \in Inky(s) : p = s[i].at
    BY <1>4
  <2>3. ASSUME NEW p \in Ink(s) PROVE p \in InkOf(ts, 1, m)
    <3>1. PICK i \in Inky(s) : p = s[i].at
      BY DEF Ink
    <3> QED
      BY <2>1, <3>1 DEF InkOf
  <2>4. ASSUME NEW p \in InkOf(ts, 1, m) PROVE p \in Ink(s)
    <3>1. PICK k \in 1 .. m : p \in Ink(ts[k])
      BY <2>4 DEF InkOf
    <3>2. PICK i \in Inky(s) : p = s[i].at
      BY <2>2, <3>1
    <3> QED
      BY <3>2 DEF Ink
  <2> QED
    BY <2>3, <2>4
<1>8. Parted(ts)
  BY <1>4, <1>5, <1>6 DEF Parted, Before
<1> QED
  BY <1>5, <1>7, <1>8 DEF ts

\* A part that begins at the next token, or behind it if that is a cut, can follow the others.
LEMMA PieceAdded ==
  ASSUME NEW w, NEW n \in Nat \ {0}, NEW cuts, Pieces(w, n - 1, cuts),
         NEW a \in {n, n + 1}, a = n \/ n \in cuts
  PROVE  Pieces(Append(w, <<a, n>>), n, cuts) /\ Open(Append(w, <<a, n>>), n)
<1> DEFINE u == Append(w, <<a, n>>)
           m == Len(w)
<1>1. w \in Seq(Nat \X Nat) /\ m \in Nat /\ a \in Nat /\ n - 1 \in Nat
  BY DEF Pieces
<1>2. u \in Seq(Nat \X Nat) /\ Len(u) = m + 1 /\ u[m + 1] = <<a, n>>
  BY <1>1
<1>3. \A k \in 1 .. m : u[k] = w[k]
  BY <1>1
<1>4. \A k \in 1 .. m : /\ w[k][1] \in Nat /\ w[k][2] \in Nat
                        /\ 1 <= w[k][1] /\ w[k][2] <= n /\ w[k][2] < n /\ w[k][2] < a
  <2> TAKE k \in 1 .. m
  <2>1. w[k][1] \in Nat /\ w[k][2] \in Nat /\ 1 <= w[k][1] /\ w[k][2] <= n - 1
    BY <1>1, PieceIs DEF m
  <2> QED
    BY <2>1
<1>5. u[m + 1][1] = a /\ u[m + 1][2] = n
  BY <1>2
<1> HIDE DEF u, m
<1>6. \A k \in 1 .. m + 1 : k \in 1 .. m \/ k = m + 1
  BY <1>1
<1>7. (\A k \in 1 .. m : k \in 1 .. m + 1) /\ m + 1 \in 1 .. m + 1
  BY <1>1
<1>8. \A k \in 1 .. m + 1 : 1 <= u[k][1] /\ u[k][2] <= n
  BY <1>3, <1>4, <1>5, <1>6
<1>9. ASSUME NEW j \in 1 .. m + 1, NEW k \in 1 .. m + 1, j < k PROVE u[j][2] < u[k][1]
  <2>1. j \in 1 .. m
    BY <1>1, <1>9
  <2>2. CASE k = m + 1
    BY <1>3, <1>4, <1>5, <2>1, <2>2
  <2>3. CASE k \in 1 .. m
    BY <1>3, <1>9, <2>1, <2>3 DEF Pieces, m
  <2> QED
    BY <1>6, <2>2, <2>3
<1>10. ASSUME NEW i \in 1 .. n, i \notin cuts PROVE Covered(u, i)
  <2>1. CASE i = n
    <3>1. a = n
      BY <1>10, <2>1
    <3> QED
      BY <1>2, <1>5, <1>7, <2>1, <3>1 DEF Covered
  <2>2. CASE i # n
    <3>1. i \in 1 .. n - 1
      BY <2>2
    <3>2. Covered(w, i)
      BY <1>10, <3>1 DEF Pieces
    <3> QED
      BY <1>2, <1>3, <1>7, <3>2 DEF Covered, m
  <2> QED
    BY <2>1, <2>2
<1>11. Pieces(u, n, cuts)
  BY <1>2, <1>8, <1>9, <1>10 DEF Pieces
<1>12. Open(u, n)
  <2>1. m + 1 \in Nat \ {0} /\ a <= n + 1
    BY <1>1
  <2> QED
    BY <1>2, <1>5, <2>1 DEF Open
<1> QED
  BY <1>11, <1>12 DEF u

\* The last part can take the next token.
LEMMA PieceExtended ==
  ASSUME NEW w, NEW n \in Nat \ {0}, NEW cuts, Pieces(w, n - 1, cuts), Open(w, n - 1)
  PROVE  /\ Pieces([w EXCEPT ![Len(w)] = <<@[1], n>>], n, cuts)
         /\ Open([w EXCEPT ![Len(w)] = <<@[1], n>>], n)
<1> DEFINE m == Len(w)
           u == [w EXCEPT ![m] = <<@[1], n>>]
<1>1. /\ w \in Seq(Nat \X Nat) /\ m \in Nat \ {0} /\ m \in 1 .. m /\ n - 1 \in Nat
      /\ w[m][2] = n - 1 /\ w[m][1] <= n
  BY DEF Pieces, Open
<1>2. \A k \in 1 .. m : /\ w[k][1] \in Nat /\ w[k][2] \in Nat /\ w[k][2] <= n
                        /\ 1 <= w[k][1] /\ w[k][2] <= n - 1
  <2> TAKE k \in 1 .. m
  <2>1. w[k][1] \in Nat /\ w[k][2] \in Nat /\ 1 <= w[k][1] /\ w[k][2] <= n - 1
    BY <1>1, PieceIs DEF m
  <2> QED
    BY <2>1
<1>3. <<w[m][1], n>> \in Nat \X Nat
  BY <1>1, <1>2
<1>4. u \in Seq(Nat \X Nat) /\ Len(u) = m
  BY <1>1, <1>3
<1>5. \A k \in 1 .. m : k # m => u[k] = w[k]
  BY <1>1
<1>6. u[m] = <<w[m][1], n>>
  BY <1>1
<1>7. u[m][1] = w[m][1] /\ u[m][2] = n
  BY <1>6
<1> HIDE DEF u, m
<1>8. \A k \in 1 .. m : u[k][1] = w[k][1] /\ 1 <= u[k][1] /\ u[k][2] <= n /\ w[k][2] <= u[k][2]
  <2> TAKE k \in 1 .. m
  <2>1. CASE k = m
    BY <1>1, <1>2, <1>7, <2>1
  <2>2. CASE k # m
    BY <1>1, <1>2, <1>5, <2>2
  <2> QED
    BY <2>1, <2>2
<1>9. ASSUME NEW j \in 1 .. m, NEW k \in 1 .. m, j < k PROVE u[j][2] < u[k][1]
  <2>1. j # m
    BY <1>1, <1>9
  <2>2. w[j][2] < w[k][1]
    BY <1>9 DEF Pieces, m
  <2> QED
    BY <1>5, <1>8, <2>1, <2>2
<1>10. ASSUME NEW i \in 1 .. n, i \notin cuts PROVE Covered(u, i)
  <2>1. CASE i = n
    BY <1>1, <1>4, <1>7, <2>1 DEF Covered
  <2>2. CASE i # n
    <3>1. i \in 1 .. n - 1
      BY <2>2
    <3>2. PICK k \in 1 .. m : w[k][1] <= i /\ i <= w[k][2]
      BY <1>10, <3>1 DEF Pieces, Covered, m
    <3>3. u[k][1] <= i /\ i <= n /\ i <= n - 1
      BY <1>8, <3>1, <3>2
    <3>4. i <= u[k][2]
      <4>1. CASE k = m
        BY <1>7, <3>3, <4>1
      <4>2. CASE k # m
        BY <1>5, <3>2, <4>2
      <4> QED
        BY <4>1, <4>2
    <3> QED
      BY <1>4, <3>3, <3>4 DEF Covered
  <2> QED
    BY <2>1, <2>2
<1>11. Pieces(u, n, cuts)
  BY <1>4, <1>8, <1>9, <1>10 DEF Pieces
<1>12. Open(u, n)
  <2>1. w[m][1] \in Nat /\ w[m][1] <= n + 1
    BY <1>1, <1>2
  <2> QED
    BY <1>1, <1>4, <1>7, <2>1 DEF Open
<1> QED
  BY <1>11, <1>12 DEF u, m

\* What holds after the loops of Spans and Paragraphs have seen n tokens.
Spanned(w, n, cuts) == Pieces(w, n, cuts) /\ (n \in 1 .. n /\ n \notin cuts => Open(w, n))

\* The loop begins with no parts.
LEMMA NothingCut == ASSUME NEW cuts PROVE Spanned(<<>>, 0, cuts)
<1>1. <<>> \in Seq(Nat \X Nat) /\ Len(<<>>) = 0 /\ 1 .. 0 = {}
  OBVIOUS
<1> QED
  BY <1>1 DEF Spanned, Pieces

\* A cut makes no part.
LEMMA PiecesLater ==
  ASSUME NEW w, NEW n \in Nat \ {0}, NEW cuts, Pieces(w, n - 1, cuts), n \in cuts
  PROVE  Pieces(w, n, cuts)
<1>1. n - 1 \in Nat
  OBVIOUS
<1>2. \A k \in 1 .. Len(w) : 1 <= w[k][1] /\ w[k][2] <= n
  <2> TAKE k \in 1 .. Len(w)
  <2>1. w[k][2] \in Nat /\ 1 <= w[k][1] /\ w[k][2] <= n - 1
    BY <1>1, PieceIs
  <2> QED
    BY <2>1
<1>3. \A i \in 1 .. n : i = n \/ i \in 1 .. n - 1
  OBVIOUS
<1> QED
  BY <1>2, <1>3 DEF Pieces

Nonempty(w) == \A k \in 1 .. Len(w) : w[k][1] <= w[k][2]

\* A new part has a token.
LEMMA NonemptyAdded ==
  ASSUME NEW w \in Seq(Nat \X Nat), Nonempty(w), NEW n \in Nat
  PROVE  Nonempty(Append(w, <<n, n>>))
<1> DEFINE u == Append(w, <<n, n>>)
           m == Len(w)
<1>1. m \in Nat /\ Len(u) = m + 1 /\ u[m + 1] = <<n, n>> /\ \A k \in 1 .. m : u[k] = w[k]
  OBVIOUS
<1>2. u[m + 1][1] = n /\ u[m + 1][2] = n
  BY <1>1
<1> HIDE DEF u, m
<1>3. \A k \in 1 .. m + 1 : k \in 1 .. m \/ k = m + 1
  BY <1>1
<1>4. \A k \in 1 .. m + 1 : u[k][1] <= u[k][2]
  BY <1>1, <1>2, <1>3 DEF Nonempty, m
<1> QED
  BY <1>1, <1>4 DEF Nonempty, u

\* A part that grows has a token.
LEMMA NonemptyExtended ==
  ASSUME NEW w, NEW n \in Nat \ {0}, NEW cuts, Pieces(w, n - 1, cuts), Open(w, n - 1), Nonempty(w)
  PROVE  Nonempty([w EXCEPT ![Len(w)] = <<@[1], n>>])
<1> DEFINE m == Len(w)
           u == [w EXCEPT ![m] = <<@[1], n>>]
<1>1. w \in Seq(Nat \X Nat) /\ m \in Nat \ {0} /\ m \in 1 .. m /\ w[m][1] <= n
  BY DEF Pieces, Open
<1>2. <<w[m][1], n>> \in Nat \X Nat
  <2>1. w[m] \in Nat \X Nat
    BY <1>1
  <2> QED
    BY <2>1
<1>3. Len(u) = m
  BY <1>1, <1>2
<1>4. u[m][1] = w[m][1] /\ u[m][2] = n /\ \A k \in 1 .. m : k # m => u[k] = w[k]
  BY <1>1
<1> HIDE DEF u, m
<1>5. \A k \in 1 .. m : u[k][1] <= u[k][2]
  <2> TAKE k \in 1 .. m
  <2>1. CASE k = m
    BY <1>1, <1>4, <2>1
  <2>2. CASE k # m
    BY <1>4, <2>2 DEF Nonempty, m
  <2> QED
    BY <2>1, <2>2
<1> QED
  BY <1>3, <1>5 DEF Nonempty, u, m

\* Spans makes the parts between the cuts, and none of them is empty.
LEMMA SpansPieces ==
  ASSUME NEW s, Len(s) \in Nat, NEW cuts
  PROVE  Pieces(Spans(s, cuts), Len(s), cuts) /\ Nonempty(Spans(s, cuts))
<1> DEFINE n == Len(s)
<1>1. n \in Nat
  OBVIOUS
<1>f. PICK f : SpansRun(f, s, cuts)
  BY <1>1, SpansLoop
<1>2. /\ f[0] = <<>> /\ Spans(s, cuts) = f[n]
      /\ \A k \in 1 .. n : f[k] = NextSpan(cuts, k, f[k - 1])
  BY <1>f DEF SpansRun
<1> HIDE DEF n
<1> DEFINE S == {k \in 0 .. n : Spanned(f[k], k, cuts) /\ Nonempty(f[k])}
<1>3. 0 \in S
  <2>1. Nonempty(<<>>)
    BY DEF Nonempty
  <2> QED
    BY <1>1, <1>2, <2>1, NothingCut
<1>4. ASSUME NEW k \in 1 .. n, k - 1 \in S PROVE k \in S
  <2> DEFINE w == f[k - 1]
  <2>1. k \in Nat \ {0} /\ k \in 0 .. n /\ Spanned(w, k - 1, cuts) /\ Nonempty(w)
    BY <1>1, <1>4
  <2>2. f[k] = NextSpan(cuts, k, w)
    BY <1>2
  <2> HIDE DEF w
  <2>3. CASE k \in cuts
    <3>1. f[k] = w
      BY <2>2, <2>3 DEF NextSpan
    <3>2. Pieces(w, k, cuts)
      BY <2>1, <2>3, PiecesLater DEF Spanned
    <3> QED
      BY <2>1, <2>3, <3>1, <3>2 DEF Spanned
  <2>4. CASE k \notin cuts /\ (k = 1 \/ k - 1 \in cuts)
    <3>1. f[k] = Append(w, <<k, k>>)
      BY <2>2, <2>4 DEF NextSpan
    <3>2. Pieces(Append(w, <<k, k>>), k, cuts) /\ Open(Append(w, <<k, k>>), k)
      BY <2>1, PieceAdded DEF Spanned
    <3>3. Nonempty(Append(w, <<k, k>>))
      BY <2>1, NonemptyAdded DEF Spanned, Pieces
    <3> QED
      BY <2>1, <3>1, <3>2, <3>3 DEF Spanned
  <2>5. CASE k \notin cuts /\ k # 1 /\ k - 1 \notin cuts
    <3>1. f[k] = [w EXCEPT ![Len(w)] = <<@[1], k>>]
      BY <2>2, <2>5 DEF NextSpan
    <3>2. k - 1 \in 1 .. k - 1
      BY <2>1, <2>5
    <3>3. Pieces(w, k - 1, cuts) /\ Open(w, k - 1)
      BY <2>1, <2>5, <3>2 DEF Spanned
    <3>4. /\ Pieces([w EXCEPT ![Len(w)] = <<@[1], k>>], k, cuts)
          /\ Open([w EXCEPT ![Len(w)] = <<@[1], k>>], k)
      BY <2>1, <3>3, PieceExtended
    <3>5. Nonempty([w EXCEPT ![Len(w)] = <<@[1], k>>])
      BY <2>1, <3>3, NonemptyExtended
    <3> QED
      BY <2>1, <3>1, <3>4, <3>5 DEF Spanned
  <2> QED
    BY <2>3, <2>4, <2>5
<1>5. n \in S
  <2> HIDE DEF S
  <2>1. \A k \in 1 .. n : k - 1 \in S => k \in S
    BY <1>4
  <2>2. \A k \in 0 .. n : k \in S
    BY <1>1, <1>3, <2>1, InductTo
  <2> QED
    BY <1>1, <2>2
<1> QED
  BY <1>2, <1>5 DEF n, Spanned

\* Cutting at blanks keeps every word, in order.
LEMMA CutKeeps ==
  ASSUME NEW s, Passage(s), NEW cuts,
         \A i \in 1 .. Len(s) : i \in cuts => s[i].kind \in Blank
  PROVE  Parted(CutAt(s, cuts)) /\ InkOf(CutAt(s, cuts), 1, Len(CutAt(s, cuts))) = Ink(s)
<1>1. Len(s) \in Nat
  BY DEF Passage, Texts
<1>2. Pieces(Spans(s, cuts), Len(s), cuts)
  BY <1>1, SpansPieces
<1>3. CutAt(s, cuts) = PiecesOf(s, Spans(s, cuts))
  BY DEF CutAt, PiecesOf
<1> QED
  BY <1>2, <1>3, PiecesParted

(***************************************************************************)
(* The loop of _recursive_split.                                           *)
(***************************************************************************)
LEMMA PartedBefore ==
  ASSUME NEW ts, Parted(ts), NEW a \in Nat, NEW b \in Nat, NEW c \in Nat, NEW d \in Nat,
         1 <= a, b < c, d <= Len(ts)
  PROVE  Before(InkOf(ts, a, b), InkOf(ts, c, d))
<1> SUFFICES ASSUME NEW p \in InkOf(ts, a, b), NEW q \in InkOf(ts, c, d) PROVE p < q
  BY DEF Before
<1>1. PICK j \in a .. b : p \in Ink(ts[j])
  BY DEF InkOf
<1>2. PICK k \in c .. d : q \in Ink(ts[k])
  BY DEF InkOf
<1>3. Len(ts) \in Nat
  BY DEF Parted
<1>4. j \in 1 .. Len(ts) /\ k \in 1 .. Len(ts) /\ j < k
  BY <1>3
<1> QED
  BY <1>1, <1>2, <1>4 DEF Parted, Before

\* Packing the short parts between two long ones keeps their words, in order.
LEMMA GoodRenders ==
  ASSUME NEW parts, Parted(parts), NEW kind \in Separators, NEW a \in Nat, NEW b \in Nat,
         1 <= a, b <= Len(parts)
  PROVE  Renders(Good(parts, kind, a, b), InkOf(parts, a, b))
<1>1. Renders(parts, InkOf(parts, 1, Len(parts)))
  BY PartedRenders
<1>2. Renders(SubSeq(parts, a, b), InkOf(parts, a, b))
  BY <1>1, RendersSub
<1>3. Overlap \in Nat
  BY ChunkAssumption
<1> QED
  BY <1>2, <1>3, MergeRenders DEF Good

\* What holds of the loop after n parts.
Collecting(parts, st, n) ==
  st.first \in 1 .. n + 1 /\ Renders(st.out, InkOf(parts, 1, st.first - 1))

AllRendered(parts, finer) == \A k \in 1 .. Len(parts) : Renders(finer[k], Ink(parts[k]))

\* One turn of _recursive_split keeps the words of the parts it has written, in order.
LEMMA AddPartCollecting ==
  ASSUME NEW parts, Parted(parts), NEW kind \in Separators, NEW finer, AllRendered(parts, finer),
         NEW n \in 1 .. Len(parts), NEW st, Collecting(parts, st, n - 1)
  PROVE  Collecting(parts, AddPart(parts, kind, finer, n, st), n)
<1> DEFINE a == st.first
           good == Good(parts, kind, a, n - 1)
<1>1. Len(parts) \in Nat /\ n \in Nat \ {0} /\ n - 1 \in Nat /\ n <= Len(parts) /\ n - 1 <= Len(parts)
  BY DEF Parted
<1>2. a \in Nat /\ 1 <= a /\ a <= n /\ a - 1 \in Nat /\ Renders(st.out, InkOf(parts, 1, a - 1))
  BY <1>1 DEF Collecting
<1>3. CASE Length(parts[n]) > ChunkSize
  <2>1. AddPart(parts, kind, finer, n, st) =
          [out |-> st.out \o Flush(good, finer[n]), first |-> n + 1]
    BY <1>3 DEF AddPart
  <2>2. Renders(good, InkOf(parts, a, n - 1))
    BY <1>1, <1>2, GoodRenders
  <2>3. Renders(finer[n], Ink(parts[n]))
    BY DEF AllRendered
  <2>4. InkOf(parts, n, n) = Ink(parts[n])
    <3>1. n .. n = {n}
      OBVIOUS
    <3> QED
      BY <3>1 DEF InkOf
  <2>5. Before(InkOf(parts, a, n - 1), InkOf(parts, n, n))
    <3>1. n - 1 < n
      OBVIOUS
    <3> QED
      BY <1>1, <1>2, <3>1, PartedBefore
  <2> HIDE DEF good
  <2>6. Renders(Flush(good, finer[n]), InkOf(parts, a, n - 1) \cup InkOf(parts, n, n))
    BY <2>2, <2>3, <2>4, <2>5, RendersCat DEF Flush
  <2>7. InkOf(parts, a, n - 1) \cup InkOf(parts, n, n) = InkOf(parts, a, n)
    <3>1. a .. n = (a .. n - 1) \cup (n .. n)
      BY <1>1, <1>2
    <3> QED
      BY <3>1 DEF InkOf
  <2>8. Before(InkOf(parts, 1, a - 1), InkOf(parts, a, n))
    <3>1. a - 1 < a /\ 1 <= 1
      BY <1>2
    <3> QED
      BY <1>1, <1>2, <3>1, PartedBefore
  <2>9. Renders(st.out \o Flush(good, finer[n]), InkOf(parts, 1, a - 1) \cup InkOf(parts, a, n))
    BY <1>2, <2>6, <2>7, <2>8, RendersCat
  <2>10. InkOf(parts, 1, a - 1) \cup InkOf(parts, a, n) = InkOf(parts, 1, n)
    BY <1>1, <1>2, InkOfSplit
  <2>11. n + 1 \in 1 .. n + 1 /\ (n + 1) - 1 = n
    BY <1>1
  <2> DEFINE new == AddPart(parts, kind, finer, n, st)
  <2>12. new.first = n + 1 /\ new.out = st.out \o Flush(good, finer[n])
    <3> DEFINE out == st.out \o Flush(good, finer[n])
    <3>1. new = [out |-> out, first |-> n + 1]
      BY <2>1
    <3> HIDE DEF new, out
    <3>2. new.first = n + 1 /\ new.out = out
      BY <1>1, <3>1
    <3> QED
      BY <3>2 DEF out
  <2> HIDE DEF new
  <2>13. Renders(new.out, InkOf(parts, 1, new.first - 1))
    <3>1. new.first - 1 = n
      BY <2>11, <2>12
    <3>2. Renders(new.out, InkOf(parts, 1, n))
      BY <2>9, <2>10, <2>12
    <3> QED
      BY <3>1, <3>2
  <2> QED
    BY <2>11, <2>12, <2>13 DEF Collecting, new
<1>4. CASE ~(Length(parts[n]) > ChunkSize)
  <2>1. AddPart(parts, kind, finer, n, st) = st
    BY <1>4 DEF AddPart
  <2> QED
    BY <1>1, <1>2, <2>1 DEF Collecting
<1> QED
  BY <1>3, <1>4

\* _recursive_split keeps the words of all parts if the finer splits keep those of theirs.
LEMMA CollectRenders ==
  ASSUME NEW parts, Parted(parts), NEW kind \in Separators, NEW finer, AllRendered(parts, finer)
  PROVE  Renders(Collect(parts, kind, finer), InkOf(parts, 1, Len(parts)))
<1> DEFINE n == Len(parts)
<1>1. n \in Nat
  BY DEF Parted
<1>f. PICK f : CollectRun(f, parts, kind, finer)
  BY <1>1, CollectLoop
<1>2. /\ f[0] = [out |-> <<>>, first |-> 1]
      /\ \A k \in 1 .. n : f[k] = AddPart(parts, kind, finer, k, f[k - 1])
      /\ Collect(parts, kind, finer) = f[n].out \o Good(parts, kind, f[n].first, n)
  BY <1>f DEF CollectRun
<1> DEFINE S == {k \in 0 .. n : Collecting(parts, f[k], k)}
<1>3. 0 \in S
  <2>1. f[0].out = <<>> /\ f[0].first = 1 /\ 1 \in 1 .. 0 + 1 /\ 1 - 1 = 0
    BY <1>2
  <2>2. Renders(<<>>, InkOf(parts, 1, 0))
    BY NoInkOf, RendersNone
  <2>3. Collecting(parts, f[0], 0)
    BY <2>1, <2>2 DEF Collecting
  <2> QED
    BY <1>1, <2>3
<1>4. ASSUME NEW k \in 1 .. n, k - 1 \in S PROVE k \in S
  BY <1>1, <1>2, <1>4, AddPartCollecting
<1>5. n \in S
  <2> HIDE DEF S
  <2>1. \A k \in 1 .. n : k - 1 \in S => k \in S
    BY <1>4
  <2>2. \A k \in 0 .. n : k \in S
    BY <1>1, <1>3, <2>1, InductTo
  <2> QED
    BY <1>1, <2>2
<1> DEFINE a == f[n].first
<1>6. /\ a \in Nat /\ 1 <= a /\ a <= n + 1 /\ a - 1 \in Nat
      /\ Renders(f[n].out, InkOf(parts, 1, a - 1))
  BY <1>1, <1>5 DEF Collecting
<1> HIDE DEF a
<1>7. Renders(Good(parts, kind, a, n), InkOf(parts, a, n))
  BY <1>1, <1>6, GoodRenders
<1>8. Before(InkOf(parts, 1, a - 1), InkOf(parts, a, n))
  <2>1. a - 1 < a /\ 1 <= 1 /\ n <= Len(parts)
    BY <1>1, <1>6
  <2> QED
    BY <1>1, <1>6, <2>1, PartedBefore
<1>9. InkOf(parts, 1, a - 1) \cup InkOf(parts, a, n) = InkOf(parts, 1, n)
  BY <1>1, <1>6, InkOfSplit
<1>10. Renders(f[n].out \o Good(parts, kind, a, n), InkOf(parts, 1, n))
  BY <1>6, <1>7, <1>8, <1>9, RendersCat
<1> QED
  BY <1>2, <1>10 DEF a

(***************************************************************************)
(* The window splitter.                                                    *)
(***************************************************************************)
LEMMA CharactersRender ==
  ASSUME NEW s, Passage(s)
  PROVE  Renders(SplitCharacters(s), Ink(s))
<1> DEFINE n == Len(s)
           w == [i \in 1 .. n |-> <<i, i>>]
<1>1. s \in Texts /\ n \in Nat /\ DOMAIN s = 1 .. n
  BY DEF Passage, Texts
<1>2. w \in Seq(Nat \X Nat) /\ Len(w) = n /\ DOMAIN w = 1 .. n
  BY <1>1
<1>3. \A k \in 1 .. n : w[k] = <<k, k>> /\ w[k][1] = k /\ w[k][2] = k
  OBVIOUS
<1>4. PiecesOf(s, w) = [i \in DOMAIN s |-> <<s[i]>>]
  <2>1. ASSUME NEW i \in 1 .. n PROVE SubSeq(s, i, i) = <<s[i]>>
    <3> DEFINE t == SubSeq(s, i, i)
    <3>1. i \in Nat /\ 1 <= i /\ i <= Len(s)
      BY <1>1
    <3>2. t \in Seq(Tokens) /\ Len(t) = 1 /\ t[1] = s[i]
      BY <1>1, <3>1 DEF Texts
    <3> HIDE DEF t
    <3>3. t = <<s[i]>>
      BY <3>2
    <3> QED
      BY <3>3 DEF t
  <2> QED
    BY <1>1, <1>2, <1>3, <2>1 DEF PiecesOf
<1> HIDE DEF w, n
<1>5. Pieces(w, n, {})
  <2>1. \A k \in 1 .. n : 1 <= w[k][1] /\ w[k][2] <= n
    BY <1>1, <1>3
  <2>2. \A j, k \in 1 .. n : j < k => w[j][2] < w[k][1]
    BY <1>3
  <2>3. \A i \in 1 .. n : Covered(w, i)
    BY <1>1, <1>2, <1>3 DEF Covered
  <2> QED
    BY <1>2, <2>1, <2>2, <2>3 DEF Pieces
<1> DEFINE ts == PiecesOf(s, w)
<1>6. Parted(ts) /\ InkOf(ts, 1, Len(ts)) = Ink(s)
  BY <1>5, PiecesParted DEF n
<1> HIDE DEF ts
<1>7. Renders(ts, Ink(s))
  BY <1>6, PartedRenders
<1>8. Overlap \in Nat /\ "none" \in Separators
  BY ChunkAssumption DEF Separators
<1> QED
  BY <1>4, <1>7, <1>8, MergeRenders DEF SplitCharacters, ts

\* Splitting at a blank separator makes passages that have every word.
LEMMA HavingCut ==
  ASSUME NEW s, Passage(s), NEW kind \in Blank
  PROVE  LET ts == CutAt(s, Having(s, kind)) IN
         /\ Parted(ts) /\ InkOf(ts, 1, Len(ts)) = Ink(s) /\ kind \in Separators
         /\ DOMAIN ts = 1 .. Len(ts) /\ \A k \in 1 .. Len(ts) : Passage(ts[k])
<1> DEFINE ts == CutAt(s, Having(s, kind))
<1>1. \A i \in 1 .. Len(s) : i \in Having(s, kind) => s[i].kind \in Blank
  BY DEF Having
<1>2. Parted(ts) /\ InkOf(ts, 1, Len(ts)) = Ink(s)
  BY <1>1, CutKeeps
<1> HIDE DEF ts
<1>3. DOMAIN ts = 1 .. Len(ts) /\ \A k \in 1 .. Len(ts) : Passage(ts[k])
  BY <1>2 DEF Parted
<1> QED
  BY <1>2, <1>3 DEF ts, Separators

\* Splitting at spaces, and what is too long at characters, keeps every word, in order.
LEMMA SpacesRender ==
  ASSUME NEW s, Passage(s)
  PROVE  Renders(SplitSpaces(s), Ink(s))
<1> DEFINE ts == CutAt(s, Having(s, "space"))
           finer == [k \in DOMAIN ts |-> SplitCharacters(ts[k])]
<1>1. SplitSpaces(s) =
        IF Having(s, "space") = {} THEN SplitCharacters(s) ELSE Collect(ts, "space", finer)
  BY DEF SplitSpaces, SplitOn
<1>2. /\ Parted(ts) /\ InkOf(ts, 1, Len(ts)) = Ink(s) /\ "space" \in Separators
      /\ DOMAIN ts = 1 .. Len(ts) /\ \A k \in 1 .. Len(ts) : Passage(ts[k])
  <2>1. "space" \in Blank
    BY DEF Blank
  <2> QED
    BY <2>1, HavingCut
<1> HIDE DEF ts
<1>3. AllRendered(ts, finer)
  BY <1>2, CharactersRender DEF AllRendered
<1> HIDE DEF finer
<1>4. Renders(Collect(ts, "space", finer), Ink(s))
  BY <1>2, <1>3, CollectRenders
<1> QED
  BY <1>1, <1>4, CharactersRender

\* The same from lines down.
LEMMA LinesRender ==
  ASSUME NEW s, Passage(s)
  PROVE  Renders(SplitLines(s), Ink(s))
<1> DEFINE ts == CutAt(s, Having(s, "line"))
           finer == [k \in DOMAIN ts |-> SplitSpaces(ts[k])]
<1>1. SplitLines(s) =
        IF Having(s, "line") = {} THEN SplitSpaces(s) ELSE Collect(ts, "line", finer)
  BY DEF SplitLines, SplitOn
<1>2. /\ Parted(ts) /\ InkOf(ts, 1, Len(ts)) = Ink(s) /\ "line" \in Separators
      /\ DOMAIN ts = 1 .. Len(ts) /\ \A k \in 1 .. Len(ts) : Passage(ts[k])
  <2>1. "line" \in Blank
    BY DEF Blank
  <2> QED
    BY <2>1, HavingCut
<1> HIDE DEF ts
<1>3. AllRendered(ts, finer)
  BY <1>2, SpacesRender DEF AllRendered
<1> HIDE DEF finer
<1>4. Renders(Collect(ts, "line", finer), Ink(s))
  BY <1>2, <1>3, CollectRenders
<1> QED
  BY <1>1, <1>4, SpacesRender

\* The same from blank lines down: chunk_text keeps every word, in order.
LEMMA TextRenders ==
  ASSUME NEW s, Passage(s)
  PROVE  Renders(ChunkText(s), Ink(s))
<1> DEFINE ts == CutAt(s, Having(s, "para"))
           finer == [k \in DOMAIN ts |-> SplitLines(ts[k])]
<1>1. ChunkText(s) =
        IF Strip(s) = <<>> THEN <<>>
        ELSE IF Having(s, "para") = {} THEN SplitLines(s) ELSE Collect(ts, "para", finer)
  BY DEF ChunkText, SplitOn
<1>2. /\ Parted(ts) /\ InkOf(ts, 1, Len(ts)) = Ink(s) /\ "para" \in Separators
      /\ DOMAIN ts = 1 .. Len(ts) /\ \A k \in 1 .. Len(ts) : Passage(ts[k])
  <2>1. "para" \in Blank
    BY DEF Blank
  <2> QED
    BY <2>1, HavingCut
<1> HIDE DEF ts
<1>3. AllRendered(ts, finer)
  BY <1>2, LinesRender DEF AllRendered
<1> HIDE DEF finer
<1>4. Renders(Collect(ts, "para", finer), Ink(s))
  BY <1>2, <1>3, CollectRenders
<1>5. Strip(s) = <<>> => Ink(s) = {}
  BY StripKeeps, EmptyInk DEF Passage
<1> QED
  BY <1>1, <1>4, <1>5, LinesRender, RendersNone

(***************************************************************************)
(* The stripped texts that are not empty.                                  *)
(***************************************************************************)
Kept(g, ts, k) ==
  /\ g \in Seq(Texts)
  /\ \A j \in 1 .. Len(g) : g[j] # <<>> /\ \E x \in 1 .. k : g[j] = Strip(ts[x])
  /\ \A i, j \in 1 .. Len(g) : i < j =>
       \E x, y \in 1 .. k : x < y /\ g[i] = Strip(ts[x]) /\ g[j] = Strip(ts[y])
  /\ \A x \in 1 .. k : Strip(ts[x]) = <<>> \/ \E j \in 1 .. Len(g) : g[j] = Strip(ts[x])

\* A stripped text that is not empty can follow the others.
LEMMA KeptAppend ==
  ASSUME NEW g, NEW ts, NEW k \in Nat \ {0}, Kept(g, ts, k - 1), ts[k] \in Texts,
         Strip(ts[k]) # <<>>
  PROVE  Kept(Append(g, Strip(ts[k])), ts, k)
<1> DEFINE t == Strip(ts[k])
           h == Append(g, t)
           m == Len(g)
<1>1. g \in Seq(Texts) /\ m \in Nat /\ t \in Texts
  BY StripKeeps DEF Kept
<1>2. h \in Seq(Texts) /\ Len(h) = m + 1 /\ h[m + 1] = t /\ \A j \in 1 .. m : h[j] = g[j]
  BY <1>1
<1>3. (\A x \in 1 .. k - 1 : x \in 1 .. k /\ x < k) /\ k \in 1 .. k
  OBVIOUS
<1>4. (\A x \in 1 .. k : x \in 1 .. k - 1 \/ x = k) /\ \A j \in 1 .. m + 1 : j \in 1 .. m \/ j = m + 1
  BY <1>1
<1>5. (\A j \in 1 .. m : j \in 1 .. m + 1) /\ m + 1 \in 1 .. m + 1
  BY <1>1
<1>t. t = Strip(ts[k]) /\ t # <<>>
  OBVIOUS
<1> HIDE DEF h, m, t
<1>6. \A j \in 1 .. m + 1 : h[j] # <<>> /\ \E x \in 1 .. k : h[j] = Strip(ts[x])
  <2> TAKE j \in 1 .. m + 1
  <2>1. CASE j \in 1 .. m
    <3>1. g[j] # <<>> /\ \E x \in 1 .. k - 1 : g[j] = Strip(ts[x])
      BY <2>1 DEF Kept, m
    <3>2. h[j] = g[j]
      BY <1>2, <2>1
    <3> QED
      BY <1>3, <3>1, <3>2
  <2>2. CASE j = m + 1
    <3>1. h[j] = t
      BY <1>2, <2>2
    <3> QED
      BY <1>3, <1>t, <3>1
  <2> QED
    BY <1>4, <2>1, <2>2
<1>7. ASSUME NEW i \in 1 .. m + 1, NEW j \in 1 .. m + 1, i < j
      PROVE  \E x, y \in 1 .. k : x < y /\ h[i] = Strip(ts[x]) /\ h[j] = Strip(ts[y])
  <2>1. i \in 1 .. m /\ h[i] = g[i]
    BY <1>1, <1>2, <1>7
  <2>2. CASE j \in 1 .. m
    <3>1. PICK x \in 1 .. k - 1, y \in 1 .. k - 1 : x < y /\ g[i] = Strip(ts[x]) /\ g[j] = Strip(ts[y])
      BY <1>7, <2>1, <2>2 DEF Kept, m
    <3> QED
      BY <1>2, <1>3, <2>1, <2>2, <3>1
  <2>3. CASE j = m + 1
    <3>1. PICK x \in 1 .. k - 1 : g[i] = Strip(ts[x])
      BY <2>1 DEF Kept, m
    <3> QED
      BY <1>2, <1>3, <1>t, <2>1, <2>3, <3>1
  <2> QED
    BY <1>4, <2>2, <2>3
<1>8. \A x \in 1 .. k : Strip(ts[x]) = <<>> \/ \E j \in 1 .. m + 1 : h[j] = Strip(ts[x])
  <2> TAKE x \in 1 .. k
  <2>1. CASE x \in 1 .. k - 1
    BY <1>2, <1>5, <2>1 DEF Kept, m
  <2>2. CASE x = k
    BY <1>2, <1>5, <1>t, <2>2
  <2> QED
    BY <1>4, <2>1, <2>2
<1>9. Kept(h, ts, k)
  BY <1>2, <1>6, <1>7, <1>8 DEF Kept
<1> QED
  BY <1>9 DEF h, t

\* The stripped texts that are kept are those of the list that are not empty, in order.
LEMMA StrippedKept ==
  ASSUME NEW ts \in Seq(Texts)
  PROVE  Kept(Stripped(ts), ts, Len(ts))
<1> DEFINE n == Len(ts)
<1>1. n \in Nat /\ \A k \in 1 .. n : ts[k] \in Texts
  OBVIOUS
<1>f. PICK f : StrippedRun(f, ts)
  BY <1>1, StrippedLoop
<1>2. /\ f[0] = <<>> /\ Stripped(ts) = f[n]
      /\ \A k \in 1 .. n : f[k] = KeepStripped(ts, k, f[k - 1])
  BY <1>f DEF StrippedRun
<1> HIDE DEF n
<1> DEFINE S == {k \in 0 .. n : Kept(f[k], ts, k)}
<1>3. 0 \in S
  <2>1. 1 .. 0 = {} /\ <<>> \in Seq(Texts) /\ Len(<<>>) = 0
    OBVIOUS
  <2>2. Kept(<<>>, ts, 0)
    BY <2>1 DEF Kept
  <2> QED
    BY <1>1, <1>2, <2>2
<1>4. ASSUME NEW k \in 1 .. n, k - 1 \in S PROVE k \in S
  <2> DEFINE g == f[k - 1]
  <2>1. k \in Nat \ {0} /\ k \in 0 .. n /\ Kept(g, ts, k - 1) /\ ts[k] \in Texts
    BY <1>1, <1>4
  <2>2. f[k] = KeepStripped(ts, k, g)
    BY <1>2
  <2> HIDE DEF g
  <2>3. CASE Strip(ts[k]) = <<>>
    <3>1. f[k] = g
      BY <2>2, <2>3 DEF KeepStripped
    <3>2. \A x \in 1 .. k - 1 : x \in 1 .. k
      BY <2>1
    <3>3. \A x \in 1 .. k : x \in 1 .. k - 1 \/ x = k
      BY <2>1
    <3>4. Kept(g, ts, k)
      BY <2>1, <2>3, <3>2, <3>3 DEF Kept
    <3> QED
      BY <2>1, <3>1, <3>4
  <2>4. CASE Strip(ts[k]) # <<>>
    <3>1. f[k] = Append(g, Strip(ts[k]))
      BY <2>2, <2>4 DEF KeepStripped
    <3>2. Kept(Append(g, Strip(ts[k])), ts, k)
      BY <2>1, <2>4, KeptAppend
    <3> QED
      BY <2>1, <3>1, <3>2
  <2> QED
    BY <2>3, <2>4
<1>5. n \in S
  <2> HIDE DEF S
  <2>1. \A k \in 1 .. n : k - 1 \in S => k \in S
    BY <1>4
  <2>2. \A k \in 0 .. n : k \in S
    BY <1>1, <1>3, <2>1, InductTo
  <2> QED
    BY <1>1, <2>2
<1> QED
  BY <1>2, <1>5 DEF n

\* Stripping keeps every word.
LEMMA StrippedInk ==
  ASSUME NEW ts \in Seq(Texts)
  PROVE  /\ InkOf(Stripped(ts), 1, Len(Stripped(ts))) = InkOf(ts, 1, Len(ts))
         /\ \A k \in 1 .. Len(ts) : ts[k] \in Texts /\ Ink(Strip(ts[k])) = Ink(ts[k])
<1> DEFINE g == Stripped(ts)
           n == Len(ts)
<1>1. Kept(g, ts, n)
  BY StrippedKept
<1>2. \A k \in 1 .. n : ts[k] \in Texts /\ Ink(Strip(ts[k])) = Ink(ts[k])
  <2>1. \A k \in 1 .. n : ts[k] \in Texts
    OBVIOUS
  <2> QED
    BY <2>1, StripKeeps
<1> HIDE DEF g, n
<1>3. \A j \in 1 .. Len(g) : \E x \in 1 .. n : Ink(g[j]) = Ink(ts[x])
  BY <1>1, <1>2 DEF Kept
<1>4. \A x \in 1 .. n : Ink(ts[x]) = {} \/ \E j \in 1 .. Len(g) : Ink(g[j]) = Ink(ts[x])
  BY <1>1, <1>2, EmptyInk DEF Kept
<1>5. InkOf(g, 1, Len(g)) = InkOf(ts, 1, n)
  BY <1>3, <1>4 DEF InkOf
<1> QED
  BY <1>2, <1>5 DEF g, n

\* Stripping keeps the order, and each text that is kept begins and ends with a word.
LEMMA StrippedRenders ==
  ASSUME NEW ts, NEW I, Renders(ts, I)
  PROVE  /\ Renders(Stripped(ts), I)
         /\ \A k \in 1 .. Len(Stripped(ts)) :
              LET c == Stripped(ts)[k] IN Len(c) \in Nat \ {0} /\ 1 \in Inky(c) /\ Len(c) \in Inky(c)
<1> DEFINE g == Stripped(ts)
           n == Len(ts)
<1>1. ts \in Seq(Texts) /\ InkOf(ts, 1, n) = I
  BY DEF Renders
<1>2. Kept(g, ts, n)
  BY <1>1, StrippedKept
<1>3. /\ InkOf(g, 1, Len(g)) = I
      /\ \A k \in 1 .. n : ts[k] \in Texts /\ Ink(Strip(ts[k])) = Ink(ts[k])
  BY <1>1, StrippedInk
<1>4. \A k \in 1 .. n : Framed(Strip(ts[k]))
  BY <1>3, StripKeeps DEF Renders
<1> HIDE DEF g
<1>5. \A j \in 1 .. Len(g) : Framed(g[j])
  BY <1>2, <1>4 DEF Kept
<1>6. \A i, j \in 1 .. Len(g) : i < j => Ahead(Ink(g[i]), Ink(g[j]))
  <2> TAKE i, j \in 1 .. Len(g)
  <2> HAVE i < j
  <2>1. PICK x \in 1 .. n, y \in 1 .. n : x < y /\ g[i] = Strip(ts[x]) /\ g[j] = Strip(ts[y])
    BY <1>2 DEF Kept
  <2> QED
    BY <1>3, <2>1 DEF Renders
<1>7. ASSUME NEW j \in 1 .. Len(g)
      PROVE  Len(g[j]) \in Nat \ {0} /\ 1 \in Inky(g[j]) /\ Len(g[j]) \in Inky(g[j])
  <2>1. PICK x \in 1 .. n : g[j] = Strip(ts[x]) /\ g[j] # <<>>
    BY <1>2 DEF Kept
  <2> QED
    BY <1>3, <2>1, StripKeeps
<1>8. Renders(g, I)
  BY <1>2, <1>3, <1>5, <1>6 DEF Renders, Kept
<1> QED
  BY <1>7, <1>8 DEF g

\* Stripped passages follow each other as they did.
LEMMA StrippedParted ==
  ASSUME NEW ts, Parted(ts)
  PROVE  /\ Parted(Stripped(ts))
         /\ InkOf(Stripped(ts), 1, Len(Stripped(ts))) = InkOf(ts, 1, Len(ts))
<1> DEFINE g == Stripped(ts)
           n == Len(ts)
<1>1. ts \in Seq(Texts)
  BY DEF Parted
<1>2. Kept(g, ts, n)
  BY <1>1, StrippedKept
<1>3. /\ InkOf(g, 1, Len(g)) = InkOf(ts, 1, n)
      /\ \A k \in 1 .. n : ts[k] \in Texts /\ Ink(Strip(ts[k])) = Ink(ts[k])
  BY <1>1, StrippedInk
<1>4. \A k \in 1 .. n : Passage(Strip(ts[k]))
  BY <1>3, StripKeeps DEF Parted
<1> HIDE DEF g
<1>5. \A j \in 1 .. Len(g) : Passage(g[j])
  BY <1>2, <1>4 DEF Kept
<1>6. \A i, j \in 1 .. Len(g) : i < j => Before(Ink(g[i]), Ink(g[j]))
  <2> TAKE i, j \in 1 .. Len(g)
  <2> HAVE i < j
  <2>1. PICK x \in 1 .. n, y \in 1 .. n : x < y /\ g[i] = Strip(ts[x]) /\ g[j] = Strip(ts[y])
    BY <1>2 DEF Kept
  <2> QED
    BY <1>3, <2>1 DEF Parted
<1>7. Parted(g)
  BY <1>2, <1>5, <1>6 DEF Parted, Kept
<1> QED
  BY <1>3, <1>7 DEF g, n

(***************************************************************************)
(* Markdown.                                                               *)
(***************************************************************************)
LEMMA LengthNat ==
  ASSUME NEW s, Len(s) \in Nat
  PROVE  Length(s) \in Nat
<1> DEFINE n == Len(s)
<1>f. PICK f : LengthRun(f, s)
  BY LengthLoop
<1>1. /\ n \in Nat /\ f[0] = 0 /\ Length(s) = f[n]
      /\ \A k \in 1 .. n : f[k] = f[k - 1] + Width(s[k].kind)
  BY <1>f DEF LengthRun
<1> HIDE DEF n
<1> DEFINE S == {k \in 0 .. n : f[k] \in Nat}
<1>2. 0 \in S
  BY <1>1
<1>3. ASSUME NEW k \in 1 .. n, k - 1 \in S PROVE k \in S
  <2>1. Width(s[k].kind) \in Nat
    BY DEF Width
  <2> QED
    BY <1>1, <1>3, <2>1
<1>4. n \in S
  <2> HIDE DEF S
  <2>1. \A k \in 1 .. n : k - 1 \in S => k \in S
    BY <1>3
  <2>2. \A k \in 0 .. n : k \in S
    BY <1>1, <1>2, <2>1, InductTo
  <2> QED
    BY <1>1, <2>2
<1> QED
  BY <1>1, <1>4

\* The paragraphs have every word of the section, in order.
LEMMA ParagraphsParted ==
  ASSUME NEW s, Passage(s)
  PROVE  Parted(Paragraphs(s)) /\ InkOf(Paragraphs(s), 1, Len(Paragraphs(s))) = Ink(s)
<1> DEFINE n == Len(s)
           cuts == Having(s, "para")
<1>1. n \in Nat /\ DOMAIN s = 1 .. n
  BY DEF Passage, Texts
<1>f. PICK f : ParagraphsRun(f, s)
  BY <1>1, ParagraphsLoop
<1>2. /\ f[0] = <<<<1, 0>>>> /\ Paragraphs(s) = PiecesOf(s, f[n])
      /\ \A k \in 1 .. n : f[k] = NextParagraph(s, k, f[k - 1])
  BY <1>f DEF ParagraphsRun, PiecesOf
<1> DEFINE S == {k \in 0 .. n : Pieces(f[k], k, cuts) /\ Open(f[k], k)}
<1>3. 0 \in S
  <2> DEFINE w == <<<<1, 0>>>>
  <2>1. /\ w \in Seq(Nat \X Nat) /\ Len(w) = 1 /\ w[1] = <<1, 0>> /\ 1 .. 1 = {1} /\ 1 .. 0 = {}
        /\ w[1][1] = 1 /\ w[1][2] = 0
    OBVIOUS
  <2> HIDE DEF w
  <2>2. Pieces(w, 0, cuts) /\ Open(w, 0)
    BY <2>1 DEF Pieces, Open
  <2> QED
    BY <1>1, <1>2, <2>2 DEF w
<1>4. ASSUME NEW k \in 1 .. n, k - 1 \in S PROVE k \in S
  <2> DEFINE w == f[k - 1]
  <2>1. k \in Nat \ {0} /\ k \in 0 .. n /\ Pieces(w, k - 1, cuts) /\ Open(w, k - 1)
    BY <1>1, <1>4
  <2>2. f[k] = NextParagraph(s, k, w)
    BY <1>2
  <2> HIDE DEF w
  <2>3. CASE s[k].kind = "para"
    <3>1. f[k] = Append(w, <<k + 1, k>>)
      BY <2>2, <2>3 DEF NextParagraph
    <3>2. k \in cuts
      BY <1>1, <2>3 DEF Having
    <3> HIDE DEF cuts
    <3>3. Pieces(Append(w, <<k + 1, k>>), k, cuts) /\ Open(Append(w, <<k + 1, k>>), k)
      BY <2>1, <3>2, PieceAdded
    <3> QED
      BY <2>1, <3>1, <3>3
  <2>4. CASE s[k].kind # "para"
    <3>1. f[k] = [w EXCEPT ![Len(w)] = <<@[1], k>>]
      BY <2>2, <2>4 DEF NextParagraph
    <3> HIDE DEF cuts
    <3>2. /\ Pieces([w EXCEPT ![Len(w)] = <<@[1], k>>], k, cuts)
          /\ Open([w EXCEPT ![Len(w)] = <<@[1], k>>], k)
      BY <2>1, PieceExtended
    <3> QED
      BY <2>1, <3>1, <3>2
  <2> QED
    BY <2>3, <2>4
<1>5. n \in S
  <2> HIDE DEF S
  <2>1. \A k \in 1 .. n : k - 1 \in S => k \in S
    BY <1>4
  <2>2. \A k \in 0 .. n : k \in S
    BY <1>1, <1>3, <2>1, InductTo
  <2> QED
    BY <1>1, <2>2
<1>6. \A i \in 1 .. n : i \in cuts => s[i].kind \in Blank
  BY DEF Having, Blank
<1>7. Pieces(f[n], n, cuts)
  BY <1>5
<1> HIDE DEF cuts
<1>8. Parted(PiecesOf(s, f[n])) /\ InkOf(PiecesOf(s, f[n]), 1, Len(PiecesOf(s, f[n]))) = Ink(s)
  BY <1>6, <1>7, PiecesParted
<1> QED
  BY <1>2, <1>8

\* What holds of the loop of _split_oversized_markdown_section after n paragraphs.
Buffering(paragraphs, st, n) ==
  /\ st = [out |-> st.out, first |-> st.first, size |-> st.size]
  /\ st.first \in 1 .. n + 1 /\ st.size \in Nat
  /\ Renders(st.out, InkOf(paragraphs, 1, st.first - 1))

\* Writing the buffer keeps the words of its paragraphs, in order.
LEMMA BufferRenders ==
  ASSUME NEW ps, Parted(ps), NEW a \in Nat, NEW b \in Nat, 1 <= a, b <= Len(ps),
         NEW out, Renders(out, InkOf(ps, 1, a - 1)), a <= b + 1
  PROVE  Renders(Append(out, Buffer(ps, a, b)), InkOf(ps, 1, b))
<1> DEFINE t == Buffer(ps, a, b)
<1>1. Renders(SubSeq(ps, a, b), InkOf(ps, a, b))
  BY PartedRenders, RendersSub
<1>2. "para" \in Separators
  BY DEF Separators, Blank
<1>3. t \in Texts /\ Ink(t) = InkOf(ps, a, b) /\ Framed(t)
  BY <1>1, <1>2, JoinKeeps DEF Buffer
<1> HIDE DEF t
<1>4. Renders(<<t>>, InkOf(ps, a, b))
  BY <1>3, RendersOne
<1>5. Before(InkOf(ps, 1, a - 1), InkOf(ps, a, b))
  <2>1. a - 1 < a /\ 1 <= 1 /\ a - 1 \in Nat
    OBVIOUS
  <2> QED
    BY <2>1, PartedBefore
<1>6. InkOf(ps, 1, a - 1) \cup InkOf(ps, a, b) = InkOf(ps, 1, b)
  BY InkOfSplit
<1>7. Renders(out \o <<t>>, InkOf(ps, 1, b))
  BY <1>4, <1>5, <1>6, RendersCat
<1>8. out \in Seq(Texts)
  BY DEF Renders
<1>9. Append(out, t) = out \o <<t>>
  BY <1>3, <1>8
<1> QED
  BY <1>7, <1>9 DEF t

\* Writing a full buffer first keeps the words; in front of a long paragraph it is empty.
LEMMA FlushedBuffering ==
  ASSUME NEW ps, Parted(ps), NEW n \in 1 .. Len(ps), NEW st, Buffering(ps, st, n - 1)
  PROVE  /\ Buffering(ps, Flushed(ps, n, st), n - 1)
         /\ Length(ps[n]) > MaxChars => Flushed(ps, n, st).first = n
<1>1. Len(ps) \in Nat /\ n \in Nat \ {0} /\ n - 1 \in Nat /\ n - 1 <= Len(ps) /\ (n - 1) + 1 = n
  BY DEF Parted
<1>2. st.first \in Nat /\ 1 <= st.first /\ st.first <= n /\ st.size \in Nat
  BY <1>1 DEF Buffering
<1>3. Length(ps[n]) \in Nat /\ MaxChars \in Nat
  <2>1. Len(ps[n]) \in Nat
    BY DEF Parted, Passage, Texts
  <2> QED
    BY <2>1, LengthNat, ChunkAssumption
<1>4. CASE Full(st.first < n, st.size, Length(ps[n]) + 2)
  <2> DEFINE out == Append(st.out, Buffer(ps, st.first, n - 1))
             new == Flushed(ps, n, st)
  <2>1. new = [out |-> out, first |-> n, size |-> 0]
    BY <1>4 DEF Flushed
  <2>2. Renders(out, InkOf(ps, 1, n - 1))
    <3>1. Renders(st.out, InkOf(ps, 1, st.first - 1)) /\ st.first <= (n - 1) + 1
      BY <1>1, <1>2 DEF Buffering
    <3> QED
      BY <1>1, <1>2, <3>1, BufferRenders
  <2> HIDE DEF out, new
  <2>3. new.out = out /\ new.first = n /\ new.size = 0
    BY <2>1
  <2>4. new = [out |-> new.out, first |-> new.first, size |-> new.size]
    BY <2>1, <2>3
  <2>5. n \in 1 .. (n - 1) + 1
    BY <1>1
  <2> QED
    BY <2>2, <2>3, <2>4, <2>5 DEF Buffering, new
<1>5. CASE ~Full(st.first < n, st.size, Length(ps[n]) + 2)
  <2>1. Flushed(ps, n, st) = st
    BY <1>5 DEF Flushed
  <2>2. Length(ps[n]) > MaxChars => ~(st.first < n)
    <3>1. Length(ps[n]) > MaxChars => st.size + (Length(ps[n]) + 2) > MaxChars
      BY <1>2, <1>3
    <3> QED
      BY <1>5, <3>1 DEF Full
  <2> QED
    BY <1>2, <2>1, <2>2
<1> QED
  BY <1>4, <1>5

\* Taking a paragraph keeps the words, whether it is split or added to the buffer.
LEMMA BufferedBuffering ==
  ASSUME NEW ps, Parted(ps), NEW n \in 1 .. Len(ps), NEW st, Buffering(ps, st, n - 1),
         Length(ps[n]) > MaxChars => st.first = n
  PROVE  Buffering(ps, Buffered(ps, n, st), n)
<1>1. /\ Len(ps) \in Nat /\ n \in Nat \ {0} /\ n - 1 \in Nat /\ (n - 1) + 1 = n
      /\ (n + 1) - 1 = n /\ n + 1 \in 1 .. n + 1
  BY DEF Parted
<1>2. /\ st.first \in Nat /\ 1 <= st.first /\ st.first <= n /\ st.size \in Nat
      /\ Renders(st.out, InkOf(ps, 1, st.first - 1))
      /\ st = [out |-> st.out, first |-> st.first, size |-> st.size]
  BY <1>1 DEF Buffering
<1>3. Length(ps[n]) \in Nat
  <2>1. Len(ps[n]) \in Nat
    BY DEF Parted, Passage, Texts
  <2> QED
    BY <2>1, LengthNat
<1> DEFINE new == Buffered(ps, n, st)
<1>4. CASE Length(ps[n]) > MaxChars
  <2> DEFINE out == st.out \o ChunkText(ps[n])
  <2>1. new = [out |-> out, first |-> n + 1, size |-> 0]
    BY <1>4 DEF Buffered
  <2>2. Renders(st.out, InkOf(ps, 1, n - 1))
    BY <1>2, <1>4
  <2>3. Passage(ps[n]) /\ Renders(ChunkText(ps[n]), Ink(ps[n]))
    BY TextRenders DEF Parted
  <2>4. Before(InkOf(ps, 1, n - 1), Ink(ps[n]))
    <3>1. \A j \in 1 .. n - 1 : j \in 1 .. Len(ps) /\ j < n
      BY <1>1
    <3> QED
      BY <3>1 DEF Parted, Before, InkOf
  <2>5. InkOf(ps, 1, n) = InkOf(ps, 1, n - 1) \cup Ink(ps[n])
    BY <1>1, InkOfNext
  <2>6. Renders(out, InkOf(ps, 1, n))
    BY <2>2, <2>3, <2>4, <2>5, RendersCat
  <2> HIDE DEF new, out
  <2>7. new.out = out /\ new.first = n + 1 /\ new.size = 0
    BY <1>1, <2>1
  <2>8. new = [out |-> new.out, first |-> new.first, size |-> new.size]
    BY <2>1, <2>7
  <2>9. new.first - 1 = n /\ new.first \in 1 .. n + 1 /\ new.size \in Nat
    BY <1>1, <2>7
  <2>10. Renders(new.out, InkOf(ps, 1, new.first - 1))
    BY <2>6, <2>7, <2>9
  <2> QED
    BY <2>8, <2>9, <2>10 DEF Buffering, new
<1>5. CASE ~(Length(ps[n]) > MaxChars)
  <2> DEFINE size == st.size + Length(ps[n]) + (IF st.size > 0 THEN 2 ELSE 0)
  <2>1. new = [st EXCEPT !.size = size]
    BY <1>5 DEF Buffered
  <2>2. size \in Nat
    BY <1>2, <1>3
  <2> HIDE DEF new, size
  <2>3. new = [out |-> st.out, first |-> st.first, size |-> size]
    BY <1>2, <2>1
  <2>4. new.out = st.out /\ new.first = st.first /\ new.size = size
    BY <2>3
  <2>5. st.first \in 1 .. n + 1
    BY <1>1, <1>2
  <2> QED
    BY <1>2, <2>2, <2>3, <2>4, <2>5 DEF Buffering, new
<1> QED
  BY <1>4, <1>5

\* _split_oversized_markdown_section keeps every word, in order.
LEMMA OversizedRenders ==
  ASSUME NEW s, Passage(s)
  PROVE  Renders(SplitOversized(s), Ink(s))
<1> DEFINE ps == Paragraphs(s)
           n == Len(ps)
<1>1. Parted(ps) /\ InkOf(ps, 1, n) = Ink(s)
  BY ParagraphsParted
<1>2. n \in Nat
  BY <1>1 DEF Parted
<1>f. PICK f : SplitOversizedRun(f, s)
  BY <1>2, SplitOversizedLoop
<1>3. /\ f[0] = [out |-> <<>>, first |-> 1, size |-> 0]
      /\ \A k \in 1 .. n : f[k] = AddParagraph(ps, k, f[k - 1])
      /\ SplitOversized(s) =
           IF Length(s) <= MaxChars THEN <<s>>
           ELSE IF f[n].first > n THEN f[n].out
           ELSE Append(f[n].out, Buffer(ps, f[n].first, n))
  BY <1>f DEF SplitOversizedRun
<1>w. Renders(<<s>>, Ink(s))
  BY PassageFramed, RendersOne DEF Passage
<1> HIDE DEF ps, n
<1> DEFINE S == {k \in 0 .. n : Buffering(ps, f[k], k)}
<1>4. 0 \in S
  <2>1. f[0].out = <<>> /\ f[0].first = 1 /\ f[0].size = 0 /\ 1 \in 1 .. 0 + 1 /\ 1 - 1 = 0
    BY <1>3
  <2>2. Renders(<<>>, InkOf(ps, 1, 0))
    BY NoInkOf, RendersNone
  <2>3. Buffering(ps, f[0], 0)
    BY <1>3, <2>1, <2>2 DEF Buffering
  <2> QED
    BY <1>2, <2>3
<1>5. ASSUME NEW k \in 1 .. n, k - 1 \in S PROVE k \in S
  <2> DEFINE st == Flushed(ps, k, f[k - 1])
  <2>1. Buffering(ps, f[k - 1], k - 1) /\ k \in 1 .. Len(ps) /\ k \in 0 .. n
    BY <1>2, <1>5 DEF n
  <2>2. Buffering(ps, st, k - 1) /\ (Length(ps[k]) > MaxChars => st.first = k)
    BY <1>1, <2>1, FlushedBuffering
  <2>3. f[k] = Buffered(ps, k, st)
    BY <1>3 DEF AddParagraph
  <2> HIDE DEF st
  <2>4. Buffering(ps, Buffered(ps, k, st), k)
    BY <1>1, <2>1, <2>2, BufferedBuffering
  <2> QED
    BY <2>1, <2>3, <2>4
<1>6. n \in S
  <2> HIDE DEF S
  <2>1. \A k \in 1 .. n : k - 1 \in S => k \in S
    BY <1>5
  <2>2. \A k \in 0 .. n : k \in S
    BY <1>2, <1>4, <2>1, InductTo
  <2> QED
    BY <1>2, <2>2
<1> DEFINE a == f[n].first
           out == f[n].out
<1>7. a \in Nat /\ 1 <= a /\ a <= n + 1 /\ Renders(out, InkOf(ps, 1, a - 1))
  BY <1>2, <1>6 DEF Buffering
<1> HIDE DEF a, out
<1>8. Renders(Append(out, Buffer(ps, a, n)), InkOf(ps, 1, n))
  <2>1. n <= Len(ps)
    BY <1>2 DEF n
  <2> QED
    BY <1>1, <1>2, <1>7, <2>1, BufferRenders
<1>9. a > n => Renders(out, InkOf(ps, 1, n))
  <2> HAVE a > n
  <2>1. a - 1 = n
    BY <1>2, <1>7
  <2> QED
    BY <1>7, <2>1
<1> QED
  BY <1>1, <1>3, <1>8, <1>9, <1>w DEF a, out

\* Lists that keep the words of passages, one behind the other, keep those of all.
LEMMA ConcatRenders ==
  ASSUME NEW parts, Parted(parts), NEW lists, AllRendered(parts, lists), Len(lists) = Len(parts)
  PROVE  Renders(Concat(lists), InkOf(parts, 1, Len(parts)))
<1> DEFINE n == Len(parts)
<1>1. n \in Nat
  BY DEF Parted
<1>f. PICK f : ConcatRun(f, lists)
  BY <1>1, ConcatLoop
<1>2. f[0] = <<>> /\ Concat(lists) = f[n] /\ \A k \in 1 .. n : f[k] = f[k - 1] \o lists[k]
  BY <1>f DEF ConcatRun
<1> DEFINE S == {k \in 0 .. n : Renders(f[k], InkOf(parts, 1, k))}
<1>3. 0 \in S
  <2>1. Renders(f[0], InkOf(parts, 1, 0))
    BY <1>2, NoInkOf, RendersNone
  <2> QED
    BY <1>1, <2>1
<1>4. ASSUME NEW k \in 1 .. n, k - 1 \in S PROVE k \in S
  <2>1. Renders(f[k - 1], InkOf(parts, 1, k - 1)) /\ Renders(lists[k], Ink(parts[k])) /\ k \in 0 .. n
    BY <1>1, <1>4 DEF AllRendered
  <2>2. Before(InkOf(parts, 1, k - 1), Ink(parts[k]))
    <3>1. \A j \in 1 .. k - 1 : j \in 1 .. Len(parts) /\ j < k
      BY <1>1
    <3> QED
      BY <3>1 DEF Parted, Before, InkOf
  <2>3. InkOf(parts, 1, k) = InkOf(parts, 1, k - 1) \cup Ink(parts[k])
    BY <1>1, InkOfNext
  <2>4. Renders(f[k - 1] \o lists[k], InkOf(parts, 1, k))
    BY <2>1, <2>2, <2>3, RendersCat
  <2> QED
    BY <1>2, <2>1, <2>4
<1>5. n \in S
  <2> HIDE DEF S
  <2>1. \A k \in 1 .. n : k - 1 \in S => k \in S
    BY <1>4
  <2>2. \A k \in 0 .. n : k \in S
    BY <1>1, <1>3, <2>1, InductTo
  <2> QED
    BY <1>1, <2>2
<1> QED
  BY <1>2, <1>5

\* The sections of a Markdown document have every word, in order.
LEMMA SectionsParted ==
  ASSUME NEW s, Passage(s)
  PROVE  Parted(Sections(s)) /\ InkOf(Sections(s), 1, Len(Sections(s))) = Ink(s)
<1> DEFINE cuts == {i - 1 : i \in Headers(s) \ {1}}
<1>1. s \in Texts /\ DOMAIN s = 1 .. Len(s) /\ Len(s) \in Nat
  BY DEF Passage, Texts
<1>2. \A i \in 1 .. Len(s) : i \in cuts => s[i].kind \in Blank
  <2> TAKE i \in 1 .. Len(s)
  <2> HAVE i \in cuts
  <2>1. PICK h \in Headers(s) : h # 1 /\ i = h - 1
    OBVIOUS
  <2>2. s[h - 1].kind \in {"line", "para"}
    BY <2>1 DEF Headers, LineStarts
  <2> QED
    BY <2>1, <2>2 DEF Blank
<1>3. /\ Parted(CutAt(s, cuts))
      /\ InkOf(CutAt(s, cuts), 1, Len(CutAt(s, cuts))) = Ink(s)
  BY <1>2, CutKeeps
<1>4. Sections(s) = Stripped(CutAt(s, cuts))
  BY DEF Sections
<1> QED
  BY <1>3, <1>4, StrippedParted

\* chunk_markdown keeps every word, in order.
LEMMA MarkdownRenders ==
  ASSUME NEW s, Passage(s)
  PROVE  Renders(ChunkMarkdown(s), Ink(s))
<1> DEFINE parts == Sections(s)
           lists == [k \in DOMAIN parts |-> SplitOversized(parts[k])]
<1>1. Parted(parts) /\ InkOf(parts, 1, Len(parts)) = Ink(s)
  BY SectionsParted
<1>2. ChunkMarkdown(s) = MergeSplits(Concat(lists), "para", 0)
  BY DEF ChunkMarkdown
<1> HIDE DEF parts
<1>3. DOMAIN parts = 1 .. Len(parts) /\ Len(parts) \in Nat /\ \A k \in 1 .. Len(parts) : Passage(parts[k])
  BY <1>1 DEF Parted
<1>4. AllRendered(parts, lists) /\ Len(lists) = Len(parts)
  <2>1. \A k \in 1 .. Len(parts) : Renders(SplitOversized(parts[k]), Ink(parts[k]))
    BY <1>3, OversizedRenders
  <2>2. lists \in [1 .. Len(parts) -> Seq(Texts)]
    BY <1>3, <2>1 DEF Renders
  <2>3. Len(lists) = Len(parts)
    BY <1>3, <2>2
  <2> QED
    BY <1>3, <2>1, <2>3 DEF AllRendered
<1> HIDE DEF lists
<1>5. Renders(Concat(lists), Ink(s))
  BY <1>1, <1>4, ConcatRenders
<1>6. "para" \in Separators /\ 0 \in Nat
  BY DEF Separators, Blank
<1> QED
  BY <1>2, <1>5, <1>6, MergeRenders

(***************************************************************************)
(* Python.                                                                 *)
(***************************************************************************)
LinesOf(s) == PiecesOf(s, Lines(s))

\* The lines have every word, in order.
LEMMA LinesParted ==
  ASSUME NEW s, Passage(s)
  PROVE  /\ Parted(LinesOf(s)) /\ InkOf(LinesOf(s), 1, Len(LinesOf(s))) = Ink(s)
         /\ Len(LinesOf(s)) = Len(Lines(s)) /\ Len(Lines(s)) \in Nat
<1> DEFINE cuts == Having(s, "line") \cup Having(s, "para")
           w == Lines(s)
<1>1. Len(s) \in Nat
  BY DEF Passage, Texts
<1>2. Pieces(w, Len(s), cuts)
  BY <1>1, SpansPieces DEF Lines
<1>3. \A i \in 1 .. Len(s) : i \in cuts => s[i].kind \in Blank
  BY DEF Having, Blank
<1> HIDE DEF cuts, w
<1>4. Parted(PiecesOf(s, w)) /\ InkOf(PiecesOf(s, w), 1, Len(PiecesOf(s, w))) = Ink(s)
  BY <1>2, <1>3, PiecesParted
<1>5. Len(w) \in Nat /\ DOMAIN w = 1 .. Len(w)
  BY <1>2 DEF Pieces
<1>6. DOMAIN PiecesOf(s, w) = 1 .. Len(w)
  BY <1>5 DEF PiecesOf
<1>7. Len(PiecesOf(s, w)) = Len(w)
  BY <1>4, <1>5, <1>6 DEF Parted
<1> QED
  BY <1>4, <1>5, <1>7 DEF LinesOf, w

\* The text from one line to another has the words of these lines.
LEMMA SpanKeeps ==
  ASSUME NEW s, Passage(s), NEW a \in Nat, NEW b \in Nat, 1 <= a, b <= Len(Lines(s))
  PROVE  Passage(Span(s, a, b)) /\ Ink(Span(s, a, b)) = InkOf(LinesOf(s), a, b)
<1> DEFINE cuts == Having(s, "line") \cup Having(s, "para")
           w == Lines(s)
           ts == LinesOf(s)
           m == Len(w)
<1>1. s \in Texts /\ Len(s) \in Nat /\ Inky(s) \subseteq 1 .. Len(s)
  BY InkyOf DEF Passage, Texts
<1>2. Pieces(w, Len(s), cuts) /\ Nonempty(w)
  BY <1>1, SpansPieces DEF Lines
<1>3. m \in Nat /\ DOMAIN w = 1 .. m
  BY <1>2 DEF Pieces
<1>4. \A k \in 1 .. m : /\ w[k][1] \in Nat /\ w[k][2] \in Nat /\ 1 <= w[k][1]
                        /\ w[k][2] <= Len(s) /\ w[k][1] <= w[k][2]
  BY <1>1, <1>2, PieceIs DEF Nonempty
<1>5. \A k \in 1 .. m : ts[k] = SubSeq(s, w[k][1], w[k][2])
  BY <1>3 DEF LinesOf, PiecesOf
<1>6. \A j, k \in 1 .. m : j < k => w[j][2] < w[k][1]
  BY <1>2 DEF Pieces
<1>7. \A i \in Inky(s) : i \notin cuts
  BY <1>1 DEF Inky, Having, Blank
<1>8. \A i \in Inky(s) : \E k \in 1 .. m : w[k][1] <= i /\ i <= w[k][2]
  BY <1>1, <1>2, <1>7 DEF Pieces, Covered
<1>b. b <= m
  OBVIOUS
<1> HIDE DEF w, ts, m, cuts
<1>9. \A k \in 1 .. m : Ink(ts[k]) = {s[i].at : i \in {j \in Inky(s) : j \in w[k][1] .. w[k][2]}}
  <2> TAKE k \in 1 .. m
  <2>1. w[k][1] \in Nat /\ w[k][2] \in Nat /\ 1 <= w[k][1] /\ w[k][2] <= Len(s)
    BY <1>4
  <2>2. Ink(SubSeq(s, w[k][1], w[k][2])) = {s[i].at : i \in {j \in Inky(s) : j \in w[k][1] .. w[k][2]}}
    BY <1>1, <2>1, SubInk
  <2> QED
    BY <1>5, <2>2
<1>10. CASE a > b
  <2>1. Span(s, a, b) = <<>>
    BY <1>10 DEF Span
  <2>2. a .. b = {}
    BY <1>10
  <2> QED
    BY <2>1, <2>2, EmptyInk DEF InkOf, Passage
<1>11. CASE a <= b
  <2> DEFINE x == w[a][1]
             y == w[b][2]
             t == SubSeq(s, x, y)
  <2>1. a \in 1 .. m /\ b \in 1 .. m
    BY <1>3, <1>11, <1>b
  <2>2. x \in Nat /\ y \in Nat /\ 1 <= x /\ y <= Len(s)
    BY <1>4, <2>1
  <2>3. Span(s, a, b) = Strip(t)
    BY <1>11 DEF Span, w
  <2>4. Passage(t) /\ t \in Texts
    BY <2>2, PassageSub DEF Passage
  <2>5. Ink(t) = {s[i].at : i \in {j \in Inky(s) : j \in x .. y}}
    BY <1>1, <2>2, SubInk
  <2>6. ASSUME NEW i \in Inky(s), i \in x .. y PROVE s[i].at \in InkOf(ts, a, b)
    <3>1. PICK k \in 1 .. m : w[k][1] <= i /\ i <= w[k][2]
      BY <1>8
    <3>2. /\ k \in Nat /\ i \in Nat /\ w[k][1] \in Nat /\ w[k][2] \in Nat /\ x <= i /\ i <= y
          /\ i \in w[k][1] .. w[k][2]
      BY <1>1, <1>4, <2>2, <2>6, <3>1
    <3>3. ~(k < a)
      <4>1. k < a => w[k][2] < x
        BY <1>6, <2>1
      <4> QED
        BY <2>2, <3>1, <3>2, <4>1
    <3>4. ~(b < k)
      <4>1. b < k => y < w[k][1]
        BY <1>6, <2>1
      <4> QED
        BY <2>2, <3>1, <3>2, <4>1
    <3>5. k \in a .. b
      BY <3>2, <3>3, <3>4
    <3>6. s[i].at \in Ink(ts[k])
      BY <1>9, <3>2
    <3> QED
      BY <3>5, <3>6 DEF InkOf
  <2>7. ASSUME NEW p \in InkOf(ts, a, b) PROVE p \in Ink(t)
    <3>1. PICK k \in a .. b : p \in Ink(ts[k])
      BY <2>7 DEF InkOf
    <3>2. k \in 1 .. m
      BY <1>3, <1>b
    <3>3. PICK i \in Inky(s) : i \in w[k][1] .. w[k][2] /\ p = s[i].at
      BY <1>9, <3>1, <3>2
    <3>4. /\ i \in Nat /\ k \in Nat /\ w[k][1] \in Nat /\ w[k][2] \in Nat
          /\ w[k][1] <= i /\ i <= w[k][2]
      BY <1>1, <1>4, <3>2, <3>3
    <3>5. x <= i
      <4>1. CASE k = a
        BY <3>4, <4>1
      <4>2. CASE k # a
        <5>1. w[a][2] < w[k][1] /\ w[a][1] <= w[a][2] /\ w[a][2] \in Nat
          BY <1>4, <1>6, <2>1, <3>2, <4>2
        <5> QED
          BY <2>2, <3>4, <5>1
      <4> QED
        BY <4>1, <4>2
    <3>6. i <= y
      <4>1. CASE k = b
        BY <3>4, <4>1
      <4>2. CASE k # b
        <5>1. w[k][2] < w[b][1] /\ w[b][1] <= w[b][2] /\ w[b][1] \in Nat
          BY <1>4, <1>6, <2>1, <3>2, <4>2
        <5> QED
          BY <2>2, <3>4, <5>1
      <4> QED
        BY <4>1, <4>2
    <3>7. i \in x .. y
      BY <2>2, <3>4, <3>5, <3>6
    <3> HIDE DEF t, x, y
    <3> QED
      BY <2>5, <3>3, <3>7
  <2>8. Ink(t) = InkOf(ts, a, b)
    <3>1. \A p \in Ink(t) : p \in InkOf(ts, a, b)
      BY <2>5, <2>6
    <3> HIDE DEF t
    <3> QED
      BY <2>7, <3>1
  <2> HIDE DEF t
  <2> QED
    BY <2>3, <2>4, <2>8, StripKeeps DEF ts
<1> QED
  BY <1>10, <1>11

\* A segment keeps its words, whole or split.
LEMMA EmitRenders ==
  ASSUME NEW s, Passage(s)
  PROVE  Renders(Emit(s), Ink(s))
<1>1. Renders(<<s>>, Ink(s))
  BY PassageFramed, RendersOne DEF Passage
<1>2. Renders(ChunkText(s), Ink(s))
  BY TextRenders
<1> QED
  BY <1>1, <1>2 DEF Emit

\* The nodes of a document, as ChunkAssumption has them.
Nodes(s, nodes) ==
  /\ nodes \in Seq([first : Nat, last : Nat])
  /\ \A k \in DOMAIN nodes :
       /\ PrevEnd(nodes, k) <= nodes[k].first /\ nodes[k].first <= nodes[k].last
       /\ nodes[k].last <= Len(Lines(s))

\* The end of the node before is a line of the text.
LEMMA PrevEndIs ==
  ASSUME NEW s, Passage(s), NEW nodes, Nodes(s, nodes)
  PROVE  /\ PrevEnd(nodes, 1) = 0
         /\ \A k \in 1 .. Len(nodes) : /\ nodes[k].first \in Nat /\ nodes[k].last \in Nat
                                       /\ PrevEnd(nodes, k + 1) = nodes[k].last
         /\ \A k \in 1 .. Len(nodes) + 1 :
              PrevEnd(nodes, k) \in Nat /\ PrevEnd(nodes, k) <= Len(Lines(s))
<1>1. Len(nodes) \in Nat /\ DOMAIN nodes = 1 .. Len(nodes) /\ Len(Lines(s)) \in Nat
  BY LinesParted DEF Nodes
<1>2. \A k \in 1 .. Len(nodes) : nodes[k] \in [first : Nat, last : Nat]
  <2> DEFINE R == [first : Nat, last : Nat]
  <2>1. nodes \in Seq(R)
    BY DEF Nodes
  <2> HIDE DEF R
  <2>2. \A k \in 1 .. Len(nodes) : nodes[k] \in R
    BY <2>1
  <2> QED
    BY <2>2 DEF R
<1>3. \A k \in 1 .. Len(nodes) :
        nodes[k].first \in Nat /\ nodes[k].last \in Nat /\ nodes[k].last <= Len(Lines(s))
  <2> TAKE k \in 1 .. Len(nodes)
  <2>1. nodes[k].last <= Len(Lines(s))
    BY <1>1 DEF Nodes
  <2>2. nodes[k] \in [first : Nat, last : Nat]
    BY <1>2
  <2> QED
    BY <2>1, <2>2
<1>4. PrevEnd(nodes, 1) = 0
  BY DEF PrevEnd
<1>5. \A k \in 1 .. Len(nodes) : PrevEnd(nodes, k + 1) = nodes[k].last
  <2>1. \A k \in 1 .. Len(nodes) : k + 1 # 1 /\ (k + 1) - 1 = k
    BY <1>1
  <2> QED
    BY <2>1 DEF PrevEnd
<1>6. \A k \in 1 .. Len(nodes) + 1 :
        PrevEnd(nodes, k) \in Nat /\ PrevEnd(nodes, k) <= Len(Lines(s))
  <2> TAKE k \in 1 .. Len(nodes) + 1
  <2>1. CASE k = 1
    BY <1>1, <1>4, <2>1
  <2>2. CASE k # 1
    <3>1. k - 1 \in 1 .. Len(nodes)
      BY <1>1, <2>2
    <3>2. PrevEnd(nodes, k) = nodes[k - 1].last
      BY <2>2 DEF PrevEnd
    <3> QED
      BY <1>3, <3>1, <3>2
  <2> QED
    BY <2>1, <2>2
<1> QED
  BY <1>3, <1>4, <1>5, <1>6

\* A node and the text before it have the words of the lines behind the node before, also
\* if it begins on the last of these.
LEMMA EmitNodeRenders ==
  ASSUME NEW s, Passage(s), NEW nodes, Nodes(s, nodes), NEW k \in 1 .. Len(nodes)
  PROVE  Renders(EmitNode(s, nodes, k), InkOf(LinesOf(s), PrevEnd(nodes, k) + 1, nodes[k].last))
<1> DEFINE p == PrevEnd(nodes, k)
           f == FirstLine(nodes, k)
           l == nodes[k].last
           ts == LinesOf(s)
<1>1. Len(nodes) \in Nat /\ DOMAIN nodes = 1 .. Len(nodes)
  BY DEF Nodes
<1>2. p \in Nat /\ nodes[k].first \in Nat /\ l \in Nat
  <2>1. k \in 1 .. Len(nodes) + 1
    BY <1>1
  <2> QED
    BY <2>1, PrevEndIs
<1>3. p <= nodes[k].first /\ nodes[k].first <= l /\ l <= Len(Lines(s))
  BY <1>1 DEF Nodes
<1>4. f = IF nodes[k].first > p THEN nodes[k].first ELSE p + 1
  BY DEF FirstLine
<1> HIDE DEF p, f, l, ts
<1>5. f \in Nat /\ p + 1 <= f /\ f <= l + 1 /\ f - 1 \in Nat /\ p + 1 \in Nat /\ 1 <= p + 1 /\ 1 <= f
  BY <1>2, <1>3, <1>4
<1>6. Len(Lines(s)) \in Nat /\ Len(ts) = Len(Lines(s)) /\ Parted(ts)
  BY LinesParted DEF ts
<1>7. f - 1 <= Len(Lines(s))
  BY <1>2, <1>3, <1>5, <1>6
<1>8. Passage(Span(s, p + 1, f - 1)) /\ Ink(Span(s, p + 1, f - 1)) = InkOf(ts, p + 1, f - 1)
  BY <1>5, <1>7, SpanKeeps DEF ts
<1>9. Passage(Span(s, f, l)) /\ Ink(Span(s, f, l)) = InkOf(ts, f, l)
  BY <1>2, <1>3, <1>5, SpanKeeps DEF ts
<1>10. Before(InkOf(ts, p + 1, f - 1), InkOf(ts, f, l))
  <2>1. f - 1 < f
    BY <1>5
  <2> QED
    BY <1>2, <1>3, <1>5, <1>6, <2>1, PartedBefore
<1>11. InkOf(ts, p + 1, f - 1) \cup InkOf(ts, f, l) = InkOf(ts, p + 1, l)
  <2>1. p + 1 .. l = (p + 1 .. f - 1) \cup (f .. l)
    BY <1>2, <1>5
  <2> QED
    BY <2>1 DEF InkOf
<1>12. Renders(Emit(Span(s, p + 1, f - 1)), InkOf(ts, p + 1, f - 1))
  BY <1>8, EmitRenders
<1>13. Renders(Emit(Span(s, f, l)), InkOf(ts, f, l))
  BY <1>9, EmitRenders
<1>14. Renders(Emit(Span(s, p + 1, f - 1)) \o Emit(Span(s, f, l)), InkOf(ts, p + 1, l))
  BY <1>10, <1>11, <1>12, <1>13, RendersCat
<1> QED
  BY <1>14 DEF EmitNode, p, f, l, ts

\* All nodes have the words of the lines up to the end of the last.
LEMMA NodesRender ==
  ASSUME NEW s, Passage(s), NEW nodes, Nodes(s, nodes)
  PROVE  Renders(Concat([k \in DOMAIN nodes |-> EmitNode(s, nodes, k)]),
                 InkOf(LinesOf(s), 1, PrevEnd(nodes, Len(nodes) + 1)))
<1> DEFINE n == Len(nodes)
           lists == [k \in DOMAIN nodes |-> EmitNode(s, nodes, k)]
           ts == LinesOf(s)
           End(k) == PrevEnd(nodes, k + 1)
<1>1. n \in Nat /\ DOMAIN nodes = 1 .. n
  BY DEF Nodes
<1>2. /\ End(0) = 0 /\ \A k \in 1 .. n : End(k) = nodes[k].last
      /\ \A k \in 0 .. n : End(k) \in Nat /\ End(k) <= Len(Lines(s))
  <2>1. \A k \in 0 .. n : k + 1 \in 1 .. n + 1
    BY <1>1
  <2>2. 0 + 1 = 1
    OBVIOUS
  <2> QED
    BY <2>1, <2>2, PrevEndIs
<1>3. \A k \in 1 .. n : Renders(lists[k], InkOf(ts, End(k - 1) + 1, End(k)))
  <2> TAKE k \in 1 .. n
  <2>1. End(k - 1) = PrevEnd(nodes, k) /\ End(k) = nodes[k].last
    <3>1. (k - 1) + 1 = k
      BY <1>1
    <3> QED
      BY <1>2, <3>1
  <2>2. lists[k] = EmitNode(s, nodes, k)
    BY <1>1
  <2> HIDE DEF lists, End, ts
  <2> QED
    BY <2>1, <2>2, EmitNodeRenders DEF ts
<1>4. Len(lists) = n
  <2>1. lists \in [1 .. n -> Seq(Texts)]
    BY <1>1, <1>3 DEF Renders
  <2> QED
    BY <1>1, <2>1
<1>f. PICK f : ConcatRun(f, lists)
  BY <1>1, <1>4, ConcatLoop
<1>5. f[0] = <<>> /\ Concat(lists) = f[n] /\ \A k \in 1 .. n : f[k] = f[k - 1] \o lists[k]
  BY <1>4, <1>f DEF ConcatRun
<1>6. Parted(ts) /\ Len(ts) = Len(Lines(s)) /\ Len(ts) \in Nat
  BY LinesParted
<1>7. \A k \in 1 .. n : End(k - 1) <= End(k)
  <2> TAKE k \in 1 .. n
  <2>1. (k - 1) + 1 = k
    BY <1>1
  <2>2. PrevEnd(nodes, k) <= nodes[k].first /\ nodes[k].first <= nodes[k].last
    BY <1>1 DEF Nodes
  <2>3. k - 1 \in 0 .. n /\ k \in 0 .. n
    BY <1>1
  <2>4. nodes[k].first \in Nat
    BY PrevEndIs
  <2>5. End(k - 1) \in Nat /\ End(k) \in Nat /\ End(k) = nodes[k].last
    BY <1>2, <2>3
  <2>6. End(k - 1) = PrevEnd(nodes, k)
    BY <2>1
  <2> HIDE DEF End
  <2> QED
    BY <2>2, <2>4, <2>5, <2>6
<1> HIDE DEF n, lists, ts, End
<1> DEFINE S == {k \in 0 .. n : Renders(f[k], InkOf(ts, 1, End(k)))}
<1>8. 0 \in S
  <2>1. Renders(f[0], InkOf(ts, 1, End(0)))
    BY <1>2, <1>5, NoInkOf, RendersNone
  <2> QED
    BY <1>1, <2>1
<1>9. ASSUME NEW k \in 1 .. n, k - 1 \in S PROVE k \in S
  <2> DEFINE a == End(k - 1)
             b == End(k)
  <2>1. /\ k - 1 \in 0 .. n /\ k \in 0 .. n /\ Renders(f[k - 1], InkOf(ts, 1, a))
        /\ a \in Nat /\ b \in Nat /\ a <= b /\ b <= Len(ts)
    BY <1>1, <1>2, <1>6, <1>7, <1>9
  <2>2. Renders(lists[k], InkOf(ts, a + 1, b))
    BY <1>3
  <2>3. f[k] = f[k - 1] \o lists[k]
    BY <1>5
  <2> HIDE DEF a, b
  <2>4. a < a + 1 /\ a + 1 \in Nat /\ 1 <= a + 1 /\ a + 1 <= b + 1 /\ (a + 1) - 1 = a /\ 1 <= 1
    BY <2>1
  <2>5. Before(InkOf(ts, 1, a), InkOf(ts, a + 1, b))
    BY <1>6, <2>1, <2>4, PartedBefore
  <2>6. InkOf(ts, 1, b) = InkOf(ts, 1, (a + 1) - 1) \cup InkOf(ts, a + 1, b)
    <3> DEFINE c == a + 1
    <3>1. c \in Nat /\ 1 <= c /\ c <= b + 1 /\ b \in Nat
      BY <2>1, <2>4
    <3> HIDE DEF c
    <3>2. InkOf(ts, 1, b) = InkOf(ts, 1, c - 1) \cup InkOf(ts, c, b)
      BY <3>1, InkOfSplit
    <3> QED
      BY <3>2 DEF c
  <2>7. Renders(f[k - 1] \o lists[k], InkOf(ts, 1, a) \cup InkOf(ts, a + 1, b))
    BY <2>1, <2>2, <2>5, RendersCat
  <2> QED
    BY <2>1, <2>3, <2>4, <2>6, <2>7 DEF b
<1>10. n \in S
  <2> HIDE DEF S
  <2>1. \A k \in 1 .. n : k - 1 \in S => k \in S
    BY <1>9
  <2>2. \A k \in 0 .. n : k \in S
    BY <1>1, <1>8, <2>1, InductTo
  <2> QED
    BY <1>1, <2>2
<1> QED
  BY <1>5, <1>10 DEF n, lists, ts, End

\* The segments that are packed have the words of the document.
LEMMA SegmentsRender ==
  ASSUME NEW s, Passage(s), NEW nodes, Nodes(s, nodes)
  PROVE  Renders(Concat([k \in DOMAIN nodes |-> EmitNode(s, nodes, k)])
                   \o Emit(Span(s, PrevEnd(nodes, Len(nodes) + 1) + 1, Len(Lines(s)))), Ink(s))
<1> DEFINE ts == LinesOf(s)
           m == Len(Lines(s))
           e == PrevEnd(nodes, Len(nodes) + 1)
           before == Concat([k \in DOMAIN nodes |-> EmitNode(s, nodes, k)])
           tail == Emit(Span(s, e + 1, m))
<1>2. Parted(ts) /\ InkOf(ts, 1, m) = Ink(s) /\ Len(ts) = m /\ m \in Nat
  BY LinesParted
<1>3. e \in Nat /\ e <= m
  <2>1. Len(nodes) + 1 \in 1 .. Len(nodes) + 1
    BY DEF Nodes
  <2> QED
    BY <2>1, PrevEndIs
<1>4. Renders(before, InkOf(ts, 1, e))
  BY NodesRender
<1> HIDE DEF before
<1>5. e < e + 1 /\ e + 1 \in Nat /\ 1 <= e + 1 /\ e + 1 <= m + 1 /\ (e + 1) - 1 = e /\ 1 <= 1 /\ m <= m
  BY <1>2, <1>3
<1>6. Passage(Span(s, e + 1, m)) /\ Ink(Span(s, e + 1, m)) = InkOf(ts, e + 1, m)
  BY <1>2, <1>5, SpanKeeps
<1>7. Renders(tail, InkOf(ts, e + 1, m))
  BY <1>6, EmitRenders
<1> HIDE DEF tail, ts, m, e
<1>8. Before(InkOf(ts, 1, e), InkOf(ts, e + 1, m))
  BY <1>2, <1>3, <1>5, PartedBefore
<1>9. InkOf(ts, 1, m) = InkOf(ts, 1, (e + 1) - 1) \cup InkOf(ts, e + 1, m)
  BY <1>2, <1>5, InkOfSplit
<1>10. Renders(before \o tail, Ink(s))
  <2>1. Renders(before \o tail, InkOf(ts, 1, e) \cup InkOf(ts, e + 1, m))
    BY <1>4, <1>7, <1>8, RendersCat
  <2> QED
    BY <1>2, <1>5, <1>9, <2>1
<1> QED
  BY <1>10 DEF before, tail, ts, m, e

\* chunk_python keeps every word, in order.
LEMMA PythonRenders ==
  ASSUME NEW s, Passage(s), NEW nodes, Nodes(s, nodes)
  PROVE  Renders(ChunkPython(s, nodes), Ink(s))
<1> DEFINE all == Concat([k \in DOMAIN nodes |-> EmitNode(s, nodes, k)])
                    \o Emit(Span(s, PrevEnd(nodes, Len(nodes) + 1) + 1, Len(Lines(s))))
<1>1. ChunkPython(s, nodes) =
        IF all = <<>> THEN ChunkText(s) ELSE MergeSplits(all, "para", 0)
  BY DEF ChunkPython
<1>2. Renders(all, Ink(s))
  BY SegmentsRender
<1>3. "para" \in Separators /\ 0 \in Nat
  BY DEF Separators, Blank
<1> HIDE DEF all
<1>4. Renders(MergeSplits(all, "para", 0), Ink(s))
  BY <1>2, <1>3, MergeRenders
<1> QED
  BY <1>1, <1>4, TextRenders

(***************************************************************************)
(* The chunks of a document.                                               *)
(***************************************************************************)
LEMMA TextPassage ==
  ASSUME NEW d \in Documents
  PROVE  Passage(TextOf(d)) /\ Ink(TextOf(d)) = {i \in DOMAIN d.kinds : d.kinds[i] \notin Blank}
<1> DEFINE s == TextOf(d)
           n == Len(d.kinds)
<1>1. d.kinds \in Seq(Kinds)
  BY ChunkAssumption
<1>2. n \in Nat /\ DOMAIN d.kinds = 1 .. n /\ \A i \in 1 .. n : d.kinds[i] \in Kinds
  BY <1>1
<1>3. s = [i \in 1 .. n |-> [kind |-> d.kinds[i], at |-> i]]
  BY <1>2 DEF TextOf
<1> HIDE DEF s, n
<1>4. \A i \in 1 .. n : s[i] \in Tokens /\ s[i].kind = d.kinds[i] /\ s[i].at = i
  BY <1>2, <1>3 DEF Tokens
<1>5. s \in [1 .. n -> Tokens] /\ DOMAIN s = 1 .. n
  BY <1>3, <1>4
<1>6. s \in Texts /\ Len(s) = n
  BY <1>2, <1>5 DEF Texts
<1>7. Passage(s)
  BY <1>4, <1>6 DEF Passage
<1>8. Inky(s) = {i \in DOMAIN d.kinds : d.kinds[i] \notin Blank}
  BY <1>2, <1>4, <1>5 DEF Inky
<1>9. \A i \in Inky(s) : s[i].at = i
  BY <1>4, <1>5 DEF Inky
<1>10. Ink(s) = Inky(s)
  BY <1>9 DEF Ink
<1> QED
  BY <1>7, <1>8, <1>10 DEF s

\* A document of any kind is split without losing a word, in order.
LEMMA DocumentRenders ==
  ASSUME NEW d \in Documents
  PROVE  Renders(ChunkDocument(d), Ink(TextOf(d)))
<1> DEFINE s == TextOf(d)
<1>1. Passage(s)
  BY TextPassage
<1>2. d.kind \in {"text", "markdown", "python"}
  BY ChunkAssumption
<1> HIDE DEF s
<1>3. CASE d.kind = "text"
  BY <1>1, <1>3, TextRenders DEF ChunkDocument, s
<1>4. CASE d.kind = "markdown"
  BY <1>1, <1>4, MarkdownRenders DEF ChunkDocument, s
<1>5. CASE d.kind = "python"
  <2>1. Nodes(s, d.nodes)
    BY <1>5, ChunkAssumption DEF Nodes, s
  <2>2. Renders(ChunkPython(s, d.nodes), Ink(s))
    BY <1>1, <2>1, PythonRenders
  <2> QED
    BY <1>5, <2>2 DEF ChunkDocument, s
<1> QED
  BY <1>2, <1>3, <1>4, <1>5

\* The inductive invariant: the chunks, if there are any, are those of the document.
ChunkInv ==
  document \in Documents /\ (Done => chunks = Stripped(ChunkDocument(document)))

\* index_file splits the document it has read, and what it has split is not split again.
THEOREM ChunksOfDocument == ChunkSpec => []ChunkInv
<1>1. ChunkInit => ChunkInv
  BY DEF ChunkInit, ChunkInv, Done
<1>2. ChunkInv /\ [IndexFile]_<<document, chunks>> => ChunkInv'
  BY DEF ChunkInv, IndexFile, Done
<1> QED
  BY <1>1, <1>2, PTL DEF ChunkSpec

\* For every document, chunk size, overlap and maximum: no word of the document is lost by
\* splitting, packing and stripping, and no chunk begins or ends before its predecessor.
THEOREM EveryWordInOrder == ChunkSpec => []CoversInOrder
<1>1. ASSUME ChunkInv PROVE CoversInOrder
  <2> SUFFICES ASSUME Done
               PROVE  /\ \A i \in DOMAIN document.kinds :
                           document.kinds[i] \notin Blank =>
                             \E k \in DOMAIN chunks : i \in Places(chunks[k])
                      /\ \A k \in 2 .. Len(chunks) :
                           /\ chunks[k - 1][1].at <= chunks[k][1].at
                           /\ chunks[k - 1][Len(chunks[k - 1])].at <= chunks[k][Len(chunks[k])].at
    BY DEF CoversInOrder
  <2> DEFINE I == Ink(TextOf(document))
  <2>1. document \in Documents /\ chunks = Stripped(ChunkDocument(document))
    BY <1>1 DEF ChunkInv
  <2>2. Renders(ChunkDocument(document), I)
    BY <2>1, DocumentRenders
  <2>3. /\ Renders(chunks, I)
        /\ \A k \in 1 .. Len(chunks) :
             LET c == chunks[k] IN Len(c) \in Nat \ {0} /\ 1 \in Inky(c) /\ Len(c) \in Inky(c)
    BY <2>1, <2>2, StrippedRenders
  <2>4. I = {i \in DOMAIN document.kinds : document.kinds[i] \notin Blank}
    BY <2>1, TextPassage
  <2>n. I \subseteq Nat \ {0}
    <3>1. document.kinds \in Seq(Kinds)
      BY <2>1, ChunkAssumption
    <3> QED
      BY <2>4, <3>1
  <2> HIDE DEF I
  <2>5. /\ chunks \in Seq(Texts) /\ Len(chunks) \in Nat /\ DOMAIN chunks = 1 .. Len(chunks)
        /\ \A k \in 1 .. Len(chunks) : chunks[k] \in Texts
    BY <2>3 DEF Renders
  <2>6. ASSUME NEW i \in I PROVE \E k \in DOMAIN chunks : i \in Places(chunks[k])
    <3>1. PICK k \in 1 .. Len(chunks) : i \in Ink(chunks[k])
      BY <2>3 DEF Renders, InkOf
    <3>2. i # 0
      BY <2>n
    <3>3. i \in Places(chunks[k])
      BY <3>1, <3>2 DEF Places, Ink, Inky
    <3> QED
      BY <2>5, <3>1, <3>3
  <2>7. ASSUME NEW k \in 1 .. Len(chunks)
        PROVE  LET c == chunks[k] IN
               /\ c[1].at \in Ink(c) /\ c[Len(c)].at \in Ink(c) /\ Ink(c) \subseteq Nat
               /\ \A p \in Ink(c) : c[1].at <= p /\ p <= c[Len(c)].at
    <3> DEFINE c == chunks[k]
    <3>1. c \in Texts /\ Framed(c) /\ 1 \in Inky(c) /\ Len(c) \in Inky(c) /\ Len(c) \in Nat \ {0}
      BY <2>3, <2>5 DEF Renders
    <3> HIDE DEF c
    <3>2. PICK f \in Inky(c), l \in Inky(c) : Frame(c, f, l)
      BY <3>1 DEF Framed
    <3>3. Inky(c) \subseteq 1 .. Len(c) /\ Ink(c) \subseteq Nat
      BY <3>1, InkyOf
    <3>4. f <= 1 /\ Len(c) <= l
      BY <3>1, <3>2 DEF Frame
    <3>5. f = 1 /\ l = Len(c)
      BY <3>1, <3>3, <3>4
    <3>6. \A i \in Inky(c) : c[1].at <= c[i].at /\ c[i].at <= c[Len(c)].at
      BY <3>2, <3>5 DEF Frame
    <3>7. \A p \in Ink(c) : c[1].at <= p /\ p <= c[Len(c)].at
      BY <3>6 DEF Ink
    <3> QED
      BY <3>1, <3>3, <3>7 DEF Ink, c
  <2>8. ASSUME NEW k \in 2 .. Len(chunks)
        PROVE  /\ chunks[k - 1][1].at <= chunks[k][1].at
               /\ chunks[k - 1][Len(chunks[k - 1])].at <= chunks[k][Len(chunks[k])].at
    <3> DEFINE c == chunks[k - 1]
               e == chunks[k]
    <3>1. k - 1 \in 1 .. Len(chunks) /\ k \in 1 .. Len(chunks) /\ k - 1 < k
      BY <2>5
    <3>2. Ahead(Ink(c), Ink(e))
      BY <2>3, <3>1 DEF Renders
    <3>3. /\ c[1].at \in Ink(c) /\ c[Len(c)].at \in Ink(c) /\ Ink(c) \subseteq Nat
          /\ \A p \in Ink(c) : c[1].at <= p /\ p <= c[Len(c)].at
      BY <2>7, <3>1
    <3>4. /\ e[1].at \in Ink(e) /\ e[Len(e)].at \in Ink(e) /\ Ink(e) \subseteq Nat
          /\ \A p \in Ink(e) : e[1].at <= p /\ p <= e[Len(e)].at
      BY <2>7, <3>1
    <3> HIDE DEF c, e
    <3>5. PICK r \in Ink(c) : r <= e[1].at
      BY <3>2, <3>3, <3>4 DEF Ahead
    <3>6. c[1].at <= e[1].at
      <4>1. r \in Nat /\ c[1].at \in Nat /\ e[1].at \in Nat /\ c[1].at <= r
        BY <3>3, <3>4
      <4> QED
        BY <3>5, <4>1
    <3>7. PICK q \in Ink(e) : c[Len(c)].at <= q
      BY <3>2, <3>3, <3>4 DEF Ahead
    <3>8. c[Len(c)].at <= e[Len(e)].at
      <4>1. q \in Nat /\ c[Len(c)].at \in Nat /\ e[Len(e)].at \in Nat /\ q <= e[Len(e)].at
        BY <3>3, <3>4
      <4> QED
        BY <3>7, <4>1
    <3> QED
      BY <3>6, <3>8 DEF c, e
  <2> QED
    BY <2>4, <2>6, <2>8
<1> QED
  BY <1>1, ChunksOfDocument, PTL

(***************************************************************************)
(* Lengths.                                                                *)
(***************************************************************************)
LEMMA LengthSum ==
  ASSUME NEW s \in Texts, NEW t \in Texts
  PROVE  /\ s \o t \in Texts /\ Length(s) \in Nat /\ Length(t) \in Nat
         /\ Length(s \o t) = Length(s) + Length(t)
<1> DEFINE n == Len(s)
           m == Len(t)
<1>1. /\ s \in Seq(Tokens) /\ t \in Seq(Tokens) /\ n \in Nat /\ m \in Nat
      /\ Len(s \o t) = n + m /\ s \o t \in Seq(Tokens)
      /\ \A k \in 1 .. n : (s \o t)[k] = s[k]
      /\ \A k \in 1 .. m : (s \o t)[n + k] = t[k]
  BY DEF Texts
<1>2. PICK f : LengthRun(f, s)
  BY <1>1, LengthLoop
<1>3. PICK g : LengthRun(g, t)
  BY <1>1, LengthLoop
<1>a. Len(s \o t) \in Nat
  BY <1>1
<1>4. PICK h : LengthRun(h, s \o t)
  BY <1>a, LengthLoop
<1>5. /\ f[0] = 0 /\ \A k \in 1 .. n : f[k] = f[k - 1] + Width(s[k].kind)
      /\ Length(s) = f[n]
  BY <1>2 DEF LengthRun
<1>6. /\ g[0] = 0 /\ \A k \in 1 .. m : g[k] = g[k - 1] + Width(t[k].kind)
      /\ Length(t) = g[m]
  BY <1>3 DEF LengthRun
<1>7. /\ h[0] = 0 /\ \A k \in 1 .. n + m : h[k] = h[k - 1] + Width((s \o t)[k].kind)
      /\ Length(s \o t) = h[n + m]
  BY <1>1, <1>4 DEF LengthRun
<1>8. \A k : Width(k) \in Nat
  BY DEF Width
<1> HIDE DEF n, m
<1>9. \A k \in 0 .. n : f[k] \in Nat /\ h[k] = f[k]
  <2> DEFINE S == {k \in 0 .. n : f[k] \in Nat /\ h[k] = f[k]}
  <2>1. 0 \in S
    BY <1>1, <1>5, <1>7
  <2>2. ASSUME NEW k \in 1 .. n, k - 1 \in S PROVE k \in S
    <3>1. k \in 1 .. n + m /\ k \in 0 .. n
      BY <1>1
    <3>2. f[k] = f[k - 1] + Width(s[k].kind) /\ h[k] = h[k - 1] + Width(s[k].kind)
      BY <1>1, <1>5, <1>7, <3>1
    <3> QED
      BY <1>8, <2>2, <3>1, <3>2
  <2>3. \A k \in 1 .. n : k - 1 \in S => k \in S
    BY <2>2
  <2> HIDE DEF S
  <2>4. \A k \in 0 .. n : k \in S
    BY <1>1, <2>1, <2>3, InductTo
  <2> QED
    BY <2>4 DEF S
<1>10. \A k \in 0 .. m : g[k] \in Nat /\ h[n + k] = f[n] + g[k]
  <2> DEFINE S == {k \in 0 .. m : g[k] \in Nat /\ h[n + k] = f[n] + g[k]}
  <2>1. 0 \in S
    <3>1. n + 0 = n /\ n \in 0 .. n
      BY <1>1
    <3>2. h[n + 0] = f[n] + g[0] /\ g[0] \in Nat
      BY <1>6, <1>9, <3>1
    <3> QED
      BY <1>1, <3>2
  <2>2. ASSUME NEW k \in 1 .. m, k - 1 \in S PROVE k \in S
    <3>1. n + k \in 1 .. n + m /\ k \in 0 .. m /\ (n + k) - 1 = n + (k - 1) /\ n \in 0 .. n
      BY <1>1
    <3>2. h[n + k] = h[n + (k - 1)] + Width(t[k].kind)
      BY <1>1, <1>7, <3>1
    <3>3. g[k] = g[k - 1] + Width(t[k].kind)
      BY <1>6
    <3>4. g[k - 1] \in Nat /\ h[n + (k - 1)] = f[n] + g[k - 1]
      BY <2>2
    <3>5. f[n] \in Nat
      BY <1>9, <3>1
    <3> QED
      BY <1>8, <3>1, <3>2, <3>3, <3>4, <3>5
  <2>3. \A k \in 1 .. m : k - 1 \in S => k \in S
    BY <2>2
  <2> HIDE DEF S
  <2>4. \A k \in 0 .. m : k \in S
    BY <1>1, <2>1, <2>3, InductTo
  <2> QED
    BY <2>4 DEF S
<1>11. n \in 0 .. n /\ m \in 0 .. m
  BY <1>1
<1> QED
  BY <1>1, <1>5, <1>6, <1>7, <1>9, <1>10, <1>11 DEF Texts

\* A part of a text is no longer than the text.
LEMMA PartIsShorter ==
  ASSUME NEW s \in Texts, NEW a \in Nat, NEW b \in Nat, 1 <= a, b <= Len(s)
  PROVE  /\ SubSeq(s, a, b) \in Texts
         /\ Length(SubSeq(s, a, b)) \in Nat /\ Length(s) \in Nat
         /\ Length(SubSeq(s, a, b)) <= Length(s)
<1> DEFINE p == SubSeq(s, a, b)
<1>1. s \in Seq(Tokens) /\ Len(s) \in Nat
  BY DEF Texts
<1>2. <<>> \in Texts
  BY DEF Texts
<1>3. CASE a > b
  <2>1. p = <<>>
    BY <1>1, <1>3
  <2>2. s \o <<>> = s
    BY <1>1, ConcatEmptySeq
  <2>3. Length(s) = Length(s) + Length(<<>>) /\ Length(<<>>) \in Nat /\ Length(s) \in Nat
    BY <1>2, <2>2, LengthSum
  <2> QED
    BY <1>2, <2>1, <2>3
<1>4. CASE a <= b
  <2> DEFINE q == SubSeq(s, 1, a - 1)
             r == SubSeq(s, b + 1, Len(s))
             l == SubSeq(s, 1, b)
  <2>1. /\ 1 \in Nat /\ a - 1 \in Nat /\ b + 1 \in Nat /\ (a - 1) + 1 = a /\ 1 <= 1
        /\ 1 <= (a - 1) + 1 /\ a - 1 <= b /\ 1 <= b + 1 /\ b <= Len(s) /\ Len(s) <= Len(s)
        /\ a - 1 <= Len(s)
    BY <1>1, <1>4
  <2>2. q \in Texts
    BY <2>1, SubInky
  <2>3. p \in Texts
    BY SubInky
  <2>4. r \in Texts
    BY <1>1, <2>1, SubInky
  <2>5. l = q \o p
    <3>1. 1 \in 1 .. Len(s) + 1 /\ a - 1 \in 1 - 1 .. Len(s) /\ b \in a - 1 .. Len(s)
      BY <1>1, <2>1
    <3>2. SubSeq(s, 1, a - 1) \o SubSeq(s, (a - 1) + 1, b) = SubSeq(s, 1, b)
      BY <1>1, <3>1, ConcatAdjacentSubSeq
    <3> QED
      BY <2>1, <3>2
  <2>6. SubSeq(s, 1, Len(s)) = l \o r
    <3>1. 1 \in 1 .. Len(s) + 1 /\ b \in 1 - 1 .. Len(s) /\ Len(s) \in b .. Len(s)
      BY <1>1, <2>1
    <3> QED
      BY <1>1, <3>1, ConcatAdjacentSubSeq
  <2>7. SubSeq(s, 1, Len(s)) = s
    BY <1>1, SubSeqFull
  <2> HIDE DEF p, q, r, l
  <2>8. /\ l \in Texts /\ Length(q) \in Nat /\ Length(p) \in Nat /\ Length(l) = Length(q) + Length(p)
    BY <2>2, <2>3, <2>5, LengthSum
  <2>9. Length(l \o r) = Length(l) + Length(r) /\ Length(r) \in Nat
    BY <2>4, <2>8, LengthSum
  <2>10. s = l \o r
    BY <2>6, <2>7
  <2> QED
    BY <2>3, <2>8, <2>9, <2>10 DEF p
<1> QED
  BY <1>1, <1>3, <1>4

\* The length of one token is its width.
LEMMA LengthOne ==
  ASSUME NEW t \in Tokens
  PROVE  <<t>> \in Texts /\ Length(<<t>>) = Width(t.kind) /\ Width(t.kind) \in Nat /\ Width(t.kind) <= 2
<1>1. <<t>> \in Texts /\ Len(<<t>>) = 1 /\ <<t>>[1] = t
  BY DEF Texts
<1>2. PICK f : LengthRun(f, <<t>>)
  BY <1>1, LengthLoop
<1>3. f[0] = 0 /\ f[1] = f[1 - 1] + Width(t.kind) /\ Length(<<t>>) = f[1]
  BY <1>1, <1>2 DEF LengthRun
<1>4. Width(t.kind) \in Nat /\ Width(t.kind) <= 2
  BY DEF Width
<1> QED
  BY <1>1, <1>3, <1>4

\* The empty text has no length.
LEMMA LengthZero == Length(<<>>) = 0
<1>1. PICK f : LengthRun(f, <<>>)
  BY LengthLoop
<1> QED
  BY <1>1 DEF LengthRun

\* Only the empty text has no length.
LEMMA NoLength ==
  ASSUME NEW s \in Texts, Length(s) <= 0
  PROVE  s = <<>>
<1> SUFFICES ASSUME s # <<>> PROVE FALSE
  OBVIOUS
<1>1. s \in Seq(Tokens) /\ Len(s) \in Nat /\ 1 <= 1 /\ 1 <= Len(s) /\ s[1] \in Tokens
  BY DEF Texts
<1>2. SubSeq(s, 1, 1) = <<s[1]>>
  <2>1. 1 \in 1 .. Len(s) /\ 1 \in Int /\ \A i \in 1 .. 1 : s[i] \in Tokens
    BY <1>1
  <2>a. 1 - 1 + 1 = 1 /\ 1 + 1 - 1 = 1 /\ 1 \in 1 .. 1 /\ 1 <= 1
    OBVIOUS
  <2>2. /\ SubSeq(s, 1, 1) \in Seq(Tokens) /\ Len(SubSeq(s, 1, 1)) = 1
        /\ SubSeq(s, 1, 1)[1] = s[1]
    <3>1. /\ SubSeq(s, 1, 1) \in Seq(Tokens) /\ Len(SubSeq(s, 1, 1)) = (IF 1 <= 1 THEN 1 - 1 + 1 ELSE 0)
          /\ \A i \in 1 .. 1 - 1 + 1 : SubSeq(s, 1, 1)[i] = s[1 + i - 1]
      BY <2>1, SubSeqProperties
    <3> QED
      BY <2>a, <3>1
  <2>3. <<s[1]>> \in Seq(Tokens) /\ Len(<<s[1]>>) = 1 /\ <<s[1]>>[1] = s[1]
    BY <1>1
  <2>4. \A i \in 1 .. 1 : SubSeq(s, 1, 1)[i] = <<s[1]>>[i]
    BY <2>2, <2>3
  <2> QED
    BY <2>2, <2>3, <2>4, SeqEqual
<1>3. Length(<<s[1]>>) <= Length(s) /\ Length(s) \in Nat /\ Length(<<s[1]>>) \in Nat
  BY <1>1, <1>2, PartIsShorter
<1>4. Length(<<s[1]>>) = Width(s[1].kind) /\ Width(s[1].kind) > 0
  BY <1>1, LengthOne DEF Width
<1> QED
  BY <1>3, <1>4

(***************************************************************************)
(* Joined texts and their lengths.                                         *)
(***************************************************************************)
\* What join() makes of texts is a text.
LEMMA JoinIsText ==
  ASSUME NEW ts \in Seq(Texts), NEW kind \in Separators
  PROVE  Join(ts, kind) \in Texts
<1> DEFINE n == Len(ts)
           glue == Glue(kind)
<1>1. n \in Nat /\ \A k \in 1 .. n : ts[k] \in Texts
  OBVIOUS
<1>f. PICK f : JoinRun(f, ts, kind)
  BY <1>1, JoinLoop
<1>2. /\ f[0] = <<>> /\ Join(ts, kind) = f[n]
      /\ \A k \in 1 .. n : f[k] = IF k = 1 THEN ts[k] ELSE f[k - 1] \o glue \o ts[k]
  BY <1>f DEF JoinRun, JoinPart
<1>3. glue \in Texts
  BY GlueInk DEF Separators
<1> HIDE DEF n, glue
<1> DEFINE S == {k \in 0 .. n : f[k] \in Texts}
<1>4. 0 \in S
  BY <1>1, <1>2, EmptyInk
<1>5. ASSUME NEW k \in 1 .. n, k - 1 \in S PROVE k \in S
  <2>1. k \in 0 .. n /\ ts[k] \in Texts /\ f[k - 1] \in Texts
    BY <1>1, <1>5
  <2>2. f[k - 1] \o glue \in Texts
    BY <1>3, <2>1, LengthSum
  <2>3. (f[k - 1] \o glue) \o ts[k] \in Texts
    BY <2>1, <2>2, LengthSum
  <2> QED
    BY <1>2, <2>1, <2>3
<1>6. \A k \in 1 .. n : k - 1 \in S => k \in S
  BY <1>5
<1> HIDE DEF S
<1>7. \A k \in 0 .. n : k \in S
  BY <1>1, <1>4, <1>6, InductTo
<1>8. n \in S
  BY <1>1, <1>7
<1> QED
  BY <1>2, <1>8 DEF S

\* Joining one text makes that text.
LEMMA JoinOne ==
  ASSUME NEW ts \in Seq(Texts), NEW kind, NEW b \in 1 .. Len(ts)
  PROVE  Join(SubSeq(ts, b, b), kind) = ts[b]
<1> DEFINE u == SubSeq(ts, b, b)
<1>1. b \in Int /\ \A i \in b .. b : ts[i] \in Texts
  OBVIOUS
<1>2. /\ u \in Seq(Texts) /\ Len(u) = (IF b <= b THEN b - b + 1 ELSE 0)
      /\ \A i \in 1 .. b - b + 1 : u[i] = ts[b + i - 1]
  BY <1>1, SubSeqProperties
<1>3. b <= b /\ b - b + 1 = 1 /\ 1 \in 1 .. 1 /\ b + 1 - 1 = b
  OBVIOUS
<1>4. Len(u) = 1 /\ u[1] = ts[b]
  BY <1>2, <1>3
<1> HIDE DEF u
<1>5. PICK f : JoinRun(f, u, kind)
  BY <1>4, JoinLoop
<1>6. f[1] = JoinPart(u, kind, 1, f[1 - 1]) /\ Join(u, kind) = f[1]
  BY <1>4, <1>5 DEF JoinRun
<1> QED
  BY <1>4, <1>6 DEF JoinPart, u

\* Joining one text more puts a separator in front of it.
LEMMA JoinNext ==
  ASSUME NEW ts \in Seq(Texts), NEW kind, NEW a \in Nat, NEW b \in Nat, 1 <= a, a < b, b <= Len(ts)
  PROVE  Join(SubSeq(ts, a, b), kind) = Join(SubSeq(ts, a, b - 1), kind) \o Glue(kind) \o ts[b]
<1> DEFINE u == SubSeq(ts, a, b)
           v == SubSeq(ts, a, b - 1)
           n == b - a
<1>1. /\ a \in Int /\ b \in Int /\ b - 1 \in Int
      /\ (\A i \in a .. b : ts[i] \in Texts) /\ (\A i \in a .. b - 1 : ts[i] \in Texts)
  OBVIOUS
<1>2. /\ u \in Seq(Texts) /\ Len(u) = (IF a <= b THEN b - a + 1 ELSE 0)
      /\ \A i \in 1 .. b - a + 1 : u[i] = ts[a + i - 1]
  BY <1>1, SubSeqProperties
<1>3. /\ v \in Seq(Texts) /\ Len(v) = (IF a <= b - 1 THEN (b - 1) - a + 1 ELSE 0)
      /\ \A i \in 1 .. (b - 1) - a + 1 : v[i] = ts[a + i - 1]
  BY <1>1, SubSeqProperties
<1>4. n \in Nat /\ n >= 1 /\ Len(u) = n + 1 /\ Len(v) = n /\ n + 1 # 1 /\ (n + 1) - 1 = n
  BY <1>2, <1>3
<1>5. u[n + 1] = ts[b]
  <2>1. n + 1 \in 1 .. b - a + 1 /\ a + (n + 1) - 1 = b
    OBVIOUS
  <2> QED
    BY <1>2, <2>1
<1>6. \A i \in 1 .. n : u[i] = v[i]
  <2>1. \A i \in 1 .. n : i \in 1 .. b - a + 1 /\ i \in 1 .. (b - 1) - a + 1
    OBVIOUS
  <2> QED
    BY <1>2, <1>3, <2>1
<1> HIDE DEF u, v, n
<1>f. PICK f : JoinRun(f, u, kind)
  BY <1>4, JoinLoop
<1>g. PICK g : JoinRun(g, v, kind)
  BY <1>4, JoinLoop
<1>7. /\ f[0] = <<>> /\ Join(u, kind) = f[n + 1]
      /\ \A k \in 1 .. n + 1 : f[k] = JoinPart(u, kind, k, f[k - 1])
  BY <1>4, <1>f DEF JoinRun
<1>8. /\ g[0] = <<>> /\ Join(v, kind) = g[n]
      /\ \A k \in 1 .. n : g[k] = JoinPart(v, kind, k, g[k - 1])
  BY <1>4, <1>g DEF JoinRun
<1> DEFINE S == {k \in 0 .. n : f[k] = g[k]}
<1>9. 0 \in S
  BY <1>4, <1>7, <1>8
<1>10. ASSUME NEW k \in 1 .. n, k - 1 \in S PROVE k \in S
  <2>1. k \in 1 .. n + 1 /\ k \in 0 .. n /\ f[k - 1] = g[k - 1]
    BY <1>4, <1>10
  <2> QED
    BY <1>6, <1>7, <1>8, <2>1 DEF JoinPart
<1>11. \A k \in 1 .. n : k - 1 \in S => k \in S
  BY <1>10
<1> HIDE DEF S
<1>12. \A k \in 0 .. n : k \in S
  BY <1>4, <1>9, <1>11, InductTo
<1>13. f[n] = g[n]
  BY <1>4, <1>12 DEF S
<1>14. n + 1 \in 1 .. n + 1
  BY <1>4
<1>15. f[n + 1] = f[n] \o Glue(kind) \o ts[b]
  BY <1>4, <1>5, <1>7, <1>14 DEF JoinPart
<1> QED
  BY <1>7, <1>8, <1>13, <1>15 DEF u, v

\* The splits of a window are texts, and so is what is made of them.
LEMMA WindowIsText ==
  ASSUME NEW ts \in Seq(Texts), NEW kind \in Separators, NEW a \in Nat, NEW b \in Int,
         1 <= a, b <= Len(ts)
  PROVE  /\ SubSeq(ts, a, b) \in Seq(Texts) /\ Join(SubSeq(ts, a, b), kind) \in Texts
         /\ JoinSize(ts, kind, a, b) \in Nat
<1>1. a \in Int /\ \A i \in a .. b : ts[i] \in Texts
  OBVIOUS
<1>2. SubSeq(ts, a, b) \in Seq(Texts)
  BY <1>1, SubSeqProperties
<1>3. Join(SubSeq(ts, a, b), kind) \in Texts
  BY <1>2, JoinIsText
<1>4. Len(Join(SubSeq(ts, a, b), kind)) \in Nat
  BY <1>3 DEF Texts
<1> QED
  BY <1>2, <1>3, <1>4, LengthNat DEF JoinSize

\* A separator has at most two characters.
LEMMA GlueLength ==
  ASSUME NEW kind \in Separators
  PROVE  Glue(kind) \in Texts /\ Length(Glue(kind)) \in Nat /\ Length(Glue(kind)) <= 2
<1>1. Glue(kind) \in Texts
  BY GlueInk DEF Separators
<1>2. CASE kind = "none"
  BY <1>1, <1>2, LengthZero DEF Glue
<1>3. CASE kind # "none"
  <2>1. [kind |-> kind, at |-> 0] \in Tokens
    BY <1>3 DEF Tokens, Kinds, Blank, Separators
  <2>2. Glue(kind) = <<[kind |-> kind, at |-> 0]>>
    BY <1>3 DEF Glue
  <2> QED
    BY <1>1, <2>1, <2>2, LengthOne
<1> QED
  BY <1>2, <1>3

(***************************************************************************)
(* How long the windows get: one that is longer than ChunkSize is what was *)
(* kept of the one before, and the split that did not fit.                 *)
(***************************************************************************)
Closed(ts, kind, overlap, a, b) ==
  JoinSize(ts, kind, a, b) <= ChunkSize \/ JoinSize(ts, kind, a, b - 1) <= overlap

AllClosed(ts, kind, overlap, w) ==
  \A k \in 1 .. Len(w) : w[k][1] <= w[k][2] /\ Closed(ts, kind, overlap, w[k][1], w[k][2])

\* What holds of the loop after n splits.
Closing(ts, kind, overlap, st, n) ==
  /\ n = 0 => st.first = 1
  /\ n > 0 => st.first <= n /\ Closed(ts, kind, overlap, st.first, n)
  /\ AllClosed(ts, kind, overlap, st.out)

\* A closed window can follow closed ones.
LEMMA ClosedAppend ==
  ASSUME NEW ts, NEW kind, NEW overlap, NEW w \in Seq(Nat \X Nat), NEW a \in Nat, NEW b \in Nat,
         AllClosed(ts, kind, overlap, w), a <= b, Closed(ts, kind, overlap, a, b)
  PROVE  AllClosed(ts, kind, overlap, Append(w, <<a, b>>))
<1> DEFINE u == Append(w, <<a, b>>)
<1>1. Len(w) \in Nat /\ Len(u) = Len(w) + 1 /\ u[Len(w) + 1] = <<a, b>>
  OBVIOUS
<1>2. \A k \in 1 .. Len(w) : u[k] = w[k]
  OBVIOUS
<1> HIDE DEF u
<1>3. \A k \in 1 .. Len(u) : k \in 1 .. Len(w) \/ k = Len(w) + 1
  BY <1>1
<1>4. ASSUME NEW k \in 1 .. Len(u)
      PROVE  u[k][1] <= u[k][2] /\ Closed(ts, kind, overlap, u[k][1], u[k][2])
  <2>1. CASE k \in 1 .. Len(w)
    BY <1>2, <2>1 DEF AllClosed
  <2>2. CASE k = Len(w) + 1
    <3>1. u[k][1] = a /\ u[k][2] = b
      BY <1>1, <2>2
    <3> QED
      BY <3>1
  <2> QED
    BY <1>3, <2>1, <2>2
<1> QED
  BY <1>4 DEF AllClosed, u

\* Nothing before a split has no size.
LEMMA NothingKept ==
  ASSUME NEW ts \in Seq(Texts), NEW kind \in Separators, NEW n \in Nat
  PROVE  JoinSize(ts, kind, n, n - 1) = 0
<1>1. SubSeq(ts, n, n - 1) = <<>>
  OBVIOUS
<1> QED
  BY <1>1, JoinEmpty DEF JoinSize

\* One turn of _merge_splits writes a closed window and leaves one.
LEMMA AddSplitClosing ==
  ASSUME NEW ts \in Seq(Texts), NEW kind \in Separators, NEW overlap \in Nat,
         NEW n \in 1 .. Len(ts), NEW st, Merging(st, n - 1), Closing(ts, kind, overlap, st, n - 1)
  PROVE  Closing(ts, kind, overlap, AddSplit(ts, kind, overlap, n, st), n)
<1> DEFINE K == {k \in st.first .. n : JoinSize(ts, kind, k, n - 1) <= overlap}
<1>1. /\ st.first \in Nat \ {0} /\ st.out \in Seq(Nat \X Nat)
      /\ n \in Nat /\ n > 0 /\ n - 1 \in Nat
  BY DEF Merging, Spread
<1>2. /\ n - 1 = 0 => st.first = 1
      /\ n - 1 > 0 => st.first <= n - 1 /\ Closed(ts, kind, overlap, st.first, n - 1)
      /\ AllClosed(ts, kind, overlap, st.out)
  BY DEF Closing
<1>3. CASE st.first < n /\ JoinSize(ts, kind, st.first, n) > ChunkSize
  <2> DEFINE u == Append(st.out, <<st.first, n - 1>>)
             first == Least(K)
  <2>1. AddSplit(ts, kind, overlap, n, st) = [out |-> u, first |-> first]
    BY <1>3 DEF AddSplit
  <2>2. first \in st.first .. n /\ JoinSize(ts, kind, first, n - 1) <= overlap
    <3>1. JoinSize(ts, kind, n, n - 1) <= overlap
      BY <1>1, NothingKept
    <3>2. n \in K
      BY <1>1, <1>3, <3>1
    <3>3. K \in SUBSET Nat
      BY <1>1
    <3>4. first \in K
      <4> HIDE DEF K
      <4> QED
        BY <3>2, <3>3, LeastIn
    <3> HIDE DEF first
    <3> QED
      BY <3>4
  <2>3. st.first <= n - 1 /\ Closed(ts, kind, overlap, st.first, n - 1)
    BY <1>1, <1>2, <1>3
  <2>4. AllClosed(ts, kind, overlap, u)
    BY <1>1, <1>2, <2>3, ClosedAppend
  <2> HIDE DEF u, first
  <2>5. first <= n /\ n # 0
    BY <1>1, <2>2
  <2>6. Closed(ts, kind, overlap, first, n)
    BY <2>2 DEF Closed
  <2> DEFINE new == [out |-> u, first |-> first]
  <2>7. new.out = u /\ new.first = first
    OBVIOUS
  <2> HIDE DEF new
  <2>8. Closing(ts, kind, overlap, new, n)
    BY <2>4, <2>5, <2>6, <2>7 DEF Closing
  <2> QED
    BY <2>1, <2>8 DEF new
<1>4. CASE ~(st.first < n /\ JoinSize(ts, kind, st.first, n) > ChunkSize)
  <2>1. AddSplit(ts, kind, overlap, n, st) = st
    BY <1>4 DEF AddSplit
  <2>2. st.first <= n
    BY <1>1, <1>2
  <2>3. Closed(ts, kind, overlap, st.first, n)
    <3>1. CASE st.first < n
      <4>1. n \in Int /\ 1 <= st.first /\ n <= Len(ts) /\ st.first \in Nat
        BY <1>1
      <4>2. JoinSize(ts, kind, st.first, n) \in Nat
        BY <4>1, WindowIsText
      <4>3. ChunkSize \in Nat
        BY ChunkAssumption
      <4> QED
        BY <1>4, <3>1, <4>2, <4>3 DEF Closed
    <3>2. CASE st.first = n
      <4>1. JoinSize(ts, kind, n, n - 1) <= overlap
        BY <1>1, NothingKept
      <4> QED
        BY <3>2, <4>1 DEF Closed
    <3> QED
      BY <1>1, <2>2, <3>1, <3>2
  <2>4. n # 0
    BY <1>1
  <2> QED
    BY <1>2, <2>1, <2>2, <2>3, <2>4 DEF Closing
<1> QED
  BY <1>3, <1>4

\* All windows are closed.
LEMMA WindowsClosed ==
  ASSUME NEW ts \in Seq(Texts), NEW kind \in Separators, NEW overlap \in Nat
  PROVE  AllClosed(ts, kind, overlap, Windows(ts, kind, overlap))
<1> DEFINE n == Len(ts)
<1>1. n \in Nat
  OBVIOUS
<1>f. PICK f : WindowsRun(f, ts, kind, overlap)
  BY <1>1, WindowsLoop
<1>2. /\ f[0] = [out |-> <<>>, first |-> 1]
      /\ \A k \in 1 .. n : f[k] = AddSplit(ts, kind, overlap, k, f[k - 1])
      /\ Windows(ts, kind, overlap) =
           IF ts = <<>> THEN <<>> ELSE Append(f[n].out, <<f[n].first, n>>)
  BY <1>f DEF WindowsRun
<1>a. 1 .. Len(<<>>) = {}
  OBVIOUS
<1>3. CASE ts = <<>>
  BY <1>2, <1>3, <1>a DEF AllClosed
<1>4. CASE ts # <<>>
  <2>1. n > 0
    BY <1>4
  <2>n. 1 .. n = 1 .. Len(ts)
    OBVIOUS
  <2> HIDE DEF n
  <2> DEFINE S == {k \in 0 .. n : Merging(f[k], k) /\ Closing(ts, kind, overlap, f[k], k)}
  <2>2. 0 \in S
    <3>1. f[0].out = <<>> /\ f[0].first = 1 /\ ~(0 > 0)
      BY <1>2
    <3>2. Merging(f[0], 0)
      <4>1. Spread(<<>>, 0)
        <5>1. 1 .. 0 = {} /\ <<>> \in Seq(Nat \X Nat) /\ Len(<<>>) = 0
          OBVIOUS
        <5> QED
          BY <5>1 DEF Spread
      <4>2. 1 .. 1 - 1 = {}
        OBVIOUS
      <4> QED
        BY <1>a, <3>1, <4>1, <4>2 DEF Merging, Reaches
    <3>3. Closing(ts, kind, overlap, f[0], 0)
      BY <1>a, <3>1 DEF Closing, AllClosed
    <3> QED
      BY <1>1, <3>2, <3>3
  <2>3. ASSUME NEW k \in 1 .. n, k - 1 \in S PROVE k \in S
    <3>1. k \in Nat \ {0} /\ k \in 0 .. n /\ k \in 1 .. Len(ts)
      BY <1>1, <2>n
    <3>2. Merging(f[k - 1], k - 1) /\ Closing(ts, kind, overlap, f[k - 1], k - 1)
      BY <2>3
    <3>3. Merging(AddSplit(ts, kind, overlap, k, f[k - 1]), k)
      BY <3>1, <3>2, AddSplitMerging
    <3>4. Closing(ts, kind, overlap, AddSplit(ts, kind, overlap, k, f[k - 1]), k)
      BY <3>1, <3>2, AddSplitClosing
    <3> QED
      BY <1>2, <3>1, <3>3, <3>4
  <2>4. Merging(f[n], n) /\ Closing(ts, kind, overlap, f[n], n)
    <3>1. \A k \in 1 .. n : k - 1 \in S => k \in S
      BY <2>3
    <3> HIDE DEF S
    <3>2. \A k \in 0 .. n : k \in S
      BY <1>1, <2>2, <3>1, InductTo
    <3>3. n \in S
      BY <1>1, <3>2
    <3> QED
      BY <3>3 DEF S
  <2>5. f[n].first \in Nat /\ f[n].out \in Seq(Nat \X Nat)
    BY <2>4 DEF Merging, Spread
  <2>6. f[n].first <= n /\ Closed(ts, kind, overlap, f[n].first, n) /\ AllClosed(ts, kind, overlap, f[n].out)
    BY <2>1, <2>4 DEF Closing
  <2>7. AllClosed(ts, kind, overlap, Append(f[n].out, <<f[n].first, n>>))
    BY <1>1, <2>5, <2>6, ClosedAppend
  <2> QED
    BY <1>2, <1>4, <2>7
<1> QED
  BY <1>3, <1>4

\* The chunks of MergeSplits, one by one.
LEMMA Merged ==
  ASSUME NEW ts \in Seq(Texts), NEW kind \in Separators, NEW overlap \in Nat
  PROVE  /\ MergeSplits(ts, kind, overlap) \in Seq(Texts)
         /\ \A k \in 1 .. Len(MergeSplits(ts, kind, overlap)) : \E a, b \in 1 .. Len(ts) :
              /\ a <= b /\ Closed(ts, kind, overlap, a, b)
              /\ MergeSplits(ts, kind, overlap)[k] = Join(SubSeq(ts, a, b), kind)
<1> DEFINE w == Windows(ts, kind, overlap)
           us == MergeSplits(ts, kind, overlap)
           m == Len(w)
<1>1. Spread(w, Len(ts)) /\ AllClosed(ts, kind, overlap, w) /\ Len(ts) \in Nat
  BY WindowsSpread, WindowsClosed
<1>2. w \in Seq(Nat \X Nat) /\ m \in Nat /\ DOMAIN w = 1 .. m
  BY <1>1 DEF Spread
<1>3. us = [k \in 1 .. m |-> Join(SubSeq(ts, w[k][1], w[k][2]), kind)]
  BY <1>2 DEF MergeSplits
<1> HIDE DEF w, us
<1>4. ASSUME NEW k \in 1 .. m
      PROVE  /\ w[k][1] \in 1 .. Len(ts) /\ w[k][2] \in 1 .. Len(ts)
             /\ w[k][1] <= w[k][2] /\ Closed(ts, kind, overlap, w[k][1], w[k][2])
             /\ us[k] = Join(SubSeq(ts, w[k][1], w[k][2]), kind) /\ us[k] \in Texts
  <2>1. w[k] \in Nat \X Nat
    BY <1>2
  <2>2. w[k][1] \in Nat /\ w[k][2] \in Nat /\ w[k][2] \in Int
    BY <2>1
  <2>3. 1 <= w[k][1] /\ w[k][2] <= Len(ts)
    BY <1>1 DEF Spread
  <2>4. w[k][1] <= w[k][2] /\ Closed(ts, kind, overlap, w[k][1], w[k][2])
    BY <1>1 DEF AllClosed
  <2>5. us[k] = Join(SubSeq(ts, w[k][1], w[k][2]), kind)
    BY <1>3
  <2>6. us[k] \in Texts
    BY <2>2, <2>3, <2>5, WindowIsText
  <2> QED
    BY <1>1, <2>2, <2>3, <2>4, <2>5, <2>6
<1>5. us \in Seq(Texts) /\ Len(us) = m
  <2>1. us \in [1 .. m -> Texts]
    BY <1>3, <1>4
  <2>2. m \in Nat
    BY <1>2
  <2> HIDE DEF m
  <2> QED
    BY <2>1, <2>2
<1> QED
  BY <1>4, <1>5 DEF us

\* With splits of up to m characters, a chunk is no longer than a window, or what is
\* kept, a separator and a split.
LEMMA MergedLength ==
  ASSUME NEW ts \in Seq(Texts), NEW kind \in Separators, NEW overlap \in Nat, NEW m \in Nat,
         \A k \in 1 .. Len(ts) : Length(ts[k]) <= m,
         NEW k \in 1 .. Len(MergeSplits(ts, kind, overlap))
  PROVE  \/ Length(MergeSplits(ts, kind, overlap)[k]) <= ChunkSize
         \/ Length(MergeSplits(ts, kind, overlap)[k]) <= overlap + Length(Glue(kind)) + m
<1> DEFINE glue == Glue(kind)
           t == MergeSplits(ts, kind, overlap)[k]
<1>1. PICK a \in 1 .. Len(ts), b \in 1 .. Len(ts) :
        a <= b /\ Closed(ts, kind, overlap, a, b) /\ t = Join(SubSeq(ts, a, b), kind)
  BY Merged
<1>2. glue \in Texts /\ Length(glue) \in Nat /\ ts[b] \in Texts
  BY GlueLength
<1>3. Length(ts[b]) <= m /\ Length(ts[b]) \in Nat
  BY <1>2, LengthSum
<1>a. a \in Nat /\ b \in Nat /\ b - 1 \in Int /\ 1 <= a /\ b <= Len(ts) /\ b - 1 <= Len(ts)
  BY <1>1
<1> HIDE DEF t, glue
<1>4. CASE JoinSize(ts, kind, a, b) <= ChunkSize
  BY <1>1, <1>4 DEF JoinSize, t
<1>5. CASE JoinSize(ts, kind, a, b - 1) <= overlap
  <2>1. CASE a = b
    <3>1. t = ts[b]
      BY <1>1, <2>1, JoinOne
    <3> QED
      BY <1>2, <1>3, <3>1 DEF t, glue
  <2>2. CASE a < b
    <3> DEFINE x == Join(SubSeq(ts, a, b - 1), kind)
    <3>1. t = x \o glue \o ts[b]
      BY <1>1, <1>a, <2>2, JoinNext DEF glue
    <3>2. x \in Texts
      BY <1>a, WindowIsText
    <3>3. Length(x) <= overlap
      BY <1>5 DEF JoinSize
    <3> HIDE DEF x
    <3>4. x \o glue \in Texts /\ Length(x \o glue) = Length(x) + Length(glue) /\ Length(x) \in Nat
      BY <1>2, <3>2, LengthSum
    <3>5. Length((x \o glue) \o ts[b]) = Length(x \o glue) + Length(ts[b])
      BY <1>2, <3>4, LengthSum
    <3>6. Length(t) = Length(x) + Length(glue) + Length(ts[b])
      BY <3>1, <3>4, <3>5
    <3> QED
      BY <1>2, <1>3, <3>3, <3>4, <3>6 DEF t, glue
  <2> QED
    BY <1>1, <1>a, <2>1, <2>2
<1> QED
  BY <1>1, <1>4, <1>5 DEF Closed

(***************************************************************************)
(* The window splitter keeps to the maximum.                               *)
(***************************************************************************)
\* There is room for a window, what is kept of the one before and a separator.
Room == ChunkSize + Overlap + 2 <= MaxChars

Fits(ts) == ts \in Seq(Texts) /\ \A k \in 1 .. Len(ts) : Length(ts[k]) <= MaxChars

\* No text is too long in an empty list.
LEMMA FitsNone == Fits(<<>>)
<1>1. <<>> \in Seq(Texts) /\ 1 .. Len(<<>>) = {}
  OBVIOUS
<1> QED
  BY <1>1 DEF Fits

\* Nor in two lists, one behind the other.
LEMMA FitsCat ==
  ASSUME NEW x, NEW y, Fits(x), Fits(y)
  PROVE  Fits(x \o y)
<1>1. x \in Seq(Texts) /\ y \in Seq(Texts)
  BY DEF Fits
<1>2. /\ x \o y \in Seq(Texts) /\ Len(x \o y) = Len(x) + Len(y)
      /\ \A i \in 1 .. Len(x) + Len(y) :
           (x \o y)[i] = IF i <= Len(x) THEN x[i] ELSE y[i - Len(x)]
  BY <1>1, ConcatProperties
<1>3. ASSUME NEW i \in 1 .. Len(x) + Len(y) PROVE Length((x \o y)[i]) <= MaxChars
  <2>1. Len(x) \in Nat /\ Len(y) \in Nat
    BY <1>1
  <2>2. i <= Len(x) => i \in 1 .. Len(x)
    BY <2>1
  <2>3. ~(i <= Len(x)) => i - Len(x) \in 1 .. Len(y)
    BY <2>1
  <2>4. CASE i <= Len(x)
    BY <1>2, <2>2, <2>4 DEF Fits
  <2>5. CASE ~(i <= Len(x))
    BY <1>2, <2>3, <2>5 DEF Fits
  <2> QED
    BY <2>4, <2>5
<1> QED
  BY <1>2, <1>3 DEF Fits

\* Nor in a list of one that is not.
LEMMA FitsOne ==
  ASSUME NEW t \in Texts, Length(t) <= MaxChars
  PROVE  Fits(<<t>>)
<1>1. <<t>> \in Seq(Texts) /\ Len(<<t>>) = 1 /\ <<t>>[1] = t
  OBVIOUS
<1>2. \A k \in 1 .. 1 : k = 1
  OBVIOUS
<1> QED
  BY <1>1, <1>2 DEF Fits

\* Splits that are no longer than a window, or than two characters with nothing
\* between them, make chunks that fit.
LEMMA MergeFits ==
  ASSUME Room, NEW ts \in Seq(Texts), NEW kind \in Separators, NEW m \in Nat,
         \A k \in 1 .. Len(ts) : Length(ts[k]) <= m,
         m <= ChunkSize \/ m + Length(Glue(kind)) <= 2
  PROVE  Fits(MergeSplits(ts, kind, Overlap))
<1> DEFINE us == MergeSplits(ts, kind, Overlap)
<1>1. ChunkSize \in Nat /\ Overlap \in Nat /\ MaxChars \in Nat
  BY ChunkAssumption
<1>2. us \in Seq(Texts)
  BY <1>1, Merged
<1>3. Length(Glue(kind)) \in Nat /\ Length(Glue(kind)) <= 2
  BY GlueLength
<1>4. ASSUME NEW k \in 1 .. Len(us) PROVE Length(us[k]) <= MaxChars
  <2>1. Length(us[k]) <= ChunkSize \/ Length(us[k]) <= Overlap + Length(Glue(kind)) + m
    BY <1>1, MergedLength
  <2>2. us[k] \in Texts
    BY <1>2
  <2>3. Length(us[k]) \in Nat
    BY <2>2, LengthSum
  <2> HIDE DEF us
  <2> QED
    BY <1>1, <1>3, <2>1, <2>3 DEF Room
<1> QED
  BY <1>2, <1>4 DEF Fits

\* Packing short parts makes chunks that fit.
LEMMA GoodFits ==
  ASSUME Room, NEW parts \in Seq(Texts), NEW kind \in Separators, NEW a \in Nat, NEW b \in Nat,
         1 <= a, b <= Len(parts), \A i \in a .. b : Length(parts[i]) <= ChunkSize
  PROVE  Fits(Good(parts, kind, a, b))
<1> DEFINE u == SubSeq(parts, a, b)
<1>1. a \in Int /\ b \in Int /\ \A i \in a .. b : parts[i] \in Texts
  OBVIOUS
<1>2. /\ u \in Seq(Texts) /\ Len(u) = (IF a <= b THEN b - a + 1 ELSE 0)
      /\ \A i \in 1 .. b - a + 1 : u[i] = parts[a + i - 1]
  BY <1>1, SubSeqProperties
<1>3. ASSUME NEW k \in 1 .. Len(u) PROVE Length(u[k]) <= ChunkSize
  <2>1. k \in 1 .. b - a + 1 /\ a + k - 1 \in a .. b
    BY <1>2
  <2> QED
    BY <1>2, <2>1
<1>4. ChunkSize \in Nat /\ ChunkSize <= ChunkSize
  BY ChunkAssumption
<1> HIDE DEF u
<1>5. Fits(MergeSplits(u, kind, Overlap))
  BY <1>2, <1>3, <1>4, MergeFits
<1> QED
  BY <1>5 DEF Good, u

AllFit(parts, finer) == \A k \in 1 .. Len(parts) : Fits(finer[k])

\* What holds of the loop of _recursive_split after n parts.
Filling(parts, st, n) ==
  /\ st.first \in 1 .. n + 1 /\ Fits(st.out)
  /\ \A i \in st.first .. n : Length(parts[i]) <= ChunkSize

\* One turn of _recursive_split writes chunks that fit, and leaves short parts.
LEMMA AddPartFilling ==
  ASSUME Room, NEW parts \in Seq(Texts), NEW kind \in Separators, NEW finer,
         AllFit(parts, finer), NEW n \in 1 .. Len(parts), NEW st, Filling(parts, st, n - 1)
  PROVE  Filling(parts, AddPart(parts, kind, finer, n, st), n)
<1> DEFINE a == st.first
           good == Good(parts, kind, a, n - 1)
<1>1. /\ a \in 1 .. (n - 1) + 1 /\ Fits(st.out)
      /\ \A i \in a .. n - 1 : Length(parts[i]) <= ChunkSize
  BY DEF Filling
<1>2. a \in Nat /\ 1 <= a /\ a <= n /\ n \in Nat /\ n - 1 \in Nat /\ n - 1 <= Len(parts)
  BY <1>1
<1>3. CASE Length(parts[n]) > ChunkSize
  <2> DEFINE out == st.out \o Flush(good, finer[n])
             new == [out |-> out, first |-> n + 1]
  <2>1. AddPart(parts, kind, finer, n, st) = new
    BY <1>3 DEF AddPart
  <2>2. Fits(good)
    BY <1>1, <1>2, GoodFits
  <2>3. Fits(finer[n])
    BY DEF AllFit
  <2>4. Fits(out)
    <3>1. Fits(Flush(good, finer[n]))
      BY <2>2, <2>3, FitsCat DEF Flush
    <3> QED
      BY <1>1, <3>1, FitsCat
  <2>5. n + 1 \in 1 .. n + 1 /\ n + 1 .. n = {}
    BY <1>2
  <2> HIDE DEF out
  <2>6. new.out = out /\ new.first = n + 1
    OBVIOUS
  <2> HIDE DEF new
  <2>7. Filling(parts, new, n)
    BY <2>4, <2>5, <2>6 DEF Filling
  <2> QED
    BY <2>1, <2>7
<1>4. CASE ~(Length(parts[n]) > ChunkSize)
  <2>1. AddPart(parts, kind, finer, n, st) = st
    BY <1>4 DEF AddPart
  <2>2. parts[n] \in Texts
    OBVIOUS
  <2>3. Length(parts[n]) \in Nat /\ ChunkSize \in Nat
    BY <2>2, LengthSum, ChunkAssumption
  <2>4. Length(parts[n]) <= ChunkSize
    BY <1>4, <2>3
  <2>5. \A i \in a .. n : i \in a .. n - 1 \/ i = n
    BY <1>2
  <2>6. \A i \in a .. n : Length(parts[i]) <= ChunkSize
    BY <1>1, <2>4, <2>5
  <2>7. a \in 1 .. n + 1
    BY <1>2
  <2> QED
    BY <1>1, <2>1, <2>6, <2>7 DEF Filling
<1> QED
  BY <1>3, <1>4

\* _recursive_split makes chunks that fit if the finer splits do.
LEMMA CollectFits ==
  ASSUME Room, NEW parts \in Seq(Texts), NEW kind \in Separators, NEW finer, AllFit(parts, finer)
  PROVE  Fits(Collect(parts, kind, finer))
<1> DEFINE n == Len(parts)
<1>1. n \in Nat
  OBVIOUS
<1>f. PICK f : CollectRun(f, parts, kind, finer)
  BY <1>1, CollectLoop
<1>2. /\ f[0] = [out |-> <<>>, first |-> 1]
      /\ \A k \in 1 .. n : f[k] = AddPart(parts, kind, finer, k, f[k - 1])
      /\ Collect(parts, kind, finer) = f[n].out \o Good(parts, kind, f[n].first, n)
  BY <1>f DEF CollectRun
<1> DEFINE S == {k \in 0 .. n : Filling(parts, f[k], k)}
<1>3. 0 \in S
  <2>1. f[0].out = <<>> /\ f[0].first = 1 /\ 1 \in 1 .. 0 + 1 /\ 1 .. 0 = {}
    BY <1>2
  <2>2. Filling(parts, f[0], 0)
    BY <2>1, FitsNone DEF Filling
  <2> QED
    BY <1>1, <2>2
<1>4. ASSUME NEW k \in 1 .. n, k - 1 \in S PROVE k \in S
  BY <1>1, <1>2, <1>4, AddPartFilling
<1>5. n \in S
  <2> HIDE DEF S
  <2>1. \A k \in 1 .. n : k - 1 \in S => k \in S
    BY <1>4
  <2>2. \A k \in 0 .. n : k \in S
    BY <1>1, <1>3, <2>1, InductTo
  <2> QED
    BY <1>1, <2>2
<1>6. /\ f[n].first \in 1 .. n + 1 /\ Fits(f[n].out)
      /\ \A i \in f[n].first .. n : Length(parts[i]) <= ChunkSize
  BY <1>5 DEF Filling
<1>7. f[n].first \in Nat /\ 1 <= f[n].first /\ n <= Len(parts)
  BY <1>1, <1>6
<1>8. Fits(Good(parts, kind, f[n].first, n))
  BY <1>1, <1>6, <1>7, GoodFits
<1> QED
  BY <1>2, <1>6, <1>8, FitsCat

\* Windows of characters fit.
LEMMA CharactersFit ==
  ASSUME Room, NEW s \in Texts
  PROVE  Fits(SplitCharacters(s))
<1> DEFINE ts == [i \in DOMAIN s |-> <<s[i]>>]
<1>1. DOMAIN s = 1 .. Len(s) /\ Len(s) \in Nat /\ \A i \in 1 .. Len(s) : s[i] \in Tokens
  BY DEF Texts
<1>2. \A i \in 1 .. Len(s) : ts[i] \in Texts /\ Length(ts[i]) <= 2
  BY <1>1, LengthOne
<1>3. ts \in Seq(Texts) /\ Len(ts) = Len(s)
  <2>1. ts \in [1 .. Len(s) -> Texts]
    BY <1>1, <1>2
  <2> HIDE DEF ts
  <2> QED
    BY <1>1, <2>1
<1>4. "none" \in Separators /\ Glue("none") = <<>>
  BY DEF Separators, Glue
<1>5. 2 \in Nat /\ 2 + Length(Glue("none")) <= 2
  BY <1>4, LengthZero
<1> HIDE DEF ts
<1>6. Fits(MergeSplits(ts, "none", Overlap))
  BY <1>2, <1>3, <1>4, <1>5, MergeFits
<1> QED
  BY <1>6 DEF SplitCharacters, ts

\* What is between separators is a list of passages.
LEMMA CutTexts ==
  ASSUME NEW s, Passage(s), NEW kind \in Blank
  PROVE  LET ts == CutAt(s, Having(s, kind)) IN
         /\ ts \in Seq(Texts) /\ kind \in Separators
         /\ DOMAIN ts = 1 .. Len(ts) /\ \A k \in 1 .. Len(ts) : Passage(ts[k])
<1> DEFINE ts == CutAt(s, Having(s, kind))
<1>1. Parted(ts) /\ kind \in Separators /\ DOMAIN ts = 1 .. Len(ts)
  BY HavingCut
<1>2. \A k \in 1 .. Len(ts) : Passage(ts[k])
  BY HavingCut
<1>3. ts \in Seq(Texts)
  BY <1>1 DEF Parted
<1> QED
  BY <1>1, <1>2, <1>3

\* Splitting at spaces, and what is too long at characters, makes chunks that fit.
LEMMA SpacesFit ==
  ASSUME Room, NEW s, Passage(s)
  PROVE  Fits(SplitSpaces(s))
<1> DEFINE ts == CutAt(s, Having(s, "space"))
           finer == [k \in DOMAIN ts |-> SplitCharacters(ts[k])]
<1>1. SplitSpaces(s) =
        IF Having(s, "space") = {} THEN SplitCharacters(s) ELSE Collect(ts, "space", finer)
  BY DEF SplitSpaces, SplitOn
<1>2. /\ ts \in Seq(Texts) /\ "space" \in Separators
      /\ DOMAIN ts = 1 .. Len(ts) /\ \A k \in 1 .. Len(ts) : Passage(ts[k])
  <2>1. "space" \in Blank
    BY DEF Blank
  <2> QED
    BY <2>1, CutTexts
<1> HIDE DEF ts
<1>3. AllFit(ts, finer)
  BY <1>2, CharactersFit DEF AllFit, Passage
<1> HIDE DEF finer
<1>4. Fits(Collect(ts, "space", finer))
  BY <1>2, <1>3, CollectFits
<1> QED
  BY <1>1, <1>4, CharactersFit DEF Passage

\* The same from lines down.
LEMMA LinesFit ==
  ASSUME Room, NEW s, Passage(s)
  PROVE  Fits(SplitLines(s))
<1> DEFINE ts == CutAt(s, Having(s, "line"))
           finer == [k \in DOMAIN ts |-> SplitSpaces(ts[k])]
<1>1. SplitLines(s) =
        IF Having(s, "line") = {} THEN SplitSpaces(s) ELSE Collect(ts, "line", finer)
  BY DEF SplitLines, SplitOn
<1>2. /\ ts \in Seq(Texts) /\ "line" \in Separators
      /\ DOMAIN ts = 1 .. Len(ts) /\ \A k \in 1 .. Len(ts) : Passage(ts[k])
  <2>1. "line" \in Blank
    BY DEF Blank
  <2> QED
    BY <2>1, CutTexts
<1> HIDE DEF ts
<1>3. AllFit(ts, finer)
  BY <1>2, SpacesFit DEF AllFit
<1> HIDE DEF finer
<1>4. Fits(Collect(ts, "line", finer))
  BY <1>2, <1>3, CollectFits
<1> QED
  BY <1>1, <1>4, SpacesFit

\* The same from blank lines down: the chunks of chunk_text fit.
LEMMA TextFits ==
  ASSUME Room, NEW s, Passage(s)
  PROVE  Fits(ChunkText(s))
<1> DEFINE ts == CutAt(s, Having(s, "para"))
           finer == [k \in DOMAIN ts |-> SplitLines(ts[k])]
<1>1. ChunkText(s) =
        IF Strip(s) = <<>> THEN <<>>
        ELSE IF Having(s, "para") = {} THEN SplitLines(s) ELSE Collect(ts, "para", finer)
  BY DEF ChunkText, SplitOn
<1>2. /\ ts \in Seq(Texts) /\ "para" \in Separators
      /\ DOMAIN ts = 1 .. Len(ts) /\ \A k \in 1 .. Len(ts) : Passage(ts[k])
  <2>1. "para" \in Blank
    BY DEF Blank
  <2> QED
    BY <2>1, CutTexts
<1> HIDE DEF ts
<1>3. AllFit(ts, finer)
  BY <1>2, LinesFit DEF AllFit
<1> HIDE DEF finer
<1>4. Fits(Collect(ts, "para", finer))
  BY <1>2, <1>3, CollectFits
<1> QED
  BY <1>1, <1>4, LinesFit, FitsNone

(***************************************************************************)
(* What comes in front of the first word does not count, as index_file     *)
(* strips the chunks: a text of at most, or exactly, m characters behind   *)
(* blanks.                                                                 *)
(***************************************************************************)
Behind(t, z, q) == z \in Texts /\ q \in Texts /\ t = z \o q /\ Ink(z) = {}

Slack(t, m) == t \in Texts /\ \E z, q : Behind(t, z, q) /\ Length(q) <= m

Exactly(t, m) == t \in Texts /\ \E z, q : Behind(t, z, q) /\ Length(q) = m

Loose(ts) == ts \in Seq(Texts) /\ \A k \in 1 .. Len(ts) : Slack(ts[k], MaxChars)

\* A text is behind nothing.
LEMMA BehindNothing ==
  ASSUME NEW t \in Texts
  PROVE  Behind(t, <<>>, t)
<1>1. <<>> \in Texts /\ Ink(<<>>) = {}
  BY EmptyInk
<1>2. <<>> \o t = t
  <2>1. t \in Seq(Tokens)
    BY DEF Texts
  <2> QED
    BY <2>1, ConcatEmptySeq
<1> QED
  BY <1>1, <1>2 DEF Behind

\* More blanks in front do not change what is behind them.
LEMMA BehindMore ==
  ASSUME NEW t, NEW z, NEW q, Behind(t, z, q), NEW y \in Texts, Ink(y) = {}
  PROVE  Behind(y \o t, y \o z, q)
<1>1. y \in Seq(Tokens) /\ z \in Seq(Tokens) /\ q \in Seq(Tokens)
  BY DEF Texts, Behind
<1>2. (y \o z) \o q = y \o (z \o q)
  BY <1>1, ConcatAssociative
<1>3. y \o z \in Texts /\ Ink(y \o z) = {}
  BY InkCat DEF Behind
<1> QED
  BY <1>2, <1>3 DEF Behind

\* What is put behind a text adds to its length.
LEMMA BehindLonger ==
  ASSUME NEW t, NEW z, NEW q, Behind(t, z, q), NEW y \in Texts
  PROVE  Behind(t \o y, z, q \o y) /\ Length(q \o y) = Length(q) + Length(y)
<1>1. y \in Seq(Tokens) /\ z \in Seq(Tokens) /\ q \in Seq(Tokens)
  BY DEF Texts, Behind
<1>2. (z \o q) \o y = z \o (q \o y)
  BY <1>1, ConcatAssociative
<1>3. q \o y \in Texts /\ Length(q \o y) = Length(q) + Length(y)
  BY LengthSum DEF Behind
<1> QED
  BY <1>2, <1>3 DEF Behind

\* Strip takes the blanks away.
LEMMA StripBehind ==
  ASSUME NEW t \in Texts, NEW z, NEW q, Behind(t, z, q)
  PROVE  Length(Strip(t)) <= Length(q) /\ Length(q) \in Nat /\ Length(Strip(t)) \in Nat
<1>1. z \in Texts /\ q \in Texts /\ t = z \o q /\ Ink(z) = {}
  BY DEF Behind
<1>2. z \in Seq(Tokens) /\ q \in Seq(Tokens) /\ Len(z) \in Nat /\ Len(q) \in Nat
  BY <1>1 DEF Texts
<1>3. Length(q) \in Nat
  BY <1>1, LengthSum
<1>4. CASE Strip(t) = <<>>
  BY <1>3, <1>4, LengthZero
<1>5. CASE Strip(t) # <<>>
  <2>1. PICK x \in Inky(t), y \in Inky(t) : Strip(t) = SubSeq(t, x, y)
    BY <1>5, StripIs
  <2>2. /\ Len(t) = Len(z) + Len(q)
        /\ \A i \in 1 .. Len(z) : i \in Inky(t) <=> i \in Inky(z)
    BY <1>1, InkyCat
  <2>3. Inky(z) = {}
    BY <1>1 DEF Ink
  <2>4. Inky(t) \subseteq 1 .. Len(t)
    BY InkyOf
  <2>5. \A i \in Inky(t) : i \in Len(z) + 1 .. Len(z) + Len(q)
    <3> TAKE i \in Inky(t)
    <3>1. i \in 1 .. Len(z) + Len(q)
      BY <2>2, <2>4
    <3>2. i \notin 1 .. Len(z)
      BY <2>2, <2>3
    <3> QED
      BY <1>2, <3>1, <3>2
  <2>6. x \in Len(z) + 1 .. Len(z) + Len(q) /\ y \in Len(z) + 1 .. Len(z) + Len(q)
    BY <2>5
  <2>7. SubSeq(z \o q, x, y) = SubSeq(q, x - Len(z), y - Len(z))
    BY <1>2, <2>6, SubSeqOfConcat2
  <2>8. /\ x - Len(z) \in Nat /\ y - Len(z) \in Nat /\ 1 <= x - Len(z) /\ y - Len(z) <= Len(q)
    BY <1>2, <2>6
  <2>9. Length(SubSeq(q, x - Len(z), y - Len(z))) \in Nat
        /\ Length(SubSeq(q, x - Len(z), y - Len(z))) <= Length(q)
    BY <1>1, <2>8, PartIsShorter
  <2> QED
    BY <1>1, <1>3, <2>1, <2>7, <2>9
<1> QED
  BY <1>4, <1>5

\* A text of at most m characters behind blanks has at most m when it is stripped.
LEMMA SlackStrip ==
  ASSUME NEW t, NEW m \in Nat, Slack(t, m)
  PROVE  t \in Texts /\ Length(Strip(t)) <= m
<1>1. t \in Texts
  BY DEF Slack
<1>2. PICK z, q : Behind(t, z, q) /\ Length(q) <= m
  BY DEF Slack
<1> QED
  BY <1>1, <1>2, StripBehind

\* A text that fits also fits behind blanks.
LEMMA SlackFits ==
  ASSUME NEW t \in Texts, NEW m, Length(t) <= m
  PROVE  Slack(t, m)
  BY BehindNothing DEF Slack

\* The same for lists.
LEMMA LooseFits ==
  ASSUME NEW ts, Fits(ts)
  PROVE  Loose(ts)
<1>1. ts \in Seq(Texts) /\ \A k \in 1 .. Len(ts) : Length(ts[k]) <= MaxChars
  BY DEF Fits
<1>2. \A k \in 1 .. Len(ts) : ts[k] \in Texts
  BY <1>1
<1>3. \A k \in 1 .. Len(ts) : Slack(ts[k], MaxChars)
  BY <1>1, <1>2, SlackFits
<1> QED
  BY <1>1, <1>3 DEF Loose

\* Two lists of such texts, one behind the other, are one.
LEMMA LooseCat ==
  ASSUME NEW x, NEW y, Loose(x), Loose(y)
  PROVE  Loose(x \o y)
<1>1. x \in Seq(Texts) /\ y \in Seq(Texts)
  BY DEF Loose
<1>2. /\ x \o y \in Seq(Texts) /\ Len(x \o y) = Len(x) + Len(y)
      /\ \A i \in 1 .. Len(x) + Len(y) :
           (x \o y)[i] = IF i <= Len(x) THEN x[i] ELSE y[i - Len(x)]
  BY <1>1, ConcatProperties
<1>3. ASSUME NEW i \in 1 .. Len(x) + Len(y) PROVE Slack((x \o y)[i], MaxChars)
  <2>1. Len(x) \in Nat /\ Len(y) \in Nat
    BY <1>1
  <2>2. i <= Len(x) => i \in 1 .. Len(x)
    BY <2>1
  <2>3. ~(i <= Len(x)) => i - Len(x) \in 1 .. Len(y)
    BY <2>1
  <2>4. CASE i <= Len(x)
    BY <1>2, <2>2, <2>4 DEF Loose
  <2>5. CASE ~(i <= Len(x))
    BY <1>2, <2>3, <2>5 DEF Loose
  <2> QED
    BY <2>4, <2>5
<1> QED
  BY <1>2, <1>3 DEF Loose

\* The empty list is one.
LEMMA LooseNone == Loose(<<>>)
  BY FitsNone, LooseFits

\* Such a text can follow such a list.
LEMMA LooseAppend ==
  ASSUME NEW ts, Loose(ts), NEW t, Slack(t, MaxChars)
  PROVE  Loose(Append(ts, t))
<1>1. ts \in Seq(Texts) /\ t \in Texts
  BY DEF Loose, Slack
<1>2. Append(ts, t) = ts \o <<t>>
  BY <1>1
<1>3. Loose(<<t>>)
  <2>1. <<t>> \in Seq(Texts) /\ Len(<<t>>) = 1 /\ <<t>>[1] = t
    BY <1>1
  <2>2. \A k \in 1 .. 1 : k = 1
    OBVIOUS
  <2>3. \A k \in 1 .. Len(<<t>>) : Slack(<<t>>[k], MaxChars)
    BY <2>1, <2>2
  <2> QED
    BY <2>1, <2>3 DEF Loose
<1> QED
  BY <1>2, <1>3, LooseCat

\* Such lists, one behind the other, are one.
LEMMA LooseConcat ==
  ASSUME NEW lists, Len(lists) \in Nat, \A k \in 1 .. Len(lists) : Loose(lists[k])
  PROVE  Loose(Concat(lists))
<1> DEFINE n == Len(lists)
<1>f. PICK f : ConcatRun(f, lists)
  BY ConcatLoop
<1>1. f[0] = <<>> /\ Concat(lists) = f[n] /\ \A k \in 1 .. n : f[k] = f[k - 1] \o lists[k]
  BY <1>f DEF ConcatRun
<1>2. n \in Nat /\ \A k \in 1 .. n : Loose(lists[k])
  OBVIOUS
<1> HIDE DEF n
<1> DEFINE S == {k \in 0 .. n : Loose(f[k])}
<1>3. 0 \in S
  BY <1>1, <1>2, LooseNone
<1>4. ASSUME NEW k \in 1 .. n, k - 1 \in S PROVE k \in S
  <2>1. k \in 0 .. n /\ Loose(f[k - 1])
    BY <1>2, <1>4
  <2>2. Loose(lists[k])
    BY <1>2
  <2>3. f[k] = f[k - 1] \o lists[k]
    BY <1>1
  <2>4. Loose(f[k - 1] \o lists[k])
    BY <2>1, <2>2, LooseCat
  <2> QED
    BY <2>1, <2>3, <2>4
<1>5. \A k \in 1 .. n : k - 1 \in S => k \in S
  BY <1>4
<1> HIDE DEF S
<1>6. \A k \in 0 .. n : k \in S
  BY <1>2, <1>3, <1>5, InductTo
<1>7. n \in S
  BY <1>2, <1>6
<1> QED
  BY <1>1, <1>7 DEF S

\* Packing without overlap puts at most a separator in front of a piece that is longer
\* than a window.
LEMMA LooseMerge ==
  ASSUME Room, NEW ts, Loose(ts)
  PROVE  Loose(MergeSplits(ts, "para", 0))
<1> DEFINE us == MergeSplits(ts, "para", 0)
           glue == Glue("para")
<1>1. ts \in Seq(Texts) /\ "para" \in Separators /\ 0 \in Nat
  BY DEF Loose, Separators, Blank
<1>2. us \in Seq(Texts)
  BY <1>1, Merged
<1>3. glue \in Texts /\ Ink(glue) = {}
  BY GlueInk DEF Blank
<1>4. ChunkSize \in Nat /\ MaxChars \in Nat /\ Overlap \in Nat
  BY ChunkAssumption
<1>5. ASSUME NEW k \in 1 .. Len(us) PROVE Slack(us[k], MaxChars)
  <2> DEFINE t == us[k]
  <2>1. t \in Texts
    BY <1>2
  <2>2. PICK a \in 1 .. Len(ts), b \in 1 .. Len(ts) :
          a <= b /\ Closed(ts, "para", 0, a, b) /\ t = Join(SubSeq(ts, a, b), "para")
    BY <1>1, Merged
  <2>a. a \in Nat /\ b \in Nat /\ b - 1 \in Int /\ 1 <= a /\ b <= Len(ts) /\ b - 1 <= Len(ts)
    BY <1>1
  <2>3. Slack(ts[b], MaxChars)
    BY DEF Loose
  <2> HIDE DEF t, glue
  <2>4. CASE JoinSize(ts, "para", a, b) <= ChunkSize
    <3>1. Length(t) <= ChunkSize
      BY <2>2, <2>4 DEF JoinSize
    <3>2. Length(t) \in Nat
      BY <2>1, LengthSum
    <3>3. Length(t) <= MaxChars
      BY <1>4, <3>1, <3>2 DEF Room
    <3> QED
      BY <2>1, <3>3, SlackFits DEF t
  <2>5. CASE JoinSize(ts, "para", a, b - 1) <= 0
    <3>1. CASE a = b
      BY <1>1, <2>2, <2>3, <3>1, JoinOne DEF t
    <3>2. CASE a < b
      <4> DEFINE x == Join(SubSeq(ts, a, b - 1), "para")
      <4>1. t = x \o glue \o ts[b]
        BY <1>1, <2>2, <2>a, <3>2, JoinNext DEF glue
      <4>2. x \in Texts /\ Length(x) <= 0
        BY <1>1, <2>5, <2>a, WindowIsText DEF JoinSize
      <4> HIDE DEF x
      <4>3. x = <<>>
        BY <4>2, NoLength
      <4>4. x \o glue \in Texts /\ Ink(x \o glue) = {}
        BY <1>3, <4>3, EmptyInk, InkCat
      <4>5. PICK z, q : Behind(ts[b], z, q) /\ Length(q) <= MaxChars
        BY <2>3 DEF Slack
      <4>6. Behind((x \o glue) \o ts[b], (x \o glue) \o z, q)
        BY <4>4, <4>5, BehindMore
      <4>7. Behind(t, (x \o glue) \o z, q)
        BY <4>1, <4>6
      <4> QED
        BY <2>1, <4>5, <4>7 DEF Slack, t
    <3> QED
      BY <2>2, <2>a, <3>1, <3>2
  <2> QED
    BY <2>2, <2>4, <2>5 DEF Closed
<1> QED
  BY <1>2, <1>5 DEF Loose

\* Stripped, such texts fit.
LEMMA StrippedFits ==
  ASSUME NEW ts, Loose(ts), NEW k \in 1 .. Len(Stripped(ts))
  PROVE  Length(Stripped(ts)[k]) <= MaxChars
<1>1. ts \in Seq(Texts) /\ MaxChars \in Nat
  BY ChunkAssumption DEF Loose
<1>2. Kept(Stripped(ts), ts, Len(ts))
  BY <1>1, StrippedKept
<1>3. PICK x \in 1 .. Len(ts) : Stripped(ts)[k] = Strip(ts[x])
  BY <1>2 DEF Kept
<1>4. Slack(ts[x], MaxChars)
  BY DEF Loose
<1> QED
  BY <1>1, <1>3, <1>4, SlackStrip

(***************************************************************************)
(* A Markdown section that is too long.                                    *)
(***************************************************************************)
\* What holds of the loop of _split_oversized_markdown_section after n paragraphs: size
\* counts the buffer from its first word on, or more.
Holding(ps, st, n) ==
  /\ st = [out |-> st.out, first |-> st.first, size |-> st.size]
  /\ st.first \in 1 .. n + 1 /\ st.size \in Nat /\ st.size <= MaxChars
  /\ Loose(st.out)
  /\ st.first <= n => Exactly(Buffer(ps, st.first, n), st.size)
  /\ st.first > n => st.size = 0

\* The same, when there is room for the next paragraph.
Awaiting(ps, st, n) ==
  /\ Holding(ps, st, n - 1)
  /\ Length(ps[n]) > MaxChars => st.first = n
  /\ st.first < n => st.size + (Length(ps[n]) + 2) <= MaxChars

\* Exactly k characters behind blanks are at most m if k is.
LEMMA ExactlySlack ==
  ASSUME NEW t, NEW k \in Nat, NEW m \in Nat, Exactly(t, k), k <= m
  PROVE  Slack(t, m)
  BY DEF Exactly, Slack

\* The buffer is a text.
LEMMA BufferText ==
  ASSUME NEW ps \in Seq(Texts), NEW a \in Nat, NEW b \in Nat, 1 <= a, b <= Len(ps)
  PROVE  Buffer(ps, a, b) \in Texts
<1>1. "para" \in Separators /\ b \in Int
  BY DEF Separators, Blank
<1> QED
  BY <1>1, WindowIsText DEF Buffer

\* A full buffer is written first, so that the next paragraph fits behind what is left.
LEMMA FlushedAwaits ==
  ASSUME NEW ps \in Seq(Texts), NEW n \in 1 .. Len(ps), NEW st, Holding(ps, st, n - 1)
  PROVE  Awaiting(ps, Flushed(ps, n, st), n)
<1> DEFINE p == ps[n]
           new == Flushed(ps, n, st)
<1>1. /\ n \in Nat /\ n - 1 \in Nat /\ (n - 1) + 1 = n /\ p \in Texts /\ n - 1 <= Len(ps)
      /\ MaxChars \in Nat
  BY ChunkAssumption
<1>2. Length(p) \in Nat
  BY <1>1, LengthSum
<1>3. /\ st.first \in Nat /\ 1 <= st.first /\ st.first <= n /\ st.size \in Nat
      /\ st.size <= MaxChars /\ Loose(st.out)
      /\ st.first <= n - 1 => Exactly(Buffer(ps, st.first, n - 1), st.size)
      /\ st.first > n - 1 => st.size = 0
  BY <1>1 DEF Holding
<1>4. CASE Full(st.first < n, st.size, Length(p) + 2)
  <2> DEFINE out == Append(st.out, Buffer(ps, st.first, n - 1))
  <2>1. new = [out |-> out, first |-> n, size |-> 0]
    BY <1>4 DEF Flushed
  <2>2. Loose(out)
    <3>1. st.first <= n - 1
      BY <1>1, <1>3, <1>4 DEF Full
    <3>2. Slack(Buffer(ps, st.first, n - 1), MaxChars)
      BY <1>1, <1>3, <3>1, ExactlySlack
    <3> QED
      BY <1>3, <3>2, LooseAppend
  <2> HIDE DEF new, out
  <2>3. new.out = out /\ new.first = n /\ new.size = 0
    BY <2>1
  <2>4. new = [out |-> new.out, first |-> new.first, size |-> new.size]
    BY <2>1, <2>3
  <2>5. n \in 1 .. (n - 1) + 1 /\ 0 \in Nat /\ 0 <= MaxChars /\ ~(n <= n - 1) /\ ~(n < n)
    BY <1>1
  <2>6. Holding(ps, new, n - 1)
    BY <2>2, <2>3, <2>4, <2>5 DEF Holding
  <2> QED
    BY <2>3, <2>5, <2>6 DEF Awaiting, new
<1>5. CASE ~Full(st.first < n, st.size, Length(p) + 2)
  <2>1. new = st
    BY <1>5 DEF Flushed
  <2>2. st.first < n => st.size + (Length(p) + 2) <= MaxChars
    BY <1>1, <1>2, <1>3, <1>5 DEF Full
  <2>3. Length(p) > MaxChars => st.first = n
    BY <1>1, <1>2, <1>3, <2>2
  <2> QED
    BY <2>1, <2>2, <2>3 DEF Awaiting
<1> QED
  BY <1>4, <1>5

\* A paragraph is put into the buffer.
LEMMA BufferedExactly ==
  ASSUME NEW ps \in Seq(Texts), NEW n \in 1 .. Len(ps), NEW st, Awaiting(ps, st, n),
         ~(Length(ps[n]) > MaxChars)
  PROVE  LET size == st.size + Length(ps[n]) + (IF st.size > 0 THEN 2 ELSE 0) IN
         size \in Nat /\ size <= MaxChars /\ Exactly(Buffer(ps, st.first, n), size)
<1> DEFINE p == ps[n]
           glue == Glue("para")
           x == Buffer(ps, st.first, n - 1)
           size == st.size + Length(p) + (IF st.size > 0 THEN 2 ELSE 0)
<1>1. n \in Nat /\ n - 1 \in Nat /\ (n - 1) + 1 = n /\ p \in Texts /\ n <= Len(ps) /\ MaxChars \in Nat
  BY ChunkAssumption
<1>2. Length(p) \in Nat
  BY <1>1, LengthSum
<1>3. /\ st.first \in Nat /\ 1 <= st.first /\ st.first <= n /\ st.size \in Nat
      /\ st.first <= n - 1 => Exactly(x, st.size)
      /\ st.first > n - 1 => st.size = 0
      /\ st.first < n => st.size + (Length(p) + 2) <= MaxChars
  BY <1>1 DEF Holding, Awaiting
<1>4. Length(p) <= MaxChars
  BY <1>1, <1>2
<1>5. size \in Nat
  BY <1>2, <1>3
<1>6. Buffer(ps, st.first, n) \in Texts
  BY <1>1, <1>3, BufferText
<1>7. CASE st.first = n
  <2>1. st.size = 0 /\ size = Length(p)
    BY <1>1, <1>2, <1>3, <1>7
  <2>2. Buffer(ps, st.first, n) = p
    BY <1>7, JoinOne DEF Buffer
  <2>3. Behind(p, <<>>, p)
    BY <1>1, BehindNothing
  <2> HIDE DEF size, p
  <2>4. Exactly(Buffer(ps, st.first, n), size)
    BY <1>6, <2>1, <2>2, <2>3 DEF Exactly
  <2> QED
    BY <1>4, <1>5, <2>1, <2>4 DEF size, p
<1>8. CASE st.first < n
  <2>1. st.first <= n - 1
    BY <1>1, <1>3, <1>8
  <2>2. PICK z, q : Behind(x, z, q) /\ Length(q) = st.size
    BY <1>3, <2>1 DEF Exactly
  <2>3. z \in Texts /\ q \in Texts /\ x = z \o q /\ Ink(z) = {}
    BY <2>2 DEF Behind
  <2>4. Buffer(ps, st.first, n) = x \o glue \o p
    BY <1>1, <1>3, <1>8, JoinNext DEF Buffer
  <2>5. glue \in Texts /\ Ink(glue) = {}
    BY GlueInk DEF Blank
  <2>6. Length(glue) = 2
    <3>1. [kind |-> "para", at |-> 0] \in Tokens
      BY DEF Tokens, Kinds
    <3>2. glue = <<[kind |-> "para", at |-> 0]>>
      BY DEF Glue
    <3> QED
      BY <3>1, <3>2, LengthOne DEF Width
  <2>7. size <= MaxChars
    BY <1>1, <1>2, <1>3, <1>8
  <2> HIDE DEF p, glue, x
  <2>8. CASE st.size > 0
    <3>1. Behind(x \o glue, z, q \o glue) /\ Length(q \o glue) = Length(q) + Length(glue)
      BY <2>2, <2>5, BehindLonger
    <3>2. Behind((x \o glue) \o p, z, (q \o glue) \o p)
          /\ Length((q \o glue) \o p) = Length(q \o glue) + Length(p)
      BY <1>1, <3>1, BehindLonger
    <3>3. Length((q \o glue) \o p) = size
      BY <1>2, <1>3, <2>2, <2>6, <2>8, <3>1, <3>2
    <3> HIDE DEF size
    <3>4. Behind(Buffer(ps, st.first, n), z, (q \o glue) \o p)
      BY <2>4, <3>2
    <3>5. Exactly(Buffer(ps, st.first, n), size)
      BY <1>6, <3>3, <3>4 DEF Exactly
    <3> QED
      BY <1>5, <2>7, <3>5 DEF size, p
  <2>9. CASE st.size = 0
    <3>1. q = <<>>
      <4>1. Length(q) <= 0
        BY <2>2, <2>9
      <4> QED
        BY <2>3, <4>1, NoLength
    <3>2. x \in Texts /\ Ink(x) = {}
      BY <2>3, <3>1, EmptyInk, InkCat
    <3>3. x \o glue \in Texts /\ Ink(x \o glue) = {}
      BY <2>5, <3>2, InkCat
    <3>4. Behind((x \o glue) \o p, (x \o glue) \o <<>>, p)
      BY <1>1, <3>3, BehindNothing, BehindMore
    <3>5. size = Length(p)
      BY <1>2, <2>9
    <3> HIDE DEF size
    <3>6. Behind(Buffer(ps, st.first, n), (x \o glue) \o <<>>, p)
      BY <2>4, <3>4
    <3>7. Exactly(Buffer(ps, st.first, n), size)
      BY <1>6, <3>5, <3>6 DEF Exactly
    <3> QED
      BY <1>5, <2>7, <3>7 DEF size, p
  <2> QED
    BY <1>3, <2>8, <2>9
<1> QED
  BY <1>1, <1>3, <1>7, <1>8

\* Taking a paragraph leaves a buffer whose size is counted right but for the blanks at its
\* start.
LEMMA BufferedHolds ==
  ASSUME Room, NEW ps \in Seq(Texts), NEW n \in 1 .. Len(ps), NEW st, Awaiting(ps, st, n),
         Passage(ps[n])
  PROVE  Holding(ps, Buffered(ps, n, st), n)
<1> DEFINE new == Buffered(ps, n, st)
<1>1. n \in Nat /\ MaxChars \in Nat /\ n + 1 \in 1 .. n + 1 /\ ~(n + 1 <= n)
  BY ChunkAssumption
<1>2. /\ st = [out |-> st.out, first |-> st.first, size |-> st.size]
      /\ st.first \in Nat /\ 1 <= st.first /\ st.first <= n /\ Loose(st.out)
  BY <1>1 DEF Holding, Awaiting
<1>3. CASE Length(ps[n]) > MaxChars
  <2> DEFINE out == st.out \o ChunkText(ps[n])
  <2>1. new = [out |-> out, first |-> n + 1, size |-> 0]
    BY <1>3 DEF Buffered
  <2>2. Loose(out)
    <3>1. Loose(ChunkText(ps[n]))
      BY TextFits, LooseFits
    <3> QED
      BY <1>2, <3>1, LooseCat
  <2> HIDE DEF new, out
  <2>3. new.out = out /\ new.first = n + 1 /\ new.size = 0
    BY <2>1
  <2>4. new = [out |-> new.out, first |-> new.first, size |-> new.size]
    BY <2>1, <2>3
  <2>5. 0 \in Nat /\ 0 <= MaxChars
    BY <1>1
  <2> QED
    BY <1>1, <2>2, <2>3, <2>4, <2>5 DEF Holding, new
<1>4. CASE ~(Length(ps[n]) > MaxChars)
  <2> DEFINE size == st.size + Length(ps[n]) + (IF st.size > 0 THEN 2 ELSE 0)
  <2>1. new = [st EXCEPT !.size = size]
    BY <1>4 DEF Buffered
  <2>2. size \in Nat /\ size <= MaxChars /\ Exactly(Buffer(ps, st.first, n), size)
    BY <1>4, BufferedExactly
  <2> HIDE DEF new, size
  <2>3. new = [out |-> st.out, first |-> st.first, size |-> size]
    BY <1>2, <2>1
  <2>4. new.out = st.out /\ new.first = st.first /\ new.size = size
    BY <2>3
  <2>5. st.first \in 1 .. n + 1 /\ ~(st.first > n)
    BY <1>1, <1>2
  <2> QED
    BY <1>2, <2>2, <2>3, <2>4, <2>5 DEF Holding, new
<1> QED
  BY <1>3, <1>4

\* What _split_oversized_markdown_section makes fits behind blanks: what it counts too little
\* are empty paragraphs at the start of a chunk.
LEMMA OversizedLoose ==
  ASSUME Room, NEW s, Passage(s)
  PROVE  Loose(SplitOversized(s))
<1> DEFINE ps == Paragraphs(s)
           n == Len(ps)
<1>1. Parted(ps)
  BY ParagraphsParted
<1>2. n \in Nat /\ ps \in Seq(Texts) /\ \A k \in 1 .. n : Passage(ps[k])
  BY <1>1 DEF Parted
<1>f. PICK f : SplitOversizedRun(f, s)
  BY <1>2, SplitOversizedLoop
<1>3. /\ f[0] = [out |-> <<>>, first |-> 1, size |-> 0]
      /\ \A k \in 1 .. n : f[k] = AddParagraph(ps, k, f[k - 1])
      /\ SplitOversized(s) =
           IF Length(s) <= MaxChars THEN <<s>>
           ELSE IF f[n].first > n THEN f[n].out
           ELSE Append(f[n].out, Buffer(ps, f[n].first, n))
  BY <1>f DEF SplitOversizedRun
<1>w. Length(s) <= MaxChars => Loose(<<s>>)
  BY FitsOne, LooseFits DEF Passage
<1>x. MaxChars \in Nat
  BY ChunkAssumption
<1> HIDE DEF ps, n
<1> DEFINE S == {k \in 0 .. n : Holding(ps, f[k], k)}
<1>4. 0 \in S
  <2>1. f[0].out = <<>> /\ f[0].first = 1 /\ f[0].size = 0 /\ 1 \in 1 .. 0 + 1 /\ ~(1 <= 0)
    BY <1>3
  <2>2. 0 \in Nat /\ 0 <= MaxChars
    BY <1>x
  <2>3. Holding(ps, f[0], 0)
    BY <1>3, <2>1, <2>2, LooseNone DEF Holding
  <2> QED
    BY <1>2, <2>3
<1>5. ASSUME NEW k \in 1 .. n, k - 1 \in S PROVE k \in S
  <2> DEFINE st == Flushed(ps, k, f[k - 1])
  <2>1. Holding(ps, f[k - 1], k - 1) /\ k \in 1 .. Len(ps) /\ k \in 0 .. n /\ Passage(ps[k])
    BY <1>2, <1>5 DEF n
  <2>2. Awaiting(ps, st, k)
    BY <1>2, <2>1, FlushedAwaits
  <2>3. f[k] = Buffered(ps, k, st)
    BY <1>3 DEF AddParagraph
  <2> HIDE DEF st
  <2>4. Holding(ps, Buffered(ps, k, st), k)
    BY <1>2, <2>1, <2>2, BufferedHolds
  <2> QED
    BY <2>1, <2>3, <2>4
<1>6. n \in S
  <2> HIDE DEF S
  <2>1. \A k \in 1 .. n : k - 1 \in S => k \in S
    BY <1>5
  <2>2. \A k \in 0 .. n : k \in S
    BY <1>2, <1>4, <2>1, InductTo
  <2> QED
    BY <1>2, <2>2
<1> DEFINE a == f[n].first
           out == f[n].out
           size == f[n].size
<1>7. /\ a \in Nat /\ Loose(out) /\ size \in Nat /\ size <= MaxChars
      /\ a <= n => Exactly(Buffer(ps, a, n), size)
  BY <1>2, <1>6 DEF Holding
<1> HIDE DEF a, out, size
<1>8. a <= n => Loose(Append(out, Buffer(ps, a, n)))
  BY <1>7, <1>x, ExactlySlack, LooseAppend
<1>9. a > n \/ a <= n
  BY <1>2, <1>7
<1> QED
  BY <1>3, <1>7, <1>8, <1>9, <1>w DEF a, out

(***************************************************************************)
(* The chunks of a document fit.                                           *)
(***************************************************************************)
\* The chunks of chunk_markdown fit behind blanks.
LEMMA MarkdownLoose ==
  ASSUME Room, NEW s, Passage(s)
  PROVE  Loose(ChunkMarkdown(s))
<1> DEFINE parts == Sections(s)
           lists == [k \in DOMAIN parts |-> SplitOversized(parts[k])]
<1>1. Parted(parts)
  BY SectionsParted
<1>2. ChunkMarkdown(s) = MergeSplits(Concat(lists), "para", 0)
  BY DEF ChunkMarkdown
<1> HIDE DEF parts
<1>3. DOMAIN parts = 1 .. Len(parts) /\ Len(parts) \in Nat /\ \A k \in 1 .. Len(parts) : Passage(parts[k])
  BY <1>1 DEF Parted
<1>4. \A k \in 1 .. Len(parts) : Loose(SplitOversized(parts[k]))
  BY <1>3, OversizedLoose
<1>5. Len(lists) = Len(parts) /\ \A k \in 1 .. Len(lists) : Loose(lists[k])
  <2>1. lists \in [1 .. Len(parts) -> Seq(Texts)]
    BY <1>3, <1>4 DEF Loose
  <2>2. Len(lists) = Len(parts)
    BY <1>3, <2>1
  <2> QED
    BY <1>3, <1>4, <2>2
<1> HIDE DEF lists
<1>6. Loose(Concat(lists))
  BY <1>3, <1>5, LooseConcat
<1> QED
  BY <1>2, <1>6, LooseMerge

\* So do those of a segment,
LEMMA EmitLoose ==
  ASSUME Room, NEW s, Passage(s)
  PROVE  Loose(Emit(s))
<1>1. Length(s) <= MaxChars => Loose(<<s>>)
  BY FitsOne, LooseFits DEF Passage
<1>2. Loose(ChunkText(s))
  BY TextFits, LooseFits
<1> QED
  BY <1>1, <1>2 DEF Emit

\* those of a node and the text before it,
LEMMA EmitNodeLoose ==
  ASSUME Room, NEW s, Passage(s), NEW nodes, Nodes(s, nodes), NEW k \in 1 .. Len(nodes)
  PROVE  Loose(EmitNode(s, nodes, k))
<1> DEFINE p == PrevEnd(nodes, k)
           f == FirstLine(nodes, k)
           l == nodes[k].last
<1>1. Len(nodes) \in Nat /\ DOMAIN nodes = 1 .. Len(nodes)
  BY DEF Nodes
<1>2. p \in Nat /\ nodes[k].first \in Nat /\ l \in Nat
  <2>1. k \in 1 .. Len(nodes) + 1
    BY <1>1
  <2> QED
    BY <2>1, PrevEndIs
<1>3. p <= nodes[k].first /\ nodes[k].first <= l /\ l <= Len(Lines(s))
  BY <1>1 DEF Nodes
<1>4. f = IF nodes[k].first > p THEN nodes[k].first ELSE p + 1
  BY DEF FirstLine
<1>5. Len(Lines(s)) \in Nat
  BY LinesParted
<1> HIDE DEF p, f, l
<1>6. f \in Nat /\ f - 1 \in Nat /\ p + 1 \in Nat /\ 1 <= p + 1 /\ 1 <= f /\ f - 1 <= Len(Lines(s))
  BY <1>2, <1>3, <1>4, <1>5
<1>7. Loose(Emit(Span(s, p + 1, f - 1)))
  BY <1>6, SpanKeeps, EmitLoose
<1>8. Loose(Emit(Span(s, f, l)))
  BY <1>2, <1>3, <1>6, SpanKeeps, EmitLoose
<1> QED
  BY <1>7, <1>8, LooseCat DEF EmitNode, p, f, l

\* those of chunk_python,
LEMMA PythonLoose ==
  ASSUME Room, NEW s, Passage(s), NEW nodes, Nodes(s, nodes)
  PROVE  Loose(ChunkPython(s, nodes))
<1> DEFINE m == Len(Lines(s))
           e == PrevEnd(nodes, Len(nodes) + 1)
           lists == [k \in DOMAIN nodes |-> EmitNode(s, nodes, k)]
           before == Concat(lists)
           tail == Emit(Span(s, e + 1, m))
<1>1. ChunkPython(s, nodes) =
        IF before \o tail = <<>> THEN ChunkText(s) ELSE MergeSplits(before \o tail, "para", 0)
  BY DEF ChunkPython
<1>2. Len(nodes) \in Nat /\ DOMAIN nodes = 1 .. Len(nodes)
  BY DEF Nodes
<1>3. e \in Nat /\ e <= m /\ m \in Nat
  <2>1. Len(nodes) + 1 \in 1 .. Len(nodes) + 1
    BY <1>2
  <2> QED
    BY <2>1, PrevEndIs, LinesParted
<1>4. e + 1 \in Nat /\ 1 <= e + 1 /\ m <= Len(Lines(s))
  BY <1>3
<1>5. Loose(tail)
  BY <1>3, <1>4, SpanKeeps, EmitLoose
<1>6. Loose(before)
  <2>1. \A k \in 1 .. Len(nodes) : Loose(lists[k])
    BY <1>2, EmitNodeLoose
  <2>2. lists \in [1 .. Len(nodes) -> Seq(Texts)]
    BY <1>2, <2>1 DEF Loose
  <2>3. Len(lists) = Len(nodes)
    BY <1>2, <2>2
  <2> HIDE DEF lists
  <2> QED
    BY <1>2, <2>1, <2>3, LooseConcat
<1> HIDE DEF before, tail
<1>7. Loose(MergeSplits(before \o tail, "para", 0))
  BY <1>5, <1>6, LooseCat, LooseMerge
<1>8. Loose(ChunkText(s))
  BY TextFits, LooseFits
<1> QED
  BY <1>1, <1>7, <1>8

\* and those of any document.
LEMMA DocumentLoose ==
  ASSUME Room, NEW d \in Documents
  PROVE  Loose(ChunkDocument(d))
<1> DEFINE s == TextOf(d)
<1>1. Passage(s)
  BY TextPassage
<1>2. d.kind \in {"text", "markdown", "python"}
  BY ChunkAssumption
<1> HIDE DEF s
<1>3. CASE d.kind = "text"
  <2>1. Loose(ChunkText(s))
    BY <1>1, TextFits, LooseFits
  <2> QED
    BY <1>3, <2>1 DEF ChunkDocument, s
<1>4. CASE d.kind = "markdown"
  BY <1>1, <1>4, MarkdownLoose DEF ChunkDocument, s
<1>5. CASE d.kind = "python"
  <2>1. Nodes(s, d.nodes)
    BY <1>5, ChunkAssumption DEF Nodes, s
  <2>2. Loose(ChunkPython(s, d.nodes))
    BY <1>1, <2>1, PythonLoose
  <2> QED
    BY <1>5, <2>2 DEF ChunkDocument, s
<1> QED
  BY <1>2, <1>3, <1>4, <1>5

\* If the maximum leaves room for a window, its overlap and a separator, as 2000 does for
\* 500 and 100, no chunk of any document is longer than the maximum.
THEOREM ChunksFit == Room => (ChunkSpec => []FitsMaximum)
<1>0. SUFFICES ASSUME Room PROVE ChunkSpec => []FitsMaximum
  OBVIOUS
<1>1. ASSUME ChunkInv PROVE FitsMaximum
  <2> SUFFICES ASSUME Done PROVE \A k \in DOMAIN chunks : Length(chunks[k]) <= MaxChars
    BY DEF FitsMaximum
  <2>1. document \in Documents /\ chunks = Stripped(ChunkDocument(document))
    BY <1>1 DEF ChunkInv
  <2>2. Loose(ChunkDocument(document))
    BY <1>0, <2>1, DocumentLoose
  <2>3. Stripped(ChunkDocument(document)) \in Seq(Texts)
    BY <2>2, StrippedKept DEF Loose, Kept
  <2>4. DOMAIN chunks = 1 .. Len(chunks)
    BY <2>1, <2>3
  <2> QED
    BY <2>1, <2>2, <2>4, StrippedFits
<1>2. ChunkInv => FitsMaximum
  BY <1>1
<1> QED
  BY <1>2, ChunksOfDocument, PTL

(***************************************************************************)
(* What is not cut apart stays in one part, and in one chunk.              *)
(***************************************************************************)

\* Of two tokens without a cut between them, both are in one part.
Joint(w, n, cuts) ==
  \A i, j \in 1 .. n : i <= j /\ (\A c \in i .. j : c \notin cuts) =>
    \E k \in 1 .. Len(w) : w[k][1] <= i /\ j <= w[k][2]

\* A new part at n is behind a cut.
LEMMA JointAdded ==
  ASSUME NEW w, NEW n \in Nat \ {0}, NEW cuts, Pieces(w, n - 1, cuts), Joint(w, n - 1, cuts),
         n = 1 \/ n - 1 \in cuts
  PROVE  Joint(Append(w, <<n, n>>), n, cuts)
<1> DEFINE u == Append(w, <<n, n>>)
           m == Len(w)
<1>1. w \in Seq(Nat \X Nat) /\ m \in Nat
  BY DEF Pieces
<1>2. Len(u) = m + 1 /\ u[m + 1] = <<n, n>> /\ \A k \in 1 .. m : u[k] = w[k]
  BY <1>1
<1>3. u[m + 1][1] = n /\ u[m + 1][2] = n /\ m + 1 \in 1 .. m + 1 /\ \A k \in 1 .. m : k \in 1 .. m + 1
  BY <1>1, <1>2
<1> HIDE DEF u, m
<1>4. ASSUME NEW i \in 1 .. n, NEW j \in 1 .. n, i <= j, \A c \in i .. j : c \notin cuts
      PROVE  \E k \in 1 .. m + 1 : u[k][1] <= i /\ j <= u[k][2]
  <2>1. CASE j = n
    <3>1. i = n
      <4>1. i # n => n - 1 \in i .. j /\ n # 1
        BY <2>1
      <4> QED
        BY <1>4, <4>1
    <3> QED
      BY <1>3, <2>1, <3>1
  <2>2. CASE j # n
    <3>1. i \in 1 .. n - 1 /\ j \in 1 .. n - 1
      BY <1>4, <2>2
    <3>2. PICK k \in 1 .. m : w[k][1] <= i /\ j <= w[k][2]
      BY <1>4, <3>1 DEF Joint, m
    <3> QED
      BY <1>2, <1>3, <3>2
  <2> QED
    BY <2>1, <2>2
<1> QED
  BY <1>2, <1>4 DEF Joint, u

\* A part that grows keeps what it has, and takes the token behind it.
LEMMA JointExtended ==
  ASSUME NEW w, NEW n \in Nat \ {0}, NEW cuts, Pieces(w, n - 1, cuts), Open(w, n - 1),
         Nonempty(w), Joint(w, n - 1, cuts)
  PROVE  Joint([w EXCEPT ![Len(w)] = <<@[1], n>>], n, cuts)
<1> DEFINE m == Len(w)
           u == [w EXCEPT ![m] = <<@[1], n>>]
<1>1. /\ w \in Seq(Nat \X Nat) /\ m \in Nat \ {0} /\ m \in 1 .. m /\ n - 1 \in Nat
      /\ w[m][2] = n - 1 /\ w[m][1] <= n
  BY DEF Pieces, Open
<1>2. \A k \in 1 .. m : w[k][1] \in Nat /\ w[k][2] \in Nat /\ w[k][2] <= n - 1
  BY <1>1, PieceIs DEF m
<1>3. <<w[m][1], n>> \in Nat \X Nat
  BY <1>1, <1>2
<1>4. Len(u) = m
  BY <1>1, <1>3
<1>5. (\A k \in 1 .. m : k # m => u[k] = w[k]) /\ u[m] = <<w[m][1], n>>
  BY <1>1
<1>6. u[m][1] = w[m][1] /\ u[m][2] = n
  BY <1>5
<1>7. w[m][1] <= w[m][2]
  BY <1>1 DEF Nonempty, m
<1>8. \A k \in 1 .. m : k # m => w[k][2] < w[m][1]
  <2> TAKE k \in 1 .. m
  <2> HAVE k # m
  <2>1. k < m
    BY <1>1
  <2> QED
    BY <1>1, <2>1 DEF Pieces, m
<1> HIDE DEF u, m
<1>9. \A k \in 1 .. m : u[k][1] = w[k][1] /\ \A j \in 1 .. n : j <= w[k][2] => j <= u[k][2]
  <2> TAKE k \in 1 .. m
  <2>1. CASE k = m
    BY <1>6, <2>1
  <2>2. CASE k # m
    BY <1>5, <2>2
  <2> QED
    BY <2>1, <2>2
<1>10. ASSUME NEW i \in 1 .. n, NEW j \in 1 .. n, i <= j, \A c \in i .. j : c \notin cuts
       PROVE  \E k \in 1 .. m : u[k][1] <= i /\ j <= u[k][2]
  <2>1. CASE j # n
    <3>1. i \in 1 .. n - 1 /\ j \in 1 .. n - 1
      BY <1>10, <2>1
    <3>2. PICK k \in 1 .. m : w[k][1] <= i /\ j <= w[k][2]
      BY <1>10, <3>1 DEF Joint, m
    <3> QED
      BY <1>9, <3>2
  <2>2. CASE j = n /\ i = n
    BY <1>1, <1>6, <2>2
  <2>3. CASE j = n /\ i # n
    <3>1. i \in 1 .. n - 1 /\ n - 1 \in 1 .. n - 1 /\ i <= n - 1
      BY <2>3
    <3>2. \A c \in i .. n - 1 : c \notin cuts
      <4>1. \A c \in i .. n - 1 : c \in i .. j
        BY <2>3
      <4> QED
        BY <1>10, <4>1
    <3>3. PICK k \in 1 .. m : w[k][1] <= i /\ n - 1 <= w[k][2]
      BY <3>1, <3>2 DEF Joint, m
    <3>4. k = m
      <4> SUFFICES ASSUME k # m PROVE FALSE
        OBVIOUS
      <4>1. w[k][2] < w[m][1]
        BY <1>8
      <4> QED
        BY <1>1, <1>2, <1>7, <3>3, <4>1
    <3> QED
      BY <1>1, <1>6, <2>3, <3>3, <3>4
  <2> QED
    BY <2>1, <2>2, <2>3
<1> QED
  BY <1>4, <1>10 DEF Joint, u

\* Two tokens without a cut between them are in one part.
LEMMA SpansJoint ==
  ASSUME NEW s, Len(s) \in Nat, NEW cuts
  PROVE  Joint(Spans(s, cuts), Len(s), cuts)
<1> DEFINE n == Len(s)
<1>1. n \in Nat
  OBVIOUS
<1>f. PICK f : SpansRun(f, s, cuts)
  BY <1>1, SpansLoop
<1>2. /\ f[0] = <<>> /\ Spans(s, cuts) = f[n]
      /\ \A k \in 1 .. n : f[k] = NextSpan(cuts, k, f[k - 1])
  BY <1>f DEF SpansRun
<1> HIDE DEF n
<1> DEFINE S == {k \in 0 .. n : Spanned(f[k], k, cuts) /\ Nonempty(f[k]) /\ Joint(f[k], k, cuts)}
<1>3. 0 \in S
  <2>1. Nonempty(<<>>)
    BY DEF Nonempty
  <2>2. Joint(<<>>, 0, cuts)
    <3>1. 1 .. 0 = {}
      OBVIOUS
    <3> QED
      BY <3>1 DEF Joint
  <2> QED
    BY <1>1, <1>2, <2>1, <2>2, NothingCut
<1>4. ASSUME NEW k \in 1 .. n, k - 1 \in S PROVE k \in S
  <2> DEFINE w == f[k - 1]
  <2>1. k \in Nat \ {0} /\ k \in 0 .. n /\ Spanned(w, k - 1, cuts) /\ Nonempty(w) /\ Joint(w, k - 1, cuts)
    BY <1>1, <1>4
  <2>2. f[k] = NextSpan(cuts, k, w)
    BY <1>2
  <2> HIDE DEF w
  <2>3. CASE k \in cuts
    <3>1. f[k] = w
      BY <2>2, <2>3 DEF NextSpan
    <3>2. Pieces(w, k, cuts)
      BY <2>1, <2>3, PiecesLater DEF Spanned
    <3>3. Joint(w, k, cuts)
      <4>1. \A i, j \in 1 .. k : i <= j /\ (\A c \in i .. j : c \notin cuts) =>
              i \in 1 .. k - 1 /\ j \in 1 .. k - 1
        BY <2>1, <2>3
      <4> QED
        BY <2>1, <4>1 DEF Joint
    <3> QED
      BY <2>1, <2>3, <3>1, <3>2, <3>3 DEF Spanned
  <2>4. CASE k \notin cuts /\ (k = 1 \/ k - 1 \in cuts)
    <3>1. f[k] = Append(w, <<k, k>>)
      BY <2>2, <2>4 DEF NextSpan
    <3>2. Pieces(Append(w, <<k, k>>), k, cuts) /\ Open(Append(w, <<k, k>>), k)
      BY <2>1, PieceAdded DEF Spanned
    <3>3. Nonempty(Append(w, <<k, k>>))
      BY <2>1, NonemptyAdded DEF Spanned, Pieces
    <3>4. Joint(Append(w, <<k, k>>), k, cuts)
      BY <2>1, <2>4, JointAdded DEF Spanned
    <3> QED
      BY <2>1, <3>1, <3>2, <3>3, <3>4 DEF Spanned
  <2>5. CASE k \notin cuts /\ k # 1 /\ k - 1 \notin cuts
    <3>1. f[k] = [w EXCEPT ![Len(w)] = <<@[1], k>>]
      BY <2>2, <2>5 DEF NextSpan
    <3>2. k - 1 \in 1 .. k - 1
      BY <2>1, <2>5
    <3>3. Pieces(w, k - 1, cuts) /\ Open(w, k - 1)
      BY <2>1, <2>5, <3>2 DEF Spanned
    <3>4. /\ Pieces([w EXCEPT ![Len(w)] = <<@[1], k>>], k, cuts)
          /\ Open([w EXCEPT ![Len(w)] = <<@[1], k>>], k)
      BY <2>1, <3>3, PieceExtended
    <3>5. Nonempty([w EXCEPT ![Len(w)] = <<@[1], k>>])
      BY <2>1, <3>3, NonemptyExtended
    <3>6. Joint([w EXCEPT ![Len(w)] = <<@[1], k>>], k, cuts)
      BY <2>1, <3>3, JointExtended
    <3> QED
      BY <2>1, <3>1, <3>4, <3>5, <3>6 DEF Spanned
  <2> QED
    BY <2>3, <2>4, <2>5
<1>5. n \in S
  <2> HIDE DEF S
  <2>1. \A k \in 1 .. n : k - 1 \in S => k \in S
    BY <1>4
  <2>2. \A k \in 0 .. n : k \in S
    BY <1>1, <1>3, <2>1, InductTo
  <2> QED
    BY <1>1, <2>2
<1> QED
  BY <1>2, <1>5 DEF n

\* The places P are those of words of one text.
InOne(ts, P) == \E k \in 1 .. Len(ts) : P \subseteq Ink(ts[k])

\* Two words without a cut between them are in one part.
LEMMA CutJoins ==
  ASSUME NEW s, Passage(s), NEW cuts, \A c \in 1 .. Len(s) : c \in cuts => s[c].kind \in Blank,
         NEW i \in Inky(s), NEW j \in Inky(s), i <= j, \A c \in i .. j : c \notin cuts
  PROVE  InOne(CutAt(s, cuts), {s[i].at, s[j].at})
<1> DEFINE w == Spans(s, cuts)
           ts == CutAt(s, cuts)
<1>1. s \in Texts /\ Len(s) \in Nat /\ i \in 1 .. Len(s) /\ j \in 1 .. Len(s)
  BY InkyOf DEF Passage
<1>2. Pieces(w, Len(s), cuts) /\ Joint(w, Len(s), cuts)
  BY <1>1, SpansPieces, SpansJoint
<1>3. ts = [k \in DOMAIN w |-> SubSeq(s, w[k][1], w[k][2])]
  BY DEF CutAt
<1>c. ts \in Seq(Texts)
  BY CutKeeps DEF Parted
<1> HIDE DEF w, ts
<1>4. PICK k \in 1 .. Len(w) : w[k][1] <= i /\ j <= w[k][2]
  BY <1>1, <1>2 DEF Joint
<1>5. w[k][1] \in Nat /\ w[k][2] \in Nat /\ 1 <= w[k][1] /\ w[k][2] <= Len(s)
  BY <1>1, <1>2, PieceIs
<1>6. DOMAIN w = 1 .. Len(w) /\ Len(w) \in Nat
  BY <1>2 DEF Pieces
<1>7. ts[k] = SubSeq(s, w[k][1], w[k][2]) /\ Len(ts) = Len(w)
  <2>1. DOMAIN ts = 1 .. Len(w)
    BY <1>3, <1>6
  <2>2. Len(ts) \in Nat /\ DOMAIN ts = 1 .. Len(ts)
    BY <1>c
  <2>3. Len(ts) = Len(w)
    BY <1>6, <2>1, <2>2
  <2> QED
    BY <1>3, <1>6, <2>3
<1>8. i \in w[k][1] .. w[k][2] /\ j \in w[k][1] .. w[k][2]
  BY <1>1, <1>4, <1>5
<1>9. Ink(ts[k]) = {s[x].at : x \in {y \in Inky(s) : y \in w[k][1] .. w[k][2]}}
  BY <1>1, <1>5, <1>7, SubInk
<1>10. {s[i].at, s[j].at} \subseteq Ink(ts[k])
  BY <1>8, <1>9
<1> QED
  BY <1>7, <1>10 DEF InOne, ts

\* Stripping keeps words together.
LEMMA StripJoins ==
  ASSUME NEW ts \in Seq(Texts), NEW P, P # {}, InOne(ts, P)
  PROVE  InOne(Stripped(ts), P)
<1> DEFINE g == Stripped(ts)
<1>1. Kept(g, ts, Len(ts))
  BY StrippedKept
<1>2. PICK k \in 1 .. Len(ts) : P \subseteq Ink(ts[k])
  BY DEF InOne
<1>3. ts[k] \in Texts
  OBVIOUS
<1>4. P \subseteq Ink(Strip(ts[k]))
  BY <1>2, <1>3, StripKeeps
<1>5. Strip(ts[k]) # <<>>
  BY <1>4, EmptyInk
<1> HIDE DEF g
<1>6. PICK j \in 1 .. Len(g) : g[j] = Strip(ts[k])
  BY <1>1, <1>5 DEF Kept
<1>7. InOne(g, P)
  BY <1>4, <1>6 DEF InOne
<1> QED
  BY <1>7 DEF g

\* Packing keeps words together.
LEMMA MergeJoins ==
  ASSUME NEW ts, NEW I, Renders(ts, I), NEW kind \in Separators, NEW overlap \in Nat,
         NEW P, InOne(ts, P)
  PROVE  InOne(MergeSplits(ts, kind, overlap), P)
<1> DEFINE w == Windows(ts, kind, overlap)
           us == MergeSplits(ts, kind, overlap)
           n == Len(ts)
<1>1. ts \in Seq(Texts) /\ n \in Nat
  BY DEF Renders
<1>2. Spread(w, n) /\ \A i \in 1 .. n : Covered(w, i)
  BY <1>1, WindowsSpread
<1>3. w \in Seq(Nat \X Nat) /\ DOMAIN w = 1 .. Len(w) /\ Len(w) \in Nat
  BY <1>2 DEF Spread
<1>4. us = [k \in 1 .. Len(w) |-> Join(SubSeq(ts, w[k][1], w[k][2]), kind)]
  BY <1>3 DEF MergeSplits
<1> HIDE DEF w, us
<1>5. PICK i \in 1 .. n : P \subseteq Ink(ts[i])
  BY DEF InOne
<1>6. PICK k \in 1 .. Len(w) : w[k][1] <= i /\ i <= w[k][2]
  BY <1>2 DEF Covered
<1>7. w[k] \in Nat \X Nat
  BY <1>3
<1>8. w[k][1] \in Nat /\ w[k][2] \in Nat /\ 1 <= w[k][1] /\ w[k][2] <= n
  BY <1>2, <1>7 DEF Spread
<1>9. Renders(SubSeq(ts, w[k][1], w[k][2]), InkOf(ts, w[k][1], w[k][2]))
  BY <1>8, RendersSub
<1>10. us[k] = Join(SubSeq(ts, w[k][1], w[k][2]), kind) /\ Len(us) = Len(w)
  BY <1>3, <1>4
<1>11. Ink(us[k]) = InkOf(ts, w[k][1], w[k][2])
  BY <1>9, <1>10, JoinKeeps
<1>12. i \in w[k][1] .. w[k][2]
  BY <1>1, <1>6, <1>8
<1>13. P \subseteq Ink(us[k])
  BY <1>5, <1>11, <1>12 DEF InkOf
<1> QED
  BY <1>10, <1>13 DEF InOne, us

\* Lists of one text each, one behind the other.
LEMMA ConcatOnes ==
  ASSUME NEW ts, Len(ts) \in Nat, ts \in Seq(Texts), NEW lists, Len(lists) = Len(ts),
         \A k \in 1 .. Len(ts) : lists[k] = <<ts[k]>>
  PROVE  Concat(lists) = ts
<1> DEFINE n == Len(ts)
<1>1. n \in Nat
  OBVIOUS
<1>f. PICK f : ConcatRun(f, lists)
  BY <1>1, ConcatLoop
<1>2. f[0] = <<>> /\ Concat(lists) = f[n] /\ \A k \in 1 .. n : f[k] = f[k - 1] \o lists[k]
  BY <1>f DEF ConcatRun
<1> DEFINE S == {k \in 0 .. n : f[k] = SubSeq(ts, 1, k)}
<1>3. 0 \in S
  <2>1. SubSeq(ts, 1, 0) = <<>>
    OBVIOUS
  <2>2. 0 \in 0 .. n /\ f[0] = SubSeq(ts, 1, 0)
    BY <1>1, <1>2, <2>1
  <2> QED
    BY <2>2
<1>4. ASSUME NEW k \in 1 .. n, k - 1 \in S PROVE k \in S
  <2>0. f[k - 1] = SubSeq(ts, 1, k - 1) /\ k \in 0 .. n
    BY <1>1, <1>4
  <2>1. f[k] = f[k - 1] \o <<ts[k]>>
    BY <1>2
  <2>2. SubSeq(ts, 1, k - 1) \o SubSeq(ts, k, k) = SubSeq(ts, 1, k)
    <3>1. /\ 1 \in 1 .. Len(ts) + 1 /\ k - 1 \in 1 - 1 .. Len(ts) /\ k \in k - 1 .. Len(ts)
          /\ (k - 1) + 1 = k
      BY <1>1
    <3>2. SubSeq(ts, 1, k - 1) \o SubSeq(ts, (k - 1) + 1, k) = SubSeq(ts, 1, k)
      BY <3>1, ConcatAdjacentSubSeq
    <3> QED
      BY <3>1, <3>2
  <2>3. SubSeq(ts, k, k) = <<ts[k]>>
    <3> DEFINE t == SubSeq(ts, k, k)
    <3>1. k \in Nat /\ 1 <= k /\ k <= Len(ts)
      BY <1>1
    <3>2. t \in Seq(Texts) /\ Len(t) = 1 /\ t[1] = ts[k]
      BY <3>1
    <3> HIDE DEF t
    <3>3. t = <<ts[k]>>
      BY <3>2
    <3> QED
      BY <3>3 DEF t
  <2> QED
    BY <2>0, <2>1, <2>2, <2>3
<1>5. n \in S
  <2> HIDE DEF S
  <2>1. \A k \in 1 .. n : k - 1 \in S => k \in S
    BY <1>4
  <2>2. \A k \in 0 .. n : k \in S
    BY <1>1, <1>3, <2>1, InductTo
  <2> QED
    BY <1>1, <2>2
<1>6. SubSeq(ts, 1, n) = ts
  BY SubSeqFull
<1> QED
  BY <1>2, <1>5, <1>6

\* A section is no longer than the document.
LEMMA SectionsShort ==
  ASSUME NEW s, Passage(s), NEW k \in 1 .. Len(Sections(s))
  PROVE  Length(Sections(s)[k]) <= Length(s) /\ Length(Sections(s)[k]) \in Nat /\ Length(s) \in Nat
<1> DEFINE cuts == {i - 1 : i \in Headers(s) \ {1}}
           w == Spans(s, cuts)
           ts == CutAt(s, cuts)
           g == Sections(s)
<1>1. s \in Texts /\ Len(s) \in Nat
  BY DEF Passage, Texts
<1>2. Pieces(w, Len(s), cuts)
  BY <1>1, SpansPieces
<1>3. ts = [x \in DOMAIN w |-> SubSeq(s, w[x][1], w[x][2])]
  BY DEF CutAt
<1>4. g = Stripped(ts)
  BY DEF Sections
<1> HIDE DEF cuts, w, ts, g
<1>5. w \in Seq(Nat \X Nat) /\ DOMAIN w = 1 .. Len(w) /\ Len(w) \in Nat
  BY <1>2 DEF Pieces
<1>6. ASSUME NEW x \in 1 .. Len(w)
      PROVE  /\ ts[x] \in Texts /\ Length(Strip(ts[x])) <= Length(s)
             /\ Length(Strip(ts[x])) \in Nat /\ Length(s) \in Nat
  <2>1. w[x][1] \in Nat /\ w[x][2] \in Nat /\ 1 <= w[x][1] /\ w[x][2] <= Len(s)
    BY <1>1, <1>2, PieceIs
  <2>2. ts[x] = SubSeq(s, w[x][1], w[x][2])
    BY <1>3, <1>5
  <2>3. ts[x] \in Texts /\ Length(ts[x]) <= Length(s) /\ Length(ts[x]) \in Nat /\ Length(s) \in Nat
    BY <1>1, <2>1, <2>2, PartIsShorter
  <2>4. Length(Strip(ts[x])) <= Length(ts[x]) /\ Length(Strip(ts[x])) \in Nat
    BY <2>3, BehindNothing, StripBehind
  <2> QED
    BY <2>3, <2>4
<1>7. ts \in Seq(Texts) /\ Len(ts) = Len(w)
  <2> DEFINE m == Len(w)
  <2>1. m \in Nat /\ ts \in [1 .. m -> Texts]
    BY <1>3, <1>5, <1>6
  <2> HIDE DEF m
  <2>2. ts \in Seq(Texts) /\ Len(ts) = m
    BY <2>1
  <2> QED
    BY <2>2 DEF m
<1>8. Kept(g, ts, Len(ts))
  BY <1>4, <1>7, StrippedKept
<1>9. PICK x \in 1 .. Len(ts) : g[k] = Strip(ts[x])
  BY <1>8 DEF Kept, g
<1> QED
  BY <1>6, <1>7, <1>9 DEF g

\* The sections of a document that is short enough are packed as they are.
LEMMA ShortMarkdown ==
  ASSUME NEW s, Passage(s), Length(s) <= MaxChars
  PROVE  ChunkMarkdown(s) = MergeSplits(Sections(s), "para", 0)
<1> DEFINE parts == Sections(s)
           lists == [k \in DOMAIN parts |-> SplitOversized(parts[k])]
<1>1. Parted(parts)
  BY SectionsParted
<1>2. ChunkMarkdown(s) = MergeSplits(Concat(lists), "para", 0)
  BY DEF ChunkMarkdown
<1>3. \A k \in 1 .. Len(parts) : Length(parts[k]) <= Length(s) /\ Length(parts[k]) \in Nat /\ Length(s) \in Nat
  BY SectionsShort
<1>m. MaxChars \in Nat
  BY ChunkAssumption
<1> HIDE DEF parts
<1>4. parts \in Seq(Texts) /\ DOMAIN parts = 1 .. Len(parts) /\ Len(parts) \in Nat
  BY <1>1 DEF Parted
<1>5. \A k \in 1 .. Len(parts) : SplitOversized(parts[k]) = <<parts[k]>>
  <2> TAKE k \in 1 .. Len(parts)
  <2>1. Length(parts[k]) <= MaxChars
    BY <1>3, <1>m
  <2> QED
    BY <2>1 DEF SplitOversized
<1>6. Len(lists) = Len(parts)
  <2>1. lists \in [1 .. Len(parts) -> Seq(Texts)]
    <3>1. \A k \in 1 .. Len(parts) : <<parts[k]>> \in Seq(Texts)
      BY <1>4
    <3> QED
      BY <1>4, <1>5, <3>1
  <2> QED
    BY <1>4, <2>1
<1>7. \A k \in 1 .. Len(parts) : lists[k] = <<parts[k]>>
  BY <1>4, <1>5
<1> HIDE DEF lists
<1>8. Concat(lists) = parts
  BY <1>4, <1>6, <1>7, ConcatOnes
<1> QED
  BY <1>2, <1>8 DEF parts

\* No header is between the fence lines of a code block, and none follows on the last.
LEMMA BlockUncut ==
  ASSUME NEW s, Passage(s), NEW i \in DOMAIN s, NEW j \in DOMAIN s, CodeBlock(s, i, j)
  PROVE  /\ i \in Inky(s) /\ j \in Inky(s) /\ i <= j
         /\ \A c \in i .. j : c \notin {h - 1 : h \in Headers(s) \ {1}}
<1>1. DOMAIN s = 1 .. Len(s) /\ Len(s) \in Nat
  BY DEF Passage, Texts
<1>2. i < j /\ i \in Nat /\ j \in Nat /\ s[i].kind \in {"fence", "info"} /\ s[j].kind = "fence"
  BY <1>1 DEF CodeBlock
<1>3. i \in Inky(s) /\ j \in Inky(s)
  BY <1>2 DEF Inky, Blank
<1>4. ASSUME NEW c \in i .. j, NEW h \in Headers(s) \ {1}, c = h - 1 PROVE FALSE
  <2>1. h \in DOMAIN s /\ h # 1 /\ s[h - 1].kind \in {"line", "para"} /\ ~InCode(s, h)
    BY DEF Headers, LineStarts
  <2>2. h \in i + 1 .. j \/ h - 1 = j
    BY <1>1, <1>2, <1>4, <2>1
  <2>3. h - 1 # j
    BY <1>2, <2>1
  <2> QED
    BY <2>1, <2>2, <2>3 DEF CodeBlock
<1> QED
  BY <1>2, <1>3, <1>4

\* Every code block of a short Markdown document is in one chunk: no section begins within
\* a block, a section that is not too long is not split, and packing and stripping keep
\* what is in one section together.
THEOREM CodeBlocksStayWhole == ChunkSpec => []CodeBlocksWhole
<1>1. ASSUME ChunkInv PROVE CodeBlocksWhole
  <2> DEFINE s == TextOf(document)
             cuts == {h - 1 : h \in Headers(s) \ {1}}
             P(i, j) == {s[i].at, s[j].at}
  <2> SUFFICES ASSUME Done, document.kind = "markdown", Length(s) <= MaxChars,
                      NEW i \in DOMAIN document.kinds, NEW j \in DOMAIN document.kinds,
                      CodeBlock(s, i, j)
               PROVE  \E k \in DOMAIN chunks : {i, j} \subseteq Places(chunks[k])
    BY DEF CodeBlocksWhole
  <2>1. document \in Documents /\ chunks = Stripped(ChunkDocument(document))
    BY <1>1 DEF ChunkInv
  <2>2. Passage(s)
    BY <2>1, TextPassage
  <2>3. i \in DOMAIN s /\ j \in DOMAIN s /\ s[i].at = i /\ s[j].at = j
    BY DEF TextOf
  <2>4. ChunkDocument(document) = MergeSplits(Sections(s), "para", 0)
    BY <2>2, ShortMarkdown DEF ChunkDocument
  <2>5. i \in Inky(s) /\ j \in Inky(s) /\ i <= j /\ \A c \in i .. j : c \notin cuts
    BY <2>2, <2>3, BlockUncut
  <2>6. Sections(s) = Stripped(CutAt(s, cuts))
    BY DEF Sections
  <2>7. Parted(Sections(s))
    BY <2>2, SectionsParted
  <2>8. DOMAIN document.kinds = 1 .. Len(document.kinds)
    BY <2>1, ChunkAssumption
  <2>a. \A c \in 1 .. Len(s) : c \in cuts => s[c].kind \in Blank
    <3> TAKE c \in 1 .. Len(s)
    <3> HAVE c \in cuts
    <3>1. PICK h \in Headers(s) : h # 1 /\ c = h - 1
      OBVIOUS
    <3>2. s[h - 1].kind \in {"line", "para"}
      BY <3>1 DEF Headers, LineStarts
    <3> QED
      BY <3>1, <3>2 DEF Blank
  <2>9. CutAt(s, cuts) \in Seq(Texts)
    BY <2>2, <2>a, CutKeeps DEF Parted
  <2> HIDE DEF s, cuts
  <2>10. InOne(CutAt(s, cuts), {i, j})
    BY <2>2, <2>3, <2>5, <2>a, CutJoins
  <2>11. InOne(Sections(s), {i, j})
    BY <2>6, <2>9, <2>10, StripJoins
  <2>12. "para" \in Separators /\ 0 \in Nat
    BY DEF Separators, Blank
  <2>13. Renders(Sections(s), InkOf(Sections(s), 1, Len(Sections(s))))
    BY <2>7, PartedRenders
  <2>14. /\ InOne(MergeSplits(Sections(s), "para", 0), {i, j})
         /\ MergeSplits(Sections(s), "para", 0) \in Seq(Texts)
    BY <2>11, <2>12, <2>13, MergeJoins, MergeRenders DEF Renders
  <2>15. InOne(chunks, {i, j})
    BY <2>1, <2>4, <2>14, StripJoins
  <2>16. PICK k \in 1 .. Len(chunks) : {i, j} \subseteq Ink(chunks[k])
    BY <2>15 DEF InOne
  <2>17. chunks \in Seq(Texts)
    BY <2>1, <2>4, <2>14, StrippedKept DEF Kept
  <2>18. k \in DOMAIN chunks
    BY <2>17
  <2>19. {i, j} \subseteq Places(chunks[k])
    <3>1. i # 0 /\ j # 0
      BY <2>8
    <3> QED
      BY <2>16, <3>1 DEF Places, Ink, Inky
  <2> QED
    BY <2>18, <2>19
<1>2. ChunkInv => CodeBlocksWhole
  BY <1>1
<1> QED
  BY <1>2, ChunksOfDocument, PTL

(***************************************************************************)
(* How much of a text has some places.                                     *)
(***************************************************************************)
WithinRun(f, c, places) ==
  /\ f[0] = 0
  /\ \A k \in 1 .. Len(c) : f[k] = f[k - 1] + Portion(c[k], places)
  /\ Within(c, places) = f[Len(c)]

\* Within is the sum that its loop makes.
LEMMA WithinLoop ==
  ASSUME NEW c, Len(c) \in Nat, NEW places
  PROVE  \E f : WithinRun(f, c, places)
<1> DEFINE n == Len(c)
           base == 0
           Turn(k, v) == v + Portion(c[k], places)
           Def(g, m) == [k \in 0 .. m |-> IF k = 0 THEN base ELSE Turn(k, g[k - 1])]
           h == CHOOSE g : g = Def(g, n)
           S == {m \in 0 .. n : \E g : g = Def(g, m)}
<1>1. Within(c, places) = h[n]
  BY DEF Within
<1>n. n \in Nat
  OBVIOUS
<1> HIDE DEF n, base, Turn
<1>2. 0 \in S
  <2>1. [k \in 0 .. 0 |-> base] = Def([k \in 0 .. 0 |-> base], 0)
    OBVIOUS
  <2> HIDE DEF Def
  <2> QED
    BY <1>n, <2>1
<1>3. ASSUME NEW m \in 1 .. n, m - 1 \in S PROVE m \in S
  <2>1. PICK f : f = Def(f, m - 1)
    BY <1>3
  <2> DEFINE g == [k \in 0 .. m |-> IF k = m THEN Turn(m, f[m - 1]) ELSE f[k]]
  <2>2. \A k \in 0 .. m - 1 : k # m /\ k \in 0 .. m
    BY <1>n
  <2>3. \A k \in 1 .. m : k - 1 \in 0 .. m - 1 /\ k # 0 /\ (k = m \/ k \in 0 .. m - 1)
    BY <1>n
  <2>4. m # 0 /\ m \in 0 .. m /\ 0 \in 0 .. m - 1 /\ m \in 0 .. n
    BY <1>n
  <2>5. \A k \in 0 .. m - 1 : g[k] = f[k]
    BY <2>2
  <2>6. g[m] = Turn(m, g[m - 1])
    BY <2>3, <2>4, <2>5
  <2>7. \A k \in 0 .. m - 1 : f[k] = IF k = 0 THEN base ELSE Turn(k, f[k - 1])
    BY <2>1
  <2>8. ASSUME NEW k \in 0 .. m PROVE g[k] = IF k = 0 THEN base ELSE Turn(k, g[k - 1])
    <3>1. k \in 0 .. m - 1 => g[k - 1] = f[k - 1] \/ k = 0
      BY <1>n, <2>3, <2>5
    <3>2. k = m \/ k \in 0 .. m - 1
      BY <1>n
    <3> HIDE DEF g
    <3> QED
      BY <2>4, <2>5, <2>6, <2>7, <3>1, <3>2
  <2>9. g = Def(g, m)
    BY <2>8
  <2> HIDE DEF g, Def
  <2> QED
    BY <2>4, <2>9
<1>4. n \in S
  <2> HIDE DEF S
  <2>1. \A k \in 1 .. n : k - 1 \in S => k \in S
    BY <1>3
  <2>2. \A k \in 0 .. n : k \in S
    BY <1>n, <1>2, <2>1, InductTo
  <2> QED
    BY <1>n, <2>2
<1>5. h = Def(h, n)
  BY <1>4
<1> HIDE DEF h
<1>6. \A k \in 0 .. n : h[k] = IF k = 0 THEN base ELSE Turn(k, h[k - 1])
  BY <1>5
<1>7. h[0] = base /\ \A k \in 1 .. n : h[k] = Turn(k, h[k - 1])
  BY <1>n, <1>6
<1> QED
  BY <1>1, <1>7 DEF n, base, Turn, WithinRun

\* Two texts, one behind the other, have what both have.
LEMMA WithinSum ==
  ASSUME NEW s \in Texts, NEW t \in Texts, NEW Q
  PROVE  /\ s \o t \in Texts /\ Within(s, Q) \in Nat /\ Within(t, Q) \in Nat
         /\ Within(s \o t, Q) = Within(s, Q) + Within(t, Q)
<1> DEFINE n == Len(s)
           m == Len(t)
<1>1. /\ s \in Seq(Tokens) /\ t \in Seq(Tokens) /\ n \in Nat /\ m \in Nat
      /\ Len(s \o t) = n + m /\ s \o t \in Seq(Tokens)
      /\ \A k \in 1 .. n : (s \o t)[k] = s[k]
      /\ \A k \in 1 .. m : (s \o t)[n + k] = t[k]
  BY DEF Texts
<1>2. PICK f : WithinRun(f, s, Q)
  BY <1>1, WithinLoop
<1>3. PICK g : WithinRun(g, t, Q)
  BY <1>1, WithinLoop
<1>a. Len(s \o t) \in Nat
  BY <1>1
<1>4. PICK h : WithinRun(h, s \o t, Q)
  BY <1>a, WithinLoop
<1>5. /\ f[0] = 0 /\ \A k \in 1 .. n : f[k] = f[k - 1] + Portion(s[k], Q)
      /\ Within(s, Q) = f[n]
  BY <1>2 DEF WithinRun
<1>6. /\ g[0] = 0 /\ \A k \in 1 .. m : g[k] = g[k - 1] + Portion(t[k], Q)
      /\ Within(t, Q) = g[m]
  BY <1>3 DEF WithinRun
<1>7. /\ h[0] = 0 /\ \A k \in 1 .. n + m : h[k] = h[k - 1] + Portion((s \o t)[k], Q)
      /\ Within(s \o t, Q) = h[n + m]
  BY <1>1, <1>4 DEF WithinRun
<1>8. \A x : Portion(x, Q) \in Nat
  BY DEF Portion, Width
<1> HIDE DEF n, m
<1>9. \A k \in 0 .. n : f[k] \in Nat /\ h[k] = f[k]
  <2> DEFINE S == {k \in 0 .. n : f[k] \in Nat /\ h[k] = f[k]}
  <2>1. 0 \in S
    BY <1>1, <1>5, <1>7
  <2>2. ASSUME NEW k \in 1 .. n, k - 1 \in S PROVE k \in S
    <3>1. k \in 1 .. n + m /\ k \in 0 .. n
      BY <1>1
    <3>2. f[k] = f[k - 1] + Portion(s[k], Q) /\ h[k] = h[k - 1] + Portion(s[k], Q)
      BY <1>1, <1>5, <1>7, <3>1
    <3> QED
      BY <1>8, <2>2, <3>1, <3>2
  <2>3. \A k \in 1 .. n : k - 1 \in S => k \in S
    BY <2>2
  <2> HIDE DEF S
  <2>4. \A k \in 0 .. n : k \in S
    BY <1>1, <2>1, <2>3, InductTo
  <2> QED
    BY <2>4 DEF S
<1>10. \A k \in 0 .. m : g[k] \in Nat /\ h[n + k] = f[n] + g[k]
  <2> DEFINE S == {k \in 0 .. m : g[k] \in Nat /\ h[n + k] = f[n] + g[k]}
  <2>1. 0 \in S
    <3>1. n + 0 = n /\ n \in 0 .. n
      BY <1>1
    <3>2. h[n + 0] = f[n] + g[0] /\ g[0] \in Nat
      BY <1>6, <1>9, <3>1
    <3> QED
      BY <1>1, <3>2
  <2>2. ASSUME NEW k \in 1 .. m, k - 1 \in S PROVE k \in S
    <3>1. n + k \in 1 .. n + m /\ k \in 0 .. m /\ (n + k) - 1 = n + (k - 1) /\ n \in 0 .. n
      BY <1>1
    <3>2. h[n + k] = h[n + (k - 1)] + Portion(t[k], Q)
      BY <1>1, <1>7, <3>1
    <3>3. g[k] = g[k - 1] + Portion(t[k], Q)
      BY <1>6
    <3>4. g[k - 1] \in Nat /\ h[n + (k - 1)] = f[n] + g[k - 1]
      BY <2>2
    <3>5. f[n] \in Nat
      BY <1>9, <3>1
    <3> QED
      BY <1>8, <3>1, <3>2, <3>3, <3>4, <3>5
  <2>3. \A k \in 1 .. m : k - 1 \in S => k \in S
    BY <2>2
  <2> HIDE DEF S
  <2>4. \A k \in 0 .. m : k \in S
    BY <1>1, <2>1, <2>3, InductTo
  <2> QED
    BY <2>4 DEF S
<1>11. n \in 0 .. n /\ m \in 0 .. m
  BY <1>1
<1> QED
  BY <1>1, <1>5, <1>6, <1>7, <1>9, <1>10, <1>11 DEF Texts

\* It has no more of Q than it has in all, and than it has of what contains these places.
LEMMA WithinBounds ==
  ASSUME NEW s \in Texts, NEW Q, NEW R, 0 \notin Q, Places(s) \cap Q \subseteq R
  PROVE  /\ Within(s, Q) \in Nat /\ Within(s, R) \in Nat /\ Length(s) \in Nat
         /\ Within(s, Q) <= Length(s) /\ Within(s, Q) <= Within(s, R)
<1> DEFINE n == Len(s)
<1>1. n \in Nat /\ DOMAIN s = 1 .. n
  BY DEF Texts
<1>f. PICK f : WithinRun(f, s, Q)
  BY <1>1, WithinLoop
<1>g. PICK g : WithinRun(g, s, R)
  BY <1>1, WithinLoop
<1>h. PICK h : LengthRun(h, s)
  BY <1>1, LengthLoop
<1>2. f[0] = 0 /\ Within(s, Q) = f[n] /\ \A k \in 1 .. n : f[k] = f[k - 1] + Portion(s[k], Q)
  BY <1>f DEF WithinRun
<1>3. g[0] = 0 /\ Within(s, R) = g[n] /\ \A k \in 1 .. n : g[k] = g[k - 1] + Portion(s[k], R)
  BY <1>g DEF WithinRun
<1>4. h[0] = 0 /\ Length(s) = h[n] /\ \A k \in 1 .. n : h[k] = h[k - 1] + Width(s[k].kind)
  BY <1>h DEF LengthRun
<1>5. \A k \in 1 .. n : /\ Portion(s[k], Q) \in Nat /\ Portion(s[k], R) \in Nat /\ Width(s[k].kind) \in Nat
                        /\ Portion(s[k], Q) <= Portion(s[k], R) /\ Portion(s[k], Q) <= Width(s[k].kind)
  <2> TAKE k \in 1 .. n
  <2>1. s[k].at \in Q => s[k].at \in R
    BY <1>1 DEF Places
  <2>2. Width(s[k].kind) \in Nat
    BY DEF Width
  <2> QED
    BY <2>1, <2>2 DEF Portion
<1> HIDE DEF n
<1> DEFINE Good3(k) == /\ f[k] \in Nat /\ g[k] \in Nat /\ h[k] \in Nat
                       /\ f[k] <= g[k] /\ f[k] <= h[k]
           S == {k \in 0 .. n : Good3(k)}
<1>6. 0 \in S
  BY <1>1, <1>2, <1>3, <1>4
<1>7. ASSUME NEW k \in 1 .. n, k - 1 \in S PROVE k \in S
  <2>1. Good3(k - 1) /\ k \in 0 .. n
    BY <1>1, <1>7
  <2>2. f[k] = f[k - 1] + Portion(s[k], Q) /\ g[k] = g[k - 1] + Portion(s[k], R)
        /\ h[k] = h[k - 1] + Width(s[k].kind)
    BY <1>2, <1>3, <1>4
  <2>3. Good3(k)
    BY <1>5, <2>1, <2>2
  <2> QED
    BY <2>1, <2>3
<1>8. \A k \in 1 .. n : k - 1 \in S => k \in S
  BY <1>7
<1>9. n \in S
  <2> HIDE DEF S
  <2>1. \A k \in 0 .. n : k \in S
    BY <1>1, <1>6, <1>8, InductTo
  <2> QED
    BY <1>1, <2>1
<1> QED
  BY <1>2, <1>3, <1>4, <1>9

\* It has nothing of places it does not have.
LEMMA WithinNone ==
  ASSUME NEW s \in Texts, NEW Q, 0 \notin Q, Places(s) \cap Q = {}
  PROVE  Within(s, Q) = 0
<1> DEFINE n == Len(s)
<1>1. n \in Nat /\ DOMAIN s = 1 .. n
  BY DEF Texts
<1>f. PICK f : WithinRun(f, s, Q)
  BY <1>1, WithinLoop
<1>2. f[0] = 0 /\ Within(s, Q) = f[n] /\ \A k \in 1 .. n : f[k] = f[k - 1] + Portion(s[k], Q)
  BY <1>f DEF WithinRun
<1>3. \A k \in 1 .. n : Portion(s[k], Q) = 0
  BY <1>1 DEF Portion, Places
<1> HIDE DEF n
<1> DEFINE S == {k \in 0 .. n : f[k] = 0}
<1>4. 0 \in S
  BY <1>1, <1>2
<1>5. \A k \in 1 .. n : k - 1 \in S => k \in S
  BY <1>1, <1>2, <1>3
<1>6. n \in S
  <2> HIDE DEF S
  <2>1. \A k \in 0 .. n : k \in S
    BY <1>1, <1>4, <1>5, InductTo
  <2> QED
    BY <1>1, <2>1
<1> QED
  BY <1>2, <1>6

(***************************************************************************)
(* The places of texts, blanks included.                                   *)
(***************************************************************************)
PlacesOf(ts, a, b) == UNION {Places(ts[k]) : k \in a .. b}

\* Two texts, one behind the other, have the places of both.
LEMMA PlacesCat ==
  ASSUME NEW s \in Texts, NEW t \in Texts
  PROVE  Places(s \o t) = Places(s) \cup Places(t)
<1> DEFINE n == Len(s)
           m == Len(t)
           v == s \o t
<1>1. n \in Nat /\ m \in Nat /\ DOMAIN s = 1 .. n /\ DOMAIN t = 1 .. m /\ DOMAIN v = 1 .. n + m
  BY DEF Texts
<1>2. (\A i \in 1 .. n : v[i] = s[i]) /\ \A i \in 1 .. m : v[n + i] = t[i]
  BY DEF Texts
<1> HIDE DEF n, m, v
<1>3. \A i \in 1 .. n + m : i \in 1 .. n \/ \E j \in 1 .. m : i = n + j
  <2> TAKE i \in 1 .. n + m
  <2>1. i > n => i - n \in 1 .. m /\ i = n + (i - n)
    BY <1>1
  <2> QED
    BY <1>1, <2>1
<1>4. (\A i \in 1 .. n : i \in 1 .. n + m) /\ \A i \in 1 .. m : n + i \in 1 .. n + m
  BY <1>1
<1>5. \A i \in 1 .. n + m : (\E j \in 1 .. n : v[i].at = s[j].at) \/ \E j \in 1 .. m : v[i].at = t[j].at
  BY <1>2, <1>3
<1>6. /\ \A j \in 1 .. n : \E i \in 1 .. n + m : v[i].at = s[j].at
      /\ \A j \in 1 .. m : \E i \in 1 .. n + m : v[i].at = t[j].at
  BY <1>2, <1>4
<1> DEFINE A == {v[i].at : i \in 1 .. n + m}
           B == {s[i].at : i \in 1 .. n}
           C == {t[i].at : i \in 1 .. m}
<1>7. A = B \cup C
  BY <1>5, <1>6
<1>8. Places(v) = A \ {0} /\ Places(s) = B \ {0} /\ Places(t) = C \ {0}
  BY <1>1 DEF Places
<1> HIDE DEF A, B, C
<1> QED
  BY <1>7, <1>8 DEF v

\* A separator has no place.
LEMMA PlacesGlue ==
  ASSUME NEW kind \in Separators
  PROVE  Glue(kind) \in Texts /\ Places(Glue(kind)) = {} /\ Places(<<>>) = {}
<1>1. Glue(kind) \in Texts
  BY GlueInk DEF Separators
<1>2. \A i \in DOMAIN Glue(kind) : Glue(kind)[i].at = 0
  BY DEF Glue
<1> QED
  BY <1>1, <1>2 DEF Places

\* The places of a part are those between its ends.
LEMMA PlacesSub ==
  ASSUME NEW s \in Texts, NEW a \in Nat, NEW b \in Nat, 1 <= a, b <= Len(s)
  PROVE  /\ SubSeq(s, a, b) \in Texts
         /\ Places(SubSeq(s, a, b)) = {s[i].at : i \in a .. b} \ {0}
         /\ Places(SubSeq(s, a, b)) \subseteq Places(s)
<1> DEFINE t == SubSeq(s, a, b)
<1>1. /\ t \in Texts
      /\ \A i \in 1 .. Len(t) : a + i - 1 \in a .. b /\ a + i - 1 \in 1 .. Len(s) /\ t[i] = s[a + i - 1]
      /\ \A i \in a .. b : i - a + 1 \in 1 .. Len(t) /\ i = a + (i - a + 1) - 1
  BY SubInky
<1>2. DOMAIN t = 1 .. Len(t) /\ DOMAIN s = 1 .. Len(s)
  BY <1>1 DEF Texts
<1> HIDE DEF t
<1>3. \A i \in 1 .. Len(t) : \E j \in a .. b : t[i].at = s[j].at
  BY <1>1
<1>4. \A j \in a .. b : \E i \in 1 .. Len(t) : t[i].at = s[j].at
  BY <1>1
<1>5. Places(t) = {s[i].at : i \in a .. b} \ {0}
  BY <1>2, <1>3, <1>4 DEF Places
<1>6. \A i \in 1 .. Len(t) : \E j \in 1 .. Len(s) : t[i].at = s[j].at
  BY <1>1
<1>7. Places(t) \subseteq Places(s)
  BY <1>2, <1>6 DEF Places
<1> QED
  BY <1>1, <1>5, <1>7 DEF t

\* A part has no more of some places than the text.
LEMMA WithinSub ==
  ASSUME NEW s \in Texts, NEW a \in Nat, NEW b \in Nat, 1 <= a, b <= Len(s), NEW Q, 0 \notin Q
  PROVE  Within(SubSeq(s, a, b), Q) <= Within(s, Q)
<1> DEFINE p == SubSeq(s, a, b)
<1>1. s \in Seq(Tokens) /\ Len(s) \in Nat
  BY DEF Texts
<1>2. <<>> \in Texts
  BY DEF Texts
<1>3. CASE a > b
  <2>1. p = <<>>
    BY <1>1, <1>3
  <2>2. Places(<<>>) = {}
    BY DEF Places
  <2>3. Within(<<>>, Q) = 0 /\ Within(s, Q) \in Nat
    BY <1>2, <2>2, WithinNone, WithinSum
  <2> QED
    BY <2>1, <2>3
<1>4. CASE a <= b
  <2> DEFINE q == SubSeq(s, 1, a - 1)
             r == SubSeq(s, b + 1, Len(s))
             l == SubSeq(s, 1, b)
  <2>1. /\ 1 \in Nat /\ a - 1 \in Nat /\ b + 1 \in Nat /\ (a - 1) + 1 = a /\ 1 <= 1
        /\ 1 <= (a - 1) + 1 /\ a - 1 <= b /\ 1 <= b + 1 /\ b <= Len(s) /\ Len(s) <= Len(s)
        /\ a - 1 <= Len(s)
    BY <1>1, <1>4
  <2>2. q \in Texts
    BY <2>1, SubInky
  <2>3. p \in Texts
    BY SubInky
  <2>4. r \in Texts
    BY <1>1, <2>1, SubInky
  <2>5. l = q \o p
    <3>1. 1 \in 1 .. Len(s) + 1 /\ a - 1 \in 1 - 1 .. Len(s) /\ b \in a - 1 .. Len(s)
      BY <1>1, <2>1
    <3>2. SubSeq(s, 1, a - 1) \o SubSeq(s, (a - 1) + 1, b) = SubSeq(s, 1, b)
      BY <1>1, <3>1, ConcatAdjacentSubSeq
    <3> QED
      BY <2>1, <3>2
  <2>6. SubSeq(s, 1, Len(s)) = l \o r
    <3>1. 1 \in 1 .. Len(s) + 1 /\ b \in 1 - 1 .. Len(s) /\ Len(s) \in b .. Len(s)
      BY <1>1, <2>1
    <3> QED
      BY <1>1, <3>1, ConcatAdjacentSubSeq
  <2>7. SubSeq(s, 1, Len(s)) = s
    BY <1>1, SubSeqFull
  <2> HIDE DEF p, q, r, l
  <2>8. /\ l \in Texts /\ Within(q, Q) \in Nat /\ Within(p, Q) \in Nat
        /\ Within(l, Q) = Within(q, Q) + Within(p, Q)
    BY <2>2, <2>3, <2>5, WithinSum
  <2>9. Within(l \o r, Q) = Within(l, Q) + Within(r, Q) /\ Within(r, Q) \in Nat
    BY <2>4, <2>8, WithinSum
  <2>10. s = l \o r
    BY <2>6, <2>7
  <2> QED
    BY <2>8, <2>9, <2>10 DEF p
<1> QED
  BY <1>1, <1>3, <1>4

\* Nor has the stripped text.
LEMMA WithinStrip ==
  ASSUME NEW s \in Texts
  PROVE  /\ Strip(s) \in Texts /\ Places(Strip(s)) \subseteq Places(s)
         /\ \A Q : 0 \notin Q => Within(Strip(s), Q) <= Within(s, Q)
<1>1. Strip(s) \in Texts
  BY StripKeeps
<1>2. CASE Strip(s) = <<>>
  <2>1. Places(<<>>) = {}
    BY DEF Places
  <2>2. ASSUME NEW Q, 0 \notin Q PROVE Within(Strip(s), Q) <= Within(s, Q)
    <3>1. Within(<<>>, Q) = 0 /\ Within(s, Q) \in Nat
      BY <1>1, <1>2, <2>1, <2>2, WithinNone, WithinSum
    <3> QED
      BY <1>2, <3>1
  <2> QED
    BY <1>1, <1>2, <2>1, <2>2
<1>3. CASE Strip(s) # <<>>
  <2>1. PICK x \in Inky(s), y \in Inky(s) : Strip(s) = SubSeq(s, x, y)
    BY <1>3, StripIs
  <2>2. x \in Nat /\ y \in Nat /\ 1 <= x /\ y <= Len(s)
    BY InkyOf
  <2> QED
    BY <1>1, <2>1, <2>2, PlacesSub, WithinSub
<1> QED
  BY <1>2, <1>3

\* What holds of one member and goes from each to the next holds up to b.
LEMMA InductFrom ==
  ASSUME NEW a \in Nat, NEW b \in Int, a <= b, NEW S, a \in S,
         \A k \in a + 1 .. b : k - 1 \in S => k \in S
  PROVE  b \in S
<1> DEFINE n == b - a
           T == {k \in 0 .. n : a + k \in S}
<1>1. n \in Nat
  OBVIOUS
<1>2. 0 \in T
  <2>1. a + 0 = a /\ 0 \in 0 .. n
    OBVIOUS
  <2> QED
    BY <2>1
<1>3. ASSUME NEW k \in 1 .. n, k - 1 \in T PROVE k \in T
  <2>1. k \in 0 .. n /\ a + k \in a + 1 .. b /\ (a + k) - 1 = a + (k - 1)
    BY <1>1
  <2>2. a + (k - 1) \in S
    BY <1>3
  <2> QED
    BY <2>1, <2>2
<1>4. \A k \in 1 .. n : k - 1 \in T => k \in T
  BY <1>3
<1>5. n \in T
  <2> HIDE DEF T, n
  <2>1. \A k \in 0 .. n : k \in T
    BY <1>1, <1>2, <1>4, InductTo
  <2> QED
    BY <1>1, <2>1
<1>6. a + n = b
  OBVIOUS
<1> QED
  BY <1>5, <1>6

\* z is x and y with a separator between them, which adds nothing but its length.
Seamed(x, kind, y, z) == z = x \o Glue(kind) \o y

\* Two texts with a separator between them have the places of both.
LEMMA Seam ==
  ASSUME NEW x \in Texts, NEW y \in Texts, NEW kind \in Separators,
         NEW z, Seamed(x, kind, y, z)
  PROVE  /\ z \in Texts /\ Places(z) = Places(x) \cup Places(y)
         /\ Length(z) = Length(x) + Length(Glue(kind)) + Length(y)
<1> DEFINE g == Glue(kind)
           xg == x \o g
<1>0. z = xg \o y
  BY DEF Seamed
<1>1. g \in Texts /\ Places(g) = {}
  BY PlacesGlue
<1> HIDE DEF g
<1>2. xg \in Texts /\ Length(xg) = Length(x) + Length(g)
  BY <1>1, LengthSum
<1>3. Places(xg) = Places(x)
  <2>1. Places(xg) = Places(x) \cup Places(g)
    BY <1>1, PlacesCat
  <2> HIDE DEF xg
  <2> QED
    BY <1>1, <2>1
<1> HIDE DEF xg
<1>4. z \in Texts /\ Length(z) = Length(xg) + Length(y)
  BY <1>0, <1>2, LengthSum
<1>5. Places(z) = Places(xg) \cup Places(y)
  BY <1>0, <1>2, PlacesCat
<1>6. /\ z \in Texts /\ Places(z) = Places(x) \cup Places(y)
      /\ Length(z) = Length(x) + Length(g) + Length(y)
  BY <1>2, <1>3, <1>4, <1>5
<1> QED
  BY <1>6 DEF g

\* And of any places as much as both have.
LEMMA SeamWithin ==
  ASSUME NEW x \in Texts, NEW y \in Texts, NEW kind \in Separators,
         NEW z, Seamed(x, kind, y, z), NEW Q, 0 \notin Q
  PROVE  Within(z, Q) = Within(x, Q) + Within(y, Q)
<1> DEFINE g == Glue(kind)
           xg == x \o g
<1>0. z = xg \o y
  BY DEF Seamed
<1>1. g \in Texts /\ Places(g) = {}
  BY PlacesGlue
<1> HIDE DEF g
<1>2. xg \in Texts /\ Within(x, Q) \in Nat /\ Within(xg, Q) = Within(x, Q) + Within(g, Q)
  BY <1>1, WithinSum
<1> HIDE DEF xg
<1>3. Within(z, Q) = Within(xg, Q) + Within(y, Q)
  BY <1>0, <1>2, WithinSum
<1>4. Within(g, Q) = 0
  BY <1>1, WithinNone
<1> QED
  BY <1>2, <1>3, <1>4

\* A joined text has the places of its parts.
LEMMA PlacesJoin ==
  ASSUME NEW ts \in Seq(Texts), NEW kind \in Separators, NEW a \in Nat, NEW b \in Int,
         1 <= a, a <= b + 1, b <= Len(ts)
  PROVE  Places(Join(SubSeq(ts, a, b), kind)) = PlacesOf(ts, a, b)
<1> DEFINE J(k) == Join(SubSeq(ts, a, k), kind)
           S == {k \in a .. b : Places(J(k)) = PlacesOf(ts, a, k)}
<1>1. CASE b = a - 1
  <2>1. SubSeq(ts, a, b) = <<>>
    BY <1>1
  <2>2. a .. b = {}
    BY <1>1
  <2>3. Join(<<>>, kind) = <<>>
    BY JoinEmpty
  <2> QED
    BY <2>1, <2>2, <2>3 DEF Places, PlacesOf
<1>2. CASE a <= b
  <2>1. a \in S
    <3>1. J(a) = ts[a]
      BY <1>2, JoinOne
    <3>2. a .. a = {a} /\ a \in a .. b
      BY <1>2
    <3> QED
      BY <3>1, <3>2 DEF PlacesOf
  <2>2. ASSUME NEW k \in a + 1 .. b, k - 1 \in S PROVE k \in S
    <3>1. k \in Nat /\ a < k /\ k <= Len(ts) /\ k - 1 \in Int /\ k - 1 <= Len(ts) /\ k \in a .. b
          /\ k \in 1 .. Len(ts)
      OBVIOUS
    <3>2. J(k) = J(k - 1) \o Glue(kind) \o ts[k]
      BY <3>1, JoinNext
    <3>3. J(k - 1) \in Texts /\ ts[k] \in Texts
      <4>1. ts[k] \in Texts
        BY <3>1
      <4>2. J(k - 1) \in Texts
        BY <3>1, WindowIsText
      <4> QED
        BY <4>1, <4>2
    <3>4. Places(J(k - 1)) = PlacesOf(ts, a, k - 1)
      BY <2>2
    <3>5. PlacesOf(ts, a, k) = PlacesOf(ts, a, k - 1) \cup Places(ts[k])
      <4>1. a .. k = (a .. k - 1) \cup {k}
        BY <3>1
      <4> QED
        BY <4>1 DEF PlacesOf
    <3> HIDE DEF J
    <3>8. Places(J(k)) = Places(J(k - 1)) \cup Places(ts[k])
      <4> DEFINE x == J(k - 1)
                 y == ts[k]
                 z == J(k)
      <4>1. x \in Texts /\ y \in Texts /\ Seamed(x, kind, y, z)
        BY <3>2, <3>3 DEF Seamed
      <4> HIDE DEF x, y, z
      <4>2. Places(z) = Places(x) \cup Places(y)
        BY <4>1, Seam
      <4> QED
        BY <4>2 DEF x, y, z
    <3> QED
      BY <3>1, <3>4, <3>5, <3>8
  <2>3. b \in S
    <3> HIDE DEF S
    <3>1. \A k \in a + 1 .. b : k - 1 \in S => k \in S
      BY <2>2
    <3> QED
      BY <1>2, <2>1, <3>1, InductFrom
  <2> QED
    BY <2>3
<1> QED
  BY <1>1, <1>2

(***************************************************************************)
(* What joined texts have of some places.                                  *)
(***************************************************************************)
\* What the last of the joined texts adds.
LEMMA JoinLonger ==
  ASSUME NEW ts \in Seq(Texts), NEW kind \in Separators, NEW a \in Nat, NEW b \in Nat,
         1 <= a, a < b, b <= Len(ts)
  PROVE  /\ JoinSize(ts, kind, a, b) = JoinSize(ts, kind, a, b - 1) + Length(Glue(kind)) + Length(ts[b])
         /\ JoinSize(ts, kind, a, b - 1) \in Nat /\ JoinSize(ts, kind, a, b) \in Nat
         /\ Length(Glue(kind)) \in Nat /\ Length(ts[b]) \in Nat
<1> DEFINE x == Join(SubSeq(ts, a, b - 1), kind)
           y == ts[b]
           z == Join(SubSeq(ts, a, b), kind)
<1>1. b - 1 \in Int /\ b - 1 <= Len(ts) /\ b \in Int /\ b \in 1 .. Len(ts)
  OBVIOUS
<1>2. x \in Texts /\ JoinSize(ts, kind, a, b - 1) \in Nat
  BY <1>1, WindowIsText
<1>3. y \in Texts
  BY <1>1
<1>4. Seamed(x, kind, y, z)
  BY JoinNext DEF Seamed
<1>5. JoinSize(ts, kind, a, b - 1) = Length(x) /\ JoinSize(ts, kind, a, b) = Length(z)
  BY DEF JoinSize
<1>6. JoinSize(ts, kind, a, b) \in Nat
  BY <1>1, WindowIsText
<1>7. Length(Glue(kind)) \in Nat
  BY GlueLength
<1> HIDE DEF x, y, z
<1>8. Length(z) = Length(x) + Length(Glue(kind)) + Length(y)
  BY <1>2, <1>3, <1>4, Seam
<1>9. Length(y) \in Nat
  BY <1>3, LengthSum
<1> QED
  BY <1>2, <1>5, <1>6, <1>7, <1>8, <1>9 DEF x, y, z

\* What the last of the joined texts has of some places is added.
LEMMA JoinGrows ==
  ASSUME NEW ts \in Seq(Texts), NEW kind \in Separators, NEW a \in Nat, NEW b \in Nat,
         1 <= a, a < b, b <= Len(ts), NEW Q, 0 \notin Q
  PROVE  Within(Join(SubSeq(ts, a, b), kind), Q) =
           Within(Join(SubSeq(ts, a, b - 1), kind), Q) + Within(ts[b], Q)
<1> DEFINE x == Join(SubSeq(ts, a, b - 1), kind)
           y == ts[b]
           z == Join(SubSeq(ts, a, b), kind)
<1>1. b - 1 \in Int /\ b - 1 <= Len(ts) /\ b \in 1 .. Len(ts)
  OBVIOUS
<1>2. x \in Texts
  BY <1>1, WindowIsText
<1>3. y \in Texts
  BY <1>1
<1>4. Seamed(x, kind, y, z)
  BY JoinNext DEF Seamed
<1> HIDE DEF x, y, z
<1>5. Within(z, Q) = Within(x, Q) + Within(y, Q)
  BY <1>2, <1>3, <1>4, SeamWithin
<1> QED
  BY <1>5 DEF x, y, z

\* One text is as long as when it is joined.
LEMMA JoinSizeOne ==
  ASSUME NEW ts \in Seq(Texts), NEW kind, NEW b \in 1 .. Len(ts)
  PROVE  JoinSize(ts, kind, b, b) = Length(ts[b]) /\ Length(ts[b]) \in Nat /\ ts[b] \in Texts
<1>1. ts[b] \in Texts
  OBVIOUS
<1>2. Join(SubSeq(ts, b, b), kind) = ts[b]
  BY JoinOne
<1>3. Length(ts[b]) \in Nat
  BY <1>1, LengthSum
<1> QED
  BY <1>1, <1>2, <1>3 DEF JoinSize

\* Fewer texts are not longer.
LEMMA JoinSizeSub ==
  ASSUME NEW ts \in Seq(Texts), NEW kind \in Separators, NEW a \in Nat, NEW b \in Nat,
         NEW c \in Nat, NEW d \in Nat, 1 <= a, a <= c, c <= d, d <= b, b <= Len(ts)
  PROVE  JoinSize(ts, kind, c, d) <= JoinSize(ts, kind, a, b)
<1> DEFINE J(i, j) == JoinSize(ts, kind, i, j)
<1>0. Len(ts) \in Nat
  OBVIOUS
<1>1. \A i, j \in 1 .. Len(ts) : J(i, j) \in Nat
  BY WindowIsText
<1>2. \A i, j \in 1 .. Len(ts) : i < j => J(i, j) >= J(i, j - 1) + Length(ts[j]) /\ Length(ts[j]) \in Nat
  <2> TAKE i, j \in 1 .. Len(ts)
  <2> HAVE i < j
  <2>1. i \in Nat /\ j \in Nat /\ 1 <= i /\ j <= Len(ts)
    OBVIOUS
  <2>2. /\ J(i, j) = J(i, j - 1) + Length(Glue(kind)) + Length(ts[j])
        /\ J(i, j - 1) \in Nat /\ Length(Glue(kind)) \in Nat /\ Length(ts[j]) \in Nat
    BY <2>1, JoinLonger
  <2> HIDE DEF J
  <2> QED
    BY <2>2
<1>3. \A i \in 1 .. Len(ts) : J(i, i) = Length(ts[i]) /\ Length(ts[i]) \in Nat
  BY JoinSizeOne
<1> HIDE DEF J
<1>4. \A i, j \in 1 .. Len(ts) : i < j => J(i, j) = J(i, j) /\ J(i, j) >= J(i, j - 1) /\ J(i, j - 1) \in Nat
  <2> TAKE i, j \in 1 .. Len(ts)
  <2> HAVE i < j
  <2>1. j - 1 \in 1 .. Len(ts)
    OBVIOUS
  <2> QED
    BY <1>1, <1>2, <2>1
<1>5. J(c, d) <= J(a, d)
  <2> DEFINE S == {k \in c .. d : J(c, k) <= J(a, k)}
  <2>1. c \in S
    <3>1. c \in c .. d /\ c \in 1 .. Len(ts) /\ a \in 1 .. Len(ts)
      OBVIOUS
    <3>2. CASE a = c
      BY <1>1, <3>1, <3>2
    <3>3. CASE a < c
      <4>1. c - 1 \in 1 .. Len(ts)
        BY <3>3
      <4>2. J(a, c) >= J(a, c - 1) + Length(ts[c]) /\ Length(ts[c]) \in Nat
        BY <1>2, <3>1, <3>3
      <4>3. J(a, c - 1) \in Nat /\ J(a, c) \in Nat
        BY <1>1, <3>1, <4>1
      <4>4. J(c, c) = Length(ts[c])
        BY <1>3, <3>1
      <4>5. J(c, c) <= J(a, c)
        BY <4>2, <4>3, <4>4
      <4> QED
        BY <3>1, <4>5
    <3> QED
      BY <3>2, <3>3
  <2>2. ASSUME NEW k \in c + 1 .. d, k - 1 \in S PROVE k \in S
    <3>1. k \in c .. d /\ k - 1 \in 1 .. Len(ts) /\ k \in Nat /\ 1 <= a /\ 1 <= c /\ a < k /\ c < k /\ k <= Len(ts)
      OBVIOUS
    <3>2. /\ J(a, k) = J(a, k - 1) + Length(Glue(kind)) + Length(ts[k])
          /\ J(a, k - 1) \in Nat /\ Length(Glue(kind)) \in Nat /\ Length(ts[k]) \in Nat
      BY <3>1, JoinLonger DEF J
    <3>3. J(c, k) = J(c, k - 1) + Length(Glue(kind)) + Length(ts[k]) /\ J(c, k - 1) \in Nat
      BY <3>1, JoinLonger DEF J
    <3>4. J(c, k - 1) <= J(a, k - 1)
      BY <2>2
    <3>5. J(c, k) <= J(a, k)
      BY <3>2, <3>3, <3>4
    <3> QED
      BY <3>1, <3>5
  <2> HIDE DEF S
  <2>3. \A k \in c + 1 .. d : k - 1 \in S => k \in S
    BY <2>2
  <2>4. d \in S
    BY <2>1, <2>3, InductFrom
  <2> QED
    BY <2>4 DEF S
<1>6. J(a, d) <= J(a, b)
  <2> DEFINE S == {k \in d .. b : J(a, d) <= J(a, k)}
  <2>1. d \in S
    BY <1>1
  <2>2. ASSUME NEW k \in d + 1 .. b, k - 1 \in S PROVE k \in S
    <3>1. k \in d .. b /\ k \in 1 .. Len(ts) /\ a \in 1 .. Len(ts) /\ a < k /\ d \in 1 .. Len(ts)
      OBVIOUS
    <3>2. J(a, k) >= J(a, k - 1) /\ J(a, k - 1) \in Nat /\ J(a, k) \in Nat
      BY <1>1, <1>4, <3>1
    <3>3. J(a, d) <= J(a, k - 1) /\ J(a, d) \in Nat
      BY <1>1, <2>2, <3>1
    <3>4. J(a, d) <= J(a, k)
      BY <3>2, <3>3
    <3> QED
      BY <3>1, <3>4
  <2> HIDE DEF S
  <2>3. \A k \in d + 1 .. b : k - 1 \in S => k \in S
    BY <2>2
  <2>4. b \in S
    BY <2>1, <2>3, InductFrom
  <2> QED
    BY <2>4 DEF S
<1>7. J(c, d) \in Nat /\ J(a, d) \in Nat /\ J(a, b) \in Nat
  <2>1. {a, b, c, d} \subseteq 1 .. Len(ts)
    OBVIOUS
  <2> QED
    BY <1>1, <2>1
<1>8. J(c, d) <= J(a, b)
  BY <1>5, <1>6, <1>7
<1> QED
  BY <1>8 DEF J

\* When only the last text has some of the places Q, the joined text has no more of them.
LEMMA WithinLast ==
  ASSUME NEW ts \in Seq(Texts), NEW kind \in Separators, NEW a \in Nat, NEW b \in Nat,
         1 <= a, a <= b, b <= Len(ts), NEW Q, 0 \notin Q,
         PlacesOf(ts, a, b - 1) \cap Q = {}
  PROVE  Within(Join(SubSeq(ts, a, b), kind), Q) = Within(ts[b], Q)
<1>1. CASE a = b
  <2>1. b \in 1 .. Len(ts)
    OBVIOUS
  <2>2. Join(SubSeq(ts, b, b), kind) = ts[b]
    BY <2>1, JoinOne
  <2> QED
    BY <1>1, <2>2
<1>2. CASE a < b
  <2> DEFINE x == Join(SubSeq(ts, a, b - 1), kind)
             z == Join(SubSeq(ts, a, b), kind)
  <2>1. b - 1 \in Int /\ b - 1 <= Len(ts) /\ a <= (b - 1) + 1 /\ b \in 1 .. Len(ts)
    OBVIOUS
  <2>2. x \in Texts
    BY <2>1, WindowIsText
  <2>3. Places(x) = PlacesOf(ts, a, b - 1)
    BY <2>1, PlacesJoin
  <2>4. Within(z, Q) = Within(x, Q) + Within(ts[b], Q)
    BY <1>2, JoinGrows
  <2>5. Within(ts[b], Q) \in Nat
    <3>1. ts[b] \in Texts
      BY <2>1
    <3> QED
      BY <3>1, WithinSum
  <2> HIDE DEF x, z
  <2>6. Within(x, Q) = 0
    BY <2>2, <2>3, WithinNone
  <2> QED
    BY <2>4, <2>5, <2>6 DEF z
<1> QED
  BY <1>1, <1>2

\* When only the texts from c on have some of the places Q, the joined text has no more
\* of them than these texts are long.
LEMMA WithinRest ==
  ASSUME NEW ts \in Seq(Texts), NEW kind \in Separators, NEW a \in Nat, NEW b \in Nat, NEW c \in Nat,
         1 <= a, a <= c, a <= b, c <= b + 1, b <= Len(ts), NEW Q, 0 \notin Q,
         PlacesOf(ts, a, c - 1) \cap Q = {}
  PROVE  /\ Within(Join(SubSeq(ts, a, b), kind), Q) \in Nat
         /\ Within(Join(SubSeq(ts, a, b), kind), Q) <= JoinSize(ts, kind, c, b)
         /\ JoinSize(ts, kind, c, b) \in Nat
<1> DEFINE J(k) == Join(SubSeq(ts, a, k), kind)
           W(k) == Within(J(k), Q)
<1>0. Len(ts) \in Nat /\ b \in Int /\ c \in Nat /\ 1 <= c
  OBVIOUS
<1>1. \A k \in 1 .. Len(ts) : W(k) \in Nat
  <2> TAKE k \in 1 .. Len(ts)
  <2>1. J(k) \in Texts
    BY WindowIsText
  <2> HIDE DEF J
  <2> QED
    BY <2>1, WithinSum
<1>2. JoinSize(ts, kind, c, b) \in Nat
  BY <1>0, WindowIsText
<1>3. CASE c = b + 1
  <2>1. Places(J(b)) = PlacesOf(ts, a, b) /\ J(b) \in Texts
    BY <1>0, PlacesJoin, WindowIsText
  <2>2. c - 1 = b /\ b \in 1 .. Len(ts)
    BY <1>3
  <2> HIDE DEF J
  <2>3. W(b) = 0
    BY <2>1, <2>2, WithinNone
  <2> QED
    BY <1>1, <1>2, <2>2, <2>3 DEF J
<1>4. CASE c <= b
  <2> DEFINE S == {k \in c .. b : W(k) <= JoinSize(ts, kind, c, k)}
  <2>1. c \in S
    <3>1. c \in c .. b /\ c \in 1 .. Len(ts) /\ c <= Len(ts)
      BY <1>4
    <3>2. W(c) = Within(ts[c], Q)
      BY <3>1, WithinLast
    <3>3. JoinSize(ts, kind, c, c) = Length(ts[c]) /\ ts[c] \in Texts
      BY <3>1, JoinSizeOne
    <3>4. Within(ts[c], Q) <= Length(ts[c])
      <4>1. Places(ts[c]) \cap Q \subseteq Q
        OBVIOUS
      <4> QED
        BY <3>3, <4>1, WithinBounds
    <3> HIDE DEF W
    <3> QED
      BY <3>1, <3>2, <3>3, <3>4
  <2>2. ASSUME NEW k \in c + 1 .. b, k - 1 \in S PROVE k \in S
    <3>1. k \in c .. b /\ k \in Nat /\ a < k /\ c < k /\ k <= Len(ts) /\ k - 1 \in 1 .. Len(ts) /\ 1 <= c
          /\ k \in 1 .. Len(ts)
      OBVIOUS
    <3>2. W(k) = W(k - 1) + Within(ts[k], Q)
      BY <3>1, JoinGrows
    <3>3. /\ JoinSize(ts, kind, c, k) = JoinSize(ts, kind, c, k - 1) + Length(Glue(kind)) + Length(ts[k])
          /\ JoinSize(ts, kind, c, k - 1) \in Nat /\ Length(Glue(kind)) \in Nat /\ Length(ts[k]) \in Nat
      BY <3>1, JoinLonger
    <3>4. Within(ts[k], Q) <= Length(ts[k]) /\ Within(ts[k], Q) \in Nat
      <4>1. ts[k] \in Texts
        BY <3>1
      <4>2. Places(ts[k]) \cap Q \subseteq Q
        OBVIOUS
      <4> QED
        BY <4>1, <4>2, WithinBounds
    <3>5. W(k - 1) <= JoinSize(ts, kind, c, k - 1) /\ W(k - 1) \in Nat
      BY <1>1, <2>2, <3>1
    <3> HIDE DEF W
    <3>6. W(k) <= JoinSize(ts, kind, c, k)
      BY <3>2, <3>3, <3>4, <3>5
    <3> QED
      BY <3>1, <3>6
  <2>3. b \in S
    <3> HIDE DEF S
    <3>1. \A k \in c + 1 .. b : k - 1 \in S => k \in S
      BY <2>2
    <3> QED
      BY <1>4, <2>1, <3>1, InductFrom
  <2>4. b \in 1 .. Len(ts)
    OBVIOUS
  <2> QED
    BY <1>1, <1>2, <2>3, <2>4
<1> QED
  BY <1>0, <1>3, <1>4

(***************************************************************************)
(* How the windows overlap: what the next one keeps of the one before is   *)
(* not longer than overlap, and both together are longer than ChunkSize.   *)
(***************************************************************************)
Turned(ts, kind, overlap, a, b, c) ==
  /\ a <= c /\ c <= b + 1
  /\ JoinSize(ts, kind, c, b) <= overlap /\ JoinSize(ts, kind, a, b + 1) > ChunkSize

Turns(ts, kind, overlap, w, j, a, b) ==
  Turned(ts, kind, overlap, w[j][1], w[j][2], a) /\ w[j][2] < b

AllTurn(ts, kind, overlap, w) ==
  \A j, k \in 1 .. Len(w) : k = j + 1 => Turns(ts, kind, overlap, w, j, w[k][1], w[k][2])

\* The last window of w may be followed by one from a to b.
LastTurns(ts, kind, overlap, w, a, b) ==
  \A j \in 1 .. Len(w) : j = Len(w) => Turns(ts, kind, overlap, w, j, a, b)

\* What holds of the loop of _merge_splits after n splits.
Turning(ts, kind, overlap, st, n) ==
  AllTurn(ts, kind, overlap, st.out) /\ LastTurns(ts, kind, overlap, st.out, st.first, n)

\* A window that keeps to the overlap can follow such windows.
LEMMA TurnsAppend ==
  ASSUME NEW ts, NEW kind, NEW overlap, NEW w \in Seq(Nat \X Nat), NEW a \in Nat, NEW b \in Nat,
         AllTurn(ts, kind, overlap, w), LastTurns(ts, kind, overlap, w, a, b)
  PROVE  AllTurn(ts, kind, overlap, Append(w, <<a, b>>))
<1> DEFINE u == Append(w, <<a, b>>)
           m == Len(w)
<1>1. m \in Nat /\ Len(u) = m + 1 /\ u[m + 1] = <<a, b>>
  OBVIOUS
<1>2. \A k \in 1 .. m : u[k] = w[k]
  OBVIOUS
<1>3. u[m + 1][1] = a /\ u[m + 1][2] = b
  BY <1>1
<1> HIDE DEF u, m
<1>4. ASSUME NEW j \in 1 .. m + 1, NEW k \in 1 .. m + 1, k = j + 1
      PROVE  Turns(ts, kind, overlap, u, j, u[k][1], u[k][2])
  <2>1. j \in 1 .. m
    BY <1>1, <1>4
  <2>2. u[j] = w[j]
    BY <1>2, <2>1
  <2>3. CASE k \in 1 .. m
    <3>1. Turns(ts, kind, overlap, w, j, w[k][1], w[k][2])
      BY <1>4, <2>1, <2>3 DEF AllTurn, m
    <3>2. u[k] = w[k]
      BY <1>2, <2>3
    <3> QED
      BY <2>2, <3>1, <3>2 DEF Turns
  <2>4. CASE k = m + 1
    <3>1. j = m
      BY <1>1, <1>4, <2>1, <2>4
    <3>2. Turns(ts, kind, overlap, w, j, a, b)
      BY <2>1, <3>1 DEF LastTurns, m
    <3> QED
      BY <1>3, <2>2, <2>4, <3>2 DEF Turns
  <2> QED
    BY <1>1, <2>3, <2>4
<1> QED
  BY <1>1, <1>4 DEF AllTurn, u

\* One turn of _merge_splits: what is kept of a full window keeps to the overlap, and with
\* the split that did not fit the window is too long.
LEMMA AddSplitTurning ==
  ASSUME NEW ts \in Seq(Texts), NEW kind \in Separators, NEW overlap \in Nat,
         NEW n \in 1 .. Len(ts), NEW st, Merging(st, n - 1), Turning(ts, kind, overlap, st, n - 1)
  PROVE  Turning(ts, kind, overlap, AddSplit(ts, kind, overlap, n, st), n)
<1> DEFINE K == {k \in st.first .. n : JoinSize(ts, kind, k, n - 1) <= overlap}
<1>1. /\ st.first \in Nat \ {0} /\ st.out \in Seq(Nat \X Nat)
      /\ n \in Nat /\ n > 0 /\ n - 1 \in Nat
  BY DEF Merging, Spread
<1>2. AllTurn(ts, kind, overlap, st.out) /\ LastTurns(ts, kind, overlap, st.out, st.first, n - 1)
  BY DEF Turning
<1>3. CASE st.first < n /\ JoinSize(ts, kind, st.first, n) > ChunkSize
  <2> DEFINE u == Append(st.out, <<st.first, n - 1>>)
             first == Least(K)
  <2>1. AddSplit(ts, kind, overlap, n, st) = [out |-> u, first |-> first]
    BY <1>3 DEF AddSplit
  <2>2. first \in st.first .. n /\ JoinSize(ts, kind, first, n - 1) <= overlap
    <3>1. JoinSize(ts, kind, n, n - 1) <= overlap
      BY <1>1, NothingKept
    <3>2. n \in K
      BY <1>1, <1>3, <3>1
    <3>3. K \in SUBSET Nat
      BY <1>1
    <3>4. first \in K
      <4> HIDE DEF K
      <4> QED
        BY <3>2, <3>3, LeastIn
    <3> HIDE DEF first
    <3> QED
      BY <3>4
  <2>3. AllTurn(ts, kind, overlap, u)
    BY <1>1, <1>2, TurnsAppend
  <2>4. Len(u) = Len(st.out) + 1 /\ u[Len(u)] = <<st.first, n - 1>> /\ Len(st.out) \in Nat
    BY <1>1
  <2>5. u[Len(u)][1] = st.first /\ u[Len(u)][2] = n - 1
    BY <2>4
  <2> HIDE DEF u, first
  <2>6. (n - 1) + 1 = n /\ n - 1 < n
    BY <1>1
  <2>7. Turned(ts, kind, overlap, st.first, n - 1, first)
    BY <1>1, <1>3, <2>2, <2>6 DEF Turned
  <2>8. LastTurns(ts, kind, overlap, u, first, n)
    BY <2>5, <2>6, <2>7 DEF LastTurns, Turns
  <2> DEFINE new == [out |-> u, first |-> first]
  <2>9. new.out = u /\ new.first = first
    OBVIOUS
  <2> HIDE DEF new
  <2>10. Turning(ts, kind, overlap, new, n)
    BY <2>3, <2>8, <2>9 DEF Turning
  <2> QED
    BY <2>1, <2>10 DEF new
<1>4. CASE ~(st.first < n /\ JoinSize(ts, kind, st.first, n) > ChunkSize)
  <2>1. AddSplit(ts, kind, overlap, n, st) = st
    BY <1>4 DEF AddSplit
  <2>2. \A k \in 1 .. Len(st.out) : st.out[k][2] < n - 1 => st.out[k][2] < n
    <3> TAKE k \in 1 .. Len(st.out)
    <3>1. st.out[k] \in Nat \X Nat
      BY <1>1
    <3>2. st.out[k][2] \in Nat
      BY <3>1
    <3> QED
      BY <1>1, <3>2
  <2>3. LastTurns(ts, kind, overlap, st.out, st.first, n)
    BY <1>2, <2>2 DEF LastTurns, Turns
  <2> QED
    BY <1>2, <2>1, <2>3 DEF Turning
<1> QED
  BY <1>3, <1>4

\* So it is with all windows.
LEMMA WindowsTurn ==
  ASSUME NEW ts \in Seq(Texts), NEW kind \in Separators, NEW overlap \in Nat
  PROVE  AllTurn(ts, kind, overlap, Windows(ts, kind, overlap))
<1> DEFINE n == Len(ts)
<1>1. n \in Nat
  OBVIOUS
<1>f. PICK f : WindowsRun(f, ts, kind, overlap)
  BY <1>1, WindowsLoop
<1>2. /\ f[0] = [out |-> <<>>, first |-> 1]
      /\ \A k \in 1 .. n : f[k] = AddSplit(ts, kind, overlap, k, f[k - 1])
      /\ Windows(ts, kind, overlap) =
           IF ts = <<>> THEN <<>> ELSE Append(f[n].out, <<f[n].first, n>>)
  BY <1>f DEF WindowsRun
<1>a. 1 .. Len(<<>>) = {}
  OBVIOUS
<1>3. CASE ts = <<>>
  BY <1>2, <1>3, <1>a DEF AllTurn
<1>4. CASE ts # <<>>
  <2>n. 1 .. n = 1 .. Len(ts)
    OBVIOUS
  <2> HIDE DEF n
  <2> DEFINE S == {k \in 0 .. n : Merging(f[k], k) /\ Turning(ts, kind, overlap, f[k], k)}
  <2>2. 0 \in S
    <3>1. f[0].out = <<>> /\ f[0].first = 1
      BY <1>2
    <3>2. Merging(f[0], 0)
      <4>1. Spread(<<>>, 0)
        <5>1. 1 .. 0 = {} /\ <<>> \in Seq(Nat \X Nat) /\ Len(<<>>) = 0
          OBVIOUS
        <5> QED
          BY <5>1 DEF Spread
      <4>2. 1 .. 1 - 1 = {}
        OBVIOUS
      <4> QED
        BY <1>a, <3>1, <4>1, <4>2 DEF Merging, Reaches
    <3>3. Turning(ts, kind, overlap, f[0], 0)
      BY <1>a, <3>1 DEF Turning, AllTurn, LastTurns
    <3> QED
      BY <1>1, <3>2, <3>3
  <2>3. ASSUME NEW k \in 1 .. n, k - 1 \in S PROVE k \in S
    <3>1. k \in Nat \ {0} /\ k \in 0 .. n /\ k \in 1 .. Len(ts)
      BY <1>1, <2>n
    <3>2. Merging(f[k - 1], k - 1) /\ Turning(ts, kind, overlap, f[k - 1], k - 1)
      BY <2>3
    <3>3. Merging(AddSplit(ts, kind, overlap, k, f[k - 1]), k)
      BY <3>1, <3>2, AddSplitMerging
    <3>4. Turning(ts, kind, overlap, AddSplit(ts, kind, overlap, k, f[k - 1]), k)
      BY <3>1, <3>2, AddSplitTurning
    <3> QED
      BY <1>2, <3>1, <3>3, <3>4
  <2>4. Merging(f[n], n) /\ Turning(ts, kind, overlap, f[n], n)
    <3>1. \A k \in 1 .. n : k - 1 \in S => k \in S
      BY <2>3
    <3> HIDE DEF S
    <3>2. \A k \in 0 .. n : k \in S
      BY <1>1, <2>2, <3>1, InductTo
    <3>3. n \in S
      BY <1>1, <3>2
    <3> QED
      BY <3>3 DEF S
  <2>5. f[n].first \in Nat /\ f[n].out \in Seq(Nat \X Nat)
    BY <2>4 DEF Merging, Spread
  <2>6. AllTurn(ts, kind, overlap, Append(f[n].out, <<f[n].first, n>>))
    BY <1>1, <2>4, <2>5, TurnsAppend DEF Turning
  <2> QED
    BY <1>2, <1>4, <2>6
<1> QED
  BY <1>3, <1>4

(***************************************************************************)
(* Packed texts and their windows.                                         *)
(***************************************************************************)
\* us are the texts ts, joined in the windows w.
Packed(ts, kind, overlap, w, us) ==
  /\ Len(w) \in Nat /\ us \in Seq(Texts) /\ Len(us) = Len(w)
  /\ \A k \in 1 .. Len(w) :
       /\ w[k][1] \in 1 .. Len(ts) /\ w[k][2] \in 1 .. Len(ts) /\ w[k][1] <= w[k][2]
       /\ Closed(ts, kind, overlap, w[k][1], w[k][2])
       /\ us[k] = Join(SubSeq(ts, w[k][1], w[k][2]), kind)
       /\ Places(us[k]) = PlacesOf(ts, w[k][1], w[k][2])
  /\ \A j, k \in 1 .. Len(w) : j < k => w[j][1] <= w[k][1] /\ w[j][2] <= w[k][2]
  /\ AllTurn(ts, kind, overlap, w)

\* _merge_splits joins the texts in such windows.
LEMMA MergePacks ==
  ASSUME NEW ts \in Seq(Texts), NEW kind \in Separators, NEW overlap \in Nat
  PROVE  \E w : Packed(ts, kind, overlap, w, MergeSplits(ts, kind, overlap))
<1> DEFINE w == Windows(ts, kind, overlap)
           us == MergeSplits(ts, kind, overlap)
           m == Len(w)
<1>1. Spread(w, Len(ts)) /\ AllClosed(ts, kind, overlap, w) /\ Len(ts) \in Nat
  BY WindowsSpread, WindowsClosed
<1>2. w \in Seq(Nat \X Nat) /\ m \in Nat /\ DOMAIN w = 1 .. m
  BY <1>1 DEF Spread
<1>3. us = [k \in 1 .. m |-> Join(SubSeq(ts, w[k][1], w[k][2]), kind)]
  BY <1>2 DEF MergeSplits
<1>t. AllTurn(ts, kind, overlap, w)
  BY WindowsTurn
<1> HIDE DEF w, us
<1>4. ASSUME NEW k \in 1 .. m
      PROVE  /\ w[k][1] \in 1 .. Len(ts) /\ w[k][2] \in 1 .. Len(ts)
             /\ w[k][1] <= w[k][2] /\ Closed(ts, kind, overlap, w[k][1], w[k][2])
             /\ us[k] = Join(SubSeq(ts, w[k][1], w[k][2]), kind) /\ us[k] \in Texts
             /\ Places(us[k]) = PlacesOf(ts, w[k][1], w[k][2])
  <2>1. w[k] \in Nat \X Nat
    BY <1>2
  <2>2. w[k][1] \in Nat /\ w[k][2] \in Nat /\ w[k][2] \in Int
    BY <2>1
  <2>3. 1 <= w[k][1] /\ w[k][2] <= Len(ts)
    BY <1>1 DEF Spread
  <2>4. w[k][1] <= w[k][2] /\ Closed(ts, kind, overlap, w[k][1], w[k][2])
    BY <1>1 DEF AllClosed
  <2>5. us[k] = Join(SubSeq(ts, w[k][1], w[k][2]), kind)
    BY <1>3
  <2>6. us[k] \in Texts
    BY <2>2, <2>3, <2>5, WindowIsText
  <2>7. w[k][1] <= w[k][2] + 1
    BY <2>2, <2>4
  <2>8. Places(us[k]) = PlacesOf(ts, w[k][1], w[k][2])
    BY <2>2, <2>3, <2>5, <2>7, PlacesJoin
  <2> QED
    BY <1>1, <2>2, <2>3, <2>4, <2>5, <2>6, <2>8
<1>5. us \in Seq(Texts) /\ Len(us) = m
  <2>1. us \in [1 .. m -> Texts]
    BY <1>3, <1>4
  <2>2. m \in Nat
    BY <1>2
  <2> HIDE DEF m
  <2> QED
    BY <2>1, <2>2
<1>6. \A j, k \in 1 .. m : j < k => w[j][1] <= w[k][1] /\ w[j][2] <= w[k][2]
  BY <1>1 DEF Spread
<1>7. Packed(ts, kind, overlap, w, us)
  BY <1>2, <1>4, <1>5, <1>6, <1>t DEF Packed
<1> QED
  BY <1>7 DEF us

\* Two windows, and the one behind the first.
LEMMA PackedPair ==
  ASSUME NEW ts \in Seq(Texts), NEW kind, NEW overlap, NEW w, NEW us, Packed(ts, kind, overlap, w, us),
         NEW j \in 1 .. Len(w), NEW k \in 1 .. Len(w), j < k
  PROVE  /\ j + 1 \in 1 .. Len(w)
         /\ w[j][1] \in 1 .. Len(ts) /\ w[j][2] \in 1 .. Len(ts)
         /\ w[j + 1][1] \in 1 .. Len(ts) /\ w[j + 1][2] \in 1 .. Len(ts)
         /\ w[k][1] \in 1 .. Len(ts) /\ w[k][2] \in 1 .. Len(ts)
         /\ Turned(ts, kind, overlap, w[j][1], w[j][2], w[j + 1][1])
         /\ w[j][1] <= w[j][2] /\ w[j + 1][1] <= w[j + 1][2] /\ w[k][1] <= w[k][2]
         /\ w[j][2] < w[j + 1][2] /\ w[j + 1][1] <= w[k][1] /\ w[j + 1][2] <= w[k][2]
         /\ us[j] \in Texts /\ us[j + 1] \in Texts /\ us[k] \in Texts
<1> DEFINE m == Len(w)
           i == j + 1
<1>1. m \in Nat /\ us \in Seq(Texts) /\ Len(us) = m
  BY DEF Packed
<1>2. i \in 1 .. m /\ (i = k \/ i < k)
  BY <1>1
<1> HIDE DEF m
<1>3. ASSUME NEW x \in 1 .. m
      PROVE  w[x][1] \in 1 .. Len(ts) /\ w[x][2] \in 1 .. Len(ts) /\ w[x][1] <= w[x][2] /\ us[x] \in Texts
  BY <1>1 DEF Packed, m
<1>4. Turns(ts, kind, overlap, w, j, w[i][1], w[i][2])
  BY <1>2 DEF Packed, AllTurn, m
<1>5. w[i][1] <= w[k][1] /\ w[i][2] <= w[k][2]
  <2>1. CASE i = k
    <3>1. w[k][1] \in 1 .. Len(ts) /\ w[k][2] \in 1 .. Len(ts)
      BY <1>3 DEF m
    <3> QED
      BY <2>1, <3>1
  <2>2. CASE i < k
    BY <1>2, <2>2 DEF Packed, m
  <2> QED
    BY <1>2, <2>1, <2>2
<1>6. j \in 1 .. m /\ k \in 1 .. m
  BY DEF m
<1> HIDE DEF i
<1>7. /\ w[j][1] \in 1 .. Len(ts) /\ w[j][2] \in 1 .. Len(ts)
      /\ w[i][1] \in 1 .. Len(ts) /\ w[i][2] \in 1 .. Len(ts)
      /\ w[k][1] \in 1 .. Len(ts) /\ w[k][2] \in 1 .. Len(ts)
  BY <1>2, <1>3, <1>6
<1>8. us[j] \in Texts /\ us[i] \in Texts /\ us[k] \in Texts
  BY <1>2, <1>3, <1>6
<1>9. w[j][1] <= w[j][2] /\ w[i][1] <= w[i][2] /\ w[k][1] <= w[k][2]
  BY <1>2, <1>3, <1>6
<1>10. Turned(ts, kind, overlap, w[j][1], w[j][2], w[i][1]) /\ w[j][2] < w[i][2]
  BY <1>4 DEF Turns
<1> QED
  BY <1>2, <1>5, <1>7, <1>8, <1>9, <1>10 DEF i, m

(***************************************************************************)
(* Texts without a common place, and texts of which neighbours have up to  *)
(* m characters in common, and then are too long to be packed together.    *)
(***************************************************************************)
Apart(ts) ==
  /\ ts \in Seq(Texts)
  /\ \A j, k \in 1 .. Len(ts) : j < k => Places(ts[j]) \cap Places(ts[k]) = {}

Neighbours(s, t, m) ==
  /\ Within(s, Places(t)) <= m
  /\ Places(s) \cap Places(t) # {} => Length(s) + 2 + Length(t) > ChunkSize

\* What s shares with u, t has too.
Passes(s, t, u) == Places(s) \cap Places(u) \subseteq Places(t)

Linked(ts, m) ==
  /\ ts \in Seq(Texts)
  /\ \A j, k \in 1 .. Len(ts) : j < k => Passes(ts[j], ts[j + 1], ts[k])
  /\ \A j, k \in 1 .. Len(ts) : k = j + 1 => Neighbours(ts[j], ts[k], m)

\* An index between two indices is one.
LEMMA Between ==
  ASSUME NEW n \in Nat, NEW a \in 1 .. n, NEW b \in 1 .. n, NEW x \in a .. b
  PROVE  x \in Nat /\ x \in 1 .. n /\ a <= x /\ x <= b
  OBVIOUS

\* A separator that join() adds has no place.
LEMMA PlacesNoZero == \A s : 0 \notin Places(s)
  BY DEF Places

\* What _merge_splits makes of texts without a common place.
LEMMA MergeLinked ==
  ASSUME NEW ts, Apart(ts), NEW kind \in Separators, NEW overlap \in Nat
  PROVE  Linked(MergeSplits(ts, kind, overlap), overlap)
<1> DEFINE us == MergeSplits(ts, kind, overlap)
<1>0. ts \in Seq(Texts)
  BY DEF Apart
<1>1. PICK w : Packed(ts, kind, overlap, w, us)
  BY <1>0, MergePacks
<1> HIDE DEF us
<1>2. us \in Seq(Texts) /\ Len(us) = Len(w)
  BY <1>1 DEF Packed
<1>3. ASSUME NEW x \in Nat, NEW y \in Nat, x \in 1 .. Len(ts), y \in 1 .. Len(ts), NEW p,
             p \in Places(ts[x]), p \in Places(ts[y])
      PROVE  x = y
  <2>1. ~(x < y) /\ ~(y < x)
    BY <1>3 DEF Apart
  <2> QED
    BY <2>1
<1>p. \A x \in 1 .. Len(w) : Places(us[x]) = PlacesOf(ts, w[x][1], w[x][2])
  BY <1>1 DEF Packed
<1>4. ASSUME NEW j \in 1 .. Len(us), NEW k \in 1 .. Len(us), j < k
      PROVE  Places(us[j]) \cap Places(us[k]) \subseteq Places(us[j + 1])
  <2> DEFINE i == j + 1
  <2>1. /\ i \in 1 .. Len(w)
        /\ w[j][1] \in 1 .. Len(ts) /\ w[j][2] \in 1 .. Len(ts)
        /\ w[i][1] \in 1 .. Len(ts) /\ w[i][2] \in 1 .. Len(ts)
        /\ w[k][1] \in 1 .. Len(ts) /\ w[k][2] \in 1 .. Len(ts)
        /\ w[j][2] < w[i][2] /\ w[i][1] <= w[k][1]
    BY <1>0, <1>1, <1>2, <1>4, PackedPair
  <2> HIDE DEF i
  <2>2. ASSUME NEW p, p \in Places(us[j]), p \in Places(us[k]) PROVE p \in Places(us[i])
    <3>p. j \in 1 .. Len(w) /\ k \in 1 .. Len(w)
      BY <1>2
    <3>1. PICK x \in w[j][1] .. w[j][2] : p \in Places(ts[x])
      <4>1. p \in PlacesOf(ts, w[j][1], w[j][2])
        BY <1>p, <2>2, <3>p
      <4> QED
        BY <4>1 DEF PlacesOf
    <3>2. PICK y \in w[k][1] .. w[k][2] : p \in Places(ts[y])
      <4>1. p \in PlacesOf(ts, w[k][1], w[k][2])
        BY <1>p, <2>2, <3>p
      <4> QED
        BY <4>1 DEF PlacesOf
    <3>3. x \in Nat /\ y \in Nat /\ x \in 1 .. Len(ts) /\ y \in 1 .. Len(ts)
          /\ x <= w[j][2] /\ w[k][1] <= y
      <4>1. Len(ts) \in Nat
        BY <1>0
      <4> QED
        BY <2>1, <4>1, Between
    <3>4. x = y
      BY <1>3, <3>1, <3>2, <3>3
    <3>5. x \in w[i][1] .. w[i][2]
      <4>1. w[i][1] \in Nat /\ w[i][2] \in Nat /\ w[j][2] \in Nat /\ w[k][1] \in Nat
        <5>1. Len(ts) \in Nat
          BY <1>0
        <5>2. \A z \in 1 .. Len(ts) : z \in Nat
          BY <5>1
        <5> QED
          BY <2>1, <5>2
      <4> DEFINE a == w[i][1]
                 b == w[i][2]
                 c == w[j][2]
                 d == w[k][1]
      <4>2. a \in Nat /\ b \in Nat /\ c \in Nat /\ d \in Nat /\ c < b /\ a <= d /\ x <= c /\ d <= y
        BY <2>1, <3>3, <4>1
      <4> HIDE DEF a, b, c, d
      <4>3. x \in a .. b
        BY <3>3, <3>4, <4>2
      <4> QED
        BY <4>3 DEF a, b
    <3> QED
      BY <1>p, <2>1, <3>1, <3>5 DEF PlacesOf
  <2> QED
    BY <2>2 DEF i
<1>5. ASSUME NEW j \in 1 .. Len(us), NEW k \in 1 .. Len(us), k = j + 1
      PROVE  Within(us[j], Places(us[k])) <= overlap /\ Length(us[j]) + 2 + Length(us[k]) > ChunkSize
  <2> DEFINE a == w[j][1]
             b == w[j][2]
             c == w[k][1]
             d == w[k][2]
             Q == Places(us[k])
  <2>j. j < k /\ j \in 1 .. Len(w) /\ k \in 1 .. Len(w)
    BY <1>2, <1>5
  <2>1. /\ a \in 1 .. Len(ts) /\ b \in 1 .. Len(ts) /\ c \in 1 .. Len(ts) /\ d \in 1 .. Len(ts) /\ b < d /\ a <= b /\ c <= d
        /\ Turned(ts, kind, overlap, a, b, c)
    BY <1>0, <1>1, <1>5, <2>j, PackedPair
  <2>2. us[j] = Join(SubSeq(ts, a, b), kind) /\ us[k] = Join(SubSeq(ts, c, d), kind)
    BY <1>1, <2>j DEF Packed
  <2>3. Q = PlacesOf(ts, c, d) /\ 0 \notin Q
    BY <1>p, <2>j, PlacesNoZero
  <2> HIDE DEF a, b, c, d, Q
  <2>4. /\ a \in Nat /\ b \in Nat /\ c \in Nat /\ d \in Nat /\ Len(ts) \in Nat
        /\ 1 <= a /\ 1 <= c /\ b <= Len(ts) /\ d <= Len(ts)
    BY <1>0, <2>1
  <2>5. a <= c /\ c <= b + 1 /\ JoinSize(ts, kind, c, b) <= overlap /\ JoinSize(ts, kind, a, b + 1) > ChunkSize
    BY <2>1 DEF Turned
  <2>6. PlacesOf(ts, a, c - 1) \cap Q = {}
    <3>1. ASSUME NEW p, p \in PlacesOf(ts, a, c - 1), p \in Q PROVE FALSE
      <4>1. PICK x \in a .. c - 1 : p \in Places(ts[x])
        BY <3>1 DEF PlacesOf
      <4>2. PICK y \in c .. d : p \in Places(ts[y])
        BY <2>3, <3>1 DEF PlacesOf
      <4>3. x \in Nat /\ y \in Nat /\ x \in 1 .. Len(ts) /\ y \in 1 .. Len(ts) /\ x < y
        BY <2>4, <2>1, <2>5
      <4>4. x = y
        BY <1>3, <4>1, <4>2, <4>3
      <4> QED
        BY <4>3, <4>4
    <3> QED
      BY <3>1
  <2>7. Within(us[j], Q) <= overlap
    <3>1. /\ Within(Join(SubSeq(ts, a, b), kind), Q) \in Nat
          /\ Within(Join(SubSeq(ts, a, b), kind), Q) <= JoinSize(ts, kind, c, b)
          /\ JoinSize(ts, kind, c, b) \in Nat
      BY <1>0, <2>1, <2>3, <2>4, <2>5, <2>6, WithinRest
    <3> QED
      BY <2>2, <2>5, <3>1
  <2>8. Length(us[j]) + 2 + Length(us[k]) > ChunkSize
    <3>1. b + 1 \in Nat /\ a < b + 1 /\ b + 1 <= d /\ b + 1 <= Len(ts) /\ b + 1 \in 1 .. Len(ts) /\ (b + 1) - 1 = b
      BY <2>1, <2>4
    <3>2. /\ JoinSize(ts, kind, a, b + 1) = JoinSize(ts, kind, a, b) + Length(Glue(kind)) + Length(ts[b + 1])
          /\ JoinSize(ts, kind, a, b) \in Nat /\ Length(Glue(kind)) \in Nat /\ Length(ts[b + 1]) \in Nat
      <4> DEFINE e == b + 1
      <4>1. e \in Nat /\ a \in Nat /\ 1 <= a /\ a < e /\ e <= Len(ts) /\ e - 1 = b
        BY <2>4, <3>1
      <4> HIDE DEF e
      <4>2. /\ JoinSize(ts, kind, a, e) = JoinSize(ts, kind, a, e - 1) + Length(Glue(kind)) + Length(ts[e])
            /\ JoinSize(ts, kind, a, e - 1) \in Nat /\ Length(Glue(kind)) \in Nat /\ Length(ts[e]) \in Nat
        BY <1>0, <4>1, JoinLonger
      <4> QED
        BY <4>1, <4>2 DEF e
    <3>3. Length(Glue(kind)) <= 2
      BY GlueLength
    <3>4. JoinSize(ts, kind, b + 1, b + 1) = Length(ts[b + 1])
      BY <1>0, <3>1, JoinSizeOne
    <3>5. JoinSize(ts, kind, b + 1, b + 1) <= JoinSize(ts, kind, c, d)
      <4>1. b + 1 <= b + 1
        BY <3>1
      <4> QED
        BY <1>0, <2>4, <2>5, <3>1, <4>1, JoinSizeSub
    <3>6. JoinSize(ts, kind, a, b) = Length(us[j]) /\ JoinSize(ts, kind, c, d) = Length(us[k])
      BY <2>2 DEF JoinSize
    <3>7. JoinSize(ts, kind, c, d) \in Nat
      BY <1>0, <2>4, WindowIsText
    <3>8. ChunkSize \in Nat
      BY ChunkAssumption
    <3> QED
      BY <2>5, <3>2, <3>3, <3>4, <3>5, <3>6, <3>7, <3>8
  <2> QED
    BY <2>7, <2>8 DEF Q
<1>6. Linked(us, overlap)
  BY <1>2, <1>4, <1>5 DEF Linked, Passes, Neighbours
<1> QED
  BY <1>6 DEF us

(***************************************************************************)
(* Any two chunks share little.                                            *)
(***************************************************************************)
\* Any two of the texts ts have up to m characters in common.
Sharing(ts, m) ==
  /\ ts \in Seq(Texts)
  /\ \A j, k \in 1 .. Len(ts) : j < k => Within(ts[j], Places(ts[k])) <= m

\* Neighbours share little, and what a text shares with any later one its neighbour has, too:
\* any two share little.
LEMMA LinkedShares ==
  ASSUME NEW m \in Nat, NEW ts, Linked(ts, m)
  PROVE  Sharing(ts, m)
<1>1. ts \in Seq(Texts) /\ Len(ts) \in Nat
  BY DEF Linked
<1>2. ASSUME NEW j \in 1 .. Len(ts), NEW k \in 1 .. Len(ts), j < k
      PROVE  Within(ts[j], Places(ts[k])) <= m
  <2> DEFINE Q == Places(ts[k])
             R == Places(ts[j + 1])
  <2>1. j + 1 \in 1 .. Len(ts) /\ ts[j] \in Texts
    BY <1>1, <1>2
  <2>2. Within(ts[j], R) <= m
    BY <2>1 DEF Linked, Neighbours
  <2>3. Places(ts[j]) \cap Q \subseteq R
    BY <1>2 DEF Linked, Passes
  <2>4. 0 \notin Q
    BY PlacesNoZero
  <2> HIDE DEF Q, R
  <2>5. Within(ts[j], Q) \in Nat /\ Within(ts[j], R) \in Nat /\ Within(ts[j], Q) <= Within(ts[j], R)
    BY <2>1, <2>3, <2>4, WithinBounds
  <2>6. Within(ts[j], Q) <= m
    BY <2>2, <2>5
  <2> QED
    BY <2>6 DEF Q
<1> QED
  BY <1>1, <1>2 DEF Sharing

\* When joined texts are empty, each of them is.
LEMMA NoPlaces ==
  ASSUME NEW ts \in Seq(Texts), NEW kind \in Separators, NEW a \in Nat, NEW b \in Nat,
         1 <= a, b <= Len(ts), JoinSize(ts, kind, a, b) <= 0, NEW x \in a .. b
  PROVE  Places(ts[x]) = {}
<1>1. /\ x \in Nat /\ a <= x /\ x <= x /\ x <= b /\ x \in 1 .. Len(ts) /\ b \in Int /\ x \in Int /\ 1 <= x
      /\ x <= Len(ts)
  OBVIOUS
<1>2. JoinSize(ts, kind, x, x) = Length(ts[x]) /\ Length(ts[x]) \in Nat /\ ts[x] \in Texts
  BY <1>1, JoinSizeOne
<1>3. JoinSize(ts, kind, x, x) <= JoinSize(ts, kind, a, b)
  BY <1>1, JoinSizeSub
<1>4. JoinSize(ts, kind, a, b) \in Nat
  BY <1>1, WindowIsText
<1>5. Length(ts[x]) <= 0
  BY <1>2, <1>3, <1>4
<1>6. ts[x] = <<>>
  BY <1>2, <1>5, NoLength
<1> QED
  BY <1>6 DEF Places

\* A blank line is two newlines.
LEMMA ParaLength == Length(Glue("para")) = 2 /\ "para" \in Separators
<1> DEFINE t == [kind |-> "para", at |-> 0]
<1>1. t \in Tokens /\ t.kind = "para"
  BY DEF Tokens, Kinds
<1>2. Glue("para") = <<t>>
  BY DEF Glue
<1> HIDE DEF t
<1>3. Length(<<t>>) = 2
  BY <1>1, LengthOne DEF Width
<1> QED
  BY <1>2, <1>3 DEF Separators, Blank

\* The packing of neighbours keeps that.
LEMMA PackShares ==
  ASSUME NEW m \in Nat, NEW ts, Linked(ts, m)
  PROVE  Sharing(MergeSplits(ts, "para", 0), m)
<1> DEFINE us == MergeSplits(ts, "para", 0)
           J(i, j) == JoinSize(ts, "para", i, j)
<1>0. ts \in Seq(Texts) /\ Len(ts) \in Nat /\ "para" \in Separators /\ 0 \in Nat
  BY ParaLength DEF Linked
<1>1. PICK w : Packed(ts, "para", 0, w, us)
  BY <1>0, MergePacks
<1> HIDE DEF us
<1>2. us \in Seq(Texts) /\ Len(us) = Len(w)
  BY <1>1 DEF Packed
<1>3. ASSUME NEW j \in 1 .. Len(us), NEW k \in 1 .. Len(us), j < k
      PROVE  Within(us[j], Places(us[k])) <= m
  <2> DEFINE a == w[j][1]
             b == w[j][2]
             c == w[k][1]
             d == w[k][2]
             e == w[j + 1][1]
             Q == Places(us[k])
  <2>j. j \in 1 .. Len(w) /\ k \in 1 .. Len(w)
    BY <1>2, <1>3
  <2>1. /\ a \in 1 .. Len(ts) /\ b \in 1 .. Len(ts) /\ c \in 1 .. Len(ts) /\ d \in 1 .. Len(ts)
        /\ e \in 1 .. Len(ts) /\ a <= b /\ c <= d /\ e <= c /\ b < w[j + 1][2] /\ w[j + 1][2] <= d
        /\ w[j + 1][2] \in 1 .. Len(ts) /\ Turned(ts, "para", 0, a, b, e)
    BY <1>0, <1>1, <1>3, <2>j, PackedPair
  <2>2. us[j] = Join(SubSeq(ts, a, b), "para") /\ Closed(ts, "para", 0, a, b)
    BY <1>1, <2>j DEF Packed
  <2>3. Q = PlacesOf(ts, c, d) /\ 0 \notin Q
    BY <1>1, <2>j, PlacesNoZero DEF Packed
  <2>z. \A z \in 1 .. Len(ts) : z \in Nat /\ z \in Int /\ 1 <= z /\ z <= Len(ts)
    BY <1>0
  <2>b. b < d
    BY <2>1, <2>z
  <2> HIDE DEF a, b, c, d, e, Q
  <2>4. a \in Nat /\ b \in Nat /\ c \in Nat /\ d \in Nat /\ e \in Nat /\ b < d
    BY <2>1, <2>b, <2>z
  <2>5. \A x \in e .. b : Places(ts[x]) = {}
    <3>1. JoinSize(ts, "para", e, b) <= 0
      BY <2>1 DEF Turned
    <3> QED
      BY <1>0, <2>1, <2>4, <2>z, <3>1, NoPlaces
  <2>6. ASSUME NEW x \in a .. b, NEW p, p \in Places(ts[x]), p \in Q
        PROVE  x \in Nat /\ x \in 1 .. Len(ts) /\ x + 1 \in 1 .. Len(ts) /\ p \in Places(ts[x + 1])
    <3>1. PICK y \in c .. d : p \in Places(ts[y])
      BY <2>3, <2>6 DEF PlacesOf
    <3>2. x \in Nat /\ x \in 1 .. Len(ts) /\ y \in Nat /\ y \in 1 .. Len(ts) /\ a <= x /\ x <= b /\ c <= y
      BY <1>0, <2>1, Between
    <3>3. x \notin e .. b
      BY <2>5, <2>6
    <3>4. x < y
      BY <2>1, <2>4, <3>2, <3>3
    <3>5. x + 1 \in 1 .. Len(ts)
      BY <1>0, <3>2, <3>4
    <3> QED
      BY <2>6, <3>1, <3>2, <3>4, <3>5 DEF Linked, Passes
  <2>7. PlacesOf(ts, a, b - 1) \cap Q = {}
    <3>1. ASSUME NEW p, p \in PlacesOf(ts, a, b - 1), p \in Q PROVE FALSE
      <4>1. PICK x \in a .. b - 1 : p \in Places(ts[x])
        BY <3>1 DEF PlacesOf
      <4>2. x \in a .. b /\ x \in Nat /\ a <= x /\ x + 1 <= b /\ x < x + 1 /\ b - 1 \in Nat /\ b - 1 \in Int
        BY <2>4, <2>1
      <4>3. x \in 1 .. Len(ts) /\ x + 1 \in 1 .. Len(ts) /\ p \in Places(ts[x + 1])
        BY <2>6, <3>1, <4>1, <4>2
      <4>4. Length(ts[x]) + 2 + Length(ts[x + 1]) > ChunkSize
        BY <4>1, <4>3 DEF Linked, Neighbours
      <4> DEFINE y == x + 1
      <4>5. y \in Nat /\ y - 1 = x /\ x < y /\ y <= b /\ y <= Len(ts) /\ 1 <= x
        BY <1>0, <4>2, <4>3
      <4>6. Length(ts[x]) + 2 + Length(ts[y]) > ChunkSize
        BY <4>4
      <4> HIDE DEF y
      <4>7. J(x, y) = J(x, y - 1) + Length(Glue("para")) + Length(ts[y]) /\ J(x, y) \in Nat
        <5>1. x \in Nat /\ y \in Nat /\ 1 <= x /\ x < y /\ y <= Len(ts)
          BY <4>2, <4>5
        <5>2. /\ JoinSize(ts, "para", x, y) = JoinSize(ts, "para", x, y - 1) + Length(Glue("para")) + Length(ts[y])
              /\ JoinSize(ts, "para", x, y - 1) \in Nat /\ JoinSize(ts, "para", x, y) \in Nat
              /\ Length(Glue("para")) \in Nat /\ Length(ts[y]) \in Nat
          BY <1>0, <5>1, JoinLonger
        <5> QED
          BY <5>2
      <4>8. J(x, x) = Length(ts[x])
        BY <1>0, <4>3, JoinSizeOne
      <4>9. J(x, y) <= J(a, b)
        <5>1. 1 <= a /\ a <= x /\ x <= y /\ y <= b /\ b <= Len(ts)
          BY <2>1, <2>z, <4>2, <4>5
        <5> QED
          BY <1>0, <2>4, <4>2, <4>5, <5>1, JoinSizeSub
      <4>10. J(a, b) \in Nat
        <5>1. 1 <= a /\ b <= Len(ts) /\ b \in Int
          BY <2>1, <2>z
        <5> QED
          BY <1>0, <2>4, <5>1, WindowIsText
      <4>11. J(x, y) > ChunkSize
        <5>1. J(x, y) = Length(ts[x]) + 2 + Length(ts[y])
          BY <4>5, <4>7, <4>8, ParaLength
        <5> QED
          BY <4>6, <5>1
      <4>12. ~(J(a, b) <= ChunkSize)
        <5>1. ChunkSize \in Nat
          BY ChunkAssumption
        <5> HIDE DEF J
        <5> QED
          BY <4>7, <4>9, <4>10, <4>11, <5>1
      <4>13. JoinSize(ts, "para", a, b - 1) <= 0
        BY <2>2, <4>12 DEF Closed
      <4>14. Places(ts[x]) = {}
        <5>1. 1 <= a /\ b - 1 <= Len(ts)
          BY <1>0, <2>1, <2>z, <2>4
        <5> QED
          BY <1>0, <2>4, <4>2, <4>13, <5>1, NoPlaces
      <4> QED
        BY <4>1, <4>14
    <3> QED
      BY <3>1
  <2>8. Within(us[j], Q) = Within(ts[b], Q)
    <3>1. 1 <= a /\ a <= b /\ b <= Len(ts)
      BY <2>1, <2>z
    <3> QED
      BY <1>0, <2>2, <2>3, <2>4, <2>7, <3>1, WithinLast
  <2>9. b + 1 \in 1 .. Len(ts) /\ b \in a .. b /\ ts[b] \in Texts
    BY <1>0, <2>1, <2>4
  <2>10. Places(ts[b]) \cap Q \subseteq Places(ts[b + 1])
    BY <2>6, <2>9
  <2>11. Within(ts[b], Places(ts[b + 1])) <= m
    BY <2>1, <2>9 DEF Linked, Neighbours
  <2>12. /\ Within(ts[b], Q) \in Nat /\ Within(ts[b], Places(ts[b + 1])) \in Nat
         /\ Within(ts[b], Q) <= Within(ts[b], Places(ts[b + 1]))
    BY <2>3, <2>9, <2>10, WithinBounds
  <2>13. Within(us[j], Q) <= m
    BY <2>8, <2>11, <2>12
  <2> QED
    BY <2>13 DEF Q
<1>4. Sharing(us, m)
  BY <1>2, <1>3 DEF Sharing
<1> QED
  BY <1>4 DEF us

\* So does the last strip.
LEMMA StripShares ==
  ASSUME NEW m \in Nat, NEW ts, Sharing(ts, m)
  PROVE  Sharing(Stripped(ts), m)
<1> DEFINE g == Stripped(ts)
<1>1. ts \in Seq(Texts) /\ Len(ts) \in Nat
  BY DEF Sharing
<1>2. Kept(g, ts, Len(ts))
  BY <1>1, StrippedKept
<1> HIDE DEF g
<1>3. ASSUME NEW j \in 1 .. Len(g), NEW k \in 1 .. Len(g), j < k
      PROVE  Within(g[j], Places(g[k])) <= m
  <2>1. PICK x \in 1 .. Len(ts), y \in 1 .. Len(ts) :
          x < y /\ g[j] = Strip(ts[x]) /\ g[k] = Strip(ts[y])
    BY <1>2, <1>3 DEF Kept
  <2> DEFINE s == ts[x]
             P == Places(g[k])
             Q == Places(ts[y])
  <2>2. s \in Texts /\ ts[y] \in Texts
    BY <1>1
  <2>3. Within(s, Q) <= m
    BY <2>1 DEF Sharing
  <2>4. P \subseteq Q /\ 0 \notin P /\ 0 \notin Q
    BY <2>1, <2>2, PlacesNoZero, WithinStrip
  <2>5. g[j] = Strip(s)
    BY <2>1
  <2> HIDE DEF s, P, Q
  <2>6. Strip(s) \in Texts /\ Within(Strip(s), P) <= Within(s, P)
    BY <2>2, <2>4, WithinStrip
  <2>7. Places(s) \cap P \subseteq Q
    BY <2>4
  <2>8. Within(s, P) \in Nat /\ Within(s, Q) \in Nat /\ Within(s, P) <= Within(s, Q)
    BY <2>2, <2>4, <2>7, WithinBounds
  <2>9. Within(Strip(s), P) \in Nat
    BY <2>6, WithinSum
  <2>10. Within(g[j], P) <= m
    BY <2>3, <2>5, <2>6, <2>8, <2>9
  <2> QED
    BY <2>10 DEF P
<1>4. g \in Seq(Texts)
  BY <1>2 DEF Kept
<1> QED
  BY <1>3, <1>4 DEF Sharing, g

(***************************************************************************)
(* Linked texts with places in P.                                          *)
(***************************************************************************)
Chained(ts, P, m) == Linked(ts, m) /\ \A k \in 1 .. Len(ts) : Places(ts[k]) \subseteq P

\* No text has no place.
LEMMA ChainNone == \A P, m : Chained(<<>>, P, m)
<1>1. <<>> \in Seq(Texts) /\ 1 .. Len(<<>>) = {}
  OBVIOUS
<1> QED
  BY <1>1 DEF Chained, Linked

\* One text is linked to none.
LEMMA ChainOne ==
  ASSUME NEW t \in Texts, NEW m
  PROVE  Chained(<<t>>, Places(t), m)
<1> DEFINE ts == <<t>>
<1>1. ts \in Seq(Texts) /\ Len(ts) = 1 /\ ts[1] = t
  OBVIOUS
<1> HIDE DEF ts
<1>2. 1 .. Len(ts) = {1} /\ ~(1 < 1) /\ 1 # 1 + 1
  BY <1>1
<1>3. Linked(ts, m)
  BY <1>1, <1>2 DEF Linked
<1>4. \A k \in 1 .. Len(ts) : Places(ts[k]) \subseteq Places(t)
  BY <1>1, <1>2
<1> QED
  BY <1>3, <1>4 DEF Chained, ts

\* What has places in P has them in what contains P.
LEMMA ChainMore ==
  ASSUME NEW ts, NEW P, NEW m, Chained(ts, P, m), NEW R, P \subseteq R
  PROVE  Chained(ts, R, m)
BY DEF Chained

\* Texts without a common place share nothing.
LEMMA StrangerNeighbours ==
  ASSUME NEW s \in Texts, NEW t \in Texts, NEW m \in Nat, Places(s) \cap Places(t) = {}
  PROVE  Neighbours(s, t, m)
<1>1. Within(s, Places(t)) = 0
  <2> DEFINE Q == Places(t)
  <2>1. 0 \notin Q /\ Places(s) \cap Q = {}
    BY PlacesNoZero
  <2> HIDE DEF Q
  <2>2. Within(s, Q) = 0
    BY <2>1, WithinNone
  <2> QED
    BY <2>2 DEF Q
<1> QED
  BY <1>1 DEF Neighbours

\* Linked texts, and others with other places behind them, are linked.
LEMMA ChainCat ==
  ASSUME NEW m \in Nat, NEW x, NEW y, NEW P, NEW R, Chained(x, P, m), Chained(y, R, m), P \cap R = {}
  PROVE  Chained(x \o y, P \cup R, m)
<1> DEFINE z == x \o y
           n == Len(x)
           l == Len(y)
<1>1. x \in Seq(Texts) /\ y \in Seq(Texts)
  BY DEF Chained, Linked
<1>2. n \in Nat /\ l \in Nat /\ z \in Seq(Texts) /\ Len(z) = n + l
  BY <1>1
<1>3. (\A i \in 1 .. n : z[i] = x[i]) /\ \A i \in 1 .. l : z[n + i] = y[i]
  BY <1>1
<1> HIDE DEF z, n, l
<1>4. \A i \in 1 .. n + l : i \in 1 .. n \/ (i - n \in 1 .. l /\ i = n + (i - n) /\ i > n)
  BY <1>2
<1>5. \A i \in 1 .. n : Places(z[i]) \subseteq P /\ z[i] \in Texts
  <2> TAKE i \in 1 .. n
  <2>1. x[i] \in Texts
    BY <1>1 DEF n
  <2>2. Places(x[i]) \subseteq P
    BY DEF Chained, n
  <2> QED
    BY <1>3, <2>1, <2>2
<1>6. \A i \in 1 .. l : Places(z[n + i]) \subseteq R /\ z[n + i] \in Texts
  <2> TAKE i \in 1 .. l
  <2>1. y[i] \in Texts
    BY <1>1 DEF l
  <2>2. Places(y[i]) \subseteq R
    BY DEF Chained, l
  <2> QED
    BY <1>3, <2>1, <2>2
<1>7. ASSUME NEW j \in 1 .. n + l, NEW k \in 1 .. n + l, j < k
      PROVE  Passes(z[j], z[j + 1], z[k]) /\ (k = j + 1 => Neighbours(z[j], z[k], m))
  <2>1. CASE k \in 1 .. n
    <3>1. j \in 1 .. n /\ j + 1 \in 1 .. n
      BY <1>2, <1>7, <2>1
    <3>2. z[j] = x[j] /\ z[j + 1] = x[j + 1] /\ z[k] = x[k]
      BY <1>3, <2>1, <3>1
    <3>3. Passes(x[j], x[j + 1], x[k]) /\ (k = j + 1 => Neighbours(x[j], x[k], m))
      BY <1>7, <2>1, <3>1 DEF Chained, Linked, n
    <3> QED
      BY <3>2, <3>3
  <2>2. CASE j > n
    <3> DEFINE a == j - n
               b == k - n
    <3>1. /\ a \in 1 .. l /\ b \in 1 .. l /\ a < b /\ a + 1 \in 1 .. l
          /\ j = n + a /\ k = n + b /\ j + 1 = n + (a + 1) /\ (k = j + 1 => b = a + 1)
      BY <1>2, <1>7, <2>2
    <3> HIDE DEF a, b
    <3>2. z[j] = y[a] /\ z[j + 1] = y[a + 1] /\ z[k] = y[b]
      BY <1>3, <3>1
    <3>3. Passes(y[a], y[a + 1], y[b]) /\ (b = a + 1 => Neighbours(y[a], y[b], m))
      BY <3>1 DEF Chained, Linked, l
    <3> QED
      BY <3>1, <3>2, <3>3
  <2>3. CASE j \in 1 .. n /\ k > n
    <3>1. Places(z[j]) \subseteq P /\ z[j] \in Texts
      BY <1>5, <2>3
    <3>2. Places(z[k]) \subseteq R /\ z[k] \in Texts
      <4>1. k - n \in 1 .. l /\ k = n + (k - n)
        BY <1>2, <1>4, <2>3
      <4> QED
        BY <1>6, <4>1
    <3>3. Places(z[j]) \cap Places(z[k]) = {}
      BY <3>1, <3>2
    <3> QED
      BY <3>1, <3>2, <3>3, StrangerNeighbours DEF Passes
  <2> QED
    BY <1>2, <1>4, <1>7, <2>1, <2>2, <2>3
<1>8. Linked(z, m)
  BY <1>2, <1>7 DEF Linked
<1>9. \A k \in 1 .. Len(z) : Places(z[k]) \subseteq P \cup R
  BY <1>2, <1>4, <1>5, <1>6
<1> QED
  BY <1>8, <1>9 DEF Chained, z

\* What the texts from c to d have is not in those from a to b.
LEMMA ApartPlaces ==
  ASSUME NEW ts, Apart(ts), NEW a \in Nat, NEW b \in Int, NEW c \in Nat, NEW d \in Int,
         1 <= a, b < c, d <= Len(ts)
  PROVE  PlacesOf(ts, a, b) \cap PlacesOf(ts, c, d) = {}
<1>1. ts \in Seq(Texts) /\ Len(ts) \in Nat
  BY DEF Apart
<1>2. ASSUME NEW p, p \in PlacesOf(ts, a, b), p \in PlacesOf(ts, c, d) PROVE FALSE
  <2>1. PICK x \in a .. b : p \in Places(ts[x])
    BY <1>2 DEF PlacesOf
  <2>2. PICK y \in c .. d : p \in Places(ts[y])
    BY <1>2 DEF PlacesOf
  <2>3. x \in 1 .. Len(ts) /\ y \in 1 .. Len(ts) /\ x < y
    BY <1>1
  <2> QED
    BY <2>1, <2>2, <2>3 DEF Apart
<1> QED
  BY <1>2

\* Some of the texts without a common place have none either.
LEMMA ApartSub ==
  ASSUME NEW ts, Apart(ts), NEW a \in Nat, NEW b \in Nat, 1 <= a, b <= Len(ts)
  PROVE  /\ Apart(SubSeq(ts, a, b))
         /\ \A k \in 1 .. Len(SubSeq(ts, a, b)) : Places(SubSeq(ts, a, b)[k]) \subseteq PlacesOf(ts, a, b)
<1> DEFINE us == SubSeq(ts, a, b)
<1>0. ts \in Seq(Texts)
  BY DEF Apart
<1>1. /\ us \in Seq(Texts)
      /\ \A i \in 1 .. Len(us) :
           /\ a + i - 1 \in a .. b /\ a + i - 1 \in 1 .. Len(ts)
           /\ us[i] = ts[a + i - 1]
      /\ \A i, j \in 1 .. Len(us) : i < j => a + i - 1 < a + j - 1
  BY <1>0, SubTexts
<1> HIDE DEF us
<1>2. \A j, k \in 1 .. Len(us) : j < k => Places(us[j]) \cap Places(us[k]) = {}
  <2> TAKE j, k \in 1 .. Len(us)
  <2> HAVE j < k
  <2> DEFINE x == a + j - 1
             y == a + k - 1
  <2>1. x \in 1 .. Len(ts) /\ y \in 1 .. Len(ts) /\ x < y /\ us[j] = ts[x] /\ us[k] = ts[y]
    BY <1>1
  <2> HIDE DEF x, y
  <2> QED
    BY <2>1 DEF Apart
<1>3. \A k \in 1 .. Len(us) : Places(us[k]) \subseteq PlacesOf(ts, a, b)
  BY <1>1 DEF PlacesOf
<1>4. Apart(us)
  BY <1>1, <1>2 DEF Apart
<1> QED
  BY <1>3, <1>4 DEF us

\* Packing them makes linked texts,
LEMMA MergeChained ==
  ASSUME NEW ts, Apart(ts), NEW kind \in Separators, NEW overlap \in Nat, NEW P,
         \A k \in 1 .. Len(ts) : Places(ts[k]) \subseteq P
  PROVE  Chained(MergeSplits(ts, kind, overlap), P, overlap)
<1> DEFINE us == MergeSplits(ts, kind, overlap)
<1>0. ts \in Seq(Texts) /\ Len(ts) \in Nat
  BY DEF Apart
<1>1. Linked(us, overlap)
  BY MergeLinked
<1>2. PICK w : Packed(ts, kind, overlap, w, us)
  BY <1>0, MergePacks
<1> HIDE DEF us
<1>3. ASSUME NEW k \in 1 .. Len(us) PROVE Places(us[k]) \subseteq P
  <2>1. /\ w[k][1] \in 1 .. Len(ts) /\ w[k][2] \in 1 .. Len(ts)
        /\ Places(us[k]) = PlacesOf(ts, w[k][1], w[k][2])
    BY <1>2 DEF Packed
  <2>2. \A x \in w[k][1] .. w[k][2] : x \in 1 .. Len(ts)
    BY <1>0, <2>1, Between
  <2> QED
    BY <2>1, <2>2 DEF PlacesOf
<1> QED
  BY <1>1, <1>3 DEF Chained, us

\* also of some of the parts.
LEMMA GoodChained ==
  ASSUME NEW parts, Apart(parts), NEW kind \in Separators, NEW a \in Nat, NEW b \in Nat,
         1 <= a, b <= Len(parts)
  PROVE  Chained(Good(parts, kind, a, b), PlacesOf(parts, a, b), Overlap)
<1> DEFINE us == SubSeq(parts, a, b)
<1>1. Apart(us) /\ \A k \in 1 .. Len(us) : Places(us[k]) \subseteq PlacesOf(parts, a, b)
  BY ApartSub
<1>2. Overlap \in Nat
  BY ChunkAssumption
<1> HIDE DEF us
<1>3. Chained(MergeSplits(us, kind, Overlap), PlacesOf(parts, a, b), Overlap)
  BY <1>1, <1>2, MergeChained
<1> QED
  BY <1>3 DEF Good, us

(***************************************************************************)
(* The loop of _recursive_split keeps chunks linked.                       *)
(***************************************************************************)
\* What holds of the loop of _recursive_split after n parts.
Chaining(parts, st, n) ==
  st.first \in 1 .. n + 1 /\ Chained(st.out, PlacesOf(parts, 1, st.first - 1), Overlap)

AllChained(parts, finer, m) == \A k \in 1 .. Len(parts) : Chained(finer[k], Places(parts[k]), m)

\* The places up to a text, and from it on.
LEMMA PlacesOfSplit ==
  ASSUME NEW ts, NEW a \in Nat, NEW k \in Nat, a <= k + 1, 1 <= a
  PROVE  PlacesOf(ts, 1, k) = PlacesOf(ts, 1, a - 1) \cup PlacesOf(ts, a, k)
<1>1. 1 .. k = (1 .. a - 1) \cup (a .. k)
  OBVIOUS
<1> QED
  BY <1>1 DEF PlacesOf

\* The places of one text.
LEMMA PlacesOfOne ==
  ASSUME NEW ts, NEW k \in Nat
  PROVE  PlacesOf(ts, k, k) = Places(ts[k])
<1>1. k .. k = {k}
  OBVIOUS
<1> QED
  BY <1>1 DEF PlacesOf

\* One turn of _recursive_split keeps the chunks linked if the finer splits are.
LEMMA AddPartChaining ==
  ASSUME NEW parts, Apart(parts), NEW kind \in Separators, NEW finer, AllChained(parts, finer, Overlap),
         NEW n \in 1 .. Len(parts), NEW st, Chaining(parts, st, n - 1)
  PROVE  Chaining(parts, AddPart(parts, kind, finer, n, st), n)
<1> DEFINE a == st.first
           good == Good(parts, kind, a, n - 1)
           P(i, j) == PlacesOf(parts, i, j)
<1>0. Overlap \in Nat
  BY ChunkAssumption
<1>1. /\ Len(parts) \in Nat /\ n \in Nat \ {0} /\ n - 1 \in Nat /\ n <= Len(parts) /\ n - 1 <= Len(parts)
      /\ n \in Int /\ n - 1 \in Int
  BY DEF Apart
<1>2. a \in Nat /\ 1 <= a /\ a <= n /\ a - 1 \in Nat /\ Chained(st.out, P(1, a - 1), Overlap)
  BY <1>1 DEF Chaining
<1>3. CASE Length(parts[n]) > ChunkSize
  <2>1. AddPart(parts, kind, finer, n, st) =
          [out |-> st.out \o Flush(good, finer[n]), first |-> n + 1]
    BY <1>3 DEF AddPart
  <2>2. Chained(good, P(a, n - 1), Overlap)
    BY <1>1, <1>2, GoodChained
  <2>3. Chained(finer[n], P(n, n), Overlap)
    BY <1>1, PlacesOfOne DEF AllChained
  <2>4. P(a, n - 1) \cap P(n, n) = {}
    <3>1. n - 1 < n
      BY <1>1
    <3> QED
      BY <1>1, <1>2, <3>1, ApartPlaces
  <2>5. P(1, a - 1) \cap P(a, n) = {}
    <3>1. a - 1 < a /\ 1 <= 1 /\ a - 1 \in Int
      BY <1>2
    <3> QED
      BY <1>1, <1>2, <3>1, ApartPlaces
  <2>6. P(a, n - 1) \cup P(n, n) = P(a, n)
    <3>1. a .. n = (a .. n - 1) \cup (n .. n)
      BY <1>1, <1>2
    <3> QED
      BY <3>1 DEF PlacesOf
  <2>7. P(1, a - 1) \cup P(a, n) = P(1, n)
    BY <1>1, <1>2, PlacesOfSplit
  <2> HIDE DEF good, P
  <2>8. Chained(Flush(good, finer[n]), P(a, n), Overlap)
    BY <1>0, <2>2, <2>3, <2>4, <2>6, ChainCat DEF Flush
  <2>9. Chained(st.out \o Flush(good, finer[n]), P(1, n), Overlap)
    BY <1>0, <1>2, <2>5, <2>7, <2>8, ChainCat
  <2>10. n + 1 \in 1 .. n + 1 /\ (n + 1) - 1 = n
    BY <1>1
  <2> DEFINE out == st.out \o Flush(good, finer[n])
             new == [out |-> out, first |-> n + 1]
  <2>11. new.first = n + 1 /\ new.out = out
    OBVIOUS
  <2>12. AddPart(parts, kind, finer, n, st) = new
    BY <2>1
  <2>13. Chained(out, P(1, n), Overlap)
    BY <2>9
  <2> HIDE DEF out, new
  <2>14. Chained(new.out, P(1, new.first - 1), Overlap)
    BY <2>10, <2>11, <2>13
  <2> QED
    BY <2>10, <2>11, <2>12, <2>14 DEF Chaining, P
<1>4. CASE ~(Length(parts[n]) > ChunkSize)
  <2>1. AddPart(parts, kind, finer, n, st) = st
    BY <1>4 DEF AddPart
  <2>2. st.first \in 1 .. n + 1
    BY <1>1, <1>2
  <2> QED
    BY <1>2, <2>1, <2>2 DEF Chaining
<1> QED
  BY <1>3, <1>4

\* _recursive_split makes linked chunks if the finer splits are.
LEMMA CollectChained ==
  ASSUME NEW parts, Apart(parts), NEW kind \in Separators, NEW finer, AllChained(parts, finer, Overlap)
  PROVE  Chained(Collect(parts, kind, finer), PlacesOf(parts, 1, Len(parts)), Overlap)
<1> DEFINE n == Len(parts)
<1>0. Overlap \in Nat
  BY ChunkAssumption
<1>1. n \in Nat
  BY DEF Apart
<1>f. PICK f : CollectRun(f, parts, kind, finer)
  BY <1>1, CollectLoop
<1>2. /\ f[0] = [out |-> <<>>, first |-> 1]
      /\ \A k \in 1 .. n : f[k] = AddPart(parts, kind, finer, k, f[k - 1])
      /\ Collect(parts, kind, finer) = f[n].out \o Good(parts, kind, f[n].first, n)
  BY <1>f DEF CollectRun
<1> DEFINE S == {k \in 0 .. n : Chaining(parts, f[k], k)}
<1>3. 0 \in S
  <2>1. f[0].out = <<>> /\ f[0].first = 1 /\ 1 \in 1 .. 0 + 1
    BY <1>2
  <2>2. Chaining(parts, f[0], 0)
    BY <2>1, ChainNone DEF Chaining
  <2> QED
    BY <1>1, <2>2
<1>4. ASSUME NEW k \in 1 .. n, k - 1 \in S PROVE k \in S
  BY <1>1, <1>2, <1>4, AddPartChaining
<1>5. n \in S
  <2> HIDE DEF S
  <2>1. \A k \in 1 .. n : k - 1 \in S => k \in S
    BY <1>4
  <2>2. \A k \in 0 .. n : k \in S
    BY <1>1, <1>3, <2>1, InductTo
  <2> QED
    BY <1>1, <2>2
<1> DEFINE a == f[n].first
<1>6. /\ a \in Nat /\ 1 <= a /\ a <= n + 1 /\ a - 1 \in Nat
      /\ Chained(f[n].out, PlacesOf(parts, 1, a - 1), Overlap)
  BY <1>1, <1>5 DEF Chaining
<1> HIDE DEF a
<1>7. Chained(Good(parts, kind, a, n), PlacesOf(parts, a, n), Overlap)
  BY <1>1, <1>6, GoodChained
<1>8. PlacesOf(parts, 1, a - 1) \cap PlacesOf(parts, a, n) = {}
  <2>1. a - 1 < a /\ 1 <= 1 /\ n <= Len(parts) /\ a - 1 \in Int /\ n \in Int
    BY <1>1, <1>6
  <2> QED
    BY <1>1, <1>6, <2>1, ApartPlaces
<1>9. PlacesOf(parts, 1, a - 1) \cup PlacesOf(parts, a, n) = PlacesOf(parts, 1, n)
  BY <1>1, <1>6, PlacesOfSplit
<1>10. Chained(f[n].out \o Good(parts, kind, a, n), PlacesOf(parts, 1, n), Overlap)
  BY <1>0, <1>6, <1>7, <1>8, <1>9, ChainCat
<1> QED
  BY <1>2, <1>10 DEF a

\* Pieces that follow each other have no common place.
LEMMA PiecesApart ==
  ASSUME NEW s, Passage(s), NEW w, NEW cuts, Pieces(w, Len(s), cuts)
  PROVE  /\ Apart(PiecesOf(s, w)) /\ DOMAIN PiecesOf(s, w) = 1 .. Len(PiecesOf(s, w))
         /\ \A k \in 1 .. Len(PiecesOf(s, w)) :
              Passage(PiecesOf(s, w)[k]) /\ Places(PiecesOf(s, w)[k]) \subseteq Places(s)
         /\ PlacesOf(PiecesOf(s, w), 1, Len(PiecesOf(s, w))) \subseteq Places(s)
<1> DEFINE ts == PiecesOf(s, w)
           n == Len(s)
           m == Len(w)
<1>1. s \in Texts /\ n \in Nat /\ DOMAIN s = 1 .. n
  BY DEF Passage, Texts
<1>2. w \in Seq(Nat \X Nat) /\ m \in Nat /\ DOMAIN w = 1 .. m
  BY DEF Pieces
<1>3. ts = [k \in 1 .. m |-> SubSeq(s, w[k][1], w[k][2])]
  BY <1>2 DEF PiecesOf
<1> HIDE DEF ts, n, m
<1>4. ASSUME NEW k \in 1 .. m
      PROVE  /\ Passage(ts[k]) /\ ts[k] \in Texts /\ Places(ts[k]) \subseteq Places(s)
             /\ w[k][1] \in Nat /\ w[k][2] \in Nat /\ 1 <= w[k][1] /\ w[k][2] <= n
             /\ \A p \in Places(ts[k]) : \E i \in w[k][1] .. w[k][2] : p = s[i].at
  <2>1. w[k][1] \in Nat /\ w[k][2] \in Nat /\ 1 <= w[k][1] /\ w[k][2] <= Len(s)
    BY <1>1, PieceIs DEF m, n
  <2>2. Passage(SubSeq(s, w[k][1], w[k][2]))
    BY <2>1, PassageSub
  <2>3. ts[k] = SubSeq(s, w[k][1], w[k][2])
    BY <1>3
  <2>4. /\ Places(ts[k]) = {s[i].at : i \in w[k][1] .. w[k][2]} \ {0}
        /\ Places(ts[k]) \subseteq Places(s)
    BY <1>1, <2>1, <2>3, PlacesSub
  <2> QED
    BY <2>1, <2>2, <2>3, <2>4 DEF Passage, n
<1>5. ts \in Seq(Texts) /\ Len(ts) = m /\ DOMAIN ts = 1 .. m
  <2>1. DOMAIN ts = 1 .. m /\ \A k \in 1 .. m : ts[k] \in Texts
    BY <1>3, <1>4
  <2>2. ts \in [1 .. m -> Texts]
    BY <1>3, <2>1
  <2> QED
    BY <1>2, <2>1, <2>2
<1>6. ASSUME NEW j \in 1 .. m, NEW k \in 1 .. m, j < k, NEW p, p \in Places(ts[j]), p \in Places(ts[k])
      PROVE  FALSE
  <2>1. PICK x \in w[j][1] .. w[j][2] : p = s[x].at
    BY <1>4, <1>6
  <2>2. PICK y \in w[k][1] .. w[k][2] : p = s[y].at
    BY <1>4, <1>6
  <2>3. w[j][2] < w[k][1]
    BY <1>1, <1>6 DEF Pieces, m
  <2> DEFINE a == w[j][1]
             b == w[j][2]
             c == w[k][1]
             d == w[k][2]
  <2>4. a \in Nat /\ b \in Nat /\ c \in Nat /\ d \in Nat /\ 1 <= a /\ b <= n /\ 1 <= c /\ d <= n /\ b < c
    BY <1>4, <2>3
  <2>5. x \in a .. b /\ y \in c .. d
    OBVIOUS
  <2> HIDE DEF a, b, c, d
  <2>6. x \in 1 .. n /\ y \in 1 .. n /\ x < y
    BY <1>1, <2>4, <2>5
  <2>7. s[x].at < s[y].at /\ s[x].at \in Nat
    BY <1>1, <2>6, InkyOf DEF Passage, n
  <2> QED
    BY <2>1, <2>2, <2>7
<1>7. Apart(ts)
  BY <1>5, <1>6 DEF Apart
<1>8. PlacesOf(ts, 1, m) \subseteq Places(s)
  BY <1>4 DEF PlacesOf
<1> QED
  BY <1>4, <1>5, <1>7, <1>8 DEF ts

(***************************************************************************)
(* The chunks of the window splitter.                                      *)
(***************************************************************************)
\* The parts between the cuts have no common place.
LEMMA CutApart ==
  ASSUME NEW s, Passage(s), NEW cuts
  PROVE  LET ts == CutAt(s, cuts) IN
         /\ Apart(ts) /\ DOMAIN ts = 1 .. Len(ts) /\ PlacesOf(ts, 1, Len(ts)) \subseteq Places(s)
         /\ \A k \in 1 .. Len(ts) : Passage(ts[k]) /\ Places(ts[k]) \subseteq Places(s)
<1>1. Len(s) \in Nat
  BY DEF Passage, Texts
<1>2. Pieces(Spans(s, cuts), Len(s), cuts)
  BY <1>1, SpansPieces
<1>3. CutAt(s, cuts) = PiecesOf(s, Spans(s, cuts))
  BY DEF CutAt, PiecesOf
<1> DEFINE w == Spans(s, cuts)
<1> HIDE DEF w
<1>4. /\ Apart(PiecesOf(s, w)) /\ DOMAIN PiecesOf(s, w) = 1 .. Len(PiecesOf(s, w))
      /\ \A k \in 1 .. Len(PiecesOf(s, w)) :
           Passage(PiecesOf(s, w)[k]) /\ Places(PiecesOf(s, w)[k]) \subseteq Places(s)
      /\ PlacesOf(PiecesOf(s, w), 1, Len(PiecesOf(s, w))) \subseteq Places(s)
  BY <1>2, PiecesApart DEF w
<1> QED
  BY <1>3, <1>4 DEF w

\* The characters of a text have no common place.
LEMMA CharactersApart ==
  ASSUME NEW s, Passage(s)
  PROVE  LET ts == [i \in DOMAIN s |-> <<s[i]>>] IN
         Apart(ts) /\ \A k \in 1 .. Len(ts) : Places(ts[k]) \subseteq Places(s)
<1> DEFINE n == Len(s)
           w == [i \in 1 .. n |-> <<i, i>>]
<1>1. s \in Texts /\ n \in Nat /\ DOMAIN s = 1 .. n
  BY DEF Passage, Texts
<1>2. w \in Seq(Nat \X Nat) /\ Len(w) = n /\ DOMAIN w = 1 .. n
  BY <1>1
<1>3. \A k \in 1 .. n : w[k] = <<k, k>> /\ w[k][1] = k /\ w[k][2] = k
  OBVIOUS
<1>4. PiecesOf(s, w) = [i \in DOMAIN s |-> <<s[i]>>]
  <2>1. ASSUME NEW i \in 1 .. n PROVE SubSeq(s, i, i) = <<s[i]>>
    <3> DEFINE t == SubSeq(s, i, i)
    <3>1. i \in Nat /\ 1 <= i /\ i <= Len(s)
      BY <1>1
    <3>2. t \in Seq(Tokens) /\ Len(t) = 1 /\ t[1] = s[i]
      BY <1>1, <3>1 DEF Texts
    <3> HIDE DEF t
    <3>3. t = <<s[i]>>
      BY <3>2
    <3> QED
      BY <3>3 DEF t
  <2> QED
    BY <1>1, <1>2, <1>3, <2>1 DEF PiecesOf
<1> HIDE DEF w, n
<1>5. Pieces(w, n, {})
  <2>1. \A k \in 1 .. n : 1 <= w[k][1] /\ w[k][2] <= n
    BY <1>1, <1>3
  <2>2. \A j, k \in 1 .. n : j < k => w[j][2] < w[k][1]
    BY <1>3
  <2>3. \A i \in 1 .. n : Covered(w, i)
    BY <1>1, <1>2, <1>3 DEF Covered
  <2> QED
    BY <1>2, <2>1, <2>2, <2>3 DEF Pieces
<1>6. /\ Apart(PiecesOf(s, w))
      /\ \A k \in 1 .. Len(PiecesOf(s, w)) : Places(PiecesOf(s, w)[k]) \subseteq Places(s)
  BY <1>5, PiecesApart DEF n
<1> QED
  BY <1>4, <1>6

\* Windows of characters are linked.
LEMMA CharactersChained ==
  ASSUME NEW s, Passage(s)
  PROVE  Chained(SplitCharacters(s), Places(s), Overlap)
<1> DEFINE ts == [i \in DOMAIN s |-> <<s[i]>>]
<1>1. Apart(ts) /\ \A k \in 1 .. Len(ts) : Places(ts[k]) \subseteq Places(s)
  BY CharactersApart
<1>2. Overlap \in Nat /\ "none" \in Separators
  BY ChunkAssumption DEF Separators
<1>3. SplitCharacters(s) = MergeSplits(ts, "none", Overlap)
  BY DEF SplitCharacters
<1> HIDE DEF ts
<1>4. Chained(MergeSplits(ts, "none", Overlap), Places(s), Overlap)
  BY <1>1, <1>2, MergeChained
<1> QED
  BY <1>3, <1>4

\* Splitting at spaces, and what is too long at characters, makes linked chunks.
LEMMA SpacesChained ==
  ASSUME NEW s, Passage(s)
  PROVE  Chained(SplitSpaces(s), Places(s), Overlap)
<1> DEFINE ts == CutAt(s, Having(s, "space"))
           finer == [k \in DOMAIN ts |-> SplitCharacters(ts[k])]
<1>1. SplitSpaces(s) =
        IF Having(s, "space") = {} THEN SplitCharacters(s) ELSE Collect(ts, "space", finer)
  BY DEF SplitSpaces, SplitOn
<1>2. /\ Apart(ts) /\ DOMAIN ts = 1 .. Len(ts) /\ PlacesOf(ts, 1, Len(ts)) \subseteq Places(s)
      /\ \A k \in 1 .. Len(ts) : Passage(ts[k])
  BY CutApart
<1>3. "space" \in Separators
  BY DEF Separators, Blank
<1> HIDE DEF ts
<1>4. AllChained(ts, finer, Overlap)
  BY <1>2, CharactersChained DEF AllChained
<1> HIDE DEF finer
<1>5. Chained(Collect(ts, "space", finer), PlacesOf(ts, 1, Len(ts)), Overlap)
  BY <1>2, <1>3, <1>4, CollectChained
<1>6. Chained(Collect(ts, "space", finer), Places(s), Overlap)
  BY <1>2, <1>5, ChainMore
<1> QED
  BY <1>1, <1>6, CharactersChained

\* The same from lines down.
LEMMA LinesChained ==
  ASSUME NEW s, Passage(s)
  PROVE  Chained(SplitLines(s), Places(s), Overlap)
<1> DEFINE ts == CutAt(s, Having(s, "line"))
           finer == [k \in DOMAIN ts |-> SplitSpaces(ts[k])]
<1>1. SplitLines(s) =
        IF Having(s, "line") = {} THEN SplitSpaces(s) ELSE Collect(ts, "line", finer)
  BY DEF SplitLines, SplitOn
<1>2. /\ Apart(ts) /\ DOMAIN ts = 1 .. Len(ts) /\ PlacesOf(ts, 1, Len(ts)) \subseteq Places(s)
      /\ \A k \in 1 .. Len(ts) : Passage(ts[k])
  BY CutApart
<1>3. "line" \in Separators
  BY DEF Separators, Blank
<1> HIDE DEF ts
<1>4. AllChained(ts, finer, Overlap)
  BY <1>2, SpacesChained DEF AllChained
<1> HIDE DEF finer
<1>5. Chained(Collect(ts, "line", finer), PlacesOf(ts, 1, Len(ts)), Overlap)
  BY <1>2, <1>3, <1>4, CollectChained
<1>6. Chained(Collect(ts, "line", finer), Places(s), Overlap)
  BY <1>2, <1>5, ChainMore
<1> QED
  BY <1>1, <1>6, SpacesChained

\* The same from blank lines down: the chunks of chunk_text are linked.
LEMMA TextChained ==
  ASSUME NEW s, Passage(s)
  PROVE  Chained(ChunkText(s), Places(s), Overlap)
<1> DEFINE ts == CutAt(s, Having(s, "para"))
           finer == [k \in DOMAIN ts |-> SplitLines(ts[k])]
<1>1. ChunkText(s) =
        IF Strip(s) = <<>> THEN <<>>
        ELSE IF Having(s, "para") = {} THEN SplitLines(s) ELSE Collect(ts, "para", finer)
  BY DEF ChunkText, SplitOn
<1>2. /\ Apart(ts) /\ DOMAIN ts = 1 .. Len(ts) /\ PlacesOf(ts, 1, Len(ts)) \subseteq Places(s)
      /\ \A k \in 1 .. Len(ts) : Passage(ts[k])
  BY CutApart
<1>3. "para" \in Separators
  BY DEF Separators, Blank
<1> HIDE DEF ts
<1>4. AllChained(ts, finer, Overlap)
  BY <1>2, LinesChained DEF AllChained
<1> HIDE DEF finer
<1>5. Chained(Collect(ts, "para", finer), PlacesOf(ts, 1, Len(ts)), Overlap)
  BY <1>2, <1>3, <1>4, CollectChained
<1>6. Chained(Collect(ts, "para", finer), Places(s), Overlap)
  BY <1>2, <1>5, ChainMore
<1> QED
  BY <1>1, <1>6, LinesChained, ChainNone

(***************************************************************************)
(* The chunks of a section that is too long.                               *)
(***************************************************************************)
\* The paragraphs of a section are passages without a common place.
LEMMA ParagraphsApart ==
  ASSUME NEW s, Passage(s)
  PROVE  LET ps == Paragraphs(s) IN
         /\ Apart(ps) /\ PlacesOf(ps, 1, Len(ps)) \subseteq Places(s)
         /\ \A k \in 1 .. Len(ps) : Passage(ps[k])
<1> DEFINE n == Len(s)
           cuts == Having(s, "para")
<1>1. n \in Nat /\ DOMAIN s = 1 .. n
  BY DEF Passage, Texts
<1>f. PICK f : ParagraphsRun(f, s)
  BY <1>1, ParagraphsLoop
<1>2. /\ f[0] = <<<<1, 0>>>> /\ Paragraphs(s) = PiecesOf(s, f[n])
      /\ \A k \in 1 .. n : f[k] = NextParagraph(s, k, f[k - 1])
  BY <1>f DEF ParagraphsRun, PiecesOf
<1> DEFINE S == {k \in 0 .. n : Pieces(f[k], k, cuts) /\ Open(f[k], k)}
<1>3. 0 \in S
  <2> DEFINE w == <<<<1, 0>>>>
  <2>1. /\ w \in Seq(Nat \X Nat) /\ Len(w) = 1 /\ w[1] = <<1, 0>> /\ 1 .. 1 = {1} /\ 1 .. 0 = {}
        /\ w[1][1] = 1 /\ w[1][2] = 0
    OBVIOUS
  <2> HIDE DEF w
  <2>2. Pieces(w, 0, cuts) /\ Open(w, 0)
    BY <2>1 DEF Pieces, Open
  <2> QED
    BY <1>1, <1>2, <2>2 DEF w
<1>4. ASSUME NEW k \in 1 .. n, k - 1 \in S PROVE k \in S
  <2> DEFINE w == f[k - 1]
  <2>1. k \in Nat \ {0} /\ k \in 0 .. n /\ Pieces(w, k - 1, cuts) /\ Open(w, k - 1)
    BY <1>1, <1>4
  <2>2. f[k] = NextParagraph(s, k, w)
    BY <1>2
  <2> HIDE DEF w
  <2>3. CASE s[k].kind = "para"
    <3>1. f[k] = Append(w, <<k + 1, k>>)
      BY <2>2, <2>3 DEF NextParagraph
    <3>2. k \in cuts
      BY <1>1, <2>3 DEF Having
    <3> HIDE DEF cuts
    <3>3. Pieces(Append(w, <<k + 1, k>>), k, cuts) /\ Open(Append(w, <<k + 1, k>>), k)
      BY <2>1, <3>2, PieceAdded
    <3> QED
      BY <2>1, <3>1, <3>3
  <2>4. CASE s[k].kind # "para"
    <3>1. f[k] = [w EXCEPT ![Len(w)] = <<@[1], k>>]
      BY <2>2, <2>4 DEF NextParagraph
    <3> HIDE DEF cuts
    <3>2. /\ Pieces([w EXCEPT ![Len(w)] = <<@[1], k>>], k, cuts)
          /\ Open([w EXCEPT ![Len(w)] = <<@[1], k>>], k)
      BY <2>1, PieceExtended
    <3> QED
      BY <2>1, <3>1, <3>2
  <2> QED
    BY <2>3, <2>4
<1>5. n \in S
  <2> HIDE DEF S
  <2>1. \A k \in 1 .. n : k - 1 \in S => k \in S
    BY <1>4
  <2>2. \A k \in 0 .. n : k \in S
    BY <1>1, <1>3, <2>1, InductTo
  <2> QED
    BY <1>1, <2>2
<1>6. Pieces(f[n], n, cuts)
  BY <1>5
<1> DEFINE w == f[n]
<1> HIDE DEF cuts, w
<1>7. /\ Apart(PiecesOf(s, w))
      /\ \A k \in 1 .. Len(PiecesOf(s, w)) : Passage(PiecesOf(s, w)[k])
      /\ PlacesOf(PiecesOf(s, w), 1, Len(PiecesOf(s, w))) \subseteq Places(s)
  BY <1>6, PiecesApart DEF w
<1> QED
  BY <1>2, <1>7 DEF w

Follow(ps) == Apart(ps) /\ \A k \in 1 .. Len(ps) : Passage(ps[k])

\* What holds of the loop of _split_oversized_markdown_section after n paragraphs.
Heaping(ps, st, n) ==
  /\ st = [out |-> st.out, first |-> st.first, size |-> st.size]
  /\ st.first \in 1 .. n + 1 /\ st.size \in Nat
  /\ Chained(st.out, PlacesOf(ps, 1, st.first - 1), Overlap)

\* A buffer has nothing in common with what was written before.
LEMMA BufferChained ==
  ASSUME NEW ps, Apart(ps), NEW a \in Nat, NEW b \in Nat, 1 <= a, b <= Len(ps),
         NEW out, Chained(out, PlacesOf(ps, 1, a - 1), Overlap), a <= b + 1
  PROVE  Chained(Append(out, Buffer(ps, a, b)), PlacesOf(ps, 1, b), Overlap)
<1> DEFINE t == Buffer(ps, a, b)
<1>0. ps \in Seq(Texts) /\ "para" \in Separators /\ Overlap \in Nat
  BY ChunkAssumption DEF Apart, Separators, Blank
<1>1. t \in Texts
  BY <1>0, BufferText
<1>2. Places(t) = PlacesOf(ps, a, b)
  <2>1. b \in Int
    OBVIOUS
  <2>2. Places(Join(SubSeq(ps, a, b), "para")) = PlacesOf(ps, a, b)
    BY <1>0, <2>1, PlacesJoin
  <2> QED
    BY <2>2 DEF Buffer
<1> HIDE DEF t
<1>3. Chained(<<t>>, PlacesOf(ps, a, b), Overlap)
  BY <1>1, <1>2, ChainOne
<1>4. PlacesOf(ps, 1, a - 1) \cap PlacesOf(ps, a, b) = {}
  <2>1. a - 1 < a /\ 1 <= 1 /\ a - 1 \in Int /\ b \in Int
    OBVIOUS
  <2> QED
    BY <2>1, ApartPlaces
<1>5. PlacesOf(ps, 1, a - 1) \cup PlacesOf(ps, a, b) = PlacesOf(ps, 1, b)
  BY PlacesOfSplit
<1>6. Chained(out \o <<t>>, PlacesOf(ps, 1, b), Overlap)
  BY <1>0, <1>3, <1>4, <1>5, ChainCat
<1>7. out \in Seq(Texts)
  BY DEF Chained, Linked
<1>8. Append(out, t) = out \o <<t>>
  BY <1>1, <1>7
<1> QED
  BY <1>6, <1>8 DEF t

\* Writing a full buffer keeps the chunks linked.
LEMMA FlushedHeaping ==
  ASSUME NEW ps, Follow(ps), NEW n \in 1 .. Len(ps), NEW st, Heaping(ps, st, n - 1)
  PROVE  /\ Heaping(ps, Flushed(ps, n, st), n - 1)
         /\ Length(ps[n]) > MaxChars => Flushed(ps, n, st).first = n
<1>0. Apart(ps) /\ Passage(ps[n])
  BY DEF Follow
<1>l. Len(ps) \in Nat
  BY <1>0 DEF Apart
<1>1. /\ Len(ps) \in Nat /\ n \in Nat \ {0} /\ n - 1 \in Nat /\ n - 1 <= Len(ps) /\ (n - 1) + 1 = n
      /\ Apart(ps) /\ Passage(ps[n])
  BY <1>0, <1>l
<1>2. st.first \in Nat /\ 1 <= st.first /\ st.first <= n /\ st.size \in Nat
  BY <1>1 DEF Heaping
<1>3. Length(ps[n]) \in Nat /\ MaxChars \in Nat
  <2>1. Len(ps[n]) \in Nat
    BY <1>1 DEF Passage, Texts
  <2> QED
    BY <2>1, LengthNat, ChunkAssumption
<1>4. CASE Full(st.first < n, st.size, Length(ps[n]) + 2)
  <2> DEFINE out == Append(st.out, Buffer(ps, st.first, n - 1))
             new == Flushed(ps, n, st)
  <2>1. new = [out |-> out, first |-> n, size |-> 0]
    BY <1>4 DEF Flushed
  <2>2. Chained(out, PlacesOf(ps, 1, n - 1), Overlap)
    <3>1. Chained(st.out, PlacesOf(ps, 1, st.first - 1), Overlap) /\ st.first <= (n - 1) + 1
      BY <1>1, <1>2 DEF Heaping
    <3> QED
      BY <1>1, <1>2, <3>1, BufferChained
  <2> HIDE DEF out, new
  <2>3. new.out = out /\ new.first = n /\ new.size = 0
    BY <2>1
  <2>4. new = [out |-> new.out, first |-> new.first, size |-> new.size]
    BY <2>1, <2>3
  <2>5. n \in 1 .. (n - 1) + 1
    BY <1>1
  <2> QED
    BY <2>2, <2>3, <2>4, <2>5 DEF Heaping, new
<1>5. CASE ~Full(st.first < n, st.size, Length(ps[n]) + 2)
  <2>1. Flushed(ps, n, st) = st
    BY <1>5 DEF Flushed
  <2>2. Length(ps[n]) > MaxChars => ~(st.first < n)
    <3>1. Length(ps[n]) > MaxChars => st.size + (Length(ps[n]) + 2) > MaxChars
      BY <1>2, <1>3
    <3> QED
      BY <1>5, <3>1 DEF Full
  <2> QED
    BY <1>2, <2>1, <2>2
<1> QED
  BY <1>4, <1>5

\* So does taking a paragraph.
LEMMA BufferedHeaping ==
  ASSUME NEW ps, Follow(ps), NEW n \in 1 .. Len(ps), NEW st, Heaping(ps, st, n - 1),
         Length(ps[n]) > MaxChars => st.first = n
  PROVE  Heaping(ps, Buffered(ps, n, st), n)
<1>0. Apart(ps) /\ Passage(ps[n])
  BY DEF Follow
<1>l. Len(ps) \in Nat
  BY <1>0 DEF Apart
<1>1. /\ Len(ps) \in Nat /\ n \in Nat \ {0} /\ n - 1 \in Nat /\ (n - 1) + 1 = n
      /\ (n + 1) - 1 = n /\ n + 1 \in 1 .. n + 1
      /\ Apart(ps) /\ Passage(ps[n])
  BY <1>0, <1>l
<1>2. /\ st.first \in Nat /\ 1 <= st.first /\ st.first <= n /\ st.size \in Nat
      /\ Chained(st.out, PlacesOf(ps, 1, st.first - 1), Overlap)
      /\ st = [out |-> st.out, first |-> st.first, size |-> st.size]
  BY <1>1 DEF Heaping
<1>3. Length(ps[n]) \in Nat
  <2>1. Len(ps[n]) \in Nat
    BY <1>1 DEF Passage, Texts
  <2> QED
    BY <2>1, LengthNat
<1> DEFINE new == Buffered(ps, n, st)
<1>4. CASE Length(ps[n]) > MaxChars
  <2> DEFINE out == st.out \o ChunkText(ps[n])
  <2>1. new = [out |-> out, first |-> n + 1, size |-> 0]
    BY <1>4 DEF Buffered
  <2>2. Chained(st.out, PlacesOf(ps, 1, n - 1), Overlap)
    BY <1>2, <1>4
  <2>3. Chained(ChunkText(ps[n]), PlacesOf(ps, n, n), Overlap)
    BY <1>1, TextChained, PlacesOfOne
  <2>4. PlacesOf(ps, 1, n - 1) \cap PlacesOf(ps, n, n) = {}
    <3>1. n - 1 < n /\ 1 <= 1 /\ 1 \in Nat /\ n - 1 \in Int /\ n \in Int /\ n \in Nat /\ n <= Len(ps)
      BY <1>1
    <3> QED
      BY <1>1, <3>1, ApartPlaces
  <2>5. PlacesOf(ps, 1, n) = PlacesOf(ps, 1, n - 1) \cup PlacesOf(ps, n, n)
    <3>1. n \in Nat /\ n <= n + 1 /\ 1 <= n
      BY <1>1
    <3> QED
      BY <3>1, PlacesOfSplit
  <2>6. Chained(out, PlacesOf(ps, 1, n), Overlap)
    <3>1. Overlap \in Nat
      BY ChunkAssumption
    <3> QED
      BY <2>2, <2>3, <2>4, <2>5, <3>1, ChainCat
  <2> HIDE DEF new, out
  <2>7. new.out = out /\ new.first = n + 1 /\ new.size = 0
    BY <1>1, <2>1
  <2>8. new = [out |-> new.out, first |-> new.first, size |-> new.size]
    BY <2>1, <2>7
  <2>9. new.first - 1 = n /\ new.first \in 1 .. n + 1 /\ new.size \in Nat
    BY <1>1, <2>7
  <2>10. Chained(new.out, PlacesOf(ps, 1, new.first - 1), Overlap)
    BY <2>6, <2>7, <2>9
  <2> QED
    BY <2>8, <2>9, <2>10 DEF Heaping, new
<1>5. CASE ~(Length(ps[n]) > MaxChars)
  <2> DEFINE size == st.size + Length(ps[n]) + (IF st.size > 0 THEN 2 ELSE 0)
  <2>1. new = [st EXCEPT !.size = size]
    BY <1>5 DEF Buffered
  <2>2. size \in Nat
    BY <1>2, <1>3
  <2> HIDE DEF new, size
  <2>3. new = [out |-> st.out, first |-> st.first, size |-> size]
    BY <1>2, <2>1
  <2>4. new.out = st.out /\ new.first = st.first /\ new.size = size
    BY <2>3
  <2>5. st.first \in 1 .. n + 1
    BY <1>1, <1>2
  <2> QED
    BY <1>2, <2>2, <2>3, <2>4, <2>5 DEF Heaping, new
<1> QED
  BY <1>4, <1>5

\* A text of which m characters may be in two chunks: none, if it is short enough.
Limited(s, m) == m = Overlap \/ (m = 0 /\ Length(s) <= MaxChars)

\* The chunks of _split_oversized_markdown_section are linked.
LEMMA OversizedChained ==
  ASSUME NEW s, Passage(s), NEW m, Limited(s, m)
  PROVE  Chained(SplitOversized(s), Places(s), m)
<1> DEFINE ps == Paragraphs(s)
           n == Len(ps)
<1>1. Follow(ps) /\ Apart(ps) /\ PlacesOf(ps, 1, n) \subseteq Places(s)
  BY ParagraphsApart DEF Follow
<1>2. n \in Nat
  BY <1>1 DEF Apart
<1>f. PICK f : SplitOversizedRun(f, s)
  BY <1>2, SplitOversizedLoop
<1>3. /\ f[0] = [out |-> <<>>, first |-> 1, size |-> 0]
      /\ \A k \in 1 .. n : f[k] = AddParagraph(ps, k, f[k - 1])
      /\ SplitOversized(s) =
           IF Length(s) <= MaxChars THEN <<s>>
           ELSE IF f[n].first > n THEN f[n].out
           ELSE Append(f[n].out, Buffer(ps, f[n].first, n))
  BY <1>f DEF SplitOversizedRun
<1>w. Chained(<<s>>, Places(s), m)
  BY ChainOne DEF Passage
<1> HIDE DEF ps, n
<1> DEFINE S == {k \in 0 .. n : Heaping(ps, f[k], k)}
<1>4. 0 \in S
  <2>1. f[0].out = <<>> /\ f[0].first = 1 /\ f[0].size = 0 /\ 1 \in 1 .. 0 + 1
    BY <1>3
  <2>2. Heaping(ps, f[0], 0)
    BY <1>3, <2>1, ChainNone DEF Heaping
  <2> QED
    BY <1>2, <2>2
<1>5. ASSUME NEW k \in 1 .. n, k - 1 \in S PROVE k \in S
  <2> DEFINE st == Flushed(ps, k, f[k - 1])
  <2>1. Heaping(ps, f[k - 1], k - 1) /\ k \in 1 .. Len(ps) /\ k \in 0 .. n
    BY <1>2, <1>5 DEF n
  <2>2. Heaping(ps, st, k - 1) /\ (Length(ps[k]) > MaxChars => st.first = k)
    BY <1>1, <2>1, FlushedHeaping
  <2>3. f[k] = Buffered(ps, k, st)
    BY <1>3 DEF AddParagraph
  <2> HIDE DEF st
  <2>4. Heaping(ps, Buffered(ps, k, st), k)
    BY <1>1, <2>1, <2>2, BufferedHeaping
  <2> QED
    BY <2>1, <2>3, <2>4
<1>6. n \in S
  <2> HIDE DEF S
  <2>1. \A k \in 1 .. n : k - 1 \in S => k \in S
    BY <1>5
  <2>2. \A k \in 0 .. n : k \in S
    BY <1>2, <1>4, <2>1, InductTo
  <2> QED
    BY <1>2, <2>2
<1> DEFINE a == f[n].first
           out == f[n].out
<1>7. a \in Nat /\ 1 <= a /\ a <= n + 1 /\ Chained(out, PlacesOf(ps, 1, a - 1), Overlap)
  BY <1>2, <1>6 DEF Heaping
<1> HIDE DEF a, out
<1>8. Chained(Append(out, Buffer(ps, a, n)), PlacesOf(ps, 1, n), Overlap)
  <2>1. n <= Len(ps)
    BY <1>2 DEF n
  <2> QED
    BY <1>1, <1>2, <1>7, <2>1, BufferChained
<1>9. a > n => Chained(out, PlacesOf(ps, 1, n), Overlap)
  <2> HAVE a > n
  <2>1. a - 1 = n
    BY <1>2, <1>7
  <2> QED
    BY <1>7, <2>1
<1>10. /\ Chained(Append(out, Buffer(ps, a, n)), Places(s), Overlap)
       /\ a > n => Chained(out, Places(s), Overlap)
  BY <1>1, <1>8, <1>9, ChainMore
<1> QED
  BY <1>3, <1>10, <1>w DEF a, out, Limited

(***************************************************************************)
(* The chunks of Markdown.                                                 *)
(***************************************************************************)
\* Stripped, texts without a common place still have none.
LEMMA StrippedApart ==
  ASSUME NEW ts, Apart(ts), NEW P, \A k \in 1 .. Len(ts) : Places(ts[k]) \subseteq P
  PROVE  /\ Apart(Stripped(ts))
         /\ \A k \in 1 .. Len(Stripped(ts)) : Places(Stripped(ts)[k]) \subseteq P
<1> DEFINE g == Stripped(ts)
           n == Len(ts)
<1>1. ts \in Seq(Texts)
  BY DEF Apart
<1>2. Kept(g, ts, n)
  BY <1>1, StrippedKept
<1>3. \A k \in 1 .. n : Places(Strip(ts[k])) \subseteq Places(ts[k])
  <2>1. \A k \in 1 .. n : ts[k] \in Texts
    BY <1>1
  <2> QED
    BY <2>1, WithinStrip
<1> HIDE DEF g
<1>4. \A j \in 1 .. Len(g) : Places(g[j]) \subseteq P
  <2> TAKE j \in 1 .. Len(g)
  <2>1. PICK x \in 1 .. n : g[j] = Strip(ts[x])
    BY <1>2 DEF Kept
  <2> QED
    BY <1>3, <2>1
<1>5. \A i, j \in 1 .. Len(g) : i < j => Places(g[i]) \cap Places(g[j]) = {}
  <2> TAKE i, j \in 1 .. Len(g)
  <2> HAVE i < j
  <2>1. PICK x \in 1 .. n, y \in 1 .. n : x < y /\ g[i] = Strip(ts[x]) /\ g[j] = Strip(ts[y])
    BY <1>2 DEF Kept
  <2>2. Places(ts[x]) \cap Places(ts[y]) = {}
    BY <2>1 DEF Apart
  <2> QED
    BY <1>3, <2>1, <2>2
<1>6. Apart(g)
  BY <1>2, <1>5 DEF Apart, Kept
<1> QED
  BY <1>4, <1>6 DEF g

\* The sections of a document are passages without a common place.
LEMMA SectionsApart ==
  ASSUME NEW s, Passage(s)
  PROVE  LET ps == Sections(s) IN
         /\ Apart(ps) /\ PlacesOf(ps, 1, Len(ps)) \subseteq Places(s)
         /\ \A k \in 1 .. Len(ps) : Passage(ps[k])
<1> DEFINE cuts == {i - 1 : i \in Headers(s) \ {1}}
           ts == CutAt(s, cuts)
           ps == Sections(s)
<1>1. Apart(ts) /\ \A k \in 1 .. Len(ts) : Places(ts[k]) \subseteq Places(s)
  BY CutApart
<1>2. ps = Stripped(ts)
  BY DEF Sections
<1>3. \A k \in 1 .. Len(ps) : Passage(ps[k])
  BY SectionsParted DEF Parted
<1> HIDE DEF ts, ps, cuts
<1>4. Apart(ps) /\ \A k \in 1 .. Len(ps) : Places(ps[k]) \subseteq Places(s)
  BY <1>1, <1>2, StrippedApart
<1>5. PlacesOf(ps, 1, Len(ps)) \subseteq Places(s)
  BY <1>4 DEF PlacesOf
<1> QED
  BY <1>3, <1>4, <1>5 DEF ps

\* Of parts without a common place, the chunks of all one behind the other.
LEMMA ConcatChained ==
  ASSUME NEW m \in Nat, NEW parts, Apart(parts), NEW lists, AllChained(parts, lists, m),
         Len(lists) = Len(parts)
  PROVE  Chained(Concat(lists), PlacesOf(parts, 1, Len(parts)), m)
<1> DEFINE n == Len(parts)
<1>1. n \in Nat
  BY DEF Apart
<1>f. PICK f : ConcatRun(f, lists)
  BY <1>1, ConcatLoop
<1>2. f[0] = <<>> /\ Concat(lists) = f[n] /\ \A k \in 1 .. n : f[k] = f[k - 1] \o lists[k]
  BY <1>f DEF ConcatRun
<1> DEFINE S == {k \in 0 .. n : Chained(f[k], PlacesOf(parts, 1, k), m)}
<1>3. 0 \in S
  BY <1>1, <1>2, ChainNone
<1>4. ASSUME NEW k \in 1 .. n, k - 1 \in S PROVE k \in S
  <2>1. k \in 0 .. n /\ k \in Nat /\ k - 1 \in Int /\ k - 1 < k /\ 1 <= k /\ k <= k + 1 /\ k <= Len(parts)
    BY <1>1
  <2>2. Chained(f[k - 1], PlacesOf(parts, 1, k - 1), m) /\ Chained(lists[k], PlacesOf(parts, k, k), m)
    BY <1>4, <2>1, PlacesOfOne DEF AllChained
  <2>3. PlacesOf(parts, 1, k - 1) \cap PlacesOf(parts, k, k) = {}
    <3>1. 1 <= 1 /\ 1 \in Nat /\ k \in Int
      BY <2>1
    <3> QED
      BY <2>1, <3>1, ApartPlaces
  <2>4. PlacesOf(parts, 1, k) = PlacesOf(parts, 1, k - 1) \cup PlacesOf(parts, k, k)
    BY <2>1, PlacesOfSplit
  <2>5. Chained(f[k - 1] \o lists[k], PlacesOf(parts, 1, k), m)
    BY <2>2, <2>3, <2>4, ChainCat
  <2> QED
    BY <1>2, <2>1, <2>5
<1>5. n \in S
  <2> HIDE DEF S
  <2>1. \A k \in 1 .. n : k - 1 \in S => k \in S
    BY <1>4
  <2>2. \A k \in 0 .. n : k \in S
    BY <1>1, <1>3, <2>1, InductTo
  <2> QED
    BY <1>1, <2>2
<1> QED
  BY <1>2, <1>5

\* The limit is a number.
LEMMA LimitedNat ==
  ASSUME NEW s, NEW m, Limited(s, m)
  PROVE  m \in Nat
BY ChunkAssumption DEF Limited

\* Any two chunks of chunk_markdown share little.
LEMMA MarkdownShares ==
  ASSUME NEW s, Passage(s), NEW m, Limited(s, m)
  PROVE  Sharing(ChunkMarkdown(s), m)
<1> DEFINE parts == Sections(s)
           lists == [k \in DOMAIN parts |-> SplitOversized(parts[k])]
<1>0. m \in Nat
  BY LimitedNat
<1>1. Apart(parts) /\ \A k \in 1 .. Len(parts) : Passage(parts[k])
  BY SectionsApart
<1>2. ChunkMarkdown(s) = MergeSplits(Concat(lists), "para", 0)
  BY DEF ChunkMarkdown
<1>3. \A k \in 1 .. Len(parts) : Limited(parts[k], m)
  <2> TAKE k \in 1 .. Len(parts)
  <2> DEFINE t == parts[k]
  <2>1. Length(t) <= Length(s) /\ Length(t) \in Nat /\ Length(s) \in Nat
    BY SectionsShort
  <2>2. MaxChars \in Nat
    BY ChunkAssumption
  <2> HIDE DEF t
  <2>3. Limited(t, m)
    BY <2>1, <2>2 DEF Limited
  <2> QED
    BY <2>3 DEF t
<1> HIDE DEF parts
<1>4. DOMAIN parts = 1 .. Len(parts) /\ Len(parts) \in Nat
  BY <1>1 DEF Apart
<1>5. \A k \in 1 .. Len(parts) : Chained(SplitOversized(parts[k]), Places(parts[k]), m)
  BY <1>1, <1>3, OversizedChained
<1>6. AllChained(parts, lists, m)
  BY <1>4, <1>5 DEF AllChained
<1>7. Len(lists) = Len(parts)
  BY <1>4
<1> HIDE DEF lists
<1>8. Chained(Concat(lists), PlacesOf(parts, 1, Len(parts)), m)
  BY <1>0, <1>1, <1>6, <1>7, ConcatChained
<1>9. Linked(Concat(lists), m)
  BY <1>8 DEF Chained
<1> DEFINE all == Concat(lists)
<1> HIDE DEF all
<1>10. Sharing(MergeSplits(all, "para", 0), m)
  BY <1>0, <1>9, PackShares DEF all
<1> QED
  BY <1>2, <1>10 DEF all

(***************************************************************************)
(* The chunks of Python: what lies behind one line up to the end of        *)
(* another.                                                                *)
(***************************************************************************)
LineEnd(s, k) == IF k = 0 THEN 0 ELSE Lines(s)[k][2]

Onward(s, a, b) == {s[i].at : i \in LineEnd(s, a) + 1 .. LineEnd(s, b)}

\* A line ends behind the one before, and begins behind its end.
LEMMA LineEnds ==
  ASSUME NEW s, Passage(s)
  PROVE  /\ \A k \in 0 .. Len(Lines(s)) : LineEnd(s, k) \in Nat /\ LineEnd(s, k) <= Len(s)
         /\ \A j, k \in 0 .. Len(Lines(s)) : j <= k => LineEnd(s, j) <= LineEnd(s, k)
         /\ \A k \in 1 .. Len(Lines(s)) :
              /\ Lines(s)[k][1] \in Nat /\ 1 <= Lines(s)[k][1]
              /\ LineEnd(s, k - 1) + 1 <= Lines(s)[k][1] /\ LineEnd(s, k) = Lines(s)[k][2]
         /\ Len(s) \in Nat /\ Len(Lines(s)) \in Nat
<1> DEFINE cuts == Having(s, "line") \cup Having(s, "para")
           w == Lines(s)
           m == Len(w)
           End(k) == LineEnd(s, k)
<1>1. s \in Texts /\ Len(s) \in Nat
  BY DEF Passage, Texts
<1>2. Pieces(w, Len(s), cuts) /\ Nonempty(w)
  BY <1>1, SpansPieces DEF Lines
<1>3. m \in Nat
  BY <1>2 DEF Pieces
<1>4. \A k \in 1 .. m : /\ w[k][1] \in Nat /\ w[k][2] \in Nat /\ 1 <= w[k][1]
                        /\ w[k][2] <= Len(s) /\ w[k][1] <= w[k][2]
  BY <1>1, <1>2, PieceIs DEF Nonempty
<1>5. \A j, k \in 1 .. m : j < k => w[j][2] < w[k][1]
  BY <1>2 DEF Pieces
<1>6. End(0) = 0 /\ \A k \in 1 .. m : End(k) = w[k][2]
  BY DEF LineEnd
<1> HIDE DEF w, m, cuts, End
<1>7. \A k \in 0 .. m : k = 0 \/ k \in 1 .. m
  BY <1>3
<1>8. \A k \in 0 .. m : End(k) \in Nat /\ End(k) <= Len(s)
  BY <1>1, <1>4, <1>6, <1>7
<1>9. ASSUME NEW j \in 0 .. m, NEW k \in 0 .. m, j <= k PROVE End(j) <= End(k)
  <2>1. CASE j = 0
    BY <1>6, <1>8, <2>1
  <2>2. CASE j = k
    BY <1>8, <2>2
  <2>3. CASE j # 0 /\ j # k
    <3>1. j \in 1 .. m /\ k \in 1 .. m /\ j < k
      BY <1>3, <1>9, <2>3
    <3>2. w[j][2] < w[k][1] /\ w[k][1] <= w[k][2]
      BY <1>4, <1>5, <3>1
    <3>3. w[j][2] \in Nat /\ w[k][1] \in Nat /\ w[k][2] \in Nat /\ End(j) = w[j][2] /\ End(k) = w[k][2]
      BY <1>4, <1>6, <3>1
    <3> QED
      BY <3>2, <3>3
  <2> QED
    BY <2>1, <2>2, <2>3
<1>10. ASSUME NEW k \in 1 .. m PROVE End(k - 1) + 1 <= w[k][1]
  <2>1. CASE k = 1
    <3>1. k - 1 = 0 /\ End(k - 1) = 0
      BY <1>6, <2>1
    <3> QED
      BY <1>4, <3>1
  <2>2. CASE k # 1
    <3>1. k - 1 \in 1 .. m /\ k - 1 < k
      BY <1>3, <2>2
    <3>2. End(k - 1) = w[k - 1][2] /\ w[k - 1][2] < w[k][1] /\ w[k - 1][2] \in Nat /\ w[k][1] \in Nat
      BY <1>4, <1>5, <1>6, <3>1
    <3> QED
      BY <3>2
  <2> QED
    BY <2>1, <2>2
<1> QED
  BY <1>1, <1>3, <1>4, <1>6, <1>8, <1>9, <1>10 DEF w, m, End

\* What lies behind line a up to the end of c, cut at the end of line b.
LEMMA LinesSplit ==
  ASSUME NEW s, Passage(s), NEW a \in Nat, NEW b \in Nat, NEW c \in Nat,
         a <= b, b <= c, c <= Len(Lines(s))
  PROVE  /\ Onward(s, a, b) \cup Onward(s, b, c) = Onward(s, a, c)
         /\ Onward(s, a, b) \cap Onward(s, b, c) = {}
<1> DEFINE x == LineEnd(s, a)
           y == LineEnd(s, b)
           z == LineEnd(s, c)
<1>1. Len(Lines(s)) \in Nat /\ Len(s) \in Nat
  BY LineEnds
<1>2. a \in 0 .. Len(Lines(s)) /\ b \in 0 .. Len(Lines(s)) /\ c \in 0 .. Len(Lines(s))
  BY <1>1
<1>3. x \in Nat /\ y \in Nat /\ z \in Nat /\ x <= y /\ y <= z /\ z <= Len(s)
  BY <1>2, LineEnds
<1> HIDE DEF x, y, z
<1>4. x + 1 .. z = (x + 1 .. y) \cup (y + 1 .. z)
  BY <1>3
<1>5. ASSUME NEW i \in x + 1 .. y, NEW j \in y + 1 .. z PROVE s[i].at # s[j].at
  <2>1. i \in 1 .. Len(s) /\ j \in 1 .. Len(s) /\ i < j
    BY <1>1, <1>3
  <2>2. s[i].at < s[j].at /\ s[i].at \in Nat /\ s[j].at \in Nat
    BY <2>1, InkyOf DEF Passage
  <2> QED
    BY <2>2
<1>6. {s[i].at : i \in x + 1 .. y} \cup {s[i].at : i \in y + 1 .. z} = {s[i].at : i \in x + 1 .. z}
  BY <1>4
<1>7. {s[i].at : i \in x + 1 .. y} \cap {s[i].at : i \in y + 1 .. z} = {}
  BY <1>5
<1> QED
  BY <1>6, <1>7 DEF Onward, x, y, z

\* The places and the length of the text from one line to another.
LEMMA SpanPlaces ==
  ASSUME NEW s, Passage(s), NEW a \in Nat, NEW b \in Nat, 1 <= a, a <= b + 1, b <= Len(Lines(s))
  PROVE  /\ Places(Span(s, a, b)) \subseteq Onward(s, a - 1, b)
         /\ Length(Span(s, a, b)) <= Length(s)
         /\ Length(Span(s, a, b)) \in Nat /\ Length(s) \in Nat
<1>0. s \in Texts /\ Length(s) \in Nat
  BY LengthSum DEF Passage
<1>1. CASE a > b
  <2>1. Span(s, a, b) = <<>>
    BY <1>1 DEF Span
  <2>2. Places(<<>>) = {} /\ Length(<<>>) = 0
    BY LengthZero DEF Places
  <2> QED
    BY <1>0, <2>1, <2>2
<1>2. CASE a <= b
  <2> DEFINE x == Lines(s)[a][1]
             y == Lines(s)[b][2]
             e == LineEnd(s, a - 1)
             t == SubSeq(s, x, y)
  <2>1. a \in 1 .. Len(Lines(s)) /\ b \in 1 .. Len(Lines(s)) /\ Len(Lines(s)) \in Nat
    BY <1>2, LineEnds
  <2>2. a - 1 \in 0 .. Len(Lines(s)) /\ b \in 0 .. Len(Lines(s))
    BY <2>1
  <2>3. /\ x \in Nat /\ y \in Nat /\ 1 <= x /\ y <= Len(s)
        /\ e \in Nat /\ e + 1 <= x /\ y = LineEnd(s, b)
    BY <2>1, <2>2, LineEnds
  <2>4. Span(s, a, b) = Strip(t)
    BY <1>2 DEF Span
  <2> HIDE DEF x, y, e
  <2>5. t \in Texts /\ Places(t) = {s[i].at : i \in x .. y} \ {0}
    BY <1>0, <2>3, PlacesSub
  <2>6. Length(t) \in Nat /\ Length(t) <= Length(s)
    BY <1>0, <2>3, PartIsShorter
  <2> HIDE DEF t
  <2>7. Places(Strip(t)) \subseteq Places(t)
    BY <2>5, WithinStrip
  <2>8. Length(Strip(t)) <= Length(t) /\ Length(Strip(t)) \in Nat
    BY <2>5, BehindNothing, StripBehind
  <2>9. \A i \in x .. y : i \in e + 1 .. y
    BY <2>3
  <2>10. Places(t) \subseteq Onward(s, a - 1, b)
    BY <2>3, <2>5, <2>9 DEF Onward, e
  <2> QED
    BY <1>0, <2>4, <2>6, <2>7, <2>8, <2>10
<1> QED
  BY <1>1, <1>2

\* A text without words has no chunks.
LEMMA NoWords ==
  ASSUME NEW s \in Texts, Ink(s) = {}
  PROVE  ChunkText(s) = <<>>
<1>1. Inky(s) = {}
  BY DEF Ink
<1>2. Strip(s) = <<>>
  BY <1>1, StripIs
<1> QED
  BY <1>2 DEF ChunkText

\* The chunks of a segment are linked.
LEMMA EmitChained ==
  ASSUME NEW s, Passage(s), NEW m, Limited(s, m)
  PROVE  Chained(Emit(s), Places(s), m)
<1>1. Chained(<<s>>, Places(s), m)
  BY ChainOne DEF Passage
<1>2. m = Overlap => Chained(ChunkText(s), Places(s), m)
  BY TextChained
<1>3. s = <<>> => Chained(ChunkText(s), Places(s), m)
  BY EmptyInk, NoWords, ChainNone
<1> QED
  BY <1>1, <1>2, <1>3 DEF Emit, Limited

\* The same, of the text from one line to another.
LEMMA EmitSpan ==
  ASSUME NEW s, Passage(s), NEW m, Limited(s, m), NEW a \in Nat, NEW b \in Nat,
         1 <= a, a <= b + 1, b <= Len(Lines(s))
  PROVE  Chained(Emit(Span(s, a, b)), Onward(s, a - 1, b), m)
<1> DEFINE t == Span(s, a, b)
<1>1. /\ Places(t) \subseteq Onward(s, a - 1, b)
      /\ Length(t) <= Length(s) /\ Length(t) \in Nat /\ Length(s) \in Nat
  BY SpanPlaces
<1>2. Passage(t)
  BY SpanKeeps
<1>3. MaxChars \in Nat
  BY ChunkAssumption
<1> HIDE DEF t
<1>4. Limited(t, m)
  BY <1>1, <1>3 DEF Limited
<1>5. Chained(Emit(t), Places(t), m)
  BY <1>2, <1>4, EmitChained
<1>6. Chained(Emit(t), Onward(s, a - 1, b), m)
  BY <1>1, <1>5, ChainMore
<1> QED
  BY <1>6 DEF t

(***************************************************************************)
(* The chunks of a document share little.                                  *)
(***************************************************************************)
\* The chunks of a node and of the text before it are linked,
LEMMA EmitNodeChained ==
  ASSUME NEW s, Passage(s), NEW m, Limited(s, m), NEW nodes, Nodes(s, nodes), NEW k \in 1 .. Len(nodes)
  PROVE  Chained(EmitNode(s, nodes, k), Onward(s, PrevEnd(nodes, k), nodes[k].last), m)
<1> DEFINE p == PrevEnd(nodes, k)
           f == FirstLine(nodes, k)
           l == nodes[k].last
<1>0. m \in Nat
  BY LimitedNat
<1>1. Len(nodes) \in Nat /\ DOMAIN nodes = 1 .. Len(nodes)
  BY DEF Nodes
<1>2. p \in Nat /\ nodes[k].first \in Nat /\ l \in Nat
  <2>1. k \in 1 .. Len(nodes) + 1
    BY <1>1
  <2> QED
    BY <2>1, PrevEndIs
<1>3. p <= nodes[k].first /\ nodes[k].first <= l /\ l <= Len(Lines(s))
  BY <1>1 DEF Nodes
<1>4. f = IF nodes[k].first > p THEN nodes[k].first ELSE p + 1
  BY DEF FirstLine
<1> HIDE DEF p, f, l
<1>5. /\ f \in Nat /\ p + 1 <= f /\ f <= l + 1 /\ f - 1 \in Nat /\ p + 1 \in Nat /\ 1 <= p + 1 /\ 1 <= f
      /\ p <= f - 1 /\ f - 1 <= l /\ (p + 1) - 1 = p /\ p + 1 <= (f - 1) + 1
  BY <1>2, <1>3, <1>4
<1>6. f - 1 <= Len(Lines(s))
  <2>1. Len(Lines(s)) \in Nat
    BY LinesParted
  <2> QED
    BY <1>2, <1>3, <1>5, <2>1
<1>7. Chained(Emit(Span(s, p + 1, f - 1)), Onward(s, p, f - 1), m)
  <2> DEFINE a == p + 1
             b == f - 1
  <2>1. a \in Nat /\ b \in Nat /\ 1 <= a /\ a <= b + 1 /\ b <= Len(Lines(s)) /\ a - 1 = p
    BY <1>5, <1>6
  <2> HIDE DEF a, b
  <2>2. Chained(Emit(Span(s, a, b)), Onward(s, a - 1, b), m)
    BY <2>1, EmitSpan
  <2>3. Chained(Emit(Span(s, a, b)), Onward(s, p, b), m)
    BY <2>1, <2>2
  <2> QED
    BY <2>3 DEF a, b
<1>8. Chained(Emit(Span(s, f, l)), Onward(s, f - 1, l), m)
  BY <1>2, <1>3, <1>5, EmitSpan
<1>9. /\ Onward(s, p, f - 1) \cup Onward(s, f - 1, l) = Onward(s, p, l)
      /\ Onward(s, p, f - 1) \cap Onward(s, f - 1, l) = {}
  BY <1>2, <1>3, <1>5, LinesSplit
<1>10. Chained(Emit(Span(s, p + 1, f - 1)) \o Emit(Span(s, f, l)), Onward(s, p, l), m)
  BY <1>0, <1>7, <1>8, <1>9, ChainCat
<1> QED
  BY <1>10 DEF EmitNode, p, f, l

\* and so are those of all nodes.
LEMMA NodesChained ==
  ASSUME NEW s, Passage(s), NEW m, Limited(s, m), NEW nodes, Nodes(s, nodes)
  PROVE  Chained(Concat([k \in DOMAIN nodes |-> EmitNode(s, nodes, k)]),
                 Onward(s, 0, PrevEnd(nodes, Len(nodes) + 1)), m)
<1> DEFINE n == Len(nodes)
           lists == [k \in DOMAIN nodes |-> EmitNode(s, nodes, k)]
           End(k) == PrevEnd(nodes, k + 1)
<1>0. m \in Nat
  BY LimitedNat
<1>1. n \in Nat /\ DOMAIN nodes = 1 .. n
  BY DEF Nodes
<1>2. /\ End(0) = 0 /\ \A k \in 1 .. n : End(k) = nodes[k].last
      /\ \A k \in 0 .. n : End(k) \in Nat /\ End(k) <= Len(Lines(s))
  <2>1. \A k \in 0 .. n : k + 1 \in 1 .. n + 1
    BY <1>1
  <2>2. 0 + 1 = 1
    OBVIOUS
  <2> QED
    BY <2>1, <2>2, PrevEndIs
<1>3. \A k \in 1 .. n : Chained(lists[k], Onward(s, End(k - 1), End(k)), m)
  <2> TAKE k \in 1 .. n
  <2>1. End(k - 1) = PrevEnd(nodes, k) /\ End(k) = nodes[k].last
    <3>1. (k - 1) + 1 = k
      BY <1>1
    <3> QED
      BY <1>2, <3>1
  <2>2. lists[k] = EmitNode(s, nodes, k)
    BY <1>1
  <2> HIDE DEF lists, End
  <2> QED
    BY <2>1, <2>2, EmitNodeChained
<1>4. Len(lists) = n
  BY <1>1
<1>f. PICK f : ConcatRun(f, lists)
  BY <1>1, <1>4, ConcatLoop
<1>5. f[0] = <<>> /\ Concat(lists) = f[n] /\ \A k \in 1 .. n : f[k] = f[k - 1] \o lists[k]
  BY <1>4, <1>f DEF ConcatRun
<1>6. \A k \in 1 .. n : End(k - 1) <= End(k)
  <2> TAKE k \in 1 .. n
  <2>1. (k - 1) + 1 = k
    BY <1>1
  <2>2. PrevEnd(nodes, k) <= nodes[k].first /\ nodes[k].first <= nodes[k].last
    BY <1>1 DEF Nodes
  <2>3. k - 1 \in 0 .. n /\ k \in 0 .. n
    BY <1>1
  <2>4. nodes[k].first \in Nat
    BY PrevEndIs
  <2>5. End(k - 1) \in Nat /\ End(k) \in Nat /\ End(k) = nodes[k].last
    BY <1>2, <2>3
  <2>6. End(k - 1) = PrevEnd(nodes, k)
    BY <2>1
  <2> HIDE DEF End
  <2> QED
    BY <2>2, <2>4, <2>5, <2>6
<1> HIDE DEF n, lists, End
<1> DEFINE S == {k \in 0 .. n : Chained(f[k], Onward(s, 0, End(k)), m)}
<1>7. 0 \in S
  BY <1>1, <1>5, ChainNone
<1>8. ASSUME NEW k \in 1 .. n, k - 1 \in S PROVE k \in S
  <2> DEFINE a == End(k - 1)
             b == End(k)
  <2>1. /\ k - 1 \in 0 .. n /\ k \in 0 .. n /\ Chained(f[k - 1], Onward(s, 0, a), m)
        /\ a \in Nat /\ b \in Nat /\ 0 \in Nat /\ 0 <= a /\ a <= b /\ b <= Len(Lines(s))
    BY <1>1, <1>2, <1>6, <1>8
  <2>2. Chained(lists[k], Onward(s, a, b), m)
    BY <1>3
  <2>3. f[k] = f[k - 1] \o lists[k]
    BY <1>5
  <2> HIDE DEF a, b
  <2>4. /\ Onward(s, 0, a) \cup Onward(s, a, b) = Onward(s, 0, b)
        /\ Onward(s, 0, a) \cap Onward(s, a, b) = {}
    BY <2>1, LinesSplit
  <2>5. Chained(f[k - 1] \o lists[k], Onward(s, 0, b), m)
    BY <1>0, <2>1, <2>2, <2>4, ChainCat
  <2> QED
    BY <2>1, <2>3, <2>5 DEF b
<1>9. n \in S
  <2> HIDE DEF S
  <2>1. \A k \in 1 .. n : k - 1 \in S => k \in S
    BY <1>8
  <2>2. \A k \in 0 .. n : k \in S
    BY <1>1, <1>7, <2>1, InductTo
  <2> QED
    BY <1>1, <2>2
<1> QED
  BY <1>5, <1>9 DEF n, lists, End

\* Where there is no chunk, nothing is shared.
LEMMA SharingNone == ASSUME NEW m PROVE Sharing(<<>>, m)
<1>1. <<>> \in Seq(Texts) /\ 1 .. Len(<<>>) = {}
  OBVIOUS
<1> QED
  BY <1>1 DEF Sharing

\* Any two chunks of chunk_python share little.
LEMMA PythonShares ==
  ASSUME NEW s, Passage(s), NEW m, Limited(s, m), NEW nodes, Nodes(s, nodes)
  PROVE  Sharing(ChunkPython(s, nodes), m)
<1> DEFINE l == Len(Lines(s))
           e == PrevEnd(nodes, Len(nodes) + 1)
           before == Concat([k \in DOMAIN nodes |-> EmitNode(s, nodes, k)])
           tail == Emit(Span(s, e + 1, l))
           all == before \o tail
<1>0. m \in Nat
  BY LimitedNat
<1>1. ChunkPython(s, nodes) = IF all = <<>> THEN ChunkText(s) ELSE MergeSplits(all, "para", 0)
  BY DEF ChunkPython
<1>2. Renders(all, Ink(s))
  BY SegmentsRender
<1>3. l \in Nat
  BY LinesParted
<1>4. e \in Nat /\ e <= l
  <2>1. Len(nodes) + 1 \in 1 .. Len(nodes) + 1
    BY DEF Nodes
  <2> QED
    BY <2>1, PrevEndIs
<1>5. Chained(before, Onward(s, 0, e), m)
  BY NodesChained
<1> HIDE DEF before, e
<1>6. Chained(tail, Onward(s, e, l), m)
  <2> DEFINE a == e + 1
  <2>1. a \in Nat /\ 1 <= a /\ a <= l + 1 /\ l <= Len(Lines(s)) /\ a - 1 = e
    BY <1>3, <1>4
  <2> HIDE DEF a
  <2>2. Chained(Emit(Span(s, a, l)), Onward(s, a - 1, l), m)
    BY <1>3, <2>1, EmitSpan
  <2> QED
    BY <2>1, <2>2 DEF a
<1>7. Onward(s, 0, e) \cap Onward(s, e, l) = {}
  <2>1. 0 \in Nat /\ 0 <= e /\ l <= Len(Lines(s))
    BY <1>3, <1>4
  <2> QED
    BY <1>3, <1>4, <2>1, LinesSplit
<1> HIDE DEF tail, l
<1>8. Linked(all, m)
  <2>1. Chained(all, Onward(s, 0, e) \cup Onward(s, e, l), m)
    BY <1>0, <1>5, <1>6, <1>7, ChainCat
  <2> QED
    BY <2>1 DEF Chained
<1>9. all = <<>> => ChunkText(s) = <<>>
  <2> HAVE all = <<>>
  <2>1. Ink(s) = InkOf(<<>>, 1, 0)
    BY <1>2 DEF Renders
  <2>2. Ink(s) = {}
    BY <2>1, NoInkOf
  <2> QED
    BY <2>2, NoWords DEF Passage
<1> HIDE DEF all
<1>10. Sharing(MergeSplits(all, "para", 0), m)
  BY <1>0, <1>8, PackShares
<1> QED
  BY <1>1, <1>9, <1>10, SharingNone

LimitOf(d) == IF d.kind = "text" \/ Length(TextOf(d)) > MaxChars THEN Overlap ELSE 0

\* Any two chunks of a document share little.
LEMMA DocumentShares ==
  ASSUME NEW d \in Documents
  PROVE  Sharing(ChunkDocument(d), LimitOf(d)) /\ LimitOf(d) \in Nat
<1> DEFINE s == TextOf(d)
           m == LimitOf(d)
<1>1. Passage(s)
  BY TextPassage
<1>2. d.kind \in {"text", "markdown", "python"} /\ Overlap \in Nat /\ MaxChars \in Nat
  BY ChunkAssumption
<1>3. Length(s) \in Nat
  BY <1>1, LengthSum DEF Passage
<1>4. m \in Nat /\ (d.kind = "text" => m = Overlap) /\ Limited(s, m)
  BY <1>2, <1>3 DEF LimitOf, Limited
<1> HIDE DEF s, m
<1>5. CASE d.kind = "text"
  <2>1. Chained(ChunkText(s), Places(s), m)
    BY <1>1, <1>4, <1>5, TextChained
  <2>2. Linked(ChunkText(s), m)
    BY <2>1 DEF Chained
  <2>3. Sharing(ChunkText(s), m)
    BY <1>4, <2>2, LinkedShares
  <2> QED
    BY <1>4, <1>5, <2>3 DEF ChunkDocument, s, m
<1>6. CASE d.kind = "markdown"
  <2>1. Sharing(ChunkMarkdown(s), m)
    BY <1>1, <1>4, MarkdownShares
  <2> QED
    BY <1>4, <1>6, <2>1 DEF ChunkDocument, s, m
<1>7. CASE d.kind = "python"
  <2>1. Nodes(s, d.nodes)
    BY <1>7, ChunkAssumption DEF Nodes, s
  <2>2. Sharing(ChunkPython(s, d.nodes), m)
    BY <1>1, <1>4, <2>1, PythonShares
  <2> QED
    BY <1>4, <1>7, <2>2 DEF ChunkDocument, s, m
<1> QED
  BY <1>2, <1>5, <1>6, <1>7

\* For every document, chunk size, overlap and maximum: two chunks have at most the overlap
\* in common, however far they are apart, and the chunks of a Python or Markdown document
\* that is short enough nothing at all.
THEOREM ChunksShareLittle == ChunkSpec => []SharesAtMostOverlap
<1>1. ASSUME ChunkInv PROVE SharesAtMostOverlap
  <2> SUFFICES ASSUME Done
               PROVE  \A j, k \in DOMAIN chunks :
                        j < k => Within(chunks[j], Places(chunks[k])) <= Limit
    BY DEF SharesAtMostOverlap
  <2>1. document \in Documents /\ chunks = Stripped(ChunkDocument(document))
    BY <1>1 DEF ChunkInv
  <2>2. Sharing(ChunkDocument(document), LimitOf(document)) /\ LimitOf(document) \in Nat
    BY <2>1, DocumentShares
  <2>3. Sharing(chunks, LimitOf(document))
    BY <2>1, <2>2, StripShares
  <2>4. LimitOf(document) = Limit
    BY DEF LimitOf, Limit
  <2>5. DOMAIN chunks = 1 .. Len(chunks)
    BY <2>3 DEF Sharing
  <2> QED
    BY <2>3, <2>4, <2>5 DEF Sharing
<1> QED
  BY <1>1, ChunksOfDocument, PTL
=============================================================================
