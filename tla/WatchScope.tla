----------------------------- MODULE WatchScope -----------------------------
(***************************************************************************)
(* Which directories the watcher scans and watches, while directories are  *)
(* made and removed.  IndexPipeline follows single files of directories    *)
(* that stay; here a directory stands for the indexable files in it (each  *)
(* directory holds one), and indexing them is one step.                    *)
(*                                                                         *)
(* Under a watch path with exclude_dirs main() schedules one non-recursive *)
(* watch for each directory it finds, otherwise one watch for the path.    *)
(* Symbolic links to directories are left out.                             *)
(***************************************************************************)
EXTENDS Naturals, FiniteSets

CONSTANTS
  Dirs,        \* the directories there may be
  Above,       \* the directories above each of them
  WatchPaths,  \* the entries of watch_paths
  MaxEdits,    \* bound of the changes to the tree and its files
  MaxCrashes   \* bound of the crashes of the watcher

UpTo(d) == Above[d] \cup {d}

ChildrenOf(d) == {c \in Dirs : Above[c] = UpTo(d)}

\* An entry: its path, recursive, whether it has exclude_dirs, and what these match.
Entry == [dir : Dirs, recursive : BOOLEAN, pruned : BOOLEAN, exclude : SUBSET Dirs]

ASSUME TreeAssumption ==
  /\ Above \in [Dirs -> SUBSET Dirs]
  /\ \A d \in Dirs : d \notin Above[d] /\ \A a \in Above[d] : Above[a] \subseteq Above[d]
  /\ \A d \in Dirs : \A a \in Above[d] : \E c \in ChildrenOf(a) : c \in UpTo(d)
  /\ \A d \in Dirs : \A a, b \in UpTo(d) : a \in UpTo(b) \/ b \in UpTo(a)

ASSUME EntriesAssumption ==
  /\ WatchPaths \subseteq Entry
  /\ \A e, f \in WatchPaths : e.dir \in UpTo(f.dir) => e = f
  /\ MaxEdits \in Nat /\ MaxCrashes \in Nat

VARIABLES
  tree,     \* the directories on the disk
  docs,     \* the index: "none", "current" or "old" documents of each directory
  phase,    \* main(): "down", "scan", "schedule" or "watch"
  roots,    \* watch_path_pairs
  todo,     \* directories the walk has yet to visit
  watches,  \* the emitters of the observer
  behind,   \* directories that differ from the last snapshot of their emitter
  early,    \* history: directories that changed during the startup, unnoticed
  late,     \* history: directories made since main() started
  edits,    \* changes so far
  crashes   \* crashes so far

vars == <<tree, docs, phase, roots, todo, watches, behind, early, late, edits, crashes>>
mainVars == <<phase, roots, todo, watches>>

Init ==
  /\ tree \in {T \in SUBSET Dirs : \A d \in T : Above[d] \subseteq T}
  /\ docs = [d \in Dirs |-> "none"]
  /\ phase = "down" /\ roots = {} /\ todo = {} /\ watches = {}
  /\ behind = {} /\ early = {} /\ late = {}
  /\ edits = 0 /\ crashes = 0

(***************************************************************************)
(* The directories and their files.                                        *)
(***************************************************************************)
\* What an emitter compares with its snapshot at each poll.
Reach(w) == {d \in Dirs : d = w.dir \/ (w.deep /\ w.dir \in Above[d])}

Covered(d) == phase = "watch" /\ \E w \in watches : d \in Reach(w)

\* The directories in S change: who watches them will see, main() may not.
Touch(S) ==
  /\ edits < MaxEdits /\ edits' = edits + 1
  /\ behind' = behind \cup {d \in S : Covered(d)}
  /\ early' = IF phase \in {"scan", "schedule"} THEN early \cup S ELSE early
  /\ docs' = [d \in Dirs |-> IF d \in S /\ docs[d] = "current" THEN "old" ELSE docs[d]]
  /\ UNCHANGED <<mainVars, crashes>>

MakeDir(d) ==
  /\ d \notin tree /\ Above[d] \subseteq tree
  /\ tree' = tree \cup {d}
  /\ late' = late \cup {d}
  /\ Touch({d})

RemoveDir(d) ==
  /\ d \in tree
  /\ tree' = tree \ {c \in Dirs : d \in UpTo(c)}
  /\ Touch({c \in tree : d \in UpTo(c)})
  /\ UNCHANGED late

Write(d) == d \in tree /\ Touch({d}) /\ UNCHANGED <<tree, late>>

Edit == \E d \in Dirs : MakeDir(d) \/ RemoveDir(d) \/ Write(d)

(***************************************************************************)
(* main(): what exists of the watch paths, cleanup_stale, initial_scan,    *)
(* the schedule of the observer and its start.                             *)
(***************************************************************************)
\* MUTANT: no cleanup_stale.
StartNoCleanup ==
  /\ phase = "down" /\ phase' = "scan"
  /\ roots' = {e \in WatchPaths : e.dir \in tree}
  /\ todo' = {e.dir : e \in roots'}
  /\ early' = {} /\ late' = {}
  /\ UNCHANGED <<tree, docs, watches, behind, edits, crashes>>

Start ==
  /\ phase = "down" /\ phase' = "scan"
  /\ roots' = {e \in WatchPaths : e.dir \in tree}
  /\ todo' = {e.dir : e \in roots'}
  /\ docs' = [d \in Dirs |->
                IF d \notin tree /\ \E e \in roots' : e.dir \in UpTo(d) THEN "none" ELSE docs[d]]
  /\ early' = {} /\ late' = {}
  /\ UNCHANGED <<tree, watches, behind, edits, crashes>>

Pruned(e) == e.recursive /\ e.pruned

\* MUTANT: the walk goes into what is excluded.
SubdirsAll(e, d) == IF e.recursive THEN ChildrenOf(d) \cap tree ELSE {}

\* Where the walk of an entry goes on from a directory.
Subdirs(e, d) ==
  {c \in ChildrenOf(d) \cap tree : e.recursive /\ (e.pruned => c \notin e.exclude)}

\* MUTANT: a directory with documents is not looked at again.
ScanDirOnce(e, d) ==
  /\ phase = "scan" /\ d \in todo /\ d \in tree /\ e.dir \in UpTo(d)
  /\ todo' = (todo \ {d}) \cup Subdirs(e, d)
  /\ docs' = [docs EXCEPT ![d] = IF @ = "none" THEN "current" ELSE @]
  /\ early' = early \ {d}
  /\ UNCHANGED <<tree, phase, roots, watches, behind, late, edits, crashes>>

ScanDir(e, d) ==
  /\ phase = "scan" /\ d \in todo /\ d \in tree /\ e.dir \in UpTo(d)
  /\ todo' = (todo \ {d}) \cup Subdirs(e, d)
  /\ docs' = [docs EXCEPT ![d] = "current"]
  /\ early' = early \ {d}
  /\ UNCHANGED <<tree, phase, roots, watches, behind, late, edits, crashes>>

EndScan ==
  /\ phase = "scan" /\ todo = {}
  /\ phase' = "schedule"
  /\ todo' = {e.dir : e \in roots}
  /\ UNCHANGED <<tree, docs, roots, watches, behind, early, late, edits, crashes>>

\* MUTANT: the watch of a path is never recursive.
ScheduleFlat(e, d) ==
  /\ phase = "schedule" /\ d \in todo /\ e.dir \in UpTo(d)
  /\ Pruned(e) => d \in tree
  /\ todo' = (todo \ {d}) \cup (IF Pruned(e) THEN Subdirs(e, d) ELSE {})
  /\ watches' = watches \cup {[dir |-> d, deep |-> FALSE]}
  /\ UNCHANGED <<tree, docs, phase, roots, behind, early, late, edits, crashes>>

\* The schedule lists the directories of a path with exclude_dirs; of another it takes
\* the path, without a look at the disk.
Schedule(e, d) ==
  /\ phase = "schedule" /\ d \in todo /\ e.dir \in UpTo(d)
  /\ Pruned(e) => d \in tree
  /\ todo' = (todo \ {d}) \cup (IF Pruned(e) THEN Subdirs(e, d) ELSE {})
  /\ watches' = watches \cup {[dir |-> d, deep |-> e.recursive /\ ~e.pruned]}
  /\ UNCHANGED <<tree, docs, phase, roots, behind, early, late, edits, crashes>>

\* observer.start(): every emitter takes its first snapshot.
StartObserver ==
  /\ phase = "schedule" /\ todo = {}
  /\ \A w \in watches : w.dir \in tree
  /\ phase' = "watch"
  /\ UNCHANGED <<tree, docs, roots, todo, watches, behind, early, late, edits, crashes>>

Stopped == phase' = "down" /\ roots' = {} /\ todo' = {} /\ watches' = {} /\ behind' = {}

\* The walk meets a directory that is gone.  _iter_schedulable_dirs passes over a child
\* that is no directory any more; glob() finds nothing below a path that is not there.
SkipVanished(e, d) ==
  /\ phase \in {"scan", "schedule"} /\ d \in todo /\ d \notin tree /\ e.dir \in UpTo(d)
  /\ \/ Pruned(e) /\ d # e.dir
     \/ phase = "scan" /\ ~Pruned(e) /\ d = e.dir
  /\ todo' = todo \ {d}
  /\ UNCHANGED <<tree, docs, phase, roots, watches, behind, early, late, edits, crashes>>

\* The directory went after it was found to be one: iterdir() or glob() raises.  The
\* path of a watch is gone: observer.start() raises.  main() ends and Docker starts the
\* watcher again.
StartupFails ==
  /\ \/ \E e \in roots, d \in todo :
          d \notin tree /\ e.dir \in UpTo(d) /\ (Pruned(e) \/ d # e.dir)
     \/ phase = "schedule" /\ todo = {} /\ \E w \in watches : w.dir \notin tree
  /\ Stopped
  /\ UNCHANGED <<tree, docs, early, late, edits, crashes>>

Crash ==
  /\ phase # "down"
  /\ crashes < MaxCrashes /\ crashes' = crashes + 1
  /\ Stopped
  /\ UNCHANGED <<tree, docs, early, late, edits>>

(***************************************************************************)
(* The polls of an emitter.                                                *)
(***************************************************************************)
\* The directory of the watch is there: events for the files that differ, which
\* WatchHandler follows.
Poll(w) ==
  /\ phase = "watch" /\ w \in watches /\ w.dir \in tree
  /\ behind \cap Reach(w) # {}
  /\ docs' = [d \in Dirs |-> IF d \in behind \cap Reach(w)
                               THEN IF d \in tree THEN "current" ELSE "none"
                               ELSE docs[d]]
  /\ behind' = behind \ Reach(w)
  /\ early' = early \ (behind \cap Reach(w))
  /\ UNCHANGED <<tree, mainVars, late, edits, crashes>>

\* The directory of the watch is gone: one DirDeletedEvent, which on_deleted ignores,
\* and the emitter stops.
EmitterEnds(w) ==
  /\ phase = "watch" /\ w \in watches /\ w.dir \notin tree
  /\ watches' = watches \ {w}
  /\ behind' = behind \ Reach(w)
  /\ UNCHANGED <<tree, docs, phase, roots, todo, early, late, edits, crashes>>

Emitters == [dir : Dirs, deep : BOOLEAN]

Startup ==
  \/ Start \/ EndScan \/ StartObserver \/ StartupFails
  \/ \E e \in WatchPaths, d \in Dirs :
       ScanDir(e, d) \/ Schedule(e, d) \/ SkipVanished(e, d)
Polls == \E w \in Emitters : Poll(w) \/ EmitterEnds(w)

Next == Edit \/ Startup \/ Crash \/ Polls

Spec == Init /\ [][Next]_vars

\* Docker starts the watcher again, its startup goes on and the emitters poll.  Nobody
\* has to change the tree.
FairSpec == Spec /\ WF_vars(Startup) /\ WF_vars(Polls)

(***************************************************************************)
(* Properties.                                                             *)
(***************************************************************************)
TypeOK ==
  /\ tree \subseteq Dirs
  /\ docs \in [Dirs -> {"none", "current", "old"}]
  /\ phase \in {"down", "scan", "schedule", "watch"}
  /\ roots \subseteq WatchPaths /\ todo \subseteq Dirs /\ watches \subseteq Emitters
  /\ behind \subseteq Dirs /\ early \subseteq Dirs /\ late \subseteq Dirs
  /\ edits \in Nat /\ crashes \in Nat
  /\ phase \in {"down", "watch"} => todo = {}

\* What an entry asks for: nothing on the way from its path to the directory is excluded.
InScope(e, d) ==
  \/ d = e.dir
  \/ /\ e.recursive /\ e.dir \in Above[d]
     /\ e.pruned => (UpTo(d) \ UpTo(e.dir)) \cap e.exclude = {}

\* Nothing below an excluded directory is ever scanned, watched or indexed, whatever is
\* made, removed or moved about.
NothingExcluded ==
  \A d \in Dirs :
    (docs[d] # "none" \/ \E w \in watches : d \in Reach(w)) => \E e \in WatchPaths : InScope(e, d)

\* Once the watcher watches, a directory it was asked for goes unwatched only if it was
\* made since the start under a path with exclude_dirs, or its whole path was.
WatchCovers ==
  phase = "watch" =>
    \A e \in roots, d \in tree :
      InScope(e, d) => Covered(d) \/ e.dir \in late \/ (Pruned(e) /\ d \in late)

UpToDate(d) == docs[d] = IF d \in tree THEN "current" ELSE "none"

\* The scan and the first snapshot leave nothing out: a watched directory whose
\* documents are not up to date is about to be polled or changed during the startup.
WatchedIsFollowed ==
  \A d \in Dirs : Covered(d) /\ ~UpToDate(d) => d \in behind \cup early

\* A restart on a quiet tree puts everything right that was missed before, except below
\* a watch path that is not there.
RestartCatchesUp ==
  phase = "down" /\ edits = MaxEdits
    ~> \A e \in WatchPaths, d \in Dirs : e.dir \in tree /\ InScope(e, d) => UpToDate(d)
=============================================================================
