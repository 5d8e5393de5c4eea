-------------------------- MODULE WatchScopeProofs --------------------------
(***************************************************************************)
(* What the watcher scans, watches and indexes, for any tree of            *)
(* directories and any watch paths that do not overlap, while directories  *)
(* come and go.  The heart is a statement about the two walks of main():   *)
(* a directory that an entry asks for has been visited, or the walk is     *)
(* still going to a directory above it, or it came too late.               *)
(***************************************************************************)
EXTENDS WatchScope, TLAPS

(***************************************************************************)
(* The tree.                                                               *)
(***************************************************************************)
\* A directory above one above d is above d.
LEMMA AboveAbove ==
  ASSUME NEW d \in Dirs, NEW b \in UpTo(d), NEW a \in UpTo(b)
  PROVE  a \in Dirs /\ b \in Dirs /\ a \in UpTo(d) /\ (b \in Above[d] => a \in Above[d])
  BY TreeAssumption DEF UpTo

\* Two directories cannot be above each other.
LEMMA NoCircle ==
  ASSUME NEW a \in Dirs, NEW b \in UpTo(a), a \in UpTo(b)
  PROVE  a = b
  BY TreeAssumption DEF UpTo

\* Watch paths do not overlap, so a directory belongs to one entry at most.
LEMMA OneEntry ==
  ASSUME NEW e \in WatchPaths, NEW f \in WatchPaths, NEW d \in Dirs,
         e.dir \in UpTo(d), f.dir \in UpTo(d)
  PROVE  e = f
<1>1. e.dir \in UpTo(f.dir) \/ f.dir \in UpTo(e.dir)
  BY TreeAssumption
<1> QED
  BY <1>1, EntriesAssumption

\* An entry lies above what it asks for.
LEMMA ScopeBelow ==
  ASSUME NEW e \in WatchPaths, NEW d \in Dirs, InScope(e, d)
  PROVE  e.dir \in Dirs /\ e.dir \in UpTo(d)
  BY EntriesAssumption DEF InScope, UpTo, Entry

\* The walk of an entry goes on only into what the entry asks for.
LEMMA WalkStaysInScope ==
  ASSUME NEW e \in WatchPaths, NEW d \in Dirs, InScope(e, d), NEW c \in Subdirs(e, d)
  PROVE  c \in Dirs /\ InScope(e, c)
<1>1. c \in Dirs /\ Above[c] = UpTo(d) /\ e.recursive /\ (e.pruned => c \notin e.exclude)
  BY DEF Subdirs, ChildrenOf
<1>2. e.dir \in Above[c]
  BY <1>1, ScopeBelow
<1>3. e.pruned => (UpTo(d) \ UpTo(e.dir)) \cap e.exclude = {}
  BY DEF InScope
<1>4. e.pruned => (UpTo(c) \ UpTo(e.dir)) \cap e.exclude = {}
  BY <1>1, <1>3 DEF UpTo
<1> QED
  BY <1>1, <1>2, <1>4 DEF InScope

\* From a directory above d the walk of an entry that asks for d goes on towards d.
LEMMA WalkGoesOn ==
  ASSUME NEW e \in WatchPaths, NEW d \in Dirs, InScope(e, d), UpTo(d) \subseteq tree,
         NEW a \in Above[d], e.dir \in UpTo(a)
  PROVE  \E c \in Subdirs(e, a) : c \in UpTo(d) /\ e.dir \in UpTo(c)
<1>1. a \in Dirs /\ e.dir \in Above[d] /\ d # e.dir
  BY TreeAssumption DEF UpTo
<1>2. e.recursive /\ (e.pruned => (UpTo(d) \ UpTo(e.dir)) \cap e.exclude = {})
  BY <1>1 DEF InScope
<1>3. PICK c \in ChildrenOf(a) : c \in UpTo(d)
  BY TreeAssumption
<1>4. c \in Dirs /\ c \in tree /\ Above[c] = UpTo(a) /\ e.dir \in Above[c]
  BY <1>3 DEF ChildrenOf
<1>5. c \notin UpTo(e.dir)
  BY <1>4, TreeAssumption, ScopeBelow DEF UpTo
<1>6. c \in Subdirs(e, a)
  BY <1>2, <1>3, <1>4, <1>5 DEF Subdirs
<1> QED
  BY <1>3, <1>4, <1>6 DEF UpTo

(***************************************************************************)
(* The invariant.                                                          *)
(***************************************************************************)
TreeClosed == \A d \in tree : Above[d] \subseteq tree

\* The walk has yet to visit a directory on the way from the entry to d.
Walking(e, d) == \E a \in todo : a \in UpTo(d) /\ e.dir \in UpTo(a)

Watched(d) == \E w \in watches : d \in Reach(w)

TodoWanted ==
  \A a \in todo : \E e \in roots :
    InScope(e, a) /\ (phase = "schedule" /\ ~Pruned(e) => a = e.dir)

\* A watch belongs to an entry: one watch for its path, or flat ones below it.
WatchOf(w, e) ==
  /\ InScope(e, w.dir)
  /\ w.deep <=> e.recursive /\ ~e.pruned
  /\ ~Pruned(e) => w.dir = e.dir

WatchesWanted == \A w \in watches : \E e \in roots : WatchOf(w, e)

IndexedWanted == \A d \in Dirs : docs[d] # "none" => \E e \in WatchPaths : InScope(e, d)

Phases ==
  /\ phase # "watch" => behind = {}
  /\ phase \in {"down", "scan"} => watches = {}
  /\ phase = "down" => roots = {}

\* The scan visits everything an entry asks for.
Scanned ==
  phase = "scan" => \A e \in roots, d \in Dirs :
    InScope(e, d) => UpToDate(d) \/ d \in early \/ (d \in tree /\ Walking(e, d))

\* The schedule does so too, except for what comes too late.
Scheduled ==
  phase \in {"schedule", "watch"} => \A e \in roots, d \in tree :
    InScope(e, d) =>
      e.dir \in late \/ (Pruned(e) /\ d \in late) \/ Watched(d) \/ Walking(e, d)

\* What was scanned and is watched is up to date or known to have changed.
Followed ==
  phase \in {"schedule", "watch"} => \A e \in roots, d \in Dirs :
    InScope(e, d) /\ (phase = "watch" => Watched(d)) => UpToDate(d) \/ d \in early \cup behind

ScopeInv ==
  /\ TypeOK /\ TreeClosed /\ TodoWanted /\ WatchesWanted /\ IndexedWanted
  /\ Phases /\ Scanned /\ Scheduled /\ Followed

\* The fields of an entry and of a watch.
LEMMA Fields ==
  /\ \A e \in WatchPaths : e.dir \in Dirs /\ e.recursive \in BOOLEAN /\ e.pruned \in BOOLEAN
  /\ \A w \in Emitters : w.dir \in Dirs /\ w.deep \in BOOLEAN
  /\ \A v, w \in Emitters : v.dir = w.dir /\ v.deep = w.deep => v = w
  BY EntriesAssumption DEF Entry, Emitters

\* A watch reaches only what its entry asks for.
LEMMA WatchReach ==
  ASSUME NEW w \in Emitters, NEW e \in WatchPaths, WatchOf(w, e), NEW d \in Reach(w)
  PROVE  d \in Dirs /\ w.dir \in UpTo(d) /\ e.dir \in UpTo(d) /\ InScope(e, d)
<1>1. d \in Dirs /\ w.dir \in Dirs /\ w.dir \in UpTo(d) /\ InScope(e, w.dir)
  BY Fields DEF Reach, UpTo, WatchOf
<1>2. e.dir \in UpTo(w.dir)
  BY <1>1, ScopeBelow
<1>3. e.dir \in UpTo(d) /\ (w.dir \in Above[d] => e.dir \in Above[d])
  BY <1>1, <1>2, AboveAbove
<1>4. CASE d = w.dir
  BY <1>1, <1>3, <1>4
<1>5. CASE w.deep /\ w.dir \in Above[d]
  BY <1>1, <1>3, <1>5 DEF WatchOf, InScope
<1> QED
  BY <1>4, <1>5 DEF Reach

\* Two watches reach nothing in common.
LEMMA OneWatch ==
  ASSUME NEW v \in Emitters, NEW w \in Emitters, NEW e \in WatchPaths, NEW f \in WatchPaths,
         WatchOf(v, e), WatchOf(w, f), NEW d \in Reach(v) \cap Reach(w)
  PROVE  v = w
<1>1. e = f
  BY WatchReach, OneEntry
<1>2. v.deep = w.deep
  BY <1>1, Fields DEF WatchOf
<1>3. CASE Pruned(e)
  <2>1. ~v.deep /\ ~w.deep
    BY <1>1, <1>3 DEF WatchOf, Pruned
  <2> QED
    BY <1>2, <2>1, Fields DEF Reach
<1>4. CASE ~Pruned(e)
  BY <1>1, <1>2, <1>4, Fields DEF WatchOf
<1> QED
  BY <1>3, <1>4

\* Where the walk is, it is for the one entry above.
LEMMA WalkFor ==
  ASSUME TypeOK, TodoWanted, NEW a \in todo, NEW e \in WatchPaths, e.dir \in UpTo(a)
  PROVE  /\ a \in Dirs /\ e \in roots /\ InScope(e, a)
         /\ phase = "schedule" /\ ~Pruned(e) => a = e.dir
<1>1. PICK f \in roots : InScope(f, a) /\ (phase = "schedule" /\ ~Pruned(f) => a = f.dir)
  BY DEF TodoWanted
<1>2. a \in Dirs /\ f \in WatchPaths
  BY DEF TypeOK
<1>3. e = f
  BY <1>1, <1>2, ScopeBelow, OneEntry
<1> QED
  BY <1>1, <1>2, <1>3

LEMMA InitScope == Init => ScopeInv
  BY DEF Init, ScopeInv, TypeOK, TreeClosed, TodoWanted, WatchesWanted, IndexedWanted, Phases,
     Scanned, Scheduled, Followed

(***************************************************************************)
(* The changes of the tree.                                                *)
(***************************************************************************)
LEMMA TouchKeeps ==
  ASSUME ScopeInv, NEW S \in SUBSET Dirs, Touch(S), tree' \subseteq Dirs, TreeClosed',
         \A d \in Dirs \ S : d \in tree' <=> d \in tree,
         late \subseteq late', late' \subseteq Dirs, \A d \in tree' \ tree : d \in late'
  PROVE  ScopeInv'
<1>1. /\ UNCHANGED <<phase, roots, todo, watches, crashes>>
      /\ edits' = edits + 1
      /\ behind' = behind \cup {d \in S : Covered(d)}
      /\ early' = IF phase \in {"scan", "schedule"} THEN early \cup S ELSE early
      /\ docs' = [d \in Dirs |-> IF d \in S /\ docs[d] = "current" THEN "old" ELSE docs[d]]
  BY DEF Touch, mainVars
<1>2. TypeOK'
  BY <1>1 DEF ScopeInv, TypeOK
<1>3. TodoWanted' /\ WatchesWanted'
  BY <1>1 DEF ScopeInv, TodoWanted, WatchesWanted
<1>4. IndexedWanted'
  BY <1>1 DEF ScopeInv, TypeOK, IndexedWanted
<1>5. Phases'
  BY <1>1 DEF ScopeInv, Phases, Covered
<1>6. \A d \in Dirs \ S : UpToDate(d)' <=> UpToDate(d)
  BY <1>1 DEF UpToDate
<1>7. Scanned'
  BY <1>1, <1>6 DEF ScopeInv, Scanned, Walking
<1>8. Followed'
  <2> SUFFICES ASSUME phase \in {"schedule", "watch"}, NEW e \in roots, NEW d \in Dirs,
                      InScope(e, d), phase = "watch" => Watched(d)
               PROVE  UpToDate(d)' \/ d \in early' \cup behind'
    BY <1>1 DEF Followed, Watched
  <2>1. CASE d \in S
    BY <1>1, <2>1 DEF Covered, Watched
  <2>2. CASE d \notin S
    BY <1>1, <1>6, <2>2 DEF ScopeInv, Followed
  <2> QED
    BY <2>1, <2>2
<1>9. Scheduled'
  <2> SUFFICES ASSUME phase \in {"schedule", "watch"}, NEW e \in roots, NEW d \in tree',
                      InScope(e, d), e.dir \notin late', ~(Pruned(e) /\ d \in late')
               PROVE  Watched(d) \/ Walking(e, d)
    BY <1>1 DEF Scheduled, Watched, Walking
  <2>1. CASE d \in tree
    BY <2>1 DEF ScopeInv, Scheduled
  <2>2. CASE d \notin tree
    <3>1. e \in WatchPaths /\ d \in Dirs /\ ~Pruned(e)
      BY <2>2 DEF ScopeInv, TypeOK
    <3>2. e.dir \in Dirs /\ e.dir \in UpTo(d) /\ InScope(e, e.dir)
      BY <3>1, ScopeBelow DEF InScope
    <3>3. e.dir \in tree' /\ e.dir \in tree
      BY <3>2 DEF TreeClosed, UpTo
    <3>4. Watched(e.dir) \/ Walking(e, e.dir)
      BY <3>1, <3>2, <3>3 DEF ScopeInv, Scheduled
    <3>5. CASE Walking(e, e.dir)
      <4>1. PICK a \in todo : a \in UpTo(e.dir) /\ e.dir \in UpTo(a)
        BY <3>5 DEF Walking
      <4>2. a = e.dir
        BY <3>2, <4>1, NoCircle
      <4> QED
        BY <3>2, <4>1, <4>2 DEF Walking
    <3>6. CASE Watched(e.dir)
      <4>1. PICK w \in watches : e.dir \in Reach(w)
        BY <3>6 DEF Watched
      <4>2. PICK f \in roots : WatchOf(w, f)
        BY DEF ScopeInv, WatchesWanted
      <4>3. w \in Emitters /\ f \in WatchPaths
        BY DEF ScopeInv, TypeOK
      <4>4. e = f
        BY <3>1, <3>2, <4>1, <4>2, <4>3, WatchReach, OneEntry DEF UpTo
      <4>5. w.dir = e.dir /\ (w.deep <=> e.recursive /\ ~e.pruned)
        BY <3>1, <4>2, <4>4 DEF WatchOf
      <4>6. d \in Reach(w)
        BY <3>1, <4>5 DEF Reach, InScope, Pruned
      <4> QED
        BY <4>6 DEF Watched
    <3> QED
      BY <3>4, <3>5, <3>6
  <2> QED
    BY <2>1, <2>2
<1> QED
  BY <1>2, <1>3, <1>4, <1>5, <1>7, <1>8, <1>9 DEF ScopeInv

LEMMA EditKeeps == ASSUME ScopeInv, Edit PROVE ScopeInv'
<1> USE DEF ScopeInv, TypeOK
<1>1. ASSUME NEW d \in Dirs, MakeDir(d) PROVE ScopeInv'
  <2>1. TreeClosed'
    BY <1>1 DEF MakeDir, TreeClosed
  <2>2. {d} \in SUBSET Dirs /\ Touch({d})
    BY <1>1 DEF MakeDir
  <2>3. tree' = tree \cup {d} /\ late' = late \cup {d}
    BY <1>1 DEF MakeDir
  <2> QED
    BY <2>1, <2>2, <2>3, TouchKeeps
<1>2. ASSUME NEW d \in Dirs, RemoveDir(d) PROVE ScopeInv'
  <2>1. TreeClosed'
    <3> SUFFICES ASSUME NEW c \in tree', NEW a \in Above[c] PROVE a \in tree'
      BY DEF TreeClosed
    <3>1. c \in Dirs /\ c \in tree /\ a \in tree /\ d \notin UpTo(c)
      BY <1>2 DEF RemoveDir, TreeClosed
    <3>2. d \notin UpTo(a)
      BY <3>1, AboveAbove DEF UpTo
    <3> QED
      BY <1>2, <3>1, <3>2 DEF RemoveDir
  <2>2. /\ Touch({c \in tree : d \in UpTo(c)}) /\ {c \in tree : d \in UpTo(c)} \in SUBSET Dirs
        /\ tree' = tree \ {c \in Dirs : d \in UpTo(c)} /\ late' = late
    BY <1>2 DEF RemoveDir
  <2> QED
    BY <2>1, <2>2, TouchKeeps
<1>3. ASSUME NEW d \in Dirs, Write(d) PROVE ScopeInv'
  <2>1. tree' = tree /\ late' = late /\ Touch({d}) /\ {d} \in SUBSET Dirs
    BY <1>3 DEF Write
  <2>2. TreeClosed'
    BY <2>1 DEF TreeClosed
  <2> QED
    BY <2>1, <2>2, TouchKeeps
<1> QED
  BY <1>1, <1>2, <1>3 DEF Edit

(***************************************************************************)
(* main() and the emitters.                                                *)
(***************************************************************************)
LEMMA StartKeeps == ASSUME ScopeInv, Start PROVE ScopeInv'
<1>1. /\ phase = "down" /\ phase' = "scan" /\ roots' = {e \in WatchPaths : e.dir \in tree}
      /\ todo' = {e.dir : e \in roots'} /\ early' = {} /\ late' = {}
      /\ UNCHANGED <<tree, watches, behind, edits, crashes>>
      /\ watches = {} /\ behind = {}
  BY DEF Start, ScopeInv, Phases
<1>2. \A d \in Dirs :
        docs'[d] = IF d \notin tree /\ \E e \in roots' : e.dir \in UpTo(d) THEN "none" ELSE docs[d]
  BY DEF Start
<1>3. TypeOK'
  BY <1>1, Fields DEF Start, ScopeInv, TypeOK
<1>4. TreeClosed' /\ WatchesWanted' /\ Phases' /\ Scheduled' /\ Followed'
  BY <1>1 DEF ScopeInv, TreeClosed, WatchesWanted, Phases, Scheduled, Followed
<1>5. TodoWanted'
  BY <1>1 DEF TodoWanted, InScope
<1>6. IndexedWanted'
  BY <1>2 DEF ScopeInv, IndexedWanted
<1>7. Scanned'
  <2> SUFFICES ASSUME NEW e \in roots', NEW d \in Dirs, InScope(e, d)
               PROVE  UpToDate(d)' \/ (d \in tree /\ Walking(e, d)')
    BY <1>1 DEF Scanned
  <2>1. e \in WatchPaths /\ e.dir \in UpTo(d)
    BY <1>1, ScopeBelow
  <2>2. d \in tree => Walking(e, d)'
    BY <1>1, <2>1 DEF Walking, UpTo
  <2>3. d \notin tree => UpToDate(d)'
    BY <1>1, <1>2, <2>1 DEF UpToDate
  <2> QED
    BY <2>2, <2>3
<1> QED
  BY <1>3, <1>4, <1>5, <1>6, <1>7 DEF ScopeInv

\* A visit of a directory, in the scan or for the schedule: the walk of another entry,
\* or towards another directory, is where it was; the walk towards d has arrived or
\* goes on.
LEMMA VisitGoesOn ==
  ASSUME ScopeInv, NEW f \in WatchPaths, NEW a \in todo, f.dir \in UpTo(a),
         NEW more, todo' = (todo \ {a}) \cup more,
         NEW e \in roots, NEW d \in tree, InScope(e, d), Walking(e, d),
         \/ more = Subdirs(f, a)
         \/ d = a
         \/ f # e
         \/ a \notin tree
  PROVE  (e = f /\ d = a) \/ Walking(e, d)'
<1>1. PICK b \in todo : b \in UpTo(d) /\ e.dir \in UpTo(b)
  BY DEF Walking
<1>2. a \in Dirs /\ b \in Dirs /\ d \in Dirs /\ e \in WatchPaths /\ UpTo(d) \subseteq tree
  BY DEF ScopeInv, TypeOK, TreeClosed, UpTo
<1>3. CASE b # a
  BY <1>1, <1>3 DEF Walking
<1>4. CASE b = a
  <2>1. e = f
    BY <1>1, <1>2, <1>4, OneEntry
  <2>2. CASE d # a
    <3>1. a \in Above[d] /\ a \in tree /\ more = Subdirs(e, a)
      BY <1>1, <1>2, <1>4, <2>1, <2>2 DEF UpTo
    <3> QED
      BY <1>1, <1>2, <1>4, <3>1, WalkGoesOn DEF Walking
  <2> QED
    BY <2>1, <2>2
<1> QED
  BY <1>3, <1>4

LEMMA ScanKeeps ==
  ASSUME ScopeInv, NEW f \in WatchPaths, NEW a \in Dirs, ScanDir(f, a)
  PROVE  ScopeInv'
<1>1. /\ phase = "scan" /\ a \in todo /\ a \in tree /\ f.dir \in UpTo(a)
      /\ todo' = (todo \ {a}) \cup Subdirs(f, a)
      /\ docs' = [docs EXCEPT ![a] = "current"] /\ early' = early \ {a}
      /\ UNCHANGED <<tree, phase, roots, watches, behind, late, edits, crashes>>
  BY DEF ScanDir
<1>2. f \in roots /\ InScope(f, a)
  BY <1>1, WalkFor DEF ScopeInv
<1>3. \A c \in Subdirs(f, a) : c \in Dirs /\ InScope(f, c)
  BY <1>2, WalkStaysInScope
<1>4. TypeOK'
  BY <1>1, <1>3 DEF ScopeInv, TypeOK
<1>5. TodoWanted'
  BY <1>1, <1>2, <1>3 DEF ScopeInv, TodoWanted
<1>6. IndexedWanted'
  BY <1>1, <1>2 DEF ScopeInv, TypeOK, IndexedWanted
<1>7. TreeClosed' /\ WatchesWanted' /\ Phases' /\ Scheduled' /\ Followed'
  BY <1>1 DEF ScopeInv, TreeClosed, WatchesWanted, Phases, Scheduled, Followed
<1>8. Scanned'
  <2> SUFFICES ASSUME NEW e \in roots, NEW d \in Dirs, InScope(e, d)
               PROVE  UpToDate(d)' \/ d \in early' \/ (d \in tree /\ Walking(e, d)')
    BY <1>1 DEF Scanned
  <2>1. CASE d = a
    BY <1>1, <2>1 DEF UpToDate, ScopeInv, TypeOK
  <2>2. CASE d # a
    <3>1. (UpToDate(d) => UpToDate(d)') /\ (d \in early => d \in early')
      BY <1>1, <2>2 DEF UpToDate, ScopeInv, TypeOK
    <3>2. d \in tree /\ Walking(e, d) => Walking(e, d)'
      BY <1>1, <2>2, VisitGoesOn
    <3> QED
      BY <1>1, <3>1, <3>2 DEF ScopeInv, Scanned
  <2> QED
    BY <2>1, <2>2
<1> QED
  BY <1>4, <1>5, <1>6, <1>7, <1>8 DEF ScopeInv

\* What is gone is not on the way to a directory that is there.
LEMMA SkipKeeps ==
  ASSUME ScopeInv, NEW f \in WatchPaths, NEW a \in Dirs, SkipVanished(f, a)
  PROVE  ScopeInv'
<1>1. /\ phase \in {"scan", "schedule"} /\ a \in todo /\ a \notin tree /\ f.dir \in UpTo(a)
      /\ todo' = (todo \ {a}) \cup {}
      /\ UNCHANGED <<tree, docs, phase, roots, watches, behind, early, late, edits, crashes>>
  BY DEF SkipVanished
<1>2. ASSUME NEW e \in roots, NEW d \in tree, InScope(e, d), Walking(e, d)
      PROVE  Walking(e, d)'
  <2>1. (e = f /\ d = a) \/ Walking(e, d)'
    BY <1>1, <1>2, VisitGoesOn
  <2> QED
    BY <1>1, <2>1
<1>3. TypeOK' /\ TodoWanted'
  BY <1>1 DEF ScopeInv, TypeOK, TodoWanted
<1>4. TreeClosed' /\ WatchesWanted' /\ IndexedWanted' /\ Phases' /\ Followed'
  BY <1>1 DEF ScopeInv, TreeClosed, WatchesWanted, IndexedWanted, Phases, Followed, Watched,
     UpToDate
<1>5. Scanned'
  BY <1>1, <1>2 DEF ScopeInv, Scanned, UpToDate
<1>6. Scheduled'
  BY <1>1, <1>2 DEF ScopeInv, Scheduled, Watched
<1> QED
  BY <1>3, <1>4, <1>5, <1>6 DEF ScopeInv

LEMMA EndScanKeeps == ASSUME ScopeInv, EndScan PROVE ScopeInv'
<1>1. /\ phase = "scan" /\ todo = {} /\ phase' = "schedule" /\ todo' = {e.dir : e \in roots}
      /\ UNCHANGED <<tree, docs, roots, watches, behind, early, late, edits, crashes>>
  BY DEF EndScan
<1>2. TypeOK'
  BY <1>1, Fields DEF ScopeInv, TypeOK
<1>3. TodoWanted'
  BY <1>1 DEF TodoWanted, InScope
<1>4. Scheduled'
  <2> SUFFICES ASSUME NEW e \in roots, NEW d \in tree, InScope(e, d) PROVE Walking(e, d)'
    BY <1>1 DEF Scheduled
  <2>1. e.dir \in UpTo(d)
    BY ScopeBelow DEF ScopeInv, TypeOK
  <2> QED
    BY <1>1, <2>1 DEF Walking, UpTo
<1>5. Followed'
  BY <1>1 DEF ScopeInv, Scanned, Walking, Followed, UpToDate
<1>6. TreeClosed' /\ WatchesWanted' /\ IndexedWanted' /\ Phases' /\ Scanned'
  BY <1>1 DEF ScopeInv, TreeClosed, WatchesWanted, IndexedWanted, Phases, Scanned
<1> QED
  BY <1>2, <1>3, <1>4, <1>5, <1>6 DEF ScopeInv

LEMMA ScheduleKeeps ==
  ASSUME ScopeInv, NEW f \in WatchPaths, NEW a \in Dirs, Schedule(f, a)
  PROVE  ScopeInv'
<1> DEFINE more == IF Pruned(f) THEN Subdirs(f, a) ELSE {}
           w == [dir |-> a, deep |-> f.recursive /\ ~f.pruned]
<1>1. /\ phase = "schedule" /\ a \in todo /\ f.dir \in UpTo(a)
      /\ todo' = (todo \ {a}) \cup more
      /\ watches' = watches \cup {w}
      /\ UNCHANGED <<tree, docs, phase, roots, behind, early, late, edits, crashes>>
  BY DEF Schedule
<1>2. f \in roots /\ InScope(f, a) /\ (~Pruned(f) => a = f.dir)
  BY <1>1, WalkFor DEF ScopeInv
<1>3. \A c \in more : c \in Dirs /\ InScope(f, c) /\ Pruned(f)
  BY <1>2, WalkStaysInScope
<1>4. w \in Emitters /\ w.dir = a /\ (w.deep <=> f.recursive /\ ~f.pruned)
  BY DEF Emitters
<1>5. TypeOK'
  BY <1>1, <1>3, <1>4 DEF ScopeInv, TypeOK
<1>6. TodoWanted'
  BY <1>1, <1>2, <1>3 DEF ScopeInv, TodoWanted
<1>7. WatchesWanted'
  BY <1>1, <1>2, <1>4 DEF ScopeInv, WatchesWanted, WatchOf
<1>8. TreeClosed' /\ IndexedWanted' /\ Phases' /\ Scanned' /\ Followed'
  BY <1>1 DEF ScopeInv, TreeClosed, IndexedWanted, Phases, Scanned, Followed, UpToDate
<1>9. Scheduled'
  <2> SUFFICES ASSUME NEW e \in roots, NEW d \in tree, InScope(e, d), Walking(e, d)
               PROVE  Watched(d)' \/ Walking(e, d)'
    BY <1>1 DEF ScopeInv, Scheduled, Watched
  <2>1. d \in Dirs /\ e \in WatchPaths
    BY DEF ScopeInv, TypeOK
  <2>2. CASE d = a
    BY <1>1, <1>4, <2>1, <2>2 DEF Watched, Reach
  <2>3. CASE (Pruned(f) \/ f # e) /\ d # a
    <3>1. more = Subdirs(f, a) \/ d = a \/ f # e
      BY <2>3
    <3> HIDE DEF more
    <3>2. (e = f /\ d = a) \/ Walking(e, d)'
      BY <1>1, <3>1, VisitGoesOn
    <3> QED
      BY <2>3, <3>2
  <2>4. CASE ~Pruned(f) /\ f = e /\ d # a
    <3>1. d # e.dir /\ e.recursive /\ ~e.pruned /\ a \in Above[d]
      BY <1>2, <2>4 DEF InScope, Pruned
    <3> QED
      BY <1>1, <1>4, <2>1, <2>4, <3>1 DEF Watched, Reach
  <2> QED
    BY <2>2, <2>3, <2>4
<1> QED
  BY <1>5, <1>6, <1>7, <1>8, <1>9 DEF ScopeInv

LEMMA ObserverKeeps == ASSUME ScopeInv, StartObserver PROVE ScopeInv'
<1>1. /\ phase = "schedule" /\ todo = {} /\ phase' = "watch"
      /\ UNCHANGED <<tree, docs, roots, todo, watches, behind, early, late, edits, crashes>>
  BY DEF StartObserver
<1> QED
  BY <1>1 DEF ScopeInv, TypeOK, TreeClosed, TodoWanted, WatchesWanted, IndexedWanted, Phases,
     Scanned, Scheduled, Followed, Walking, Watched, UpToDate

LEMMA StopKeeps ==
  ASSUME ScopeInv, Stopped, UNCHANGED <<tree, docs, early, late, edits>>, crashes' \in Nat
  PROVE  ScopeInv'
  BY DEF Stopped, ScopeInv, TypeOK, TreeClosed, TodoWanted, WatchesWanted, IndexedWanted, Phases,
     Scanned, Scheduled, Followed

LEMMA PollKeeps ==
  ASSUME ScopeInv, NEW w \in Emitters, Poll(w)
  PROVE  ScopeInv'
<1>1. /\ phase = "watch" /\ w \in watches
      /\ docs' = [d \in Dirs |-> IF d \in behind \cap Reach(w)
                                   THEN IF d \in tree THEN "current" ELSE "none" ELSE docs[d]]
      /\ behind' = behind \ Reach(w) /\ early' = early \ (behind \cap Reach(w))
      /\ UNCHANGED <<tree, phase, roots, todo, watches, late, edits, crashes>>
  BY DEF Poll, mainVars
<1>2. TypeOK'
  BY <1>1 DEF ScopeInv, TypeOK
<1>3. IndexedWanted'
  <2> SUFFICES ASSUME NEW d \in Reach(w) PROVE \E e \in WatchPaths : InScope(e, d)
    BY <1>1 DEF ScopeInv, IndexedWanted
  <2>1. PICK e \in roots : WatchOf(w, e)
    BY <1>1 DEF ScopeInv, WatchesWanted
  <2> QED
    BY <2>1, WatchReach DEF ScopeInv, TypeOK
<1>4. Followed'
  <2> SUFFICES ASSUME NEW e \in roots, NEW d \in Dirs, InScope(e, d), Watched(d)
               PROVE  UpToDate(d)' \/ d \in early' \cup behind'
    BY <1>1 DEF Followed, Watched
  <2>1. CASE d \in behind \cap Reach(w)
    BY <1>1, <2>1 DEF UpToDate
  <2>2. CASE d \notin behind \cap Reach(w)
    BY <1>1, <2>2 DEF ScopeInv, Followed, UpToDate
  <2> QED
    BY <2>1, <2>2
<1>5. TreeClosed' /\ TodoWanted' /\ WatchesWanted' /\ Phases' /\ Scanned' /\ Scheduled'
  BY <1>1 DEF ScopeInv, TreeClosed, TodoWanted, WatchesWanted, Phases, Scanned, Scheduled,
     Watched, Walking
<1> QED
  BY <1>2, <1>3, <1>4, <1>5 DEF ScopeInv

LEMMA EmitterKeeps ==
  ASSUME ScopeInv, NEW w \in Emitters, EmitterEnds(w)
  PROVE  ScopeInv'
<1>1. /\ phase = "watch" /\ w \in watches /\ w.dir \notin tree
      /\ watches' = watches \ {w} /\ behind' = behind \ Reach(w)
      /\ UNCHANGED <<tree, docs, phase, roots, todo, early, late, edits, crashes>>
  BY DEF EmitterEnds
<1>2. Scheduled'
  <2> SUFFICES ASSUME NEW e \in roots, NEW d \in tree, InScope(e, d), Watched(d)
               PROVE  Watched(d)'
    BY <1>1 DEF ScopeInv, Scheduled, Walking
  <2>1. d \notin Reach(w)
    BY <1>1 DEF ScopeInv, TreeClosed, Reach
  <2> QED
    BY <1>1, <2>1 DEF Watched
<1>3. Followed'
  <2> SUFFICES ASSUME NEW e \in roots, NEW d \in Dirs, InScope(e, d), Watched(d)'
               PROVE  UpToDate(d) \/ d \in early \cup behind'
    BY <1>1 DEF Followed, UpToDate
  <2>1. PICK v \in watches : v # w /\ d \in Reach(v)
    BY <1>1 DEF Watched
  <2>2. PICK f \in roots, g \in roots : WatchOf(v, f) /\ WatchOf(w, g)
    BY <1>1 DEF ScopeInv, WatchesWanted
  <2>3. d \notin Reach(w)
    BY <2>1, <2>2, OneWatch DEF ScopeInv, TypeOK
  <2>4. UpToDate(d) \/ d \in early \cup behind
    BY <1>1, <2>1 DEF ScopeInv, Followed, Watched
  <2> QED
    BY <1>1, <2>3, <2>4
<1>4. TypeOK' /\ Phases' /\ WatchesWanted'
  BY <1>1 DEF ScopeInv, TypeOK, Phases, WatchesWanted
<1>5. TreeClosed' /\ TodoWanted' /\ IndexedWanted' /\ Scanned'
  BY <1>1 DEF ScopeInv, TreeClosed, TodoWanted, IndexedWanted, Scanned
<1> QED
  BY <1>2, <1>3, <1>4, <1>5 DEF ScopeInv

(***************************************************************************)
(* The theorems.                                                           *)
(***************************************************************************)
\* What the walks, the watches and the index hold is as the entries ask, in every
\* reachable state, for any tree and any watch paths that do not overlap.
THEOREM ScopeInvariant == Spec => []ScopeInv
<1>1. ScopeInv /\ [Next]_vars => ScopeInv'
  <2> SUFFICES ASSUME ScopeInv, [Next]_vars PROVE ScopeInv'
    OBVIOUS
  <2>1. CASE UNCHANGED vars
    BY <2>1 DEF vars, ScopeInv, TypeOK, TreeClosed, TodoWanted, WatchesWanted, IndexedWanted,
       Phases, Scanned, Scheduled, Followed, Walking, Watched, UpToDate
  <2>2. CASE StartupFails \/ Crash
    <3>1. crashes \in Nat /\ (crashes' = crashes \/ crashes' = crashes + 1)
      BY <2>2 DEF StartupFails, Crash, ScopeInv, TypeOK
    <3>2. crashes' \in Nat
      BY <3>1
    <3> QED
      BY <2>2, <3>2, StopKeeps DEF StartupFails, Crash
  <2>3. CASE Polls
    BY <2>3, PollKeeps, EmitterKeeps DEF Polls
  <2>4. CASE Startup
    BY <2>2, <2>4, StartKeeps, EndScanKeeps, ObserverKeeps, ScanKeeps, ScheduleKeeps, SkipKeeps
    DEF Startup
  <2> QED
    BY <2>1, <2>2, <2>3, <2>4, EditKeeps DEF Next
<1> QED
  BY <1>1, InitScope, PTL DEF Spec

\* Every variable of WatchScope has its type, and a walk is under way only during the
\* startup.
THEOREM TypeCorrect == Spec => []TypeOK
<1>1. ScopeInv => TypeOK
  BY DEF ScopeInv
<1> QED
  BY <1>1, ScopeInvariant, PTL

\* What exclude_dirs names is never indexed or watched, nor is anything below it.
THEOREM ExcludedStaysOut == Spec => []NothingExcluded
<1>1. ScopeInv => NothingExcluded
  <2> SUFFICES ASSUME ScopeInv, NEW d \in Dirs, NEW w \in watches, d \in Reach(w)
               PROVE  \E e \in WatchPaths : InScope(e, d)
    BY DEF NothingExcluded, ScopeInv, IndexedWanted
  <2>1. PICK e \in roots : WatchOf(w, e)
    BY DEF ScopeInv, WatchesWanted
  <2> QED
    BY <2>1, WatchReach DEF ScopeInv, TypeOK
<1> QED
  BY <1>1, ScopeInvariant, PTL

\* Only a directory that was made after the start of the watcher can go unwatched.
THEOREM WatchesCoverScope == Spec => []WatchCovers
<1>1. ScopeInv => WatchCovers
  BY DEF ScopeInv, TypeOK, Scheduled, Walking, Watched, WatchCovers, Covered
<1> QED
  BY <1>1, ScopeInvariant, PTL

\* Between the scan and the first snapshot nothing is lost but what changed then.
THEOREM WatchedStaysFollowed == Spec => []WatchedIsFollowed
<1>1. ScopeInv => WatchedIsFollowed
  <2> SUFFICES ASSUME ScopeInv, NEW d \in Dirs, Covered(d)
               PROVE  UpToDate(d) \/ d \in behind \cup early
    BY DEF WatchedIsFollowed
  <2>1. PICK w \in watches : d \in Reach(w)
    BY DEF Covered
  <2>2. PICK e \in roots : WatchOf(w, e)
    BY DEF ScopeInv, WatchesWanted
  <2>3. InScope(e, d)
    BY <2>1, <2>2, WatchReach DEF ScopeInv, TypeOK
  <2> QED
    BY <2>1, <2>3 DEF Covered, ScopeInv, Followed, Watched
<1> QED
  BY <1>1, ScopeInvariant, PTL
=============================================================================
