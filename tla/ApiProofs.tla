----------------------------- MODULE ApiProofs -----------------------------
(***************************************************************************)
(* Proofs about two parts of the API, each with an invariant of its own:   *)
(* RateLimit, for every set of addresses, every limit and every window,    *)
(* and Retrieval, for every set of texts and every RECALL_K, RERANK_K and  *)
(* limit.                                                                  *)
(***************************************************************************)
EXTENDS RateLimit, Retrieval, FiniteSetTheorems, TLAPS

(***************************************************************************)
(* RateLimit.  SlidingWindow, which forgets nothing, keeps the bound on    *)
(* the requests of a window; the limiter of the code decides like it,      *)
(* because what it forgets is outside the window for good.                 *)
(***************************************************************************)
LimiterTypeOK ==
  /\ now \in Nat
  /\ served \in [Buckets -> Seq(Nat)]
  /\ stamps \in [Buckets -> SUBSET Nat]
  /\ wakeup \in [Limiters -> Nat]
  /\ answer \in {NoAnswer} \cup [bucket : Buckets, pass : BOOLEAN]

\* Requests pass in the order of time.
Chronological ==
  \A b \in Buckets :
    /\ \A i \in 1 .. Len(served[b]) : served[b][i] <= now
    /\ \A i, j \in 1 .. Len(served[b]) : i <= j => served[b][i] <= served[b][j]

\* Every stamp is that of a request, and only stamps out of the window are gone.
KeepsRecent ==
  \A b \in Buckets : Complete!Recent(b) \subseteq stamps[b] /\ stamps[b] \subseteq 1 .. Len(served[b])

\* A bucket is young enough to outlive the next sweep, or has a stamp that does.
SweptInTime ==
  /\ \A l \in Limiters : now <= wakeup[l] /\ wakeup[l] <= now + Window
  /\ \A b \in Buckets : stamps[b] # {} =>
       \E i \in stamps[b] : wakeup[b[1]] < served[b][i] + 2 * Window

Bounded == \A b \in Buckets : Cardinality(stamps[b]) <= MaxRequests[b[1]]

\* The inductive invariant behind BucketsExpire and the refinement.
LimiterInv ==
  /\ LimiterTypeOK
  /\ Chronological /\ WindowBound
  /\ KeepsRecent
  /\ SweptInTime
  /\ Bounded

(***************************************************************************)
(* Facts about the operators.                                              *)
(***************************************************************************)
LEMMA Appended ==
  ASSUME NEW S, NEW s \in Seq(S), NEW x \in S
  PROVE  /\ Append(s, x) \in Seq(S)
         /\ Len(Append(s, x)) = Len(s) + 1
         /\ \A i \in 1 .. Len(s) : Append(s, x)[i] = s[i]
         /\ Append(s, x)[Len(s) + 1] = x
  OBVIOUS

LEMMA BucketType ==
  ASSUME NEW b \in Buckets
  PROVE  b[1] \in Limiters /\ MaxRequests[b[1]] \in Nat \ {0}
  BY RateAssumption DEF Buckets

LEMMA SameCardinality ==
  ASSUME NEW S
  PROVE  Complete!Cardinality(S) = Cardinality(S)
  BY DEF Complete!Cardinality, Cardinality

LEMMA Later ==
  ASSUME NEW t \in Nat, NEW u \in Nat, NEW n \in Nat, NEW w \in Nat, t <= u, n - t < w
  PROVE  n - u < w
  OBVIOUS

LEMMA FinitelyMany ==
  ASSUME NEW n \in Nat, NEW S \in SUBSET (1 .. n)
  PROVE  IsFiniteSet(S) /\ Cardinality(S) \in Nat
<1>1. IsFiniteSet(1 .. n)
  BY FS_Interval
<1>2. IsFiniteSet(S)
  BY <1>1, FS_Subset
<1> QED
  BY <1>2, FS_CardinalityType

LEMMA RecentType ==
  ASSUME LimiterTypeOK, NEW b \in Buckets
  PROVE  /\ Complete!Recent(b) \subseteq 1 .. Len(served[b])
         /\ IsFiniteSet(Complete!Recent(b))
         /\ Cardinality(Complete!Recent(b)) \in Nat
<1>1. Complete!Recent(b) \subseteq 1 .. Len(served[b]) /\ Len(served[b]) \in Nat
  BY DEF LimiterTypeOK, Complete!Recent
<1> QED
  BY <1>1, FinitelyMany

\* The decision of the code is that of the limiter that forgets nothing.
LEMMA ActiveIsRecent ==
  ASSUME LimiterInv, NEW b \in Buckets
  PROVE  Active(b) = Complete!Recent(b)
  BY DEF LimiterInv, LimiterTypeOK, KeepsRecent, Active, Complete!Recent

(***************************************************************************)
(* SlidingWindow: the bound.                                               *)
(***************************************************************************)
CompleteInv ==
  /\ now \in Nat /\ served \in [Buckets -> Seq(Nat)]
  /\ Chronological
  /\ Complete!WindowBound

\* Times never decrease, so if a request is recent then all after it are.
LEMMA RecentIsFinal ==
  ASSUME CompleteInv, NEW b \in Buckets, NEW i \in Complete!Recent(b)
  PROVE  i .. Len(served[b]) \subseteq Complete!Recent(b)
<1>1. /\ served[b] \in Seq(Nat) /\ Len(served[b]) \in Nat /\ i \in 1 .. Len(served[b])
      /\ now - served[b][i] < Window /\ now \in Nat /\ Window \in Nat
  BY RateAssumption DEF CompleteInv, Complete!Recent
<1>2. ASSUME NEW j \in i .. Len(served[b]) PROVE j \in Complete!Recent(b)
  <2>1. j \in 1 .. Len(served[b]) /\ i <= j
    BY <1>1
  <2>2. served[b][i] <= served[b][j] /\ served[b][i] \in Nat /\ served[b][j] \in Nat
    BY <1>1, <2>1 DEF CompleteInv, Chronological
  <2>3. now - served[b][j] < Window
    BY <1>1, <2>2, Later
  <2> QED
    BY <2>1, <2>3 DEF Complete!Recent
<1> QED
  BY <1>2

\* A request that passes is a window away from the one Limit places earlier.
LEMMA PassIsFar ==
  ASSUME CompleteInv, NEW b \in Buckets,
         Cardinality(Complete!Recent(b)) < MaxRequests[b[1]],
         NEW i \in 1 .. Len(served[b]), i + MaxRequests[b[1]] <= Len(served[b]) + 1
  PROVE  served[b][i] + Window <= now
<1> SUFFICES ASSUME now < served[b][i] + Window PROVE FALSE
  BY RateAssumption DEF CompleteInv
<1> DEFINE n == Len(served[b])
<1>1. n \in Nat /\ i \in Nat /\ MaxRequests[b[1]] \in Nat
  BY BucketType DEF CompleteInv
<1>2. i \in Complete!Recent(b)
  BY RateAssumption DEF CompleteInv, Complete!Recent
<1>3. i .. n \subseteq Complete!Recent(b)
  BY <1>2, RecentIsFinal
<1>4. Complete!Recent(b) \subseteq 1 .. n
  BY DEF Complete!Recent
<1>5. IsFiniteSet(Complete!Recent(b)) /\ Cardinality(Complete!Recent(b)) \in Nat
  BY <1>1, <1>4, FinitelyMany
<1>6. Cardinality(i .. n) <= Cardinality(Complete!Recent(b))
  BY <1>3, <1>5, FS_Subset
<1>7. Cardinality(i .. n) = n - i + 1
  BY <1>1, FS_Interval
<1> QED
  BY <1>1, <1>5, <1>6, <1>7

LEMMA PassKeepsBound ==
  ASSUME CompleteInv, NEW b \in Buckets, Complete!Pass(b)
  PROVE  CompleteInv'
<1>1. /\ now \in Nat /\ now' = now
      /\ served' = [served EXCEPT ![b] = Append(@, now)]
      /\ Cardinality(Complete!Recent(b)) < MaxRequests[b[1]]
  BY SameCardinality DEF CompleteInv, Complete!Pass
<1>2. served' \in [Buckets -> Seq(Nat)]
  <2>1. served \in [Buckets -> Seq(Nat)] /\ Append(served[b], now) \in Seq(Nat)
    BY <1>1 DEF CompleteInv
  <2> QED
    BY <1>1, <2>1
<1>3. ASSUME NEW c \in Buckets, c # b PROVE served'[c] = served[c]
  BY <1>1, <1>3 DEF CompleteInv
<1> DEFINE n == Len(served[b])
<1>4. /\ n \in Nat /\ served[b] \in Seq(Nat) /\ Len(served'[b]) = n + 1
      /\ served'[b][n + 1] = now /\ \A i \in 1 .. n : served'[b][i] = served[b][i]
  <2>1. served[b] \in Seq(Nat) /\ served'[b] = Append(served[b], now)
    BY <1>1 DEF CompleteInv
  <2> QED
    BY <1>1, <2>1, Appended
<1>5. \A i \in 1 .. n + 1 : i \in 1 .. n \/ i = n + 1
  BY <1>4
<1>6. \A i \in 1 .. n : served[b][i] \in Nat /\ served[b][i] <= now
  BY <1>4 DEF CompleteInv, Chronological
<1> HIDE DEF n
<1>7. \A i \in 1 .. n + 1 : served'[b][i] <= now
  BY <1>1, <1>4, <1>5, <1>6
<1>8. ASSUME NEW i \in 1 .. n + 1, NEW j \in 1 .. n + 1, i <= j
      PROVE  served'[b][i] <= served'[b][j]
  <2>1. CASE j = n + 1
    BY <1>4, <1>7, <2>1
  <2>2. CASE i \in 1 .. n /\ j \in 1 .. n
    BY <1>4, <1>8, <2>2 DEF CompleteInv, Chronological, n
  <2> QED
    BY <1>4, <1>5, <1>8, <2>1, <2>2
<1>9. Chronological'
  BY <1>1, <1>3, <1>4, <1>7, <1>8 DEF CompleteInv, Chronological
<1>10. ASSUME NEW i \in 1 .. n + 1, NEW j \in 1 .. n + 1, i + MaxRequests[b[1]] <= j
       PROVE  served'[b][j] >= served'[b][i] + Window
  <2>1. MaxRequests[b[1]] \in Nat \ {0} /\ Window \in Nat
    BY BucketType, RateAssumption
  <2>2. i \in 1 .. n
    BY <1>4, <1>10, <2>1
  <2>3. CASE j \in 1 .. n
    BY <1>4, <1>10, <2>2, <2>3 DEF CompleteInv, Complete!WindowBound, n
  <2>4. CASE j = n + 1
    <3>1. served[b][i] + Window <= now
      BY <1>1, <1>10, <2>2, <2>4, PassIsFar DEF n
    <3> QED
      BY <1>1, <1>4, <1>6, <2>1, <2>2, <2>4, <3>1
  <2> QED
    BY <1>5, <2>3, <2>4
<1>11. Complete!WindowBound'
  BY <1>3, <1>4, <1>10 DEF CompleteInv, Complete!WindowBound
<1> QED
  BY <1>1, <1>2, <1>9, <1>11 DEF CompleteInv

LEMMA CompleteStep ==
  ASSUME CompleteInv, [Complete!Next]_(Complete!vars)
  PROVE  CompleteInv'
<1>1. ASSUME NEW b \in Buckets, Complete!Pass(b) PROVE CompleteInv'
  BY <1>1, PassKeepsBound
<1>2. CASE served' = served /\ (now' = now \/ now' = now + 1)
  <2>1. now' \in Nat /\ now <= now'
    BY <1>2 DEF CompleteInv
  <2>2. Chronological'
    <3>1. \A b \in Buckets : \A i \in 1 .. Len(served[b]) :
            served[b][i] \in Nat /\ served[b][i] <= now
      BY DEF CompleteInv, Chronological
    <3> QED
      BY <1>2, <2>1, <3>1 DEF CompleteInv, Chronological
  <2> QED
    BY <1>2, <2>1, <2>2 DEF CompleteInv, Complete!WindowBound
<1> QED
  BY <1>1, <1>2 DEF Complete!Next, Complete!Reject, Complete!Return, Complete!Tick, Complete!vars

(***************************************************************************)
(* RateLimit: what it forgets.                                             *)
(***************************************************************************)
LEMMA InitHolds ==
  ASSUME Init
  PROVE  LimiterInv /\ Complete!Init /\ CompleteInv
<1>1. /\ now = 0 /\ Window \in Nat
      /\ \A b \in Buckets : stamps[b] = {} /\ served[b] = <<>>
      /\ \A l \in Limiters : wakeup[l] = Window
  BY RateAssumption DEF Init
<1>2. \A b \in Buckets : 1 .. Len(served[b]) = {}
  BY <1>1
<1>3. LimiterTypeOK
  BY <1>1 DEF Init, LimiterTypeOK
<1>4. Chronological /\ Complete!WindowBound
  BY <1>2 DEF Chronological, Complete!WindowBound
<1>5. KeepsRecent
  BY <1>1, <1>2 DEF KeepsRecent, Complete!Recent
<1>6. SweptInTime
  BY <1>1 DEF SweptInTime
<1>7. Bounded
  <2>1. Cardinality({}) = 0
    BY FS_EmptySet
  <2>2. ASSUME NEW b \in Buckets PROVE Cardinality(stamps[b]) <= MaxRequests[b[1]]
    <3>1. Cardinality(stamps[b]) = 0
      BY <1>1, <2>1
    <3> QED
      BY <3>1, BucketType
  <2> QED
    BY <2>2 DEF Bounded
<1>8. Complete!Init
  BY DEF Init, Complete!Init, NoAnswer, Complete!NoAnswer
<1> QED
  BY <1>3, <1>4, <1>5, <1>6, <1>7, <1>8 DEF LimiterInv, CompleteInv, LimiterTypeOK, WindowBound

\* What a check leaves in its bucket.
LEMMA CheckEffect ==
  ASSUME LimiterInv, NEW b \in Buckets, Check(b)
  PROVE  /\ now' = now /\ wakeup' = wakeup /\ answer = NoAnswer
         /\ \/ /\ Cardinality(Complete!Recent(b)) < MaxRequests[b[1]]
               /\ served' = [served EXCEPT ![b] = Append(@, now)]
               /\ stamps' = [stamps EXCEPT ![b] = Complete!Recent(b) \cup {Len(served[b]) + 1}]
               /\ answer' = [bucket |-> b, pass |-> TRUE]
            \/ /\ Cardinality(Complete!Recent(b)) >= MaxRequests[b[1]]
               /\ served' = served
               /\ stamps' = [stamps EXCEPT ![b] = Complete!Recent(b)]
               /\ answer' = [bucket |-> b, pass |-> FALSE]
<1>1. Active(b) = Complete!Recent(b)
  BY ActiveIsRecent
<1>2. Cardinality(Complete!Recent(b)) \in Nat /\ MaxRequests[b[1]] \in Nat
  BY RecentType, BucketType DEF LimiterInv
<1>3. CASE Cardinality(Active(b)) < MaxRequests[b[1]]
  BY <1>1, <1>3 DEF Check
<1>4. CASE ~(Cardinality(Active(b)) < MaxRequests[b[1]])
  <2>. DEFINE pass == Cardinality(Active(b)) < MaxRequests[b[1]]
  <2>0. pass = FALSE
    BY <1>4
  <2>1. Cardinality(Complete!Recent(b)) >= MaxRequests[b[1]]
    BY <1>1, <1>2, <1>4
  <2>2. Complete!Recent(b) \cup {} = Complete!Recent(b)
    OBVIOUS
  <2> QED
    BY <1>1, <1>4, <2>0, <2>1, <2>2 DEF Check
<1> QED
  BY <1>3, <1>4

\* Each step is a step of the limiter that forgets nothing, or none it can see.
LEMMA StepImplements ==
  ASSUME LimiterInv, [Next]_vars
  PROVE  [Complete!Next]_(Complete!vars)
<1>1. ASSUME NEW b \in Buckets, Check(b) PROVE Complete!Next
  <2>1. CASE Cardinality(Complete!Recent(b)) < MaxRequests[b[1]]
    <3>1. Complete!Pass(b)
      <4>1. Cardinality(Complete!Recent(b)) \in Nat /\ MaxRequests[b[1]] \in Nat
        BY RecentType, BucketType DEF LimiterInv
      <4> QED
        BY <1>1, <2>1, <4>1, CheckEffect, SameCardinality
        DEF Complete!Pass, Complete!Answer, NoAnswer, Complete!NoAnswer
    <3> QED
      BY <3>1 DEF Complete!Next
  <2>2. CASE ~(Cardinality(Complete!Recent(b)) < MaxRequests[b[1]])
    <3>1. Complete!Reject(b)
      BY <1>1, <2>2, CheckEffect, SameCardinality
      DEF Complete!Reject, Complete!Answer, NoAnswer, Complete!NoAnswer
    <3> QED
      BY <3>1 DEF Complete!Next
  <2> QED
    BY <2>1, <2>2
<1>2. CASE Return
  BY <1>2 DEF Return, Complete!Return, Complete!Next, NoAnswer, Complete!NoAnswer
<1>3. CASE Tick
  BY <1>3 DEF Tick, Complete!Tick, Complete!Next
<1>4. ASSUME NEW l \in Limiters, Sweep(l) PROVE UNCHANGED Complete!vars
  BY <1>4 DEF Sweep, Complete!vars
<1>5. CASE UNCHANGED vars
  BY <1>5 DEF vars, Complete!vars
<1> QED
  BY <1>1, <1>2, <1>3, <1>4, <1>5 DEF Next

\* What the checks and sweeps must keep true of one bucket.
BucketOK(b) ==
  /\ Complete!Recent(b) \subseteq stamps[b] /\ stamps[b] \subseteq 1 .. Len(served[b])
  /\ stamps[b] # {} => \E i \in stamps[b] : wakeup[b[1]] < served[b][i] + 2 * Window
  /\ Cardinality(stamps[b]) <= MaxRequests[b[1]]

LEMMA BucketsOK ==
  (\A b \in Buckets : BucketOK(b)) <=>
    /\ KeepsRecent /\ Bounded
    /\ \A b \in Buckets : stamps[b] # {} =>
         \E i \in stamps[b] : wakeup[b[1]] < served[b][i] + 2 * Window
  BY DEF BucketOK, KeepsRecent, Bounded

LEMMA BucketFacts ==
  ASSUME LimiterInv, NEW b \in Buckets
  PROVE  /\ now \in Nat /\ Window \in Nat \ {0} /\ served[b] \in Seq(Nat) /\ Len(served[b]) \in Nat
         /\ \A i \in 1 .. Len(served[b]) : served[b][i] \in Nat /\ served[b][i] <= now
         /\ wakeup[b[1]] \in Nat /\ now <= wakeup[b[1]] /\ wakeup[b[1]] <= now + Window
         /\ BucketOK(b)
<1>1. b[1] \in Limiters
  BY BucketType
<1>2. BucketOK(b)
  BY BucketsOK DEF LimiterInv, SweptInTime
<1> QED
  BY <1>1, <1>2, RateAssumption DEF LimiterInv, LimiterTypeOK, Chronological, SweptInTime

\* A stamp that counts outlives the next sweep.
LEMMA RecentSurvives ==
  ASSUME LimiterInv, NEW b \in Buckets, NEW i \in Complete!Recent(b)
  PROVE  wakeup[b[1]] < served[b][i] + 2 * Window /\ now + Window < served[b][i] + 2 * Window
<1>1. i \in 1 .. Len(served[b]) /\ now - served[b][i] < Window
  BY DEF Complete!Recent
<1>2. served[b][i] \in Nat
  BY <1>1, BucketFacts
<1>3. /\ now \in Nat /\ Window \in Nat /\ wakeup[b[1]] \in Nat
      /\ wakeup[b[1]] <= now + Window
  BY BucketFacts
<1> QED
  BY <1>1, <1>2, <1>3

LEMMA CheckKeepsBuckets ==
  ASSUME LimiterInv, NEW b \in Buckets, Check(b), NEW c \in Buckets
  PROVE  BucketOK(c)'
<1> DEFINE n == Len(served[b])
<1>1. wakeup' = wakeup /\ now' = now
  BY CheckEffect
<1>2. CASE c # b
  <2>1. served'[c] = served[c] /\ stamps'[c] = stamps[c]
    BY <1>2, CheckEffect DEF LimiterInv, LimiterTypeOK
  <2>2. Complete!Recent(c)' = Complete!Recent(c)
    BY <1>1, <2>1 DEF Complete!Recent
  <2> QED
    BY <1>1, <2>1, <2>2, BucketFacts DEF BucketOK
<1>3. CASE /\ c = b /\ Cardinality(Complete!Recent(b)) < MaxRequests[b[1]]
           /\ served' = [served EXCEPT ![b] = Append(@, now)]
           /\ stamps' = [stamps EXCEPT ![b] = Complete!Recent(b) \cup {n + 1}]
  <2>1. served'[b] = Append(served[b], now) /\ stamps'[b] = Complete!Recent(b) \cup {n + 1}
    BY <1>3 DEF LimiterInv, LimiterTypeOK
  <2>2. /\ Len(served'[b]) = n + 1 /\ served'[b][n + 1] = now
        /\ \A i \in 1 .. n : served'[b][i] = served[b][i]
    BY <2>1, BucketFacts, Appended
  <2>3. n \in Nat /\ \A i \in 1 .. n + 1 : i \in 1 .. n \/ i = n + 1
    BY BucketFacts
  <2>4. stamps'[b] \subseteq 1 .. n + 1
    BY <2>1, <2>3, RecentType DEF LimiterInv
  <2>5. Complete!Recent(b)' \subseteq stamps'[b]
    <3> SUFFICES ASSUME NEW i \in 1 .. n + 1, now - served'[b][i] < Window
                 PROVE  i \in Complete!Recent(b) \cup {n + 1}
      BY <1>1, <2>1, <2>2 DEF Complete!Recent
    <3> QED
      BY <2>2, <2>3 DEF Complete!Recent
  <2>6. n + 1 \in stamps'[b] /\ wakeup'[b[1]] < served'[b][n + 1] + 2 * Window
    BY <1>1, <2>1, <2>2, BucketFacts
  <2>7. Cardinality(stamps'[b]) <= MaxRequests[b[1]]
    <3>1. IsFiniteSet(Complete!Recent(b)) /\ Cardinality(Complete!Recent(b)) \in Nat
      BY RecentType DEF LimiterInv
    <3>2. Cardinality(stamps'[b]) \in {Cardinality(Complete!Recent(b)),
                                      Cardinality(Complete!Recent(b)) + 1}
      BY <2>1, <3>1, FS_AddElement
    <3> QED
      BY <1>3, <3>1, <3>2, BucketType
  <2> QED
    BY <1>3, <2>2, <2>4, <2>5, <2>6, <2>7 DEF BucketOK
<1>4. CASE /\ c = b /\ Cardinality(Complete!Recent(b)) >= MaxRequests[b[1]]
           /\ served' = served /\ stamps' = [stamps EXCEPT ![b] = Complete!Recent(b)]
  <2>1. stamps'[b] = Complete!Recent(b) /\ Complete!Recent(b)' = Complete!Recent(b)
    BY <1>1, <1>4 DEF LimiterInv, LimiterTypeOK, Complete!Recent
  <2>2. Complete!Recent(b) \subseteq 1 .. n
    BY RecentType DEF LimiterInv
  <2>3. \A i \in Complete!Recent(b) : wakeup[b[1]] < served[b][i] + 2 * Window
    BY RecentSurvives
  <2>4. Cardinality(Complete!Recent(b)) <= MaxRequests[b[1]]
    <3>1. IsFiniteSet(stamps[b]) /\ Cardinality(stamps[b]) \in Nat
      BY BucketFacts, FinitelyMany DEF BucketOK
    <3>2. Cardinality(Complete!Recent(b)) <= Cardinality(stamps[b])
      BY <3>1, BucketFacts, FS_Subset DEF BucketOK
    <3>3. Cardinality(stamps[b]) <= MaxRequests[b[1]]
      BY BucketFacts DEF BucketOK
    <3> QED
      BY <3>1, <3>2, <3>3, BucketType, RecentType DEF LimiterInv
  <2> QED
    BY <1>1, <1>4, <2>1, <2>2, <2>3, <2>4 DEF BucketOK
<1> QED
  BY <1>2, <1>3, <1>4, CheckEffect

LEMMA SweepKeepsBuckets ==
  ASSUME LimiterInv, NEW l \in Limiters, Sweep(l), NEW c \in Buckets
  PROVE  BucketOK(c)'
<1>1. now' = now /\ served' = served /\ Complete!Recent(c)' = Complete!Recent(c)
  BY DEF Sweep, Complete!Recent
<1>2. stamps'[c] = IF c[1] = l /\ Complete!Recent(c) = {} THEN {} ELSE stamps[c]
  BY ActiveIsRecent DEF Sweep
<1>3. wakeup'[c[1]] = IF c[1] = l THEN now + Window ELSE wakeup[c[1]]
  BY BucketType DEF Sweep, LimiterInv, LimiterTypeOK
<1>4. CASE stamps'[c] = {}
  <2>1. Complete!Recent(c) = {}
    BY <1>2, <1>4, BucketFacts DEF BucketOK
  <2>2. Cardinality({}) = 0 /\ 0 <= MaxRequests[c[1]]
    BY FS_EmptySet, BucketType
  <2> QED
    BY <1>1, <1>4, <2>1, <2>2 DEF BucketOK
<1>5. CASE stamps'[c] # {}
  <2>1. stamps'[c] = stamps[c] /\ (c[1] = l => Complete!Recent(c) # {})
    BY <1>2, <1>5
  <2>2. \E i \in stamps[c] : wakeup'[c[1]] < served[c][i] + 2 * Window
    BY <1>3, <1>5, <2>1, BucketFacts, RecentSurvives DEF BucketOK
  <2> QED
    BY <1>1, <2>1, <2>2, BucketFacts DEF BucketOK
<1> QED
  BY <1>4, <1>5

LEMMA TickKeepsBuckets ==
  ASSUME LimiterInv, Tick, NEW c \in Buckets
  PROVE  BucketOK(c)'
<1>1. /\ now' = now + 1 /\ served' = served /\ stamps' = stamps /\ wakeup' = wakeup
      /\ now \in Nat /\ Window \in Nat
  BY RateAssumption DEF Tick, LimiterInv, LimiterTypeOK
<1>2. ASSUME NEW i \in Complete!Recent(c)' PROVE i \in Complete!Recent(c)
  <2>1. i \in 1 .. Len(served'[c]) /\ now' - served'[c][i] < Window
    BY DEF Complete!Recent
  <2>2. i \in 1 .. Len(served[c]) /\ served[c][i] \in Nat
    BY <1>1, <2>1, BucketFacts
  <2>3. now - served[c][i] < Window
    BY <1>1, <2>1, <2>2
  <2> QED
    BY <2>2, <2>3 DEF Complete!Recent
<1> QED
  BY <1>1, <1>2, BucketFacts DEF BucketOK

LEMMA TypeStep ==
  ASSUME LimiterInv, [Next]_vars
  PROVE  LimiterTypeOK'
<1>1. ASSUME NEW b \in Buckets, Check(b) PROVE LimiterTypeOK'
  <2>1. now \in Nat /\ served[b] \in Seq(Nat) /\ Len(served[b]) \in Nat
    BY BucketFacts
  <2>2. Append(served[b], now) \in Seq(Nat)
    BY <2>1
  <2>3. Complete!Recent(b) \subseteq Nat /\ Len(served[b]) + 1 \in Nat
    BY <2>1, RecentType DEF LimiterInv
  <2>4. served' = served \/ served' = [served EXCEPT ![b] = Append(@, now)]
    BY <1>1, CheckEffect
  <2>5. served' \in [Buckets -> Seq(Nat)]
    BY <2>2, <2>4 DEF LimiterInv, LimiterTypeOK
  <2>6. \E S \in SUBSET Nat : stamps' = [stamps EXCEPT ![b] = S]
    <3>1. Complete!Recent(b) \cup {Len(served[b]) + 1} \in SUBSET Nat
      BY <2>3
    <3> QED
      BY <1>1, <2>3, <3>1, CheckEffect
  <2>7. stamps' \in [Buckets -> SUBSET Nat]
    BY <2>6 DEF LimiterInv, LimiterTypeOK
  <2>8. now' = now /\ wakeup' = wakeup /\ \E v \in BOOLEAN : answer' = [bucket |-> b, pass |-> v]
    BY <1>1, CheckEffect
  <2>9. answer' \in [bucket : Buckets, pass : BOOLEAN]
    BY <2>8
  <2> QED
    BY <2>5, <2>7, <2>8, <2>9 DEF LimiterInv, LimiterTypeOK
<1>2. ASSUME NEW l \in Limiters, Sweep(l) PROVE LimiterTypeOK'
  BY <1>2, RateAssumption DEF Sweep, LimiterInv, LimiterTypeOK
<1>3. CASE Return \/ Tick \/ UNCHANGED vars
  BY <1>3 DEF Return, Tick, vars, LimiterInv, LimiterTypeOK
<1> QED
  BY <1>1, <1>2, <1>3 DEF Next

LEMMA WakeupStep ==
  ASSUME LimiterInv, [Next]_vars, NEW l \in Limiters
  PROVE  (now <= wakeup[l] /\ wakeup[l] <= now + Window)'
<1>1. now \in Nat /\ Window \in Nat /\ wakeup[l] \in Nat /\ now <= wakeup[l] /\ wakeup[l] <= now + Window
  BY RateAssumption DEF LimiterInv, LimiterTypeOK, SweptInTime
<1>2. ASSUME NEW k \in Limiters, Sweep(k) PROVE (now <= wakeup[l] /\ wakeup[l] <= now + Window)'
  <2>1. now' = now /\ wakeup'[l] = IF l = k THEN now + Window ELSE wakeup[l]
    BY <1>2 DEF Sweep, LimiterInv, LimiterTypeOK
  <2> QED
    BY <1>1, <2>1
<1>3. CASE Tick
  BY <1>1, <1>3 DEF Tick
<1>4. CASE UNCHANGED <<now, wakeup>>
  BY <1>1, <1>4
<1> QED
  BY <1>2, <1>3, <1>4, CheckEffect DEF Next, Return, vars

LEMMA LimiterStep ==
  ASSUME LimiterInv, [Next]_vars
  PROVE  LimiterInv'
<1>1. LimiterTypeOK'
  BY TypeStep
<1>2. Chronological' /\ WindowBound'
  <2>1. CompleteInv
    BY DEF CompleteInv, LimiterInv, LimiterTypeOK, WindowBound
  <2>2. CompleteInv'
    BY <2>1, StepImplements, CompleteStep
  <2> QED
    BY <2>2 DEF CompleteInv, WindowBound
<1>3. \A c \in Buckets : BucketOK(c)'
  <2>1. CASE UNCHANGED <<now, stamps, wakeup, served>>
    BY <2>1, BucketFacts DEF BucketOK, Complete!Recent
  <2> QED
    BY <2>1, CheckKeepsBuckets, SweepKeepsBuckets, TickKeepsBuckets DEF Next, Return, vars
<1>4. KeepsRecent' /\ Bounded' /\ SweptInTime'
  <2>1. \A l \in Limiters : (now <= wakeup[l] /\ wakeup[l] <= now + Window)'
    BY WakeupStep
  <2> QED
    BY <1>3, <2>1 DEF BucketOK, KeepsRecent, Bounded, SweptInTime
<1> QED
  BY <1>1, <1>2, <1>4 DEF LimiterInv

(***************************************************************************)
(* The theorems.                                                           *)
(***************************************************************************)
\* The stamps the limiter keeps hold every request of the window, in any order of
\* requests, rejections, sweeps and ticks of the clock.
THEOREM LimiterInvariant == Spec => []LimiterInv
<1>1. Init => LimiterInv
  BY InitHolds
<1>2. LimiterInv /\ [Next]_vars => LimiterInv'
  BY LimiterStep
<1> QED
  BY <1>1, <1>2, PTL DEF Spec

\* For any limit, window and number of addresses: no window of time sees more than the
\* limit of requests pass, wherever it starts.
THEOREM NoWindowIsOverfull == Spec => []WindowBound
<1>1. LimiterInv => WindowBound
  BY DEF LimiterInv
<1> QED
  BY <1>1, LimiterInvariant, PTL

\* A limiter that drops stamps and buckets answers like one that remembers every
\* request it ever let pass.
THEOREM ForgettingChangesNothing == Spec => ForgettingIsSafe
<1>1. Init => Complete!Init
  BY InitHolds
<1>2. LimiterInv /\ [Next]_vars => [Complete!Next]_(Complete!vars)
  BY StepImplements
<1> QED
  BY <1>1, <1>2, LimiterInvariant, PTL DEF Spec, Complete!Spec, ForgettingIsSafe

\* Memory is bounded: a bucket never holds more stamps than the limit, and one whose
\* address stays away for two windows is gone.
THEOREM BucketsAreForgotten == Spec => []BucketsExpire
<1>1. LimiterInv => BucketsExpire
  <2> SUFFICES ASSUME LimiterInv, NEW b \in Buckets
               PROVE  /\ Cardinality(stamps[b]) <= MaxRequests[b[1]]
                      /\ stamps[b] # {} => \E i \in stamps[b] : now < served[b][i] + 2 * Window
    BY DEF BucketsExpire
  <2>1. \A i \in stamps[b] : wakeup[b[1]] < served[b][i] + 2 * Window
                               => now < served[b][i] + 2 * Window
    BY BucketFacts DEF BucketOK
  <2> QED
    BY <2>1, BucketFacts DEF BucketOK
<1> QED
  BY <1>1, LimiterInvariant, PTL

(***************************************************************************)
(* Retrieval.  Where the loops of _fuse stand, the dict holds the texts    *)
(* read and what reciprocal rank fusion gives them; behind the loops that  *)
(* is their fused score, and the cut keeps the best.                       *)
(***************************************************************************)
Early == {"filenames", "embed", "vector", "keyword"}
Chunks == Texts \cup {Empty}
Fractions == [num : Nat, den : Nat]

RetrieveTypeOK ==
  /\ pc \in Early \cup {"fuse", "rerank", "done"}
  /\ limit \in Limits
  /\ vector \in Seq(Chunks) /\ Len(vector) <= RecallK
  /\ keyword \in Seq(Chunks) /\ Len(keyword) <= RecallK
  /\ list \in {1, 2} /\ at \in 1 .. Len(Ranked) + 1
  /\ seen \in SUBSET Texts
  /\ fused \in Seq(Texts) /\ score \in [Texts -> Fractions]
  /\ candidates \in Seq(Texts) /\ result \in Seq(Texts)
  /\ pc # "done" => outcome = "open"

\* The texts among the first n chunks.
TextsIn(ranked, n) == {t \in Texts : \E i \in 1 .. n : ranked[i] = t}

VectorRead == TextsIn(vector, IF list = 1 THEN at - 1 ELSE Len(vector))
KeywordRead == TextsIn(keyword, IF list = 1 THEN 0 ELSE at - 1)

\* The score of a text as far as the lists were read.
ScoreSoFar(t) ==
  LET v == RrfK + Rank(vector, t)
      k == RrfK + Rank(keyword, t)
  IN IF t \in VectorRead
       THEN IF t \in KeywordRead THEN [num |-> v + k, den |-> v * k] ELSE [num |-> 1, den |-> v]
       ELSE IF t \in KeywordRead THEN [num |-> 1, den |-> k] ELSE Zero

Ranks == /\ \A t \in VectorRead : Rank(vector, t) \in 1 .. RecallK
         /\ \A t \in KeywordRead : Rank(keyword, t) \in 1 .. RecallK

\* The invariant of the loops of _fuse.
LoopInv ==
  /\ seen = IF list = 1 THEN VectorRead ELSE KeywordRead
  /\ {fused[i] : i \in 1 .. Len(fused)} = VectorRead \cup KeywordRead
  /\ \A i, j \in 1 .. Len(fused) : i # j => fused[i] # fused[j]
  /\ \A t \in Texts : score[t] = ScoreSoFar(t)
  /\ Ranks

\* Before the loops.
Unread == list = 1 /\ at = 1 /\ seen = {} /\ fused = <<>> /\ score = [t \in Texts |-> Zero]

\* Which stage comes after which loop.
StageInv ==
  /\ pc \in Early => Unread
  /\ pc = "done" => outcome # "open"
  /\ pc = "rerank" \/ outcome = "chunks" => list = 2 /\ at = Len(keyword) + 1
  /\ outcome \in {"open", "chunks"} => failed \subseteq {"facet", "keyword"}

RetrieveInv == RetrieveTypeOK /\ StageInv /\ LoopInv

(***************************************************************************)
(* Lists.                                                                  *)
(***************************************************************************)
LEMMA ListsAreSequences ==
  ASSUME NEW r \in Lists
  PROVE  r \in Seq(Chunks) /\ Len(r) <= RecallK
<1>1. PICK n \in 0 .. RecallK : r \in [1 .. n -> Chunks]
  BY DEF Lists, Chunks
<1>2. n \in Nat /\ RecallK \in Nat
  BY RetrievalAssumption
<1>3. r \in Seq(Chunks)
  BY <1>1, <1>2
<1>4. Len(r) = n
  BY <1>1, <1>2, <1>3
<1> QED
  BY <1>2, <1>3, <1>4

LEMMA ReadOne ==
  ASSUME NEW r, NEW n \in Nat
  PROVE  /\ r[n + 1] \in Texts => TextsIn(r, n + 1) = TextsIn(r, n) \cup {r[n + 1]}
         /\ r[n + 1] \notin Texts \/ r[n + 1] \in TextsIn(r, n) => TextsIn(r, n + 1) = TextsIn(r, n)
<1>1. \A i : i \in 1 .. n + 1 <=> (i \in 1 .. n \/ i = n + 1)
  OBVIOUS
<1> QED
  BY <1>1 DEF TextsIn

LEMMA ReadNone == ASSUME NEW r PROVE TextsIn(r, 0) = {}
  BY DEF TextsIn

\* At its first place in a list the rank of a text is the number of texts seen.
LEMMA RankAtFirst ==
  ASSUME NEW r \in Seq(Chunks), NEW n \in Nat, n < Len(r),
         r[n + 1] \in Texts, r[n + 1] \notin TextsIn(r, n)
  PROVE  Rank(r, r[n + 1]) = Cardinality(TextsIn(r, n) \cup {r[n + 1]})
<1> DEFINE t == r[n + 1]
           U == {u \in Texts : \E i \in DOMAIN r : r[i] = u /\ \A j \in 1 .. i - 1 : r[j] # t}
<1>1. n + 1 \in DOMAIN r /\ \A i \in 1 .. n + 1 : i \in DOMAIN r
  OBVIOUS
<1>2. \A j \in 1 .. n : r[j] # t
  BY DEF TextsIn
<1>3. ASSUME NEW u \in TextsIn(r, n) \cup {t} PROVE u \in U
  <2>1. u \in Texts /\ \E i \in 1 .. n + 1 : r[i] = u
    BY <1>3 DEF TextsIn
  <2>2. \A i \in 1 .. n + 1 : \A j \in 1 .. i - 1 : j \in 1 .. n
    OBVIOUS
  <2> QED
    BY <1>1, <1>2, <2>1, <2>2
<1>4. ASSUME NEW u \in U PROVE u \in TextsIn(r, n) \cup {t}
  <2>1. PICK i \in DOMAIN r : r[i] = u /\ \A j \in 1 .. i - 1 : r[j] # t
    BY <1>4
  <2>2. i \in 1 .. n \/ i = n + 1 \/ n + 1 \in 1 .. i - 1
    BY <1>1
  <2> QED
    BY <1>4, <2>1, <2>2 DEF TextsIn
<1>5. U = TextsIn(r, n) \cup {t}
  BY <1>3, <1>4
<1> QED
  BY <1>5 DEF Rank

LEMMA TextsAreFew ==
  ASSUME NEW r, NEW n \in Nat
  PROVE  IsFiniteSet(TextsIn(r, n)) /\ Cardinality(TextsIn(r, n)) \in 0 .. n
<1> DEFINE f == [t \in TextsIn(r, n) |-> CHOOSE i \in 1 .. n : r[i] = t]
<1>1. f \in Injection(TextsIn(r, n), 1 .. n)
  BY DEF TextsIn, Injection, IsInjective
<1>2. IsFiniteSet(1 .. n) /\ Cardinality(1 .. n) = n
  BY FS_Interval
<1>3. IsFiniteSet(TextsIn(r, n)) /\ Cardinality(TextsIn(r, n)) <= Cardinality(1 .. n)
  BY <1>1, <1>2, FS_Injection
<1> QED
  BY <1>2, <1>3, FS_CardinalityType

\* Before the loops start nothing is read, whatever the searches returned.
LEMMA NothingRead == RetrieveTypeOK /\ Unread => LoopInv
<1> SUFFICES ASSUME RetrieveTypeOK, Unread PROVE LoopInv
  OBVIOUS
<1> USE DEF Unread
<1>1. VectorRead = {} /\ KeywordRead = {}
  BY ReadNone DEF VectorRead, KeywordRead
<1>2. {fused[i] : i \in 1 .. Len(fused)} = {} /\ 1 .. Len(fused) = {}
  OBVIOUS
<1>3. \A t \in Texts : score[t] = ScoreSoFar(t)
  BY <1>1 DEF ScoreSoFar
<1> QED
  BY <1>1, <1>2, <1>3 DEF LoopInv, Ranks

\* The steps in front of the loops.
SearchStep == LookUpFilenames \/ Embed \/ VectorRecall \/ KeywordRecall

LEMMA SearchFrame ==
  ASSUME RetrieveInv, SearchStep
  PROVE  /\ pc \in Early /\ UNCHANGED <<limit, list, at, seen, dict, candidates, result>>
         /\ vector' \in Lists \cup {vector, <<>>} /\ keyword' \in Lists \cup {keyword, <<>>}
         /\ \/ pc' \in Early \cup {"fuse"} /\ outcome' = outcome
            \/ pc' = "done" /\ outcome' \notin {"open", "chunks"}
         /\ outcome' \in {"open", "chunks"} => failed' \subseteq failed \cup {"facet", "keyword"}
  BY DEF SearchStep, LookUpFilenames, Embed, VectorRecall, KeywordRecall, Searching, Raise, Fails,
         Early, inputs, dict

LEMMA SearchKeeps ==
  ASSUME RetrieveInv, SearchStep
  PROVE  RetrieveInv'
<1>1. Unread' /\ Unread
  BY SearchFrame DEF RetrieveInv, StageInv, Unread, dict
<1>2. /\ vector' \in Seq(Chunks) /\ Len(vector') <= RecallK
      /\ keyword' \in Seq(Chunks) /\ Len(keyword') <= RecallK
  <2>1. <<>> \in Seq(Chunks) /\ Len(<<>>) <= RecallK
    BY RetrievalAssumption
  <2> QED
    BY <2>1, SearchFrame, ListsAreSequences DEF RetrieveInv, RetrieveTypeOK
<1>3. RetrieveTypeOK'
  <2>1. Ranked' = vector' /\ at' \in 1 .. Len(vector') + 1
    BY <1>1, <1>2 DEF Ranked, Unread
  <2> QED
    BY <1>1, <1>2, <2>1, SearchFrame DEF RetrieveInv, RetrieveTypeOK, dict, Early
<1>4. StageInv'
  <2>1. pc' # "rerank" /\ (outcome' = "chunks" => outcome = "chunks") /\ outcome = "open"
    BY SearchFrame DEF RetrieveInv, RetrieveTypeOK, Early
  <2>2. outcome' \in {"open", "chunks"} => failed' \subseteq {"facet", "keyword"}
    BY <2>1, SearchFrame DEF RetrieveInv, StageInv
  <2>3. pc' = "done" => outcome' # "open"
    BY SearchFrame DEF Early
  <2> QED
    BY <1>1, <2>1, <2>2, <2>3 DEF RetrieveInv, RetrieveTypeOK, StageInv
<1>5. LoopInv'
  <2>1. (RetrieveTypeOK /\ Unread => LoopInv)'
    BY NothingRead, PTL
  <2> QED
    BY <1>1, <1>3, <2>1
<1> QED
  BY <1>3, <1>4, <1>5 DEF RetrieveInv

(***************************************************************************)
(* The loops.                                                              *)
(***************************************************************************)
LEMMA LoopFacts ==
  ASSUME RetrieveInv, pc = "fuse"
  PROVE  /\ Ranked \in Seq(Chunks) /\ Len(Ranked) \in Nat /\ Len(Ranked) <= RecallK
         /\ at \in Nat \ {0} /\ at - 1 \in Nat /\ at <= Len(Ranked) + 1
         /\ seen = TextsIn(Ranked, at - 1) /\ outcome = "open"
         /\ Len(vector) \in Nat /\ Len(keyword) \in Nat /\ RecallK \in Nat
<1>1. Ranked \in {vector, keyword}
  BY DEF Ranked
<1>2. /\ Ranked \in Seq(Chunks) /\ Len(Ranked) \in Nat /\ Len(Ranked) <= RecallK
      /\ at \in 1 .. Len(Ranked) + 1 /\ outcome = "open"
      /\ Len(vector) \in Nat /\ Len(keyword) \in Nat /\ RecallK \in Nat
  BY <1>1, RetrievalAssumption DEF RetrieveInv, RetrieveTypeOK
<1>3. seen = TextsIn(Ranked, at - 1)
  BY DEF RetrieveInv, RetrieveTypeOK, LoopInv, VectorRead, KeywordRead, Ranked
<1> QED
  BY <1>2, <1>3

LEMMA SkipKeeps ==
  ASSUME RetrieveInv, SkipChunk
  PROVE  RetrieveInv'
<1>1. /\ pc = "fuse" /\ at <= Len(Ranked) /\ at' = at + 1 /\ Ranked[at] \in seen \cup {Empty}
      /\ UNCHANGED <<pc, list, seen, fused, score, limit, vector, keyword,
                     candidates, result, outcome, failed>>
  BY DEF SkipChunk, Fusing, inputs, outputs, dict
<1>2. Ranked' = Ranked /\ at' - 1 = at /\ at - 1 \in Nat /\ (at - 1) + 1 = at
  BY <1>1, LoopFacts DEF Ranked
<1>3. TextsIn(Ranked, at) = TextsIn(Ranked, at - 1)
  <2>1. Ranked[at] \notin Texts \/ Ranked[at] \in TextsIn(Ranked, at - 1)
    BY <1>1, LoopFacts, RetrievalAssumption
  <2> QED
    BY <1>2, <2>1, ReadOne
<1>4. VectorRead' = VectorRead /\ KeywordRead' = KeywordRead
  <2>1. CASE list = 1
    <3>1. VectorRead = TextsIn(Ranked, at - 1) /\ VectorRead' = TextsIn(Ranked, at)
      BY <1>1, <1>2, <2>1 DEF VectorRead, Ranked
    <3> QED
      BY <1>1, <1>3, <2>1, <3>1 DEF KeywordRead
  <2>2. CASE list # 1
    <3>1. KeywordRead = TextsIn(Ranked, at - 1) /\ KeywordRead' = TextsIn(Ranked, at)
      BY <1>1, <1>2, <2>2 DEF KeywordRead, Ranked
    <3> QED
      BY <1>1, <1>3, <2>2, <3>1 DEF VectorRead
  <2> QED
    BY <2>1, <2>2
<1>5. LoopInv'
  <2>1. \A t \in Texts : ScoreSoFar(t)' = ScoreSoFar(t)
    BY <1>1, <1>4 DEF ScoreSoFar, Rank
  <2>2. Ranks'
    BY <1>1, <1>4 DEF RetrieveInv, LoopInv, Ranks, Rank
  <2> QED
    BY <1>1, <1>4, <2>1, <2>2 DEF RetrieveInv, LoopInv
<1>6. RetrieveTypeOK'
  BY <1>1, <1>2, LoopFacts DEF RetrieveInv, RetrieveTypeOK
<1>7. StageInv'
  BY <1>1, LoopFacts DEF RetrieveInv, StageInv, Early
<1> QED
  BY <1>5, <1>6, <1>7 DEF RetrieveInv

\* What reading a new text changes.
LEMMA CountEffect ==
  ASSUME RetrieveInv, NEW t \in Texts, CountText(t)
  PROVE  /\ pc = "fuse" /\ at <= Len(Ranked) /\ Ranked[at] = t /\ at' = at + 1
         /\ UNCHANGED <<pc, list, limit, vector, keyword, candidates, result, outcome, failed>>
         /\ t \notin seen /\ seen' = seen \cup {t}
         /\ seen' = TextsIn(Ranked, at)
         /\ Rank(Ranked, t) = Cardinality(seen') /\ Rank(Ranked, t) \in 1 .. RecallK
         /\ score' = [score EXCEPT ![t] = PlusUnit(@, RrfK + Rank(Ranked, t))]
<1>1. /\ pc = "fuse" /\ at <= Len(Ranked) /\ Ranked[at] = t /\ at' = at + 1
      /\ UNCHANGED <<pc, list, limit, vector, keyword, candidates, result, outcome, failed>>
      /\ t \notin seen /\ seen' = seen \cup {t}
      /\ score' = [score EXCEPT ![t] = PlusUnit(@, RrfK + Cardinality(seen'))]
  BY DEF CountText, Fusing, inputs, outputs
<1>2. at - 1 \in Nat /\ (at - 1) + 1 = at /\ at - 1 < Len(Ranked)
  BY <1>1, LoopFacts
<1>3. seen' = TextsIn(Ranked, at)
  BY <1>1, <1>2, LoopFacts, ReadOne
<1>4. Rank(Ranked, t) = Cardinality(seen')
  BY <1>1, <1>2, LoopFacts, RankAtFirst
<1>5. Rank(Ranked, t) \in 1 .. RecallK
  <2>1. IsFiniteSet(seen') /\ Cardinality(seen') \in 0 .. at
    BY <1>1, <1>3, LoopFacts, TextsAreFew
  <2>2. Cardinality(seen') # 0
    BY <1>1, <2>1, FS_EmptySet
  <2>3. at <= RecallK /\ at \in Nat /\ RecallK \in Nat
    BY <1>1, LoopFacts
  <2> QED
    BY <1>4, <2>1, <2>2, <2>3
<1> QED
  BY <1>1, <1>3, <1>4, <1>5

LEMMA CountReads ==
  ASSUME RetrieveInv, NEW t \in Texts, CountText(t)
  PROVE  \/ /\ list = 1 /\ t \notin VectorRead /\ KeywordRead = {}
            /\ VectorRead' = VectorRead \cup {t} /\ KeywordRead' = KeywordRead
         \/ /\ list = 2 /\ t \notin KeywordRead
            /\ KeywordRead' = KeywordRead \cup {t} /\ VectorRead' = VectorRead
<1>1. /\ list' = list /\ vector' = vector /\ keyword' = keyword /\ at' - 1 = at /\ t \notin seen
      /\ seen = TextsIn(Ranked, at - 1) /\ TextsIn(Ranked, at) = seen \cup {t} /\ list \in {1, 2}
  BY CountEffect, LoopFacts DEF RetrieveInv, RetrieveTypeOK
<1>2. CASE list = 1
  BY <1>1, <1>2, ReadNone DEF VectorRead, KeywordRead, Ranked
<1>3. CASE list = 2
  BY <1>1, <1>3 DEF VectorRead, KeywordRead, Ranked
<1> QED
  BY <1>1, <1>2, <1>3

LEMMA FirstUnit ==
  ASSUME NEW d \in Nat PROVE PlusUnit(Zero, d) = [num |-> 1, den |-> d]
  BY DEF PlusUnit, Zero

LEMMA SecondUnit ==
  ASSUME NEW v \in Nat, NEW k \in Nat
  PROVE  PlusUnit([num |-> 1, den |-> v], k) = [num |-> v + k, den |-> v * k]
  BY DEF PlusUnit

\* The dict holds the sum of what each list adds, and no list adds twice.
LEMMA CountScores ==
  ASSUME RetrieveInv, NEW t \in Texts, CountText(t), NEW u \in Texts
  PROVE  score'[u] = ScoreSoFar(u)'
<1>1. score[u] = ScoreSoFar(u) /\ vector' = vector /\ keyword' = keyword
  BY CountEffect DEF RetrieveInv, LoopInv
<1>2. CASE u # t
  <2>1. (u \in VectorRead <=> u \in VectorRead') /\ (u \in KeywordRead <=> u \in KeywordRead')
    BY <1>2, CountReads
  <2>2. score'[u] = score[u]
    BY <1>2, CountEffect DEF RetrieveInv, RetrieveTypeOK
  <2> QED
    BY <1>1, <2>1, <2>2 DEF ScoreSoFar, Rank
<1>3. CASE u = t
  <2> DEFINE v == Rank(vector, t)
             k == Rank(keyword, t)
  <2>1. score'[t] = PlusUnit(score[t], RrfK + Rank(Ranked, t)) /\ Rank(Ranked, t) \in Nat
    BY CountEffect, LoopFacts DEF RetrieveInv, RetrieveTypeOK
  <2>2. Rank(vector, t)' = v /\ Rank(keyword, t)' = k
    BY <1>1 DEF Rank
  <2>3. CASE list = 1
    <3>1. score[t] = Zero
      BY <1>1, <1>3, <2>3, CountReads DEF ScoreSoFar
    <3>2. Ranked = vector /\ RrfK + v \in Nat
      BY <2>1, <2>3 DEF Ranked, RrfK
    <3>3. score'[t] = [num |-> 1, den |-> RrfK + v]
      BY <2>1, <3>1, <3>2, FirstUnit
    <3>4. t \in VectorRead' /\ t \notin KeywordRead'
      BY <2>3, CountReads
    <3> QED
      BY <1>3, <2>2, <3>3, <3>4 DEF ScoreSoFar
  <2>4. CASE list = 2 /\ t \notin VectorRead
    <3>1. score[t] = Zero
      BY <1>1, <1>3, <2>4, CountReads DEF ScoreSoFar
    <3>2. Ranked = keyword /\ RrfK + k \in Nat
      BY <2>1, <2>4 DEF Ranked, RrfK
    <3>3. score'[t] = [num |-> 1, den |-> RrfK + k]
      BY <2>1, <3>1, <3>2, FirstUnit
    <3>4. t \notin VectorRead' /\ t \in KeywordRead'
      BY <2>4, CountReads
    <3> QED
      BY <1>3, <2>2, <3>3, <3>4 DEF ScoreSoFar
  <2>5. CASE list = 2 /\ t \in VectorRead
    <3>1. score[t] = [num |-> 1, den |-> RrfK + v]
      BY <1>1, <1>3, <2>5, CountReads DEF ScoreSoFar
    <3>2. Ranked = keyword /\ RrfK + k \in Nat /\ RrfK + v \in Nat
      BY <2>1, <2>5 DEF Ranked, RrfK, RetrieveInv, LoopInv, Ranks
    <3>3. score'[t] = [num |-> (RrfK + v) + (RrfK + k), den |-> (RrfK + v) * (RrfK + k)]
      BY <2>1, <3>1, <3>2, SecondUnit
    <3>4. t \in VectorRead' /\ t \in KeywordRead'
      BY <2>5, CountReads
    <3> QED
      BY <1>3, <2>2, <3>3, <3>4 DEF ScoreSoFar
  <2> QED
    BY <2>3, <2>4, <2>5 DEF RetrieveInv, RetrieveTypeOK
<1> QED
  BY <1>2, <1>3

LEMMA CountDict ==
  ASSUME RetrieveInv, NEW t \in Texts, CountText(t)
  PROVE  /\ fused' \in Seq(Texts)
         /\ {fused'[i] : i \in 1 .. Len(fused')} = {fused[i] : i \in 1 .. Len(fused)} \cup {t}
         /\ \A i, j \in 1 .. Len(fused') : i # j => fused'[i] # fused'[j]
<1>1. fused \in Seq(Texts) /\ \A i, j \in 1 .. Len(fused) : i # j => fused[i] # fused[j]
  BY DEF RetrieveInv, RetrieveTypeOK, LoopInv
<1>2. CASE \E i \in DOMAIN fused : fused[i] = t
  <2>1. fused' = fused
    BY <1>2 DEF CountText
  <2> QED
    BY <1>1, <1>2, <2>1
<1>3. CASE ~\E i \in DOMAIN fused : fused[i] = t
  <2> DEFINE n == Len(fused)
  <2>1. fused' = Append(fused, t)
    BY <1>3 DEF CountText
  <2>2. /\ fused' \in Seq(Texts) /\ n \in Nat /\ Len(fused') = n + 1 /\ fused'[n + 1] = t
        /\ \A i \in 1 .. n : fused'[i] = fused[i]
    BY <1>1, <2>1
  <2>3. \A i : i \in 1 .. n + 1 <=> (i \in 1 .. n \/ i = n + 1)
    BY <2>2
  <2>4. \A i \in 1 .. n : fused[i] # t
    BY <1>1, <1>3
  <2> HIDE DEF n
  <2>5. {fused'[i] : i \in 1 .. n + 1} = {fused[i] : i \in 1 .. n} \cup {t}
    BY <2>2, <2>3
  <2>6. \A i, j \in 1 .. n + 1 : i # j => fused'[i] # fused'[j]
    BY <1>1, <2>2, <2>3, <2>4 DEF n
  <2> QED
    BY <2>2, <2>5, <2>6 DEF n
<1> QED
  BY <1>2, <1>3

LEMMA CountKeeps ==
  ASSUME RetrieveInv, NEW t \in Texts, CountText(t)
  PROVE  RetrieveInv'
<1>1. RetrieveTypeOK'
  <2>1. Ranked' = Ranked /\ at' \in 1 .. Len(Ranked) + 1
    BY CountEffect, LoopFacts DEF Ranked
  <2>2. score' \in [Texts -> Fractions]
    <3>1. score[t] \in Fractions /\ RrfK + Rank(Ranked, t) \in Nat
      BY CountEffect, LoopFacts DEF RetrieveInv, RetrieveTypeOK, RrfK
    <3>2. PlusUnit(score[t], RrfK + Rank(Ranked, t)) \in Fractions
      BY <3>1 DEF PlusUnit, Fractions
    <3> QED
      BY <3>2, CountEffect DEF RetrieveInv, RetrieveTypeOK
  <2> QED
    BY <2>1, <2>2, CountEffect, CountDict DEF RetrieveInv, RetrieveTypeOK
<1>2. StageInv'
  BY CountEffect, LoopFacts DEF RetrieveInv, StageInv, Early
<1>3. LoopInv'
  <2>1. seen' = IF list' = 1 THEN VectorRead' ELSE KeywordRead'
    <3>1. list' = list /\ seen' = seen \cup {t}
      BY CountEffect
    <3>2. seen = IF list = 1 THEN VectorRead ELSE KeywordRead
      BY DEF RetrieveInv, LoopInv
    <3> QED
      BY <3>1, <3>2, CountReads
  <2>2. {fused'[i] : i \in 1 .. Len(fused')} = VectorRead' \cup KeywordRead'
    BY CountReads, CountDict DEF RetrieveInv, LoopInv
  <2>3. Ranks'
    <3>1. /\ \A u \in VectorRead : Rank(vector, u) \in 1 .. RecallK
          /\ \A u \in KeywordRead : Rank(keyword, u) \in 1 .. RecallK
          /\ Rank(Ranked, t) \in 1 .. RecallK /\ vector' = vector /\ keyword' = keyword
      BY CountEffect DEF RetrieveInv, LoopInv, Ranks
    <3>2. /\ \A u \in VectorRead' : Rank(vector, u) \in 1 .. RecallK
          /\ \A u \in KeywordRead' : Rank(keyword, u) \in 1 .. RecallK
      BY <3>1, CountReads DEF Ranked
    <3> QED
      BY <3>1, <3>2 DEF Ranks, Rank
  <2>4. \A i, j \in 1 .. Len(fused') : i # j => fused'[i] # fused'[j]
    BY CountDict
  <2>5. \A u \in Texts : score'[u] = ScoreSoFar(u)'
    BY CountScores
  <2> QED
    BY <2>1, <2>2, <2>3, <2>4, <2>5 DEF LoopInv
<1> QED
  BY <1>1, <1>2, <1>3 DEF RetrieveInv

LEMMA NextListKeeps ==
  ASSUME RetrieveInv, NextList
  PROVE  RetrieveInv'
<1>1. /\ pc = "fuse" /\ at > Len(Ranked) /\ list = 1 /\ list' = 2 /\ at' = 1 /\ seen' = {}
      /\ UNCHANGED <<pc, fused, score, limit, vector, keyword, candidates, result, outcome, failed>>
  BY DEF NextList, Fusing, inputs, outputs, dict
<1>2. at - 1 = Len(vector) /\ Ranked' = keyword /\ at' - 1 = 0
  BY <1>1, LoopFacts DEF Ranked
<1>3. VectorRead' = VectorRead /\ KeywordRead' = KeywordRead /\ KeywordRead = {}
  BY <1>1, <1>2, ReadNone DEF VectorRead, KeywordRead
<1>4. LoopInv'
  <2>1. \A t \in Texts : ScoreSoFar(t)' = ScoreSoFar(t)
    BY <1>1, <1>3 DEF ScoreSoFar, Rank
  <2>2. Ranks'
    BY <1>1, <1>3 DEF RetrieveInv, LoopInv, Ranks, Rank
  <2> QED
    BY <1>1, <1>3, <2>1, <2>2 DEF RetrieveInv, LoopInv
<1>5. RetrieveTypeOK'
  BY <1>1, <1>2, LoopFacts DEF RetrieveInv, RetrieveTypeOK
<1>6. StageInv'
  BY <1>1, LoopFacts DEF RetrieveInv, StageInv, Early
<1> QED
  BY <1>4, <1>5, <1>6 DEF RetrieveInv

(***************************************************************************)
(* Sorting and cutting.                                                    *)
(***************************************************************************)
LEMMA TopOf ==
  ASSUME NEW S, NEW s \in Seq(S), NEW n \in Nat
  PROVE  /\ Top(s, n) \in Seq(S) /\ Len(Top(s, n)) = (IF n < Len(s) THEN n ELSE Len(s))
         /\ \A i \in 1 .. Len(Top(s, n)) : i \in 1 .. Len(s) /\ Top(s, n)[i] = s[i]
<1> DEFINE m == IF n < Len(s) THEN n ELSE Len(s)
<1>1. m \in Nat /\ m <= Len(s) /\ \A i \in 1 .. m : i \in 1 .. Len(s)
  OBVIOUS
<1> HIDE DEF m
<1>2. SubSeq(s, 1, m) \in Seq(S) /\ Len(SubSeq(s, 1, m)) = m
  BY <1>1
<1>3. \A i \in 1 .. m : SubSeq(s, 1, m)[i] = s[i]
  BY <1>1
<1> QED
  BY <1>1, <1>2, <1>3 DEF Top, m

\* A sorting of distinct texts lists each of them once, and none behind a lower one.
LEMMA SortingOf ==
  ASSUME NEW S, NEW s \in Seq(S), NEW above,
         \A x, y \in S : <<x, y>> \in above => <<y, x>> \notin above,
         NEW out \in Sortings(s, above)
  PROVE  /\ out \in Seq(S) /\ Len(out) = Len(s)
         /\ {out[i] : i \in 1 .. Len(out)} = {s[i] : i \in 1 .. Len(s)}
         /\ \A i, j \in 1 .. Len(out) : i < j => <<out[j], out[i]>> \notin above
         /\ (\A i, j \in 1 .. Len(s) : i # j => s[i] # s[j]) =>
              \A i, j \in 1 .. Len(out) : i < j => out[i] # out[j]
<1> DEFINE n == Len(s)
<1>1. DOMAIN s = 1 .. n /\ n \in Nat
  OBVIOUS
<1>2. PICK p \in [1 .. n -> 1 .. n] :
        /\ out = [i \in 1 .. n |-> s[p[i]]]
        /\ \A i \in 1 .. n : \E j \in 1 .. n : p[j] = i
        /\ \A i, j \in 1 .. n : i < j =>
             \/ <<s[p[i]], s[p[j]]>> \in above
             \/ <<s[p[j]], s[p[i]]>> \notin above /\ p[i] < p[j]
  BY <1>1 DEF Sortings
<1> HIDE DEF n
<1>3. \A i \in 1 .. n : p[i] \in 1 .. n /\ s[i] \in S /\ out[i] = s[p[i]] /\ out[i] \in S
  BY <1>1, <1>2 DEF n
<1>4. out \in Seq(S) /\ Len(out) = n
  BY <1>1, <1>2, <1>3
<1>5. {out[i] : i \in 1 .. n} = {s[i] : i \in 1 .. n}
  BY <1>2, <1>3
<1>6. \A i, j \in 1 .. n : i < j => <<out[j], out[i]>> \notin above
  BY <1>2, <1>3
<1>7. ASSUME \A i, j \in 1 .. n : i # j => s[i] # s[j], NEW i \in 1 .. n, NEW j \in 1 .. n, i < j
      PROVE  out[i] # out[j]
  <2>1. CASE <<s[p[i]], s[p[j]]>> \in above
    BY <1>3, <2>1
  <2>2. CASE p[i] < p[j]
    <3>1. p[i] # p[j]
      BY <1>1, <1>3, <2>2
    <3> QED
      BY <1>3, <1>7, <3>1
  <2> QED
    BY <1>2, <1>7, <2>1, <2>2
<1> QED
  BY <1>4, <1>5, <1>6, <1>7 DEF n

(***************************************************************************)
(* The cut.                                                                *)
(***************************************************************************)
\* Behind the loops everything offered is in the dict, with its fused score.
LEMMA AllRead ==
  ASSUME RetrieveInv, list = 2, at = Len(keyword) + 1
  PROVE  /\ VectorRead = {t \in Texts : Offers(vector, t)}
         /\ KeywordRead = {t \in Texts : Offers(keyword, t)}
         /\ Offered = {fused[i] : i \in 1 .. Len(fused)}
         /\ \A t \in Offered : score[t] = Fraction(t) /\ Fraction(t) \in Fractions
<1>1. /\ DOMAIN vector = 1 .. Len(vector) /\ DOMAIN keyword = 1 .. Len(keyword)
      /\ Len(keyword) \in Nat /\ at - 1 = Len(keyword)
  BY DEF RetrieveInv, RetrieveTypeOK
<1>2. VectorRead = {t \in Texts : Offers(vector, t)}
  BY <1>1 DEF VectorRead, TextsIn, Offers
<1>3. KeywordRead = {t \in Texts : Offers(keyword, t)}
  BY <1>1 DEF KeywordRead, TextsIn, Offers
<1>4. Offered = VectorRead \cup KeywordRead
  BY <1>2, <1>3 DEF Offered
<1>5. ASSUME NEW t \in Offered PROVE ScoreSoFar(t) = Fraction(t)
  <2>1. CASE Offers(vector, t) /\ Offers(keyword, t)
    BY <1>2, <1>3, <2>1 DEF ScoreSoFar, Fraction, Offered
  <2>2. CASE Offers(vector, t) /\ ~Offers(keyword, t)
    BY <1>2, <1>3, <2>2 DEF ScoreSoFar, Fraction, Offered
  <2>3. CASE ~Offers(vector, t)
    <3>1. t \notin VectorRead /\ t \in KeywordRead
      BY <1>2, <1>4, <2>3
    <3>2. Fraction(t) = [num |-> 1, den |-> RrfK + Rank(keyword, t)]
      BY <2>3 DEF Fraction
    <3> QED
      BY <3>1, <3>2 DEF ScoreSoFar
  <2> QED
    BY <2>1, <2>2, <2>3
<1>6. \A t \in Offered : t \in Texts /\ score[t] \in Fractions
  BY DEF Offered, RetrieveInv, RetrieveTypeOK
<1> QED
  BY <1>2, <1>3, <1>4, <1>5, <1>6 DEF RetrieveInv, LoopInv

LEMMA Products == \A a, b \in Nat : a * b \in Nat
  OBVIOUS

\* The body of FusedByRank.
CutOK ==
  /\ \A i, j \in DOMAIN candidates :
       i < j => candidates[i] # candidates[j] /\ NoBetter(candidates[j], candidates[i])
  /\ Kept \subseteq Offered
  /\ \A t \in Offered \ Kept : \A u \in Kept : NoBetter(t, u)
  /\ Kept = Offered \/ Len(candidates) >= limit

LEMMA SortFusedCuts ==
  ASSUME RetrieveInv, SortFused
  PROVE  CutOK' /\ candidates' \in Seq(Texts)
<1>1. /\ pc = "fuse" /\ list = 2 /\ at = Len(keyword) + 1
      /\ vector' = vector /\ keyword' = keyword /\ limit' = limit
  BY LoopFacts DEF SortFused, Ranked, inputs
<1> DEFINE cut == IF limit > RerankK THEN limit ELSE RerankK
<1>2. limit \in Nat \ {0} /\ cut \in Nat /\ cut >= limit
  BY RetrievalAssumption DEF RetrieveInv, RetrieveTypeOK
<1>3. PICK out \in Sortings(fused, Higher) : candidates' = Top(out, cut)
  BY DEF SortFused
<1> HIDE DEF cut
<1>4. fused \in Seq(Texts) /\ \A i, j \in 1 .. Len(fused) : i # j => fused[i] # fused[j]
  BY DEF RetrieveInv, RetrieveTypeOK, LoopInv
<1>5. \A x, y \in Texts : <<x, y>> \in Higher => <<y, x>> \notin Higher
  <2>1. \A x, y \in Texts : score[x].num * score[y].den \in Nat
    BY Products DEF RetrieveInv, RetrieveTypeOK, Fractions
  <2>2. \A x, y \in Texts : <<x, y>> \in Higher <=>
                             score[x].num * score[y].den > score[y].num * score[x].den
    BY DEF Higher
  <2> QED
    BY <2>1, <2>2
<1>6. /\ out \in Seq(Texts) /\ Len(out) = Len(fused)
      /\ {out[i] : i \in 1 .. Len(out)} = Offered
      /\ \A i, j \in 1 .. Len(out) : i < j => <<out[j], out[i]>> \notin Higher /\ out[i] # out[j]
  <2>1. Offered = {fused[i] : i \in 1 .. Len(fused)}
    BY <1>1, AllRead
  <2>2. /\ out \in Seq(Texts) /\ Len(out) = Len(fused)
        /\ {out[i] : i \in 1 .. Len(out)} = {fused[i] : i \in 1 .. Len(fused)}
        /\ \A i, j \in 1 .. Len(out) : i < j => <<out[j], out[i]>> \notin Higher
        /\ \A i, j \in 1 .. Len(out) : i < j => out[i] # out[j]
    BY <1>4, <1>5, SortingOf
  <2> QED
    BY <2>1, <2>2
<1>7. \A i, j \in 1 .. Len(out) : i < j => NoBetter(out[j], out[i])
  <2>1. ASSUME NEW i \in 1 .. Len(out), NEW j \in 1 .. Len(out), i < j
        PROVE  NoBetter(out[j], out[i])
    <3>1. PICK x \in Offered : x = out[i]
      BY <1>6
    <3>2. PICK y \in Offered : y = out[j]
      BY <1>6
    <3>3. x \in Texts /\ y \in Texts /\ score[x] = Fraction(x) /\ score[y] = Fraction(y)
      BY <1>1, AllRead DEF Offered
    <3>4. ~(score[y].num * score[x].den > score[x].num * score[y].den)
      BY <1>6, <2>1, <3>1, <3>2, <3>3 DEF Higher
    <3>5. score[y].num * score[x].den \in Nat /\ score[x].num * score[y].den \in Nat
      BY <3>3, Products DEF RetrieveInv, RetrieveTypeOK, Fractions
    <3>6. score[y].num * score[x].den <= score[x].num * score[y].den
      BY <3>4, <3>5
    <3> QED
      BY <3>1, <3>2, <3>3, <3>6 DEF NoBetter
  <2> QED
    BY <2>1
<1>8. /\ candidates' \in Seq(Texts) /\ Len(candidates') = (IF cut < Len(out) THEN cut ELSE Len(out))
      /\ \A i \in 1 .. Len(candidates') : i \in 1 .. Len(out) /\ candidates'[i] = out[i]
  BY <1>2, <1>3, <1>6, TopOf
<1>9. Len(out) \in Nat /\ Len(candidates') \in Nat /\ DOMAIN candidates' = 1 .. Len(candidates')
  BY <1>6, <1>8
<1>10. /\ Offered' = Offered /\ limit' = limit
       /\ \A x, y : NoBetter(x, y)' <=> NoBetter(x, y)
  BY <1>1 DEF Offered, Offers, NoBetter, Fraction, Rank
<1>11. Kept' = {out[i] : i \in 1 .. Len(candidates')}
  BY <1>8, <1>9 DEF Kept
<1>12. \A i, j \in DOMAIN candidates' :
         i < j => candidates'[i] # candidates'[j] /\ NoBetter(candidates'[j], candidates'[i])
  BY <1>6, <1>7, <1>8, <1>9
<1>13. Kept' \subseteq Offered
  BY <1>6, <1>8, <1>11
<1>14. \A t \in Offered \ Kept' : \A u \in Kept' : NoBetter(t, u)
  <2>1. ASSUME NEW t \in Offered \ Kept', NEW u \in Kept' PROVE NoBetter(t, u)
    <3>1. PICK i \in 1 .. Len(candidates') : u = out[i]
      BY <1>11
    <3>2. PICK j \in 1 .. Len(out) : t = out[j]
      BY <1>6
    <3>3. j \notin 1 .. Len(candidates')
      BY <1>11, <3>2
    <3>4. i < j /\ i \in 1 .. Len(out)
      BY <1>8, <1>9, <3>1, <3>2, <3>3
    <3> QED
      BY <1>7, <3>1, <3>2, <3>4
  <2> QED
    BY <2>1
<1>15. Kept' = Offered \/ Len(candidates') >= limit
  BY <1>2, <1>6, <1>8, <1>9, <1>11
<1> QED
  BY <1>8, <1>10, <1>12, <1>13, <1>14, <1>15 DEF CutOK

LEMMA SortFusedKeeps ==
  ASSUME RetrieveInv, SortFused
  PROVE  RetrieveInv'
<1>1. /\ pc' = "rerank" /\ list = 2 /\ at = Len(keyword) + 1 /\ outcome = "open"
      /\ UNCHANGED <<limit, vector, keyword, list, at, seen, fused, score, result, outcome, failed>>
  BY LoopFacts DEF SortFused, Ranked, inputs, dict
<1>2. RetrieveTypeOK'
  BY <1>1, SortFusedCuts DEF RetrieveInv, RetrieveTypeOK, Ranked
<1>3. StageInv'
  BY <1>1 DEF RetrieveInv, StageInv, Early
<1>4. VectorRead' = VectorRead /\ KeywordRead' = KeywordRead
  BY <1>1 DEF VectorRead, KeywordRead
<1>5. LoopInv'
  <2>1. \A t \in Texts : ScoreSoFar(t)' = ScoreSoFar(t)
    BY <1>1, <1>4 DEF ScoreSoFar, Rank
  <2>2. Ranks'
    BY <1>1, <1>4 DEF RetrieveInv, LoopInv, Ranks, Rank
  <2> QED
    BY <1>1, <1>4, <2>1, <2>2 DEF RetrieveInv, LoopInv
<1> QED
  BY <1>2, <1>3, <1>5 DEF RetrieveInv

LEMMA RerankEffect ==
  ASSUME RetrieveInv, Rerank
  PROVE  /\ pc = "rerank" /\ pc' = "done" /\ outcome = "open"
         /\ UNCHANGED <<limit, vector, keyword, list, at, seen, fused, score, candidates>>
         /\ \/ outcome' = "RuntimeError" /\ result' = result
            \/ /\ outcome' = "chunks" /\ failed' = failed
               /\ result' \in Seq(Texts) /\ (result' = <<>> => candidates = <<>>)
<1>1. pc = "rerank" /\ outcome = "open" /\ candidates \in Seq(Texts) /\ limit \in Nat \ {0}
  BY RetrievalAssumption DEF RetrieveInv, RetrieveTypeOK, Rerank
<1>2. CASE Raise("reranker", "RuntimeError")
  BY <1>1, <1>2 DEF Raise, inputs, dict
<1>3. ASSUME NEW grade \in [Texts -> Grades],
             NEW out \in Sortings(candidates, {p \in Texts \X Texts : grade[p[1]] > grade[p[2]]}),
             result' = Top(out, limit)
      PROVE  result' \in Seq(Texts) /\ (result' = <<>> => candidates = <<>>)
  <2> DEFINE better == {p \in Texts \X Texts : grade[p[1]] > grade[p[2]]}
  <2>1. \A x, y \in Texts : <<x, y>> \in better => <<y, x>> \notin better
    <3>1. \A x \in Texts : grade[x] \in Nat
      BY RetrievalAssumption
    <3> QED
      BY <3>1
  <2> HIDE DEF better
  <2>2. out \in Sortings(candidates, better)
    BY <1>3 DEF better
  <2>3. out \in Seq(Texts) /\ Len(out) = Len(candidates)
    BY <1>1, <2>1, <2>2, SortingOf
  <2>4. result' \in Seq(Texts) /\ Len(result') = (IF limit < Len(out) THEN limit ELSE Len(out))
    BY <1>1, <1>3, <2>3, TopOf
  <2>5. result' = <<>> => Len(candidates) = 0
    BY <1>1, <2>3, <2>4
  <2> QED
    BY <1>1, <2>4, <2>5
<1>4. CASE ~Raise("reranker", "RuntimeError")
  <2>1. /\ pc' = "done" /\ outcome' = "chunks" /\ failed' = failed
        /\ UNCHANGED <<limit, vector, keyword, list, at, seen, fused, score, candidates>>
    BY <1>4 DEF Rerank, inputs, dict
  <2>2. result' \in Seq(Texts) /\ (result' = <<>> => candidates = <<>>)
    BY <1>3, <1>4 DEF Rerank
  <2> QED
    BY <1>1, <2>1, <2>2
<1> QED
  BY <1>2, <1>4

LEMMA RerankKeeps ==
  ASSUME RetrieveInv, Rerank
  PROVE  RetrieveInv'
<1>1. RetrieveTypeOK'
  BY RerankEffect DEF RetrieveInv, RetrieveTypeOK, Ranked
<1>2. StageInv'
  BY RerankEffect DEF RetrieveInv, StageInv, Early
<1>3. VectorRead' = VectorRead /\ KeywordRead' = KeywordRead
  BY RerankEffect DEF VectorRead, KeywordRead
<1>4. LoopInv'
  <2>1. \A t \in Texts : ScoreSoFar(t)' = ScoreSoFar(t)
    BY RerankEffect, <1>3 DEF ScoreSoFar, Rank
  <2>2. Ranks'
    BY RerankEffect, <1>3 DEF RetrieveInv, LoopInv, Ranks, Rank
  <2> QED
    BY RerankEffect, <1>3, <2>1, <2>2 DEF RetrieveInv, LoopInv
<1> QED
  BY <1>1, <1>2, <1>4 DEF RetrieveInv

LEMMA RetrieveStep ==
  ASSUME RetrieveInv, [RetrieveNext]_retrieveVars
  PROVE  RetrieveInv'
<1>1. CASE UNCHANGED retrieveVars
  <2>1. UNCHANGED <<pc, limit, vector, keyword, list, at, seen, fused, score, candidates, result,
                    outcome, failed>>
    BY <1>1 DEF retrieveVars, inputs, dict, outputs
  <2>2. VectorRead' = VectorRead /\ KeywordRead' = KeywordRead
    BY <2>1 DEF VectorRead, KeywordRead
  <2>3. \A t \in Texts : ScoreSoFar(t)' = ScoreSoFar(t)
    BY <2>1, <2>2 DEF ScoreSoFar, Rank
  <2>4. Ranks'
    BY <2>1, <2>2 DEF RetrieveInv, LoopInv, Ranks, Rank
  <2>5. LoopInv'
    BY <2>1, <2>2, <2>3, <2>4 DEF RetrieveInv, LoopInv
  <2> QED
    BY <2>1, <2>5 DEF RetrieveInv, RetrieveTypeOK, StageInv, Ranked, Unread
<1> QED
  BY <1>1, SearchKeeps, SkipKeeps, CountKeeps, NextListKeeps, SortFusedKeeps, RerankKeeps
  DEF RetrieveNext, SearchStep

LEMMA RetrieveStart == RetrieveInit => RetrieveInv
<1> SUFFICES ASSUME RetrieveInit PROVE RetrieveInv
  OBVIOUS
<1>1. RetrieveTypeOK
  <2>1. <<>> \in Seq(Chunks) /\ <<>> \in Seq(Texts) /\ Len(<<>>) <= RecallK /\ 1 \in 1 .. Len(<<>>) + 1
    BY RetrievalAssumption
  <2>2. score \in [Texts -> Fractions]
    BY DEF RetrieveInit, Zero, Fractions
  <2> QED
    BY <2>1, <2>2 DEF RetrieveInit, RetrieveTypeOK, Ranked, Early
<1>2. Unread
  BY DEF RetrieveInit, Unread
<1> QED
  BY <1>1, <1>2, NothingRead DEF RetrieveInit, RetrieveInv, StageInv

\* The loops of _fuse keep the dict and the ranks as the reference defines them.
THEOREM RetrieveInvariant == RetrieveSpec => []RetrieveInv
<1>1. RetrieveInv /\ [RetrieveNext]_retrieveVars => RetrieveInv'
  BY RetrieveStep
<1> QED
  BY <1>1, RetrieveStart, PTL DEF RetrieveSpec

(***************************************************************************)
(* What the candidates promise.                                            *)
(***************************************************************************)
LEMMA CutStays ==
  ASSUME CutOK, UNCHANGED <<limit, vector, keyword, candidates>>
  PROVE  CutOK'
<1>1. Offered' = Offered /\ Kept' = Kept
  BY DEF Offered, Offers, Kept
<1>2. \A x, y : NoBetter(x, y)' <=> NoBetter(x, y)
  BY DEF NoBetter, Fraction, Offers, Rank
<1> QED
  BY <1>1, <1>2 DEF CutOK

LEMMA FusedStep ==
  ASSUME RetrieveInv, FusedByRank, [RetrieveNext]_retrieveVars
  PROVE  FusedByRank'
<1> SUFFICES ASSUME pc' \in {"rerank", "done"}, outcome' \in {"open", "chunks"} PROVE CutOK'
  BY DEF FusedByRank, CutOK
<1>1. CASE UNCHANGED retrieveVars
  <2>1. UNCHANGED <<limit, vector, keyword, candidates, pc, outcome>>
    BY <1>1 DEF retrieveVars, inputs, outputs
  <2>2. CutOK
    BY <2>1 DEF FusedByRank, CutOK
  <2> QED
    BY <2>1, <2>2, CutStays
<1>2. CASE SortFused
  BY <1>2, SortFusedCuts
<1>3. CASE Rerank
  <2>1. CutOK
    BY <1>3, RerankEffect DEF FusedByRank, CutOK
  <2> QED
    BY <1>3, <2>1, RerankEffect, CutStays
<1>4. ~SearchStep
  BY SearchFrame DEF Early
<1>5. ~SkipChunk /\ ~NextList /\ \A t \in Texts : ~CountText(t)
  BY DEF SkipChunk, NextList, CountText, Fusing
<1> QED
  BY <1>1, <1>2, <1>3, <1>4, <1>5 DEF RetrieveNext, SearchStep

\* Whatever the two searches return, the candidates that reach the reranker are the
\* best by fused score, none twice, and no fewer than asked for.
THEOREM FusionIsByRank == RetrieveSpec => []FusedByRank
<1>1. RetrieveInit => FusedByRank
  BY DEF RetrieveInit, FusedByRank
<1>2. RetrieveInv /\ FusedByRank /\ [RetrieveNext]_retrieveVars => FusedByRank'
  BY FusedStep
<1> QED
  BY <1>1, <1>2, RetrieveInvariant, PTL DEF RetrieveSpec

LEMMA EmptyStep ==
  ASSUME RetrieveInv, RetrieveInv', FusedByRank, EmptyIsNotFailure, [RetrieveNext]_retrieveVars
  PROVE  EmptyIsNotFailure'
<1> SUFFICES ASSUME outcome' = "chunks", result' = <<>> PROVE Offered' = {}
  BY DEF EmptyIsNotFailure, RetrieveInv, StageInv
<1>1. CASE Rerank
  <2>1. pc = "rerank" /\ outcome = "open" /\ candidates = <<>>
    BY <1>1, RerankEffect
  <2>2. Kept = {} /\ Len(candidates) = 0 /\ limit \in Nat \ {0}
    BY <2>1, RetrievalAssumption DEF Kept, RetrieveInv, RetrieveTypeOK
  <2>3. Offered = {}
    BY <2>1, <2>2 DEF FusedByRank
  <2> QED
    BY <1>1, <2>3, RerankEffect DEF Offered, Offers
<1>2. CASE UNCHANGED retrieveVars
  BY <1>2 DEF retrieveVars, inputs, outputs, EmptyIsNotFailure, Offered, Offers
<1>3. CASE ~Rerank /\ ~UNCHANGED retrieveVars
  <2>1. outcome = "chunks"
    <3>1. CASE SearchStep
      BY <3>1, SearchFrame
    <3>2. CASE ~SearchStep
      BY <1>3, <3>2 DEF RetrieveNext, SearchStep, SkipChunk, CountText, NextList, SortFused, Fusing, outputs
    <3> QED
      BY <3>1, <3>2
  <2>2. pc = "done"
    BY <2>1 DEF RetrieveInv, RetrieveTypeOK
  <2> QED
    BY <1>3, <2>2 DEF RetrieveNext, LookUpFilenames, Embed, VectorRecall, KeywordRecall,
                      SkipChunk, CountText, NextList, SortFused, Rerank, Fusing
<1> QED
  BY <1>1, <1>2, <1>3

\* An empty answer means that no search offered a text, and that neither the vector
\* search nor the embedding failed.
THEOREM EmptyMeansNothingFound == RetrieveSpec => []EmptyIsNotFailure
<1>1. RetrieveInit => EmptyIsNotFailure
  BY DEF RetrieveInit, EmptyIsNotFailure
<1>2. /\ RetrieveInv /\ RetrieveInv' /\ FusedByRank /\ EmptyIsNotFailure
      /\ [RetrieveNext]_retrieveVars
      => EmptyIsNotFailure'
  BY EmptyStep
<1> QED
  BY <1>1, <1>2, RetrieveInvariant, FusionIsByRank, PTL DEF RetrieveSpec

\* Two ranks up to 61 outweigh any one.
LEMMA TwoOutweighOne ==
  ASSUME NEW v \in 61 .. 121, NEW k \in 61 .. 121, NEW w \in 61 .. 121
  PROVE  /\ v + k \in Nat /\ v * k \in Nat
         /\ v * k < (v + k) * w
<1>1. v \in Nat /\ k \in Nat /\ w \in Nat /\ v <= 121 /\ k <= 121 /\ w >= 61 /\ v >= 61
  OBVIOUS
<1>2. v * k \in Nat /\ v * k <= 121 * k
  BY <1>1
<1>3. v * k <= 121 * v
  BY <1>1
<1>4. (v + k) * 61 <= (v + k) * w /\ (v + k) * w \in Nat
  BY <1>1
<1>5. (v + k) * 61 = 61 * v + 61 * k
  BY <1>1
<1>6. 2 * (v * k) <= 121 * v + 121 * k
  BY <1>1, <1>2, <1>3
<1>7. v * k < 61 * v + 61 * k
  BY <1>1, <1>2, <1>6
<1> QED
  BY <1>1, <1>2, <1>4, <1>5, <1>7

LEMMA AgreementAtRerank ==
  ASSUME RetrieveInv, FusedByRank, RecallK <= RrfK + 1
  PROVE  AgreementWins
<1> SUFFICES ASSUME pc = "rerank", NEW i \in DOMAIN candidates, NEW j \in DOMAIN candidates, i < j,
                    Offers(vector, candidates[j]), Offers(keyword, candidates[j]),
                    ~(Offers(vector, candidates[i]) /\ Offers(keyword, candidates[i]))
             PROVE  FALSE
  BY DEF AgreementWins
<1> DEFINE t == candidates[i]
           u == candidates[j]
           v == RrfK + Rank(vector, u)
           k == RrfK + Rank(keyword, u)
<1>1. list = 2 /\ at = Len(keyword) + 1 /\ outcome = "open"
  BY DEF RetrieveInv, RetrieveTypeOK, StageInv
<1>2. t \in Offered /\ u \in Offered /\ NoBetter(u, t)
  BY <1>1 DEF FusedByRank, Kept
<1>3. t \in Texts /\ u \in Texts
  BY <1>2 DEF Offered
<1>4. /\ VectorRead = {x \in Texts : Offers(vector, x)}
      /\ KeywordRead = {x \in Texts : Offers(keyword, x)}
  BY <1>1, AllRead
<1>5. RecallK \in Nat /\ RecallK <= 61 /\ RrfK = 60
  BY RetrievalAssumption DEF RrfK
<1>6. /\ \A x \in Texts : Offers(vector, x) => RrfK + Rank(vector, x) \in 61 .. 121
      /\ \A x \in Texts : Offers(keyword, x) => RrfK + Rank(keyword, x) \in 61 .. 121
  <2>1. \A r \in 1 .. RecallK : RrfK + r \in 61 .. 121
    BY <1>5
  <2> QED
    BY <1>4, <2>1 DEF RetrieveInv, LoopInv, Ranks
<1>7. v \in 61 .. 121 /\ k \in 61 .. 121 /\ Fraction(u) = [num |-> v + k, den |-> v * k]
  BY <1>3, <1>6 DEF Fraction
<1>8. PICK w \in 61 .. 121 : Fraction(t) = [num |-> 1, den |-> w]
  <2>1. CASE Offers(vector, t)
    BY <1>3, <1>6, <2>1 DEF Fraction
  <2>2. CASE ~Offers(vector, t)
    BY <1>2, <1>3, <1>6, <2>2 DEF Fraction, Offered
  <2> QED
    BY <2>1, <2>2
<1>9. (v + k) * w <= 1 * (v * k)
  BY <1>2, <1>7, <1>8 DEF NoBetter
<1> HIDE DEF v, k
<1>10. v + k \in Nat /\ v * k \in Nat /\ v * k < (v + k) * w /\ w \in Nat
  BY <1>7, TwoOutweighOne
<1>11. 1 * (v * k) = v * k /\ (v + k) * w \in Nat
  BY <1>10, Products
<1> QED
  BY <1>9, <1>10, <1>11

\* While RECALL_K is at most 61 (it is 15 by default), a text both searches found is
\* handed to the reranker before any that only one of them found.
THEOREM AgreementOutranks == RecallK <= RrfK + 1 => (RetrieveSpec => []AgreementWins)
<1>1. SUFFICES ASSUME RecallK <= RrfK + 1 PROVE RetrieveSpec => []AgreementWins
  OBVIOUS
<1>2. RetrieveInv /\ FusedByRank => AgreementWins
  BY <1>1, AgreementAtRerank
<1> QED
  BY <1>2, RetrieveInvariant, FusionIsByRank, PTL
=============================================================================
