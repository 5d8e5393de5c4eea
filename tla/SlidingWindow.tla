--------------------------- MODULE SlidingWindow ---------------------------
(***************************************************************************)
(* A rate limiter that forgets nothing.  It decides by counting all the    *)
(* requests it ever let pass, so it needs no cleaning up.                  *)
(***************************************************************************)
EXTENDS Naturals, Sequences, FiniteSets

CONSTANTS
  Buckets,      \* what is counted separately
  Limit,        \* requests each bucket lets pass per window
  Window

VARIABLES
  now,     \* the clock
  served,  \* times at which requests passed, per bucket
  answer   \* the answer on its way to a caller

vars == <<now, served, answer>>

NoAnswer == [bucket |-> <<>>, pass |-> FALSE]
Answer(b, pass) == [bucket |-> b, pass |-> pass]

Recent(b) == {i \in 1 .. Len(served[b]) : now - served[b][i] < Window}

Init ==
  /\ now = 0
  /\ served = [b \in Buckets |-> <<>>]
  /\ answer = NoAnswer

Pass(b) ==
  /\ answer = NoAnswer
  /\ Cardinality(Recent(b)) < Limit[b]
  /\ served' = [served EXCEPT ![b] = Append(@, now)]
  /\ answer' = Answer(b, TRUE)
  /\ UNCHANGED now

Reject(b) ==
  /\ answer = NoAnswer
  /\ Cardinality(Recent(b)) >= Limit[b]
  /\ answer' = Answer(b, FALSE)
  /\ UNCHANGED <<now, served>>

Return == answer # NoAnswer /\ answer' = NoAnswer /\ UNCHANGED <<now, served>>

Tick == now' = now + 1 /\ UNCHANGED <<served, answer>>

Next == Return \/ Tick \/ \E b \in Buckets : Pass(b) \/ Reject(b)

Spec == Init /\ [][Next]_vars

\* No window of the given length, wherever it starts, sees more than Limit requests pass:
\* a request and the one Limit places later are a window apart.
WindowBound ==
  \A b \in Buckets : \A i, j \in 1 .. Len(served[b]) :
    i + Limit[b] <= j => served[b][j] >= served[b][i] + Window
=============================================================================
