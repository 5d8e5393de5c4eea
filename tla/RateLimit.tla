----------------------------- MODULE RateLimit -----------------------------
(***************************************************************************)
(* The in-memory rate limiter of the API, as security_middleware uses it:  *)
(* a bucket of time stamps per address, one set of buckets for logins and  *)
(* one for everything else, and a sweep task for each that drops buckets   *)
(* whose stamps have all expired.  A check and a sweep hold the same lock  *)
(* and await nothing inside, so each is one step.                          *)
(*                                                                         *)
(* A stamp is known by the number of the request that left it, its time is *)
(* in served.                                                              *)
(***************************************************************************)
EXTENDS Naturals, Sequences, FiniteSets

CONSTANTS
  Addresses,    \* client addresses
  MaxRequests,  \* RATE_MAX_REQUESTS and RATE_MAX_LOGIN_REQUESTS
  Window,       \* RATE_WINDOW_SECONDS
  MaxTime       \* bound of the clock

Limiters == {"general", "login"}
Buckets == Limiters \X Addresses

ASSUME RateAssumption ==
  /\ MaxRequests \in [Limiters -> Nat \ {0}]
  /\ Window \in Nat \ {0}
  /\ MaxTime \in Nat

VARIABLES
  now,      \* time.monotonic()
  stamps,   \* _rate_buckets and _login_rate_buckets: the stamps kept of each address
  wakeup,   \* when the sweep task of a limiter ends its sleep
  served,   \* history: when the requests passed
  answer    \* what the check returns to the middleware

vars == <<now, stamps, wakeup, served, answer>>

NoAnswer == [bucket |-> <<>>, pass |-> FALSE]

\* The stamps inside the window, which is half open.
Active(b) == {i \in stamps[b] : now - served[b][i] < Window}

Init ==
  /\ now = 0
  /\ stamps = [b \in Buckets |-> {}]
  /\ wakeup = [l \in Limiters |-> Window]
  /\ served = [b \in Buckets |-> <<>>]
  /\ answer = NoAnswer

\* MUTANT: one request too many.
CheckOneMore(b) ==
  /\ answer = NoAnswer
  /\ LET pass == Cardinality(Active(b)) <= MaxRequests[b[1]] IN
       /\ answer' = [bucket |-> b, pass |-> pass]
       /\ served' = IF pass THEN [served EXCEPT ![b] = Append(@, now)] ELSE served
       /\ stamps' = [stamps EXCEPT ![b] =
                       Active(b) \cup (IF pass THEN {Len(served[b]) + 1} ELSE {})]
  /\ UNCHANGED <<now, wakeup>>

\* check_rate_limit keeps what is active and stamps a request it lets pass.
Check(b) ==
  /\ answer = NoAnswer
  /\ LET pass == Cardinality(Active(b)) < MaxRequests[b[1]] IN
       /\ answer' = [bucket |-> b, pass |-> pass]
       /\ served' = IF pass THEN [served EXCEPT ![b] = Append(@, now)] ELSE served
       /\ stamps' = [stamps EXCEPT ![b] =
                       Active(b) \cup (IF pass THEN {Len(served[b]) + 1} ELSE {})]
  /\ UNCHANGED <<now, wakeup>>

Return == answer # NoAnswer /\ answer' = NoAnswer /\ UNCHANGED <<now, stamps, wakeup, served>>

\* MUTANT: the sweep drops every bucket that has an expired stamp.
SweepAny(l) ==
  /\ wakeup[l] <= now
  /\ stamps' = [b \in Buckets |-> IF b[1] = l /\ Active(b) # stamps[b] THEN {} ELSE stamps[b]]
  /\ wakeup' = [wakeup EXCEPT ![l] = now + Window]
  /\ UNCHANGED <<now, served, answer>>

\* MUTANT: the sweep drops nothing.
SweepNone(l) ==
  /\ wakeup[l] <= now
  /\ stamps' = [b \in Buckets |-> IF b[1] = l THEN Active(b) \cup stamps[b] ELSE stamps[b]]
  /\ wakeup' = [wakeup EXCEPT ![l] = now + Window]
  /\ UNCHANGED <<now, served, answer>>

\* _sweep_expired drops the buckets without an active stamp, then sleeps again.
Sweep(l) ==
  /\ wakeup[l] <= now
  /\ stamps' = [b \in Buckets |-> IF b[1] = l /\ Active(b) = {} THEN {} ELSE stamps[b]]
  /\ wakeup' = [wakeup EXCEPT ![l] = now + Window]
  /\ UNCHANGED <<now, served, answer>>

\* The event loop is not late: a task whose sleep is over runs before time goes on.
Tick ==
  /\ now < MaxTime
  /\ \A l \in Limiters : now < wakeup[l]
  /\ now' = now + 1
  /\ UNCHANGED <<stamps, wakeup, served, answer>>

Next ==
  \/ Return \/ Tick
  \/ \E l \in Limiters : Sweep(l)
  \/ \E b \in Buckets : Check(b)

Spec == Init /\ [][Next]_vars

(***************************************************************************)
(* Properties.                                                             *)
(***************************************************************************)
Complete == INSTANCE SlidingWindow WITH Limit <- [b \in Buckets |-> MaxRequests[b[1]]]

\* Dropping stamps and buckets, now or in a sweep, changes no decision: every request
\* is answered as if the limiter remembered all of them.
ForgettingIsSafe == Complete!Spec

\* No address gets more than MaxRequests requests through in any window of time,
\* however its requests, rejections and the sweeps fall.
WindowBound == Complete!WindowBound

\* The dictionaries do not grow: a bucket holds at most MaxRequests stamps, and an
\* address that stays away for two windows is forgotten.
BucketsExpire ==
  \A b \in Buckets :
    /\ Cardinality(stamps[b]) <= MaxRequests[b[1]]
    /\ stamps[b] # {} => \E i \in stamps[b] : now < served[b][i] + 2 * Window
=============================================================================
