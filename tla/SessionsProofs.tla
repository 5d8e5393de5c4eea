--------------------------- MODULE SessionsProofs ---------------------------
(***************************************************************************)
(* Tokens live once, follow the password of their user and end for a       *)
(* reason, for any number of users, tokens and logins in the air, however  *)
(* they interleave with manage_users.py, restarts and the clock.           *)
(***************************************************************************)
EXTENDS Sessions, TLAPS

\* Only an issued token has a user.
OwnersKnown ==
  \A t \in Tokens : IF t \in drawn THEN user[t] \in Users ELSE user[t] = "nobody"

\* Hashes are numbered in the order they are made, and a login that waits for bcrypt
\* cannot have read one that is younger than its user's.
HashOrder ==
  /\ \A u \in Users : hashes[u] <= lastHash
  /\ \A l \in Logins : login[l] # NoLogin =>
       /\ login[l].stored <= lastHash
       /\ hashes[login[l].user] # 0 => login[l].stored <= hashes[login[l].user]

SessionsInv == TypeOK /\ OwnersKnown /\ HashOrder /\ SessionsFollowPassword

\* A request on its way to bcrypt names a user and carries two hashes.
LEMMA LoginType ==
  ASSUME TypeOK, NEW l \in Logins, login[l] # NoLogin
  PROVE  /\ login[l].user \in Users /\ login[l].stored \in Nat /\ login[l].password \in Nat
  BY DEF TypeOK

LEMMA InitSessions == Init => SessionsInv
  BY SessionsAssumption
  DEF Init, SessionsInv, TypeOK, OwnersKnown, HashOrder, SessionsFollowPassword, NoLogin

(***************************************************************************)
(* Each action keeps the invariant.                                        *)
(***************************************************************************)
\* Rows that go, and logins that are lost, disturb nothing.
LEMMA FewerSessions ==
  ASSUME SessionsInv, sessions' \subseteq sessions, UNCHANGED <<hashes, lastHash, issued>>,
         now' \in Nat, now <= now',
         login' \in [Logins -> {NoLogin} \cup [user : Users, stored : Nat, password : Nat]],
         \A l \in Logins : login'[l] \in {login[l], NoLogin}
  PROVE  SessionsInv'
<1>1. TypeOK'
  BY SessionsAssumption DEF SessionsInv, TypeOK, issued
<1>2. OwnersKnown'
  BY DEF SessionsInv, OwnersKnown, issued
<1>3. HashOrder'
  BY DEF SessionsInv, HashOrder
<1>4. SessionsFollowPassword'
  BY DEF SessionsInv, SessionsFollowPassword, issued
<1> QED
  BY <1>1, <1>2, <1>3, <1>4 DEF SessionsInv

LEMMA StartLoginKeeps ==
  ASSUME SessionsInv, NEW l \in Logins, NEW u \in Users, NEW password \in 1 .. MaxHashes,
         StartLogin(l, u, password)
  PROVE  SessionsInv'
<1> DEFINE request == [user |-> u, stored |-> hashes[u], password |-> password]
<1>1. request \in [user : Users, stored : Nat, password : Nat]
  BY SessionsAssumption DEF SessionsInv, TypeOK
<1>2. login' = [login EXCEPT ![l] = request]
  BY DEF StartLogin
<1>3. TypeOK'
  BY <1>1, <1>2 DEF StartLogin, SessionsInv, TypeOK, issued
<1>4. HashOrder'
  <2> SUFFICES ASSUME NEW k \in Logins, login'[k] # NoLogin
               PROVE /\ login'[k].stored <= lastHash
                     /\ hashes[login'[k].user] # 0 => login'[k].stored <= hashes[login'[k].user]
    BY DEF StartLogin, SessionsInv, HashOrder
  <2>1. CASE k = l
    <3>1. login'[k] = request
      BY <1>2, <2>1 DEF SessionsInv, TypeOK
    <3> QED
      BY <3>1 DEF SessionsInv, TypeOK, HashOrder
  <2>2. CASE k # l
    <3>1. login'[k] = login[k]
      BY <1>2, <2>2 DEF SessionsInv, TypeOK
    <3> QED
      BY <3>1 DEF SessionsInv, HashOrder
  <2> QED
    BY <2>1, <2>2
<1>5. OwnersKnown' /\ SessionsFollowPassword'
  BY DEF StartLogin, SessionsInv, OwnersKnown, SessionsFollowPassword, issued
<1> QED
  BY <1>3, <1>4, <1>5 DEF SessionsInv

LEMMA EndLoginKeeps ==
  ASSUME SessionsInv, NEW l \in Logins, EndLogin(l)
  PROVE  SessionsInv'
<1>1. /\ login' = [login EXCEPT ![l] = NoLogin] /\ UNCHANGED <<now, hashes, lastHash>>
      /\ login[l] # NoLogin
  BY DEF EndLogin
<1>2. /\ login' \in [Logins -> {NoLogin} \cup [user : Users, stored : Nat, password : Nat]]
      /\ \A k \in Logins : login'[k] \in {login[k], NoLogin}
  BY <1>1 DEF SessionsInv, TypeOK
<1>3. CASE UNCHANGED <<sessions, issued>>
  BY <1>1, <1>2, <1>3, FewerSessions DEF SessionsInv, TypeOK
<1>4. CASE \E t \in Tokens \ drawn : CreateSession(t, login[l].user, login[l].stored)
  <2> DEFINE u == login[l].user
             stored == login[l].stored
  <2>1. u \in Users /\ stored \in Nat
    BY <1>1, LoginType DEF SessionsInv
  <2>2. PICK t \in Tokens \ drawn : CreateSession(t, u, stored)
    BY <1>4
  <2> HIDE DEF u, stored
  <2>3. TypeOK'
    BY <1>1, <1>2, <2>1, <2>2, SessionsAssumption DEF CreateSession, SessionsInv, TypeOK
  <2>4. OwnersKnown'
    BY <2>1, <2>2 DEF CreateSession, SessionsInv, TypeOK, OwnersKnown
  <2>5. HashOrder'
    BY <1>1, <1>2 DEF SessionsInv, HashOrder
  <2>6. hashes[u] # 0 => stored <= hashes[u]
    BY <1>1 DEF SessionsInv, HashOrder, u, stored
  <2>7. SessionsFollowPassword'
    <3> SUFFICES ASSUME NEW s \in sessions', hashes[user'[s]] # 0
                 PROVE born'[s] = hashes[user'[s]] /\ checked'[s] <= born'[s]
      BY <1>1 DEF SessionsFollowPassword
    <3>1. CASE s = t
      BY <2>1, <2>2, <2>6, <3>1 DEF CreateSession, SessionsInv, TypeOK
    <3>2. CASE s # t
      <4>1. s \in sessions /\ user'[s] = user[s] /\ born'[s] = born[s] /\ checked'[s] = checked[s]
        BY <2>2, <3>2 DEF CreateSession, SessionsInv, TypeOK
      <4> QED
        BY <4>1 DEF SessionsInv, SessionsFollowPassword
    <3> QED
      BY <3>1, <3>2
  <2> QED
    BY <2>3, <2>4, <2>5, <2>7 DEF SessionsInv
<1> QED
  BY <1>3, <1>4 DEF EndLogin

\* A new hash, or none, for one user, whose sessions go in the same transaction.
LEMMA ChangeKeeps ==
  ASSUME SessionsInv, NEW u \in Users, NEW h \in Nat,
         hashes' = [hashes EXCEPT ![u] = h], sessions' = sessions \ Of(u),
         lastHash' \in Nat, lastHash <= lastHash', h <= lastHash',
         h # 0 => h = lastHash',
         UNCHANGED <<now, issued, login>>
  PROVE  SessionsInv'
<1>1. TypeOK'
  BY DEF SessionsInv, TypeOK, issued
<1>2. OwnersKnown'
  BY DEF SessionsInv, OwnersKnown, issued
<1>3. \A v \in Users : hashes'[v] = IF v = u THEN h ELSE hashes[v]
  BY DEF SessionsInv, TypeOK
<1>4. HashOrder'
  <2>1. \A v \in Users : hashes'[v] <= lastHash'
    BY <1>3 DEF SessionsInv, TypeOK, HashOrder
  <2>2. ASSUME NEW l \in Logins, login'[l] # NoLogin
        PROVE  /\ login'[l].stored <= lastHash'
               /\ hashes'[login'[l].user] # 0 => login'[l].stored <= hashes'[login'[l].user]
    <3>1. login[l].user \in Users /\ login[l].stored \in Nat /\ login'[l] = login[l]
      BY <2>2, LoginType DEF SessionsInv
    <3>2. login[l].stored <= lastHash
      BY <2>2, <3>1 DEF SessionsInv, HashOrder
    <3>3. login[l].stored <= lastHash'
      BY <3>1, <3>2 DEF SessionsInv, TypeOK
    <3>4. hashes[login[l].user] # 0 => login[l].stored <= hashes[login[l].user]
      BY <2>2, <3>1 DEF SessionsInv, HashOrder
    <3> QED
      BY <1>3, <3>1, <3>3, <3>4
  <2> QED
    BY <2>1, <2>2 DEF HashOrder
<1>5. SessionsFollowPassword'
  <2> SUFFICES ASSUME NEW t \in sessions', hashes'[user[t]] # 0
               PROVE born[t] = hashes'[user[t]] /\ checked[t] <= born[t]
    BY DEF SessionsFollowPassword, issued
  <2>1. t \in sessions /\ user[t] # u /\ user[t] \in Users
    BY DEF Of, SessionsInv, TypeOK, OwnersKnown
  <2>2. hashes'[user[t]] = hashes[user[t]]
    BY <1>3, <2>1
  <2> QED
    BY <2>1, <2>2 DEF SessionsInv, SessionsFollowPassword
<1> QED
  BY <1>1, <1>2, <1>4, <1>5 DEF SessionsInv

LEMMA AddKeeps ==
  ASSUME SessionsInv, NEW u \in Users, Add(u)
  PROVE  SessionsInv'
<1>1. lastHash \in Nat
  BY DEF SessionsInv, TypeOK
<1>2. PICK h \in Nat : h = lastHash + 1
  BY <1>1
<1>3. /\ lastHash' = h /\ lastHash' \in Nat /\ lastHash <= lastHash' /\ h <= lastHash'
      /\ hashes' = [hashes EXCEPT ![u] = h]
  BY <1>1, <1>2 DEF Add
<1>4. sessions' = sessions \ Of(u) /\ UNCHANGED <<now, issued, login>>
  BY DEF Add
<1> QED
  BY <1>2, <1>3, <1>4, ChangeKeeps

LEMMA RemoveKeeps ==
  ASSUME SessionsInv, NEW u \in Users, Remove(u)
  PROVE  SessionsInv'
<1>1. lastHash \in Nat /\ lastHash' = lastHash
  BY DEF Remove, SessionsInv, TypeOK
<1>2. lastHash' \in Nat /\ lastHash <= lastHash' /\ 0 <= lastHash' /\ 0 \in Nat
  BY <1>1
<1>3. /\ hashes' = [hashes EXCEPT ![u] = 0] /\ sessions' = sessions \ Of(u)
      /\ UNCHANGED <<now, issued, login>>
  BY DEF Remove
<1> QED
  BY <1>2, <1>3, ChangeKeeps
LEMMA SessionsStep == SessionsInv /\ [Next]_vars => SessionsInv'
<1> SUFFICES ASSUME SessionsInv, [Next]_vars PROVE SessionsInv'
  OBVIOUS
<1>1. CASE Tick \/ Restart \/ UNCHANGED vars \/ \E t \in Tokens : Logout(t)
  <2>1. /\ sessions' \subseteq sessions /\ UNCHANGED <<hashes, lastHash, issued>>
        /\ now \in Nat /\ now' \in {now, now + 1}
        /\ login' \in {login, [l \in Logins |-> NoLogin]}
    BY <1>1 DEF Tick, Restart, Logout, vars, issued, SessionsInv, TypeOK
  <2>2. /\ login' \in [Logins -> {NoLogin} \cup [user : Users, stored : Nat, password : Nat]]
        /\ \A l \in Logins : login'[l] \in {login[l], NoLogin}
    BY <2>1 DEF SessionsInv, TypeOK
  <2> QED
    BY <2>1, <2>2, FewerSessions
<1>2. CASE \E u \in Users : Add(u) \/ Remove(u)
  BY <1>2, AddKeeps, RemoveKeeps
<1>3. CASE \E l \in Logins : EndLogin(l)
  BY <1>3, EndLoginKeeps
<1>4. CASE \E l \in Logins, u \in Users, password \in 1 .. MaxHashes : StartLogin(l, u, password)
  BY <1>4, StartLoginKeeps
<1> QED
  BY <1>1, <1>2, <1>3, <1>4 DEF Next

\* Types, owners, the order of the hashes and the rule for the sessions hold together
\* in every reachable state.
THEOREM SessionsInvariant == Spec => []SessionsInv
  BY InitSessions, SessionsStep, PTL DEF Spec

\* Every variable of Sessions has its type; no session outlives its expiry time.
THEOREM TypeCorrect == Spec => []TypeOK
<1>1. SessionsInv => TypeOK
  BY DEF SessionsInv
<1> QED
  BY <1>1, SessionsInvariant, PTL

\* A removal or a new password leaves no older session of the user, except one whose
\* login had read the hash before.
THEOREM SessionsAreYounger == Spec => []SessionsFollowPassword
<1>1. SessionsInv => SessionsFollowPassword
  BY DEF SessionsInv
<1> QED
  BY <1>1, SessionsInvariant, PTL

(***************************************************************************)
(* What becomes of a token in a step.                                      *)
(***************************************************************************)
\* A token that was issued and is not accepted is not accepted after any step.
LEMMA RefusedStaysRefused ==
  ASSUME SessionsInv, [Next]_vars, NEW t \in drawn, ~Valid(t)
  PROVE  ~Valid(t)' /\ t \in drawn' /\ user'[t] = user[t]
<1>1. t \in Tokens /\ user[t] \in Users /\ expires[t] \in Nat /\ now \in Nat
  BY DEF SessionsInv, TypeOK, OwnersKnown
<1>2. CASE Tick \/ Restart \/ UNCHANGED vars \/ \E s \in Tokens : Logout(s)
  BY <1>1, <1>2 DEF Tick, Restart, Logout, vars, issued, Valid
<1>3. ASSUME NEW u \in Users, Add(u) \/ Remove(u)
      PROVE  ~Valid(t)' /\ t \in drawn' /\ user'[t] = user[t]
  <2>1. /\ UNCHANGED <<now, issued>> /\ sessions' = sessions \ Of(u)
        /\ \A v \in Users : v # u => hashes'[v] = hashes[v]
    BY <1>3 DEF Add, Remove, SessionsInv, TypeOK
  <2>2. CASE user[t] = u
    BY <2>1, <2>2 DEF Valid, Of, issued
  <2>3. CASE user[t] # u
    BY <1>1, <2>1, <2>3 DEF Valid, issued
  <2> QED
    BY <2>2, <2>3
<1>4. ASSUME NEW l \in Logins, EndLogin(l)
      PROVE  ~Valid(t)' /\ t \in drawn' /\ user'[t] = user[t]
  <2>1. CASE UNCHANGED <<sessions, issued>>
    BY <1>4, <2>1 DEF EndLogin, Valid, issued
  <2>2. CASE \E s \in Tokens \ drawn : CreateSession(s, login[l].user, login[l].stored)
    <3>1. /\ t \in sessions' <=> t \in sessions
          /\ user'[t] = user[t] /\ expires'[t] = expires[t] /\ t \in drawn'
      BY <1>1, <2>2 DEF CreateSession, SessionsInv, TypeOK
    <3> QED
      BY <1>4, <3>1 DEF EndLogin, Valid
  <2> QED
    BY <1>4, <2>1, <2>2 DEF EndLogin
<1>5. ASSUME NEW l \in Logins, NEW u \in Users, NEW password \in 1 .. MaxHashes,
             StartLogin(l, u, password)
      PROVE  ~Valid(t)' /\ t \in drawn' /\ user'[t] = user[t]
  BY <1>5 DEF StartLogin, Valid, issued
<1> QED
  BY <1>2, <1>3, <1>4, <1>5 DEF Next

\* A step that issues nothing only ends tokens.
LEMMA NoIssueEnds ==
  ASSUME SessionsInv, [Next]_vars, UNCHANGED issued
  PROVE  [Promise!Next]_<<Life, user>>
<1> DEFINE S == {t \in Tokens : Life[t] = "live" /\ ~Valid(t)'}
<1>1. S \in SUBSET {t \in Tokens : Life[t] = "live"}
  OBVIOUS
<1>2. ASSUME NEW t \in Tokens
      PROVE  Life'[t] = IF t \in S THEN "over" ELSE Life[t]
  <2>1. drawn' = drawn
    BY DEF issued
  <2>2. CASE t \notin drawn
    BY <2>1, <2>2 DEF Life
  <2>3. CASE t \in drawn /\ Valid(t)
    BY <2>1, <2>3 DEF Life
  <2>4. CASE t \in drawn /\ ~Valid(t)
    BY <2>1, <2>4, RefusedStaysRefused DEF Life
  <2> QED
    BY <2>2, <2>3, <2>4
<1>3. Life' = [t \in Tokens |-> IF t \in S THEN "over" ELSE Life[t]]
  BY <1>2 DEF Life
<1>4. user' = user
  BY DEF issued
<1> QED
  BY <1>1, <1>3, <1>4 DEF Promise!Next, Promise!EndTokens

\* A login that succeeds issues one token and leaves the others as they are.
LEMMA CreateIssues ==
  ASSUME SessionsInv, NEW t \in Tokens \ drawn, NEW u \in Users, NEW stored,
         CreateSession(t, u, stored), UNCHANGED <<now, hashes>>
  PROVE  Promise!Next
<1>1. /\ user' = [user EXCEPT ![t] = u] /\ drawn' = drawn \cup {t}
      /\ sessions' = sessions \cup {t}
      /\ \A s \in Tokens : s # t => user'[s] = user[s] /\ expires'[s] = expires[s]
  BY DEF CreateSession, SessionsInv, TypeOK
<1>2. Life[t] = "unused" /\ Life'[t] \in {"live", "over"}
  BY <1>1 DEF Life
<1>3. ASSUME NEW s \in Tokens, s # t PROVE Life'[s] = Life[s]
  <2>1. Valid(s)' <=> Valid(s)
    BY <1>1, <1>3 DEF Valid
  <2> QED
    BY <1>1, <1>3, <2>1 DEF Life
<1>4. Life' = [Life EXCEPT ![t] = Life'[t]]
  BY <1>3 DEF Life
<1> QED
  BY <1>1, <1>2, <1>4 DEF Promise!Next, Promise!Issue

LEMMA PromiseStep ==
  ASSUME SessionsInv, [Next]_vars
  PROVE  [Promise!Next]_<<Life, user>>
<1>1. CASE UNCHANGED issued
  BY <1>1, NoIssueEnds
<1>2. ASSUME NEW l \in Logins, EndLogin(l),
             \E t \in Tokens \ drawn : CreateSession(t, login[l].user, login[l].stored)
      PROVE  Promise!Next
  <2>1. login[l].user \in Users
    BY <1>2, LoginType DEF EndLogin, SessionsInv
  <2> QED
    BY <1>2, <2>1, CreateIssues DEF EndLogin
<1>3. CASE \E l \in Logins : EndLogin(l)
  BY <1>1, <1>2, <1>3 DEF EndLogin
<1>4. CASE ~\E l \in Logins : EndLogin(l)
  BY <1>1, <1>4 DEF Next, Tick, Restart, Logout, Add, Remove, StartLogin, vars, issued
<1> QED
  BY <1>3, <1>4

\* Every token lives once: the tables, seen as the life of each token, behave as
\* TokenLife says.
THEOREM TokensAreUsedOnce == Spec => TokensLiveOnce
<1>1. Init => Promise!Init
  BY DEF Init, Promise!Init, Promise!NoUser, Life
<1> QED
  BY <1>1, PromiseStep, SessionsInvariant, PTL DEF Spec, Promise!Spec, Promise!vars, TokensLiveOnce

\* A session in use ends by its own logout, its own expiry or a change of its own user.
THEOREM SessionsEndForAReason == Spec => EndsForAReason
<1> DEFINE Reason(t) ==
      Logout(t) \/ expires[t] <= now' \/ hashes'[user[t]] # hashes[user[t]]
<1>1. ASSUME SessionsInv, [Next]_vars, NEW t \in Tokens, Valid(t), ~Valid(t)'
      PROVE  Reason(t)
  <2>1. /\ user[t] \in Users /\ expires[t] \in Nat /\ now \in Nat /\ t \in sessions
        /\ hashes[user[t]] # 0 /\ expires[t] > now /\ t \in drawn
    BY <1>1 DEF Valid, SessionsInv, TypeOK
  <2>2. CASE Tick
    BY <1>1, <2>1, <2>2 DEF Tick, Valid, issued
  <2>3. CASE Restart \/ UNCHANGED vars
    BY <1>1, <2>1, <2>3 DEF Restart, vars, Valid, issued
  <2>4. CASE \E s \in Tokens : Logout(s)
    BY <1>1, <2>1, <2>4 DEF Logout, Valid, issued
  <2>5. ASSUME NEW u \in Users, Add(u) \/ Remove(u) PROVE Reason(t)
    <3>1. CASE user[t] = u
      <4>1. hashes[u] <= lastHash /\ hashes[u] \in Nat /\ lastHash \in Nat
        BY <1>1 DEF SessionsInv, TypeOK, HashOrder
      <4>2. hashes'[u] \in {0, lastHash + 1}
        BY <1>1, <2>5 DEF Add, Remove, SessionsInv, TypeOK
      <4> QED
        BY <2>1, <3>1, <4>1, <4>2
    <3>2. CASE user[t] # u
      <4>1. hashes'[user[t]] = hashes[user[t]]
        BY <1>1, <2>1, <2>5, <3>2 DEF Add, Remove, SessionsInv, TypeOK
      <4> QED
        BY <1>1, <2>1, <2>5, <3>2, <4>1 DEF Add, Remove, Of, Valid, issued
    <3> QED
      BY <3>1, <3>2
  <2>6. ASSUME NEW l \in Logins, EndLogin(l) PROVE Reason(t)
    <3>1. /\ t \in sessions' /\ user'[t] = user[t] /\ expires'[t] = expires[t]
          /\ UNCHANGED <<now, hashes>>
      BY <1>1, <2>1, <2>6 DEF EndLogin, CreateSession, SessionsInv, TypeOK, issued
    <3> QED
      BY <1>1, <2>1, <3>1 DEF Valid
  <2>7. CASE \E l \in Logins, u \in Users, password \in 1 .. MaxHashes : StartLogin(l, u, password)
    BY <1>1, <2>1, <2>7 DEF StartLogin, Valid, issued
  <2> QED
    BY <1>1, <2>2, <2>3, <2>4, <2>5, <2>6, <2>7 DEF Next
<1>2. SessionsInv /\ [Next]_vars =>
        [\A t \in Tokens : Valid(t) /\ ~Valid(t)' =>
             \/ Logout(t)
             \/ expires[t] <= now'
             \/ hashes'[user[t]] # hashes[user[t]]]_vars
  BY <1>1
<1> QED
  BY <1>2, SessionsInvariant, PTL DEF Spec, EndsForAReason
=============================================================================
