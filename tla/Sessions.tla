------------------------------ MODULE Sessions ------------------------------
(***************************************************************************)
(* Users and sessions of the web UI: the two SQLite tables of user_store,  *)
(* login and logout of the API process, manage_users.py in a process of    *)
(* its own, and the purge at the start of the API.  Each function of       *)
(* user_store is one transaction and so one step; between the read of the  *)
(* hash and the new session a login waits for bcrypt in a thread.          *)
(*                                                                         *)
(* A password hash is known by a number: every run of manage_users add     *)
(* stores another one (bcrypt salts it).  The clock is time.time().        *)
(***************************************************************************)
EXTENDS Naturals

CONSTANTS
  Users,
  Tokens,     \* values of secrets.token_hex, none is drawn twice
  Logins,     \* login requests in the air at the same time
  Expiry,     \* SESSION_EXPIRY_HOURS
  MaxTime,    \* bound of the clock
  MaxHashes   \* bound of the passwords set

ASSUME SessionsAssumption ==
  /\ "nobody" \notin Users
  /\ Expiry \in Nat \ {0} /\ MaxTime \in Nat /\ MaxHashes \in Nat

VARIABLES
  now,       \* the clock
  hashes,    \* the users table: the hash of each user, 0 is no row
  lastHash,  \* the last hash manage_users made
  sessions,  \* the sessions table: the tokens with a row
  user,      \* the username of the row, kept as history when the row is gone
  expires,   \* expires_at
  login,     \* login requests that wait for bcrypt
  drawn,     \* history: the tokens issued so far
  checked,   \* history: the hash a token's login had read
  born       \* history: the hash its user had when the row came

vars == <<now, hashes, lastHash, sessions, user, expires, login, drawn, checked, born>>
issued == <<user, expires, drawn, checked, born>>

NoLogin == [user |-> "nobody", stored |-> 0, password |-> 0]

\* validate_session joins the two tables.
Valid(t) == t \in sessions /\ expires[t] > now /\ user[t] \in Users /\ hashes[user[t]] # 0

Of(u) == {t \in sessions : user[t] = u}

Init ==
  /\ now = 0
  /\ hashes = [u \in Users |-> 0] /\ lastHash = 0
  /\ sessions = {} /\ drawn = {}
  /\ user = [t \in Tokens |-> "nobody"]
  /\ expires = [t \in Tokens |-> 0]
  /\ checked = [t \in Tokens |-> 0] /\ born = [t \in Tokens |-> 0]
  /\ login = [l \in Logins |-> NoLogin]

(***************************************************************************)
(* The API process.                                                        *)
(***************************************************************************)
\* login reads the stored hash and gives it with the password to a thread.  The
\* password is known by the hash it would match.
StartLogin(l, u, password) ==
  /\ login[l] = NoLogin
  /\ login' = [login EXCEPT ![l] = [user |-> u, stored |-> hashes[u], password |-> password]]
  /\ UNCHANGED <<now, hashes, lastHash, sessions, issued>>

CreateSession(t, u, stored) ==
  /\ sessions' = sessions \cup {t}
  /\ user' = [user EXCEPT ![t] = u]
  /\ expires' = [expires EXCEPT ![t] = now + Expiry]
  /\ drawn' = drawn \cup {t}
  /\ checked' = [checked EXCEPT ![t] = stored]
  /\ born' = [born EXCEPT ![t] = hashes[u]]

\* bcrypt has answered: 401, or a session for the user.
EndLogin(l) ==
  /\ login[l] # NoLogin
  /\ IF login[l].stored # 0 /\ login[l].password = login[l].stored
       THEN \E t \in Tokens \ drawn : CreateSession(t, login[l].user, login[l].stored)
       ELSE UNCHANGED <<sessions, issued>>
  /\ login' = [login EXCEPT ![l] = NoLogin]
  /\ UNCHANGED <<now, hashes, lastHash>>

Logout(t) ==
  /\ sessions' = sessions \ {t}
  /\ UNCHANGED <<now, hashes, lastHash, issued, login>>

\* MUTANT: the comparison of the purge is turned round.
RestartPurgesLive ==
  /\ sessions' \in {sessions, {t \in sessions : expires[t] <= now}}
  /\ login' = [l \in Logins |-> NoLogin]
  /\ UNCHANGED <<now, hashes, lastHash, issued>>

\* The API starts again: logins in the air are lost, expired rows are purged; a purge
\* that fails only leaves a warning.
Restart ==
  /\ sessions' \in {sessions, {t \in sessions : expires[t] > now}}
  /\ login' = [l \in Logins |-> NoLogin]
  /\ UNCHANGED <<now, hashes, lastHash, issued>>

(***************************************************************************)
(* manage_users.py.                                                        *)
(***************************************************************************)
\* MUTANT: a new password leaves the sessions.
AddKeepsSessions(u) ==
  /\ lastHash < MaxHashes
  /\ lastHash' = lastHash + 1
  /\ hashes' = [hashes EXCEPT ![u] = lastHash']
  /\ UNCHANGED <<now, sessions, issued, login>>

\* cmd_add: insert or update the user and delete the sessions, in one transaction.
Add(u) ==
  /\ lastHash < MaxHashes
  /\ lastHash' = lastHash + 1
  /\ hashes' = [hashes EXCEPT ![u] = lastHash']
  /\ sessions' = sessions \ Of(u)
  /\ UNCHANGED <<now, issued, login>>

Remove(u) ==
  /\ hashes' = [hashes EXCEPT ![u] = 0]
  /\ sessions' = sessions \ Of(u)
  /\ UNCHANGED <<now, lastHash, issued, login>>

Tick ==
  /\ now < MaxTime /\ now' = now + 1
  /\ UNCHANGED <<hashes, lastHash, sessions, issued, login>>

Next ==
  \/ Tick \/ Restart
  \/ \E u \in Users : Add(u) \/ Remove(u)
  \/ \E t \in Tokens : Logout(t)
  \/ \E l \in Logins : EndLogin(l)
  \/ \E l \in Logins, u \in Users, password \in 1 .. MaxHashes : StartLogin(l, u, password)

Spec == Init /\ [][Next]_vars

(***************************************************************************)
(* Properties.                                                             *)
(***************************************************************************)
TypeOK ==
  /\ now \in Nat /\ lastHash \in Nat
  /\ hashes \in [Users -> Nat]
  /\ sessions \subseteq drawn /\ drawn \subseteq Tokens
  /\ user \in [Tokens -> Users \cup {"nobody"}]
  /\ expires \in [Tokens -> Nat] /\ \A t \in Tokens : expires[t] <= now + Expiry
  /\ checked \in [Tokens -> Nat] /\ born \in [Tokens -> Nat]
  /\ login \in [Logins -> {NoLogin} \cup [user : Users, stored : Nat, password : Nat]]

\* A row in the sessions table of a user is younger than the user's password: a removal
\* or a new password ends every session there was, so that the only stale session is
\* one whose login was still at its bcrypt.
SessionsFollowPassword ==
  \A t \in sessions :
    hashes[user[t]] # 0 =>
      /\ born[t] = hashes[user[t]]
      /\ checked[t] <= born[t]

Life == [t \in Tokens |->
           IF t \notin drawn THEN "unused" ELSE IF Valid(t) THEN "live" ELSE "over"]

Promise == INSTANCE TokenLife WITH life <- Life, owner <- user

\* Every token lives once: whatever logins, removals, new passwords, restarts and the
\* purge do, a token that was refused is not accepted later, not even when its user is
\* added again, and it never passes to another user.
TokensLiveOnce == Promise!Spec

\* A session in use ends only by its own logout, its own expiry or a change of its own
\* user, never by a purge or by what happens to others.
EndsForAReason ==
  [][\A t \in Tokens : Valid(t) /\ ~Valid(t)' =>
       \/ Logout(t)
       \/ expires[t] <= now'
       \/ hashes'[user[t]] # hashes[user[t]]]_vars
=============================================================================
