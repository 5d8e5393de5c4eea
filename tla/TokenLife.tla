----------------------------- MODULE TokenLife -----------------------------
(***************************************************************************)
(* What a session token promises: it opens the API from its issue until it *)
(* is revoked or expires, it belongs to one user all its life, and once it *)
(* has been refused it is never accepted again.                            *)
(***************************************************************************)
CONSTANTS Tokens, Users

VARIABLES
  life,   \* "unused", "live" or "over"
  owner   \* the user a token was issued to

vars == <<life, owner>>

NoUser == "nobody"

Init ==
  /\ life = [t \in Tokens |-> "unused"]
  /\ owner = [t \in Tokens |-> NoUser]

\* A token issued to a user who is being removed is refused from the start.
Issue(t, u) ==
  /\ life[t] = "unused"
  /\ \E l \in {"live", "over"} : life' = [life EXCEPT ![t] = l]
  /\ owner' = [owner EXCEPT ![t] = u]

\* A removal, a new password, a logout or the clock ends any number of tokens.
EndTokens ==
  /\ \E S \in SUBSET {t \in Tokens : life[t] = "live"} :
       life' = [t \in Tokens |-> IF t \in S THEN "over" ELSE life[t]]
  /\ UNCHANGED owner

Next == EndTokens \/ \E t \in Tokens, u \in Users : Issue(t, u)

Spec == Init /\ [][Next]_vars
=============================================================================
