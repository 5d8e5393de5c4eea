--------------------------- MODULE DocumentIndex ---------------------------
(***************************************************************************)
(* What the ingestion pipeline promises the search side about the points   *)
(* of each document: a new edition is added next to the old ones, the old  *)
(* ones are retired only while the new one is there, and apart from that a *)
(* document loses its points only by a withdrawal of all of them.          *)
(***************************************************************************)
CONSTANTS Documents, Editions, Nobody

VARIABLES
  index,     \* the editions of each document a query can find
  fresh      \* the document and the edition that is about to take over

Empty == [document |-> Nobody, edition |-> Nobody]

Init ==
  /\ index = [d \in Documents |-> {}]
  /\ fresh = Empty

\* A publisher that fails may leave its edition next to the old ones.
Add(d, e) ==
  /\ fresh = Empty
  /\ e \notin index[d]
  /\ index' = [index EXCEPT ![d] = @ \cup {e}]
  /\ fresh' \in {Empty, [document |-> d, edition |-> e]}

\* The older editions go; nothing is left if the document was withdrawn.
Retire(d) ==
  /\ fresh.document = d /\ d # Nobody
  /\ index' = [index EXCEPT ![d] = @ \cap {fresh.edition}]
  /\ fresh' \in {Empty, fresh}

Withdraw(d) ==
  /\ index' = [index EXCEPT ![d] = {}]
  /\ fresh' \in {Empty, fresh}

Abandon ==
  /\ fresh' = Empty
  /\ UNCHANGED index

Next ==
  \/ \E d \in Documents, e \in Editions : Add(d, e)
  \/ \E d \in Documents : Retire(d) \/ Withdraw(d)
  \/ Abandon

Spec == Init /\ [][Next]_<<index, fresh>>

\* The edition that is about to take over is there unless all are gone.
FreshIsThere ==
  fresh # Empty => fresh.edition \in index[fresh.document] \/ index[fresh.document] = {}
=============================================================================
