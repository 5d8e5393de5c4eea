--------------------------- MODULE MCRagCapacity ---------------------------
(***************************************************************************)
(* Instances of RagCapacity for TLC.                                       *)
(***************************************************************************)
EXTENDS RagCapacity

CONSTANTS c1, c2, s1, r1

MCKind == [r \in Requests |-> CASE r \in {c1, c2} -> "chat"
                                [] r = s1 -> "stream"
                                [] r = r1 -> "retrieve"]
=============================================================================
