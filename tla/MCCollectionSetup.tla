------------------------- MODULE MCCollectionSetup -------------------------
(***************************************************************************)
(* Two files, each below a watch root of its own; one may be filtered out. *)
(***************************************************************************)
EXTENDS CollectionSetup, TLC

CONSTANTS p1, p2, Commands, ChangesAllowed, Faults

MCRoots == {{p1}, {p2}}
MCFilters == {{p1, p2}, {p1}}
MCBudget == [r \in Resources |->
  CASE r = "commands" -> Commands [] r = "changes" -> ChangesAllowed [] r = "faults" -> Faults]
=============================================================================
