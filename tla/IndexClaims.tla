---------------------------- MODULE IndexClaims ----------------------------
(***************************************************************************)
(* What a document of the repository says of the pipeline and the code     *)
(* does not do; the run claim_authoritative shows how it fails.            *)
(***************************************************************************)
EXTENDS IndexPipeline

\* "The fingerprint store is the authoritative list of every file ever indexed"
\* (STALE-CLEANUP.md): a document that can be found has a fingerprint.
FingerprintsAreAuthoritative ==
  \A p \in Paths : Busy(p) \/ (Searchable(p) => fingerprint[p] # None)
=============================================================================
