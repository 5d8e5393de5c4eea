----------------------------- MODULE Retrieval -----------------------------
(***************************************************************************)
(* retrieve_best: the vector search and the keyword search, their fusion   *)
(* by reciprocal rank, the reranker, and what becomes of it when a service *)
(* fails.                                                                  *)
(*                                                                         *)
(* A search result is the text of a chunk, whose other fields only travel  *)
(* with it.  What the searches and the reranker answer is theirs to        *)
(* choose.  A score is a fraction.  The loops of _fuse take one step per   *)
(* chunk.                                                                  *)
(***************************************************************************)
EXTENDS Naturals, Sequences, FiniteSets

CONSTANTS
  Texts,    \* texts of chunks
  Empty,    \* the text of a chunk without one
  RecallK,  \* RECALL_K
  RerankK,  \* RERANK_K
  Limits,   \* values of final_k: FINAL_K, or the limit of a /v1/retrieve
  Grades    \* scores of the reranker

RrfK == 60   \* _RRF_K

ASSUME RetrievalAssumption ==
  /\ Empty \notin Texts
  /\ {RecallK, RerankK} \subseteq Nat \ {0}
  /\ Limits \subseteq Nat \ {0} /\ Grades \subseteq Nat

VARIABLES
  pc,          \* the stage of retrieve_best
  limit,       \* final_k
  vector,      \* what vector_recall returns
  keyword,     \* what keyword_recall returns
  list, at,    \* which list _fuse reads, and where
  seen,        \* the texts it has seen in this list
  fused,       \* the keys of its dict, in their order
  score,       \* the scores in the dict
  candidates,  \* the fused candidates
  result,      \* what retrieve_best returns
  outcome,     \* "open", "chunks" or the exception that left retrieve_best
  failed       \* history: the services that failed

inputs == <<limit, vector, keyword>>
dict == <<fused, score>>
outputs == <<candidates, result, outcome, failed>>
retrieveVars == <<pc, inputs, list, at, seen, dict, outputs>>

Lists == UNION {[1 .. n -> Texts \cup {Empty}] : n \in 0 .. RecallK}

Zero == [num |-> 0, den |-> 1]

RetrieveInit ==
  /\ pc = "filenames" /\ limit \in Limits
  /\ vector = <<>> /\ keyword = <<>>
  /\ list = 1 /\ at = 1 /\ seen = {}
  /\ fused = <<>> /\ score = [t \in Texts |-> Zero]
  /\ candidates = <<>> /\ result = <<>>
  /\ outcome = "open" /\ failed = {}

(***************************************************************************)
(* The searches.                                                           *)
(***************************************************************************)
Fails(service) == failed' = failed \cup {service}

Raise(service, error) ==
  /\ Fails(service) /\ outcome' = error
  /\ pc' = "done"
  /\ UNCHANGED <<inputs, list, at, seen, dict, candidates, result>>

Searching == UNCHANGED <<limit, list, at, seen, dict, candidates, result, outcome>>

\* A failure of the filename lookup leaves the searches without a filter.
LookUpFilenames ==
  /\ pc = "filenames" /\ pc' = "embed"
  /\ UNCHANGED failed \/ Fails("facet")
  /\ UNCHANGED <<vector, keyword>> /\ Searching

Embed ==
  /\ pc = "embed"
  /\ \/ pc' = "vector" /\ UNCHANGED <<vector, keyword, failed>> /\ Searching
     \/ Raise("embedding", "RuntimeError")

\* MUTANT: a failed vector search counts as one that found nothing.
VectorRecallDegrades ==
  /\ pc = "vector" /\ pc' = "keyword"
  /\ \/ vector' \in Lists /\ UNCHANGED failed
     \/ vector' = <<>> /\ Fails("vector")
  /\ UNCHANGED keyword /\ Searching

VectorRecall ==
  /\ pc = "vector"
  /\ \/ pc' = "keyword" /\ vector' \in Lists /\ UNCHANGED <<keyword, failed>> /\ Searching
     \/ Raise("vector", "RetrievalError")

KeywordRecall ==
  /\ pc = "keyword" /\ pc' = "fuse"
  /\ \/ keyword' \in Lists /\ UNCHANGED failed
     \/ keyword' = <<>> /\ Fails("keyword")
  /\ UNCHANGED vector /\ Searching

(***************************************************************************)
(* Rank fusion: the loops of _fuse over the lists and their chunks.        *)
(***************************************************************************)
Ranked == IF list = 1 THEN vector ELSE keyword

Fusing == pc = "fuse" /\ UNCHANGED <<inputs, outputs>>

\* f + 1 / d
PlusUnit(f, d) == [num |-> f.num * d + f.den, den |-> f.den * d]

\* A chunk without text is dropped, and a text counts once per list.
SkipChunk ==
  /\ at <= Len(Ranked) /\ Ranked[at] \in seen \cup {Empty}
  /\ at' = at + 1
  /\ UNCHANGED <<pc, list, seen, dict>> /\ Fusing

\* MUTANT: the rank counts every chunk, repeated or without text.
CountPosition(t) ==
  /\ at <= Len(Ranked) /\ Ranked[at] = t /\ t \notin seen
  /\ seen' = seen \cup {t} /\ at' = at + 1
  /\ fused' = IF \E i \in DOMAIN fused : fused[i] = t THEN fused ELSE Append(fused, t)
  /\ score' = [score EXCEPT ![t] = PlusUnit(@, RrfK + at)]
  /\ UNCHANGED <<pc, list>> /\ Fusing

\* The rank is the number of texts seen; a new text joins the dict at its end.
CountText(t) ==
  /\ at <= Len(Ranked) /\ Ranked[at] = t /\ t \notin seen
  /\ seen' = seen \cup {t} /\ at' = at + 1
  /\ fused' = IF \E i \in DOMAIN fused : fused[i] = t THEN fused ELSE Append(fused, t)
  /\ score' = [score EXCEPT ![t] = PlusUnit(@, RrfK + Cardinality(seen'))]
  /\ UNCHANGED <<pc, list>> /\ Fusing

NextList ==
  /\ at > Len(Ranked) /\ list = 1
  /\ list' = 2 /\ at' = 1 /\ seen' = {}
  /\ UNCHANGED <<pc, dict>> /\ Fusing

(***************************************************************************)
(* The cut, and the reranker.                                              *)
(***************************************************************************)
\* What sorted(..., reverse=True) promises: the higher first, and what is neither
\* above nor below another keeps its place.
Sortings(s, above) ==
  {[i \in DOMAIN s |-> s[p[i]]] : p \in
     {p \in [DOMAIN s -> DOMAIN s] :
        /\ \A i \in DOMAIN s : \E j \in DOMAIN s : p[j] = i
        /\ \A i, j \in DOMAIN s : i < j =>
             \/ <<s[p[i]], s[p[j]]>> \in above
             \/ <<s[p[j]], s[p[i]]>> \notin above /\ p[i] < p[j]}}

\* MUTANT: the lowest score first.
Lower == {p \in Texts \X Texts : score[p[1]].num * score[p[2]].den < score[p[2]].num * score[p[1]].den}

Higher == {p \in Texts \X Texts : score[p[1]].num * score[p[2]].den > score[p[2]].num * score[p[1]].den}

Top(s, n) == SubSeq(s, 1, IF n < Len(s) THEN n ELSE Len(s))

\* At least final_k candidates go to the reranker.
SortFused ==
  /\ pc = "fuse" /\ pc' = "rerank"
  /\ at > Len(Ranked) /\ list = 2
  /\ \E sorted \in Sortings(fused, Higher) :
       candidates' = Top(sorted, IF limit > RerankK THEN limit ELSE RerankK)
  /\ UNCHANGED <<inputs, list, at, seen, dict, result, outcome, failed>>

\* Without candidates the reranker is not asked.
Rerank ==
  /\ pc = "rerank"
  /\ \/ /\ pc' = "done" /\ outcome' = "chunks"
        /\ \E grade \in [Texts -> Grades] :
             LET better == {p \in Texts \X Texts : grade[p[1]] > grade[p[2]]}
             IN \E sorted \in Sortings(candidates, better) : result' = Top(sorted, limit)
        /\ UNCHANGED <<inputs, list, at, seen, dict, candidates, failed>>
     \/ candidates # <<>> /\ Raise("reranker", "RuntimeError")

RetrieveNext ==
  \/ LookUpFilenames \/ Embed \/ VectorRecall \/ KeywordRecall
  \/ SkipChunk \/ NextList \/ SortFused \/ Rerank
  \/ \E t \in Texts : CountText(t)

RetrieveSpec == RetrieveInit /\ [][RetrieveNext]_retrieveVars

(***************************************************************************)
(* Properties.                                                             *)
(***************************************************************************)
Offers(ranked, t) == \E i \in DOMAIN ranked : ranked[i] = t

\* The rank of a text in a list: how many texts come no later.
Rank(ranked, t) ==
  Cardinality({u \in Texts : \E i \in DOMAIN ranked : ranked[i] = u /\ \A j \in 1 .. i - 1 : ranked[j] # t})

\* The fused score of a text as a fraction.
Fraction(t) ==
  LET v == RrfK + Rank(vector, t)
      k == RrfK + Rank(keyword, t)
  IN CASE Offers(vector, t) /\ Offers(keyword, t) -> [num |-> v + k, den |-> v * k]
       [] Offers(vector, t) /\ ~Offers(keyword, t) -> [num |-> 1, den |-> v]
       [] OTHER -> [num |-> 1, den |-> k]

Offered == {t \in Texts : Offers(vector, t) \/ Offers(keyword, t)}

NoBetter(t, u) == Fraction(t).num * Fraction(u).den <= Fraction(u).num * Fraction(t).den

Kept == {candidates[i] : i \in DOMAIN candidates}

\* The candidates are what reciprocal rank fusion says, no score counted twice and no
\* text listed twice: each is at least as good as the next, all are as good as those
\* left out, and nothing is left out for want of room the limit would have given.
FusedByRank ==
  pc \in {"rerank", "done"} /\ outcome \in {"open", "chunks"} =>
    /\ \A i, j \in DOMAIN candidates :
         i < j => candidates[i] # candidates[j] /\ NoBetter(candidates[j], candidates[i])
    /\ Kept \subseteq Offered
    /\ \A t \in Offered \ Kept : \A u \in Kept : NoBetter(t, u)
    /\ Kept = Offered \/ Len(candidates) >= limit

\* A text both searches found comes before any that only one of them found, wherever
\* it stands in the two lists (as long as RECALL_K is at most 61).
AgreementWins ==
  pc = "rerank" =>
    \A i, j \in DOMAIN candidates :
      i < j /\ Offers(vector, candidates[j]) /\ Offers(keyword, candidates[j])
        => Offers(vector, candidates[i]) /\ Offers(keyword, candidates[i])

\* An empty answer, which strict mode reports as "nothing found", is never the trace
\* of a failed vector search or embedding, nor does it drop a text that was found.
EmptyIsNotFailure ==
  outcome = "chunks" =>
    /\ failed \subseteq {"facet", "keyword"}
    /\ result = <<>> => Offered = {}
=============================================================================
