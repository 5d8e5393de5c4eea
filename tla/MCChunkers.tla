----------------------------- MODULE MCChunkers -----------------------------
(***************************************************************************)
(* All short documents over the tokens that matter for each kind.          *)
(***************************************************************************)
EXTENDS Chunkers

CONSTANTS
  TextTokens, MaxText, MarkdownTokens, MaxMarkdown, ProseTokens, MaxProse,
  PythonTokens, MaxPython

\* Three newlines in a row are a blank line and a newline, in this order.
Canonical(kinds) ==
  \A i \in 2 .. Len(kinds) : kinds[i - 1] = "line" => kinds[i] \notin {"line", "para"}

Texts(tokens, max) == {k \in UNION {[1 .. n -> tokens] : n \in 1 .. max} : Canonical(k)}

Plain(kind, tokens, max) ==
  {[kind |-> kind, kinds |-> k, nodes |-> <<>>] : k \in Texts(tokens, max)}

\* Nodes follow each other; one may begin on the last line of another.
NodeLists(n) ==
  {ns \in UNION {[1 .. m -> [first : 1 .. n, last : 1 .. n]] : m \in 0 .. 2} :
     /\ \A k \in DOMAIN ns : ns[k].first <= ns[k].last
     /\ \A k \in 2 .. Len(ns) : ns[k].first >= ns[k - 1].last}

Modules(tokens, max) ==
  UNION {{[kind |-> "python", kinds |-> k, nodes |-> ns] :
            ns \in NodeLists(Len(Lines([i \in DOMAIN k |-> [kind |-> k[i], at |-> i]])))}
         : k \in Texts(tokens, max)}

MCDocuments ==
  Plain("text", TextTokens, MaxText) \cup Plain("markdown", MarkdownTokens, MaxMarkdown)
    \cup Plain("markdown", ProseTokens, MaxProse) \cup Modules(PythonTokens, MaxPython)
=============================================================================
