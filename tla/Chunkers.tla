------------------------------ MODULE Chunkers ------------------------------
(***************************************************************************)
(* How a document is split into the chunks that are embedded: the window   *)
(* splitter for any text, the section splitter for Markdown, the           *)
(* definition splitter for Python, and the packing of small neighbours.    *)
(*                                                                         *)
(* A text is a sequence of tokens, and a token has its place in the        *)
(* document, so that chunks can be compared with the document.  A          *)
(* separator that join() adds has place 0.  Each loop of the code is a     *)
(* recursive function of the number of its turns.                          *)
(***************************************************************************)
EXTENDS Naturals, Sequences, FiniteSets

CONSTANTS
  ChunkSize,    \* CHUNK_SIZE
  Overlap,      \* CHUNK_OVERLAP
  MaxChars,     \* MAX_CHUNK_CHARS and MAX_MD_CHUNK
  Documents,    \* the documents: kind, the kinds of the tokens, and nodes
  NotYet        \* no chunks yet

VARIABLES
  document,     \* the document to split
  chunks        \* what index_file embeds of it, or NotYet

(***************************************************************************)
(* Texts.  "para" is a blank line (two newlines), "line" a newline, "head" *)
(* a Markdown header mark, "fence" and "info" begin fence lines, of which  *)
(* only a "fence" can close a block.                                       *)
(***************************************************************************)
Kinds == {"char", "space", "line", "para", "head", "fence", "info"}
Blank == {"para", "line", "space"}

Width(kind) == IF kind = "para" THEN 2 ELSE 1

Length(s) ==
  LET sum[n \in 0 .. Len(s)] == IF n = 0 THEN 0 ELSE sum[n - 1] + Width(s[n].kind)
  IN sum[Len(s)]

Glue(kind) == IF kind = "none" THEN <<>> ELSE <<[kind |-> kind, at |-> 0]>>

JoinPart(parts, kind, n, text) == IF n = 1 THEN parts[n] ELSE text \o Glue(kind) \o parts[n]

Join(parts, kind) ==
  LET text[n \in 0 .. Len(parts)] ==
        IF n = 0 THEN <<>> ELSE JoinPart(parts, kind, n, text[n - 1])
  IN text[Len(parts)]

Concat(lists) ==
  LET all[n \in 0 .. Len(lists)] == IF n = 0 THEN <<>> ELSE all[n - 1] \o lists[n]
  IN all[Len(lists)]

Least(S) == CHOOSE i \in S : \A j \in S : i <= j
Greatest(S) == CHOOSE i \in S : \A j \in S : i >= j

Strip(s) ==
  LET ink == {i \in DOMAIN s : s[i].kind \notin Blank}
  IN IF ink = {} THEN <<>> ELSE SubSeq(s, Least(ink), Greatest(ink))

\* The stripped texts that are not empty.
KeepStripped(texts, n, kept) ==
  IF Strip(texts[n]) = <<>> THEN kept ELSE Append(kept, Strip(texts[n]))

Stripped(texts) ==
  LET kept[n \in 0 .. Len(texts)] ==
        IF n = 0 THEN <<>> ELSE KeepStripped(texts, n, kept[n - 1])
  IN kept[Len(texts)]

\* Where the parts of s between the tokens with the indices in cuts begin and end;
\* empty ones are left out.
NextSpan(cuts, n, spans) ==
  IF n \in cuts THEN spans
  ELSE IF n = 1 \/ n - 1 \in cuts THEN Append(spans, <<n, n>>)
  ELSE [spans EXCEPT ![Len(spans)] = <<@[1], n>>]

Spans(s, cuts) ==
  LET spans[n \in 0 .. Len(s)] == IF n = 0 THEN <<>> ELSE NextSpan(cuts, n, spans[n - 1])
  IN spans[Len(s)]

CutAt(s, cuts) ==
  LET spans == Spans(s, cuts) IN [k \in DOMAIN spans |-> SubSeq(s, spans[k][1], spans[k][2])]

Having(s, kind) == {i \in DOMAIN s : s[i].kind = kind}

(***************************************************************************)
(* The window splitter.                                                    *)
(***************************************************************************)
JoinSize(splits, kind, a, b) == Length(Join(SubSeq(splits, a, b), kind))

\* The loop of _merge_splits: current runs from first on.  Of a full one the longest
\* tail is kept that is not longer than overlap.
AddSplit(splits, kind, overlap, n, old) ==
  IF old.first < n /\ JoinSize(splits, kind, old.first, n) > ChunkSize
    THEN [out |-> Append(old.out, <<old.first, n - 1>>),
          first |-> Least({k \in old.first .. n : JoinSize(splits, kind, k, n - 1) <= overlap})]
    ELSE old

\* The first and the last split of each chunk.
Windows(splits, kind, overlap) ==
  LET loop[n \in 0 .. Len(splits)] ==
        IF n = 0 THEN [out |-> <<>>, first |-> 1]
        ELSE AddSplit(splits, kind, overlap, n, loop[n - 1])
      last == loop[Len(splits)]
  IN IF splits = <<>> THEN <<>> ELSE Append(last.out, <<last.first, Len(splits)>>)

MergeSplits(splits, kind, overlap) ==
  LET windows == Windows(splits, kind, overlap)
  IN [k \in DOMAIN windows |-> Join(SubSeq(splits, windows[k][1], windows[k][2]), kind)]

\* MUTANT: what was collected is written behind the long part that follows it.
FlushLate(good, long) == long \o good

\* What was collected is written before the long part that follows it.
Flush(good, long) == good \o long

Good(parts, kind, a, b) == MergeSplits(SubSeq(parts, a, b), kind, Overlap)

\* The loop of _recursive_split: the parts from first on are short.
AddPart(parts, kind, finer, n, old) ==
  IF Length(parts[n]) > ChunkSize
    THEN [out |-> old.out \o Flush(Good(parts, kind, old.first, n - 1), finer[n]),
          first |-> n + 1]
    ELSE old

Collect(parts, kind, finer) ==
  LET loop[n \in 0 .. Len(parts)] ==
        IF n = 0 THEN [out |-> <<>>, first |-> 1] ELSE AddPart(parts, kind, finer, n, loop[n - 1])
      last == loop[Len(parts)]
  IN last.out \o Good(parts, kind, last.first, Len(parts))

\* _recursive_split on the first separator that occurs; Finer takes those behind it.
SplitOn(s, kind, Finer(_)) ==
  IF Having(s, kind) = {} THEN Finer(s)
  ELSE LET parts == CutAt(s, Having(s, kind))
       IN Collect(parts, kind, [k \in DOMAIN parts |-> Finer(parts[k])])

SplitCharacters(s) == MergeSplits([i \in DOMAIN s |-> <<s[i]>>], "none", Overlap)
SplitSpaces(s) == SplitOn(s, "space", SplitCharacters)
SplitLines(s) == SplitOn(s, "line", SplitSpaces)

ChunkText(s) == IF Strip(s) = <<>> THEN <<>> ELSE SplitOn(s, "para", SplitLines)

(***************************************************************************)
(* Markdown.                                                               *)
(***************************************************************************)
LineStarts(s) == {i \in DOMAIN s : i = 1 \/ s[i - 1].kind \in {"line", "para"}}

FenceLines(s) == {i \in LineStarts(s) : s[i].kind \in {"fence", "info"}}

\* Whether a code block is open before index i.
InCode(s, i) ==
  LET open[n \in 0 .. Len(s)] ==
        IF n = 0 THEN FALSE
        ELSE IF n \in FenceLines(s) THEN ~open[n - 1] \/ s[n].kind = "info"
        ELSE open[n - 1]
  IN open[i - 1]

\* MUTANT: header-like lines of code blocks count.
HeadersAnywhere(s) == {i \in LineStarts(s) : s[i].kind = "head"}

Headers(s) == {i \in LineStarts(s) : s[i].kind = "head" /\ ~InCode(s, i)}

Sections(s) == Stripped(CutAt(s, {i - 1 : i \in Headers(s) \ {1}}))

\* What lies between the blank lines, empty paragraphs too.
NextParagraph(s, n, spans) ==
  IF s[n].kind = "para" THEN Append(spans, <<n + 1, n>>)
  ELSE [spans EXCEPT ![Len(spans)] = <<@[1], n>>]

Paragraphs(s) ==
  LET spans[n \in 0 .. Len(s)] ==
        IF n = 0 THEN <<<<1, 0>>>> ELSE NextParagraph(s, n, spans[n - 1])
      all == spans[Len(s)]
  IN [k \in DOMAIN all |-> SubSeq(s, all[k][1], all[k][2])]

\* MUTANT: a full buffer is not written before the next paragraph.
Overfull(buffered, size, added) == FALSE

\* A full buffer is written first; size may be smaller than the buffer, as the empty
\* paragraphs at its start are not counted.
Full(buffered, size, added) == buffered /\ size + added > MaxChars

Buffer(paragraphs, a, b) == Join(SubSeq(paragraphs, a, b), "para")

Flushed(paragraphs, n, old) ==
  IF Full(old.first < n, old.size, Length(paragraphs[n]) + 2)
    THEN [out |-> Append(old.out, Buffer(paragraphs, old.first, n - 1)), first |-> n, size |-> 0]
    ELSE old

Buffered(paragraphs, n, old) ==
  IF Length(paragraphs[n]) > MaxChars
    THEN [out |-> old.out \o ChunkText(paragraphs[n]), first |-> n + 1, size |-> 0]
    ELSE [old EXCEPT !.size = @ + Length(paragraphs[n]) + (IF @ > 0 THEN 2 ELSE 0)]

\* The loop of _split_oversized_markdown_section: the buffer holds the paragraphs from
\* first on.
AddParagraph(paragraphs, n, old) == Buffered(paragraphs, n, Flushed(paragraphs, n, old))

SplitOversized(section) ==
  LET paragraphs == Paragraphs(section)
      loop[n \in 0 .. Len(paragraphs)] ==
        IF n = 0 THEN [out |-> <<>>, first |-> 1, size |-> 0]
        ELSE AddParagraph(paragraphs, n, loop[n - 1])
      last == loop[Len(paragraphs)]
  IN IF Length(section) <= MaxChars THEN <<section>>
     ELSE IF last.first > Len(paragraphs) THEN last.out
     ELSE Append(last.out, Buffer(paragraphs, last.first, Len(paragraphs)))

ChunkMarkdown(s) ==
  LET sections == Sections(s)
  IN MergeSplits(Concat([k \in DOMAIN sections |-> SplitOversized(sections[k])]), "para", 0)

(***************************************************************************)
(* Python.  The nodes of the syntax tree are given by their first line     *)
(* (the one of a decorator, if any) and their last; lines that are empty   *)
(* are not counted.                                                        *)
(***************************************************************************)
Lines(s) == Spans(s, Having(s, "line") \cup Having(s, "para"))

\* The text from one line to another.
Span(s, first, last) ==
  IF first > last THEN <<>> ELSE Strip(SubSeq(s, Lines(s)[first][1], Lines(s)[last][2]))

PrevEnd(nodes, k) == IF k = 1 THEN 0 ELSE nodes[k - 1].last

\* MUTANT: a node that begins on the last line of its predecessor is not clamped.
FirstLineUnclamped(nodes, k) == nodes[k].first

FirstLine(nodes, k) ==
  IF nodes[k].first > PrevEnd(nodes, k) THEN nodes[k].first ELSE PrevEnd(nodes, k) + 1

Emit(segment) ==
  IF segment # <<>> /\ Length(segment) <= MaxChars THEN <<segment>> ELSE ChunkText(segment)

\* The text before a node, and the node.
EmitNode(s, nodes, k) ==
  Emit(Span(s, PrevEnd(nodes, k) + 1, FirstLine(nodes, k) - 1))
    \o Emit(Span(s, FirstLine(nodes, k), nodes[k].last))

ChunkPython(s, nodes) ==
  LET tail == Emit(Span(s, PrevEnd(nodes, Len(nodes) + 1) + 1, Len(Lines(s))))
      all == Concat([k \in DOMAIN nodes |-> EmitNode(s, nodes, k)]) \o tail
  IN IF all = <<>> THEN ChunkText(s) ELSE MergeSplits(all, "para", 0)

(***************************************************************************)
(* A document is split once.                                               *)
(***************************************************************************)
TextOf(d) == [i \in DOMAIN d.kinds |-> [kind |-> d.kinds[i], at |-> i]]

ChunkDocument(d) ==
  CASE d.kind = "text" -> ChunkText(TextOf(d))
    [] d.kind = "markdown" -> ChunkMarkdown(TextOf(d))
    [] d.kind = "python" -> ChunkPython(TextOf(d), d.nodes)

(***************************************************************************)
(* Nodes follow each other, and one may begin on the last line of the one  *)
(* before.                                                                 *)
(***************************************************************************)
ASSUME ChunkAssumption ==
  /\ ChunkSize \in Nat \ {0} /\ Overlap \in Nat /\ MaxChars \in Nat
  /\ \A d \in Documents :
       /\ d.kinds \in Seq(Kinds)
       /\ d.kind \in {"text", "markdown", "python"}
       /\ d.kind = "python" =>
            /\ d.nodes \in Seq([first : Nat, last : Nat])
            /\ \A k \in DOMAIN d.nodes :
                 /\ PrevEnd(d.nodes, k) <= d.nodes[k].first
                 /\ d.nodes[k].first <= d.nodes[k].last
                 /\ d.nodes[k].last <= Len(Lines(TextOf(d)))

ChunkInit == document \in Documents /\ chunks = NotYet

\* index_file strips the chunks and leaves out the empty ones.
IndexFile ==
  /\ chunks = NotYet
  /\ chunks' = Stripped(ChunkDocument(document))
  /\ UNCHANGED document

ChunkSpec == ChunkInit /\ [][IndexFile]_<<document, chunks>>

(***************************************************************************)
(* Properties.                                                             *)
(***************************************************************************)
Places(s) == {s[i].at : i \in DOMAIN s} \ {0}

Done == chunks # NotYet

\* Every word of the document reaches the index, and the chunks are in the order of
\* the document: each begins and ends no earlier than the one before.
CoversInOrder ==
  Done =>
    /\ \A i \in DOMAIN document.kinds :
         document.kinds[i] \notin Blank => \E k \in DOMAIN chunks : i \in Places(chunks[k])
    /\ \A k \in 2 .. Len(chunks) :
         /\ chunks[k - 1][1].at <= chunks[k][1].at
         /\ chunks[k - 1][Len(chunks[k - 1])].at <= chunks[k][Len(chunks[k])].at

\* How long what c has of the places is.
Portion(t, places) == IF t.at \in places THEN Width(t.kind) ELSE 0

Within(c, places) ==
  LET sum[n \in 0 .. Len(c)] == IF n = 0 THEN 0 ELSE sum[n - 1] + Portion(c[n], places)
  IN sum[Len(c)]

Limit ==
  IF document.kind = "text" \/ Length(TextOf(document)) > MaxChars THEN Overlap ELSE 0

\* Two chunks, neighbours or not, share at most the overlap, and the chunks of a Python or
\* Markdown file that is short enough share nothing.
SharesAtMostOverlap ==
  Done => \A j, k \in DOMAIN chunks : j < k => Within(chunks[j], Places(chunks[k])) <= Limit

\* No chunk is longer than MAX_CHUNK_CHARS, if that leaves room for a window and its
\* overlap: that _split_oversized_markdown_section counts too little is made up for
\* by the strip of index_file.
FitsMaximum == Done => \A k \in DOMAIN chunks : Length(chunks[k]) <= MaxChars

\* A code block of a Markdown document that is short enough is in one chunk.
CodeBlock(s, i, j) ==
  /\ {i, j} \subseteq LineStarts(s) /\ i < j
  /\ s[i].kind \in {"fence", "info"} /\ ~InCode(s, i)
  /\ s[j].kind = "fence" /\ \A k \in i + 1 .. j : InCode(s, k)

CodeBlocksWhole ==
  Done /\ document.kind = "markdown" /\ Length(TextOf(document)) <= MaxChars =>
    \A i, j \in DOMAIN document.kinds :
      CodeBlock(TextOf(document), i, j) =>
        \E k \in DOMAIN chunks : {i, j} \subseteq Places(chunks[k])
=============================================================================
