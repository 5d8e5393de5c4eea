---------------------------- MODULE AnswerStream ----------------------------
(***************************************************************************)
(* What a streamed answer promises its reader.  The pieces that were said  *)
(* are shown in order and without gaps.  A stream that is closed with its  *)
(* [DONE] has shown all of a whole answer, or it carries an error notice;  *)
(* only a reader who has left may have been told less.                     *)
(***************************************************************************)
EXTENDS Naturals, Sequences

CONSTANT Pieces

VARIABLES
  said,    \* the pieces the pipeline produced
  whole,   \* it said everything it had to say
  shown,   \* the pieces the response has carried
  ending,  \* "open", "normal", "marked" (an error notice) or "cut" (no [DONE])
  closed,  \* [DONE] was sent
  client   \* the reader is still there

vars == <<said, whole, shown, ending, closed, client>>

Init ==
  /\ said = <<>> /\ shown = <<>>
  /\ whole = FALSE /\ closed = FALSE /\ client = TRUE
  /\ ending = "open"

Say ==
  /\ ~whole
  /\ \E x \in Pieces : said' = Append(said, x)
  /\ UNCHANGED <<whole, shown, ending, closed, client>>

Conclude == whole' = TRUE /\ UNCHANGED <<said, shown, ending, closed, client>>

Show ==
  /\ ending = "open" /\ Len(shown) < Len(said)
  /\ shown' = Append(shown, said[Len(shown) + 1])
  /\ UNCHANGED <<said, whole, ending, closed, client>>

Finish ==
  /\ ending = "open"
  /\ \/ ending' = "normal" /\ (client => whole /\ shown = said)
     \/ ending' \in {"marked", "cut"}
  /\ UNCHANGED <<said, whole, shown, closed, client>>

Close ==
  /\ ending \in {"normal", "marked"}
  /\ closed' = TRUE
  /\ UNCHANGED <<said, whole, shown, ending, client>>

Leave == client' = FALSE /\ UNCHANGED <<said, whole, shown, ending, closed>>

Next == Say \/ Conclude \/ Show \/ Finish \/ Close \/ Leave

Spec == Init /\ [][Next]_vars

TypeOK ==
  /\ said \in Seq(Pieces) /\ shown \in Seq(Pieces)
  /\ whole \in BOOLEAN /\ closed \in BOOLEAN /\ client \in BOOLEAN
  /\ ending \in {"open", "normal", "marked", "cut"}

\* The response is a prefix of what was said.
ShowsPrefix ==
  /\ Len(shown) <= Len(said)
  /\ \A i \in 1 .. Len(shown) : shown[i] = said[i]

\* A reader who stayed to the [DONE] has the whole answer or was told of an error.
NotSilentlyShort ==
  closed /\ client /\ ending # "marked" => whole /\ shown = said
=============================================================================
