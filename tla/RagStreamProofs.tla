-------------------------- MODULE RagStreamProofs --------------------------
(***************************************************************************)
(* A streamed answer keeps the promise of AnswerStream, for answers of any *)
(* length.  While somebody reads, what was shown and what is queued make   *)
(* up what was said, followed by the marks the thread left.                *)
(***************************************************************************)
EXTENDS RagStream, TLAPS

Items == Pieces \cup {Error, End}

Open == reader \in {"starting", "reading"}
Left == job \in {"end", "returned"}

\* The thread is alone with its queue only when the stream is over.
LoopLives ==
  /\ ~loop => ~Unfinished
  /\ reader = "starting" => job = "none"
  /\ reader \in {"closing", "stop", "marker", "done"} =>
       ending \in {"normal", "error", "timeout", "capacity"}

OutcomeKnown ==
  /\ outcome # "open" => Left
  /\ Open /\ Left => outcome # "open"

\* The pipeline stops half way only behind a reader who left.
StoppedForGone == Open /\ (cancelled \/ outcome = "stopped") => ~client

\* The marks behind the pieces: an error, if there was one, and the end.
Marks ==
  (IF outcome = "failed" THEN 1 ELSE 0) + (IF job = "returned" THEN 1 ELSE 0)

Expected(i) ==
  IF i <= Len(said) THEN said[i]
  ELSE IF outcome = "failed" /\ i = Len(said) + 1 THEN Error ELSE End

InOrder ==
  Open =>
    /\ Len(shown) <= Len(said)
    /\ Len(shown) + Len(queue) = Len(said) + Marks
    /\ \A i \in 1 .. Len(shown) : shown[i] = said[i]
    /\ \A i \in 1 .. Len(queue) : queue[i] = Expected(Len(shown) + i)

OnlyTexts(s) == \A i \in 1 .. Len(s) : s[i] = Text(i)

\* What a whole answer says of its origin.
Told(s) ==
  \/ mode = "strict" /\ found # "chunks" /\ s = <<Direct>>
  \/ found = "chunks" /\ s # <<>> /\ s[Len(s)] = Sources
  \/ mode = "augmented" /\ found = "unavailable" /\ s # <<>> /\ s[Len(s)] = Notice
  \/ mode = "augmented" /\ found = "nothing" /\ OnlyTexts(s)

\* What the thread has said at each of its stages.
Says ==
  /\ job \in {"none", "queued", "retrieve", "direct", "prompt"} => said = <<>>
  /\ job = "direct" => mode = "strict" /\ found # "chunks"
  /\ job \in {"prompt", "ollama", "tail"} =>
       found # "unknown" /\ (mode = "strict" => found = "chunks") /\ OnlyTexts(said)
  /\ job = "whole" \/ outcome = "whole" => Told(said)

Finished == ending = "normal" /\ client => outcome = "whole" /\ shown = said

StreamInv ==
  TypeOK /\ LoopLives /\ OutcomeKnown /\ StoppedForGone /\ InOrder /\ Says /\ Finished

(***************************************************************************)
(* Sequences and marks.                                                    *)
(***************************************************************************)
LEMMA Appended ==
  ASSUME NEW S, NEW q \in Seq(S), NEW e \in S
  PROVE  /\ Append(q, e) \in Seq(S) /\ Len(Append(q, e)) = Len(q) + 1
         /\ Append(q, e)[Len(q) + 1] = e
         /\ \A i \in 1 .. Len(q) : Append(q, e)[i] = q[i]
         /\ Append(q, e) # <<>>
  OBVIOUS

LEMMA Taken ==
  ASSUME NEW S, NEW q \in Seq(S), q # <<>>
  PROVE  /\ Tail(q) \in Seq(S) /\ Len(q) = Len(Tail(q)) + 1
         /\ Head(q) = q[1] /\ Head(q) \in S
         /\ \A i \in 1 .. Len(Tail(q)) : Tail(q)[i] = q[i + 1]
  OBVIOUS

LEMMA Same ==
  ASSUME NEW S, NEW p \in Seq(S), NEW q \in Seq(S), Len(p) = Len(q),
         \A i \in 1 .. Len(p) : p[i] = q[i]
  PROVE  p = q
  OBVIOUS

\* The marks are no pieces of an answer.
LEMMA MarksApart ==
  Error \notin Pieces /\ End \notin Pieces /\ Error # End
  BY DEF Error, End, Pieces, Text, Direct, Sources, Notice

LEMMA InitStream == Init => StreamInv
<1> SUFFICES ASSUME Init PROVE StreamInv
  OBVIOUS
<1>1. <<>> \in Seq(Pieces) /\ <<>> \in Seq(Pieces \cup {Error, End}) /\ Len(<<>>) = 0
  OBVIOUS
<1>2. Marks = 0
  BY DEF Init, Marks
<1>3. TypeOK
  <2>1. {cancelled, client, loop} \subseteq BOOLEAN
    BY DEF Init
  <2> QED
    BY <1>1, <2>1 DEF Init, TypeOK
<1>4. InOrder
  BY <1>1, <1>2 DEF Init, InOrder
<1>5. LoopLives /\ OutcomeKnown /\ StoppedForGone /\ Finished
  BY DEF Init, LoopLives, Unfinished, OutcomeKnown, StoppedForGone, Finished, Left
<1>6. Says
  BY DEF Init, Says
<1> QED
  BY <1>3, <1>4, <1>5, <1>6 DEF StreamInv

(***************************************************************************)
(* The thread.                                                             *)
(***************************************************************************)
Stages == {"queued", "retrieve", "direct", "prompt", "ollama", "tail", "whole"}

\* The thread goes on without a word.
LEMMA GoKeeps ==
  ASSUME StreamInv, NEW from \in Stages, NEW to \in Stages, Go(from, to),
         found' \in {"unknown", "chunks", "nothing", "unavailable"}, Says'
  PROVE  StreamInv'
<1>1. job = from /\ job' = to /\ UNCHANGED <<mode, queue, said, outcome, loopVars>>
  BY DEF Go
<1> QED
  BY <1>1 DEF StreamInv, TypeOK, LoopLives, Unfinished, OutcomeKnown, StoppedForGone, InOrder,
     Finished, Open, Left, Marks, Expected, loopVars, Stages

\* A piece is said and queued.
LEMMA YieldKeeps ==
  ASSUME StreamInv, NEW from \in Stages, NEW to \in Stages, NEW piece \in Pieces,
         Yield(from, piece, to), Says'
  PROVE  StreamInv'
<1>1. /\ job = from /\ Send(piece) /\ said' = Append(said, piece)
      /\ job' = (IF loop THEN to ELSE "end")
      /\ UNCHANGED <<mode, found, outcome, cancelled, reader, shown, ending, client, loop>>
  BY DEF Yield, loopVars
<1>2. outcome = "open" /\ ~Left /\ Marks = 0
  BY <1>1 DEF StreamInv, OutcomeKnown, Left, Stages, Marks
<1>3. queue \in Seq(Items) /\ said \in Seq(Pieces) /\ shown \in Seq(Pieces) /\ piece \in Items
  BY DEF StreamInv, TypeOK, Items
<1>4. TypeOK'
  <2>1. queue' \in Seq(Items) /\ said' \in Seq(Pieces)
    BY <1>1, <1>3, Appended DEF Send
  <2> QED
    BY <1>1, <2>1 DEF StreamInv, TypeOK, Stages, Items
<1>5. Open => loop
  BY DEF StreamInv, LoopLives, Open, Unfinished
<1>6. OutcomeKnown' /\ LoopLives'
  BY <1>1, <1>2, <1>5 DEF OutcomeKnown, Open, Left, Stages, StreamInv, LoopLives, Unfinished
<1>7. StoppedForGone' /\ Finished'
  BY <1>1, <1>2 DEF StreamInv, StoppedForGone, Finished, Open
<1>8. InOrder'
  <2> SUFFICES ASSUME Open
               PROVE  /\ Len(shown) <= Len(said')
                      /\ Len(shown) + Len(queue') = Len(said') + Marks'
                      /\ \A i \in 1 .. Len(shown) : shown[i] = said'[i]
                      /\ \A i \in 1 .. Len(queue') : queue'[i] = Expected(Len(shown) + i)'
    BY <1>1 DEF InOrder, Open
  <2>1. /\ queue' = Append(queue, piece) /\ Marks' = 0
        /\ Len(queue') = Len(queue) + 1 /\ queue'[Len(queue) + 1] = piece
        /\ \A i \in 1 .. Len(queue) : queue'[i] = queue[i]
    BY <1>1, <1>2, <1>3, <1>5, Appended DEF Send, Marks, Stages
  <2>2. /\ Len(said') = Len(said) + 1 /\ said'[Len(said) + 1] = piece
        /\ \A i \in 1 .. Len(said) : said'[i] = said[i]
    BY <1>1, <1>3, Appended
  <2>3. /\ Len(shown) <= Len(said) /\ Len(shown) + Len(queue) = Len(said)
        /\ \A i \in 1 .. Len(shown) : shown[i] = said[i]
        /\ \A i \in 1 .. Len(queue) : queue[i] = Expected(Len(shown) + i)
    BY <1>2, <1>3 DEF StreamInv, InOrder
  <2>4. Len(shown) \in Nat /\ Len(queue) \in Nat /\ Len(said) \in Nat
    BY <1>3
  <2>5. ASSUME NEW i \in 1 .. Len(queue') PROVE queue'[i] = Expected(Len(shown) + i)'
    <3>1. Len(shown) + i <= Len(said')
      BY <2>1, <2>2, <2>3, <2>4
    <3>2. Expected(Len(shown) + i)' = said'[Len(shown) + i]
      BY <1>1, <3>1 DEF Expected
    <3>3. CASE i = Len(queue) + 1
      <4>1. Len(shown) + i = Len(said) + 1
        BY <2>3, <2>4, <3>3
      <4> QED
        BY <2>1, <2>2, <3>2, <3>3, <4>1
    <3>4. CASE i # Len(queue) + 1
      <4>1. i \in 1 .. Len(queue) /\ Len(shown) + i \in 1 .. Len(said)
        BY <2>1, <2>3, <2>4, <3>4
      <4> QED
        BY <2>1, <2>2, <2>3, <3>2, <4>1 DEF Expected
    <3> QED
      BY <3>3, <3>4
  <2>6. Len(shown) <= Len(said') /\ Len(shown) + Len(queue') = Len(said') + Marks'
    BY <2>1, <2>2, <2>3, <2>4
  <2>7. \A i \in 1 .. Len(shown) : shown[i] = said'[i]
    BY <2>2, <2>3, <2>4
  <2> QED
    BY <2>5, <2>6, <2>7
<1> QED
  BY <1>4, <1>6, <1>7, <1>8 DEF StreamInv

\* A mark is queued behind all pieces: Error when the job fails, End when it returns.
LEMMA MarkKeeps ==
  ASSUME StreamInv, NEW mark \in {Error, End}, Send(mark),
         UNCHANGED <<mode, found, said, loopVars>>,
         \/ /\ mark = Error /\ job \in Stages /\ job' = "end" /\ outcome' = "failed"
         \/ /\ mark = End /\ job = "end" /\ job' = "returned" /\ outcome' = outcome
  PROVE  StreamInv'
<1>1. queue \in Seq(Items) /\ said \in Seq(Pieces) /\ shown \in Seq(Pieces) /\ mark \in Items
  BY DEF StreamInv, TypeOK, Items
<1>2. TypeOK'
  <2>1. queue' \in Seq(Items)
    BY <1>1, Appended DEF Send
  <2> QED
    BY <2>1 DEF StreamInv, TypeOK, Items, loopVars
<1>3. Open => loop /\ queue' = Append(queue, mark)
  BY DEF StreamInv, LoopLives, Open, Unfinished, Send
<1>4. job \in Stages => outcome = "open"
  BY DEF StreamInv, OutcomeKnown, Left, Stages
<1>5. LoopLives' /\ OutcomeKnown' /\ StoppedForGone' /\ Finished' /\ Says'
  BY <1>4 DEF StreamInv, LoopLives, Unfinished, OutcomeKnown, StoppedForGone, Finished, Says, Told,
     OnlyTexts, Open, Left, loopVars, Stages
<1>6. InOrder'
  <2> SUFFICES ASSUME Open
               PROVE  /\ Len(shown) + Len(queue') = Len(said) + Marks'
                      /\ \A i \in 1 .. Len(queue') : queue'[i] = Expected(Len(shown) + i)'
    BY DEF StreamInv, InOrder, Open, loopVars
  <2>1. /\ Len(queue') = Len(queue) + 1 /\ queue'[Len(queue) + 1] = mark
        /\ \A i \in 1 .. Len(queue) : queue'[i] = queue[i]
    BY <1>1, <1>3, Appended
  <2>2. /\ Len(shown) + Len(queue) = Len(said) + Marks
        /\ \A i \in 1 .. Len(queue) : queue[i] = Expected(Len(shown) + i)
    BY DEF StreamInv, InOrder
  <2>3. Len(shown) \in Nat /\ Len(queue) \in Nat /\ Len(said) \in Nat
    BY <1>1
  <2>4. Marks' = Marks + 1 /\ Marks = (IF job = "end" /\ outcome = "failed" THEN 1 ELSE 0)
    BY <1>4 DEF Marks, Stages
  <2>5. ASSUME NEW k \in Nat, k = Len(said) + Marks + 1 PROVE Expected(k)' = mark
    BY <1>4, <2>3, <2>4, <2>5 DEF Expected, Stages
  <2>6. ASSUME NEW k \in 1 .. (Len(said) + Marks) PROVE Expected(k)' = Expected(k)
    BY <1>4, <2>3, <2>4, <2>6 DEF Expected, Stages
  <2>7. ASSUME NEW i \in 1 .. Len(queue') PROVE queue'[i] = Expected(Len(shown) + i)'
    <3>1. PICK k \in Nat : k = Len(shown) + i
      BY <2>1, <2>3
    <3>2. Expected(Len(shown) + i)' = Expected(k)'
      BY <3>1 DEF loopVars
    <3>3. CASE i = Len(queue) + 1
      <4>1. k = Len(said) + Marks + 1
        BY <2>2, <2>3, <2>4, <3>1, <3>3
      <4> QED
        BY <2>1, <2>5, <3>2, <3>3, <4>1
    <3>4. CASE i # Len(queue) + 1
      <4>1. i \in 1 .. Len(queue) /\ k \in 1 .. (Len(said) + Marks)
        BY <2>1, <2>2, <2>3, <2>4, <3>1, <3>4
      <4>2. queue[i] = Expected(k)
        BY <2>2, <3>1, <4>1
      <4> QED
        BY <2>1, <2>6, <3>2, <4>1, <4>2
    <3> QED
      BY <3>3, <3>4
  <2>8. Len(shown) + Len(queue') = Len(said) + Marks'
    <3>1. Marks \in Nat
      BY <2>4
    <3> QED
      BY <2>1, <2>2, <2>3, <2>4, <3>1
  <2> QED
    BY <2>7, <2>8
<1> QED
  BY <1>2, <1>5, <1>6 DEF StreamInv

\* The pipeline is over, with all said or behind a reader who left.
LEMMA LeaveKeeps ==
  ASSUME StreamInv, NEW from \in Stages, NEW how \in {"whole", "stopped"}, Leave(from, how),
         UNCHANGED <<queue, said>>, how = "whole" => from = "whole", how = "stopped" => cancelled
  PROVE  StreamInv'
<1>1. /\ job = from /\ job' = "end" /\ outcome' = how /\ outcome = "open" /\ ~Left
      /\ UNCHANGED <<mode, found, queue, said, loopVars>>
  BY DEF Leave, StreamInv, OutcomeKnown, Left, Stages
<1> QED
  BY <1>1 DEF StreamInv, TypeOK, LoopLives, Unfinished, OutcomeKnown, StoppedForGone, InOrder, Says,
     Told, OnlyTexts, Finished, Open, Left, Marks, Expected, loopVars, Stages

LEMMA ThreadKeeps ==
  ASSUME StreamInv, ThreadStep
  PROVE  StreamInv'
<1>1. said \in Seq(Pieces) /\ <<>> \in Seq(Pieces)
  BY DEF StreamInv, TypeOK
<1>2. Says /\ (job \in Stages => outcome = "open")
  BY DEF StreamInv, OutcomeKnown, Left, Stages
<1>3. ASSUME Begin PROVE StreamInv'
  <2>1. CASE cancelled /\ Leave("queued", "stopped") /\ UNCHANGED <<queue, said>>
    BY <2>1, LeaveKeeps DEF Stages
  <2>2. CASE Go("queued", "retrieve") /\ UNCHANGED found
    <3>1. Says' /\ found' \in {"unknown", "chunks", "nothing", "unavailable"}
      BY <1>2, <2>2 DEF Go, Says, Stages, StreamInv, TypeOK
    <3> QED
      BY <2>2, <3>1, GoKeeps DEF Stages
  <2> QED
    BY <1>3, <2>1, <2>2 DEF Begin
<1>4. ASSUME Prepare PROVE StreamInv'
  <2>1. PICK to \in Stages : /\ Go("retrieve", to)
                             /\ to = IF mode = "strict" /\ found' # "chunks" THEN "direct" ELSE "prompt"
    BY <1>4 DEF Prepare, Stages
  <2>2. found' \in {"chunks", "nothing", "unavailable"}
    BY <1>4 DEF Prepare
  <2>3. said' = <<>> /\ job' = to /\ mode' = mode /\ outcome' = "open"
    BY <1>2, <2>1 DEF Go, Says, Stages
  <2>4. OnlyTexts(said)'
    BY <2>3 DEF OnlyTexts
  <2>5. Says'
    BY <2>1, <2>2, <2>3, <2>4 DEF Says
  <2> QED
    BY <2>1, <2>2, <2>5, GoKeeps DEF Stages
<1>5. ASSUME NEW from \in Stages, NEW to \in Stages, Go(from, to), UNCHANGED found,
             \/ from = "prompt" /\ to = "ollama"
             \/ from = "ollama" /\ to = "tail"
             \/ from = "tail" /\ to = "whole" /\ found = "nothing"
      PROVE  StreamInv'
  <2>1. /\ job = from /\ job' = to /\ said' = said /\ mode' = mode /\ outcome' = "open"
        /\ mode \in {"strict", "augmented"}
    BY <1>2, <1>5, StreamAssumption DEF Go, Stages, StreamInv, TypeOK
  <2>2. found # "unknown" /\ (mode = "strict" => found = "chunks") /\ OnlyTexts(said)
    BY <1>2, <1>5, <2>1 DEF Says
  <2>3. Says'
    BY <1>5, <2>1, <2>2 DEF Says, Told, OnlyTexts
  <2>4. found' \in {"unknown", "chunks", "nothing", "unavailable"}
    BY <1>5 DEF StreamInv, TypeOK
  <2> QED
    BY <1>5, <2>3, <2>4, GoKeeps
<1>6. ASSUME NextText PROVE StreamInv'
  <2> DEFINE text == Text(Len(said) + 1)
  <2>1. Yield("ollama", text, "ollama") /\ text \in Pieces
    BY <1>1, <1>6, StreamAssumption DEF NextText, Pieces
  <2>2. /\ said' = Append(said, text) /\ job = "ollama" /\ job' \in {"ollama", "end"}
        /\ outcome' = "open" /\ UNCHANGED <<mode, found>>
    BY <1>2, <2>1 DEF Yield, Stages
  <2>3. OnlyTexts(said)'
    <3>1. /\ Len(said') = Len(said) + 1 /\ said'[Len(said) + 1] = Text(Len(said) + 1)
          /\ \A i \in 1 .. Len(said) : said'[i] = said[i]
      BY <1>1, <2>1, <2>2, Appended
    <3>2. \A i \in 1 .. Len(said) : said[i] = Text(i)
      BY <1>2, <2>2 DEF Says, OnlyTexts
    <3>3. \A i \in 1 .. Len(said') : i = Len(said) + 1 \/ i \in 1 .. Len(said)
      BY <1>1, <3>1
    <3>4. \A i \in 1 .. Len(said') : said'[i] = Text(i)
      BY <3>1, <3>2, <3>3
    <3> QED
      BY <3>4 DEF OnlyTexts
  <2>4. Says'
    BY <1>2, <2>2, <2>3 DEF Says
  <2> HIDE DEF text
  <2> QED
    BY <2>1, <2>4, YieldKeeps DEF Stages
<1>7. ASSUME NEW from \in Stages, NEW piece \in Pieces, Yield(from, piece, "whole"),
             \/ from = "direct" /\ piece = Direct
             \/ from = "tail" /\ piece = Sources /\ found = "chunks"
             \/ from = "tail" /\ piece = Notice /\ found = "unavailable"
      PROVE  StreamInv'
  <2>1. /\ job = from /\ said' = Append(said, piece) /\ job' \in {"whole", "end"}
        /\ outcome' = "open" /\ UNCHANGED <<mode, found>> /\ mode \in {"strict", "augmented"}
    BY <1>2, <1>7, StreamAssumption DEF Yield, Stages, StreamInv, TypeOK
  <2>2. said' # <<>> /\ said'[Len(said')] = piece
    BY <1>1, <1>7, <2>1, Appended
  <2>3. Told(said)'
    <3>1. CASE from = "direct" /\ piece = Direct
      <4>1. said = <<>> /\ mode = "strict" /\ found # "chunks"
        BY <1>2, <2>1, <3>1 DEF Says
      <4>2. said' = <<Direct>>
        BY <2>1, <3>1, <4>1
      <4> QED
        BY <2>1, <4>1, <4>2 DEF Told
    <3>2. CASE from = "tail" /\ piece = Sources /\ found = "chunks"
      BY <2>1, <2>2, <3>2 DEF Told
    <3>3. CASE from = "tail" /\ piece = Notice /\ found = "unavailable"
      <4>1. mode = "augmented"
        BY <1>2, <2>1, <3>3 DEF Says
      <4> QED
        BY <2>1, <2>2, <3>3, <4>1 DEF Told
    <3> QED
      BY <1>7, <3>1, <3>2, <3>3
  <2>4. Says'
    BY <2>1, <2>3 DEF Says
  <2> QED
    BY <1>7, <2>4, YieldKeeps DEF Stages
<1>8. ASSUME SayLast PROVE StreamInv'
  <2>1. {Direct, Sources, Notice} \subseteq Pieces
    BY DEF Pieces
  <2>2. CASE Yield("direct", Direct, "whole")
    BY <1>7, <2>1, <2>2 DEF Stages
  <2>3. CASE found = "chunks" /\ Yield("tail", Sources, "whole")
    BY <1>7, <2>1, <2>3 DEF Stages
  <2>4. CASE found = "unavailable" /\ Yield("tail", Notice, "whole")
    BY <1>7, <2>1, <2>4 DEF Stages
  <2>5. CASE found = "nothing" /\ Go("tail", "whole") /\ UNCHANGED found
    BY <1>5, <2>5 DEF Stages
  <2>6. CASE cancelled /\ Leave("tail", "stopped") /\ UNCHANGED <<queue, said>>
    BY <2>6, LeaveKeeps DEF Stages
  <2> QED
    BY <1>8, <2>2, <2>3, <2>4, <2>5, <2>6 DEF SayLast
<1>9. ASSUME StartGeneration \/ GenerationEnds PROVE StreamInv'
  BY <1>5, <1>9 DEF StartGeneration, GenerationEnds, Stages
<1>10. ASSUME AllSaid PROVE StreamInv'
  BY <1>10, LeaveKeeps DEF AllSaid, Stages
<1>11. ASSUME Fail PROVE StreamInv'
  <2>1. /\ job \in Stages /\ job' = "end" /\ outcome' = "failed" /\ Send(Error)
        /\ UNCHANGED <<mode, found, said, loopVars>>
    BY <1>11 DEF Fail, Leave, Stages
  <2> QED
    BY <2>1, MarkKeeps
<1>12. ASSUME SendEnd PROVE StreamInv'
  BY <1>12, MarkKeeps DEF SendEnd
<1> QED
  BY <1>3, <1>4, <1>6, <1>8, <1>9, <1>10, <1>11, <1>12 DEF ThreadStep

(***************************************************************************)
(* The event loop.                                                         *)
(***************************************************************************)
\* What lies at the head of the queue is what the reader misses next.
LEMMA HeadIsNext ==
  ASSUME StreamInv, Take
  PROVE  /\ Open /\ Head(queue) = Expected(Len(shown) + 1) /\ queue' = Tail(queue)
         /\ Len(queue) = Len(queue') + 1 /\ queue' \in Seq(Items)
         /\ \A i \in 1 .. Len(queue') : queue'[i] = queue[i + 1]
<1>1. queue \in Seq(Items) /\ queue # <<>> /\ queue' = Tail(queue) /\ Open
  BY DEF Take, StreamInv, TypeOK, Items, Open
<1>2. /\ queue' \in Seq(Items) /\ Len(queue) = Len(queue') + 1 /\ Head(queue) = queue[1]
      /\ \A i \in 1 .. Len(queue') : queue'[i] = queue[i + 1]
  BY <1>1, Taken
<1>3. 1 \in 1 .. Len(queue) /\ \A i \in 1 .. Len(queue) : queue[i] = Expected(Len(shown) + i)
  BY <1>1, <1>2 DEF StreamInv, InOrder
<1> QED
  BY <1>1, <1>2, <1>3

LEMMA TakePieceKeeps ==
  ASSUME StreamInv, TakePiece
  PROVE  StreamInv' /\ shown' = Append(shown, said[Len(shown) + 1]) /\ Len(shown) < Len(said)
<1> DEFINE piece == Head(queue)
<1>1. /\ Take /\ piece \in Pieces /\ shown' = Append(shown, piece)
      /\ UNCHANGED <<mode, found, said, outcome, job, cancelled, client, loop, reader, ending>>
  BY DEF TakePiece, Take, threadHistory
<1>2. /\ Open /\ piece = Expected(Len(shown) + 1) /\ queue' \in Seq(Items)
      /\ Len(queue) = Len(queue') + 1
      /\ \A i \in 1 .. Len(queue') : queue'[i] = queue[i + 1]
  BY <1>1, HeadIsNext
<1>3. said \in Seq(Pieces) /\ shown \in Seq(Pieces)
  BY DEF StreamInv, TypeOK
<1>4. Len(shown) \in Nat /\ Len(said) \in Nat /\ Len(queue') \in Nat /\ Len(queue) \in Nat
  BY <1>1, <1>2, <1>3
<1>5. Len(shown) < Len(said) /\ piece = said[Len(shown) + 1]
  <2>1. Len(shown) + 1 <= Len(said)
    BY <1>1, <1>2, MarksApart DEF Expected
  <2> QED
    BY <1>2, <1>4, <2>1 DEF Expected
<1> HIDE DEF piece
<1>6. /\ shown' \in Seq(Pieces) /\ Len(shown') = Len(shown) + 1 /\ shown'[Len(shown) + 1] = piece
      /\ \A i \in 1 .. Len(shown) : shown'[i] = shown[i]
  BY <1>1, <1>3, Appended
<1>7. TypeOK'
  BY <1>1, <1>2, <1>6 DEF StreamInv, TypeOK, Items
<1>8. LoopLives' /\ OutcomeKnown' /\ StoppedForGone' /\ Says'
  BY <1>1 DEF StreamInv, LoopLives, Unfinished, OutcomeKnown, StoppedForGone, Says, Told, OnlyTexts,
     Open, Left
<1>9. Finished'
  BY <1>1, <1>2 DEF StreamInv, TypeOK, Finished, Open
<1>10. InOrder'
  <2>1. /\ Len(shown) + Len(queue) = Len(said) + Marks
        /\ \A i \in 1 .. Len(shown) : shown[i] = said[i]
        /\ \A i \in 1 .. Len(queue) : queue[i] = Expected(Len(shown) + i)
    BY <1>2 DEF StreamInv, InOrder
  <2>2. Marks' = Marks /\ Marks \in Nat /\ \A k \in Nat : Expected(k)' = Expected(k)
    BY <1>1 DEF Marks, Expected
  <2>3. Len(shown') <= Len(said') /\ Len(shown') + Len(queue') = Len(said') + Marks'
    BY <1>1, <1>2, <1>4, <1>5, <1>6, <2>1, <2>2
  <2>4. ASSUME NEW i \in 1 .. Len(shown') PROVE shown'[i] = said'[i]
    <3>1. i = Len(shown) + 1 \/ i \in 1 .. Len(shown)
      BY <1>4, <1>6
    <3> QED
      BY <1>1, <1>5, <1>6, <2>1, <3>1
  <2>5. ASSUME NEW i \in 1 .. Len(queue') PROVE queue'[i] = Expected(Len(shown) + i)'
    <3>1. i + 1 \in 1 .. Len(queue) /\ Len(shown) + (i + 1) = Len(shown) + 1 + i
      BY <1>2, <1>4
    <3>2. queue'[i] = Expected(Len(shown) + 1 + i)
      BY <1>2, <2>1, <3>1
    <3>3. PICK k \in Nat : k = Len(shown) + 1 + i
      BY <1>4
    <3>4. Len(shown') + i = k
      BY <1>4, <1>6, <3>3
    <3>5. Expected(Len(shown) + i)' = Expected(k)'
      BY <3>4 DEF Expected
    <3> QED
      BY <2>2, <3>2, <3>3, <3>5
  <2> QED
    BY <1>6, <2>3, <2>4, <2>5 DEF InOrder
<1> QED
  BY <1>1, <1>5, <1>7, <1>8, <1>9, <1>10 DEF StreamInv

LEMMA TakeLastKeeps ==
  ASSUME StreamInv, TakeLast
  PROVE  StreamInv'
<1>1. /\ Take /\ reader' = "closing" /\ ending' \in {"normal", "error"}
      /\ ending' = "normal" => Head(queue) = End
      /\ UNCHANGED <<mode, found, said, outcome, job, cancelled, client, loop, shown>>
  BY DEF TakeLast, Take, threadHistory
<1>2. Open /\ Head(queue) = Expected(Len(shown) + 1) /\ Len(queue) = Len(queue') + 1
      /\ queue' \in Seq(Items)
  BY <1>1, HeadIsNext
<1>3. said \in Seq(Pieces) /\ shown \in Seq(Pieces)
  BY DEF StreamInv, TypeOK
<1>4. TypeOK'
  BY <1>1, <1>2 DEF StreamInv, TypeOK, Items
<1>5. Finished'
  <2> SUFFICES ASSUME ending' = "normal", client
               PROVE  outcome = "whole" /\ shown = said
    BY <1>1 DEF Finished
  <2>1. /\ Len(shown) <= Len(said) /\ Len(shown) + Len(queue) = Len(said) + Marks
        /\ \A i \in 1 .. Len(shown) : shown[i] = said[i]
    BY <1>2 DEF StreamInv, InOrder
  <2>2. Len(shown) \in Nat /\ Len(said) \in Nat /\ Len(queue') \in Nat
    BY <1>2, <1>3
  <2>3. ~(Len(shown) + 1 <= Len(said))
    <3> SUFFICES ASSUME Len(shown) + 1 <= Len(said) PROVE FALSE
      OBVIOUS
    <3>1. said[Len(shown) + 1] \in Pieces
      BY <1>3, <2>2
    <3> QED
      BY <1>1, <1>2, <3>1, MarksApart DEF Expected
  <2>4. Len(shown) = Len(said) /\ outcome # "failed"
    BY <1>1, <1>2, <2>1, <2>2, <2>3, MarksApart DEF Expected
  <2>5. job = "returned"
    BY <1>2, <2>1, <2>2, <2>4 DEF Marks
  <2>6. outcome = "whole"
    BY <1>2, <2>4, <2>5 DEF StreamInv, TypeOK, OutcomeKnown, StoppedForGone, Left
  <2> QED
    BY <1>3, <2>1, <2>4, <2>6, Same
<1>6. LoopLives' /\ OutcomeKnown' /\ StoppedForGone' /\ InOrder' /\ Says'
  BY <1>1, <1>2 DEF StreamInv, LoopLives, Unfinished, OutcomeKnown, StoppedForGone, InOrder, Says, Told,
     OnlyTexts, Open, Left
<1> QED
  BY <1>4, <1>5, <1>6 DEF StreamInv

\* The reader starts, goes on behind the queue, or is aborted.
LEMMA ReaderKeeps ==
  ASSUME StreamInv,
         \/ StartStream \/ StreamTimeout \/ Close \/ Disconnect \/ WatchDisconnect
         \/ ClientGone \/ Shutdown
  PROVE  StreamInv'
<1>1. UNCHANGED <<mode, found, said, outcome, queue, shown>>
  BY DEF StartStream, StreamTimeout, Close, Disconnect, WatchDisconnect, ClientGone, Shutdown, Abort,
     threadHistory
<1>2. \A k \in Nat : Expected(k)' = Expected(k)
  BY <1>1 DEF Expected
<1>3. TypeOK'
  <2>1. {cancelled, client, loop} \subseteq BOOLEAN
    BY DEF StreamInv, TypeOK
  <2>2. {cancelled', client', loop'} \subseteq BOOLEAN
    BY <2>1 DEF StartStream, StreamTimeout, Close, Disconnect, WatchDisconnect, ClientGone, Shutdown,
       Abort
  <2>3. /\ reader' \in {"starting", "reading", "closing", "stop", "marker", "done", "gone"}
        /\ ending' \in {"open", "normal", "error", "timeout", "capacity", "cut"}
        /\ ending' = "open" <=> reader' \in {"starting", "reading"}
        /\ job' = job \/ job' = "queued"
    BY DEF StreamInv, TypeOK, LoopLives, Unfinished, StartStream, StreamTimeout, Close, Disconnect,
       WatchDisconnect, ClientGone, Shutdown, Abort
  <2> QED
    BY <1>1, <2>2, <2>3 DEF StreamInv, TypeOK
<1>4. LoopLives' /\ OutcomeKnown' /\ StoppedForGone'
  BY <1>1 DEF StreamInv, TypeOK, LoopLives, OutcomeKnown, StoppedForGone, Open, Left, Unfinished,
     StartStream, StreamTimeout, Close, Disconnect, WatchDisconnect, ClientGone, Shutdown, Abort
<1>5. InOrder'
  <2>1. Open' => Open /\ Marks' = Marks
    BY <1>1 DEF StreamInv, LoopLives, Open, Marks, Unfinished, StartStream, StreamTimeout, Close,
       Disconnect, WatchDisconnect, ClientGone, Shutdown, Abort
  <2> QED
    BY <1>1, <1>2, <2>1 DEF StreamInv, InOrder, Expected
<1>6. Says'
  BY <1>1 DEF StreamInv, LoopLives, Says, Told, OnlyTexts, StartStream, StreamTimeout, Close, Disconnect,
     WatchDisconnect, ClientGone, Shutdown, Abort
<1>7. Finished'
  BY <1>1 DEF StreamInv, TypeOK, Finished, StartStream, StreamTimeout, Close, Disconnect,
     WatchDisconnect, ClientGone, Shutdown, Abort
<1> QED
  BY <1>3, <1>4, <1>5, <1>6, <1>7 DEF StreamInv

LEMMA StreamInvStep == StreamInv /\ [Next]_vars => StreamInv'
<1> SUFFICES ASSUME StreamInv, [Next]_vars PROVE StreamInv'
  OBVIOUS
<1>1. CASE UNCHANGED vars
  <2>1. UNCHANGED <<mode, job, found, queue, said, outcome, cancelled, reader, shown, ending, client,
                    loop>>
    BY <1>1 DEF vars, loopVars
  <2> QED
    BY <2>1 DEF StreamInv, TypeOK, LoopLives, Unfinished, OutcomeKnown, StoppedForGone, InOrder, Says,
       Told, OnlyTexts, Finished, Open, Left, Marks, Expected
<1>2. CASE Next
  BY <1>2, ThreadKeeps, TakePieceKeeps, TakeLastKeeps, ReaderKeeps DEF Next, LoopStep
<1> QED
  BY <1>1, <1>2

\* What makes the answers right holds whenever threads, timers, clients and the server
\* move: the queue holds exactly what the reader misses.
THEOREM StreamInvariant == Spec => []StreamInv
  BY InitStream, StreamInvStep, PTL DEF Spec

\* The variables of the stream keep their types.
THEOREM TypeCorrect == Spec => []TypeOK
<1>1. StreamInv => TypeOK
  BY DEF StreamInv
<1> QED
  BY <1>1, StreamInvariant, PTL

\* The reader of a finished answer was told where it comes from, in every mode.
THEOREM OriginIsTold == Spec => []ToldWhereFrom
<1>1. StreamInv => ToldWhereFrom
  BY DEF StreamInv, Finished, Says, Told, OnlyTexts, ToldWhereFrom
<1> QED
  BY <1>1, StreamInvariant, PTL

(***************************************************************************)
(* The stream implements AnswerStream.                                     *)
(***************************************************************************)
LEMMA ThreadImplements ==
  ASSUME StreamInv, ThreadStep
  PROVE  [Promise!Next]_(Promise!vars)
<1>1. UNCHANGED <<shown, ending, reader, client>>
  BY DEF ThreadStep, Begin, Prepare, StartGeneration, NextText, GenerationEnds, SayLast, AllSaid, Fail,
     SendEnd, Go, Leave, Yield, loopVars
<1>2. Verdict' = Verdict /\ (reader = "done")' = (reader = "done")
  BY <1>1 DEF Verdict
<1>3. job \in Stages => outcome = "open"
  BY DEF StreamInv, OutcomeKnown, Left, Stages
<1>4. ASSUME NEW from \in Stages, NEW piece \in Pieces, NEW to, Yield(from, piece, to)
      PROVE  Promise!Say
  <2>1. said' = Append(said, piece) /\ outcome = "open" /\ outcome' = "open"
    BY <1>3, <1>4 DEF Yield
  <2> QED
    BY <1>1, <1>2, <2>1 DEF Promise!Say
<1>5. ASSUME said' = said, ~(outcome = "whole")', outcome # "whole"
      PROVE  UNCHANGED Promise!vars
  BY <1>1, <1>2, <1>5 DEF Promise!vars
<1>6. CASE NextText
  <2>1. said \in Seq(Pieces)
    BY DEF StreamInv, TypeOK
  <2>2. PICK n \in 1 .. MaxTexts : Yield("ollama", Text(n), "ollama")
    BY <1>6, <2>1, StreamAssumption DEF NextText
  <2> QED
    BY <1>4, <2>2 DEF Pieces, Stages, Promise!Next
<1>7. CASE SayLast
  <2>1. CASE Yield("direct", Direct, "whole")
    BY <1>4, <2>1 DEF Pieces, Stages, Promise!Next
  <2>2. CASE Yield("tail", Sources, "whole") \/ Yield("tail", Notice, "whole")
    BY <1>4, <2>2 DEF Pieces, Stages, Promise!Next
  <2>3. CASE Go("tail", "whole") \/ (Leave("tail", "stopped") /\ UNCHANGED <<queue, said>>)
    BY <1>3, <1>5, <2>3 DEF Go, Leave, Stages
  <2>4. \/ Yield("direct", Direct, "whole")
        \/ Yield("tail", Sources, "whole") \/ Yield("tail", Notice, "whole")
        \/ Go("tail", "whole") \/ (Leave("tail", "stopped") /\ UNCHANGED <<queue, said>>)
    BY <1>7 DEF SayLast
  <2> QED
    BY <2>1, <2>2, <2>3, <2>4
<1>8. CASE AllSaid
  <2>1. said' = said /\ outcome' = "whole"
    BY <1>8 DEF AllSaid, Leave
  <2>2. Promise!Conclude
    BY <1>1, <1>2, <2>1 DEF Promise!Conclude
  <2> QED
    BY <2>2 DEF Promise!Next
<1>9. CASE Begin \/ Prepare \/ StartGeneration \/ GenerationEnds \/ Fail
  BY <1>3, <1>5, <1>9 DEF Begin, Prepare, StartGeneration, GenerationEnds, Fail, Go, Leave, Stages
<1>10. CASE SendEnd
  <2>1. said' = said /\ outcome' = outcome
    BY <1>10 DEF SendEnd
  <2> QED
    BY <1>1, <1>2, <2>1 DEF Promise!vars
<1> QED
  BY <1>6, <1>7, <1>8, <1>9, <1>10 DEF ThreadStep

LEMMA LoopImplements ==
  ASSUME StreamInv, StreamInv',
         LoopStep \/ Disconnect \/ WatchDisconnect \/ ClientGone \/ Shutdown
  PROVE  [Promise!Next]_(Promise!vars)
<1>1. UNCHANGED <<said, outcome>>
  BY DEF LoopStep, StartStream, Take, TakePiece, TakeLast, StreamTimeout, Close, Disconnect,
     WatchDisconnect, ClientGone, Shutdown, Abort, threadHistory
<1>2. (outcome = "whole")' = (outcome = "whole")
  BY <1>1
<1>3. ASSUME UNCHANGED <<shown, client>>, Verdict' = Verdict, reader # "done", reader' # "done"
      PROVE  UNCHANGED Promise!vars
  <2>1. (reader = "done")' = (reader = "done")
    BY <1>3
  <2> QED
    BY <1>1, <1>2, <1>3, <2>1 DEF Promise!vars
<1>4. ASSUME UNCHANGED <<shown, client>>, ending = "open", reader # "done", reader' # "done",
             Verdict' \in {"marked", "cut"} \/ Verdict' = "normal"
      PROVE  Promise!Next
  <2>1. Verdict = "open" /\ (reader = "done")' = (reader = "done")
    BY <1>4 DEF Verdict
  <2>2. Verdict' = "normal" => ending' = "normal"
    BY DEF Verdict
  <2>3. Verdict' = "normal" /\ client => outcome = "whole" /\ shown = said
    BY <1>1, <1>4, <2>2 DEF StreamInv, Finished
  <2>4. Promise!Finish
    BY <1>1, <1>2, <1>4, <2>1, <2>3 DEF Promise!Finish
  <2> QED
    BY <2>4 DEF Promise!Next
<1>5. CASE TakePiece
  <2>1. /\ shown' = Append(shown, said[Len(shown) + 1]) /\ Len(shown) < Len(said)
        /\ ending = "open" /\ UNCHANGED <<ending, reader, client>>
    BY <1>5, TakePieceKeeps DEF TakePiece, Take, StreamInv, TypeOK
  <2>2. Verdict = "open" /\ Verdict' = "open" /\ (reader = "done")' = (reader = "done")
    BY <2>1 DEF Verdict
  <2>3. Promise!Show
    BY <1>1, <1>2, <2>1, <2>2 DEF Promise!Show
  <2> QED
    BY <2>3 DEF Promise!Next
<1>6. CASE TakeLast \/ StreamTimeout
  <2>1. /\ UNCHANGED <<shown, client>> /\ reader = "reading" /\ reader' = "closing"
        /\ ending = "open" /\ ending' \in {"normal", "error", "timeout"}
    BY <1>6 DEF TakeLast, Take, StreamTimeout, StreamInv, TypeOK
  <2> QED
    BY <1>4, <2>1 DEF Verdict
<1>7. CASE StartStream
  <2>1. CASE reader' = "reading" /\ UNCHANGED ending
    BY <1>3, <1>7, <2>1 DEF StartStream, Verdict
  <2>2. CASE reader' \in {"stop", "gone"} /\ ending' \in {"capacity", "cut"}
    BY <1>4, <1>7, <2>2 DEF StartStream, Verdict, StreamInv, TypeOK
  <2> QED
    BY <1>7, <2>1, <2>2 DEF StartStream
<1>8. CASE Close
  <2>1. UNCHANGED <<shown, ending, client>> /\ Verdict' = Verdict
    BY <1>8 DEF Close, Verdict
  <2>2. CASE reader' \in {"stop", "marker"}
    BY <1>3, <1>8, <2>1, <2>2 DEF Close
  <2>3. CASE reader = "marker" /\ reader' = "done"
    <3>1. Verdict \in {"normal", "marked"} /\ (reader = "done")' = TRUE
      BY <2>3 DEF StreamInv, LoopLives, Verdict
    <3>2. Promise!Close
      BY <1>1, <1>2, <2>1, <3>1 DEF Promise!Close
    <3> QED
      BY <3>2 DEF Promise!Next
  <2> QED
    BY <1>8, <2>2, <2>3 DEF Close
<1>9. CASE Disconnect
  <2>1. client' = FALSE /\ UNCHANGED <<shown, ending, reader>>
    BY <1>9 DEF Disconnect
  <2>2. Verdict' = Verdict /\ (reader = "done")' = (reader = "done")
    BY <2>1 DEF Verdict
  <2>3. Promise!Leave
    BY <1>1, <1>2, <2>1, <2>2 DEF Promise!Leave
  <2> QED
    BY <2>3 DEF Promise!Next
<1>10. CASE WatchDisconnect
  BY <1>3, <1>10 DEF WatchDisconnect, Verdict
<1>11. ASSUME Unfinished, Abort PROVE [Promise!Next]_(Promise!vars)
  <2>1. UNCHANGED <<shown, client>> /\ reader # "done" /\ reader' # "done"
    BY <1>11 DEF Unfinished, Abort
  <2>2. CASE ending = "open"
    BY <1>4, <1>11, <2>1, <2>2 DEF Abort, Verdict
  <2>3. CASE ending # "open"
    BY <1>3, <1>11, <2>1, <2>3 DEF Abort, Verdict
  <2> QED
    BY <2>2, <2>3
<1>12. CASE ~Unfinished /\ loop' = FALSE /\ UNCHANGED <<shown, client, ending, reader>>
  <2>1. Verdict' = Verdict /\ (reader = "done")' = (reader = "done")
    BY <1>12 DEF Verdict
  <2> QED
    BY <1>1, <1>2, <1>12, <2>1 DEF Promise!vars
<1> QED
  BY <1>5, <1>6, <1>7, <1>8, <1>9, <1>10, <1>11, <1>12 DEF LoopStep, ClientGone, Shutdown

LEMMA InitImplements ==
  ASSUME Init
  PROVE  Promise!Init
<1>1. (outcome = "whole") = FALSE /\ (reader = "done") = FALSE /\ Verdict = "open"
  BY DEF Init, Verdict
<1> QED
  BY <1>1 DEF Init, Promise!Init

LEMMA StepImplements ==
  ASSUME StreamInv, StreamInv', [Next]_vars
  PROVE  [Promise!Next]_(Promise!vars)
<1>1. CASE Next
  BY <1>1, ThreadImplements, LoopImplements DEF Next
<1>2. CASE UNCHANGED vars
  <2>1. UNCHANGED <<said, outcome, shown, ending, reader, client>>
    BY <1>2 DEF vars, loopVars
  <2>2. /\ Verdict' = Verdict /\ (reader = "done")' = (reader = "done")
        /\ (outcome = "whole")' = (outcome = "whole")
    BY <2>1 DEF Verdict
  <2> QED
    BY <2>1, <2>2 DEF Promise!vars
<1> QED
  BY <1>1, <1>2

\* Answers of every length keep the promise of AnswerStream: in order, without gaps, and
\* never cut short behind a [DONE] without a notice.
THEOREM StreamImplementsAnswer == Spec => ImplementsAnswerStream
<1>1. Init => Promise!Init
  BY InitImplements
<1>2. StreamInv /\ StreamInv' /\ [Next]_vars => [Promise!Next]_(Promise!vars)
  BY StepImplements
<1> QED
  BY <1>1, <1>2, StreamInvariant, PTL DEF Spec, Promise!Spec, ImplementsAnswerStream

\* What AnswerStream means to a reader: the response is always a prefix of what was
\* said, and one that ends with [DONE] and no notice is whole.
THEOREM AnswersAreWhole ==
  Spec => [](Promise!TypeOK /\ Promise!ShowsPrefix /\ Promise!NotSilentlyShort)
<1>1. StreamInv => Promise!TypeOK /\ Promise!NotSilentlyShort
  <2> SUFFICES ASSUME StreamInv PROVE Promise!TypeOK /\ Promise!NotSilentlyShort
    OBVIOUS
  <2>1. /\ (outcome = "whole") \in BOOLEAN /\ (reader = "done") \in BOOLEAN
        /\ Verdict \in {"open", "normal", "marked", "cut"} /\ client \in BOOLEAN
        /\ said \in Seq(Pieces) /\ shown \in Seq(Pieces)
    BY DEF StreamInv, TypeOK, Verdict
  <2>2. Promise!TypeOK
    BY <2>1 DEF Promise!TypeOK
  <2>3. Promise!NotSilentlyShort
    BY DEF StreamInv, LoopLives, Finished, Verdict, Promise!NotSilentlyShort
  <2> QED
    BY <2>2, <2>3
<1>2. Init => Promise!ShowsPrefix
  <2> SUFFICES ASSUME Init PROVE Promise!ShowsPrefix
    OBVIOUS
  <2>1. said = <<>> /\ shown = <<>> /\ Len(<<>>) = 0
    BY DEF Init
  <2> QED
    BY <2>1 DEF Promise!ShowsPrefix
<1>3. StreamInv /\ StreamInv' /\ Promise!ShowsPrefix /\ [Next]_vars => Promise!ShowsPrefix'
  <2> SUFFICES ASSUME StreamInv, StreamInv', Promise!ShowsPrefix, [Next]_vars
               PROVE  Promise!ShowsPrefix'
    OBVIOUS
  <2>1. [Promise!Next]_(Promise!vars)
    BY StepImplements
  <2>2. said \in Seq(Pieces) /\ shown \in Seq(Pieces) /\ said' \in Seq(Pieces)
    BY DEF StreamInv, TypeOK
  <2>3. Len(shown) <= Len(said) /\ \A i \in 1 .. Len(shown) : shown[i] = said[i]
    BY DEF Promise!ShowsPrefix
  <2>4. CASE Promise!Say
    <3>1. PICK x \in Pieces : said' = Append(said, x) /\ shown' = shown
      BY <2>4 DEF Promise!Say
    <3>2. Len(said') = Len(said) + 1 /\ \A i \in 1 .. Len(said) : said'[i] = said[i]
      BY <2>2, <3>1, Appended
    <3>3. Len(shown) \in Nat /\ Len(said) \in Nat
      BY <2>2
    <3> QED
      BY <2>3, <3>1, <3>2, <3>3 DEF Promise!ShowsPrefix
  <2>5. CASE Promise!Show
    <3>1. /\ shown' = Append(shown, said[Len(shown) + 1]) /\ said' = said
          /\ Len(shown) < Len(said)
      BY <2>5 DEF Promise!Show
    <3>2. Len(shown) \in Nat /\ Len(said) \in Nat
      BY <2>2
    <3>3. said[Len(shown) + 1] \in Pieces
      BY <2>2, <3>1, <3>2
    <3>4. /\ Len(shown') = Len(shown) + 1 /\ shown'[Len(shown) + 1] = said[Len(shown) + 1]
          /\ \A i \in 1 .. Len(shown) : shown'[i] = shown[i]
      BY <2>2, <3>1, <3>3, Appended
    <3>5. \A i \in 1 .. Len(shown') : i \in 1 .. Len(shown) \/ i = Len(shown) + 1
      BY <3>2, <3>4
    <3> QED
      BY <2>3, <3>1, <3>2, <3>4, <3>5 DEF Promise!ShowsPrefix
  <2>6. CASE UNCHANGED <<said, shown>>
    BY <2>3, <2>6 DEF Promise!ShowsPrefix
  <2> QED
    BY <2>1, <2>4, <2>5, <2>6 DEF Promise!Next, Promise!Conclude, Promise!Finish, Promise!Close,
       Promise!Leave, Promise!vars
<1> QED
  BY <1>1, <1>2, <1>3, StreamInvariant, PTL DEF Spec
=============================================================================
