----------------------------- MODULE RagStream -----------------------------
(***************************************************************************)
(* One streamed answer: the thread that runs ask_stream_sync, the queue    *)
(* through which it feeds the event loop, the generator that turns queue   *)
(* items into SSE chunks, the task that looks for a client that went away, *)
(* and the cancel event all of them share.  How a stream gets a permit and *)
(* a thread is the subject of RagCapacity.                                 *)
(*                                                                         *)
(* call_soon_threadsafe runs its callbacks in order, so the callbacks that *)
(* wait and the asyncio.Queue they fill are one queue here.  A text is     *)
(* known by its number.  Time is abstract: a timer may fire at any time it *)
(* runs.                                                                   *)
(***************************************************************************)
EXTENDS Naturals, Sequences

CONSTANTS
  MaxTexts,  \* the longest answer of the model, in lines of Ollama's stream
  Modes      \* the RAG modes requests may ask for

ASSUME StreamAssumption == MaxTexts \in Nat /\ Modes \subseteq {"strict", "augmented"}

VARIABLES
  mode,       \* rag_mode of the request
  job,        \* where the thread is
  found,      \* what retrieve_best gave
  queue,      \* items on their way from the thread to the generator
  cancelled,  \* cancel_event
  reader,     \* where _rag_stream_response is
  shown,      \* the pieces of the answer it has yielded
  ending,     \* how it left the loop over the queue
  client,     \* the client is connected
  loop,       \* the event loop runs
  said,       \* history: the pieces the thread produced
  outcome     \* history: how ask_stream_sync ended

loopVars == <<cancelled, reader, shown, ending, client, loop>>
vars == <<mode, job, found, queue, said, outcome, loopVars>>

Text(n) == <<"text", n>>
Direct == <<"direct", 0>>    \* a reply without the model
Sources == <<"sources", 0>>  \* the list of sources behind the answer
Notice == <<"notice", 0>>    \* "Retrieval unavailable", behind the answer
Pieces == {Text(n) : n \in 1 .. MaxTexts} \cup {Direct, Sources, Notice}
Error == <<"error", 0>>      \* an exception object
End == <<"end", 0>>          \* None

Init ==
  /\ mode \in Modes
  /\ job = "none" /\ found = "unknown" /\ queue = <<>>
  /\ cancelled = FALSE
  /\ reader = "starting" /\ shown = <<>> /\ ending = "open"
  /\ client = TRUE /\ loop = TRUE
  /\ said = <<>> /\ outcome = "open"

(***************************************************************************)
(* The thread: _run, ask_stream_sync, _prepare_query and stream_generate.  *)
(***************************************************************************)
\* _send never waits; once the event loop is closed the item is lost.
Send(item) == queue' = IF loop THEN Append(queue, item) ELSE queue

Go(from, to) ==
  /\ job = from /\ job' = to
  /\ UNCHANGED <<mode, queue, said, outcome, loopVars>>

\* ask_stream_sync is over: all was said, it failed, or it saw the cancel event.
Leave(from, how) ==
  /\ job = from /\ job' = "end"
  /\ outcome' = how
  /\ UNCHANGED <<mode, found, loopVars>>

\* Yield a piece; a piece that cannot be sent makes _run return.
Yield(from, piece, to) ==
  /\ job = from
  /\ Send(piece)
  /\ said' = Append(said, piece)
  /\ job' = IF loop THEN to ELSE "end"
  /\ UNCHANGED <<mode, found, outcome, loopVars>>

Begin ==
  \/ ~cancelled /\ Go("queued", "retrieve") /\ UNCHANGED found
  \/ cancelled /\ Leave("queued", "stopped") /\ UNCHANGED <<queue, said>>

\* Retrieval gives chunks, none, or the vector store is unavailable.  Without chunks
\* strict mode replies itself; augmented mode asks the model.
Prepare ==
  /\ found' \in {"chunks", "nothing", "unavailable"}
  /\ Go("retrieve", IF mode = "strict" /\ found' # "chunks" THEN "direct" ELSE "prompt")

\* A generation slot is free and Ollama accepts the request.
StartGeneration == Go("prompt", "ollama") /\ UNCHANGED found

\* The next line with text: the cancel event is looked at before the text is yielded.
\* The loop over Ollama's lines has no bound of its own; MaxTexts is the model's.
NextText ==
  /\ ~cancelled /\ Len(said) < MaxTexts
  /\ Yield("ollama", Text(Len(said) + 1), "ollama")

\* The last line, the end of the data without one, or any line after the cancel event.
GenerationEnds == Go("ollama", "tail") /\ UNCHANGED found

\* MUTANT: the notice is yielded only where there are sources.
SayLastNoNotice ==
  \/ Yield("direct", Direct, "whole")
  \/ ~cancelled /\ found = "chunks" /\ Yield("tail", Sources, "whole")
  \/ ~cancelled /\ found # "chunks" /\ Go("tail", "whole") /\ UNCHANGED found
  \/ cancelled /\ Leave("tail", "stopped") /\ UNCHANGED <<queue, said>>

\* The reply of strict mode, or what follows the answer unless the event is set.
SayLast ==
  \/ Yield("direct", Direct, "whole")
  \/ ~cancelled /\ found = "chunks" /\ Yield("tail", Sources, "whole")
  \/ ~cancelled /\ found = "unavailable" /\ Yield("tail", Notice, "whole")
  \/ ~cancelled /\ found = "nothing" /\ Go("tail", "whole") /\ UNCHANGED found
  \/ cancelled /\ Leave("tail", "stopped") /\ UNCHANGED <<queue, said>>

AllSaid == Leave("whole", "whole") /\ UNCHANGED <<queue, said>>

\* MUTANT: an exception ends the thread without a word.
FailSilently ==
  /\ \E from \in {"retrieve", "prompt", "ollama"} : Leave(from, "failed")
  /\ UNCHANGED <<queue, said>>

\* Embedding or Ollama failed, no slot in time, or the wait for one was cancelled.
Fail ==
  /\ \E from \in {"retrieve", "prompt", "ollama"} : Leave(from, "failed")
  /\ Send(Error)
  /\ UNCHANGED said

\* finally: the end marker.
SendEnd ==
  /\ job = "end" /\ job' = "returned"
  /\ Send(End)
  /\ UNCHANGED <<mode, found, said, outcome, loopVars>>

ThreadStep ==
  Begin \/ Prepare \/ StartGeneration \/ NextText \/ GenerationEnds \/ SayLast
    \/ AllSaid \/ Fail \/ SendEnd

(***************************************************************************)
(* The event loop: _start_stream_worker, _stream_queue_events,             *)
(* _watch_disconnect and _rag_stream_response.                             *)
(***************************************************************************)
threadHistory == <<mode, found, said, outcome>>

\* A thread is found, there is no permit in time, or the executor refuses the job.
StartStream ==
  /\ reader = "starting"
  /\ \/ reader' = "reading" /\ job' = "queued" /\ UNCHANGED ending
     \/ reader' = "stop" /\ ending' = "capacity" /\ UNCHANGED job
     \/ reader' = "gone" /\ ending' = "cut" /\ UNCHANGED job
  /\ UNCHANGED <<threadHistory, queue, cancelled, shown, client, loop>>

Take ==
  /\ reader = "reading" /\ queue # <<>>
  /\ queue' = Tail(queue)
  /\ UNCHANGED <<threadHistory, job, cancelled, client, loop>>

TakePiece ==
  /\ Take
  /\ Head(queue) \in Pieces
  /\ shown' = Append(shown, Head(queue))
  /\ UNCHANGED <<reader, ending>>

\* None ends the loop, an exception after its error chunk.
TakeLast ==
  /\ Take
  /\ \/ Head(queue) = End /\ ending' = "normal"
     \/ Head(queue) = Error /\ ending' = "error"
  /\ reader' = "closing"
  /\ UNCHANGED shown

\* MUTANT: after a timeout the loop goes on.
TimeoutGoesOn ==
  /\ reader = "reading"
  /\ cancelled' = TRUE
  /\ UNCHANGED <<threadHistory, job, queue, reader, ending, shown, client, loop>>

\* The wait for an item ends first, perhaps just as one arrives.
StreamTimeout ==
  /\ reader = "reading" /\ reader' = "closing"
  /\ ending' = "timeout"
  /\ cancelled' = TRUE
  /\ UNCHANGED <<threadHistory, job, queue, shown, client, loop>>

\* finally, the chunk with finish_reason, [DONE].
Close ==
  /\ \/ reader = "closing" /\ reader' = "stop" /\ cancelled' = TRUE
     \/ reader = "stop" /\ reader' = "marker" /\ UNCHANGED cancelled
     \/ reader = "marker" /\ reader' = "done" /\ UNCHANGED cancelled
  /\ UNCHANGED <<threadHistory, job, queue, ending, shown, client, loop>>

Disconnect ==
  /\ client /\ client' = FALSE
  /\ UNCHANGED <<threadHistory, job, queue, cancelled, reader, ending, shown, loop>>

\* The polling task sees the client gone while the stream is served.
WatchDisconnect ==
  /\ ~client /\ reader \in {"reading", "closing"}
  /\ cancelled' = TRUE
  /\ UNCHANGED <<threadHistory, job, queue, reader, ending, shown, client, loop>>

Unfinished == reader \notin {"done", "gone"}

\* The generator is cancelled at an await or a yield; finally sets the event.
Abort ==
  /\ reader' = "gone"
  /\ ending' = IF ending = "open" THEN "cut" ELSE ending
  /\ cancelled' = (cancelled \/ reader \in {"reading", "closing"})
  /\ UNCHANGED <<threadHistory, job, queue, shown, client>>

ClientGone == Unfinished /\ ~client /\ Abort /\ UNCHANGED loop

\* The server stops: what is open is aborted, and later the loop is closed.
Shutdown ==
  \/ Unfinished /\ Abort /\ UNCHANGED loop
  \/ /\ ~Unfinished /\ loop /\ loop' = FALSE
     /\ UNCHANGED <<threadHistory, job, queue, cancelled, reader, ending, shown, client>>

LoopStep == StartStream \/ TakePiece \/ TakeLast \/ StreamTimeout \/ Close

Next ==
  ThreadStep \/ LoopStep \/ Disconnect \/ WatchDisconnect \/ ClientGone \/ Shutdown

Spec == Init /\ [][Next]_vars

\* The event loop runs and its timers fire.  Nothing is assumed of the thread, which
\* may hang in a call, nor of the client.
FairSpec == Spec /\ WF_vars(LoopStep)

(***************************************************************************)
(* Properties.                                                             *)
(***************************************************************************)
TypeOK ==
  /\ mode \in Modes
  /\ job \in {"none", "queued", "retrieve", "direct", "prompt", "ollama", "tail", "whole",
             "end", "returned"}
  /\ found \in {"unknown", "chunks", "nothing", "unavailable"}
  /\ queue \in Seq(Pieces \cup {Error, End})
  /\ reader \in {"starting", "reading", "closing", "stop", "marker", "done", "gone"}
  /\ ending \in {"open", "normal", "error", "timeout", "capacity", "cut"}
  /\ {cancelled, client, loop} \subseteq BOOLEAN
  /\ said \in Seq(Pieces) /\ shown \in Seq(Pieces)
  /\ outcome \in {"open", "whole", "failed", "stopped"}
  /\ ending = "open" <=> reader \in {"starting", "reading"}

\* The ending as a reader sees it: an error, a timeout and a refusal all carry a notice.
Verdict == IF ending \in {"open", "normal", "cut"} THEN ending ELSE "marked"

Promise == INSTANCE AnswerStream WITH
  whole <- outcome = "whole", ending <- Verdict, closed <- reader = "done"

\* The stream keeps what AnswerStream promises: chunks and the end cross from the thread
\* in order, and no timeout, error, disconnect or cancellation ends an answer early
\* without a notice while its reader is there.
ImplementsAnswerStream == Promise!Spec

\* The reader of a finished answer was told where it comes from: strict mode shows no
\* text of the model without chunks, sources are listed, and an answer without
\* retrieval says so at its end.
ToldWhereFrom ==
  reader = "done" /\ ending = "normal" /\ client =>
    \/ mode = "strict" /\ found # "chunks" /\ shown = <<Direct>>
    \/ found = "chunks" /\ shown # <<>> /\ shown[Len(shown)] = Sources
    \/ mode = "augmented" /\ found = "unavailable" /\ shown # <<>> /\ shown[Len(shown)] = Notice
    \/ mode = "augmented" /\ found = "nothing" /\ \A i \in 1 .. Len(shown) : shown[i] = Text(i)

\* Ollama does not stream for ever: only the wait for each item is bounded in the code.
AnswerIsFinite == <>[][said' = said]_vars

\* When Ollama sends no more text, an open stream comes to its end, wherever the thread
\* hangs or dies and whether or not it sends the end marker.
StreamEnds == AnswerIsFinite => (reader = "reading" ~> reader \in {"done", "gone"})
=============================================================================
