------------------------------- MODULE ChatPage -------------------------------
(***************************************************************************)
(* The chat pages (app/chat, app/chat/upload) over useChatStream: the      *)
(* draft of the answer, the queue of characters shown 12 a frame, the      *)
(* WebSocket with its fallback to SSE, abort, retry, new chat, history.    *)
(*                                                                         *)
(* A question is a run of start.  All runs share the refs of the hook and  *)
(* of the page.  Reconnects within an SSE run are module ChatStream's.     *)
(***************************************************************************)
EXTENDS Integers, SequencesExt

CONSTANTS
  MaxRuns,      \* bound: calls of start
  MaxChunks     \* chunks of an answer; a frame shows one

VARIABLES
  page,         \* which of the two pages
  view,         \* isReadOnlyHistoryView
  messages,
  pending,      \* pendingCharacterQueueRef
  frame,        \* flushCharactersRafRef # null
  drains,       \* flushDrainResolversRef, with the handler that awaits
  socketRef, controllerRef,
  streaming,
  run

vars == <<page, view, messages, pending, frame, drains, socketRef, controllerRef, streaming, run>>
refs == <<page, view, socketRef, controllerRef>>

Runs == 1..MaxRuns
NoRun == [pc |-> "off", ws |-> "none", got |-> -1, aborted |-> FALSE]

User == [role |-> "user", text |-> <<>>, failed |-> FALSE, by |-> <<0, "none">>]
Old == [User EXCEPT !.role = "old"]
Draft(text) == [User EXCEPT !.role = "draft", !.text = text]
IsDraft(m) == m.role = "draft"

Init ==
  /\ page \in {"chat", "upload"} /\ view = "live"
  /\ messages = <<>> /\ pending = <<>> /\ frame = FALSE /\ drains = <<>>
  /\ socketRef = 0 /\ controllerRef = 0 /\ streaming = FALSE
  /\ run = [r \in Runs |-> NoRun]

-----------------------------------------------------------------------------
\* The list of messages

HasDraft(ms) == \E i \in DOMAIN ms : IsDraft(ms[i])
DraftAt(ms) == CHOOSE i \in DOMAIN ms : IsDraft(ms[i])
DraftOf(ms) == ms[DraftAt(ms)]
OnDraft(ms, draft) == [i \in DOMAIN ms |-> IF IsDraft(ms[i]) THEN draft ELSE ms[i]]

WithoutDraft(ms) == IF HasDraft(ms) THEN RemoveAt(ms, DraftAt(ms)) ELSE ms

EnsureDraft(ms) == IF HasDraft(ms) THEN ms ELSE Append(ms, Draft(<<>>))

Show(ms, chunk) ==
  IF HasDraft(ms)
  THEN OnDraft(ms, [DraftOf(ms) EXCEPT !.text = Append(@, chunk), !.failed = FALSE])
  ELSE Append(ms, Draft(<<chunk>>))

Finalize(ms, d) ==
  OnDraft(ms, [DraftOf(ms) EXCEPT !.role = "answer", !.by = <<d.run, d.via>>])

DraftError(ms) == OnDraft(ms, [DraftOf(ms) EXCEPT !.failed = TRUE])

\* What handleStreamDone and handleStreamError do after the drain.
AfterDrain(ms, d) == IF d.kind = "done" THEN Finalize(ms, d) ELSE DraftError(ms)

\* That of all handlers that waited, one after the other: the errors before the
\* first done mark the draft, which the done ends; those after it find none.
AfterDrains(ms, ds) ==
  LET done == {i \in DOMAIN ds : ds[i].kind = "done"} IN
  IF ds = <<>> THEN ms
  ELSE IF done = {} THEN DraftError(ms)
  ELSE Finalize(IF Min(done) > 1 THEN DraftError(ms) ELSE ms, ds[Min(done)])

-----------------------------------------------------------------------------
\* useChatStream

\* abort: the socket closes, the fetch is aborted.
Aborted ==
  [r \in Runs |-> [run[r] EXCEPT !.ws = IF r = socketRef /\ @ = "open" THEN "closing" ELSE @,
                                 !.aborted = @ \/ r = controllerRef]]

StartRun(r) ==
  /\ run[r].pc = "off" /\ \A q \in Runs : q < r => run[q].pc # "off"
  /\ run' = [Aborted EXCEPT ![r] = [pc |-> "ws", ws |-> "open", got |-> -1, aborted |-> FALSE]]
  /\ socketRef' = r /\ controllerRef' = 0
  /\ streaming' = TRUE

\* startChat: the chat page replaces a draft, the upload page keeps it.
Ask(r) ==
  /\ view = "live" /\ ~streaming
  /\ messages' = IF page = "upload" THEN EnsureDraft(Append(messages, User))
       ELSE WithoutDraft(messages) \o <<User, Draft(<<>>)>>
  /\ StartRun(r)
  /\ UNCHANGED <<page, view, pending, frame, drains>>

\* retryInlineStream: the button of a draft with an error.
Retry(r) ==
  /\ ~streaming /\ \E i \in DOMAIN messages : IsDraft(messages[i]) /\ messages[i].failed
  /\ messages' = OnDraft(messages, [DraftOf(messages) EXCEPT !.failed = FALSE])
  /\ StartRun(r)
  /\ UNCHANGED <<page, view, pending, frame, drains>>

Abort == run' = Aborted /\ socketRef' = 0 /\ controllerRef' = 0 /\ streaming' = FALSE

AbortButton ==
  /\ streaming
  /\ Abort
  /\ UNCHANGED <<page, view, messages, pending, frame, drains>>

\* handleConfirmNewChat and loadHistorySession leave the queue and its frame.
NewChat ==
  /\ messages # <<>>
  /\ Abort
  /\ messages' = <<>> /\ view' = "live"
  /\ UNCHANGED <<page, pending, frame, drains>>

LoadHistory ==
  /\ Abort
  /\ messages' = <<Old>> /\ view' = "history"
  /\ UNCHANGED <<page, pending, frame, drains>>

-----------------------------------------------------------------------------
\* Events of run r, through its WebSocket or its SSE response

Via(r) == IF run[r].pc = "ws" THEN "ws" ELSE "sse"
Delivering(r) ==
  \/ run[r].pc = "ws" /\ run[r].ws = "open"
  \/ run[r].pc = "sse" /\ ~run[r].aborted

OnStart(r) ==
  /\ Delivering(r) /\ run[r].got = -1
  /\ run' = [run EXCEPT ![r].got = 0]
  /\ messages' = EnsureDraft(messages)
  /\ UNCHANGED <<refs, pending, frame, drains, streaming>>

OnChunk(r) ==
  /\ Delivering(r) /\ run[r].got \in 0..MaxChunks - 1
  /\ run' = [run EXCEPT ![r].got = @ + 1]
  /\ pending' = Append(pending, <<r, Via(r), run[r].got + 1>>) /\ frame' = TRUE
  /\ UNCHANGED <<refs, messages, drains, streaming>>

Drained == pending = <<>> /\ ~frame

\* Mutant of Handle: the handler does not wait for the queue.
HandleAtOnce(r, kind) ==
  /\ messages' = AfterDrain(messages, [run |-> r, via |-> Via(r), kind |-> kind])
  /\ UNCHANGED <<frame, drains>>

\* drainCharacterQueue, then the rest of the handler.
Handle(r, kind) ==
  LET d == [run |-> r, via |-> Via(r), kind |-> kind] IN
  IF Drained THEN messages' = AfterDrain(messages, d) /\ UNCHANGED <<frame, drains>>
  ELSE drains' = Append(drains, d) /\ frame' = TRUE /\ UNCHANGED messages

EndRun(r) == run' = [run EXCEPT ![r].pc = "ended"] /\ controllerRef' = 0 /\ streaming' = FALSE

\* startViaSSE: the request is sent (again).
Fallback(r, ws) ==
  /\ run' = [run EXCEPT ![r] = [pc |-> "sse", ws |-> ws, got |-> -1, aborted |-> FALSE]]
  /\ controllerRef' = r

\* The hook does not await the handlers of the WebSocket.
WsDone(r) ==
  /\ run[r].pc = "ws" /\ run[r].ws = "open" /\ run[r].got = MaxChunks
  /\ Handle(r, "done")
  /\ run' = [run EXCEPT ![r] = [@ EXCEPT !.pc = "ended", !.ws = "closing"]]
  /\ streaming' = FALSE
  /\ UNCHANGED <<page, view, pending, socketRef, controllerRef>>

WsError(r) ==
  /\ run[r].pc = "ws" /\ run[r].ws = "open"
  /\ Handle(r, "error")
  /\ Fallback(r, "closing")
  /\ UNCHANGED <<page, view, pending, socketRef, streaming>>

\* onclose, whoever closed: the ref is cleared whatever socket it holds.
WsClosed(r) ==
  /\ run[r].ws \in {"open", "closing"}
  /\ socketRef' = 0
  /\ IF run[r].pc = "ws" THEN Fallback(r, "none")
     ELSE run' = [run EXCEPT ![r].ws = "none"] /\ UNCHANGED controllerRef
  /\ UNCHANGED <<page, view, messages, pending, frame, drains, streaming>>

\* done, error, or a disconnect that is not resumed.
SseEnds(r) ==
  /\ run[r].pc = "sse" /\ ~run[r].aborted
  /\ \E kind \in IF run[r].got = MaxChunks THEN {"done", "error"} ELSE {"error"} : Handle(r, kind)
  /\ IF Drained THEN EndRun(r)
     ELSE run' = [run EXCEPT ![r].pc = "draining"] /\ UNCHANGED <<controllerRef, streaming>>
  /\ UNCHANGED <<page, view, pending, socketRef>>

SseAborted(r) ==
  /\ run[r].pc = "sse" /\ run[r].aborted
  /\ EndRun(r)
  /\ UNCHANGED <<page, view, messages, pending, frame, drains, socketRef>>

\* A frame of flushCharacters; with an empty queue the drains resolve.
Flush ==
  /\ frame
  /\ LET shown == Show(messages, Head(pending))
         resolved == {drains[i].run : i \in {i \in DOMAIN drains : drains[i].via = "sse"}}
     IN IF Len(pending) > 1
        THEN messages' = shown /\ UNCHANGED <<frame, drains, run, controllerRef, streaming>>
        ELSE /\ messages' = AfterDrains(shown, drains)
             /\ drains' = <<>> /\ frame' = FALSE
             /\ run' = [r \in Runs |-> IF r \in resolved THEN [run[r] EXCEPT !.pc = "ended"]
                                       ELSE run[r]]
             /\ IF resolved = {} THEN UNCHANGED <<controllerRef, streaming>>
                ELSE controllerRef' = 0 /\ streaming' = FALSE
  /\ pending' = Tail(pending)
  /\ UNCHANGED <<page, view, socketRef>>

Next ==
  \/ \E r \in Runs : \/ Ask(r) \/ Retry(r) \/ OnStart(r) \/ OnChunk(r) \/ WsDone(r)
                     \/ WsError(r) \/ WsClosed(r) \/ SseEnds(r) \/ SseAborted(r)
  \/ AbortButton \/ NewChat \/ LoadHistory \/ Flush

Spec == Init /\ [][Next]_vars

-----------------------------------------------------------------------------
Channels == Runs \X {"ws", "sse"}
Texts == Seq(Runs \X {"ws", "sse"} \X (1..MaxChunks))

\* Every variable has its type; there is at most one draft, and while there is
\* something to show or a handler that waits, a frame is requested.
TypeOK ==
  /\ page \in {"chat", "upload"} /\ view \in {"live", "history"}
  /\ messages \in Seq([role : {"user", "old", "draft", "answer"}, text : Texts,
                       failed : BOOLEAN, by : Channels \cup {<<0, "none">>}])
  /\ \A i, j \in DOMAIN messages : IsDraft(messages[i]) /\ IsDraft(messages[j]) => i = j
  /\ pending \in Texts
  /\ drains \in Seq([run : Runs, via : {"ws", "sse"}, kind : {"done", "error"}])
  /\ frame = (pending # <<>>) /\ (drains # <<>> => frame)
  /\ socketRef \in {0} \cup Runs /\ controllerRef \in {0} \cup Runs
  /\ streaming \in BOOLEAN
  /\ run \in [Runs -> [pc : {"off", "ws", "sse", "draining", "ended"},
                       ws : {"none", "open", "closing"}, got : -1..MaxChunks,
                       aborted : BOOLEAN]]

Channel(chunk) == <<chunk[1], chunk[2]>>

\* The text has of a delivery a stretch of chunks that ends with the n-th: each is
\* the n-th or has its successor after it, and none comes out of its order.
ReachesTo(text, d, n) ==
  \A i \in DOMAIN text : Channel(text[i]) = d =>
    /\ \/ text[i][3] = n
       \/ \E j \in DOMAIN text : j > i /\ text[j] = <<d[1], d[2], text[i][3] + 1>>
    /\ \A j \in DOMAIN text : j > i /\ Channel(text[j]) = d => text[j][3] > text[i][3]

\* However runs, frames, aborts and retries interleave, an answer is marked
\* complete only when all of the delivery that ended it has been shown: what
\* it holds of that delivery reaches to the last chunk without a gap, and
\* nothing of it is still queued.
AnswersAreWhole ==
  \A i \in DOMAIN messages : messages[i].role = "answer" =>
    /\ ReachesTo(messages[i].text, messages[i].by, MaxChunks)
    /\ \A k \in DOMAIN pending : Channel(pending[k]) # messages[i].by

=============================================================================
