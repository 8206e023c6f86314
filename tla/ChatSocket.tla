----------------------------- MODULE ChatSocket -----------------------------
(***************************************************************************)
(* One WebSocket of /ws/chat (chat/websocket.ts, the 'connection'          *)
(* handler): start, abort and the close of the socket, the flags           *)
(* isStreaming and isAborted that its message handlers share, and the      *)
(* history and usage they record.                                          *)
(*                                                                         *)
(* A start message is handled by an async function of its own, which is    *)
(* interleaved with the other messages at each await: checkAllowance, the  *)
(* provider's next chunk, insertChatHistory and recordUsage.               *)
(***************************************************************************)
EXTENDS Integers, Sequences

CONSTANTS
  Starts,       \* start messages that the client sends
  MaxChunks     \* bound: chunks with content in an answer

VARIABLES
  up,           \* the process runs
  open,         \* socket.readyState is OPEN
  isStreaming,
  isAborted,
  handler,      \* start message |-> its handler
  sent,         \* start message |-> what the socket was sent for it
  saved,        \* answers in app.chat_history
  billed        \* answers whose usage is recorded

flags == <<isStreaming, isAborted>>
tables == <<saved, billed>>
vars == <<up, open, isStreaming, isAborted, handler, sent, saved, billed>>

\* finished is streamFinished; failed says that the catch block was entered.
Streaming == {"next", "history", "usage"}
Handler == [pc : {"off", "allow", "over"} \cup Streaming, n : Nat,
            finished : BOOLEAN, started : BOOLEAN, failed : BOOLEAN]
Off == [pc |-> "off", n |-> 0, finished |-> FALSE, started |-> FALSE, failed |-> FALSE]

\* "abort" is a done with finishReason abort.
Payloads == {"start", "chunk", "done", "abort", "error"}

Init ==
  /\ up = TRUE
  /\ open = TRUE
  /\ isStreaming = FALSE
  /\ isAborted = FALSE
  /\ handler = [s \in Starts |-> Off]
  /\ sent = [s \in Starts |-> <<>>]
  /\ saved = {}
  /\ billed = {}

At(s, pc) == up /\ handler[s].pc = pc

\* send(): nothing once the socket is not open.
Send(s, payloads) == sent' = IF open THEN [sent EXCEPT ![s] = @ \o payloads] ELSE sent

\* The process exits on an unhandled rejection (index.ts).
Exit ==
  /\ up' = FALSE
  /\ UNCHANGED <<open, flags, handler, sent, tables>>

-----------------------------------------------------------------------------
\* Messages.

\* A start while isStreaming, or an invalid one, is answered with an error; a
\* valid one asks checkAllowance.
Start(s) ==
  /\ At(s, "off") /\ open
  /\ \/ /\ Send(s, <<"error">>)
        /\ handler' = [handler EXCEPT ![s].pc = "over"]
     \/ /\ ~isStreaming
        /\ handler' = [handler EXCEPT ![s].pc = "allow"]
        /\ UNCHANGED sent
  /\ UNCHANGED <<up, open, flags, tables>>

\* authenticateSocketRequest throws on a token that has expired since the upgrade,
\* outside any try.
StartExpired(s) == At(s, "off") /\ open /\ ~isStreaming /\ Exit

Abort ==
  /\ up /\ open
  /\ isAborted' = TRUE
  /\ UNCHANGED <<up, open, isStreaming, handler, sent, tables>>

Close ==
  /\ up /\ open
  /\ open' = FALSE
  /\ UNCHANGED <<up, flags, handler, sent, tables>>

-----------------------------------------------------------------------------
\* After checkAllowance.

\* Not allowed: an error, and the handler returns.
Refuse(s) ==
  /\ At(s, "allow")
  /\ Send(s, <<"error">>)
  /\ handler' = [handler EXCEPT ![s].pc = "over"]
  /\ UNCHANGED <<up, open, flags, tables>>

\* It rejects, outside any try.
AllowanceFails(s) == At(s, "allow") /\ Exit

\* Allowed: the flags are set and the stream begins.
Allow(s) ==
  /\ At(s, "allow")
  /\ isStreaming' = TRUE
  /\ isAborted' = FALSE
  /\ Send(s, <<"start">>)
  /\ handler' = [handler EXCEPT ![s] = [@ EXCEPT !.pc = "next", !.started = TRUE]]
  /\ UNCHANGED <<up, open, tables>>

-----------------------------------------------------------------------------
\* The loop over the provider's chunks.

CutOff == ~open \/ isAborted

\* Mutant of AfterLoop: an aborted stream returns without recordUsage.
AfterLoopUnbilled(s, payloads, n, finished) ==
  /\ Send(s, IF isAborted THEN Append(payloads, "abort") ELSE payloads)
  /\ LET pc == IF isAborted THEN "over" ELSE IF finished /\ n > 0 THEN "history" ELSE "usage" IN
     handler' = [handler EXCEPT ![s] = [@ EXCEPT !.n = n, !.finished = finished, !.pc = pc]]
  /\ UNCHANGED <<up, open, flags, tables>>

\* The loop is left, after sending payloads: an abort is answered with a done, and
\* only a finished answer with text goes to the history.
AfterLoop(s, payloads, n, finished) ==
  /\ Send(s, IF isAborted THEN Append(payloads, "abort") ELSE payloads)
  /\ LET pc == IF finished /\ n > 0 THEN "history" ELSE "usage" IN
     handler' = [handler EXCEPT ![s] = [@ EXCEPT !.n = n, !.finished = finished, !.pc = pc]]
  /\ UNCHANGED <<up, open, flags, tables>>

\* The next chunk comes when the socket is closed or the stream aborted.
NextCutOff(s) == At(s, "next") /\ CutOff /\ AfterLoop(s, <<>>, handler[s].n, FALSE)

\* It has content and is not the last.
NextContent(s) ==
  /\ At(s, "next") /\ ~CutOff /\ handler[s].n < MaxChunks
  /\ Send(s, <<"chunk">>)
  /\ handler' = [handler EXCEPT ![s].n = @ + 1]
  /\ UNCHANGED <<up, open, flags, tables>>

\* It has a finishReason, and content or none.
NextFinish(s) ==
  /\ At(s, "next") /\ ~CutOff
  /\ \/ AfterLoop(s, <<"done">>, handler[s].n, TRUE)
     \/ /\ handler[s].n < MaxChunks
        /\ AfterLoop(s, <<"chunk", "done">>, handler[s].n + 1, TRUE)

\* There is none: the provider's body ended without a finishReason.
NextEnd(s) == At(s, "next") /\ AfterLoop(s, <<>>, handler[s].n, FALSE)

-----------------------------------------------------------------------------
\* After the loop.

InsertHistory(s) ==
  /\ At(s, "history")
  /\ saved' = saved \cup {s}
  /\ handler' = [handler EXCEPT ![s].pc = "usage"]
  /\ UNCHANGED <<up, open, flags, sent, billed>>

\* Mutant of Finally: the flags are reset in the try.
FinallyOnlyOnSuccess(s, failed) ==
  /\ isStreaming' = (isStreaming /\ failed)
  /\ isAborted' = (isAborted /\ failed)
  /\ handler' = [handler EXCEPT ![s] = [@ EXCEPT !.pc = "over", !.failed = failed]]

\* The finally block: the handler's, and whoever else uses the flags.
Finally(s, failed) ==
  /\ isStreaming' = FALSE
  /\ isAborted' = FALSE
  /\ handler' = [handler EXCEPT ![s] = [@ EXCEPT !.pc = "over", !.failed = failed]]

\* usageCapsService.recordUsage, which the try ends with.
RecordUsage(s) ==
  /\ At(s, "usage")
  /\ billed' = billed \cup {s}
  /\ Finally(s, FALSE)
  /\ UNCHANGED <<up, open, sent, saved>>

\* The provider, insertChatHistory or recordUsage rejects: an error is sent.
Fail(s) ==
  /\ up /\ handler[s].pc \in Streaming
  /\ Send(s, <<"error">>)
  /\ Finally(s, TRUE)
  /\ UNCHANGED <<up, open, tables>>

-----------------------------------------------------------------------------
HandlerStep(s) ==
  \/ Refuse(s) \/ Allow(s)
  \/ NextCutOff(s) \/ NextContent(s) \/ NextFinish(s) \/ NextEnd(s)
  \/ InsertHistory(s) \/ RecordUsage(s)

Next ==
  \/ \E s \in Starts : Start(s) \/ HandlerStep(s)
  \/ \E s \in Starts : StartExpired(s) \/ AllowanceFails(s) \/ Fail(s)
  \/ Abort \/ Close

\* Queries and the provider's next chunk are answered in the end.
Fairness == \A s \in Starts : WF_vars(HandlerStep(s))

Spec == Init /\ [][Next]_vars /\ Fairness

-----------------------------------------------------------------------------
\* Properties.

TypeOK ==
  /\ up \in BOOLEAN /\ open \in BOOLEAN
  /\ isStreaming \in BOOLEAN /\ isAborted \in BOOLEAN
  /\ handler \in [Starts -> Handler]
  /\ sent \in [Starts -> Seq(Payloads)]
  /\ saved \subseteq Starts /\ billed \subseteq Starts

Has(s, payload) == \E i \in DOMAIN sent[s] : sent[s][i] = payload

\* The usage of a stream is recorded however it ends - finished, aborted, cut off
\* by the close of the socket, or by the provider - unless its handler failed.
StreamsAreBilled ==
  \A s \in Starts :
    handler[s].started /\ handler[s].pc = "over" /\ ~handler[s].failed => s \in billed

\* chat/websocket.ts, "Persist to chat history when stream completed successfully":
\* what is in the history was answered with a done, which says nothing of an abort,
\* and an answer whose client was told of an abort is never there.
SavedMeansDone == \A s \in saved : Has(s, "done") /\ ~Has(s, "abort")

\* However starts, aborts and a close overlap on one socket, each stream ends with
\* its usage recorded, and only as an answer when its client was told so.
EndsAreRecorded == StreamsAreBilled /\ SavedMeansDone

\* A socket that is streaming takes starts again, unless the process ends.
SocketFreesUp == isStreaming ~> (~isStreaming \/ ~up)

=============================================================================
