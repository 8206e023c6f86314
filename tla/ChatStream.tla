----------------------------- MODULE ChatStream -----------------------------
(***************************************************************************)
(* One chat answer over server-sent events: the reader in the browser      *)
(* (useChatStream.ts, startViaSSE), POST /api/chat with startNewStream and *)
(* resumeStream (chat/index.ts), and the stream state they keep in Redis   *)
(* (redis/stream-store.ts).                                                *)
(*                                                                         *)
(* A handler is interleaved with everything else at each await: every      *)
(* Redis command, query and sendSSE is a step.  Every addStreamChunk and   *)
(* markStreamFinished is a GET followed by a SETEX.                        *)
(*                                                                         *)
(* The content of the i-th chunk of stream s is the pair <<s, i>>.         *)
(***************************************************************************)
EXTENDS Integers, Sequences, SequencesExt

CONSTANTS
  Streams,                \* stream ids that randomUUID may return
  NoStream,
  MaxChunks,              \* bound: chunks with content in an answer
  MaxReconnectAttempts,
  MaxFaults               \* bound: faults of the network, Redis, Postgres, the provider

ASSUME NoStreamAssumption == NoStream \notin Streams
ASSUME BoundsAssumption ==
  MaxChunks \in Nat /\ MaxReconnectAttempts \in Nat /\ MaxFaults \in Nat

VARIABLES
  client,     \* startViaSSE: where it is, its refs, the text it has appended
  conn,       \* the connection of its current request
  handler,    \* stream |-> the startNewStream handler that made it
  store,      \* stream |-> chat_stream:<id>, or Missing
  history,    \* streams whose answer is in app.chat_history
  billed,     \* streams whose usage was recorded
  faults

vars == <<client, conn, handler, store, history, billed, faults>>

Contents == Streams \X (0..(MaxChunks - 1))

\* lastEventIdRef: nothing, the id of a stream (the start event carries it), or
\* the id of a later event, <streamId>-<index>, <streamId>-done and so on.
EventIds == {"none", "stream", "event"}
ClientPcs == {"ask", "reading", "done", "failed", "aborted"}
Client == [pc : ClientPcs, lastId : EventIds, sid : Streams \cup {NoStream},
           attempts : 0..MaxReconnectAttempts, text : Seq(Contents)]

\* wire holds what was written and not yet read; todo what resumeStream will
\* still write; ended says that the server called res.end().
Event(type, s, c) == [type |-> type, stream |-> s, content |-> c]
Events == [type : {"start", "chunk", "done", "error"}, stream : Streams,
           content : Contents \cup {<<>>}]
Conn == [mode : {"none", "new", "resume"}, stream : Streams \cup {NoStream}, up : BOOLEAN,
         wire : Seq(Events), todo : Seq(Events), ended : BOOLEAN]

Missing == [chunks |-> <<>>, finished |-> FALSE, error |-> FALSE, there |-> FALSE]
States == [chunks : Seq(Contents), finished : BOOLEAN, error : BOOLEAN, there : BOOLEAN]

\* n counts the content chunks taken from the provider, told is what n was at the
\* first done; waiting is an unresolved sendSSE; gone says that the server has
\* seen the connection close; seen is what the last GET returned.
Active == {"store", "start", "read", "get", "set", "chunk", "last", "markGet", "markSet", "done",
           "history", "usage", "delete", "failGet", "failSet", "error", "end"}
HandlerPcs == {"off", "over", "hung"} \cup Active
Handler == [pc : HandlerPcs, n : 0..MaxChunks, told : {-1} \cup 0..MaxChunks,
            waiting : BOOLEAN, gone : BOOLEAN, seen : States]

NewConn == [mode |-> "none", stream |-> NoStream, up |-> TRUE, wire |-> <<>>, todo |-> <<>>,
            ended |-> FALSE]
Off == [pc |-> "off", n |-> 0, told |-> -1, waiting |-> FALSE, gone |-> FALSE, seen |-> Missing]

\* start() has given up on the WebSocket and calls startViaSSE.
Init ==
  /\ client = [pc |-> "ask", lastId |-> "none", sid |-> NoStream, attempts |-> 0, text |-> <<>>]
  /\ conn = NewConn
  /\ handler = [s \in Streams |-> Off]
  /\ store = [s \in Streams |-> Missing]
  /\ history = {}
  /\ billed = {}
  /\ faults = 0

Fault == faults < MaxFaults /\ faults' = faults + 1

\* The connection of handler s is the client's current one and works.
Attached(s) == conn.mode = "new" /\ conn.stream = s /\ conn.up

At(s, pc) == handler[s].pc = pc /\ ~handler[s].waiting

Goto(s, pc) == handler' = [handler EXCEPT ![s].pc = pc]

-----------------------------------------------------------------------------
\* POST /api/chat.

\* What resumeStream writes: the stored chunks, then how the stream ended.  A
\* stream still in progress is answered with done as well.
Replay(s) ==
  <<Event("start", s, <<>>)>>
    \o [i \in 1..Len(store[s].chunks) |-> Event("chunk", s, store[s].chunks[i])]
    \o <<Event(IF store[s].finished /\ store[s].error THEN "error" ELSE "done", s, <<>>)>>

\* reconnectStreamId, when it is the key of a stream: Last-Event-ID comes first,
\* so a request that follows a chunk names no stream.
Reconnects(s) == client.lastId = "stream" /\ client.sid = s /\ store[s].there

\* Mutant of AcceptResume: the replay starts at index 1.
AcceptResumeSkipsFirst(s) ==
  /\ client.pc = "ask" /\ conn.mode = "none" /\ conn.up
  /\ Reconnects(s)
  /\ conn' = [conn EXCEPT !.mode = "resume", !.stream = s, 
                           !.todo = IF store[s].chunks = <<>> THEN Replay(s)
                                    ELSE RemoveAt(Replay(s), 2)]
  /\ UNCHANGED <<client, handler, store, history, billed, faults>>

AcceptResume(s) ==
  /\ client.pc = "ask" /\ conn.mode = "none" /\ conn.up
  /\ Reconnects(s)
  /\ conn' = [conn EXCEPT !.mode = "resume", !.stream = s, !.todo = Replay(s)]
  /\ UNCHANGED <<client, handler, store, history, billed, faults>>

\* No such stream: checkAllowance allows it, and startNewStream begins.  Which
\* unused id randomUUID returns makes no difference.
AcceptNew(s) ==
  /\ client.pc = "ask" /\ conn.mode = "none" /\ conn.up
  /\ \A t \in Streams : ~Reconnects(t)
  /\ handler[s] = Off /\ s = CHOOSE t \in Streams : handler[t] = Off
  /\ conn' = [conn EXCEPT !.mode = "new", !.stream = s]
  /\ handler' = [handler EXCEPT ![s].pc = "store"]
  /\ UNCHANGED <<client, store, history, billed, faults>>

\* 401, 429, 500 or no answer at all.
Refuse ==
  /\ client.pc = "ask" /\ conn.mode = "none" /\ conn.up
  /\ Fault
  /\ conn' = [conn EXCEPT !.up = FALSE]
  /\ UNCHANGED <<client, handler, store, history, billed>>

-----------------------------------------------------------------------------
\* startNewStream.

\* sendSSE: res.write, then go on at once or wait for 'drain'.  On a response
\* whose close was seen the write returns false and 'drain' never comes.
SendTold(s, from, type, c, to, told) ==
  /\ At(s, from)
  /\ \E waiting \in IF handler[s].gone THEN {TRUE} ELSE BOOLEAN :
       handler' = [handler EXCEPT ![s] = [@ EXCEPT !.pc = to, !.waiting = waiting, !.told = told]]
  /\ conn' = IF Attached(s) THEN [conn EXCEPT !.wire = Append(@, Event(type, s, c))] ELSE conn
  /\ UNCHANGED <<client, store, history, billed, faults>>

Send(s, from, type, c, to) == SendTold(s, from, type, c, to, handler[s].told)

Drain(s) ==
  /\ handler[s].waiting /\ Attached(s)
  /\ handler' = [handler EXCEPT ![s].waiting = FALSE]
  /\ UNCHANGED <<client, conn, store, history, billed, faults>>

\* storeStreamState.
StoreState(s) ==
  /\ At(s, "store")
  /\ store' = [store EXCEPT ![s] = [Missing EXCEPT !.there = TRUE]]
  /\ Goto(s, "start")
  /\ UNCHANGED <<client, conn, history, billed, faults>>

\* It is outside the try, after writeHead: errorHandler finds the headers sent
\* and returns, and nobody ends the response.
StoreStateFails(s) ==
  /\ At(s, "store")
  /\ Fault
  /\ Goto(s, "hung")
  /\ UNCHANGED <<client, conn, store, history, billed>>

SendStart(s) == Send(s, "start", "start", <<>>, "read")

\* The loop goes on after a finishReason.  A provider yields again after one only
\* if reading its body failed, and it asks for the answer once more.
Yields(s) == At(s, "read") /\ IF handler[s].told = -1 THEN UNCHANGED faults ELSE Fault

\* The provider yields content.
ProviderYields(s) ==
  /\ Yields(s) /\ handler[s].n < MaxChunks
  /\ handler' = [handler EXCEPT ![s] = [@ EXCEPT !.pc = "get", !.n = handler[s].n + 1]]
  /\ UNCHANGED <<client, conn, store, history, billed>>

\* The provider yields a finishReason, in a chunk without content.
ProviderFinishes(s) ==
  /\ Yields(s)
  /\ Goto(s, "last")
  /\ UNCHANGED <<client, conn, store, history, billed>>

\* The provider's generator returns after its finishReason.
ProviderReturns(s) ==
  /\ At(s, "read") /\ handler[s].told # -1
  /\ Goto(s, "history")
  /\ UNCHANGED <<client, conn, store, history, billed, faults>>

\* The provider's body ends before a finishReason: the loop ends without done.
ProviderEnds(s) ==
  /\ At(s, "read") /\ handler[s].told = -1
  /\ Fault
  /\ Goto(s, "history")
  /\ UNCHANGED <<client, conn, store, history, billed>>

\* Mutant of Get: a key that is gone is written anew.
GetAlwaysFinds(s, from, to, after) ==
  /\ At(s, from)
  /\ handler' = [handler EXCEPT ![s] = [@ EXCEPT !.pc = to, !.seen = store[s]]]
  /\ UNCHANGED <<client, conn, store, history, billed, faults>>

\* The GET of addStreamChunk and updateStreamState: a key that is gone ends them.
Get(s, from, to, after) ==
  /\ At(s, from)
  /\ LET pc == IF store[s].there THEN to ELSE after IN
     handler' = [handler EXCEPT ![s] = [@ EXCEPT !.pc = pc, !.seen = store[s]]]
  /\ UNCHANGED <<client, conn, store, history, billed, faults>>

\* Their SETEX of the state read, updated.
Set(s, from, state, after) ==
  /\ At(s, from)
  /\ store' = [store EXCEPT ![s] = [state EXCEPT !.there = TRUE]]
  /\ handler' = [handler EXCEPT ![s] = [@ EXCEPT !.pc = after, !.seen = Missing]]
  /\ UNCHANGED <<client, conn, history, billed, faults>>

Content(s) == <<s, handler[s].n - 1>>

\* Mutant of SendChunk: a handler whose client is gone skips the write of a chunk
\* but stays in the loop.
SendChunkLosesOne(s) ==
  /\ At(s, "chunk")
  /\ \E written \in BOOLEAN :
       conn' = IF written /\ Attached(s)
                 THEN [conn EXCEPT !.wire = Append(@, Event("chunk", s, Content(s)))] ELSE conn
  /\ Goto(s, "read")
  /\ UNCHANGED <<client, store, history, billed, faults>>

ChunkGet(s) == Get(s, "get", "set", "chunk")
ChunkSet(s) ==
  Set(s, "set", [handler[s].seen EXCEPT !.chunks = Append(@, Content(s))], "chunk")
SendChunk(s) == Send(s, "chunk", "chunk", Content(s), "read")
SendLast(s) == Send(s, "last", "chunk", <<>>, "markGet")

MarkGet(s) == Get(s, "markGet", "markSet", "done")
MarkSet(s) == Set(s, "markSet", [handler[s].seen EXCEPT !.finished = TRUE, !.error = FALSE], "done")
SendDone(s) ==
  SendTold(s, "done", "done", <<>>, "read",
           IF handler[s].told = -1 THEN handler[s].n ELSE handler[s].told)

InsertHistory(s) ==
  /\ At(s, "history")
  /\ history' = history \cup {s}
  /\ Goto(s, "usage")
  /\ UNCHANGED <<client, conn, store, billed, faults>>

RecordUsage(s) ==
  /\ At(s, "usage")
  /\ billed' = billed \cup {s}
  /\ Goto(s, "delete")
  /\ UNCHANGED <<client, conn, store, history, faults>>

DeleteState(s) ==
  /\ At(s, "delete")
  /\ store' = [store EXCEPT ![s] = Missing]
  /\ Goto(s, "end")
  /\ UNCHANGED <<client, conn, history, billed, faults>>

\* The provider throws, or a call inside the try rejects.
CallFails(s) ==
  /\ \E pc \in {"start", "read", "get", "set", "markGet", "markSet",
               "history", "usage", "delete"} : At(s, pc)
  /\ Fault
  /\ Goto(s, "failGet")
  /\ UNCHANGED <<client, conn, store, history, billed>>

\* The catch block: markStreamFinished with the error, the error event.  If
\* markStreamFinished rejects too, the response still ends.
FailGet(s) == Get(s, "failGet", "failSet", "error")
FailSet(s) == Set(s, "failSet", [handler[s].seen EXCEPT !.finished = TRUE, !.error = TRUE], "error")
SendError(s) == Send(s, "error", "error", <<>>, "end")
MarkFails(s) ==
  /\ At(s, "failGet") \/ At(s, "failSet")
  /\ Fault
  /\ Goto(s, "end")
  /\ UNCHANGED <<client, conn, store, history, billed>>

\* Mutant of EndResponse: the finally block is gone.
EndResponseForgotten(s) ==
  /\ At(s, "end")
  /\ Goto(s, "over")
  /\ UNCHANGED <<client, conn, store, history, billed, faults>>

\* The finally block: res.end().
EndResponse(s) ==
  /\ At(s, "end")
  /\ conn' = IF Attached(s) THEN [conn EXCEPT !.ended = TRUE] ELSE conn
  /\ Goto(s, "over")
  /\ UNCHANGED <<client, store, history, billed, faults>>

\* The socket's 'close' reaches the server.
NoticeClose(s) ==
  /\ handler[s].pc \in Active /\ ~handler[s].gone /\ ~Attached(s)
  /\ handler' = [handler EXCEPT ![s].gone = TRUE]
  /\ UNCHANGED <<client, conn, store, history, billed, faults>>

\* Five minutes pass without a SETEX.
ExpireState(s) ==
  /\ store[s].there
  /\ Fault
  /\ store' = [store EXCEPT ![s] = Missing]
  /\ UNCHANGED <<client, conn, handler, history, billed>>

-----------------------------------------------------------------------------
\* resumeStream writes event after event, then ends the response.

ResumeSend ==
  /\ conn.mode = "resume" /\ conn.up /\ ~conn.ended
  /\ conn' = IF conn.todo = <<>> THEN [conn EXCEPT !.ended = TRUE]
             ELSE [conn EXCEPT !.wire = Append(@, Head(conn.todo)), !.todo = Tail(@)]
  /\ UNCHANGED <<client, handler, store, history, billed, faults>>

-----------------------------------------------------------------------------
\* startViaSSE.

Reading == client.pc \in {"ask", "reading"} /\ conn.wire # <<>>

\* The next event that is complete in the buffer.  The headers arrive with the
\* first one, and a response that is ok resets reconnectAttempts.
Read ==
  LET e == Head(conn.wire) IN
  /\ Reading
  /\ client' = [client EXCEPT
       !.pc = CASE e.type = "done" -> "done" [] e.type = "error" -> "failed" [] OTHER -> "reading",
       !.attempts = IF client.pc = "ask" THEN 0 ELSE @,
       !.lastId = IF e.type = "start" THEN "stream" ELSE "event",
       !.sid = IF e.type = "start" THEN e.stream ELSE @,
       !.text = IF e.type = "chunk" /\ e.content # <<>> THEN Append(@, e.content) ELSE @]
  /\ conn' = [conn EXCEPT !.wire = Tail(@)]
  /\ UNCHANGED <<handler, store, history, billed, faults>>

\* Mutant of Retry: one attempt too many.
RetryOnceMore ==
  /\ client.pc \in {"ask", "reading"}
  /\ conn.wire = <<>> /\ (conn.ended \/ ~conn.up)
  /\ client' = IF client.lastId # "none" /\ client.attempts <= MaxReconnectAttempts
                 THEN [client EXCEPT !.pc = "ask", !.attempts = @ + 1]
                 ELSE [client EXCEPT !.pc = "failed"]
  /\ conn' = IF client'.pc = "ask" THEN NewConn ELSE conn
  /\ UNCHANGED <<handler, store, history, billed, faults>>

\* The request failed, or the body ended, before done or error: ask again with
\* the last event id, or give up.  A response that ended without an event was ok.
Retry ==
  /\ client.pc \in {"ask", "reading"}
  /\ conn.wire = <<>> /\ (conn.ended \/ ~conn.up)
  /\ LET attempts == IF client.pc = "ask" /\ conn.ended THEN 0 ELSE client.attempts IN
       client' = IF client.lastId # "none" /\ attempts < MaxReconnectAttempts
                   THEN [client EXCEPT !.pc = "ask", !.attempts = attempts + 1]
                   ELSE [client EXCEPT !.pc = "failed", !.attempts = attempts]
  /\ conn' = IF client'.pc = "ask" THEN NewConn ELSE conn
  /\ UNCHANGED <<handler, store, history, billed, faults>>

\* The connection breaks; what was not read may be lost from some point on.
Drop ==
  /\ client.pc \in {"ask", "reading"} /\ conn.up /\ conn.mode # "none"
  /\ Fault
  /\ \E k \in 0..Len(conn.wire) :
       conn' = [conn EXCEPT !.up = FALSE, !.wire = SubSeq(@, 1, k), !.todo = <<>>]
  /\ UNCHANGED <<client, handler, store, history, billed>>

\* abort(): the AbortController closes the connection and the loop ends.
Abort ==
  /\ client.pc \in {"ask", "reading"}
  /\ client' = [client EXCEPT !.pc = "aborted"]
  /\ conn' = [conn EXCEPT !.up = FALSE, !.wire = <<>>, !.todo = <<>>]
  /\ UNCHANGED <<handler, store, history, billed, faults>>

-----------------------------------------------------------------------------
\* The provider answers in the end: its calls have timeouts, and fetch gives up on
\* a body that is silent.
HandlerStep(s) ==
  \/ Drain(s) \/ StoreState(s) \/ SendStart(s)
  \/ ProviderYields(s) \/ ProviderFinishes(s) \/ ProviderReturns(s)
  \/ ChunkGet(s) \/ ChunkSet(s) \/ SendChunk(s) \/ SendLast(s)
  \/ MarkGet(s) \/ MarkSet(s) \/ SendDone(s)
  \/ InsertHistory(s) \/ RecordUsage(s) \/ DeleteState(s)
  \/ FailGet(s) \/ FailSet(s) \/ SendError(s) \/ EndResponse(s)

FaultStep(s) ==
  StoreStateFails(s) \/ ProviderEnds(s) \/ CallFails(s) \/ MarkFails(s) \/ ExpireState(s)

Accept == \E s \in Streams : AcceptResume(s) \/ AcceptNew(s)

Next ==
  \/ Accept \/ Refuse
  \/ \E s \in Streams : HandlerStep(s) \/ FaultStep(s) \/ NoticeClose(s)
  \/ ResumeSend \/ Read \/ Retry \/ Drop \/ Abort

\* The event loop runs every continuation that is ready, the browser reads what
\* arrives; faults and the user's abort need not happen.
Fairness ==
  /\ \A s \in Streams : WF_vars(HandlerStep(s))
  /\ WF_vars(Accept) /\ WF_vars(ResumeSend) /\ WF_vars(Read) /\ WF_vars(Retry)

Spec == Init /\ [][Next]_vars /\ Fairness

-----------------------------------------------------------------------------
\* Properties.

TypeOK ==
  /\ client \in Client
  /\ conn \in Conn
  /\ handler \in [Streams -> Handler]
  /\ store \in [Streams -> States]
  /\ history \subseteq Streams
  /\ billed \subseteq Streams
  /\ faults \in 0..MaxFaults

\* The first n chunks of stream s.
Chunks(s, n) == [i \in 1..n |-> <<s, i - 1>>]

\* The state in Redis holds all that the handler has stored and nothing else, in
\* order, however often the key expired on the way: addStreamChunk never writes
\* a state from which an earlier chunk is missing.
StoredChunksHaveNoHoles ==
  \A s \in Streams : store[s].there =>
    /\ IsPrefix(store[s].chunks, Chunks(s, handler[s].n))
    /\ handler[s].pc = "read" => store[s].chunks = Chunks(s, handler[s].n)

\* The reader appends a chunk right after the one before it in the same stream,
\* or it is the first chunk of a stream or of a replay.
TextHasNoGaps ==
  \A i \in DOMAIN client.text :
    LET c == client.text[i] IN
    c[2] > 0 => i > 1 /\ client.text[i - 1] = <<c[1], c[2] - 1>>

\* chat/index.ts, "If stream not found, start a new one (client will get full
\* response)": when the reader is told done by startNewStream, what it appended
\* last is all that the provider said up to the finishReason of that stream.
DoneMeansFullAnswer ==
  client.pc = "done" /\ conn.mode = "new" =>
    IsSuffix(Chunks(conn.stream, handler[conn.stream].told), client.text)

\* Every reader ends, whatever the bounded number of faults, with one exception:
\* a response whose storeStreamState failed is never ended.
ReaderSettles ==
  <>(\/ client.pc \in {"done", "failed", "aborted"}
     \/ \E s \in Streams : handler[s].pc = "hung")

\* A handler ends or hangs in a sendSSE on a connection that is gone.
HandlersEndOrHang ==
  \A s \in Streams :
    handler[s].pc = "start" ~>
      \/ handler[s].pc = "over"
      \/ handler[s].waiting /\ ~Attached(s)

\* Reader and handlers settle, each with its one exception.
StreamsSettle == ReaderSettles /\ HandlersEndOrHang

\* chat/index.ts:8, "Reconnect support (Last-Event-ID)": a reader that lost the
\* connection of a stream whose state is in Redis is never answered with a new
\* stream.  It is once it has read a chunk, whose id is not the stream's.
ReconnectResumes ==
  [][\A s \in Streams :
       client.pc = "ask" /\ client.sid = s /\ store[s].there => conn'.mode # "new"]_vars

=============================================================================
