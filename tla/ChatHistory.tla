------------------------------ MODULE ChatHistory ------------------------------
(***************************************************************************)
(* The history of the chats of one user: the rows of app.chat_history that *)
(* the WebSocket and the SSE route of chat insert at the end of a turn     *)
(* (chat/websocket.ts, chat/index.ts), the sessions that GET /chat/history *)
(* makes of them, and the page that asks the questions.                    *)
(*                                                                         *)
(* A row holds the messages of the request and its answer, so that the     *)
(* newest row of a session is shown for all of it.  Turn n is the n-th     *)
(* request of a page; the texts of an answer are modules ChatPage's and    *)
(* ChatStream's.                                                           *)
(***************************************************************************)
EXTENDS Integers, SequencesExt, FiniteSetsExt

CONSTANTS
  MaxTurns,     \* bound: requests
  MaxTicks      \* bound: milliseconds that pass

VARIABLES
  chat,         \* the page
  turn,
  rows,         \* app.chat_history, oldest first
  clock         \* created_at, to the millisecond that a Date keeps

vars == <<chat, turn, rows, clock>>

Turns == 1..MaxTurns
NoTurn == [pc |-> "off", via |-> "ws", line |-> "none", session |-> 0, payload |-> <<>>,
           asked |-> 0, over |-> {}, coming |-> {}, repeats |-> 0, told |-> FALSE]

\* chatSessionIdRef is 0 for null; a new id is the number of its first turn.
Init ==
  /\ chat = [session |-> 0, messages |-> <<>>, view |-> "live", streaming |-> FALSE,
             failed |-> FALSE, controller |-> 0]
  /\ turn = [n \in Turns |-> NoTurn]
  /\ rows = <<>> /\ clock = 0

\* `over` are the requests that the server has not ended when a turn is sent,
\* `coming` those of which the page's question has no answer yet; `repeats` is the
\* turn that asked the question first.
Pending == {m \in Turns : turn[m].pc \in {"streaming", "saving"}}
Streaming == {m \in Turns : turn[m].pc = "streaming"}
Free(n) == turn[n].pc = "off" /\ \A m \in Turns : m < n => turn[m].pc # "off"

Request(via, session, payload, coming, repeats) ==
  [pc |-> "streaming", via |-> via, line |-> "open", session |-> session, payload |-> payload,
   asked |-> clock, over |-> Pending, coming |-> coming, repeats |-> repeats, told |-> FALSE]

-----------------------------------------------------------------------------
\* The page and useChatStream

\* abort: the socket begins to close, the fetch is cut.
HungUp ==
  [m \in Turns |-> [turn[m] EXCEPT !.line = IF @ = "open" /\ turn[m].via = "ws" THEN "closing"
                                            ELSE IF @ = "open" /\ m = chat.controller THEN "cut"
                                            ELSE @]]

Start(n, payload) ==
  LET session == IF chat.session = 0 THEN n ELSE chat.session IN
  /\ Free(n) /\ ~chat.streaming
  /\ turn' = [HungUp EXCEPT ![n] = Request("ws", session, payload, Streaming, 0)]
  /\ UNCHANGED <<rows, clock>>

\* startChat: one id for all turns of a conversation.
Ask(n) ==
  LET payload == Append(chat.messages, <<"user", n>>) IN
  /\ chat.view = "live"
  /\ Start(n, payload)
  /\ chat' = [chat EXCEPT !.session = IF @ = 0 THEN n ELSE @, !.messages = payload,
                          !.streaming = TRUE, !.failed = FALSE, !.controller = 0]

\* retryInlineStream: the question again, without the draft of its answer.
Retry(n) ==
  /\ chat.failed
  /\ Start(n, chat.messages)
  /\ chat' = [chat EXCEPT !.streaming = TRUE, !.failed = FALSE, !.controller = 0]

Abort(page) ==
  /\ turn' = HungUp
  /\ chat' = [page EXCEPT !.streaming = FALSE, !.controller = 0]
  /\ UNCHANGED <<rows, clock>>

AbortButton == chat.streaming /\ Abort(chat)

NewChat ==
  /\ chat.messages # <<>>
  /\ Abort([chat EXCEPT !.session = 0, !.messages = <<>>, !.view = "live", !.failed = FALSE])

\* The end of `start` after its fetch was cut, whatever runs by then.
Unwind(m) ==
  /\ turn[m].line = "cut"
  /\ turn' = [turn EXCEPT ![m].line = "gone"]
  /\ chat' = [chat EXCEPT !.streaming = FALSE, !.controller = 0]
  /\ UNCHANGED <<rows, clock>>

\* The socket closes, an abort's too, and the request is sent again over SSE; or
\* the response breaks off and the reconnect is given a new stream.
SendAgain(m, n) ==
  /\ Free(n)
  /\ \/ turn[m].line = "open"
     \/ turn[m].via = "ws" /\ turn[m].line = "closing"
  /\ turn' = [turn EXCEPT ![m] = [@ EXCEPT !.line = "gone"],
                          ![n] = Request("sse", turn[m].session, turn[m].payload, turn[m].coming,
                                         IF turn[m].repeats = 0 THEN m ELSE turn[m].repeats)]
  /\ chat' = [chat EXCEPT !.controller = n]
  /\ UNCHANGED <<rows, clock>>

-----------------------------------------------------------------------------
\* The server

\* The answer ends; its done reaches a page that still listens.
Finish(n) ==
  /\ turn[n].pc = "streaming"
  /\ \/ /\ turn[n].line = "open"
        /\ turn' = [turn EXCEPT ![n] = [@ EXCEPT !.pc = "saving", !.line = "gone", !.told = TRUE]]
        /\ chat' = [chat EXCEPT !.messages = Append(@, <<"answer", n>>), !.streaming = FALSE,
                                !.failed = FALSE, !.controller = 0]
     \/ /\ turn' = [turn EXCEPT ![n].pc = "saving"]
        /\ UNCHANGED chat
  /\ UNCHANGED <<rows, clock>>

\* The provider fails, or an SSE response breaks off for good and its handler
\* goes on.
Fails(n) ==
  /\ turn[n].line = "open" /\ turn[n].via = "sse"
  /\ \E pc \in {turn[n].pc, "ended"} :
       /\ turn[n].pc = "streaming" \/ pc = turn[n].pc
       /\ turn' = [turn EXCEPT ![n] = [@ EXCEPT !.pc = pc, !.line = "gone"]]
  /\ chat' = [chat EXCEPT !.streaming = FALSE, !.failed = TRUE, !.controller = 0]
  /\ UNCHANGED <<rows, clock>>

\* The loop of a WebSocket breaks when its socket is not open, or the provider
\* fails; SSE does not look at its response.
Break(n) ==
  /\ turn[n].pc = "streaming" /\ turn[n].via = "ws"
  /\ turn' = [turn EXCEPT ![n].pc = "ended"]
  /\ UNCHANGED <<chat, rows, clock>>

\* insertChatHistory, at least a millisecond after the request.
Insert(n) ==
  /\ turn[n].pc = "saving" /\ clock > turn[n].asked
  /\ turn' = [turn EXCEPT ![n].pc = "saved"]
  /\ rows' = Append(rows, [stream |-> turn[n].session, turn |-> n, ms |-> clock,
                           messages |-> Append(turn[n].payload, <<"answer", n>>)])
  /\ UNCHANGED <<chat, clock>>

InsertFails(n) ==
  /\ turn[n].pc = "saving"
  /\ turn' = [turn EXCEPT ![n].pc = "ended"]
  /\ UNCHANGED <<chat, rows, clock>>

Tick == clock < MaxTicks /\ clock' = clock + 1 /\ UNCHANGED <<chat, turn, rows>>

-----------------------------------------------------------------------------
\* groupChatHistorySessions

Streams == {rows[i].stream : i \in DOMAIN rows}

\* Mutant of Shown: the row that began the session is shown.
ShownFirst(s) == Min({i \in DOMAIN rows : rows[i].stream = s})

\* Of the rows of a session, newest first, each one that is no older than the
\* one before replaces it: within one millisecond the oldest is shown.
Shown(s) ==
  LET of == {i \in DOMAIN rows : rows[i].stream = s} IN
  Min({i \in of : \A j \in of : rows[j].ms <= rows[i].ms})

\* loadHistorySession of a session of the list.
LoadHistory(s) ==
  Abort([chat EXCEPT !.session = 0, !.messages = rows[Shown(s)].messages, !.view = "history",
                     !.failed = FALSE])

Next ==
  \/ \E n \in Turns : \/ Ask(n) \/ Retry(n) \/ Finish(n) \/ Fails(n) \/ Break(n) \/ Insert(n)
                      \/ InsertFails(n) \/ Unwind(n) \/ \E m \in Turns : SendAgain(m, n)
  \/ AbortButton \/ NewChat \/ Tick \/ \E s \in Streams : LoadHistory(s)

Spec == Init /\ [][Next]_vars

-----------------------------------------------------------------------------
Messages == Seq({"user", "answer"} \X Turns)

\* Every variable has its type.
TypeOK ==
  /\ chat \in [session : 0..MaxTurns, messages : Messages, view : {"live", "history"},
               streaming : BOOLEAN, failed : BOOLEAN, controller : 0..MaxTurns]
  /\ turn \in [Turns -> [pc : {"off", "streaming", "saving", "saved", "ended"}, via : {"ws", "sse"},
                         line : {"none", "open", "closing", "cut", "gone"}, session : 0..MaxTurns,
                         payload : Messages, asked : 0..MaxTicks, over : SUBSET Turns,
                         coming : SUBSET Turns, repeats : 0..MaxTurns, told : BOOLEAN]]
  /\ rows \in Seq([stream : Turns, turn : Turns, ms : 0..MaxTicks, messages : Messages])
  /\ clock \in 0..MaxTicks

\* What the history shows of a session has every answer that was saved for it
\* and that the page had, except where the row that is shown is of a request
\* that was still running when the answer's was sent, or of a question that was
\* asked while the answer was coming, or that repeats, after its connection
\* closed, a question of before.
HistoryKeepsAnswers ==
  \A s \in Streams : \A m \in Turns :
    LET row == rows[Shown(s)] IN
    turn[m].pc = "saved" /\ turn[m].session = s /\ turn[m].told =>
      \/ <<"answer", m>> \in Range(row.messages)
      \/ row.turn \in turn[m].over
      \/ m \in turn[row.turn].coming
      \/ turn[row.turn].repeats \in 1..m

=============================================================================
