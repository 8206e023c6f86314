---------------------------- MODULE Transcription ----------------------------
(***************************************************************************)
(* Voice input: startTranscription and stopTranscription of the chat pages *)
(* (app/chat/page.tsx), the proxy of app/api/chat/transcribe, the          *)
(* transcription sessions of chat/index.ts and the reconnecting socket of  *)
(* createRealtimeSession (deepgram.ts).                                    *)
(*                                                                         *)
(* Each call of startTranscription asks for the microphone, then for an    *)
(* event stream, for which the proxy creates a session; start and session  *)
(* have the same number.  The page keeps what it must stop in refs, each   *)
(* of which holds one value.                                               *)
(***************************************************************************)
EXTENDS Integers

CONSTANTS
  MaxStarts,      \* bound: calls of startTranscription
  MaxReconnects,  \* wsConfig.reconnectAttempts
  MaxDrops        \* bound: sockets that the network or Deepgram closes

VARIABLES
  start,        \* start |-> how far startTranscription is
  starts,       \* calls so far
  recording,    \* isRecording
  connecting,   \* isConnectingTranscription
  mics,         \* starts whose microphone tracks are live
  micRef,       \* microphoneStreamRef and mediaRecorderRef
  abortRef,     \* transcriptionAbortRef
  sessionRef,   \* transcriptionSessionIdRef
  late,         \* history: starts that were granted the microphone after a stop
  ids,          \* history: session |-> whether the page read its id, or lost it since
  silence,      \* the silence timer is set
  deletes,      \* session |-> DELETE of a stopTranscription
  session,      \* session |-> its place in the backend and its socket to Deepgram
  drops

pageVars == <<start, starts, recording, connecting, mics, micRef, abortRef, sessionRef, late, ids,
              silence, deletes>>
vars == <<pageVars, session, drops>>

Starts == 1..MaxStarts
Refs == 0..MaxStarts
NoSession == [at |-> "none", ws |-> "none", attempts |-> 0, closed |-> FALSE, timer |-> FALSE]

Init ==
  /\ start = [a \in Starts |-> "off"]
  /\ starts = 0
  /\ recording = FALSE /\ connecting = FALSE
  /\ mics = {}
  /\ micRef = 0 /\ abortRef = 0 /\ sessionRef = 0
  /\ late = {} /\ ids = [a \in Starts |-> "unread"]
  /\ silence = FALSE
  /\ deletes = [a \in Starts |-> "none"]
  /\ session = [a \in Starts |-> NoSession]
  /\ drops = 0

-----------------------------------------------------------------------------
\* The page

\* startTranscription up to getUserMedia.
StartTranscription ==
  /\ ~recording /\ ~connecting /\ starts < MaxStarts
  /\ starts' = starts + 1
  /\ start' = [start EXCEPT ![starts + 1] = "asking"]
  /\ connecting' = TRUE
  /\ UNCHANGED <<recording, mics, micRef, abortRef, sessionRef, late, ids, silence, deletes,
                 session, drops>>

\* getUserMedia resolves: the refs are overwritten and the stream is asked for,
\* whether or not the page was stopped meanwhile ("unwanted").
MicrophoneGranted(a) ==
  /\ start[a] \in {"asking", "unwanted"}
  /\ start' = [start EXCEPT ![a] = "fetching"]
  /\ late' = IF start[a] = "unwanted" THEN late \cup {a} ELSE late
  /\ mics' = mics \cup {a}
  /\ micRef' = a /\ abortRef' = a
  /\ recording' = TRUE
  /\ session' = [session EXCEPT ![a].at = "asked"]
  /\ UNCHANGED <<starts, connecting, sessionRef, ids, silence, deletes, drops>>

\* The controller's abort(): the request or its reader rejects later.  A start
\* that asks for the microphone has no controller yet.
Aborts(starting) ==
  [a \in Starts |->
     CASE a = abortRef /\ starting[a] \in {"fetching", "connected", "reading"} -> "aborted"
       [] starting[a] = "asking" -> "unwanted"
       [] OTHER -> starting[a]]

\* Mutant of Stop: the tracks of the microphone are left running.
StopKeepsTracks(starting, tracks) ==
  /\ recording' = FALSE /\ connecting' = FALSE /\ silence' = FALSE
  /\ mics' = tracks
  /\ micRef' = 0 /\ abortRef' = 0
  /\ start' = Aborts(starting)
  /\ deletes' = IF sessionRef = 0 THEN deletes ELSE [deletes EXCEPT ![sessionRef] = "sent"]
  /\ UNCHANGED <<starts, sessionRef, late, ids>>

\* stopTranscription up to the DELETE.
Stop(starting, tracks) ==
  /\ recording' = FALSE /\ connecting' = FALSE /\ silence' = FALSE
  /\ mics' = tracks \ {micRef}
  /\ micRef' = 0 /\ abortRef' = 0
  /\ start' = Aborts(starting)
  /\ deletes' = IF sessionRef = 0 THEN deletes ELSE [deletes EXCEPT ![sessionRef] = "sent"]
  /\ UNCHANGED <<starts, sessionRef, late, ids>>

\* toggleTranscription, a new chat, a history session, an unmounted page.
StopByUser == starts > 0 /\ Stop(start, mics) /\ UNCHANGED <<session, drops>>
SilenceTimeOut == silence /\ Stop(start, mics) /\ UNCHANGED <<session, drops>>

\* The catch of startTranscription stops whatever the refs hold by then.
Fails(a) ==
  /\ start[a] \in {"asking", "unwanted", "fetching", "aborted"}
  /\ Stop([start EXCEPT ![a] = "ended"], mics)
  /\ UNCHANGED <<session, drops>>

\* MediaRecorder does not support the format: no ref holds the microphone yet.
NoRecorder(a) ==
  /\ start[a] \in {"asking", "unwanted"}
  /\ Stop([start EXCEPT ![a] = "mute"], mics \cup {a})
  /\ UNCHANGED <<session, drops>>

\* The proxy answers the GET, then "ready" is read: the proxy's and the buffered one.
Connected(a) ==
  /\ start[a] = "fetching" /\ session[a].at = "open"
  /\ start' = [start EXCEPT ![a] = "connected"]
  /\ connecting' = FALSE
  /\ UNCHANGED <<starts, recording, mics, micRef, abortRef, sessionRef, late, ids, silence, deletes,
                 session, drops>>

\* The ref gives up the id it holds, unless that session's DELETE is on its way.
Forgets == IF sessionRef # 0 /\ deletes[sessionRef] # "sent"
           THEN [ids EXCEPT ![sessionRef] = "lost"] ELSE ids

ReadReady(a) ==
  /\ start[a] = "connected"
  /\ start' = [start EXCEPT ![a] = "reading"]
  /\ sessionRef' = a /\ ids' = [Forgets EXCEPT ![a] = "read"]
  /\ UNCHANGED <<starts, recording, connecting, mics, micRef, abortRef, late, silence, deletes,
                 session, drops>>

ReadTranscription(a) ==
  /\ start[a] = "reading" /\ session[a].ws = "open"
  /\ silence' = TRUE
  /\ UNCHANGED <<start, starts, recording, connecting, mics, micRef, abortRef, sessionRef, late,
                 ids, deletes, session, drops>>

\* "close" or "transcription-error", which Deepgram, its socket, the session or
\* the proxy may send at any time, or the end of the stream.
ReadClose(a) ==
  /\ start[a] \in {"connected", "reading"}
  /\ Stop([start EXCEPT ![a] = "ended"], mics)
  /\ UNCHANGED <<session, drops>>

\* stopTranscription after the DELETE, answered or rejected.
Deleted(a) ==
  /\ deletes[a] = "answered"
  /\ deletes' = [deletes EXCEPT ![a] = "none"]
  /\ sessionRef' = 0 /\ ids' = IF sessionRef = a THEN ids ELSE Forgets
  /\ UNCHANGED <<start, starts, recording, connecting, mics, micRef, abortRef, late, silence,
                 session, drops>>

-----------------------------------------------------------------------------
\* The backend and its sockets to Deepgram

\* POST /chat/transcribe/session; the proxy asks for it whether or not the
\* browser still waits.
CreateSession(a) ==
  /\ session[a].at = "asked"
  /\ \/ session' = [session EXCEPT ![a] = [@ EXCEPT !.at = "open", !.ws = "connecting"]]
     \/ session' = [session EXCEPT ![a].at = "failed"]
  /\ UNCHANGED <<pageVars, drops>>

SocketOpens(a) ==
  /\ session[a].ws = "connecting"
  /\ session' = [session EXCEPT ![a] = [@ EXCEPT !.ws = "open", !.attempts = 0]]
  /\ UNCHANGED <<pageVars, drops>>

\* onclose: reconnect after a delay, or onClose, which removes the session.
OnClose(a) ==
  LET s == session[a] IN
  session' = [session EXCEPT ![a] =
    IF s.attempts < MaxReconnects
    THEN [s EXCEPT !.ws = "waiting", !.attempts = s.attempts + 1]
    ELSE [s EXCEPT !.ws = "closed", !.at = "closed"]]

\* The network, Deepgram or the pong timer closes the socket.
SocketDrops(a) ==
  /\ session[a].ws \in {"connecting", "open"} /\ drops < MaxDrops
  /\ OnClose(a)
  /\ drops' = drops + 1
  /\ UNCHANGED pageVars

SocketClosed(a) ==
  /\ session[a].ws = "closing"
  /\ OnClose(a)
  /\ UNCHANGED <<pageVars, drops>>

Reconnect(a) ==
  /\ session[a].ws = "waiting"
  /\ session' = [session EXCEPT ![a].ws = "connecting"]
  /\ UNCHANGED <<pageVars, drops>>

\* close() of the session. A reconnect whose timer runs is not cancelled.
CloseSocket(s) ==
  [s EXCEPT !.closed = TRUE, !.timer = s.ws = "waiting", !.attempts = MaxReconnects,
            !.ws = IF s.ws \in {"connecting", "open"} THEN "closing" ELSE s.ws]

\* DELETE /chat/transcribe/:sessionId.
Delete(a) ==
  /\ deletes[a] = "sent"
  /\ deletes' = [deletes EXCEPT ![a] = "answered"]
  /\ session' = IF session[a].at = "open"
                THEN [session EXCEPT ![a] = [CloseSocket(session[a]) EXCEPT !.at = "closed"]]
                ELSE session
  /\ UNCHANGED <<start, starts, recording, connecting, mics, micRef, abortRef, sessionRef, late,
                 ids, silence, drops>>

\* The DELETE does not get there, or is refused: the page only logs it.
DeleteFails(a) ==
  /\ deletes[a] = "sent"
  /\ deletes' = [deletes EXCEPT ![a] = "answered"]
  /\ ids' = [ids EXCEPT ![a] = "lost"]
  /\ UNCHANGED <<start, starts, recording, connecting, mics, micRef, abortRef, sessionRef, late,
                 silence, session, drops>>

Next ==
  \/ StartTranscription \/ StopByUser \/ SilenceTimeOut
  \/ \E a \in Starts :
       \/ MicrophoneGranted(a) \/ Fails(a) \/ NoRecorder(a) \/ Connected(a) \/ ReadReady(a)
       \/ ReadTranscription(a) \/ ReadClose(a) \/ Deleted(a) \/ DeleteFails(a)
       \/ CreateSession(a) \/ SocketOpens(a) \/ SocketDrops(a) \/ SocketClosed(a)
       \/ Reconnect(a) \/ Delete(a)

Spec == Init /\ [][Next]_vars

-----------------------------------------------------------------------------
\* Every variable has its type.
TypeOK ==
  /\ start \in [Starts -> {"off", "asking", "unwanted", "fetching", "connected", "reading",
                           "aborted", "ended", "mute"}]
  /\ starts \in Refs
  /\ recording \in BOOLEAN /\ connecting \in BOOLEAN /\ silence \in BOOLEAN
  /\ mics \subseteq Starts /\ late \subseteq Starts
  /\ ids \in [Starts -> {"unread", "read", "lost"}]
  /\ micRef \in Refs /\ abortRef \in Refs /\ sessionRef \in Refs
  /\ deletes \in [Starts -> {"none", "sent", "answered"}]
  /\ session \in [Starts -> [at : {"none", "asked", "open", "closed", "failed"},
                             ws : {"none", "connecting", "open", "closing", "waiting", "closed"},
                             attempts : 0..MaxReconnects, closed : BOOLEAN, timer : BOOLEAN]]
  /\ drops \in 0..MaxDrops

\* A start that reads its stream or holds the microphone through its recorder.
Running(a) == \/ start[a] \in {"fetching", "connected", "reading"}
              \/ a \in mics /\ start[a] # "mute"

\* Why something goes on that no ref of the page holds, or whose start is over.
\* A microphone with its recorder or a stream: a start no later than its own
\* was stopped while it asked for the microphone and was granted it all the
\* same (page.tsx:725).  A session: "ready" was not read before the stop, or the
\* page lost the id, overwritten by another "ready", wiped by the answer of an
\* earlier DELETE (page.tsx:704), or with a DELETE that failed; otherwise its
\* DELETE is on its way.  A socket to Deepgram of a closed session: its
\* reconnect was already timed (deepgram.ts:534).
LeftoversHaveReason ==
  \A a \in Starts :
    /\ Running(a) /\ a # micRef => \E b \in late : b <= a
    /\ session[a].at = "open" /\ start[a] \in {"aborted", "ended"} /\ ids[a] = "read" =>
         deletes[a] = "sent"
    /\ session[a].closed /\ session[a].ws \in {"connecting", "open"} => session[a].timer

=============================================================================
