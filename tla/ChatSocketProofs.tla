-------------------------- MODULE ChatSocketProofs --------------------------
(***************************************************************************)
(* Proofs about ChatSocket, as MCChatRequests instantiates it: its type    *)
(* invariant, and that every stream ends with its usage recorded and is    *)
(* saved only as what its client was told.                                 *)
(*                                                                         *)
(* The flags are of no help: several handlers share them, and any of them  *)
(* may reset them.  What a handler may do next follows from where it is    *)
(* and from what its own client was sent, which Progress says for each     *)
(* program counter.                                                        *)
(***************************************************************************)
EXTENDS MCChatRequests, TLAPS

\* Before its stream a handler has started none; until it leaves the loop its
\* client was told of no abort, and it has saved nothing; it goes to the history
\* only after a done.
Progress(s) ==
  /\ handler[s].pc \in {"off", "allow"} => ~handler[s].started
  /\ handler[s].pc \in {"off", "allow", "next"} => s \notin saved /\ ~Socket!Has(s, "abort")
  /\ handler[s].pc = "history" => Socket!Has(s, "done") /\ ~Socket!Has(s, "abort")

Inv == Socket!TypeOK /\ Socket!EndsAreRecorded /\ \A s \in Starts : Progress(s)

-----------------------------------------------------------------------------
\* The initial states have the invariant.
LEMMA InitInv == Socket!Init => Inv
<1>. SUFFICES ASSUME Socket!Init PROVE Inv
  OBVIOUS
<1>1. Socket!Off \in Socket!Handler
  BY DEF Socket!Off, Socket!Handler
<1>2. Socket!TypeOK
  <2>1. <<>> \in Seq(Socket!Payloads)
    OBVIOUS
  <2>. QED  BY <1>1, <2>1 DEF Socket!Init, Socket!TypeOK
<1>3. ASSUME NEW s \in Starts PROVE handler[s] = Socket!Off /\ ~Socket!Has(s, "abort")
  BY DEF Socket!Init, Socket!Has
<1>4. Socket!EndsAreRecorded
  BY <1>3 DEF Socket!Init, Socket!EndsAreRecorded, Socket!StreamsAreBilled,
    Socket!SavedMeansDone, Socket!Off
<1>. QED  BY <1>2, <1>3, <1>4 DEF Socket!Init, Inv, Progress, Socket!Off

\* A sequence to which another is appended has the elements of both.
LEMMA ConcatElements ==
  ASSUME NEW u \in Seq(Socket!Payloads), NEW v \in Seq(Socket!Payloads)
  PROVE  /\ \A i \in DOMAIN (u \o v) : \/ \E j \in DOMAIN u : u[j] = (u \o v)[i]
                                       \/ \E j \in DOMAIN v : v[j] = (u \o v)[i]
         /\ \A j \in DOMAIN u : \E i \in DOMAIN (u \o v) : (u \o v)[i] = u[j]
         /\ \A j \in DOMAIN v : \E i \in DOMAIN (u \o v) : (u \o v)[i] = v[j]
<1>1. /\ Len(u \o v) = Len(u) + Len(v) /\ Len(u) \in Nat /\ Len(v) \in Nat
      /\ DOMAIN u = 1..Len(u) /\ DOMAIN v = 1..Len(v) /\ DOMAIN (u \o v) = 1..Len(u \o v)
      /\ \A i \in 1..Len(u) : (u \o v)[i] = u[i]
      /\ \A i \in 1..Len(v) : (u \o v)[Len(u) + i] = v[i]
  OBVIOUS
<1>2. ASSUME NEW i \in DOMAIN (u \o v), i > Len(u)
      PROVE  \E j \in DOMAIN v : v[j] = (u \o v)[i]
  <2>1. i - Len(u) \in 1..Len(v) /\ Len(u) + (i - Len(u)) = i
    BY <1>1, <1>2
  <2>. QED  BY <1>1, <2>1
<1>3. ASSUME NEW j \in DOMAIN v PROVE \E i \in DOMAIN (u \o v) : (u \o v)[i] = v[j]
  <2>1. Len(u) + j \in DOMAIN (u \o v)
    BY <1>1
  <2>. QED  BY <1>1, <2>1
<1>. QED  BY <1>1, <1>2, <1>3

\* What a client has been sent after send().
LEMMA SendHas ==
  ASSUME Socket!TypeOK, NEW s \in Starts, NEW payloads \in Seq(Socket!Payloads),
         Socket!Send(s, payloads)
  PROVE  /\ sent' \in [Starts -> Seq(Socket!Payloads)]
         /\ \A r \in Starts \ {s}, x \in Socket!Payloads : Socket!Has(r, x)' <=> Socket!Has(r,
           x)
         /\ \A x \in Socket!Payloads : Socket!Has(s, x) => Socket!Has(s, x)'
         /\ \A x \in Socket!Payloads :
              Socket!Has(s, x)' => Socket!Has(s,
                x) \/ \E i \in DOMAIN payloads : payloads[i] = x
         /\ open => \A i \in DOMAIN payloads : Socket!Has(s, payloads[i])'
<1>1. /\ sent' \in [Starts -> Seq(Socket!Payloads)] /\ sent[s] \in Seq(Socket!Payloads)
      /\ \A r \in Starts \ {s} : sent'[r] = sent[r]
      /\ sent'[s] = sent[s] \/ sent'[s] = sent[s] \o payloads
      /\ open => sent'[s] = sent[s] \o payloads
  BY DEF Socket!TypeOK, Socket!Send
<1>. DEFINE u == sent[s]
            w == u \o payloads
<1>2. /\ \A i \in DOMAIN w : \/ \E j \in DOMAIN u : u[j] = w[i]
                             \/ \E j \in DOMAIN payloads : payloads[j] = w[i]
      /\ \A j \in DOMAIN u : \E i \in DOMAIN w : w[i] = u[j]
      /\ \A j \in DOMAIN payloads : \E i \in DOMAIN w : w[i] = payloads[j]
  BY <1>1, ConcatElements
<1>3. sent'[s] = u \/ sent'[s] = w
  BY <1>1
<1>4. open => sent'[s] = w
  BY <1>1
<1>5. u = sent[s]
  OBVIOUS
<1>. HIDE DEF u, w
<1>6. ASSUME NEW x, Socket!Has(s, x) PROVE Socket!Has(s, x)'
  BY <1>2, <1>3, <1>5, <1>6 DEF Socket!Has
<1>7. ASSUME NEW x, Socket!Has(s, x)'
      PROVE  Socket!Has(s, x) \/ \E i \in DOMAIN payloads : payloads[i] = x
  BY <1>2, <1>3, <1>5, <1>7 DEF Socket!Has
<1>8. ASSUME open, NEW i \in DOMAIN payloads PROVE Socket!Has(s, payloads[i])'
  BY <1>2, <1>4, <1>8 DEF Socket!Has
<1>9. \A r \in Starts \ {s}, x \in Socket!Payloads : Socket!Has(r, x)' <=> Socket!Has(r, x)
  BY <1>1 DEF Socket!Has
<1>. QED  BY <1>1, <1>6, <1>7, <1>8, <1>9

\* Another payload than an abort tells nobody of an abort.
LEMMA NoAbortSent ==
  ASSUME Socket!TypeOK, NEW s \in Starts, NEW x \in Socket!Payloads \ {"abort"},
         Socket!Send(s, <<x>>),
         ~Socket!Has(s, "abort")
  PROVE  ~Socket!Has(s, "abort")'
<1>. DEFINE p == <<x>>
<1>1. p \in Seq(Socket!Payloads) /\ DOMAIN p = {1} /\ p[1] = x /\ Socket!Send(s, p)
  OBVIOUS
<1>. HIDE DEF p
<1>. QED  BY <1>1, SendHas DEF Socket!Payloads

-----------------------------------------------------------------------------
\* A step of the handler of s that sends payloads and leaves the tables alone
\* keeps the invariant if what it says of s holds afterwards: no other handler
\* and no other client notices.
LEMMA HandlerMoves ==
  ASSUME Inv, NEW s \in Starts, NEW payloads \in Seq(Socket!Payloads), Socket!Send(s, payloads),
         NEW h \in Socket!Handler, handler' = [handler EXCEPT ![s] = h],
         up' \in BOOLEAN, open' \in BOOLEAN, isStreaming' \in BOOLEAN, isAborted' \in BOOLEAN,
         UNCHANGED Socket!tables,
         Progress(s)',
         h.started /\ h.pc = "over" /\ ~h.failed => s \in billed,
         s \in saved => ~Socket!Has(s, "abort")'
  PROVE  Inv'
<1>1. /\ sent' \in [Starts -> Seq(Socket!Payloads)]
      /\ \A r \in Starts \ {s}, x \in Socket!Payloads : Socket!Has(r, x)' <=> Socket!Has(r, x)
      /\ \A x \in Socket!Payloads : Socket!Has(s, x) => Socket!Has(s, x)'
  BY SendHas DEF Inv
<1>2. /\ handler' \in [Starts -> Socket!Handler] /\ handler'[s] = h
      /\ \A r \in Starts \ {s} : handler'[r] = handler[r]
  BY DEF Inv, Socket!TypeOK
<1>3. saved' = saved /\ billed' = billed
  BY DEF Socket!tables
<1>4. Socket!TypeOK'
  BY <1>1, <1>2, <1>3 DEF Inv, Socket!TypeOK
<1>5. \A r \in Starts \ {s} : Progress(r)'
  BY <1>1, <1>2, <1>3 DEF Inv, Progress, Socket!Payloads
<1>6. Socket!StreamsAreBilled'
  BY <1>2, <1>3 DEF Inv, Socket!EndsAreRecorded, Socket!StreamsAreBilled
<1>7. Socket!SavedMeansDone'
  BY <1>1, <1>3 DEF Inv, Socket!TypeOK, Socket!EndsAreRecorded, Socket!SavedMeansDone,
    Socket!Payloads
<1>. QED  BY <1>4, <1>5, <1>6, <1>7 DEF Inv, Socket!EndsAreRecorded

\* A step that changes neither handlers nor what clients were sent nor the tables.
LEMMA NobodyMoves ==
  ASSUME Inv, UNCHANGED <<handler, sent, Socket!tables>>,
         up' \in BOOLEAN, open' \in BOOLEAN, isStreaming' \in BOOLEAN, isAborted' \in BOOLEAN
  PROVE  Inv'
  BY DEF Inv, Socket!TypeOK, Socket!EndsAreRecorded, Socket!StreamsAreBilled,
    Socket!SavedMeansDone, Progress, Socket!Has, Socket!tables

\* A start message: refused at once, or a handler that asks checkAllowance.
LEMMA StartStep == ASSUME Inv, NEW s \in Starts, Socket!Start(s) PROVE Inv'
<1>1. /\ handler[s] \in Socket!Handler /\ handler[s].pc = "off" /\ ~handler[s].started
      /\ s \notin saved /\ ~Socket!Has(s, "abort")
      /\ up' \in BOOLEAN /\ open' \in BOOLEAN /\ isStreaming' \in BOOLEAN /\ isAborted' \in BOOLEAN
      /\ UNCHANGED Socket!tables
  BY DEF Inv, Socket!TypeOK, Progress, Socket!Start, Socket!At, Socket!flags
<1>2. CASE Socket!Send(s, <<"error">>) /\ handler' = [handler EXCEPT ![s].pc = "over"]
  <2>. DEFINE h == [handler[s] EXCEPT !.pc = "over"]
  <2>1. h \in Socket!Handler /\ handler' = [handler EXCEPT ![s] = h] /\ h.pc = "over" /\ ~h.started
    BY <1>1, <1>2 DEF Socket!Handler
  <2>2. <<"error">> \in Seq(Socket!Payloads)
    BY DEF Socket!Payloads
  <2>3. Progress(s)'
    BY <2>1 DEF Progress, Inv, Socket!TypeOK
  <2>. HIDE DEF h
  <2>. QED  BY <1>1, <1>2, <2>1, <2>2, <2>3, HandlerMoves
<1>3. CASE handler' = [handler EXCEPT ![s].pc = "allow"] /\ UNCHANGED sent
  <2>. DEFINE h == [handler[s] EXCEPT !.pc = "allow"]
  <2>1. h \in Socket!Handler /\ handler' = [handler EXCEPT ![s] = h] /\ h.pc = "allow" /\ ~h.started
    BY <1>1, <1>3 DEF Socket!Handler
  <2>2. <<>> \in Seq(Socket!Payloads) /\ Socket!Send(s, <<>>)
    BY <1>3 DEF Socket!Send, Inv, Socket!TypeOK
  <2>3. ~Socket!Has(s, "abort")'
    BY <1>1, <1>3 DEF Socket!Has
  <2>4. Progress(s)'
    BY <1>1, <2>1, <2>3 DEF Progress, Inv, Socket!TypeOK, Socket!tables
  <2>. HIDE DEF h
  <2>. QED  BY <1>1, <2>1, <2>2, <2>4, HandlerMoves
<1>. QED  BY <1>2, <1>3 DEF Socket!Start

\* Not allowed.
LEMMA RefuseStep == ASSUME Inv, NEW s \in Starts, Socket!Refuse(s) PROVE Inv'
<1>1. /\ handler[s] \in Socket!Handler /\ ~handler[s].started /\ s \notin saved
      /\ up' \in BOOLEAN /\ open' \in BOOLEAN /\ isStreaming' \in BOOLEAN /\ isAborted' \in BOOLEAN
      /\ UNCHANGED Socket!tables
  BY DEF Inv, Socket!TypeOK, Progress, Socket!Refuse, Socket!At, Socket!flags
<1>. DEFINE h == [handler[s] EXCEPT !.pc = "over"]
<1>2. h \in Socket!Handler /\ handler' = [handler EXCEPT ![s] = h] /\ h.pc = "over" /\ ~h.started
  BY <1>1 DEF Socket!Refuse, Socket!Handler
<1>3. <<"error">> \in Seq(Socket!Payloads) /\ Socket!Send(s, <<"error">>)
  BY DEF Socket!Payloads, Socket!Refuse
<1>4. Progress(s)'
  BY <1>2 DEF Progress, Inv, Socket!TypeOK
<1>. HIDE DEF h
<1>. QED  BY <1>1, <1>2, <1>3, <1>4, HandlerMoves

\* Allowed: the client is sent a start.
LEMMA AllowStep == ASSUME Inv, NEW s \in Starts, Socket!Allow(s) PROVE Inv'
<1>1. /\ handler[s] \in Socket!Handler /\ s \notin saved /\ ~Socket!Has(s, "abort")
      /\ up' \in BOOLEAN /\ open' \in BOOLEAN /\ isStreaming' \in BOOLEAN /\ isAborted' \in BOOLEAN
      /\ UNCHANGED Socket!tables
  BY DEF Inv, Socket!TypeOK, Progress, Socket!Allow, Socket!At
<1>. DEFINE h == [handler[s] EXCEPT !.pc = "next", !.started = TRUE]
<1>2. h \in Socket!Handler /\ handler' = [handler EXCEPT ![s] = h] /\ h.pc = "next"
  BY <1>1 DEF Socket!Allow, Socket!Handler, Socket!Streaming
<1>3. <<"start">> \in Seq(Socket!Payloads) /\ Socket!Send(s, <<"start">>)
  BY DEF Socket!Payloads, Socket!Allow
<1>4. ~Socket!Has(s, "abort")'
  BY <1>1, <1>3, NoAbortSent DEF Inv, Socket!Payloads
<1>5. Progress(s)'
  BY <1>1, <1>2, <1>4 DEF Progress, Inv, Socket!TypeOK, Socket!tables
<1>. HIDE DEF h
<1>. QED  BY <1>1, <1>2, <1>3, <1>5, HandlerMoves

\* A chunk with content.
LEMMA NextContentStep == ASSUME Inv, NEW s \in Starts, Socket!NextContent(s) PROVE Inv'
<1>1. /\ handler[s] \in Socket!Handler /\ s \notin saved /\ ~Socket!Has(s, "abort")
      /\ handler[s].pc = "next" /\ handler[s].n < MaxChunks
      /\ up' \in BOOLEAN /\ open' \in BOOLEAN /\ isStreaming' \in BOOLEAN /\ isAborted' \in BOOLEAN
      /\ UNCHANGED Socket!tables
  BY DEF Inv, Socket!TypeOK, Progress, Socket!NextContent, Socket!At, Socket!flags
<1>. DEFINE h == [handler[s] EXCEPT !.n = @ + 1]
<1>2. h \in Socket!Handler /\ handler' = [handler EXCEPT ![s] = h] /\ h.pc = "next"
  BY <1>1 DEF Socket!NextContent, Socket!Handler, Socket!Streaming
<1>3. <<"chunk">> \in Seq(Socket!Payloads) /\ Socket!Send(s, <<"chunk">>)
  BY DEF Socket!Payloads, Socket!NextContent
<1>4. ~Socket!Has(s, "abort")'
  BY <1>1, <1>3, NoAbortSent DEF Inv, Socket!Payloads
<1>5. Progress(s)'
  BY <1>1, <1>2, <1>4 DEF Progress, Inv, Socket!TypeOK, Socket!tables
<1>. HIDE DEF h
<1>. QED  BY <1>1, <1>2, <1>3, <1>5, HandlerMoves

\* The loop is left: to the history only when the answer is finished, its done is
\* among the payloads, the socket is open and nobody aborted.
LEMMA AfterLoopStep ==
  ASSUME Inv, NEW s \in Starts, Socket!At(s, "next"),
         NEW payloads \in Seq(Socket!Payloads), NEW n \in Nat, NEW finished \in BOOLEAN,
         Socket!AfterLoop(s, payloads, n, finished),
         \A i \in DOMAIN payloads : payloads[i] # "abort",
         finished => open /\ ~isAborted /\ \E i \in DOMAIN payloads : payloads[i] = "done"
  PROVE  Inv'
<1>1. /\ handler[s] \in Socket!Handler /\ s \notin saved /\ ~Socket!Has(s, "abort")
      /\ up' \in BOOLEAN /\ open' \in BOOLEAN /\ isStreaming' \in BOOLEAN /\ isAborted' \in BOOLEAN
      /\ UNCHANGED Socket!tables
  BY DEF Inv, Socket!TypeOK, Progress, Socket!AfterLoop, Socket!At, Socket!flags
<1>. DEFINE h == [handler[s] EXCEPT !.n = n, !.finished = finished,
                                    !.pc = IF finished /\ n > 0 THEN "history" ELSE "usage"]
            all == IF isAborted THEN Append(payloads, "abort") ELSE payloads
<1>2. /\ h \in Socket!Handler /\ handler' = [handler EXCEPT ![s] = h]
      /\ h.pc # "over" /\ h.pc \in {"history", "usage"} /\ (h.pc = "history" => finished)
  BY <1>1 DEF Socket!AfterLoop, Socket!Handler, Socket!Streaming
<1>3. all \in Seq(Socket!Payloads) /\ Socket!Send(s, all)
  BY DEF Socket!Payloads, Socket!AfterLoop
<1>4. finished => Socket!Has(s, "done")' /\ ~Socket!Has(s, "abort")'
  <2>. SUFFICES ASSUME finished PROVE Socket!Has(s, "done")' /\ ~Socket!Has(s, "abort")'
    OBVIOUS
  <2>1. open /\ all = payloads
    OBVIOUS
  <2>2. PICK i \in DOMAIN payloads : payloads[i] = "done"
    OBVIOUS
  <2>3. Socket!Has(s, "done")'
    BY <1>3, <2>1, <2>2, SendHas DEF Inv
  <2>4. ~Socket!Has(s, "abort")'
    BY <1>1, <1>3, <2>1, SendHas DEF Inv, Socket!Payloads
  <2>. QED  BY <2>3, <2>4
<1>5. Progress(s)'
  BY <1>1, <1>2, <1>4 DEF Progress, Inv, Socket!TypeOK, Socket!tables
<1>. HIDE DEF h, all
<1>. QED  BY <1>1, <1>2, <1>3, <1>5, HandlerMoves

\* The next chunk comes too late.
LEMMA NextCutOffStep == ASSUME Inv, NEW s \in Starts, Socket!NextCutOff(s) PROVE Inv'
<1>1. handler[s] \in Socket!Handler /\ handler[s].n \in Nat
  BY DEF Inv, Socket!TypeOK, Socket!Handler
<1>2. <<>> \in Seq(Socket!Payloads) /\ DOMAIN <<>> = {}
  OBVIOUS
<1>. QED  BY <1>1, <1>2, AfterLoopStep DEF Socket!NextCutOff

\* There is no next chunk.
LEMMA NextEndStep == ASSUME Inv, NEW s \in Starts, Socket!NextEnd(s) PROVE Inv'
<1>1. handler[s] \in Socket!Handler /\ handler[s].n \in Nat
  BY DEF Inv, Socket!TypeOK, Socket!Handler
<1>2. <<>> \in Seq(Socket!Payloads) /\ DOMAIN <<>> = {}
  OBVIOUS
<1>. QED  BY <1>1, <1>2, AfterLoopStep DEF Socket!NextEnd

\* The last chunk: the client, whom nobody cut off, is sent a done.
LEMMA NextFinishStep == ASSUME Inv, NEW s \in Starts, Socket!NextFinish(s) PROVE Inv'
<1>1. handler[s] \in Socket!Handler /\ handler[s].n \in Nat
  BY DEF Inv, Socket!TypeOK, Socket!Handler
<1>2. Socket!At(s, "next") /\ open /\ ~isAborted
  BY DEF Socket!NextFinish, Socket!CutOff, Inv, Socket!TypeOK
<1>3. CASE Socket!AfterLoop(s, <<"done">>, handler[s].n, TRUE)
  <2>. DEFINE p == <<"done">>
  <2>1. p \in Seq(Socket!Payloads) /\ DOMAIN p = {1} /\ p[1] = "done"
    BY DEF Socket!Payloads
  <2>. HIDE DEF p
  <2>2. Socket!AfterLoop(s, p, handler[s].n, TRUE)
    BY <1>3 DEF p
  <2>3. (\A i \in DOMAIN p : p[i] # "abort") /\ \E i \in DOMAIN p : p[i] = "done"
    BY <2>1
  <2>. QED  BY <1>1, <1>2, <2>1, <2>2, <2>3, AfterLoopStep
<1>4. CASE handler[s].n < MaxChunks
           /\ Socket!AfterLoop(s, <<"chunk", "done">>, handler[s].n + 1, TRUE)
  <2>. DEFINE p == <<"chunk", "done">>
  <2>1. p \in Seq(Socket!Payloads) /\ DOMAIN p = {1, 2} /\ p[1] = "chunk" /\ p[2] = "done"
    BY DEF Socket!Payloads
  <2>. HIDE DEF p
  <2>2. Socket!AfterLoop(s, p, handler[s].n + 1, TRUE)
    BY <1>4 DEF p
  <2>3. (\A i \in DOMAIN p : p[i] # "abort") /\ \E i \in DOMAIN p : p[i] = "done"
    BY <2>1
  <2>4. handler[s].n + 1 \in Nat
    BY <1>1, <1>4
  <2>. QED  BY <1>2, <2>1, <2>2, <2>3, <2>4, AfterLoopStep
<1>. QED  BY <1>3, <1>4 DEF Socket!NextFinish

\* The answer is inserted: its client was sent a done and no abort.
LEMMA InsertHistoryStep == ASSUME Inv, NEW s \in Starts, Socket!InsertHistory(s) PROVE Inv'
<1>1. handler[s] \in Socket!Handler /\ Socket!Has(s, "done") /\ ~Socket!Has(s, "abort")
  BY DEF Inv, Socket!TypeOK, Progress, Socket!InsertHistory, Socket!At
<1>. DEFINE h == [handler[s] EXCEPT !.pc = "usage"]
<1>2. h \in Socket!Handler /\ handler' = [handler EXCEPT ![s] = h] /\ h.pc = "usage"
  BY <1>1 DEF Socket!InsertHistory, Socket!Handler, Socket!Streaming
<1>. HIDE DEF h
<1>3. /\ handler' \in [Starts -> Socket!Handler] /\ handler'[s].pc = "usage"
      /\ \A r \in Starts \ {s} : handler'[r] = handler[r]
  BY <1>2 DEF Inv, Socket!TypeOK
<1>4. /\ sent' = sent /\ billed' = billed /\ saved' = saved \cup {s}
      /\ up' = up /\ open' = open /\ isStreaming' = isStreaming /\ isAborted' = isAborted
  BY DEF Socket!InsertHistory, Socket!flags
<1>5. Socket!TypeOK'
  BY <1>3, <1>4 DEF Inv, Socket!TypeOK
<1>6. \A r \in Starts : Progress(r)'
  BY <1>3, <1>4 DEF Inv, Progress, Socket!Has
<1>7. Socket!EndsAreRecorded'
  BY <1>1, <1>3, <1>4 DEF Inv, Socket!EndsAreRecorded, Socket!StreamsAreBilled,
    Socket!SavedMeansDone, Socket!Has
<1>. QED  BY <1>5, <1>6, <1>7 DEF Inv

\* recordUsage, after which the handler is over.
LEMMA RecordUsageStep == ASSUME Inv, NEW s \in Starts, Socket!RecordUsage(s) PROVE Inv'
<1>1. handler[s] \in Socket!Handler
  BY DEF Inv, Socket!TypeOK
<1>. DEFINE h == [handler[s] EXCEPT !.pc = "over", !.failed = FALSE]
<1>2. h \in Socket!Handler /\ handler' = [handler EXCEPT ![s] = h] /\ h.pc = "over"
  BY <1>1 DEF Socket!RecordUsage, Socket!Finally, Socket!Handler
<1>. HIDE DEF h
<1>3. /\ handler' \in [Starts -> Socket!Handler] /\ handler'[s].pc = "over"
      /\ \A r \in Starts \ {s} : handler'[r] = handler[r]
  BY <1>2 DEF Inv, Socket!TypeOK
<1>4. /\ sent' = sent /\ billed' = billed \cup {s} /\ saved' = saved
      /\ up' = up /\ open' = open /\ isStreaming' = FALSE /\ isAborted' = FALSE
  BY DEF Socket!RecordUsage, Socket!Finally
<1>5. Socket!TypeOK'
  BY <1>3, <1>4 DEF Inv, Socket!TypeOK
<1>6. \A r \in Starts : Progress(r)'
  BY <1>3, <1>4 DEF Inv, Progress, Socket!Has
<1>7. Socket!EndsAreRecorded'
  BY <1>3, <1>4 DEF Inv, Socket!EndsAreRecorded, Socket!StreamsAreBilled,
    Socket!SavedMeansDone, Socket!Has
<1>. QED  BY <1>5, <1>6, <1>7 DEF Inv

\* The catch block: an error, and the handler is over, its usage not recorded.
LEMMA FailStep == ASSUME Inv, NEW s \in Starts, Socket!Fail(s) PROVE Inv'
<1>1. /\ handler[s] \in Socket!Handler /\ (s \in saved => ~Socket!Has(s, "abort"))
      /\ up' \in BOOLEAN /\ open' \in BOOLEAN /\ isStreaming' \in BOOLEAN /\ isAborted' \in BOOLEAN
      /\ UNCHANGED Socket!tables
  BY DEF Inv, Socket!TypeOK, Socket!EndsAreRecorded, Socket!SavedMeansDone, Socket!Fail,
    Socket!Finally
<1>. DEFINE h == [handler[s] EXCEPT !.pc = "over", !.failed = TRUE]
<1>2. h \in Socket!Handler /\ handler' = [handler EXCEPT ![s] = h] /\ h.pc = "over" /\ h.failed = TRUE
  BY <1>1 DEF Socket!Fail, Socket!Finally, Socket!Handler
<1>3. <<"error">> \in Seq(Socket!Payloads) /\ Socket!Send(s, <<"error">>)
  BY DEF Socket!Payloads, Socket!Fail
<1>4. s \in saved => ~Socket!Has(s, "abort")'
  BY <1>1, <1>3, NoAbortSent DEF Inv, Socket!Payloads
<1>5. Progress(s)'
  BY <1>2 DEF Progress, Inv, Socket!TypeOK
<1>. HIDE DEF h
<1>. QED  BY <1>1, <1>2, <1>3, <1>4, <1>5, HandlerMoves

-----------------------------------------------------------------------------
\* Every step keeps the invariant.
LEMMA NextInv == Inv /\ [Socket!Next]_socket => Inv'
<1>. SUFFICES ASSUME Inv, [Socket!Next]_socket PROVE Inv'
  OBVIOUS
<1>1. ASSUME NEW s \in Starts, Socket!HandlerStep(s) PROVE Inv'
  BY <1>1, RefuseStep, AllowStep, NextCutOffStep, NextContentStep, NextFinishStep,
     NextEndStep, InsertHistoryStep, RecordUsageStep DEF Socket!HandlerStep
<1>2. ASSUME NEW s \in Starts, Socket!StartExpired(s) \/ Socket!AllowanceFails(s) PROVE Inv'
  BY <1>2, NobodyMoves DEF Socket!StartExpired, Socket!AllowanceFails, Socket!Exit, Inv,
    Socket!TypeOK, Socket!flags
<1>3. CASE Socket!Abort
  BY <1>3, NobodyMoves DEF Socket!Abort, Inv, Socket!TypeOK
<1>4. CASE Socket!Close
  BY <1>4, NobodyMoves DEF Socket!Close, Inv, Socket!TypeOK, Socket!flags
<1>5. CASE UNCHANGED socket
  BY <1>5, NobodyMoves DEF socket, Socket!tables, Inv, Socket!TypeOK
<1>. QED  BY <1>1, <1>2, <1>3, <1>4, <1>5, StartStep, FailStep DEF Socket!Next

\* A step of MCChatRequests is one of the socket, or leaves it as it is.
LEMMA JointStep == [JointNext]_<<part, vars, socket>> => [Socket!Next]_socket
BY DEF JointNext, socket

\* The invariant holds in every state of the system.
THEOREM InvHolds == JointSpec => []Inv
<1>1. JointInit => Inv
  BY InitInv DEF JointInit
<1>2. Inv /\ [JointNext]_<<part, vars, socket>> => Inv'
  BY JointStep, NextInv
<1>. QED  BY <1>1, <1>2, PTL DEF JointSpec

\* Flags, handlers, what was sent and the two tables keep their types, whatever the
\* client sends and however its handlers interleave.
THEOREM TypeCorrect == JointSpec => []Socket!TypeOK
<1>1. Inv => Socket!TypeOK
  BY DEF Inv
<1>. QED  BY <1>1, InvHolds, PTL

\* For any number of starts and any length of an answer: a stream that ended
\* without a failure has its usage recorded, and the history holds only answers
\* whose client was sent a done and was never told of an abort.
THEOREM EndsRecorded == JointSpec => []EndsAreRecorded
<1>1. Inv => EndsAreRecorded
  BY DEF Inv, EndsAreRecorded
<1>. QED  BY <1>1, InvHolds, PTL

=============================================================================
