-------------------------- MODULE ChatStreamProofs --------------------------
(***************************************************************************)
(* Proofs about ChatStream: its type invariant, that the state in Redis    *)
(* never has a hole, that the text of the reader has no gap, and that a    *)
(* reader told done by startNewStream has the full answer.                 *)
(*                                                                         *)
(* What is stored follows from where the handler is (Stored).  What is in  *)
(* the text follows from what is on its way to the reader: Flow relates    *)
(* the text, the pipe of the current connection and the handler that       *)
(* writes into it.                                                         *)
(***************************************************************************)
EXTENDS ChatStream, SequenceTheorems, TLAPS

-----------------------------------------------------------------------------
\* The inductive invariant: what is stored.

Failing == {"failGet", "failSet", "error", "end", "over"}

\* Where a state may be, by where its handler is: all that the handler has taken
\* from the provider, or all of it but the chunk it has not stored yet.
StoredAs(s, h, st) ==
  /\ h.pc \in {"off", "store", "hung"} => st = Missing
  /\ h.pc \in {"off", "store", "start"} => h.n = 0 /\ h.told = -1
  /\ h.pc \in {"get", "set", "chunk"} => h.n > 0
  /\ st.there =>
       \/ h.pc \notin {"get", "set"} /\ st.chunks = Chunks(s, h.n)
       \/ h.pc \in {"get", "set"} \cup Failing /\ h.n > 0 /\ st.chunks = Chunks(s, h.n - 1)
  /\ h.pc = "set" => h.seen.chunks = Chunks(s, h.n - 1)
  /\ h.pc = "markSet" => h.seen.chunks = Chunks(s, h.n)
  /\ h.pc = "failSet" => \/ h.seen.chunks = Chunks(s, h.n)
                         \/ h.n > 0 /\ h.seen.chunks = Chunks(s, h.n - 1)

Stored == \A s \in Streams : StoredAs(s, handler[s], store[s])

-----------------------------------------------------------------------------
\* The chunks of a stream, one after the other.

\* The first n chunks of a stream are n contents in order.
LEMMA ChunksOfStream ==
  ASSUME NEW s \in Streams, NEW n \in 0..MaxChunks
  PROVE  /\ Chunks(s, n) \in Seq(Contents)
         /\ Len(Chunks(s, n)) = n
         /\ \A i \in 1..n : Chunks(s, n)[i] = <<s, i - 1>>
<1>1. n \in Nat /\ MaxChunks \in Nat
  BY BoundsAssumption
<1>2. \A i \in 1..n : <<s, i - 1>> \in Contents
  BY <1>1 DEF Contents
<1>. QED  BY <1>1, <1>2 DEF Chunks

\* Appending the content of a handler's chunk gives the chunks up to it.
LEMMA NextChunk ==
  ASSUME NEW s \in Streams, NEW n \in 1..MaxChunks
  PROVE  Append(Chunks(s, n - 1), <<s, n - 1>>) = Chunks(s, n)
<1>1. n - 1 \in 0..MaxChunks /\ n \in 0..MaxChunks /\ n \in Nat
  BY BoundsAssumption
<1>. DEFINE u == Chunks(s, n - 1)
            v == Chunks(s, n)
            e == <<s, n - 1>>
<1>2. /\ u \in Seq(Contents) /\ Len(u) = n - 1 /\ \A i \in 1..(n - 1) : u[i] = <<s, i - 1>>
      /\ v \in Seq(Contents) /\ Len(v) = n /\ \A i \in 1..n : v[i] = <<s, i - 1>>
  BY <1>1, ChunksOfStream
<1>3. e \in Contents
  BY <1>1, BoundsAssumption DEF Contents
<1>. DEFINE w == Append(u, e)
<1>4. w \in Seq(Contents) /\ Len(w) = n /\ (\A i \in 1..(n - 1) : w[i] = u[i]) /\ w[n] = e
  <2>. HIDE DEF u, e
  <2>. QED  BY <1>1, <1>2, <1>3, AppendProperties
<1>. HIDE DEF u, v, w
<1>5. ASSUME NEW i \in 1..n PROVE w[i] = v[i]
  <2>1. CASE i = n
    BY <1>1, <1>2, <1>4, <2>1
  <2>2. CASE i \in 1..(n - 1)
    BY <1>1, <1>2, <1>4, <2>2
  <2>. QED  BY <1>1, <2>1, <2>2
<1>6. w = v
  BY <1>2, <1>4, <1>5, SeqEqual
<1>. QED  BY <1>6 DEF u, v, w

\* Missing is a state, Off a handler, NewConn a connection.
LEMMA ConstantsFit ==
  Missing \in States /\ Off \in Handler /\ NewConn \in Conn
<1>1. <<>> \in Seq(Contents) /\ <<>> \in Seq(Events)
  OBVIOUS
<1>2. Missing \in States
  BY <1>1 DEF Missing, States
<1>3. Off \in Handler
  BY <1>2, BoundsAssumption DEF Off, Handler, HandlerPcs
<1>. QED  BY <1>1, <1>2, <1>3 DEF NewConn, Conn

\* The initial states have the types and nothing stored.
LEMMA InitStored == Init => TypeOK /\ Stored
<1>. SUFFICES ASSUME Init PROVE TypeOK /\ Stored
  OBVIOUS
<1>1. <<>> \in Seq(Contents)
  OBVIOUS
<1>2. client \in Client
  BY <1>1, BoundsAssumption DEF Init, Client, ClientPcs, EventIds
<1>3. TypeOK
  BY <1>2, ConstantsFit, BoundsAssumption DEF Init, TypeOK
<1>4. Stored
  BY DEF Init, Stored, StoredAs, Off, Missing
<1>. QED  BY <1>3, <1>4

-----------------------------------------------------------------------------
\* Steps of a handler.

\* A step moves the handler of s to h and the state of s to st.
Moves(s, h, st) ==
  handler' = [handler EXCEPT ![s] = h] /\ store' = [store EXCEPT ![s] = st]

\* If the handler of s and its state fit after a step, all do.
LEMMA MovesKeepStored ==
  ASSUME TypeOK, Stored, NEW s \in Streams, NEW h \in Handler, NEW st \in States,
         Moves(s, h, st), StoredAs(s, h, st)
  PROVE  /\ handler' \in [Streams -> Handler] /\ store' \in [Streams -> States]
         /\ Stored'
<1>1. /\ handler' \in [Streams -> Handler] /\ store' \in [Streams -> States]
      /\ handler'[s] = h /\ store'[s] = st
      /\ \A t \in Streams \ {s} : handler'[t] = handler[t] /\ store'[t] = store[t]
  BY DEF TypeOK, Moves
<1>2. ASSUME NEW t \in Streams PROVE StoredAs(t, handler'[t], store'[t])
  <2>1. CASE t = s
    BY <1>1, <2>1
  <2>2. CASE t # s
    BY <1>1, <2>2 DEF Stored
  <2>. QED  BY <2>1, <2>2
<1>3. Stored' = \A t \in Streams : StoredAs(t, handler'[t], store'[t])
  BY DEF Stored, StoredAs, Chunks
<1>. QED  BY <1>1, <1>2, <1>3

\* A handler goes on, with another n at most.
LEMMA GotoMoves ==
  ASSUME TypeOK, NEW s \in Streams, NEW pc \in HandlerPcs, Goto(s, pc)
  PROVE  \E h \in Handler :
           /\ handler' = [handler EXCEPT ![s] = h]
           /\ h.pc = pc /\ h.n = handler[s].n /\ h.told = handler[s].told
           /\ h.seen = handler[s].seen
<1>. DEFINE h == [handler[s] EXCEPT !.pc = pc]
<1>1. handler[s] \in Handler
  BY DEF TypeOK
<1>2. h \in Handler /\ h.pc = pc /\ h.n = handler[s].n /\ h.told = handler[s].told
      /\ h.seen = handler[s].seen
  BY <1>1 DEF Handler
<1>3. handler' = [handler EXCEPT ![s] = h]
  BY DEF Goto
<1>. QED  BY <1>2, <1>3

\* A chunk of the provider moves the handler and counts.
LEMMA YieldMoves ==
  ASSUME TypeOK, NEW s \in Streams, ProviderYields(s)
  PROVE  \E h \in Handler :
           /\ handler' = [handler EXCEPT ![s] = h]
           /\ h.pc = "get" /\ h.n = handler[s].n + 1 /\ h.told = handler[s].told
<1>. DEFINE g == [handler[s] EXCEPT !.pc = "get"]
            h == [g EXCEPT !.n = handler[s].n + 1]
<1>1. handler[s] \in Handler /\ handler[s].n + 1 \in 0..MaxChunks
  BY BoundsAssumption DEF TypeOK, Handler, ProviderYields
<1>2. g \in Handler /\ g.pc = "get" /\ g.n = handler[s].n /\ g.told = handler[s].told
  BY <1>1 DEF Handler, HandlerPcs, Active
<1>3. [handler EXCEPT ![s].pc = "get"] = [handler EXCEPT ![s] = g]
  OBVIOUS
<1>4. h \in Handler /\ h.pc = "get" /\ h.n = handler[s].n + 1 /\ h.told = handler[s].told
  <2>. HIDE DEF g
  <2>. QED  BY <1>1, <1>2 DEF Handler
<1>5. handler' = [handler EXCEPT ![s] = h]
  <2>. DEFINE f == [handler EXCEPT ![s] = g]
  <2>1. f[s] = g /\ handler' = [f EXCEPT ![s].n = f[s].n + 1]
    BY <1>3 DEF ProviderYields, TypeOK
  <2>2. f[s].n + 1 = handler[s].n + 1
    BY <1>2, <2>1
  <2>3. handler' = [f EXCEPT ![s] = h]
    BY <2>1, <2>2
  <2>. QED  BY <2>3 DEF TypeOK
<1>. QED  BY <1>4, <1>5

\* What sendSSE writes, and what told may be.
EventTypes == {"start", "chunk", "done", "error"}
EventContents == Contents \cup {<<>>}
Tolds == {-1} \cup 0..MaxChunks

\* sendSSE moves the handler and writes into its connection.
LEMMA SendMoves ==
  ASSUME TypeOK, NEW s \in Streams, NEW from, NEW type \in EventTypes,
         NEW c \in EventContents, NEW to \in HandlerPcs,
         NEW told \in Tolds, SendTold(s, from, type, c, to, told)
  PROVE  /\ \E h \in Handler :
              /\ handler' = [handler EXCEPT ![s] = h]
              /\ h.pc = to /\ h.n = handler[s].n /\ h.told = told /\ h.seen = handler[s].seen
         /\ Event(type, s, c) \in Events
         /\ conn' \in Conn
<1>1. PICK waiting \in BOOLEAN :
        handler' = [handler EXCEPT ![s] = [@ EXCEPT !.pc = to, !.waiting = waiting,
                                                    !.told = told]]
  BY DEF SendTold
<1>. DEFINE h == [handler[s] EXCEPT !.pc = to, !.waiting = waiting, !.told = told]
<1>2. handler[s] \in Handler
  BY DEF TypeOK
<1>5. h \in Handler /\ h.pc = to /\ h.n = handler[s].n /\ h.told = told
      /\ h.seen = handler[s].seen
  BY <1>2 DEF Handler, Tolds
<1>6. handler' = [handler EXCEPT ![s] = h]
  BY <1>1
<1>7. Event(type, s, c) \in Events
  BY DEF Event, Events, EventTypes, EventContents
<1>8. conn' \in Conn
  <2>. DEFINE w == Append(conn.wire, Event(type, s, c))
  <2>1. conn \in Conn
    BY DEF TypeOK
  <2>2. w \in Seq(Events)
    <3>1. conn.wire \in Seq(Events)
      BY <2>1 DEF Conn
    <3>. QED  BY <1>7, <3>1, AppendProperties
  <2>. HIDE DEF w
  <2>3. [conn EXCEPT !.wire = w] \in Conn
    BY <2>1, <2>2 DEF Conn
  <2>4. conn' = conn \/ conn' = [conn EXCEPT !.wire = w]
    BY DEF SendTold, w
  <2>. QED  BY <2>1, <2>3, <2>4
<1>. HIDE DEF h
<1>. QED  BY <1>5, <1>6, <1>7, <1>8

\* A GET moves the handler, which has then seen what is stored.
LEMMA GetMoves ==
  ASSUME TypeOK, NEW s \in Streams, NEW from, NEW to \in HandlerPcs, NEW after \in HandlerPcs,
         Get(s, from, to, after)
  PROVE  \E h \in Handler :
           /\ handler' = [handler EXCEPT ![s] = h]
           /\ h.pc = IF store[s].there THEN to ELSE after
           /\ h.n = handler[s].n /\ h.told = handler[s].told /\ h.seen = store[s]
<1>. DEFINE pc == IF store[s].there THEN to ELSE after
            g == [handler[s] EXCEPT !.pc = pc]
            h == [g EXCEPT !.seen = store[s]]
            f == [handler EXCEPT ![s] = g]
<1>1. handler[s] \in Handler /\ store[s] \in States /\ pc \in HandlerPcs
  BY DEF TypeOK
<1>. HIDE DEF pc
<1>2. g \in Handler /\ g.pc = pc /\ g.n = handler[s].n /\ g.told = handler[s].told
  BY <1>1 DEF Handler
<1>3. h \in Handler /\ h.pc = pc /\ h.n = handler[s].n /\ h.told = handler[s].told
      /\ h.seen = store[s]
  <2>. HIDE DEF g
  <2>. QED  BY <1>1, <1>2 DEF Handler
<1>4. handler' = [handler EXCEPT ![s] = h]
  <2>1. f = [handler EXCEPT ![s].pc = pc] /\ f[s] = g
    BY DEF TypeOK
  <2>2. handler' = [f EXCEPT ![s].seen = store[s]]
    BY <2>1 DEF Get, pc
  <2>3. handler' = [f EXCEPT ![s] = h]
    BY <2>1, <2>2
  <2>. QED  BY <2>3 DEF TypeOK
<1>. HIDE DEF h
<1>. QED  BY <1>3, <1>4 DEF pc

\* A SETEX moves the handler and stores the state.
LEMMA SetGoes ==
  ASSUME TypeOK, NEW s \in Streams, NEW from, NEW state, NEW after \in HandlerPcs,
         Set(s, from, state, after)
  PROVE  \E h \in Handler :
           /\ handler' = [handler EXCEPT ![s] = h]
           /\ h.pc = after /\ h.n = handler[s].n /\ h.told = handler[s].told
<1>. DEFINE g == [handler[s] EXCEPT !.pc = after]
            h == [g EXCEPT !.seen = Missing]
            f == [handler EXCEPT ![s] = g]
<1>1. handler[s] \in Handler
  BY DEF TypeOK
<1>2. g \in Handler /\ g.pc = after /\ g.n = handler[s].n /\ g.told = handler[s].told
  BY <1>1 DEF Handler
<1>3. h \in Handler /\ h.pc = after /\ h.n = handler[s].n /\ h.told = handler[s].told
  <2>. HIDE DEF g
  <2>. QED  BY <1>2, ConstantsFit DEF Handler
<1>4. handler' = [handler EXCEPT ![s] = h]
  <2>1. f = [handler EXCEPT ![s].pc = after] /\ f[s] = g
    BY DEF TypeOK
  <2>2. handler' = [f EXCEPT ![s].seen = Missing]
    BY <2>1 DEF Set
  <2>3. handler' = [f EXCEPT ![s] = h]
    BY <2>1, <2>2
  <2>. QED  BY <2>3 DEF TypeOK
<1>. HIDE DEF h
<1>. QED  BY <1>3, <1>4

\* What it stores has the chunks of the state it was given.
LEMMA SetMoves ==
  ASSUME TypeOK, NEW s \in Streams, NEW from, NEW state \in States, NEW after \in HandlerPcs,
         Set(s, from, state, after)
  PROVE  \E h \in Handler, st \in States :
           /\ Moves(s, h, st)
           /\ h.pc = after /\ h.n = handler[s].n /\ h.told = handler[s].told
           /\ st.chunks = state.chunks
<1>. DEFINE st == [state EXCEPT !.there = TRUE]
<1>1. PICK h \in Handler :
        /\ handler' = [handler EXCEPT ![s] = h]
        /\ h.pc = after /\ h.n = handler[s].n /\ h.told = handler[s].told
  BY SetGoes
<1>2. st \in States /\ st.chunks = state.chunks
  BY DEF States
<1>3. store' = [store EXCEPT ![s] = st]
  BY DEF Set
<1>. HIDE DEF st
<1>. QED  BY <1>1, <1>2, <1>3 DEF Moves

-----------------------------------------------------------------------------
\* Each step keeps the types and what is said of the store.

Kept == TypeOK' /\ Stored'

\* A handler that moves without touching its state.
LEMMA StoreUnchanged ==
  ASSUME TypeOK, NEW s \in Streams, NEW h \in Handler,
         handler' = [handler EXCEPT ![s] = h], UNCHANGED store
  PROVE  Moves(s, h, store[s]) /\ store[s] \in States
BY DEF TypeOK, Moves

\* A step of the handler of s keeps all if the handler and its state fit.
LEMMA HandlerKeeps ==
  ASSUME TypeOK, Stored, NEW s \in Streams, NEW h \in Handler, NEW st \in States,
         Moves(s, h, st), StoredAs(s, h, st), UNCHANGED client, conn' \in Conn,
         history' \subseteq Streams, billed' \subseteq Streams, faults' \in 0..MaxFaults
  PROVE  Kept
<1>1. handler' \in [Streams -> Handler] /\ store' \in [Streams -> States] /\ Stored'
  BY MovesKeepStored
<1>2. client' \in Client
  BY DEF TypeOK
<1>. QED  BY <1>1, <1>2 DEF Kept, TypeOK

\* One step that adds to the faults stays below their bound.
LEMMA FaultCounts == TypeOK /\ Fault => faults' \in 0..MaxFaults
BY BoundsAssumption DEF TypeOK, Fault

\* The steps that only move the handler.
LEMMA GotosKeep ==
  ASSUME TypeOK, Stored, NEW s \in Streams,
         \/ StoreStateFails(s) \/ ProviderFinishes(s) \/ ProviderReturns(s) \/ ProviderEnds(s)
         \/ InsertHistory(s) \/ RecordUsage(s) \/ CallFails(s) \/ MarkFails(s)
  PROVE  Kept
<1>1. ASSUME NEW pc \in HandlerPcs, Goto(s, pc), UNCHANGED <<client, conn, store>>,
             history' \subseteq Streams, billed' \subseteq Streams, faults' \in 0..MaxFaults,
             \A h \in Handler :
               /\ h.pc = pc /\ h.n = handler[s].n /\ h.told = handler[s].told
               /\ h.seen = handler[s].seen
               => StoredAs(s, h, store[s])
      PROVE  Kept
  <2>1. PICK h \in Handler : /\ handler' = [handler EXCEPT ![s] = h]
                             /\ h.pc = pc /\ h.n = handler[s].n /\ h.told = handler[s].told
                             /\ h.seen = handler[s].seen
    BY <1>1, GotoMoves
  <2>2. Moves(s, h, store[s]) /\ store[s] \in States
    BY <1>1, <2>1, StoreUnchanged
  <2>3. StoredAs(s, h, store[s]) /\ conn' \in Conn
    BY <1>1, <2>1 DEF TypeOK
  <2>. QED  BY <1>1, <2>2, <2>3, HandlerKeeps
<1>2. StoredAs(s, handler[s], store[s])
  BY DEF Stored
<1>3. CASE StoreStateFails(s)
  <2>1. /\ handler[s].pc = "store"
        /\ Goto(s, "hung") /\ UNCHANGED <<client, conn, store>>
    BY <1>3 DEF At, StoreStateFails
  <2>2. history' \subseteq Streams /\ billed' \subseteq Streams /\ faults' \in 0..MaxFaults
    BY <1>3, FaultCounts DEF StoreStateFails, TypeOK
  <2>3. "hung" \in HandlerPcs
    BY DEF HandlerPcs, Active
  <2>4. ASSUME NEW h \in Handler, h.pc = "hung", h.n = handler[s].n, h.told = handler[s].told
        PROVE  StoredAs(s, h, store[s])
    BY <1>2, <2>1, <2>4 DEF StoredAs, Failing, Missing
  <2>. QED  BY <1>1, <2>1, <2>2, <2>3, <2>4
<1>4. CASE ProviderFinishes(s)
  <2>1. /\ handler[s].pc = "read"
        /\ Goto(s, "last") /\ UNCHANGED <<client, conn, store>>
    BY <1>4 DEF At, ProviderFinishes, Yields
  <2>2. history' \subseteq Streams /\ billed' \subseteq Streams /\ faults' \in 0..MaxFaults
    BY <1>4, FaultCounts DEF ProviderFinishes, TypeOK, Yields
  <2>3. "last" \in HandlerPcs
    BY DEF HandlerPcs, Active
  <2>4. ASSUME NEW h \in Handler, h.pc = "last", h.n = handler[s].n, h.told = handler[s].told
        PROVE  StoredAs(s, h, store[s])
    BY <1>2, <2>1, <2>4 DEF StoredAs, Failing
  <2>. QED  BY <1>1, <2>1, <2>2, <2>3, <2>4
<1>5. CASE ProviderReturns(s)
  <2>1. /\ handler[s].pc = "read"
        /\ Goto(s, "history") /\ UNCHANGED <<client, conn, store>>
    BY <1>5 DEF At, ProviderReturns
  <2>2. history' \subseteq Streams /\ billed' \subseteq Streams /\ faults' \in 0..MaxFaults
    BY <1>5, FaultCounts DEF ProviderReturns, TypeOK
  <2>3. "history" \in HandlerPcs
    BY DEF HandlerPcs, Active
  <2>4. ASSUME NEW h \in Handler, h.pc = "history", h.n = handler[s].n, h.told = handler[s].told
        PROVE  StoredAs(s, h, store[s])
    BY <1>2, <2>1, <2>4 DEF StoredAs, Failing
  <2>. QED  BY <1>1, <2>1, <2>2, <2>3, <2>4
<1>6. CASE ProviderEnds(s)
  <2>1. /\ handler[s].pc = "read"
        /\ Goto(s, "history") /\ UNCHANGED <<client, conn, store>>
    BY <1>6 DEF At, ProviderEnds
  <2>2. history' \subseteq Streams /\ billed' \subseteq Streams /\ faults' \in 0..MaxFaults
    BY <1>6, FaultCounts DEF ProviderEnds, TypeOK
  <2>3. "history" \in HandlerPcs
    BY DEF HandlerPcs, Active
  <2>4. ASSUME NEW h \in Handler, h.pc = "history", h.n = handler[s].n, h.told = handler[s].told
        PROVE  StoredAs(s, h, store[s])
    BY <1>2, <2>1, <2>4 DEF StoredAs, Failing
  <2>. QED  BY <1>1, <2>1, <2>2, <2>3, <2>4
<1>7. CASE InsertHistory(s)
  <2>1. /\ handler[s].pc = "history"
        /\ Goto(s, "usage") /\ UNCHANGED <<client, conn, store>>
    BY <1>7 DEF At, InsertHistory
  <2>2. history' \subseteq Streams /\ billed' \subseteq Streams /\ faults' \in 0..MaxFaults
    BY <1>7, FaultCounts DEF InsertHistory, TypeOK
  <2>3. "usage" \in HandlerPcs
    BY DEF HandlerPcs, Active
  <2>4. ASSUME NEW h \in Handler, h.pc = "usage", h.n = handler[s].n, h.told = handler[s].told
        PROVE  StoredAs(s, h, store[s])
    BY <1>2, <2>1, <2>4 DEF StoredAs, Failing
  <2>. QED  BY <1>1, <2>1, <2>2, <2>3, <2>4
<1>8. CASE RecordUsage(s)
  <2>1. /\ handler[s].pc = "usage"
        /\ Goto(s, "delete") /\ UNCHANGED <<client, conn, store>>
    BY <1>8 DEF At, RecordUsage
  <2>2. history' \subseteq Streams /\ billed' \subseteq Streams /\ faults' \in 0..MaxFaults
    BY <1>8, FaultCounts DEF RecordUsage, TypeOK
  <2>3. "delete" \in HandlerPcs
    BY DEF HandlerPcs, Active
  <2>4. ASSUME NEW h \in Handler, h.pc = "delete", h.n = handler[s].n, h.told = handler[s].told
        PROVE  StoredAs(s, h, store[s])
    BY <1>2, <2>1, <2>4 DEF StoredAs, Failing
  <2>. QED  BY <1>1, <2>1, <2>2, <2>3, <2>4
<1>9. CASE CallFails(s)
  <2>1. /\ handler[s].pc \in {"start", "read", "get", "set", "markGet", "markSet", "history",
                             "usage", "delete"}
        /\ Goto(s, "failGet") /\ UNCHANGED <<client, conn, store>>
    BY <1>9 DEF At, CallFails
  <2>2. history' \subseteq Streams /\ billed' \subseteq Streams /\ faults' \in 0..MaxFaults
    BY <1>9, FaultCounts DEF CallFails, TypeOK
  <2>3. "failGet" \in HandlerPcs
    BY DEF HandlerPcs, Active
  <2>4. ASSUME NEW h \in Handler, h.pc = "failGet", h.n = handler[s].n, h.told = handler[s].told
        PROVE  StoredAs(s, h, store[s])
    BY <1>2, <2>1, <2>4 DEF StoredAs, Failing
  <2>. QED  BY <1>1, <2>1, <2>2, <2>3, <2>4
<1>10. CASE MarkFails(s)
  <2>1. /\ handler[s].pc \in {"failGet", "failSet"}
        /\ Goto(s, "end") /\ UNCHANGED <<client, conn, store>>
    BY <1>10 DEF At, MarkFails
  <2>2. history' \subseteq Streams /\ billed' \subseteq Streams /\ faults' \in 0..MaxFaults
    BY <1>10, FaultCounts DEF MarkFails, TypeOK
  <2>3. "end" \in HandlerPcs
    BY DEF HandlerPcs, Active
  <2>4. ASSUME NEW h \in Handler, h.pc = "end", h.n = handler[s].n, h.told = handler[s].told
        PROVE  StoredAs(s, h, store[s])
    BY <1>2, <2>1, <2>4 DEF StoredAs, Failing
  <2>. QED  BY <1>1, <2>1, <2>2, <2>3, <2>4
<1>. QED  BY <1>3, <1>4, <1>5, <1>6, <1>7, <1>8, <1>9, <1>10

\* The steps that write to the connection.
LEMMA SendsKeep ==
  ASSUME TypeOK, Stored, NEW s \in Streams,
         SendStart(s) \/ SendChunk(s) \/ SendLast(s) \/ SendDone(s) \/ SendError(s)
  PROVE  Kept
<1>1. ASSUME NEW from, NEW type \in EventTypes,
             NEW c \in EventContents, NEW to \in HandlerPcs,
             NEW told \in Tolds, SendTold(s, from, type, c, to, told),
             \A h \in Handler :
               h.pc = to /\ h.n = handler[s].n /\ h.told = told => StoredAs(s, h, store[s])
      PROVE  Kept
  <2>1. conn' \in Conn /\ \E h \in Handler :
          /\ handler' = [handler EXCEPT ![s] = h]
          /\ h.pc = to /\ h.n = handler[s].n /\ h.told = told
    BY <1>1, SendMoves
  <2>2. PICK h \in Handler : /\ handler' = [handler EXCEPT ![s] = h]
                             /\ h.pc = to /\ h.n = handler[s].n /\ h.told = told
    BY <2>1
  <2>3. UNCHANGED <<client, store, history, billed, faults>>
    BY <1>1 DEF SendTold
  <2>4. Moves(s, h, store[s]) /\ store[s] \in States
    BY <2>2, <2>3, StoreUnchanged
  <2>5. StoredAs(s, h, store[s])
    BY <1>1, <2>2
  <2>6. history' \subseteq Streams /\ billed' \subseteq Streams /\ faults' \in 0..MaxFaults
    BY <2>3 DEF TypeOK
  <2>. QED  BY <2>1, <2>3, <2>4, <2>5, <2>6, HandlerKeeps
<1>2. StoredAs(s, handler[s], store[s]) /\ handler[s] \in Handler
  BY DEF Stored, TypeOK
<1>3. /\ handler[s].told \in Tolds /\ handler[s].n \in Tolds
      /\ <<>> \in EventContents /\ \A type \in {"start", "chunk", "done", "error"} :
                                     type \in EventTypes
  BY <1>2 DEF Handler, Tolds, EventContents, EventTypes
<1>4. \A pc \in {"read", "markGet", "end"} : pc \in HandlerPcs
  BY DEF HandlerPcs, Active
<1>5. ASSUME NEW from, NEW type \in EventTypes,
             NEW c \in EventContents, NEW to \in {"read", "markGet", "end"},
             NEW told \in Tolds, SendTold(s, from, type, c, to, told),
             handler[s].pc \in {"start", "chunk", "last", "done", "error"},
             handler[s].pc = "error" <=> to = "end"
      PROVE  Kept
  <2>1. ASSUME NEW h \in Handler, h.pc = to, h.n = handler[s].n, h.told = told
        PROVE  StoredAs(s, h, store[s])
    BY <1>2, <1>5, <2>1 DEF StoredAs, Failing
  <2>. QED  BY <1>1, <1>4, <1>5, <2>1
<1>6. CASE SendStart(s)
  <2>1. SendTold(s, "start", "start", <<>>, "read", handler[s].told) /\ handler[s].pc = "start"
    BY <1>6 DEF SendStart, Send, SendTold, At
  <2>. QED  BY <1>3, <1>5, <2>1
<1>7. CASE SendChunk(s)
  <2>1. /\ SendTold(s, "chunk", "chunk", Content(s), "read", handler[s].told)
        /\ handler[s].pc = "chunk"
    BY <1>7 DEF SendChunk, Send, SendTold, At
  <2>2. Content(s) \in EventContents
    BY <1>2, <2>1, BoundsAssumption DEF StoredAs, Content, Contents, EventContents, Handler
  <2>. QED  BY <1>3, <1>5, <2>1, <2>2
<1>8. CASE SendLast(s)
  <2>1. SendTold(s, "last", "chunk", <<>>, "markGet", handler[s].told) /\ handler[s].pc = "last"
    BY <1>8 DEF SendLast, Send, SendTold, At
  <2>. QED  BY <1>3, <1>5, <2>1
<1>9. CASE SendError(s)
  <2>1. SendTold(s, "error", "error", <<>>, "end", handler[s].told) /\ handler[s].pc = "error"
    BY <1>9 DEF SendError, Send, SendTold, At
  <2>. QED  BY <1>3, <1>5, <2>1
<1>10. CASE SendDone(s)
  <2>. DEFINE told == IF handler[s].told = -1 THEN handler[s].n ELSE handler[s].told
  <2>1. told \in Tolds
    BY <1>3
  <2>2. SendTold(s, "done", "done", <<>>, "read", told) /\ handler[s].pc = "done"
    BY <1>10 DEF SendDone, SendTold, At
  <2>. HIDE DEF told
  <2>. QED  BY <1>3, <1>5, <2>1, <2>2
<1>. QED  BY <1>6, <1>7, <1>8, <1>9, <1>10

\* The steps that read the store.
LEMMA GetsKeep ==
  ASSUME TypeOK, Stored, NEW s \in Streams, ChunkGet(s) \/ MarkGet(s) \/ FailGet(s)
  PROVE  Kept
<1>1. ASSUME NEW from, NEW to \in HandlerPcs, NEW after \in HandlerPcs, Get(s, from, to, after),
             \A h \in Handler :
               /\ h.pc = IF store[s].there THEN to ELSE after
               /\ h.n = handler[s].n /\ h.told = handler[s].told /\ h.seen = store[s]
               => StoredAs(s, h, store[s])
      PROVE  Kept
  <2>1. PICK h \in Handler : /\ handler' = [handler EXCEPT ![s] = h]
                             /\ h.pc = IF store[s].there THEN to ELSE after
                             /\ h.n = handler[s].n /\ h.told = handler[s].told
                             /\ h.seen = store[s]
    BY <1>1, GetMoves
  <2>2. UNCHANGED <<client, conn, store, history, billed, faults>>
    BY <1>1 DEF Get
  <2>3. Moves(s, h, store[s]) /\ store[s] \in States /\ StoredAs(s, h, store[s])
    BY <1>1, <2>1, <2>2, StoreUnchanged
  <2>4. /\ conn' \in Conn /\ history' \subseteq Streams /\ billed' \subseteq Streams
        /\ faults' \in 0..MaxFaults
    BY <2>2 DEF TypeOK
  <2>. QED  BY <2>2, <2>3, <2>4, HandlerKeeps
<1>2. StoredAs(s, handler[s], store[s])
  BY DEF Stored
<1>3. \A pc \in {"set", "chunk", "markSet", "done", "failSet", "error"} : pc \in HandlerPcs
  BY DEF HandlerPcs, Active
<1>4. CASE ChunkGet(s)
  <2>1. Get(s, "get", "set", "chunk") /\ handler[s].pc = "get"
    BY <1>4 DEF ChunkGet, Get, At
  <2>2. ASSUME NEW h \in Handler, h.pc = IF store[s].there THEN "set" ELSE "chunk",
               h.n = handler[s].n, h.told = handler[s].told, h.seen = store[s]
        PROVE  StoredAs(s, h, store[s])
    BY <1>2, <2>1, <2>2 DEF StoredAs, Failing
  <2>. QED  BY <1>1, <1>3, <2>1, <2>2
<1>5. CASE MarkGet(s)
  <2>1. Get(s, "markGet", "markSet", "done") /\ handler[s].pc = "markGet"
    BY <1>5 DEF MarkGet, Get, At
  <2>2. ASSUME NEW h \in Handler, h.pc = IF store[s].there THEN "markSet" ELSE "done",
               h.n = handler[s].n, h.told = handler[s].told, h.seen = store[s]
        PROVE  StoredAs(s, h, store[s])
    BY <1>2, <2>1, <2>2 DEF StoredAs, Failing
  <2>. QED  BY <1>1, <1>3, <2>1, <2>2
<1>6. CASE FailGet(s)
  <2>1. Get(s, "failGet", "failSet", "error") /\ handler[s].pc = "failGet"
    BY <1>6 DEF FailGet, Get, At
  <2>2. ASSUME NEW h \in Handler, h.pc = IF store[s].there THEN "failSet" ELSE "error",
               h.n = handler[s].n, h.told = handler[s].told, h.seen = store[s]
        PROVE  StoredAs(s, h, store[s])
    BY <1>2, <2>1, <2>2 DEF StoredAs, Failing
  <2>. QED  BY <1>1, <1>3, <2>1, <2>2
<1>. QED  BY <1>4, <1>5, <1>6

\* The steps that write the state back.
LEMMA SetsKeep ==
  ASSUME TypeOK, Stored, NEW s \in Streams, ChunkSet(s) \/ MarkSet(s) \/ FailSet(s)
  PROVE  Kept
<1>1. ASSUME NEW from, NEW state \in States, NEW after \in HandlerPcs,
             Set(s, from, state, after),
             \A h \in Handler, st \in States :
               /\ h.pc = after /\ h.n = handler[s].n /\ h.told = handler[s].told
               /\ st.chunks = state.chunks
               => StoredAs(s, h, st)
      PROVE  Kept
  <2>1. PICK h \in Handler, st \in States :
               /\ Moves(s, h, st) /\ h.pc = after /\ h.n = handler[s].n
               /\ h.told = handler[s].told /\ st.chunks = state.chunks
    BY <1>1, SetMoves
  <2>2. UNCHANGED <<client, conn, history, billed, faults>>
    BY <1>1 DEF Set
  <2>3. StoredAs(s, h, st)
    BY <1>1, <2>1
  <2>4. /\ conn' \in Conn /\ history' \subseteq Streams /\ billed' \subseteq Streams
        /\ faults' \in 0..MaxFaults
    BY <2>2 DEF TypeOK
  <2>. QED  BY <2>1, <2>2, <2>3, <2>4, HandlerKeeps
<1>2. StoredAs(s, handler[s], store[s]) /\ handler[s] \in Handler /\ handler[s].seen \in States
  BY DEF Stored, TypeOK, Handler
<1>3. \A pc \in {"chunk", "done", "error"} : pc \in HandlerPcs
  BY DEF HandlerPcs, Active
<1>4. CASE ChunkSet(s)
  <2>. DEFINE seen == handler[s].seen
              n == handler[s].n
              state == [seen EXCEPT !.chunks = Append(@, Content(s))]
  <2>1. Set(s, "set", state, "chunk") /\ handler[s].pc = "set"
    BY <1>4 DEF ChunkSet, Set, At
  <2>2. n \in 1..MaxChunks /\ seen.chunks = Chunks(s, n - 1)
    BY <1>2, <2>1, BoundsAssumption DEF StoredAs, Handler
  <2>3. Append(seen.chunks, Content(s)) = Chunks(s, n)
    BY <2>2, NextChunk DEF Content
  <2>4. Chunks(s, n) \in Seq(Contents)
    BY <2>2, ChunksOfStream, BoundsAssumption
  <2>5. state \in States /\ state.chunks = Chunks(s, n)
    <3>. HIDE DEF seen, n
    <3>1. state = [seen EXCEPT !.chunks = Chunks(s, n)] /\ seen \in States
      BY <1>2, <2>3 DEF seen
    <3>. QED  BY <2>4, <3>1 DEF States
  <2>6. ASSUME NEW h \in Handler, NEW st \in States, h.pc = "chunk", h.n = n,
               st.chunks = Chunks(s, n)
        PROVE  StoredAs(s, h, st)
    BY <2>2, <2>6, BoundsAssumption DEF StoredAs
  <2>. HIDE DEF state
  <2>. QED  BY <1>1, <1>3, <2>1, <2>5, <2>6
<1>5. CASE MarkSet(s)
  <2>. DEFINE seen == handler[s].seen
              state == [seen EXCEPT !.finished = TRUE, !.error = FALSE]
  <2>1. Set(s, "markSet", state, "done") /\ handler[s].pc = "markSet"
    BY <1>5 DEF MarkSet, Set, At
  <2>2. state \in States /\ state.chunks = seen.chunks
    BY <1>2 DEF States
  <2>3. ASSUME NEW h \in Handler, NEW st \in States, h.pc = "done", h.n = handler[s].n,
               st.chunks = seen.chunks
        PROVE  StoredAs(s, h, st)
    BY <1>2, <2>1, <2>3 DEF StoredAs
  <2>. HIDE DEF state
  <2>. QED  BY <1>1, <1>3, <2>1, <2>2, <2>3
<1>6. CASE FailSet(s)
  <2>. DEFINE seen == handler[s].seen
              state == [seen EXCEPT !.finished = TRUE, !.error = TRUE]
  <2>1. Set(s, "failSet", state, "error") /\ handler[s].pc = "failSet"
    BY <1>6 DEF FailSet, Set, At
  <2>2. state \in States /\ state.chunks = seen.chunks
    BY <1>2 DEF States
  <2>3. ASSUME NEW h \in Handler, NEW st \in States, h.pc = "error", h.n = handler[s].n,
               st.chunks = seen.chunks
        PROVE  StoredAs(s, h, st)
    BY <1>2, <2>1, <2>3 DEF StoredAs, Failing
  <2>. HIDE DEF state
  <2>. QED  BY <1>1, <1>3, <2>1, <2>2, <2>3
<1>. QED  BY <1>4, <1>5, <1>6

\* The steps left: the state is made, deleted or expires, the handler takes a
\* chunk, drains, ends the response or learns of the close.
LEMMA OthersKeep ==
  ASSUME TypeOK, Stored, NEW s \in Streams,
         \/ StoreState(s) \/ DeleteState(s) \/ ExpireState(s) \/ ProviderYields(s)
         \/ Drain(s) \/ EndResponse(s) \/ NoticeClose(s)
  PROVE  Kept
<1>1. /\ StoredAs(s, handler[s], store[s]) /\ handler[s] \in Handler /\ store[s] \in States
      /\ conn \in Conn /\ history \subseteq Streams /\ billed \subseteq Streams
      /\ faults \in 0..MaxFaults
  BY DEF Stored, TypeOK
<1>2. \A pc \in {"start", "end", "over"} : pc \in HandlerPcs
  BY DEF HandlerPcs, Active
<1>3. CASE StoreState(s)
  <2>. DEFINE st == [Missing EXCEPT !.there = TRUE]
  <2>1. st \in States /\ st.chunks = <<>>
    BY ConstantsFit DEF Missing, States
  <2>2. /\ Goto(s, "start") /\ handler[s].pc = "store" /\ store' = [store EXCEPT ![s] = st]
        /\ UNCHANGED <<client, conn, history, billed, faults>>
    BY <1>3 DEF StoreState, At
  <2>. HIDE DEF st
  <2>3. PICK h \in Handler : /\ handler' = [handler EXCEPT ![s] = h]
                             /\ h.pc = "start" /\ h.n = handler[s].n /\ h.told = handler[s].told
    BY <1>2, <2>2, GotoMoves
  <2>4. Chunks(s, 0) = <<>>
    BY DEF Chunks
  <2>5. StoredAs(s, h, st)
    BY <1>1, <2>1, <2>2, <2>3, <2>4 DEF StoredAs
  <2>6. Moves(s, h, st)
    BY <2>2, <2>3 DEF Moves
  <2>. QED  BY <1>1, <2>1, <2>2, <2>5, <2>6, HandlerKeeps
<1>4. CASE DeleteState(s)
  <2>1. /\ Goto(s, "end") /\ store' = [store EXCEPT ![s] = Missing]
        /\ UNCHANGED <<client, conn, history, billed, faults>>
    BY <1>4 DEF DeleteState
  <2>2. PICK h \in Handler : /\ handler' = [handler EXCEPT ![s] = h]
                             /\ h.pc = "end" /\ h.n = handler[s].n /\ h.told = handler[s].told
    BY <1>2, <2>1, GotoMoves
  <2>3. StoredAs(s, h, Missing)
    BY <2>2 DEF StoredAs, Missing
  <2>4. Moves(s, h, Missing)
    BY <2>1, <2>2 DEF Moves
  <2>. QED  BY <1>1, <2>1, <2>3, <2>4, ConstantsFit, HandlerKeeps
<1>5. CASE ExpireState(s)
  <2>1. /\ store' = [store EXCEPT ![s] = Missing] /\ faults' \in 0..MaxFaults
        /\ UNCHANGED <<client, conn, handler, history, billed>>
    BY <1>5, FaultCounts DEF ExpireState
  <2>2. StoredAs(s, handler[s], Missing)
    BY <1>1 DEF StoredAs, Missing
  <2>3. handler' = [handler EXCEPT ![s] = handler[s]]
    BY <2>1 DEF TypeOK
  <2>4. Moves(s, handler[s], Missing)
    BY <2>1, <2>3 DEF Moves
  <2>. QED  BY <1>1, <2>1, <2>2, <2>4, ConstantsFit, HandlerKeeps
<1>6. CASE ProviderYields(s)
  <2>1. PICK h \in Handler : /\ handler' = [handler EXCEPT ![s] = h]
                             /\ h.pc = "get" /\ h.n = handler[s].n + 1 /\ h.told = handler[s].told
    BY <1>6, YieldMoves
  <2>2. /\ handler[s].pc = "read" /\ faults' \in 0..MaxFaults
        /\ UNCHANGED <<client, conn, store, history, billed>>
    BY <1>1, <1>6, FaultCounts DEF ProviderYields, Yields, At
  <2>3. handler[s].n \in Nat /\ h.n - 1 = handler[s].n /\ h.n > 0
    BY <1>1, <2>1, BoundsAssumption DEF Handler
  <2>4. StoredAs(s, h, store[s])
    BY <1>1, <2>1, <2>2, <2>3 DEF StoredAs, Failing
  <2>5. Moves(s, h, store[s])
    BY <2>1, <2>2, StoreUnchanged
  <2>. QED  BY <1>1, <2>2, <2>4, <2>5, HandlerKeeps
<1>7. CASE Drain(s)
  <2>. DEFINE h == [handler[s] EXCEPT !.waiting = FALSE]
  <2>1. handler' = [handler EXCEPT ![s] = h] /\ UNCHANGED <<client, conn, store, history, billed,
                                                            faults>>
    BY <1>7 DEF Drain
  <2>2. h \in Handler /\ h.pc = handler[s].pc /\ h.n = handler[s].n /\ h.told = handler[s].told
        /\ h.seen = handler[s].seen
    BY <1>1 DEF Handler
  <2>. HIDE DEF h
  <2>3. StoredAs(s, h, store[s])
    BY <1>1, <2>2 DEF StoredAs
  <2>4. Moves(s, h, store[s])
    BY <2>1, <2>2, StoreUnchanged
  <2>. QED  BY <1>1, <2>1, <2>2, <2>3, <2>4, HandlerKeeps
<1>8. CASE EndResponse(s)
  <2>1. /\ Goto(s, "over") /\ handler[s].pc = "end"
        /\ conn' = conn \/ conn' = [conn EXCEPT !.ended = TRUE]
        /\ UNCHANGED <<client, store, history, billed, faults>>
    BY <1>8 DEF EndResponse, At
  <2>2. PICK h \in Handler : /\ handler' = [handler EXCEPT ![s] = h]
                             /\ h.pc = "over" /\ h.n = handler[s].n /\ h.told = handler[s].told
    BY <1>2, <2>1, GotoMoves
  <2>3. StoredAs(s, h, store[s])
    BY <1>1, <2>1, <2>2 DEF StoredAs, Failing
  <2>4. Moves(s, h, store[s])
    BY <2>1, <2>2, StoreUnchanged
  <2>5. conn' \in Conn
    BY <1>1, <2>1 DEF Conn
  <2>. QED  BY <1>1, <2>1, <2>3, <2>4, <2>5, HandlerKeeps
<1>9. CASE NoticeClose(s)
  <2>. DEFINE h == [handler[s] EXCEPT !.gone = TRUE]
  <2>1. handler' = [handler EXCEPT ![s] = h] /\ UNCHANGED <<client, conn, store, history, billed,
                                                            faults>>
    BY <1>9 DEF NoticeClose
  <2>2. h \in Handler /\ h.pc = handler[s].pc /\ h.n = handler[s].n /\ h.told = handler[s].told
        /\ h.seen = handler[s].seen
    BY <1>1 DEF Handler
  <2>. HIDE DEF h
  <2>3. StoredAs(s, h, store[s])
    BY <1>1, <2>2 DEF StoredAs
  <2>4. Moves(s, h, store[s])
    BY <2>1, <2>2, StoreUnchanged
  <2>. QED  BY <1>1, <2>1, <2>2, <2>3, <2>4, HandlerKeeps
<1>. QED  BY <1>3, <1>4, <1>5, <1>6, <1>7, <1>8, <1>9

\* What resumeStream replays: start, the stored chunks, how it ended.
LEMMA ReplayEvents ==
  ASSUME NEW s \in Streams, store[s] \in States
  PROVE  /\ Replay(s) \in Seq(Events)
         /\ Len(Replay(s)) = Len(store[s].chunks) + 2
         /\ Replay(s)[1] = Event("start", s, <<>>)
         /\ \A i \in 1..Len(store[s].chunks) :
              Replay(s)[i + 1] = Event("chunk", s, store[s].chunks[i])
         /\ Replay(s)[Len(store[s].chunks) + 2].type \in {"done", "error"}
<1>. DEFINE chunks == store[s].chunks
            n == Len(chunks)
            start == <<Event("start", s, <<>>)>>
            e(i) == Event("chunk", s, chunks[i])
            told == [i \in 1..n |-> e(i)]
            type == IF store[s].finished /\ store[s].error THEN "error" ELSE "done"
            last == <<Event(type, s, <<>>)>>
<1>1. chunks \in Seq(Contents) /\ n \in Nat /\ \A i \in 1..n : chunks[i] \in Contents
  BY DEF States
<1>2. start \in Seq(Events) /\ Len(start) = 1 /\ start[1] = Event("start", s, <<>>)
  BY DEF Event, Events
<1>3. told \in Seq(Events) /\ Len(told) = n /\ \A i \in 1..n : told[i] = e(i)
  <2>. HIDE DEF chunks, n
  <2>1. \A i \in 1..n : e(i) \in Events
    BY <1>1 DEF Event, Events
  <2>. HIDE DEF e
  <2>. QED  BY <1>1, <2>1
<1>4. last \in Seq(Events) /\ Len(last) = 1 /\ last[1].type \in {"done", "error"}
  <2>1. type \in {"done", "error"}
    OBVIOUS
  <2>. HIDE DEF type
  <2>. QED  BY <2>1 DEF Event, Events
<1>5. Replay(s) = (start \o told) \o last
  BY DEF Replay
<1>. DEFINE u == start \o told
            w == u \o last
<1>6. e(0) = e(0) /\ \A i : e(i) = Event("chunk", s, chunks[i])
  OBVIOUS
<1>. HIDE DEF start, told, last, e
<1>7. u \in Seq(Events) /\ Len(u) = 1 + n /\ u[1] = start[1]
      /\ \A i \in 1..n : u[i + 1] = told[i]
  <2>1. /\ u \in Seq(Events) /\ Len(u) = Len(start) + Len(told)
        /\ \A i \in 1..(Len(start) + Len(told)) :
             u[i] = IF i <= Len(start) THEN start[i] ELSE told[i - Len(start)]
    BY <1>2, <1>3, ConcatProperties
  <2>2. /\ Len(start) = 1 /\ Len(told) = n /\ n \in Nat
        /\ \A i \in 1..n : i + 1 \in 1..(1 + n) /\ ~(i + 1 <= 1) /\ (i + 1) - 1 = i
    BY <1>1, <1>2, <1>3
  <2>. HIDE DEF u, n
  <2>3. 1 \in 1..(1 + n)
    BY <2>2
  <2>. QED  BY <2>1, <2>2, <2>3
<1>. HIDE DEF u, n
<1>8. /\ w \in Seq(Events) /\ Len(w) = n + 2 /\ w[1] = u[1]
      /\ (\A i \in 1..n : w[i + 1] = u[i + 1]) /\ w[n + 2] = last[1]
  <2>1. /\ w \in Seq(Events) /\ Len(w) = n + 2
        /\ \A i \in 1..(n + 2) : w[i] = IF i <= 1 + n THEN u[i] ELSE last[i - (1 + n)]
    <3>1. /\ w \in Seq(Events) /\ Len(w) = Len(u) + Len(last)
          /\ \A i \in 1..(Len(u) + Len(last)) :
               w[i] = IF i <= Len(u) THEN u[i] ELSE last[i - Len(u)]
      BY <1>4, <1>7, ConcatProperties
    <3>2. Len(u) + Len(last) = n + 2
      BY <1>1, <1>4, <1>7
    <3>. QED  BY <1>7, <3>1, <3>2
  <2>. HIDE DEF w
  <2>2. n + 2 \in 1..(n + 2) /\ n + 2 - (1 + n) = 1 /\ ~(n + 2 <= 1 + n) /\ 1 \in 1..(n + 2)
        /\ 1 <= 1 + n /\ \A i \in 1..n : i + 1 \in 1..(n + 2) /\ i + 1 <= 1 + n
    BY <1>1
  <2>3. \A i \in 1..n : w[i + 1] = u[i + 1]
    BY <2>1, <2>2
  <2>4. w[1] = u[1]
    BY <2>1, <2>2
  <2>5. ASSUME NEW k \in 1..(n + 2), k = n + 2 PROVE w[k] = last[1]
    <3>1. ~(k <= 1 + n) /\ k - (1 + n) = 1
      BY <1>1, <2>5
    <3>2. w[k] = last[k - (1 + n)]
      BY <2>1, <3>1
    <3>. QED  BY <3>1, <3>2
  <2>. QED  BY <2>1, <2>2, <2>3, <2>4, <2>5
<1>9. Replay(s) = w
  BY <1>5 DEF u
<1>. HIDE DEF w
<1>. QED  BY <1>1, <1>2, <1>3, <1>4, <1>6, <1>7, <1>8, <1>9 DEF n

\* The steps of the reader, of resumeStream and of the network.
LEMMA ClientKeeps ==
  ASSUME TypeOK, Stored, client' \in Client, conn' \in Conn, faults' \in 0..MaxFaults,
         UNCHANGED <<handler, store, history, billed>>
  PROVE  Kept
BY DEF TypeOK, Kept, Stored, StoredAs, Chunks

\* An accepted request keeps the types; a new handler has nothing stored.
LEMMA AcceptKeeps ==
  ASSUME TypeOK, Stored, NEW s \in Streams, AcceptResume(s) \/ AcceptNew(s)
  PROVE  Kept
<1>1. conn \in Conn /\ store[s] \in States /\ client \in Client /\ faults \in 0..MaxFaults
  BY DEF TypeOK
<1>2. CASE AcceptResume(s)
  <2>. DEFINE replay == Replay(s)
  <2>1. replay \in Seq(Events)
    BY <1>1, ReplayEvents
  <2>2. /\ conn' = [conn EXCEPT !.mode = "resume", !.stream = s, !.todo = replay]
        /\ UNCHANGED <<client, handler, store, history, billed, faults>>
    BY <1>2 DEF AcceptResume
  <2>. HIDE DEF replay
  <2>3. conn' \in Conn
    BY <1>1, <2>1, <2>2 DEF Conn
  <2>. QED  BY <1>1, <2>2, <2>3, ClientKeeps
<1>3. CASE AcceptNew(s)
  <2>1. /\ conn' = [conn EXCEPT !.mode = "new", !.stream = s]
        /\ Goto(s, "store") /\ handler[s] = Off
        /\ UNCHANGED <<client, store, history, billed, faults>>
    BY <1>3 DEF AcceptNew, Goto
  <2>2. conn' \in Conn
    BY <1>1, <2>1 DEF Conn
  <2>3. "store" \in HandlerPcs
    BY DEF HandlerPcs, Active
  <2>4. PICK h \in Handler : /\ handler' = [handler EXCEPT ![s] = h]
                             /\ h.pc = "store" /\ h.n = handler[s].n /\ h.told = handler[s].told
    BY <2>1, <2>3, GotoMoves
  <2>5. StoredAs(s, handler[s], store[s])
    BY DEF Stored
  <2>6. StoredAs(s, h, store[s])
    BY <2>1, <2>4, <2>5 DEF StoredAs, Off, Missing
  <2>7. Moves(s, h, store[s])
    BY <2>1, <2>4, StoreUnchanged
  <2>8. history' \subseteq Streams /\ billed' \subseteq Streams /\ faults' \in 0..MaxFaults
    BY <2>1 DEF TypeOK
  <2>. QED  BY <1>1, <2>1, <2>2, <2>6, <2>7, <2>8, HandlerKeeps
<1>. QED  BY <1>2, <1>3

\* Refusals, what resumeStream writes, reads, retries, drops and aborts keep them.
LEMMA ReaderKeeps ==
  ASSUME TypeOK, Stored, Refuse \/ ResumeSend \/ Read \/ Retry \/ Drop \/ Abort
  PROVE  Kept
<1>1. /\ conn \in Conn /\ client \in Client /\ faults \in 0..MaxFaults
      /\ conn.wire \in Seq(Events) /\ conn.todo \in Seq(Events) /\ client.text \in Seq(Contents)
      /\ client.attempts \in 0..MaxReconnectAttempts
  BY DEF TypeOK, Conn, Client
<1>2. <<>> \in Seq(Events)
  OBVIOUS
<1>3. CASE Refuse
  <2>1. conn' \in Conn
    BY <1>1, <1>3 DEF Refuse, Conn
  <2>. QED  BY <1>1, <1>3, <2>1, FaultCounts, ClientKeeps DEF Refuse
<1>4. CASE ResumeSend
  <2>1. UNCHANGED <<client, handler, store, history, billed, faults>>
    BY <1>4 DEF ResumeSend
  <2>2. CASE conn.todo = <<>>
    <3>1. conn' = [conn EXCEPT !.ended = TRUE]
      BY <1>4, <2>2 DEF ResumeSend
    <3>2. conn' \in Conn
      BY <1>1, <3>1 DEF Conn
    <3>. QED  BY <1>1, <2>1, <3>2, ClientKeeps
  <2>3. CASE conn.todo # <<>>
    <3>. DEFINE w == Append(conn.wire, Head(conn.todo))
                v == Tail(conn.todo)
    <3>1. conn' = [conn EXCEPT !.wire = w, !.todo = v]
      BY <1>4, <2>3 DEF ResumeSend
    <3>2. Head(conn.todo) \in Events /\ v \in Seq(Events)
      BY <1>1, <2>3, HeadTailProperties
    <3>3. w \in Seq(Events)
      BY <1>1, <3>2, AppendProperties
    <3>. HIDE DEF w, v
    <3>4. conn' \in Conn
      BY <1>1, <3>1, <3>2, <3>3 DEF Conn
    <3>. QED  BY <1>1, <2>1, <3>4, ClientKeeps
  <2>. QED  BY <2>2, <2>3
<1>5. CASE Read
  <2>. DEFINE e == Head(conn.wire)
              v == Tail(conn.wire)
              pc == CASE e.type = "done" -> "done" [] e.type = "error" -> "failed"
                    [] OTHER -> "reading"
              n == IF client.pc = "ask" THEN 0 ELSE client.attempts
              id == IF e.type = "start" THEN "stream" ELSE "event"
              sid == IF e.type = "start" THEN e.stream ELSE client.sid
              t == IF e.type = "chunk" /\ e.content # <<>>
                     THEN Append(client.text, e.content) ELSE client.text
  <2>1. e \in Events /\ v \in Seq(Events)
    BY <1>1, <1>5, HeadTailProperties DEF Read, Reading
  <2>2. /\ client' = [client EXCEPT !.pc = pc, !.attempts = n, !.lastId = id, !.sid = sid,
                                    !.text = t]
        /\ conn' = [conn EXCEPT !.wire = v]
        /\ UNCHANGED <<handler, store, history, billed, faults>>
    BY <1>5 DEF Read
  <2>. HIDE DEF e
  <2>3. t \in Seq(Contents)
    <3>1. ASSUME e.content # <<>> PROVE Append(client.text, e.content) \in Seq(Contents)
      <4>1. e.content \in Contents
        BY <2>1, <3>1 DEF Events
      <4>. QED  BY <1>1, <4>1, AppendProperties
    <3>. QED  BY <1>1, <3>1
  <2>4. pc \in ClientPcs /\ id \in EventIds /\ sid \in Streams \cup {NoStream}
    BY <1>1, <2>1 DEF ClientPcs, EventIds, Events, Client
  <2>5. n \in 0..MaxReconnectAttempts
    BY <1>1, BoundsAssumption
  <2>. HIDE DEF pc, n, id, sid, t, v
  <2>6. client' \in Client
    BY <1>1, <2>2, <2>3, <2>4, <2>5 DEF Client
  <2>7. conn' \in Conn
    BY <1>1, <2>1, <2>2 DEF Conn
  <2>. QED  BY <1>1, <2>2, <2>6, <2>7, ClientKeeps
<1>6. CASE Retry
  <2>1. PICK n \in 0..MaxReconnectAttempts :
          client' = IF client.lastId # "none" /\ n < MaxReconnectAttempts
                      THEN [client EXCEPT !.pc = "ask", !.attempts = n + 1]
                      ELSE [client EXCEPT !.pc = "failed", !.attempts = n]
    <3>1. (IF client.pc = "ask" /\ conn.ended THEN 0 ELSE client.attempts)
            \in 0..MaxReconnectAttempts
      BY <1>1, BoundsAssumption
    <3>. QED  BY <1>6, <3>1 DEF Retry
  <2>2. client' \in Client
    <3>1. n < MaxReconnectAttempts => n + 1 \in 0..MaxReconnectAttempts
      BY BoundsAssumption
    <3>2. "ask" \in ClientPcs /\ "failed" \in ClientPcs
      BY DEF ClientPcs
    <3>. QED  BY <1>1, <2>1, <3>1, <3>2 DEF Client
  <2>3. /\ conn' = NewConn \/ conn' = conn
        /\ UNCHANGED <<handler, store, history, billed, faults>>
    BY <1>6 DEF Retry
  <2>. QED  BY <1>1, <2>2, <2>3, ConstantsFit, ClientKeeps
<1>7. CASE Drop
  <2>1. PICK k \in 0..Len(conn.wire) :
          conn' = [conn EXCEPT !.up = FALSE, !.wire = SubSeq(conn.wire, 1, k), !.todo = <<>>]
    BY <1>7 DEF Drop
  <2>. DEFINE w == SubSeq(conn.wire, 1, k)
  <2>2. w \in Seq(Events)
    <3>1. \A i \in 1..k : conn.wire[i] \in Events
      BY <1>1
    <3>. QED  BY <3>1, SubSeqProperties
  <2>3. conn' = [conn EXCEPT !.up = FALSE, !.wire = w, !.todo = <<>>]
    BY <2>1
  <2>. HIDE DEF w
  <2>4. conn' \in Conn
    BY <1>1, <1>2, <2>2, <2>3 DEF Conn
  <2>5. faults' \in 0..MaxFaults /\ UNCHANGED <<client, handler, store, history, billed>>
    BY <1>7, FaultCounts DEF Drop
  <2>. QED  BY <1>1, <2>4, <2>5, ClientKeeps
<1>8. CASE Abort
  <2>1. client' \in Client
    BY <1>1, <1>8 DEF Abort, Client, ClientPcs
  <2>2. conn' \in Conn
    BY <1>1, <1>2, <1>8 DEF Abort, Conn
  <2>. QED  BY <1>1, <1>8, <2>1, <2>2, ClientKeeps DEF Abort
<1>. QED  BY <1>3, <1>4, <1>5, <1>6, <1>7, <1>8

\* Every step keeps the types and what is stored.
LEMMA StoredNext == TypeOK /\ Stored /\ [Next]_vars => Kept
<1>. SUFFICES ASSUME TypeOK, Stored, [Next]_vars PROVE Kept
  OBVIOUS
<1>1. CASE Accept
  BY <1>1, AcceptKeeps DEF Accept
<1>2. CASE Refuse \/ ResumeSend \/ Read \/ Retry \/ Drop \/ Abort
  BY <1>2, ReaderKeeps
<1>3. ASSUME NEW s \in Streams, HandlerStep(s) \/ FaultStep(s) \/ NoticeClose(s) PROVE Kept
  BY <1>3, GotosKeep, SendsKeep, GetsKeep, SetsKeep, OthersKeep DEF HandlerStep, FaultStep
<1>4. CASE UNCHANGED vars
  BY <1>4 DEF vars, Kept, TypeOK, Stored, StoredAs, Chunks
<1>. QED  BY <1>1, <1>2, <1>3, <1>4 DEF Next

\* What Redis holds of a stream follows from where its handler is.
THEOREM StoredHolds == Spec => [](TypeOK /\ Stored)
<1>1. Kept <=> (TypeOK /\ Stored)'
  BY DEF Kept
<1>. QED  BY <1>1, InitStored, StoredNext, PTL DEF Spec

\* The types hold in every reachable state.
THEOREM TypeCorrect == Spec => []TypeOK
BY StoredHolds, PTL

\* The state in Redis never misses a chunk before another: however GET, SETEX,
\* expiry and failure interleave, it holds the first chunks that the handler took
\* from the provider, and all of them while the handler waits for the next.
THEOREM NoHolesStored == Spec => []StoredChunksHaveNoHoles
<1>1. TypeOK /\ Stored => StoredChunksHaveNoHoles
  <2>. SUFFICES ASSUME TypeOK, Stored, NEW s \in Streams, store[s].there
                PROVE  /\ IsPrefix(store[s].chunks, Chunks(s, handler[s].n))
                       /\ handler[s].pc = "read" => store[s].chunks = Chunks(s, handler[s].n)
    BY DEF StoredChunksHaveNoHoles
  <2>1. handler[s].n \in 0..MaxChunks /\ StoredAs(s, handler[s], store[s])
    BY DEF TypeOK, Stored, Handler
  <2>2. PICK m \in 0..handler[s].n : /\ store[s].chunks = Chunks(s, m)
                                     /\ handler[s].pc = "read" => m = handler[s].n
    <3>1. \/ store[s].chunks = Chunks(s, handler[s].n)
          \/ /\ handler[s].n > 0 /\ store[s].chunks = Chunks(s, handler[s].n - 1)
             /\ handler[s].pc # "read"
      BY <2>1 DEF StoredAs, Failing
    <3>. QED  BY <2>1, <3>1, BoundsAssumption
  <2>. DEFINE u == Chunks(s, m)
              v == Chunks(s, handler[s].n)
  <2>3. /\ u \in Seq(Contents) /\ Len(u) = m /\ (\A i \in 1..m : u[i] = <<s, i - 1>>)
        /\ v \in Seq(Contents) /\ Len(v) = handler[s].n
        /\ \A i \in 1..handler[s].n : v[i] = <<s, i - 1>>
    <3>1. m \in 0..MaxChunks
      BY <2>1, BoundsAssumption
    <3>. QED  BY <2>1, <3>1, ChunksOfStream
  <2>. HIDE DEF u, v
  <2>4. IsPrefix(u, v)
    <3>1. m \in Nat /\ handler[s].n \in Nat /\ m <= handler[s].n
      BY <2>1, BoundsAssumption
    <3>2. DOMAIN u = 1..m /\ DOMAIN v = 1..handler[s].n
      BY <2>3
    <3>3. SubSeq(u, 1, m) = SubSeq(v, 1, m)
      <4>1. ASSUME NEW i \in 1..m
            PROVE  u[i] \in Contents /\ v[i] \in Contents /\ u[i] = v[i]
        <5>1. i \in 1..handler[s].n /\ i \in 1..Len(u)
          BY <2>3, <3>1
        <5>. QED  BY <2>3, <5>1, ElementOfSeq
      <4>2. /\ SubSeq(u, 1, m) \in Seq(Contents) /\ Len(SubSeq(u, 1, m)) = m
            /\ \A i \in 1..m : SubSeq(u, 1, m)[i] = u[i]
        BY <3>1, <4>1, SubSeqProperties
      <4>3. /\ SubSeq(v, 1, m) \in Seq(Contents) /\ Len(SubSeq(v, 1, m)) = m
            /\ \A i \in 1..m : SubSeq(v, 1, m)[i] = v[i]
        BY <3>1, <4>1, SubSeqProperties
      <4>. QED  BY <4>1, <4>2, <4>3, SeqEqual
    <3>. QED  BY <2>3, <3>1, <3>3 DEF IsPrefix
  <2>. QED  BY <2>2, <2>4 DEF u, v
<1>. QED  BY <1>1, StoredHolds, PTL

-----------------------------------------------------------------------------
\* The inductive invariant: what is on its way.

\* The text ends with the first r chunks of stream s.
EndsWith(text, s, r) ==
  /\ r <= Len(text)
  /\ \A i \in 1..r : text[Len(text) - r + i] = <<s, i - 1>>

\* The events after which nothing is appended, the chunk with the finishReason.
Closes(e) == e.type \in {"done", "error"}
IsLast(e) == e.type = "chunk" /\ e.content = <<>>

\* The first b events of flow f are followed by nothing, by done or error, or by
\* the chunk without content and, then, done or error.
Shape(f, b) ==
  b < Len(f) => \/ Closes(f[b + 1])
                \/ IsLast(f[b + 1]) /\ (b + 1 < Len(f) => Closes(f[b + 2]))
Ended(f, b) == b < Len(f) /\ (Closes(f[b + 1]) \/ b + 1 < Len(f))
DoneAt(f, b) ==
  /\ b < Len(f)
  /\ \/ f[b + 1].type = "done"
     \/ IsLast(f[b + 1]) /\ b + 1 < Len(f) /\ f[b + 2].type = "done"

\* The first b events of f are the start of stream s, if off is 1, and the chunks
\* of s from the r-th on.
Runs(f, s, r, off, b) ==
  /\ off <= b
  /\ off = 1 => r = 0 /\ f[1].type = "start"
  /\ \A i \in (off + 1)..b : f[i].type = "chunk" /\ f[i].content = <<s, r + i - 1 - off>>
  /\ Shape(f, b)

\* A handler before its start event, in its loop, after its finishReason; what it
\* has sent of what it took.
Fresh(h) == h.pc \in {"store", "start"}
Plain(h) == h.pc \in {"read", "last", "get", "set", "chunk"}
Marked(h) == h.pc \in {"markGet", "markSet", "done"}
Sent(h) == IF h.pc \in {"get", "set", "chunk"} THEN h.n - 1 ELSE h.n

\* How the flow of a handler's own connection fits where the handler is.
SentFits(h, f, r, off, b) ==
  /\ h.told # -1 => Ended(f, b)
  /\ h.told = -1 /\ Fresh(h) => f = <<>> /\ r = 0
  /\ h.told = -1 /\ Plain(h) => b = Len(f) /\ r + b - off = Sent(h)
  /\ h.told = -1 /\ Marked(h) => /\ r + b - off = h.n
                                 /\ b = Len(f) \/ (b + 1 = Len(f) /\ IsLast(f[b + 1]))

\* A connection is of a handler that writes into it, of one whose client is gone,
\* or of resumeStream.
Link(c) == IF c.mode # "new" THEN "resume" ELSE IF c.up THEN "own" ELSE "lost"

\* Flow f brings a reader with this text the next chunks of stream s; if it is of
\* a new stream, the done in it says how many there are.
Carries(f, text, h, s, link) ==
  \E r \in 0..MaxChunks, off \in {0, 1}, b \in 0..Len(f) :
    /\ Runs(f, s, r, off, b)
    /\ EndsWith(text, s, r)
    /\ link # "resume" /\ DoneAt(f, b) => h.told = r + b - off
    /\ link = "own" => SentFits(h, f, r, off, b)

Pipe == conn.wire \o conn.todo

Flow ==
  client.pc \in {"ask", "reading"} /\ conn.mode # "none" =>
    Carries(Pipe, client.text, handler[conn.stream], conn.stream, Link(conn))

Conns ==
  /\ conn.mode = "none" => conn.wire = <<>>
  /\ conn.mode # "resume" => conn.todo = <<>>
  /\ conn.mode # "none" => conn.stream \in Streams

Full ==
  client.pc = "done" /\ conn.mode = "new" =>
    handler[conn.stream].told # -1 /\ EndsWith(client.text, conn.stream, handler[conn.stream].told)

Traced == Conns /\ TextHasNoGaps /\ Flow /\ Full

-----------------------------------------------------------------------------
\* Appending to a flow.

\* A flow with one more event.
LEMMA Appended ==
  ASSUME NEW f \in Seq(Events), NEW e \in Events
  PROVE  /\ Append(f, e) \in Seq(Events) /\ Len(f) \in Nat /\ Len(Append(f, e)) = Len(f) + 1
         /\ \A i \in 1..Len(f) : Append(f, e)[i] = f[i]
         /\ Append(f, e)[Len(f) + 1] = e
BY AppendProperties, LenProperties

\* After its end a flow says the same, whatever follows.
LEMMA EndedStays ==
  ASSUME NEW f \in Seq(Events), NEW e \in Events, NEW b \in 0..Len(f),
         Shape(f, b), Ended(f, b)
  PROVE  /\ Shape(Append(f, e), b) /\ Ended(Append(f, e), b)
         /\ DoneAt(Append(f, e), b) <=> DoneAt(f, b)
<1>. DEFINE g == Append(f, e)
<1>1. /\ Len(f) \in Nat /\ Len(g) = Len(f) + 1 /\ \A i \in 1..Len(f) : g[i] = f[i]
  BY Appended
<1>. HIDE DEF g
<1>2. b \in Nat /\ b < Len(f) /\ b + 1 \in 1..Len(f) /\ b + 1 < Len(g) /\ g[b + 1] = f[b + 1]
  BY <1>1 DEF Ended
<1>3. ASSUME Closes(f[b + 1])
      PROVE  Shape(g, b) /\ Ended(g, b) /\ (DoneAt(g, b) <=> DoneAt(f, b))
  BY <1>1, <1>2, <1>3 DEF Shape, Ended, DoneAt, Closes, IsLast
<1>4. ASSUME ~Closes(f[b + 1])
      PROVE  Shape(g, b) /\ Ended(g, b) /\ (DoneAt(g, b) <=> DoneAt(f, b))
  <2>1. b + 1 < Len(f) /\ b + 2 \in 1..Len(f) /\ g[b + 2] = f[b + 2] /\ Closes(f[b + 2])
    BY <1>1, <1>2, <1>4 DEF Ended, Shape
  <2>. QED  BY <1>1, <1>2, <1>4, <2>1 DEF Shape, Ended, DoneAt
<1>5. Shape(g, b) /\ Ended(g, b) /\ (DoneAt(g, b) <=> DoneAt(f, b))
  BY <1>3, <1>4
<1>. QED  BY <1>5 DEF g

\* What a flow runs through does not depend on what is appended.
LEMMA RunsOn ==
  ASSUME NEW f \in Seq(Events), NEW e \in Events, NEW s, NEW r \in Nat, NEW off \in {0, 1},
         NEW b \in 0..Len(f), Runs(f, s, r, off, b), Shape(Append(f, e), b)
  PROVE  Runs(Append(f, e), s, r, off, b)
<1>1. /\ Len(f) \in Nat /\ \A i \in 1..Len(f) : Append(f, e)[i] = f[i]
  BY Appended
<1>2. off = 1 => 1 \in 1..Len(f)
  BY <1>1 DEF Runs
<1>3. \A i \in (off + 1)..b : i \in 1..Len(f)
  BY <1>1
<1>. HIDE DEF Shape
<1>. QED  BY <1>1, <1>2, <1>3 DEF Runs

\* A handler that was told sends on: nothing changes.
LEMMA SendAfterTold ==
  ASSUME NEW f \in Seq(Events), NEW e \in Events, NEW text, NEW s, NEW h \in Handler,
         NEW g \in Handler, Carries(f, text, h, s, "own"), h.told # -1, g.told = h.told
  PROVE  Carries(Append(f, e), text, g, s, "own")
<1>1. PICK r \in 0..MaxChunks, off \in {0, 1}, b \in 0..Len(f) :
        /\ Runs(f, s, r, off, b) /\ EndsWith(text, s, r)
        /\ DoneAt(f, b) => h.told = r + b - off
        /\ Ended(f, b)
  BY DEF Carries, SentFits
<1>2. /\ Shape(Append(f, e), b) /\ Ended(Append(f, e), b)
      /\ DoneAt(Append(f, e), b) <=> DoneAt(f, b)
  BY <1>1, EndedStays DEF Runs
<1>3. Runs(Append(f, e), s, r, off, b)
  <2>1. r \in Nat
    BY BoundsAssumption
  <2>. QED  BY <1>1, <1>2, <2>1, RunsOn
<1>4. b \in 0..Len(Append(f, e))
  BY Appended
<1>5. SentFits(g, Append(f, e), r, off, b)
  BY <1>2 DEF SentFits
<1>. QED  BY <1>1, <1>2, <1>3, <1>4, <1>5 DEF Carries

\* The start event opens an empty flow.
LEMMA SendsStart ==
  ASSUME NEW f \in Seq(Events), NEW e \in Events, NEW text, NEW s, NEW h \in Handler,
         NEW g \in Handler, Carries(f, text, h, s, "own"),
         h.told = -1, h.pc = "start", h.n = 0, e.type = "start",
         g.pc = "read", g.n = h.n, g.told = h.told
  PROVE  Carries(Append(f, e), text, g, s, "own")
<1>1. f = <<>> /\ EndsWith(text, s, 0) /\ 0 \in 0..MaxChunks
  BY BoundsAssumption DEF Carries, SentFits, Fresh
<1>. DEFINE w == Append(f, e)
<1>2. Len(w) = 1 /\ w[1] = e
  BY <1>1, Appended
<1>. HIDE DEF w
<1>3. Runs(w, s, 0, 1, 1) /\ ~DoneAt(w, 1)
  BY <1>2 DEF Runs, Shape, DoneAt
<1>4. SentFits(g, w, 0, 1, 1)
  BY <1>2 DEF SentFits, Fresh, Plain, Marked, Sent
<1>5. 1 \in 0..Len(w) /\ 1 \in {0, 1}
  BY <1>2
<1>6. Carries(w, text, g, s, "own")
  BY <1>1, <1>3, <1>4, <1>5 DEF Carries
<1>. QED  BY <1>6 DEF w

\* A chunk continues the flow.
LEMMA SendsChunk ==
  ASSUME NEW f \in Seq(Events), NEW e \in Events, NEW text, NEW s, NEW h \in Handler,
         NEW g \in Handler, Carries(f, text, h, s, "own"),
         h.told = -1, h.pc = "chunk", e.type = "chunk", e.content = <<s, h.n - 1>>,
         g.pc = "read", g.n = h.n, g.told = h.told
  PROVE  Carries(Append(f, e), text, g, s, "own")
<1>1. PICK r \in 0..MaxChunks, off \in {0, 1}, b \in 0..Len(f) :
        Runs(f, s, r, off, b) /\ EndsWith(text, s, r) /\ SentFits(h, f, r, off, b)
  BY DEF Carries
<1>2. b = Len(f) /\ r + b - off = h.n - 1
  BY <1>1 DEF SentFits, Plain, Sent
<1>. DEFINE w == Append(f, e)
<1>3. /\ Len(f) \in Nat /\ Len(w) = Len(f) + 1 /\ w[Len(f) + 1] = e
      /\ \A i \in 1..Len(f) : w[i] = f[i]
  BY Appended
<1>4. h.n \in Int /\ r \in Nat /\ b \in Nat
  BY <1>3, BoundsAssumption DEF Handler
<1>. HIDE DEF w
<1>5. Runs(w, s, r, off, b + 1)
  <2>1. off <= b + 1 /\ Shape(w, b + 1)
    BY <1>1, <1>2, <1>3 DEF Runs, Shape
  <2>2. off = 1 => r = 0 /\ w[1].type = "start"
    <3>1. off = 1 => 1 \in 1..Len(f)
      BY <1>1, <1>3 DEF Runs
    <3>. QED  BY <1>1, <1>3, <3>1 DEF Runs
  <2>3. ASSUME NEW i \in (off + 1)..(b + 1)
        PROVE  w[i].type = "chunk" /\ w[i].content = <<s, r + i - 1 - off>>
    <3>1. CASE i = b + 1
      <4>1. w[i] = e /\ r + i - 1 - off = h.n - 1
        BY <1>2, <1>3, <1>4, <3>1
      <4>. QED  BY <4>1
    <3>2. CASE i # b + 1
      <4>1. i \in (off + 1)..b /\ w[i] = f[i]
        BY <1>2, <1>3, <3>2
      <4>. QED  BY <1>1, <4>1 DEF Runs
    <3>. QED  BY <3>1, <3>2
  <2>. HIDE DEF Shape
  <2>. QED  BY <2>1, <2>2, <2>3 DEF Runs
<1>6. ~DoneAt(w, b + 1) /\ b + 1 \in 0..Len(w)
  BY <1>2, <1>3, <1>4 DEF DoneAt
<1>7. SentFits(g, w, r, off, b + 1)
  BY <1>2, <1>3, <1>4, SMTT(20) DEF SentFits, Fresh, Plain, Marked, Sent
<1>8. Carries(w, text, g, s, "own")
  BY <1>1, <1>5, <1>6, <1>7 DEF Carries
<1>. QED  BY <1>8 DEF w

\* The chunk with the finishReason ends the run.
LEMMA SendsLast ==
  ASSUME NEW f \in Seq(Events), NEW e \in Events, NEW text, NEW s, NEW h \in Handler,
         NEW g \in Handler, Carries(f, text, h, s, "own"),
         h.told = -1, h.pc = "last", e.type = "chunk", e.content = <<>>,
         g.pc = "markGet", g.n = h.n, g.told = h.told
  PROVE  Carries(Append(f, e), text, g, s, "own")
<1>1. PICK r \in 0..MaxChunks, off \in {0, 1}, b \in 0..Len(f) :
        Runs(f, s, r, off, b) /\ EndsWith(text, s, r) /\ SentFits(h, f, r, off, b)
  BY DEF Carries
<1>2. b = Len(f) /\ r + b - off = h.n
  BY <1>1 DEF SentFits, Plain, Sent
<1>. DEFINE w == Append(f, e)
<1>3. Len(f) \in Nat /\ Len(w) = Len(f) + 1 /\ w[Len(f) + 1] = e
  BY Appended
<1>4. b \in 0..Len(w)
  BY <1>3
<1>. HIDE DEF w
<1>5. Shape(w, b) /\ ~DoneAt(w, b) /\ IsLast(w[b + 1]) /\ b + 1 = Len(w)
  BY <1>2, <1>3 DEF Shape, DoneAt, IsLast
<1>6. Runs(w, s, r, off, b)
  BY <1>1, <1>5, RunsOn, BoundsAssumption DEF w
<1>7. SentFits(g, w, r, off, b)
  BY <1>2, <1>5 DEF SentFits, Fresh, Plain, Marked
<1>8. Carries(w, text, g, s, "own")
  BY <1>1, <1>4, <1>5, <1>6, <1>7 DEF Carries
<1>. QED  BY <1>8 DEF w

\* The first done tells how many chunks there are.
LEMMA SendsDone ==
  ASSUME NEW f \in Seq(Events), NEW e \in Events, NEW text, NEW s, NEW h \in Handler,
         NEW g \in Handler, Carries(f, text, h, s, "own"),
         h.told = -1, h.pc = "done", e.type = "done", g.told = h.n
  PROVE  Carries(Append(f, e), text, g, s, "own")
<1>1. PICK r \in 0..MaxChunks, off \in {0, 1}, b \in 0..Len(f) :
        Runs(f, s, r, off, b) /\ EndsWith(text, s, r) /\ SentFits(h, f, r, off, b)
  BY DEF Carries
<1>2. r + b - off = h.n /\ (b = Len(f) \/ (b + 1 = Len(f) /\ IsLast(f[b + 1])))
  BY <1>1 DEF SentFits, Marked
<1>. DEFINE w == Append(f, e)
<1>3. /\ Len(f) \in Nat /\ Len(w) = Len(f) + 1 /\ w[Len(f) + 1] = e
      /\ \A i \in 1..Len(f) : w[i] = f[i]
  BY Appended
<1>4. b \in 0..Len(w)
  BY <1>3
<1>. HIDE DEF w
<1>5. Shape(w, b) /\ Ended(w, b)
  <2>1. CASE b = Len(f)
    BY <1>3, <2>1 DEF Shape, Ended, Closes
  <2>2. CASE b + 1 = Len(f) /\ IsLast(f[b + 1])
    <3>1. b + 1 \in 1..Len(f) /\ b + 2 = Len(f) + 1 /\ b < Len(w)
      BY <1>3, <2>2
    <3>2. w[b + 1] = f[b + 1] /\ w[b + 2] = e
      BY <1>3, <3>1
    <3>. QED  BY <1>3, <2>2, <3>1, <3>2 DEF Shape, Ended, Closes
  <2>. QED  BY <1>2, <2>1, <2>2
<1>6. Runs(w, s, r, off, b)
  <2>1. r \in Nat
    BY BoundsAssumption
  <2>. QED  BY <1>1, <1>5, <2>1, RunsOn DEF w
<1>7. SentFits(g, w, r, off, b)
  <2>1. g.told # -1
    BY BoundsAssumption DEF Handler
  <2>. QED  BY <1>5, <2>1 DEF SentFits
<1>8. Carries(w, text, g, s, "own")
  BY <1>1, <1>2, <1>4, <1>6, <1>7 DEF Carries
<1>. QED  BY <1>8 DEF w

\* An error without a done before it tells nothing.
LEMMA SendsError ==
  ASSUME NEW f \in Seq(Events), NEW e \in Events, NEW text, NEW s, NEW h \in Handler,
         NEW g \in Handler, Carries(f, text, h, s, "own"),
         h.told = -1, e.type = "error", g.told = h.told, g.pc = "end"
  PROVE  Carries(Append(f, e), text, g, s, "own")
<1>1. PICK r \in 0..MaxChunks, off \in {0, 1}, b \in 0..Len(f) :
        /\ Runs(f, s, r, off, b) /\ EndsWith(text, s, r)
        /\ DoneAt(f, b) => h.told = r + b - off
  BY DEF Carries
<1>2. off <= b /\ Shape(f, b)
  BY <1>1 DEF Runs
<1>. DEFINE w == Append(f, e)
<1>3. /\ Len(f) \in Nat /\ Len(w) = Len(f) + 1 /\ w[Len(f) + 1] = e
      /\ \A i \in 1..Len(f) : w[i] = f[i]
  BY Appended
<1>4. b \in 0..Len(w) /\ r \in Nat /\ b \in Nat
  BY <1>3, BoundsAssumption
<1>5. ~DoneAt(f, b)
  BY <1>1, <1>2, <1>4
<1>. HIDE DEF w
<1>6. Shape(w, b) /\ ~DoneAt(w, b)
  <2>1. CASE b = Len(f)
    BY <1>3, <2>1 DEF Shape, DoneAt, Closes, IsLast
  <2>2. CASE b + 1 = Len(f)
    <3>1. b + 1 \in 1..Len(f) /\ b + 2 = Len(f) + 1 /\ b < Len(f) /\ b < Len(w)
      BY <1>3, <2>2
    <3>2. w[b + 1] = f[b + 1] /\ w[b + 2] = e
      BY <1>3, <3>1
    <3>. QED  BY <1>2, <1>3, <1>5, <2>2, <3>1, <3>2 DEF Shape, DoneAt, Closes
  <2>3. CASE b + 1 < Len(f)
    <3>1. b + 1 \in 1..Len(f) /\ b + 2 \in 1..Len(f) /\ b < Len(f) /\ b < Len(w)
      BY <1>3, <1>4, <2>3
    <3>2. w[b + 1] = f[b + 1] /\ w[b + 2] = f[b + 2]
      BY <1>3, <3>1
    <3>. QED  BY <1>2, <1>3, <1>5, <2>3, <3>1, <3>2 DEF Shape, DoneAt
  <2>. QED  BY <1>3, <1>4, <2>1, <2>2, <2>3
<1>7. Runs(w, s, r, off, b)
  BY <1>1, <1>4, <1>6, RunsOn DEF w
<1>8. SentFits(g, w, r, off, b)
  BY DEF SentFits, Fresh, Plain, Marked
<1>9. Carries(w, text, g, s, "own")
  BY <1>1, <1>4, <1>6, <1>7, <1>8 DEF Carries
<1>. QED  BY <1>9 DEF w

-----------------------------------------------------------------------------
\* Taking the first event of a flow, cutting a flow, leaving it alone.

\* g is f without its first event.
Rest(f, g) == Len(g) = Len(f) - 1 /\ \A i \in 1..Len(g) : g[i] = f[i + 1]

\* The end of a flow is the end of its rest.
LEMMA EndsShift ==
  ASSUME NEW f \in Seq(Events), NEW g \in Seq(Events), Rest(f, g), NEW b \in 1..Len(f)
  PROVE  /\ b - 1 \in 0..Len(g)
         /\ b = Len(f) <=> b - 1 = Len(g)
         /\ b < Len(f) => g[b] = f[b + 1]
         /\ Shape(f, b) <=> Shape(g, b - 1)
         /\ Ended(f, b) <=> Ended(g, b - 1)
         /\ DoneAt(f, b) <=> DoneAt(g, b - 1)
<1>. DEFINE c == b - 1
<1>1. /\ Len(f) \in Nat /\ Len(g) \in Nat /\ b \in Nat /\ c \in Nat /\ c + 1 = b
      /\ c \in 0..Len(g) /\ (b = Len(f) <=> c = Len(g)) /\ (b < Len(f) <=> c < Len(g))
      /\ (b + 1 < Len(f) <=> c + 1 < Len(g)) /\ c + 2 = b + 1 /\ b + 1 + 1 = b + 2
  BY LenProperties DEF Rest
<1>2. b < Len(f) => b \in 1..Len(g) /\ g[b] = f[b + 1]
  BY <1>1 DEF Rest
<1>3. ASSUME b + 1 < Len(f) PROVE g[b + 1] = f[b + 2]
  <2>1. b + 1 \in 1..Len(g) /\ (b + 1) + 1 = b + 2
    BY <1>1, <1>3
  <2>2. g[b + 1] = f[(b + 1) + 1]
    BY <2>1 DEF Rest
  <2>. QED  BY <2>1, <2>2
<1>. HIDE DEF c
<1>4. Shape(f, b) <=> Shape(g, c)
  BY <1>1, <1>2, <1>3 DEF Shape
<1>5. Ended(f, b) <=> Ended(g, c)
  BY <1>1, <1>2, <1>3 DEF Ended
<1>6. DoneAt(f, b) <=> DoneAt(g, c)
  BY <1>1, <1>2, <1>3 DEF DoneAt
<1>. QED  BY <1>1, <1>2, <1>4, <1>5, <1>6 DEF c

\* The handler's side of a flow whose first event, one of the run, is taken.
LEMMA SentFitsRest ==
  ASSUME NEW f \in Seq(Events), NEW g \in Seq(Events), Rest(f, g), NEW b \in 1..Len(f),
         NEW h, NEW r, NEW off, NEW r2, NEW off2, SentFits(h, f, r, off, b),
         r2 + (b - 1) - off2 = r + b - off
  PROVE  SentFits(h, g, r2, off2, b - 1)
<1>1. f # <<>>
  BY EmptySeq
<1>2. /\ b = Len(f) <=> b - 1 = Len(g)
      /\ b < Len(f) => g[b] = f[b + 1]
      /\ Ended(f, b) <=> Ended(g, b - 1)
  BY EndsShift
<1>3. Len(f) \in Nat /\ Len(g) = Len(f) - 1 /\ b - 1 + 1 = b /\ (b + 1 = Len(f) <=> b = Len(g))
  BY LenProperties DEF Rest
<1>4. b + 1 = Len(f) => b < Len(f)
  BY <1>3
<1>. QED  BY <1>1, <1>2, <1>3, <1>4 DEF SentFits

\* Taking the start event.
LEMMA TakesStart ==
  ASSUME NEW f \in Seq(Events), NEW g \in Seq(Events), Rest(f, g), f # <<>>,
         NEW text, NEW h, NEW s, NEW link,
         Carries(f, text, h, s, link), f[1].type = "start"
  PROVE  Carries(g, text, h, s, link)
<1>1. PICK r \in 0..MaxChunks, off \in {0, 1}, b \in 0..Len(f) :
        /\ Runs(f, s, r, off, b) /\ EndsWith(text, s, r)
        /\ link # "resume" /\ DoneAt(f, b) => h.told = r + b - off
        /\ link = "own" => SentFits(h, f, r, off, b)
  BY DEF Carries
<1>2. Len(f) \in Nat /\ Len(f) > 0 /\ r \in Nat
  BY EmptySeq, BoundsAssumption
<1>3. b # 0
  <2>. SUFFICES ASSUME b = 0 PROVE FALSE
    OBVIOUS
  <2>1. Shape(f, 0)
    BY <1>1 DEF Runs
  <2>. QED  BY <1>2, <2>1 DEF Shape, Closes, IsLast
<1>4. off = 1
  <2>. SUFFICES ASSUME off = 0 PROVE FALSE
    OBVIOUS
  <2>1. 1 \in (off + 1)..b
    BY <1>2, <1>3
  <2>. QED  BY <1>1, <2>1 DEF Runs
<1>5. b \in 1..Len(f) /\ r + (b - 1) - 0 = r + b - off /\ 0 \in {0, 1} /\ 0 <= b - 1
  BY <1>2, <1>3, <1>4
<1>6. /\ b - 1 \in 0..Len(g)
      /\ Shape(f, b) <=> Shape(g, b - 1)
      /\ DoneAt(f, b) <=> DoneAt(g, b - 1)
  BY <1>5, EndsShift
<1>7. Runs(g, s, r, 0, b - 1)
  <2>1. ASSUME NEW i \in (0 + 1)..(b - 1)
        PROVE  g[i].type = "chunk" /\ g[i].content = <<s, r + i - 1 - 0>>
    <3>1. /\ i + 1 \in (off + 1)..b /\ i \in 1..Len(g)
          /\ r + (i + 1) - 1 - off = r + i - 1 - 0
      BY <1>2, <1>4, <1>5, <1>6
    <3>2. f[i + 1].type = "chunk" /\ f[i + 1].content = <<s, r + (i + 1) - 1 - off>>
      BY <1>1, <3>1 DEF Runs
    <3>3. g[i] = f[i + 1]
      BY <3>1 DEF Rest
    <3>. QED  BY <3>1, <3>2, <3>3
  <2>2. Shape(g, b - 1)
    BY <1>1, <1>6 DEF Runs
  <2>. HIDE DEF Shape
  <2>. QED  BY <1>5, <2>1, <2>2 DEF Runs
<1>8. link = "own" => SentFits(h, g, r, 0, b - 1)
  BY <1>1, <1>5, SentFitsRest
<1>9. link # "resume" /\ DoneAt(g, b - 1) => h.told = r + (b - 1) - 0
  BY <1>1, <1>5, <1>6
<1>. HIDE DEF Runs, EndsWith, SentFits, DoneAt
<1>. QED  BY <1>1, <1>5, <1>6, <1>7, <1>8, <1>9 DEF Carries

\* Taking a chunk with content: it is the next of its stream.
LEMMA TakesChunk ==
  ASSUME NEW f \in Seq(Events), NEW g \in Seq(Events), Rest(f, g), f # <<>>,
         NEW text \in Seq(Contents), NEW h, NEW s \in Streams, NEW link,
         Carries(f, text, h, s, link), f[1].type = "chunk", f[1].content # <<>>
  PROVE  /\ Carries(g, Append(text, f[1].content), h, s, link)
         /\ \E r \in Nat : /\ f[1].content = <<s, r>>
                           /\ r > 0 => Len(text) > 0 /\ text[Len(text)] = <<s, r - 1>>
<1>1. PICK r \in 0..MaxChunks, off \in {0, 1}, b \in 0..Len(f) :
        /\ Runs(f, s, r, off, b) /\ EndsWith(text, s, r)
        /\ link # "resume" /\ DoneAt(f, b) => h.told = r + b - off
        /\ link = "own" => SentFits(h, f, r, off, b)
  BY DEF Carries
<1>2. Len(f) \in Nat /\ Len(f) > 0 /\ r \in Nat /\ Len(text) \in Nat
  BY EmptySeq, BoundsAssumption
<1>3. b # 0
  <2>. SUFFICES ASSUME b = 0 PROVE FALSE
    OBVIOUS
  <2>1. Shape(f, 0)
    BY <1>1 DEF Runs
  <2>. QED  BY <1>2, <2>1 DEF Shape, Closes, IsLast
<1>4. off = 0
  BY <1>1 DEF Runs
<1>5. b \in 1..Len(f) /\ (r + 1) + (b - 1) - 0 = r + b - off /\ 0 \in {0, 1} /\ 0 <= b - 1
  BY <1>2, <1>3, <1>4
<1>6. f[1].content = <<s, r>>
  <2>1. 1 \in (off + 1)..b /\ r + 1 - 1 - off = r
    BY <1>2, <1>4, <1>5
  <2>. QED  BY <1>1, <2>1 DEF Runs
<1>7. /\ b - 1 \in 0..Len(g)
      /\ Shape(f, b) <=> Shape(g, b - 1)
      /\ DoneAt(f, b) <=> DoneAt(g, b - 1)
  BY <1>5, EndsShift
<1>8. Runs(g, s, r + 1, 0, b - 1)
  <2>1. ASSUME NEW i \in (0 + 1)..(b - 1)
        PROVE  g[i].type = "chunk" /\ g[i].content = <<s, (r + 1) + i - 1 - 0>>
    <3>1. /\ i + 1 \in (off + 1)..b /\ i \in 1..Len(g)
          /\ r + (i + 1) - 1 - off = (r + 1) + i - 1 - 0
      BY <1>2, <1>4, <1>5, <1>7
    <3>2. f[i + 1].type = "chunk" /\ f[i + 1].content = <<s, r + (i + 1) - 1 - off>>
      BY <1>1, <3>1 DEF Runs
    <3>3. g[i] = f[i + 1]
      BY <3>1 DEF Rest
    <3>. QED  BY <3>1, <3>2, <3>3
  <2>2. Shape(g, b - 1)
    BY <1>1, <1>7 DEF Runs
  <2>. HIDE DEF Shape
  <2>. QED  BY <1>5, <2>1, <2>2 DEF Runs
<1>9. link = "own" => SentFits(h, g, r + 1, 0, b - 1)
  BY <1>1, <1>5, SentFitsRest
<1>10. link # "resume" /\ DoneAt(g, b - 1) => h.told = (r + 1) + (b - 1) - 0
  BY <1>1, <1>5, <1>7
<1>11. f[1].content \in Contents /\ r + 1 \in 0..MaxChunks
  <2>1. f[1] \in Events
    BY <1>2, ElementOfSeq
  <2>2. f[1].content \in Contents
    BY <2>1 DEF Events
  <2>3. r \in 0..(MaxChunks - 1)
    BY <1>6, <2>2 DEF Contents
  <2>. QED  BY <2>2, <2>3, BoundsAssumption
<1>12. EndsWith(Append(text, f[1].content), s, r + 1)
  <2>. DEFINE t == Append(text, f[1].content)
  <2>1. /\ Len(t) = Len(text) + 1 /\ t[Len(text) + 1] = <<s, r>>
        /\ \A i \in 1..Len(text) : t[i] = text[i]
    BY <1>6, <1>11, AppendProperties
  <2>. HIDE DEF t
  <2>2. r <= Len(text)
    BY <1>1 DEF EndsWith
  <2>3. ASSUME NEW i \in 1..(r + 1) PROVE t[Len(t) - (r + 1) + i] = <<s, i - 1>>
    <3>1. CASE i = r + 1
      <4>1. Len(t) - (r + 1) + i = Len(text) + 1 /\ i - 1 = r
        BY <1>2, <2>1, <3>1
      <4>. QED  BY <2>1, <4>1
    <3>2. CASE i # r + 1
      <4>1. /\ Len(t) - (r + 1) + i = Len(text) - r + i /\ i \in 1..r
            /\ Len(text) - r + i \in 1..Len(text)
        BY <1>2, <2>1, <2>2, <3>2
      <4>. QED  BY <1>1, <2>1, <4>1 DEF EndsWith
    <3>. QED  BY <3>1, <3>2
  <2>4. r + 1 <= Len(t)
    BY <1>2, <2>1, <2>2
  <2>5. EndsWith(t, s, r + 1)
    BY <2>3, <2>4 DEF EndsWith
  <2>. QED  BY <2>5 DEF t
<1>13. r > 0 => Len(text) > 0 /\ text[Len(text)] = <<s, r - 1>>
  <2>. SUFFICES ASSUME r > 0 PROVE Len(text) > 0 /\ text[Len(text)] = <<s, r - 1>>
    OBVIOUS
  <2>1. r \in 1..r /\ Len(text) - r + r = Len(text) /\ r <= Len(text)
    BY <1>1, <1>2 DEF EndsWith
  <2>. QED  BY <1>1, <1>2, <2>1 DEF EndsWith
<1>14. Carries(g, Append(text, f[1].content), h, s, link)
  <2>. HIDE DEF Runs, EndsWith, SentFits, DoneAt
  <2>. QED  BY <1>5, <1>7, <1>8, <1>9, <1>10, <1>11, <1>12 DEF Carries
<1>. QED  BY <1>2, <1>6, <1>13, <1>14

\* A content is not the empty one of the finishReason.
LEMMA PairNotEmpty == \A a, b : <<a, b>> # <<>>
<1>. SUFFICES ASSUME NEW a, NEW b, <<a, b>> = <<>> PROVE FALSE
  OBVIOUS
<1>1. Len(<<a, b>>) = 2 /\ Len(<<>>) = 0
  OBVIOUS
<1>. QED  BY <1>1

\* Taking the chunk without content: done or error is next.
LEMMA TakesLast ==
  ASSUME NEW f \in Seq(Events), NEW g \in Seq(Events), Rest(f, g), f # <<>>,
         NEW text, NEW h, NEW s, NEW link,
         Carries(f, text, h, s, link), f[1].type = "chunk", f[1].content = <<>>
  PROVE  Carries(g, text, h, s, link)
<1>1. PICK r \in 0..MaxChunks, off \in {0, 1}, b \in 0..Len(f) :
        /\ Runs(f, s, r, off, b) /\ EndsWith(text, s, r)
        /\ link # "resume" /\ DoneAt(f, b) => h.told = r + b - off
        /\ link = "own" => SentFits(h, f, r, off, b)
  BY DEF Carries
<1>2. Len(f) \in Nat /\ Len(f) > 0 /\ r \in Nat
  BY EmptySeq, BoundsAssumption
<1>3. off = 0
  BY <1>1 DEF Runs
<1>4. b = 0
  <2>. SUFFICES ASSUME b # 0 PROVE FALSE
    OBVIOUS
  <2>1. 1 \in (off + 1)..b
    BY <1>2, <1>3
  <2>2. f[1].content = <<s, r + 1 - 1 - off>>
    BY <1>1, <2>1 DEF Runs
  <2>. QED  BY <2>2, PairNotEmpty
<1>5. /\ Len(g) \in Nat /\ Len(g) = Len(f) - 1
      /\ 1 < Len(f) => 1 \in 1..Len(g) /\ g[1] = f[2]
      /\ 1 < Len(f) <=> 0 < Len(g)
  BY <1>2, LenProperties DEF Rest
<1>6. 0 < Len(g) => Closes(g[1]) /\ ~IsLast(g[1])
  <2>1. Shape(f, 0)
    BY <1>1, <1>4 DEF Runs
  <2>. QED  BY <1>2, <1>5, <2>1 DEF Shape, Closes, IsLast
<1>7. Runs(g, s, r, 0, 0)
  BY <1>2, <1>5, <1>6 DEF Runs, Shape
<1>8. DoneAt(g, 0) => DoneAt(f, 0)
  BY <1>2, <1>5, <1>6 DEF DoneAt, IsLast
<1>9. ASSUME link = "own" PROVE SentFits(h, g, r, 0, 0)
  <2>1. SentFits(h, f, r, 0, 0)
    BY <1>1, <1>3, <1>4, <1>9
  <2>2. Ended(f, 0) => Ended(g, 0)
    BY <1>2, <1>5, <1>6 DEF Ended, Closes
  <2>3. 0 # Len(f) /\ (0 + 1 = Len(f) => 0 = Len(g))
    BY <1>2, <1>5
  <2>. QED  BY <2>1, <2>2, <2>3 DEF SentFits
<1>10. 0 \in 0..Len(g) /\ 0 \in {0, 1}
  BY <1>5
<1>11. link # "resume" /\ DoneAt(g, 0) => h.told = r + 0 - 0
  BY <1>1, <1>3, <1>4, <1>8
<1>. HIDE DEF Runs, EndsWith, SentFits, DoneAt
<1>. QED  BY <1>1, <1>7, <1>9, <1>10, <1>11 DEF Carries

\* Taking done: the text ends with what was told.
LEMMA TakesDone ==
  ASSUME NEW f \in Seq(Events), f # <<>>, NEW text, NEW h, NEW s, NEW link,
         Carries(f, text, h, s, link), link # "resume", f[1].type = "done"
  PROVE  h.told # -1 /\ EndsWith(text, s, h.told)
<1>1. PICK r \in 0..MaxChunks, off \in {0, 1}, b \in 0..Len(f) :
        /\ Runs(f, s, r, off, b) /\ EndsWith(text, s, r)
        /\ DoneAt(f, b) => h.told = r + b - off
  BY DEF Carries
<1>2. Len(f) \in Nat /\ Len(f) > 0 /\ r \in Nat
  BY EmptySeq, BoundsAssumption
<1>3. off = 0
  BY <1>1 DEF Runs
<1>4. b = 0
  <2>. SUFFICES ASSUME b # 0 PROVE FALSE
    OBVIOUS
  <2>1. 1 \in (off + 1)..b
    BY <1>2, <1>3
  <2>. QED  BY <1>1, <2>1 DEF Runs
<1>5. DoneAt(f, 0)
  BY <1>2 DEF DoneAt
<1>6. h.told = r
  BY <1>1, <1>2, <1>3, <1>4, <1>5
<1>. QED  BY <1>1, <1>2, <1>6

\* A connection breaks: what is left of the flow still runs on from the text.
LEMMA CutCarries ==
  ASSUME NEW f \in Seq(Events), NEW g \in Seq(Events), Len(g) <= Len(f),
         \A i \in 1..Len(g) : g[i] = f[i],
         NEW text, NEW h, NEW s, NEW link, Carries(f, text, h, s, link),
         NEW cut \in {"lost", "resume"}, cut = "resume" <=> link = "resume"
  PROVE  Carries(g, text, h, s, cut)
<1>1. PICK r \in 0..MaxChunks, off \in {0, 1}, b \in 0..Len(f) :
        /\ Runs(f, s, r, off, b) /\ EndsWith(text, s, r)
        /\ link # "resume" /\ DoneAt(f, b) => h.told = r + b - off
  BY DEF Carries
<1>2. Len(f) \in Nat /\ Len(g) \in Nat /\ r \in Nat /\ b \in Nat
  BY LenProperties, BoundsAssumption
<1>3. CASE Len(g) = 0
  <2>1. Runs(g, s, r, 0, 0) /\ ~DoneAt(g, 0) /\ 0 \in 0..Len(g) /\ 0 \in {0, 1}
    BY <1>3 DEF Runs, Shape, DoneAt
  <2>. QED  BY <1>1, <2>1 DEF Carries
<1>4. CASE Len(g) > 0 /\ b >= Len(g)
  <2>. DEFINE k == Len(g)
  <2>1. ~DoneAt(g, k) /\ Shape(g, k) /\ k \in 0..k /\ off <= k
    BY <1>2, <1>4 DEF DoneAt, Shape
  <2>2. off = 1 => r = 0 /\ g[1].type = "start"
    BY <1>1, <1>2, <1>4 DEF Runs
  <2>3. \A i \in (off + 1)..k : g[i].type = "chunk" /\ g[i].content = <<s, r + i - 1 - off>>
    <3>1. \A i \in (off + 1)..k : i \in (off + 1)..b /\ i \in 1..Len(g)
      BY <1>2, <1>4
    <3>. QED  BY <1>1, <3>1 DEF Runs
  <2>4. Runs(g, s, r, off, k)
    <3>. HIDE DEF Shape, k
    <3>. QED  BY <2>1, <2>2, <2>3 DEF Runs
  <2>. QED  BY <1>1, <2>1, <2>4 DEF Carries
<1>5. CASE Len(g) > 0 /\ b < Len(g)
  <2>1. /\ b \in 0..Len(g) /\ b + 1 \in 1..Len(g) /\ g[b + 1] = f[b + 1] /\ b < Len(f)
        /\ b + 1 < Len(g) => b + 2 \in 1..Len(g) /\ g[b + 2] = f[b + 2] /\ b + 1 < Len(f)
    BY <1>2, <1>5
  <2>2. Shape(g, b) /\ (DoneAt(g, b) => DoneAt(f, b))
    <3>1. Shape(f, b)
      BY <1>1 DEF Runs
    <3>. QED  BY <1>2, <2>1, <3>1 DEF Shape, DoneAt
  <2>3. off = 1 => r = 0 /\ g[1].type = "start"
    BY <1>1, <1>2, <1>5 DEF Runs
  <2>4. \A i \in (off + 1)..b : g[i].type = "chunk" /\ g[i].content = <<s, r + i - 1 - off>>
    <3>1. \A i \in (off + 1)..b : i \in 1..Len(g)
      BY <1>2, <1>5
    <3>. QED  BY <1>1, <3>1 DEF Runs
  <2>5. Runs(g, s, r, off, b)
    <3>1. off <= b
      BY <1>1 DEF Runs
    <3>. HIDE DEF Shape
    <3>. QED  BY <2>2, <2>3, <2>4, <3>1 DEF Runs
  <2>. QED  BY <1>1, <2>1, <2>2, <2>5 DEF Carries
<1>6. Len(g) = 0 \/ (Len(g) > 0 /\ b >= Len(g)) \/ (Len(g) > 0 /\ b < Len(g))
  BY <1>2
<1>. QED  BY <1>3, <1>4, <1>5, <1>6

\* h goes on to g without sending.
Quiet(h, g) ==
  /\ g.told = h.told
  /\ Fresh(g) => Fresh(h)
  /\ Plain(g) => Plain(h) /\ Sent(g) = Sent(h)
  /\ Marked(g) => Marked(h) /\ g.n = h.n

\* A flow does not change while its handler sends nothing, or sends elsewhere.
LEMMA QuietCarries ==
  ASSUME NEW f \in Seq(Events), NEW text, NEW s, NEW link,
         NEW h \in Handler, NEW g \in Handler, Carries(f, text, h, s, link),
         g.told = h.told \/ h.told = -1,
         link = "own" => Quiet(h, g)
  PROVE  Carries(f, text, g, s, link)
<1>1. PICK r \in 0..MaxChunks, off \in {0, 1}, b \in 0..Len(f) :
        /\ Runs(f, s, r, off, b) /\ EndsWith(text, s, r)
        /\ link # "resume" /\ DoneAt(f, b) => h.told = r + b - off
        /\ link = "own" => SentFits(h, f, r, off, b)
  BY DEF Carries
<1>2. r + b - off # -1
  BY <1>1, BoundsAssumption DEF Runs
<1>3. link # "resume" /\ DoneAt(f, b) => g.told = r + b - off
  BY <1>1, <1>2
<1>4. link = "own" => SentFits(g, f, r, off, b)
  BY <1>1 DEF SentFits, Quiet
<1>. QED  BY <1>1, <1>3, <1>4 DEF Carries

-----------------------------------------------------------------------------
\* Each step keeps what is said of the reader and of the flow.

\* The initial states have no flow.
LEMMA InitTraced == Init => Traced
<1>. SUFFICES ASSUME Init PROVE Traced
  OBVIOUS
<1>1. Conns /\ TextHasNoGaps /\ Full
  BY DEF Init, NewConn, Conns, TextHasNoGaps, Full
<1>2. Flow
  BY DEF Init, NewConn, Flow
<1>. QED  BY <1>1, <1>2 DEF Traced

\* What the invariant says after a step.
LEMMA FlowAfter ==
  /\ Flow' <=> (client'.pc \in {"ask", "reading"} /\ conn'.mode # "none" =>
                  Carries(conn'.wire \o conn'.todo, client'.text, handler'[conn'.stream],
                          conn'.stream, Link(conn')))
  /\ Full' <=> (client'.pc = "done" /\ conn'.mode = "new" =>
                  /\ handler'[conn'.stream].told # -1
                  /\ EndsWith(client'.text, conn'.stream, handler'[conn'.stream].told))
BY DEF Flow, Full, Pipe, Carries, Runs, EndsWith, Shape, DoneAt, Closes, IsLast, SentFits, Ended,
       Fresh, Plain, Marked, Sent, Link

\* What is on its way is a sequence of events.
LEMMA PipeEvents == TypeOK => Pipe \in Seq(Events) /\ conn.wire \in Seq(Events)
                              /\ conn.todo \in Seq(Events)
BY ConcatProperties DEF TypeOK, Conn, Pipe

\* A handler moves and writes nothing.
LEMMA QuietStep ==
  ASSUME TypeOK, Traced, NEW s \in Streams, NEW g \in Handler,
         handler' = [handler EXCEPT ![s] = g], client' = client,
         conn' = conn \/ conn' = [conn EXCEPT !.ended = TRUE],
         g.told = handler[s].told \/ handler[s].told = -1,
         Attached(s) => Quiet(handler[s], g)
  PROVE  Traced'
<1>1. /\ conn'.mode = conn.mode /\ conn'.stream = conn.stream /\ conn'.up = conn.up
      /\ conn'.wire = conn.wire /\ conn'.todo = conn.todo
  BY DEF TypeOK, Conn
<1>2. /\ handler'[s] = g /\ handler[s] \in Handler
      /\ \A t \in Streams \ {s} : handler'[t] = handler[t]
  BY DEF TypeOK
<1>3. Conns'
  BY <1>1 DEF Traced, Conns
<1>4. TextHasNoGaps'
  BY DEF Traced, TextHasNoGaps
<1>5. ASSUME client.pc \in {"ask", "reading"}, conn.mode # "none"
      PROVE  Carries(Pipe, client.text, handler'[conn.stream], conn.stream, Link(conn))
  <2>1. /\ Carries(Pipe, client.text, handler[conn.stream], conn.stream, Link(conn))
        /\ conn.stream \in Streams
    BY <1>5 DEF Traced, Flow, Conns
  <2>2. CASE conn.stream = s
    <3>1. Link(conn) = "own" => Quiet(handler[s], g)
      BY <2>2 DEF Attached, Link
    <3>2. Pipe \in Seq(Events)
      BY PipeEvents
    <3>3. Carries(Pipe, client.text, g, s, Link(conn))
      <4>. HIDE DEF Carries, Pipe
      <4>. QED  BY <1>2, <2>1, <2>2, <3>1, <3>2, QuietCarries
    <3>. QED  BY <1>2, <2>2, <3>3
  <2>3. CASE conn.stream # s
    BY <1>2, <2>1, <2>3
  <2>. QED  BY <2>2, <2>3
<1>6. Flow'
  <2>1. Link(conn') = Link(conn)
    BY <1>1 DEF Link
  <2>. QED  BY <1>1, <1>5, <2>1, FlowAfter DEF Pipe
<1>7. Full'
  <2>1. ASSUME client.pc = "done", conn.mode = "new"
        PROVE  /\ handler'[conn.stream].told # -1
               /\ EndsWith(client.text, conn.stream, handler'[conn.stream].told)
    <3>1. /\ handler[conn.stream].told # -1 /\ conn.stream \in Streams
          /\ EndsWith(client.text, conn.stream, handler[conn.stream].told)
      BY <2>1 DEF Traced, Full, Conns
    <3>2. handler'[conn.stream].told = handler[conn.stream].told
      BY <1>2, <3>1
    <3>. QED  BY <3>1, <3>2
  <2>. QED  BY <1>1, <2>1, FlowAfter
<1>. QED  BY <1>3, <1>4, <1>6, <1>7 DEF Traced

\* The handler of the reader's connection moves and writes an event.
LEMMA SendStep ==
  ASSUME TypeOK, Traced, NEW s \in Streams, NEW g \in Handler, NEW e \in Events,
         handler' = [handler EXCEPT ![s] = g], client' = client, Attached(s),
         conn' = [conn EXCEPT !.wire = Append(conn.wire, e)],
         g.told = handler[s].told \/ handler[s].told = -1,
         client.pc \in {"ask", "reading"} =>
           Carries(Append(Pipe, e), client.text, g, s, "own")
  PROVE  Traced'
<1>1. /\ conn'.mode = "new" /\ conn'.stream = s /\ conn'.up = TRUE
      /\ conn'.wire = Append(conn.wire, e) /\ conn'.todo = <<>> /\ conn.mode = "new"
      /\ conn.stream = s /\ conn.todo = <<>>
  <2>1. conn.mode = "new" /\ conn.stream = s /\ conn.up = TRUE /\ conn \in Conn
    BY DEF Attached, TypeOK, Conn
  <2>. DEFINE w == Append(conn.wire, e)
  <2>2. conn' = [conn EXCEPT !.wire = w]
    OBVIOUS
  <2>. HIDE DEF w
  <2>3. conn.todo = <<>>
    BY <2>1 DEF Traced, Conns
  <2>4. conn'.mode = conn.mode /\ conn'.stream = conn.stream /\ conn'.up = conn.up
        /\ conn'.wire = w /\ conn'.todo = conn.todo
    BY <2>1, <2>2 DEF Conn
  <2>. QED  BY <2>1, <2>3, <2>4 DEF w
<1>2. handler'[s] = g
  BY DEF TypeOK
<1>3. conn'.wire \o conn'.todo = Append(Pipe, e)
  <2>1. Append(conn.wire, e) \in Seq(Events)
    BY PipeEvents, AppendProperties
  <2>2. Append(conn.wire, e) \o <<>> = Append(conn.wire, e)
    BY <2>1, ConcatEmptySeq
  <2>3. conn.wire \o <<>> = conn.wire
    BY PipeEvents, ConcatEmptySeq
  <2>. QED  BY <1>1, <2>2, <2>3 DEF Pipe
<1>4. Conns'
  BY <1>1 DEF Conns
<1>5. TextHasNoGaps'
  BY DEF Traced, TextHasNoGaps
<1>6. Flow'
  <2>1. Link(conn') = "own"
    BY <1>1 DEF Link
  <2>. QED  BY <1>1, <1>2, <1>3, <2>1, FlowAfter
<1>7. Full'
  BY <1>1, <1>2, FlowAfter DEF Traced, Full
<1>. QED  BY <1>4, <1>5, <1>6, <1>7 DEF Traced

\* sendSSE.
LEMMA SendsTrace ==
  ASSUME TypeOK, Stored, Traced, NEW s \in Streams,
         SendStart(s) \/ SendChunk(s) \/ SendLast(s) \/ SendDone(s) \/ SendError(s)
  PROVE  Traced'
<1>1. ASSUME NEW from, NEW type \in EventTypes,
             NEW c \in EventContents, NEW to \in HandlerPcs,
             NEW told \in Tolds, SendTold(s, from, type, c, to, told),
             told = handler[s].told \/ handler[s].told = -1,
             NEW e, e = Event(type, s, c),
             \A g \in Handler :
               /\ g.pc = to /\ g.n = handler[s].n /\ g.told = told /\ handler[s].told = -1
               /\ Carries(Pipe, client.text, handler[s], s, "own")
               => Carries(Append(Pipe, e), client.text, g, s, "own")
      PROVE  Traced'
  <2>. SendTold(s, from, type, c, to, told)
    BY <1>1
  <2>1. Event(type, s, c) \in Events
    BY SendMoves
  <2>2. PICK g \in Handler : /\ handler' = [handler EXCEPT ![s] = g]
                             /\ g.pc = to /\ g.n = handler[s].n /\ g.told = told
    BY SendMoves, SMTT(20)
  <2>3. g.told = handler[s].told \/ handler[s].told = -1
    BY <1>1, <2>2 DEF SendTold
  <2>4. client' = client
    BY <1>1 DEF SendTold
  <2>5. CASE Attached(s)
    <3>1. conn' = [conn EXCEPT !.wire = Append(conn.wire, e)]
      BY <1>1, <2>5 DEF SendTold
    <3>2. ASSUME client.pc \in {"ask", "reading"}
          PROVE  Carries(Append(Pipe, e), client.text, g, s, "own")
      <4>1. conn.mode = "new" /\ conn.stream = s /\ conn.up = TRUE
        BY <2>5 DEF Attached, TypeOK, Conn
      <4>2. Carries(Pipe, client.text, handler[s], s, "own")
        BY <3>2, <4>1 DEF Traced, Flow, Link
      <4>3. CASE handler[s].told = -1
        BY <1>1, <2>2, <4>2, <4>3
      <4>4. CASE handler[s].told # -1
        <5>1. g.told = handler[s].told /\ handler[s] \in Handler /\ Pipe \in Seq(Events)
          BY <1>1, <2>2, <4>4, PipeEvents DEF TypeOK
        <5>. QED  BY <1>1, <2>1, <4>2, <4>4, <5>1, SendAfterTold
      <4>. QED  BY <4>3, <4>4
    <3>. QED  BY <1>1, <2>1, <2>2, <2>3, <2>4, <2>5, <3>1, <3>2, SendStep
  <2>6. CASE ~Attached(s)
    <3>1. conn' = conn
      BY <1>1, <2>6 DEF SendTold
    <3>. QED  BY <2>2, <2>3, <2>4, <2>6, <3>1, QuietStep
  <2>. QED  BY <2>5, <2>6
<1>2. StoredAs(s, handler[s], store[s]) /\ handler[s] \in Handler /\ Pipe \in Seq(Events)
  BY PipeEvents DEF Stored, TypeOK
<1>3. /\ handler[s].told \in Tolds /\ handler[s].n \in Tolds
      /\ <<>> \in EventContents /\ \A type \in {"start", "chunk", "done", "error"} :
                                     type \in EventTypes
  BY <1>2 DEF Handler, Tolds, EventContents, EventTypes
<1>4. \A pc \in {"read", "markGet", "end"} : pc \in HandlerPcs
  BY DEF HandlerPcs, Active
<1>5. ASSUME NEW type \in EventTypes, NEW c \in EventContents
      PROVE  /\ Event(type, s, c) \in Events
             /\ Event(type, s, c).type = type /\ Event(type, s, c).content = c
  BY DEF Event, Events, EventTypes, EventContents
<1>6. CASE SendStart(s)
  <2>. DEFINE e == Event("start", s, <<>>)
  <2>1. /\ SendTold(s, "start", "start", <<>>, "read", handler[s].told)
        /\ handler[s].pc = "start" /\ handler[s].n = 0
    BY <1>2, <1>6 DEF SendStart, Send, SendTold, At, StoredAs
  <2>3. e \in Events /\ e.type = "start" /\ e.content = <<>>
    BY <1>3, <1>5
  <2>. HIDE DEF e
  <2>4. \A g \in Handler :
          /\ g.pc = "read" /\ g.n = handler[s].n /\ g.told = handler[s].told /\ handler[s].told = -1
          /\ Carries(Pipe, client.text, handler[s], s, "own")
          => Carries(Append(Pipe, e), client.text, g, s, "own")
    BY <1>2, <2>1, <2>3, SendsStart
  <2>5. e = Event("start", s, <<>>)
    BY DEF e
  <2>. QED  BY <1>1, <1>3, <1>4, <2>1, <2>4, <2>5
<1>7. CASE SendLast(s)
  <2>. DEFINE e == Event("chunk", s, <<>>)
  <2>1. /\ SendTold(s, "last", "chunk", <<>>, "markGet", handler[s].told)
        /\ handler[s].pc = "last"
    BY <1>2, <1>7 DEF SendLast, Send, SendTold, At
  <2>3. e \in Events /\ e.type = "chunk" /\ e.content = <<>>
    BY <1>3, <1>5
  <2>. HIDE DEF e
  <2>4. \A g \in Handler :
          /\ g.pc = "markGet" /\ g.n = handler[s].n /\ g.told = handler[s].told
          /\ handler[s].told = -1
          /\ Carries(Pipe, client.text, handler[s], s, "own")
          => Carries(Append(Pipe, e), client.text, g, s, "own")
    BY <1>2, <2>1, <2>3, SendsLast
  <2>5. e = Event("chunk", s, <<>>)
    BY DEF e
  <2>. QED  BY <1>1, <1>3, <1>4, <2>1, <2>4, <2>5
<1>8. CASE SendError(s)
  <2>. DEFINE e == Event("error", s, <<>>)
  <2>1. /\ SendTold(s, "error", "error", <<>>, "end", handler[s].told)
        /\ handler[s].pc = "error"
    BY <1>2, <1>8 DEF SendError, Send, SendTold, At
  <2>3. e \in Events /\ e.type = "error" /\ e.content = <<>>
    BY <1>3, <1>5
  <2>. HIDE DEF e
  <2>4. \A g \in Handler :
          /\ g.pc = "end" /\ g.n = handler[s].n /\ g.told = handler[s].told /\ handler[s].told = -1
          /\ Carries(Pipe, client.text, handler[s], s, "own")
          => Carries(Append(Pipe, e), client.text, g, s, "own")
    BY <1>2, <2>1, <2>3, SendsError
  <2>5. e = Event("error", s, <<>>)
    BY DEF e
  <2>. QED  BY <1>1, <1>3, <1>4, <2>1, <2>4, <2>5
<1>9. CASE SendChunk(s)
  <2>. DEFINE e == Event("chunk", s, Content(s))
  <2>1. /\ SendTold(s, "chunk", "chunk", Content(s), "read", handler[s].told)
        /\ handler[s].pc = "chunk"
    BY <1>2, <1>9 DEF SendChunk, Send, SendTold, At
  <2>2. Content(s) \in EventContents /\ Content(s) = <<s, handler[s].n - 1>>
    BY <1>2, <2>1, BoundsAssumption DEF StoredAs, Content, Contents, EventContents, Handler
  <2>3. e \in Events /\ e.type = "chunk" /\ e.content = Content(s)
    BY <1>3, <1>5, <2>2
  <2>. HIDE DEF e
  <2>4. \A g \in Handler :
          /\ g.pc = "read" /\ g.n = handler[s].n /\ g.told = handler[s].told /\ handler[s].told = -1
          /\ Carries(Pipe, client.text, handler[s], s, "own")
          => Carries(Append(Pipe, e), client.text, g, s, "own")
    BY <1>2, <2>1, <2>2, <2>3, SendsChunk
  <2>5. e = Event("chunk", s, Content(s))
    BY DEF e
  <2>. QED  BY <1>1, <1>3, <1>4, <2>1, <2>2, <2>4, <2>5
<1>10. CASE SendDone(s)
  <2>. DEFINE told == IF handler[s].told = -1 THEN handler[s].n ELSE handler[s].told
              e == Event("done", s, <<>>)
  <2>1. told \in Tolds /\ (told = handler[s].told \/ handler[s].told = -1)
        /\ (handler[s].told = -1 => told = handler[s].n)
    BY <1>3
  <2>2. SendTold(s, "done", "done", <<>>, "read", told) /\ handler[s].pc = "done"
    BY <1>10 DEF SendDone, SendTold, At
  <2>. HIDE DEF told
  <2>3. e \in Events /\ e.type = "done"
    BY <1>3, <1>5
  <2>. HIDE DEF e
  <2>4. \A g \in Handler :
          /\ g.pc = "read" /\ g.n = handler[s].n /\ g.told = told /\ handler[s].told = -1
          /\ Carries(Pipe, client.text, handler[s], s, "own")
          => Carries(Append(Pipe, e), client.text, g, s, "own")
    BY <1>2, <2>1, <2>2, <2>3, SendsDone
  <2>5. e = Event("done", s, <<>>)
    BY DEF e
  <2>. QED  BY <1>1, <1>3, <1>4, <2>1, <2>2, <2>4, <2>5
<1>. QED  BY <1>6, <1>7, <1>8, <1>9, <1>10

\* The other steps of a handler send nothing.
LEMMA QuietsTrace ==
  ASSUME TypeOK, Stored, Traced, NEW s \in Streams,
         \/ StoreStateFails(s) \/ ProviderFinishes(s) \/ ProviderReturns(s) \/ ProviderEnds(s)
         \/ InsertHistory(s) \/ RecordUsage(s) \/ CallFails(s) \/ MarkFails(s)
         \/ StoreState(s) \/ DeleteState(s) \/ ProviderYields(s)
         \/ ChunkGet(s) \/ MarkGet(s) \/ FailGet(s) \/ ChunkSet(s) \/ MarkSet(s) \/ FailSet(s)
         \/ Drain(s) \/ EndResponse(s) \/ NoticeClose(s)
  PROVE  Traced'
<1>. DEFINE Still == client' = client /\ (conn' = conn \/ conn' = [conn EXCEPT !.ended = TRUE])
            Goes(g) == /\ handler' = [handler EXCEPT ![s] = g] /\ g.told = handler[s].told
                       /\ Quiet(handler[s], g)
<1>1. ASSUME NEW g \in Handler, Goes(g), Still PROVE Traced'
  BY <1>1, QuietStep
<1>2. \A pc \in {"hung", "last", "history", "usage", "delete", "failGet", "end", "start", "over",
                 "set", "chunk", "markSet", "done", "failSet", "error"} : pc \in HandlerPcs
  BY DEF HandlerPcs, Active
<1>3. handler[s] \in Handler /\ handler[s].n \in Nat /\ StoredAs(s, handler[s], store[s])
  BY BoundsAssumption DEF TypeOK, Handler, Stored
<1>4. CASE StoreStateFails(s)
  <2>1. Still /\ Goto(s, "hung")
    BY <1>4 DEF StoreStateFails, At
  <2>2. PICK g \in Handler : /\ handler' = [handler EXCEPT ![s] = g] /\ g.pc = "hung"
                             /\ g.n = handler[s].n /\ g.told = handler[s].told
    BY <1>2, <2>1, GotoMoves
  <2>3. Goes(g)
    BY <2>1, <2>2 DEF Quiet, Fresh, Plain, Marked, Sent
  <2>. QED  BY <1>1, <2>1, <2>3
<1>5. CASE ProviderFinishes(s)
  <2>1. Still /\ Goto(s, "last") /\ handler[s].pc = "read"
    BY <1>5 DEF ProviderFinishes, At, Yields
  <2>2. PICK g \in Handler : /\ handler' = [handler EXCEPT ![s] = g] /\ g.pc = "last"
                             /\ g.n = handler[s].n /\ g.told = handler[s].told
    BY <1>2, <2>1, GotoMoves
  <2>3. Goes(g)
    BY <2>1, <2>2 DEF Quiet, Fresh, Plain, Marked, Sent
  <2>. QED  BY <1>1, <2>1, <2>3
<1>6. CASE ProviderReturns(s)
  <2>1. Still /\ Goto(s, "history")
    BY <1>6 DEF ProviderReturns, At
  <2>2. PICK g \in Handler : /\ handler' = [handler EXCEPT ![s] = g] /\ g.pc = "history"
                             /\ g.n = handler[s].n /\ g.told = handler[s].told
    BY <1>2, <2>1, GotoMoves
  <2>3. Goes(g)
    BY <2>1, <2>2 DEF Quiet, Fresh, Plain, Marked, Sent
  <2>. QED  BY <1>1, <2>1, <2>3
<1>7. CASE ProviderEnds(s)
  <2>1. Still /\ Goto(s, "history")
    BY <1>7 DEF ProviderEnds, At
  <2>2. PICK g \in Handler : /\ handler' = [handler EXCEPT ![s] = g] /\ g.pc = "history"
                             /\ g.n = handler[s].n /\ g.told = handler[s].told
    BY <1>2, <2>1, GotoMoves
  <2>3. Goes(g)
    BY <2>1, <2>2 DEF Quiet, Fresh, Plain, Marked, Sent
  <2>. QED  BY <1>1, <2>1, <2>3
<1>8. CASE InsertHistory(s)
  <2>1. Still /\ Goto(s, "usage")
    BY <1>8 DEF InsertHistory, At
  <2>2. PICK g \in Handler : /\ handler' = [handler EXCEPT ![s] = g] /\ g.pc = "usage"
                             /\ g.n = handler[s].n /\ g.told = handler[s].told
    BY <1>2, <2>1, GotoMoves
  <2>3. Goes(g)
    BY <2>1, <2>2 DEF Quiet, Fresh, Plain, Marked, Sent
  <2>. QED  BY <1>1, <2>1, <2>3
<1>9. CASE RecordUsage(s)
  <2>1. Still /\ Goto(s, "delete")
    BY <1>9 DEF RecordUsage, At
  <2>2. PICK g \in Handler : /\ handler' = [handler EXCEPT ![s] = g] /\ g.pc = "delete"
                             /\ g.n = handler[s].n /\ g.told = handler[s].told
    BY <1>2, <2>1, GotoMoves
  <2>3. Goes(g)
    BY <2>1, <2>2 DEF Quiet, Fresh, Plain, Marked, Sent
  <2>. QED  BY <1>1, <2>1, <2>3
<1>10. CASE CallFails(s)
  <2>1. Still /\ Goto(s, "failGet")
    BY <1>10 DEF CallFails, At
  <2>2. PICK g \in Handler : /\ handler' = [handler EXCEPT ![s] = g] /\ g.pc = "failGet"
                             /\ g.n = handler[s].n /\ g.told = handler[s].told
    BY <1>2, <2>1, GotoMoves
  <2>3. Goes(g)
    BY <2>1, <2>2 DEF Quiet, Fresh, Plain, Marked, Sent
  <2>. QED  BY <1>1, <2>1, <2>3
<1>11. CASE MarkFails(s)
  <2>1. Still /\ Goto(s, "end")
    BY <1>11 DEF MarkFails, At
  <2>2. PICK g \in Handler : /\ handler' = [handler EXCEPT ![s] = g] /\ g.pc = "end"
                             /\ g.n = handler[s].n /\ g.told = handler[s].told
    BY <1>2, <2>1, GotoMoves
  <2>3. Goes(g)
    BY <2>1, <2>2 DEF Quiet, Fresh, Plain, Marked, Sent
  <2>. QED  BY <1>1, <2>1, <2>3
<1>12. CASE StoreState(s)
  <2>1. Still /\ Goto(s, "start") /\ handler[s].pc = "store"
    BY <1>12 DEF StoreState, At
  <2>2. PICK g \in Handler : /\ handler' = [handler EXCEPT ![s] = g] /\ g.pc = "start"
                             /\ g.n = handler[s].n /\ g.told = handler[s].told
    BY <1>2, <2>1, GotoMoves
  <2>3. Goes(g)
    BY <2>1, <2>2 DEF Quiet, Fresh, Plain, Marked, Sent
  <2>. QED  BY <1>1, <2>1, <2>3
<1>13. CASE DeleteState(s)
  <2>1. Still /\ Goto(s, "end")
    BY <1>13 DEF DeleteState, At
  <2>2. PICK g \in Handler : /\ handler' = [handler EXCEPT ![s] = g] /\ g.pc = "end"
                             /\ g.n = handler[s].n /\ g.told = handler[s].told
    BY <1>2, <2>1, GotoMoves
  <2>3. Goes(g)
    BY <2>1, <2>2 DEF Quiet, Fresh, Plain, Marked, Sent
  <2>. QED  BY <1>1, <2>1, <2>3
<1>14. CASE EndResponse(s)
  <2>1. Still /\ Goto(s, "over")
    BY <1>14 DEF EndResponse, At
  <2>2. PICK g \in Handler : /\ handler' = [handler EXCEPT ![s] = g] /\ g.pc = "over"
                             /\ g.n = handler[s].n /\ g.told = handler[s].told
    BY <1>2, <2>1, GotoMoves
  <2>3. Goes(g)
    BY <2>1, <2>2 DEF Quiet, Fresh, Plain, Marked, Sent
  <2>. QED  BY <1>1, <2>1, <2>3
<1>15. CASE ProviderYields(s)
  <2>1. Still /\ handler[s].pc = "read"
    BY <1>15 DEF ProviderYields, Yields, At
  <2>2. PICK g \in Handler : /\ handler' = [handler EXCEPT ![s] = g] /\ g.pc = "get"
                             /\ g.n = handler[s].n + 1 /\ g.told = handler[s].told
    BY <1>15, YieldMoves
  <2>3. Goes(g)
    BY <1>3, <2>1, <2>2 DEF Quiet, Fresh, Plain, Marked, Sent
  <2>. QED  BY <1>1, <2>1, <2>3
<1>16. CASE ChunkGet(s)
  <2>1. Still /\ Get(s, "get", "set", "chunk") /\ handler[s].pc = "get"
    BY <1>16 DEF ChunkGet, Get, At
  <2>2. PICK g \in Handler : /\ handler' = [handler EXCEPT ![s] = g]
                             /\ g.pc = IF store[s].there THEN "set" ELSE "chunk"
                             /\ g.n = handler[s].n /\ g.told = handler[s].told
    BY <1>2, <2>1, GetMoves
  <2>3. Goes(g)
    BY <2>1, <2>2 DEF Quiet, Fresh, Plain, Marked, Sent
  <2>. QED  BY <1>1, <2>1, <2>3
<1>17. CASE MarkGet(s)
  <2>1. Still /\ Get(s, "markGet", "markSet", "done") /\ handler[s].pc = "markGet"
    BY <1>17 DEF MarkGet, Get, At
  <2>2. PICK g \in Handler : /\ handler' = [handler EXCEPT ![s] = g]
                             /\ g.pc = IF store[s].there THEN "markSet" ELSE "done"
                             /\ g.n = handler[s].n /\ g.told = handler[s].told
    BY <1>2, <2>1, GetMoves
  <2>3. Goes(g)
    BY <2>1, <2>2 DEF Quiet, Fresh, Plain, Marked, Sent
  <2>. QED  BY <1>1, <2>1, <2>3
<1>18. CASE FailGet(s)
  <2>1. Still /\ Get(s, "failGet", "failSet", "error") /\ handler[s].pc = "failGet"
    BY <1>18 DEF FailGet, Get, At
  <2>2. PICK g \in Handler : /\ handler' = [handler EXCEPT ![s] = g]
                             /\ g.pc = IF store[s].there THEN "failSet" ELSE "error"
                             /\ g.n = handler[s].n /\ g.told = handler[s].told
    BY <1>2, <2>1, GetMoves
  <2>3. Goes(g)
    BY <2>1, <2>2 DEF Quiet, Fresh, Plain, Marked, Sent
  <2>. QED  BY <1>1, <2>1, <2>3
<1>19. CASE ChunkSet(s)
  <2>1. PICK state : Set(s, "set", state, "chunk")
    BY <1>19 DEF ChunkSet
  <2>2. Still /\ handler[s].pc = "set"
    BY <2>1 DEF Set, At
  <2>3. PICK g \in Handler : /\ handler' = [handler EXCEPT ![s] = g] /\ g.pc = "chunk"
                             /\ g.n = handler[s].n /\ g.told = handler[s].told
    BY <1>2, <2>1, SetGoes
  <2>4. Goes(g)
    BY <2>2, <2>3 DEF Quiet, Fresh, Plain, Marked, Sent
  <2>. QED  BY <1>1, <2>2, <2>4
<1>20. CASE MarkSet(s)
  <2>1. PICK state : Set(s, "markSet", state, "done")
    BY <1>20 DEF MarkSet
  <2>2. Still /\ handler[s].pc = "markSet"
    BY <2>1 DEF Set, At
  <2>3. PICK g \in Handler : /\ handler' = [handler EXCEPT ![s] = g] /\ g.pc = "done"
                             /\ g.n = handler[s].n /\ g.told = handler[s].told
    BY <1>2, <2>1, SetGoes
  <2>4. Goes(g)
    BY <2>2, <2>3 DEF Quiet, Fresh, Plain, Marked, Sent
  <2>. QED  BY <1>1, <2>2, <2>4
<1>21. CASE FailSet(s)
  <2>1. PICK state : Set(s, "failSet", state, "error")
    BY <1>21 DEF FailSet
  <2>2. Still /\ handler[s].pc = "failSet"
    BY <2>1 DEF Set, At
  <2>3. PICK g \in Handler : /\ handler' = [handler EXCEPT ![s] = g] /\ g.pc = "error"
                             /\ g.n = handler[s].n /\ g.told = handler[s].told
    BY <1>2, <2>1, SetGoes
  <2>4. Goes(g)
    BY <2>2, <2>3 DEF Quiet, Fresh, Plain, Marked, Sent
  <2>. QED  BY <1>1, <2>2, <2>4
<1>22. CASE Drain(s)
  <2>. DEFINE g == [handler[s] EXCEPT !.waiting = FALSE]
  <2>1. Still /\ handler' = [handler EXCEPT ![s] = g]
    BY <1>22 DEF Drain
  <2>2. g \in Handler /\ g.pc = handler[s].pc /\ g.n = handler[s].n /\ g.told = handler[s].told
    BY <1>3 DEF Handler
  <2>. HIDE DEF g
  <2>3. Goes(g)
    BY <2>1, <2>2 DEF Quiet, Fresh, Plain, Marked, Sent
  <2>. QED  BY <1>1, <2>1, <2>2, <2>3
<1>23. CASE NoticeClose(s)
  <2>. DEFINE g == [handler[s] EXCEPT !.gone = TRUE]
  <2>1. Still /\ handler' = [handler EXCEPT ![s] = g]
    BY <1>23 DEF NoticeClose
  <2>2. g \in Handler /\ g.pc = handler[s].pc /\ g.n = handler[s].n /\ g.told = handler[s].told
    BY <1>3 DEF Handler
  <2>. HIDE DEF g
  <2>3. Goes(g)
    BY <2>1, <2>2 DEF Quiet, Fresh, Plain, Marked, Sent
  <2>. QED  BY <1>1, <2>1, <2>2, <2>3
<1>. QED  BY <1>4, <1>5, <1>6, <1>7, <1>8, <1>9, <1>10, <1>11, <1>12, <1>13,
             <1>14, <1>15, <1>16, <1>17, <1>18, <1>19, <1>20, <1>21, <1>22, <1>23

\* A request is answered: by a new stream with nothing on its way yet, or by what
\* is stored of an old one.
LEMMA AcceptTraces ==
  ASSUME TypeOK, Stored, Traced, NEW s \in Streams, AcceptResume(s) \/ AcceptNew(s)
  PROVE  Traced'
<1>1. conn \in Conn /\ store[s] \in States /\ handler[s] \in Handler /\ 0 \in 0..MaxChunks
  BY BoundsAssumption DEF TypeOK
<1>2. /\ client' = client /\ client.pc = "ask" /\ conn.mode = "none" /\ conn.wire = <<>>
      /\ conn.todo = <<>>
  BY DEF AcceptResume, AcceptNew, Traced, Conns
<1>3. TextHasNoGaps' /\ Full'
  BY <1>2, FlowAfter DEF Traced, TextHasNoGaps
<1>4. EndsWith(client.text, s, 0)
  <2>1. Len(client.text) \in Nat
    BY DEF TypeOK, Client
  <2>. QED  BY <2>1 DEF EndsWith
<1>5. <<>> \in Seq(Events)
  OBVIOUS
<1>6. CASE AcceptResume(s)
  <2>. DEFINE replay == Replay(s)
              k == Len(store[s].chunks)
  <2>1. /\ k \in Nat /\ store[s].there /\ UNCHANGED handler
        /\ conn' = [conn EXCEPT !.mode = "resume", !.stream = s, !.todo = replay]
    BY <1>1, <1>6 DEF AcceptResume, Reconnects, States
  <2>2. /\ replay \in Seq(Events) /\ Len(replay) = k + 2 /\ replay[1] = Event("start", s, <<>>)
        /\ \A i \in 1..k : replay[i + 1] = Event("chunk", s, store[s].chunks[i])
        /\ replay[k + 2].type \in {"done", "error"}
    BY <1>1, ReplayEvents
  <2>3. \A i \in 1..k : store[s].chunks[i] = <<s, i - 1>>
    <3>1. handler[s].n \in 0..MaxChunks /\ StoredAs(s, handler[s], store[s])
      BY <1>1 DEF Stored, Handler
    <3>2. PICK m \in 0..MaxChunks : store[s].chunks = Chunks(s, m)
      BY <2>1, <3>1, BoundsAssumption DEF StoredAs
    <3>. QED  BY <3>2, ChunksOfStream
  <2>. HIDE DEF replay, k
  <2>4. /\ conn'.mode = "resume" /\ conn'.stream = s /\ conn'.todo = replay
        /\ conn'.wire = <<>>
    BY <1>1, <1>2, <2>1 DEF Conn
  <2>5. Runs(replay, s, 0, 1, k + 1)
    <3>1. replay[1].type = "start" /\ 1 <= k + 1
      BY <2>1, <2>2 DEF Event
    <3>2. ASSUME NEW i \in (1 + 1)..(k + 1)
          PROVE  replay[i].type = "chunk" /\ replay[i].content = <<s, 0 + i - 1 - 1>>
      <4>1. i - 1 \in 1..k /\ (i - 1) + 1 = i /\ 0 + i - 1 - 1 = (i - 1) - 1
        BY <2>1, <3>2
      <4>2. replay[(i - 1) + 1] = Event("chunk", s, store[s].chunks[i - 1])
        BY <2>2, <4>1
      <4>3. replay[i] = Event("chunk", s, <<s, (i - 1) - 1>>)
        BY <2>3, <4>1, <4>2
      <4>. QED  BY <4>1, <4>3 DEF Event
    <3>3. Shape(replay, k + 1)
      <4>1. k + 1 + 1 = k + 2
        BY <2>1
      <4>. QED  BY <2>2, <4>1 DEF Shape, Closes
    <3>. HIDE DEF Shape
    <3>. QED  BY <3>1, <3>2, <3>3 DEF Runs
  <2>6. Carries(replay, client.text, handler[s], s, "resume")
    <3>1. k + 1 \in 0..Len(replay)
      BY <2>1, <2>2
    <3>. HIDE DEF Runs, EndsWith
    <3>. QED  BY <1>1, <1>4, <2>5, <3>1 DEF Carries
  <2>7. conn'.wire \o conn'.todo = replay
    BY <2>2, <2>4, ConcatEmptySeq
  <2>8. Flow'
    <3>1. Link(conn') = "resume"
      BY <2>4 DEF Link
    <3>. QED  BY <1>2, <2>1, <2>4, <2>6, <2>7, <3>1, FlowAfter
  <2>9. Conns'
    BY <2>4 DEF Conns
  <2>. QED  BY <1>3, <2>8, <2>9 DEF Traced
<1>7. CASE AcceptNew(s)
  <2>1. /\ conn' = [conn EXCEPT !.mode = "new", !.stream = s]
        /\ Goto(s, "store") /\ handler[s] = Off
    BY <1>7 DEF AcceptNew, Goto
  <2>2. /\ conn'.mode = "new" /\ conn'.stream = s /\ conn'.todo = <<>> /\ conn'.wire = <<>>
    BY <1>1, <1>2, <2>1 DEF Conn
  <2>3. "store" \in HandlerPcs
    BY DEF HandlerPcs, Active
  <2>4. PICK h \in Handler : /\ handler' = [handler EXCEPT ![s] = h]
                             /\ h.pc = "store" /\ h.n = handler[s].n /\ h.told = handler[s].told
    BY <2>1, <2>3, GotoMoves
  <2>5. handler'[s] = h /\ h.told = -1
    BY <2>1, <2>4 DEF TypeOK, Off
  <2>6. ASSUME NEW link PROVE Carries(<<>>, client.text, h, s, link)
    <3>1. Len(<<>>) = 0 /\ 0 \in 0..Len(<<>>) /\ 0 \in {0, 1}
      OBVIOUS
    <3>2. Runs(<<>>, s, 0, 0, 0) /\ ~DoneAt(<<>>, 0)
      BY <3>1 DEF Runs, Shape, DoneAt
    <3>3. SentFits(h, <<>>, 0, 0, 0)
      BY <2>4, <2>5 DEF SentFits, Fresh, Plain, Marked
    <3>. HIDE DEF Runs, EndsWith, SentFits, DoneAt
    <3>. QED  BY <1>1, <1>4, <3>1, <3>2, <3>3 DEF Carries
  <2>7. conn'.wire \o conn'.todo = <<>>
    BY <1>5, <2>2, ConcatEmptySeq
  <2>8. Flow'
    BY <1>2, <2>2, <2>5, <2>6, <2>7, FlowAfter
  <2>9. Conns'
    BY <2>2 DEF Conns
  <2>. QED  BY <1>3, <2>8, <2>9 DEF Traced
<1>. QED  BY <1>6, <1>7

\* A text that goes on with the next chunk of its stream has no gap.
LEMMA TextGoesOn ==
  ASSUME NEW text \in Seq(Contents), NEW c \in Contents, NEW s, NEW r \in Nat, c = <<s, r>>,
         r > 0 => Len(text) > 0 /\ text[Len(text)] = <<s, r - 1>>,
         \A i \in DOMAIN text :
           text[i][2] > 0 => i > 1 /\ text[i - 1] = <<text[i][1], text[i][2] - 1>>
  PROVE  \A i \in DOMAIN Append(text, c) :
           LET d == Append(text, c)[i] IN
           d[2] > 0 => i > 1 /\ Append(text, c)[i - 1] = <<d[1], d[2] - 1>>
<1>. DEFINE t == Append(text, c)
            n == Len(text)
<1>1. /\ n \in Nat /\ DOMAIN text = 1..n /\ DOMAIN t = 1..(n + 1) /\ t[n + 1] = c
      /\ \A i \in 1..n : t[i] = text[i]
  BY AppendProperties, LenProperties
<1>2. c[1] = s /\ c[2] = r
  OBVIOUS
<1>. HIDE DEF t, n
<1>3. ASSUME NEW i \in DOMAIN t, t[i][2] > 0
      PROVE  i > 1 /\ t[i - 1] = <<t[i][1], t[i][2] - 1>>
  <2>1. CASE i = n + 1
    <3>1. t[i] = c /\ r > 0
      BY <1>1, <1>2, <1>3, <2>1
    <3>2. n > 0 /\ text[n] = <<s, r - 1>>
      BY <3>1 DEF n
    <3>3. i > 1 /\ i - 1 = n /\ n \in 1..n
      BY <1>1, <2>1, <3>2
    <3>4. t[i - 1] = <<s, r - 1>>
      BY <1>1, <3>2, <3>3
    <3>. QED  BY <1>2, <3>1, <3>3, <3>4
  <2>2. CASE i # n + 1
    <3>1. i \in 1..n /\ i \in DOMAIN text /\ t[i] = text[i]
      BY <1>1, <2>2
    <3>2. i > 1 /\ text[i - 1] = <<text[i][1], text[i][2] - 1>>
      BY <1>3, <3>1
    <3>3. i - 1 \in 1..n
      BY <1>1, <3>1, <3>2
    <3>. QED  BY <1>1, <3>1, <3>2, <3>3
  <2>. QED  BY <2>1, <2>2
<1>. QED  BY <1>3 DEF t

\* The reader takes the next event.
LEMMA ReadTraces == ASSUME TypeOK, Traced, Read PROVE Traced'
<1>. DEFINE f == Pipe
            g == Tail(conn.wire) \o conn.todo
            e == Head(conn.wire)
            s == conn.stream
            h == handler[conn.stream]
            link == Link(conn)
<1>1. /\ client.pc \in {"ask", "reading"} /\ conn.wire # <<>> /\ UNCHANGED handler
      /\ conn' = [conn EXCEPT !.wire = Tail(conn.wire)]
  BY DEF Read, Reading
<1>2. /\ conn'.mode = conn.mode /\ conn'.stream = s /\ conn'.up = conn.up
      /\ conn'.wire = Tail(conn.wire) /\ conn'.todo = conn.todo /\ Link(conn') = link
  <2>. DEFINE w == Tail(conn.wire)
  <2>1. conn \in Conn /\ conn' = [conn EXCEPT !.wire = w]
    BY <1>1 DEF TypeOK
  <2>. HIDE DEF w
  <2>2. /\ conn'.mode = conn.mode /\ conn'.stream = s /\ conn'.up = conn.up
        /\ conn'.wire = w /\ conn'.todo = conn.todo
    BY <2>1 DEF Conn
  <2>. QED  BY <2>2 DEF w, Link
<1>3. conn.mode # "none" /\ s \in Streams /\ (conn.mode # "resume" => conn.todo = <<>>)
  BY <1>1 DEF Traced, Conns
<1>4. Carries(f, client.text, h, s, link)
  BY <1>1, <1>3 DEF Traced, Flow
<1>5. /\ f \in Seq(Events) /\ g \in Seq(Events) /\ Rest(f, g) /\ f # <<>> /\ f[1] = e
      /\ e \in Events
  <2>. DEFINE w == conn.wire
              t == conn.todo
              v == Tail(w)
  <2>1. w \in Seq(Events) /\ t \in Seq(Events) /\ w # <<>>
    BY <1>1, PipeEvents
  <2>. HIDE DEF w, t
  <2>2. /\ v \in Seq(Events) /\ Len(v) = Len(w) - 1 /\ (\A i \in 1..Len(v) : v[i] = w[i + 1])
        /\ Head(w) \in Events /\ Head(w) = w[1] /\ Len(w) \in Nat /\ Len(w) > 0
        /\ Len(t) \in Nat
    BY <2>1, HeadTailProperties, EmptySeq
  <2>. HIDE DEF v
  <2>3. /\ w \o t \in Seq(Events) /\ Len(w \o t) = Len(w) + Len(t)
        /\ \A i \in 1..(Len(w) + Len(t)) :
             (w \o t)[i] = IF i <= Len(w) THEN w[i] ELSE t[i - Len(w)]
    BY <2>1, ConcatProperties
  <2>4. /\ v \o t \in Seq(Events) /\ Len(v \o t) = Len(v) + Len(t)
        /\ \A i \in 1..(Len(v) + Len(t)) :
             (v \o t)[i] = IF i <= Len(v) THEN v[i] ELSE t[i - Len(v)]
    BY <2>1, <2>2, ConcatProperties
  <2>5. Rest(w \o t, v \o t)
    <3>1. Len(v \o t) = Len(w \o t) - 1
      BY <2>2, <2>3, <2>4
    <3>2. ASSUME NEW i \in 1..Len(v \o t) PROVE (v \o t)[i] = (w \o t)[i + 1]
      <4>1. /\ i \in 1..(Len(v) + Len(t)) /\ i + 1 \in 1..(Len(w) + Len(t))
            /\ (i <= Len(v) <=> i + 1 <= Len(w)) /\ i - Len(v) = (i + 1) - Len(w)
        BY <2>2, <2>4
      <4>2. (v \o t)[i] = IF i <= Len(v) THEN v[i] ELSE t[i - Len(v)]
        BY <2>4, <4>1
      <4>3. (w \o t)[i + 1] = IF i + 1 <= Len(w) THEN w[i + 1] ELSE t[(i + 1) - Len(w)]
        BY <2>3, <4>1
      <4>4. i <= Len(v) => v[i] = w[i + 1]
        BY <2>2, <4>1
      <4>. QED  BY <4>1, <4>2, <4>3, <4>4
    <3>. QED  BY <3>1, <3>2 DEF Rest
  <2>6. 1 \in 1..(Len(w) + Len(t)) /\ 1 <= Len(w) /\ Len(w \o t) > 0
    BY <2>2, <2>3
  <2>7. (w \o t)[1] = Head(w)
    BY <2>2, <2>3, <2>6
  <2>8. w \o t # <<>>
    BY <2>6
  <2>. QED  BY <2>2, <2>3, <2>4, <2>5, <2>7, <2>8 DEF w, t, v, Pipe
<1>6. conn'.wire \o conn'.todo = g
  BY <1>2
<1>7. Conns'
  BY <1>2, <1>3 DEF Conns
<1>8. client.text \in Seq(Contents) /\ client \in Client
  BY DEF TypeOK, Client
<1>9. /\ client'.pc = CASE e.type = "done" -> "done" [] e.type = "error" -> "failed"
                      [] OTHER -> "reading"
      /\ client'.text = IF e.type = "chunk" /\ e.content # <<>>
                          THEN Append(client.text, e.content) ELSE client.text
  <2>. DEFINE pc == CASE e.type = "done" -> "done" [] e.type = "error" -> "failed"
                    [] OTHER -> "reading"
              n == IF client.pc = "ask" THEN 0 ELSE client.attempts
              id == IF e.type = "start" THEN "stream" ELSE "event"
              sid == IF e.type = "start" THEN e.stream ELSE client.sid
              t == IF e.type = "chunk" /\ e.content # <<>>
                     THEN Append(client.text, e.content) ELSE client.text
  <2>1. client' = [client EXCEPT !.pc = pc, !.attempts = n, !.lastId = id, !.sid = sid,
                                 !.text = t]
    BY DEF Read
  <2>. HIDE DEF pc, n, id, sid, t
  <2>2. client'.pc = pc /\ client'.text = t
    BY <1>8, <2>1 DEF Client
  <2>. QED  BY <2>2 DEF pc, t
<1>10. e.type \in {"start", "chunk", "done", "error"}
  BY <1>5 DEF Events
<1>11. handler'[conn'.stream] = h
  BY <1>1, <1>2
<1>12. Flow' <=> (client'.pc \in {"ask", "reading"} /\ conn.mode # "none" =>
                    Carries(g, client'.text, h, s, link))
  BY <1>2, <1>6, <1>11, FlowAfter
<1>13. Full' <=> (client'.pc = "done" /\ conn.mode = "new" =>
                    h.told # -1 /\ EndsWith(client'.text, s, h.told))
  BY <1>2, <1>11, FlowAfter
<1>14. client'.text = client.text => TextHasNoGaps'
  BY DEF Traced, TextHasNoGaps
<1>. HIDE DEF f, g, e, s, h, link
<1>15. CASE e.type = "start"
  <2>1. client'.pc = "reading" /\ client'.text = client.text
    BY <1>9, <1>15
  <2>2. Carries(g, client.text, h, s, link)
    BY <1>4, <1>5, <1>15, TakesStart
  <2>. QED  BY <1>7, <1>12, <1>13, <1>14, <2>1, <2>2 DEF Traced
<1>16. CASE e.type = "chunk" /\ e.content = <<>>
  <2>1. client'.pc = "reading" /\ client'.text = client.text
    BY <1>9, <1>16
  <2>2. Carries(g, client.text, h, s, link)
    BY <1>4, <1>5, <1>16, TakesLast
  <2>. QED  BY <1>7, <1>12, <1>13, <1>14, <2>1, <2>2 DEF Traced
<1>17. CASE e.type = "chunk" /\ e.content # <<>>
  <2>1. client'.pc = "reading" /\ client'.text = Append(client.text, e.content)
    BY <1>9, <1>17
  <2>2. /\ Carries(g, Append(client.text, e.content), h, s, link)
        /\ \E r \in Nat :
             /\ e.content = <<s, r>>
             /\ r > 0 => Len(client.text) > 0 /\ client.text[Len(client.text)] = <<s, r - 1>>
    BY <1>3, <1>4, <1>5, <1>8, <1>17, TakesChunk DEF s
  <2>3. e.content \in Contents
    BY <1>5, <1>17 DEF Events
  <2>4. TextHasNoGaps'
    <3>1. PICK r \in Nat :
            /\ e.content = <<s, r>>
            /\ r > 0 => Len(client.text) > 0 /\ client.text[Len(client.text)] = <<s, r - 1>>
      BY <2>2
    <3>2. \A i \in DOMAIN client.text :
            client.text[i][2] > 0 =>
              i > 1 /\ client.text[i - 1] = <<client.text[i][1], client.text[i][2] - 1>>
      BY DEF Traced, TextHasNoGaps
    <3>3. \A i \in DOMAIN Append(client.text, e.content) :
            LET d == Append(client.text, e.content)[i] IN
            d[2] > 0 => i > 1 /\ Append(client.text, e.content)[i - 1] = <<d[1], d[2] - 1>>
      BY <1>8, <2>3, <3>1, <3>2, TextGoesOn
    <3>. QED  BY <2>1, <3>3 DEF TextHasNoGaps
  <2>. QED  BY <1>7, <1>12, <1>13, <2>1, <2>2, <2>4 DEF Traced
<1>18. CASE e.type = "done"
  <2>1. client'.pc = "done" /\ client'.text = client.text
    BY <1>9, <1>18
  <2>2. ASSUME conn.mode = "new" PROVE h.told # -1 /\ EndsWith(client.text, s, h.told)
    <3>1. link # "resume"
      BY <2>2 DEF link, Link
    <3>. QED  BY <1>4, <1>5, <1>18, <3>1, TakesDone
  <2>. QED  BY <1>7, <1>12, <1>13, <1>14, <2>1, <2>2 DEF Traced
<1>19. CASE e.type = "error"
  <2>1. client'.pc = "failed" /\ client'.text = client.text
    BY <1>9, <1>19
  <2>. QED  BY <1>7, <1>12, <1>13, <1>14, <2>1 DEF Traced
<1>. QED  BY <1>10, <1>15, <1>16, <1>17, <1>18, <1>19

\* resumeStream moves an event from what it will write to what it wrote.
LEMMA ResumeTraces == ASSUME TypeOK, Traced, ResumeSend PROVE Traced'
<1>1. /\ client' = client /\ handler' = handler /\ conn.mode = "resume" /\ conn \in Conn
  BY DEF ResumeSend, TypeOK
<1>2. TextHasNoGaps'
  BY <1>1 DEF Traced, TextHasNoGaps
<1>3. ASSUME conn'.mode = "resume", conn'.stream = conn.stream, conn'.wire \o conn'.todo = Pipe
      PROVE  Traced'
  <2>1. Conns'
    BY <1>1, <1>3 DEF Traced, Conns
  <2>2. Link(conn') = Link(conn)
    BY <1>1, <1>3 DEF Link
  <2>3. Flow'
    BY <1>1, <1>3, <2>2, FlowAfter DEF Traced, Flow
  <2>4. Full'
    BY <1>3, FlowAfter
  <2>. QED  BY <1>2, <2>1, <2>3, <2>4 DEF Traced
<1>4. CASE conn.todo = <<>>
  <2>1. conn' = [conn EXCEPT !.ended = TRUE]
    BY <1>4 DEF ResumeSend
  <2>2. /\ conn'.mode = "resume" /\ conn'.stream = conn.stream /\ conn'.wire = conn.wire
        /\ conn'.todo = conn.todo
    BY <1>1, <2>1 DEF Conn
  <2>. QED  BY <1>3, <2>2 DEF Pipe
<1>5. CASE conn.todo # <<>>
  <2>. DEFINE x == Head(conn.todo)
              w == Append(conn.wire, x)
              v == Tail(conn.todo)
  <2>1. conn' = [conn EXCEPT !.wire = w, !.todo = v]
    BY <1>5 DEF ResumeSend
  <2>2. w \o v = Pipe
    <3>. DEFINE a == conn.wire
                t == conn.todo
    <3>1. a \in Seq(Events) /\ t \in Seq(Events) /\ t # <<>>
      BY <1>5, PipeEvents
    <3>. HIDE DEF a, t
    <3>2. Head(t) \in Events /\ Tail(t) \in Seq(Events) /\ t = <<Head(t)>> \o Tail(t)
      BY <3>1
    <3>3. Append(a, Head(t)) = a \o <<Head(t)>>
      BY <3>1, <3>2, AppendIsConcat
    <3>4. (a \o <<Head(t)>>) \o Tail(t) = a \o (<<Head(t)>> \o Tail(t))
      BY <3>1, <3>2, ConcatAssociative
    <3>5. Append(a, Head(t)) \o Tail(t) = a \o t
      BY <3>2, <3>3, <3>4
    <3>. QED  BY <3>5 DEF a, t, Pipe
  <2>. HIDE DEF w, v
  <2>3. /\ conn'.mode = "resume" /\ conn'.stream = conn.stream /\ conn'.wire = w
        /\ conn'.todo = v
    BY <1>1, <2>1 DEF Conn
  <2>. QED  BY <1>3, <2>2, <2>3
<1>. QED  BY <1>4, <1>5

\* The connection breaks.
LEMMA DropTraces == ASSUME TypeOK, Traced, Drop PROVE Traced'
<1>1. PICK k \in 0..Len(conn.wire) :
        conn' = [conn EXCEPT !.up = FALSE, !.wire = SubSeq(conn.wire, 1, k), !.todo = <<>>]
  BY DEF Drop
<1>. DEFINE g == SubSeq(conn.wire, 1, k)
<1>2. /\ client' = client /\ handler' = handler /\ conn \in Conn /\ conn.mode # "none"
      /\ client.pc \in {"ask", "reading"}
  BY DEF Drop, TypeOK
<1>3. /\ g \in Seq(Events) /\ Len(g) <= Len(Pipe) /\ Pipe \in Seq(Events)
      /\ \A i \in 1..Len(g) : g[i] = Pipe[i]
  <2>. DEFINE w == conn.wire
              t == conn.todo
  <2>1. w \in Seq(Events) /\ t \in Seq(Events) /\ Len(w) \in Nat /\ Len(t) \in Nat
    BY PipeEvents, LenProperties
  <2>2. k \in 0..Len(w)
    OBVIOUS
  <2>. HIDE DEF w, t
  <2>3. \A i \in 1..k : w[i] \in Events
    BY <2>1, <2>2, ElementOfSeq
  <2>4. /\ SubSeq(w, 1, k) \in Seq(Events) /\ Len(SubSeq(w, 1, k)) = k
        /\ \A i \in 1..k : SubSeq(w, 1, k)[i] = w[i]
    BY <2>1, <2>2, <2>3, SubSeqProperties
  <2>5. /\ w \o t \in Seq(Events) /\ Len(w \o t) = Len(w) + Len(t)
        /\ \A i \in 1..k : (w \o t)[i] = w[i]
    BY <2>1, <2>2, ConcatProperties
  <2>6. k <= Len(w \o t)
    BY <2>1, <2>2, <2>5
  <2>. QED  BY <2>4, <2>5, <2>6 DEF w, t, Pipe
<1>4. conn' = [conn EXCEPT !.up = FALSE, !.wire = g, !.todo = <<>>]
  BY <1>1
<1>. HIDE DEF g
<1>5. /\ conn'.mode = conn.mode /\ conn'.stream = conn.stream /\ conn'.up = FALSE
      /\ conn'.wire = g /\ conn'.todo = <<>>
  BY <1>2, <1>4 DEF Conn
<1>6. conn'.wire \o conn'.todo = g
  BY <1>3, <1>5, ConcatEmptySeq
<1>7. /\ Link(conn') \in {"lost", "resume"}
      /\ Link(conn') = "resume" <=> Link(conn) = "resume"
  BY <1>5 DEF Link
<1>8. Carries(Pipe, client.text, handler[conn.stream], conn.stream, Link(conn))
  BY <1>2 DEF Traced, Flow
<1>9. PICK cut \in {"lost", "resume"} : cut = Link(conn')
  BY <1>7
<1>10. Carries(g, client.text, handler[conn.stream], conn.stream, cut)
  BY <1>3, <1>7, <1>8, <1>9, CutCarries
<1>11. Flow'
  BY <1>2, <1>5, <1>6, <1>9, <1>10, FlowAfter
<1>12. Full' /\ TextHasNoGaps'
  BY <1>2, FlowAfter DEF Traced, TextHasNoGaps
<1>13. Conns'
  BY <1>2, <1>5 DEF Traced, Conns
<1>. QED  BY <1>11, <1>12, <1>13 DEF Traced

\* The request is refused, is made again or given up, or the user aborts.
LEMMA EndsTrace == ASSUME TypeOK, Traced, Refuse \/ Retry \/ Abort PROVE Traced'
<1>1. conn \in Conn /\ client \in Client
  BY DEF TypeOK
<1>2. ASSUME client'.text = client.text PROVE TextHasNoGaps'
  BY <1>2 DEF Traced, TextHasNoGaps
<1>3. CASE Refuse
  <2>1. /\ client' = client /\ conn'.mode = "none" /\ conn'.wire = conn.wire
        /\ conn'.todo = conn.todo
    BY <1>1, <1>3 DEF Refuse, Conn
  <2>2. Conns' /\ Flow' /\ Full'
    BY <1>3, <2>1, FlowAfter DEF Traced, Conns, Refuse
  <2>. QED  BY <1>2, <2>1, <2>2 DEF Traced
<1>4. CASE Retry
  <2>1. /\ client'.text = client.text /\ client'.pc \in {"ask", "failed"}
        /\ client'.pc = "ask" => conn' = NewConn
        /\ client'.pc = "failed" => conn' = conn
    BY <1>1, <1>4 DEF Retry, Client
  <2>2. Flow' /\ Full'
    BY <2>1, FlowAfter DEF NewConn
  <2>3. Conns'
    BY <2>1 DEF Traced, Conns, NewConn
  <2>. QED  BY <1>2, <2>1, <2>2, <2>3 DEF Traced
<1>5. CASE Abort
  <2>1. /\ client'.text = client.text /\ client'.pc = "aborted"
        /\ conn'.mode = conn.mode /\ conn'.stream = conn.stream
        /\ conn'.wire = <<>> /\ conn'.todo = <<>>
    BY <1>1, <1>5 DEF Abort, Client, Conn
  <2>2. Flow' /\ Full'
    BY <2>1, FlowAfter
  <2>3. Conns'
    BY <2>1 DEF Traced, Conns
  <2>. QED  BY <1>2, <2>1, <2>2, <2>3 DEF Traced
<1>. QED  BY <1>3, <1>4, <1>5

\* Nothing that the invariant speaks of changes.
LEMMA SameTraces ==
  ASSUME Traced, client' = client, conn' = conn, handler' = handler
  PROVE  Traced'
<1>1. Flow' /\ Full'
  BY FlowAfter DEF Traced, Flow, Full, Pipe
<1>. QED  BY <1>1 DEF Traced, Conns, TextHasNoGaps

\* Every step keeps what is said of the text and the flow.
LEMMA TracedNext == TypeOK /\ Stored /\ Traced /\ [Next]_vars => Traced'
<1>. SUFFICES ASSUME TypeOK, Stored, Traced, [Next]_vars PROVE Traced'
  OBVIOUS
<1>1. CASE Accept
  BY <1>1, AcceptTraces DEF Accept
<1>2. CASE Refuse \/ ResumeSend \/ Read \/ Retry \/ Drop \/ Abort
  BY <1>2, ReadTraces, ResumeTraces, DropTraces, EndsTrace
<1>3. ASSUME NEW s \in Streams, HandlerStep(s) \/ FaultStep(s) \/ NoticeClose(s) PROVE Traced'
  <2>1. CASE ExpireState(s)
    BY <2>1, SameTraces DEF ExpireState
  <2>2. CASE SendStart(s) \/ SendChunk(s) \/ SendLast(s) \/ SendDone(s) \/ SendError(s)
    BY <2>2, SendsTrace
  <2>. QED  BY <1>3, <2>1, <2>2, QuietsTrace DEF HandlerStep, FaultStep
<1>4. CASE UNCHANGED vars
  BY <1>4, SameTraces DEF vars
<1>. QED  BY <1>1, <1>2, <1>3, <1>4 DEF Next

\* What is in the text follows from what was on its way.
THEOREM TracedHolds == Spec => []Traced
<1>1. Init => Traced
  BY InitTraced
<1>2. TypeOK /\ Stored /\ Traced /\ [Next]_vars => Traced'
  BY TracedNext
<1>. QED  BY <1>1, <1>2, StoredHolds, PTL DEF Spec

\* The reader never shows a chunk but right after the one before it in its stream:
\* whatever is dropped, replayed or asked again, only a first chunk follows another.
THEOREM TextIsWhole == Spec => []TextHasNoGaps
<1>1. Traced => TextHasNoGaps
  BY DEF Traced
<1>. QED  BY <1>1, TracedHolds, PTL

\* A text that ends with the first r chunks of a stream has them as its suffix.
LEMMA EndsWithIsSuffix ==
  ASSUME NEW text \in Seq(Contents), NEW s \in Streams, NEW r \in 0..MaxChunks,
         EndsWith(text, s, r)
  PROVE  IsSuffix(Chunks(s, r), text)
<1>. DEFINE u == Chunks(s, r)
            n == Len(text)
            ru == Reverse(u)
            rt == Reverse(text)
<1>1. /\ u \in Seq(Contents) /\ Len(u) = r /\ r \in Nat /\ n \in Nat /\ r <= n
      /\ \A i \in 1..r : u[i] = <<s, i - 1>>
  <2>1. r \in Nat /\ n \in Nat
    BY BoundsAssumption
  <2>2. r <= n
    BY DEF EndsWith
  <2>3. u \in Seq(Contents) /\ Len(u) = r /\ \A i \in 1..r : u[i] = <<s, i - 1>>
    BY ChunksOfStream
  <2>. QED  BY <2>1, <2>2, <2>3
<1>2. \A i \in 1..r : text[n - r + i] = u[i]
  BY <1>1 DEF EndsWith
<1>. HIDE DEF u
<1>3. /\ ru \in Seq(Contents) /\ Len(ru) = r /\ \A i \in 1..r : ru[i] = u[(r - i) + 1]
  <2>1. ASSUME NEW i \in 1..r PROVE u[(r - i) + 1] \in Contents
    <3>1. (r - i) + 1 \in 1..Len(u)
      BY <1>1
    <3>. QED  BY <1>1, <3>1, ElementOfSeq
  <2>2. ru = [i \in 1..r |-> u[(r - i) + 1]]
    BY <1>1 DEF Reverse
  <2>. QED  BY <1>1, <2>1, <2>2
<1>4. /\ rt \in Seq(Contents) /\ Len(rt) = n /\ \A i \in 1..n : rt[i] = text[(n - i) + 1]
  <2>1. ASSUME NEW i \in 1..n PROVE text[(n - i) + 1] \in Contents
    <3>1. (n - i) + 1 \in 1..Len(text)
      BY <1>1
    <3>. QED  BY <3>1, ElementOfSeq
  <2>2. rt = [i \in 1..n |-> text[(n - i) + 1]]
    BY DEF Reverse
  <2>. HIDE DEF n
  <2>. QED  BY <1>1, <2>1, <2>2
<1>. HIDE DEF ru, rt, n
<1>5. ASSUME NEW i \in 1..r PROVE ru[i] = rt[i] /\ ru[i] \in Contents
  <2>1. /\ (r - i) + 1 \in 1..r /\ n - r + ((r - i) + 1) = (n - i) + 1 /\ i \in 1..n
        /\ i \in 1..Len(ru)
    BY <1>1, <1>3
  <2>2. text[n - r + ((r - i) + 1)] = u[(r - i) + 1]
    BY <1>2, <2>1
  <2>3. ru[i] \in Contents
    BY <1>3, <2>1, ElementOfSeq
  <2>. QED  BY <1>3, <1>4, <2>1, <2>2, <2>3
<1>6. /\ SubSeq(ru, 1, r) \in Seq(Contents) /\ Len(SubSeq(ru, 1, r)) = r
      /\ \A i \in 1..r : SubSeq(ru, 1, r)[i] = ru[i]
  BY <1>1, <1>5, SubSeqProperties
<1>7. /\ SubSeq(rt, 1, r) \in Seq(Contents) /\ Len(SubSeq(rt, 1, r)) = r
      /\ \A i \in 1..r : SubSeq(rt, 1, r)[i] = rt[i]
  BY <1>1, <1>5, SubSeqProperties
<1>8. SubSeq(ru, 1, r) = SubSeq(rt, 1, r)
  BY <1>5, <1>6, <1>7, SeqEqual
<1>9. IsPrefix(ru, rt)
  BY <1>1, <1>3, <1>4, <1>8 DEF IsPrefix
<1>. QED  BY <1>9 DEF IsSuffix, ru, rt, u

\* A reader told done by startNewStream ends with all that the provider said up to
\* the finishReason: no fault, drop or reconnection on the way cuts the answer.
THEOREM FullAnswer == Spec => []DoneMeansFullAnswer
<1>1. TypeOK /\ Traced => DoneMeansFullAnswer
  <2>. SUFFICES ASSUME TypeOK, Traced, client.pc = "done", conn.mode = "new"
                PROVE  IsSuffix(Chunks(conn.stream, handler[conn.stream].told), client.text)
    BY DEF DoneMeansFullAnswer
  <2>1. /\ conn.stream \in Streams /\ handler[conn.stream].told # -1
        /\ EndsWith(client.text, conn.stream, handler[conn.stream].told)
    BY DEF Traced, Conns, Full
  <2>2. handler[conn.stream].told \in 0..MaxChunks /\ client.text \in Seq(Contents)
    BY <2>1 DEF TypeOK, Handler, Client
  <2>. QED  BY <2>1, <2>2, EndsWithIsSuffix
<1>. QED  BY <1>1, StoredHolds, TracedHolds, PTL

=============================================================================
