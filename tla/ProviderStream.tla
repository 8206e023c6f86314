---------------------------- MODULE ProviderStream ----------------------------
(***************************************************************************)
(* A call of an AI provider: chatStream of OpenAI and Anthropic, which     *)
(* parse the lines of an SSE body, and fetchWithRetry of all providers     *)
(* ("call"), with retries, and the consumer of the generator: the          *)
(* WebSocket stops at the chunk with a finishReason, the SSE route reads   *)
(* on.                                                                     *)
(*                                                                         *)
(* A line arrives in two halves, and a read returns one or more halves.    *)
(* The timeout of the attempt ends with the headers; nothing here assumes  *)
(* that a body ends.                                                       *)
(***************************************************************************)
EXTENDS Integers, Sequences

CONSTANTS
  MaxRetries,   \* maxRetries of the configuration
  Size          \* content lines of a complete answer

VARIABLES
  kind, consumer, pc, retries, sent, buffer, lines, finish, yielded,
  skipped       \* history: <<attempt, content line>> that did not parse

vars == <<kind, consumer, pc, retries, sent, buffer, lines, finish, yielded, skipped>>
body == <<sent, buffer, lines, finish>>

\* After the content: finish_reason, the usage chunk and [DONE] of OpenAI;
\* message_delta and message_stop of Anthropic.
Tail2 == IF kind = "openai" THEN <<"finish", "usage", "end">> ELSE <<"finish", "end">>
Answer == [k \in 1..Size |-> "content"] \o Tail2
Halves == 2 * Len(Answer)
AllContent == (0..MaxRetries) \X (1..Size)

Init ==
  /\ kind \in {"openai", "anthropic", "call"} /\ consumer \in {"ws", "sse"}
  /\ pc = "fetch" /\ retries = 0 /\ yielded = <<>>
  /\ sent = 0 /\ buffer = 0 /\ lines = <<>> /\ finish = FALSE /\ skipped = {}

Headers ==
  /\ pc = "fetch"
  /\ pc' = "body"
  /\ sent' = 0 /\ buffer' = 0 /\ lines' = <<>> /\ finish' = FALSE
  /\ UNCHANGED <<kind, consumer, retries, yielded, skipped>>

FailAttempt ==
  /\ pc' = IF retries < MaxRetries THEN "backoff" ELSE "threw"
  /\ UNCHANGED <<kind, consumer, retries, body, yielded, skipped>>

\* 429, 529 or 5xx, which the errors' isRetryable tells.
Retryable == pc = "fetch" /\ FailAttempt

\* The timeout, the network, a body that breaks or is not JSON: the catch of the
\* attempt, also after it has yielded.
Breaks == pc \in {"fetch", "body"} /\ lines = <<>> /\ FailAttempt

\* Any other status, or an error event in Anthropic's body.
Fatal ==
  /\ pc = "fetch" \/ (pc = "body" /\ lines = <<>> /\ kind = "anthropic")
  /\ pc' = "threw"
  /\ UNCHANGED <<kind, consumer, retries, body, yielded, skipped>>

Backoff ==
  /\ pc = "backoff"
  /\ pc' = "fetch" /\ retries' = retries + 1
  /\ UNCHANGED <<kind, consumer, body, yielded, skipped>>

\* Half h belongs to line (h + 1) \div 2.  The line without its end is kept; the
\* line that a piece begins in the middle of is whole if its beginning was kept.
Kept(h) == IF h % 2 = 1 THEN (h + 1) \div 2 ELSE 0
Parsed(first, last) ==
  LET begun == (first + 1) \div 2
      whole == IF first % 2 = 0 /\ buffer # begun THEN begun + 1 ELSE begun
  IN SubSeq([l \in 1..Len(Answer) |-> l], whole, last \div 2)

\* Mutant of ReadPiece: the rest of the piece is thrown away.
ReadDropsRest(n) ==
  /\ lines' = Parsed(sent + 1, sent + n)
  /\ buffer' = 0

ReadPiece(n) ==
  /\ lines' = Parsed(sent + 1, sent + n)
  /\ buffer' = Kept(sent + n)

Read ==
  /\ pc = "body" /\ kind # "call" /\ lines = <<>>
  /\ \E n \in 1..3 : sent + n <= Halves /\ ReadPiece(n) /\ sent' = sent + n
  /\ UNCHANGED <<kind, consumer, pc, retries, finish, yielded, skipped>>

Yield(k, last) ==
  /\ yielded' = Append(yielded, [attempt |-> retries, k |-> k, last |-> last])
  /\ pc' = IF last /\ consumer = "ws" THEN "stopped"
           ELSE IF k = 0 /\ Answer[Head(lines)] = "end" THEN "returned" ELSE pc

\* OpenAI's finish_reason comes on a line of its own or with the last content,
\* which is yielded all the same.
Line ==
  /\ pc = "body" /\ lines # <<>>
  /\ CASE Answer[Head(lines)] = "content" ->
            /\ Yield(Head(lines), FALSE)
            /\ finish' \in {finish, kind = "openai" /\ Head(lines) = Size}
       [] Answer[Head(lines)] = "finish" -> finish' = TRUE /\ UNCHANGED <<yielded, pc>>
       [] Answer[Head(lines)] = "usage" -> Yield(0, finish) /\ finish' = FALSE
       [] OTHER ->
            /\ IF finish \/ kind = "anthropic" THEN Yield(0, TRUE)
               ELSE pc' = "returned" /\ UNCHANGED yielded
            /\ UNCHANGED finish
  /\ lines' = Tail(lines)
  /\ UNCHANGED <<kind, consumer, retries, sent, buffer, skipped>>

\* The catch of a line: it is not JSON, or has no choices (an error object of
\* OpenAI).  Whatever it carried is lost, and the attempt goes on.
SkipLine ==
  /\ pc = "body" /\ lines # <<>>
  /\ skipped' = skipped \cup ({<<retries, Head(lines)>>} \cap AllContent)
  /\ lines' = Tail(lines)
  /\ UNCHANGED <<kind, consumer, pc, retries, sent, buffer, finish, yielded>>

\* The body ends, early or not; a call has its answer.
BodyEnds ==
  /\ pc = "body" /\ lines = <<>>
  /\ pc' = "returned"
  /\ UNCHANGED <<kind, consumer, retries, body, yielded, skipped>>

\* The client is gone: the loop is left at a yield.
ConsumerStops ==
  /\ pc = "body" /\ yielded # <<>> /\ consumer = "ws"
  /\ pc' = "stopped"
  /\ UNCHANGED <<kind, consumer, retries, body, yielded, skipped>>

Next ==
  \/ Headers \/ Retryable \/ Breaks \/ Fatal \/ Backoff \/ Read \/ Line \/ SkipLine
  \/ BodyEnds \/ ConsumerStops

Spec == Init /\ [][Next]_vars

-----------------------------------------------------------------------------
\* Every variable has its type.
TypeOK ==
  /\ kind \in {"openai", "anthropic", "call"} /\ consumer \in {"ws", "sse"}
  /\ pc \in {"fetch", "body", "backoff", "threw", "returned", "stopped"}
  /\ retries \in 0..MaxRetries
  /\ sent \in 0..Halves /\ buffer \in 0..Len(Answer) /\ finish \in BOOLEAN
  /\ lines \in Seq(1..Len(Answer))
  /\ yielded \in Seq([attempt : 0..MaxRetries, k : 0..Size, last : BOOLEAN])
  /\ skipped \subseteq AllContent

\* However the body is cut into reads and however often it breaks, an attempt
\* yields its content in order and none of it twice, and what it leaves out
\* before a later chunk, or before the chunk with a finishReason, are lines that
\* did not parse.  What an attempt yielded before it broke is yielded again by
\* the next one, so that the consumer sees it twice.
NoGapInAttempt ==
  \A i \in DOMAIN yielded :
    LET c == yielded[i]
        before == IF i > 1 /\ yielded[i-1].attempt = c.attempt THEN yielded[i-1].k ELSE 0
        upto == IF c.last THEN Size ELSE c.k - 1
    IN /\ c.k # 0 => c.k > before
       /\ \A k \in before + 1..upto : <<c.attempt, k>> \in skipped

=============================================================================
