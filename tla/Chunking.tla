------------------------------ MODULE Chunking ------------------------------
(***************************************************************************)
(* TextChunkingService (pipeline/chunking.ts): a text is cut into chunks   *)
(* of a size that overlap, or into chunks of whole sentences.  A step is   *)
(* one turn of a loop.  splitIntoSentences keeps no state, so that each    *)
(* sentence is split off in the turn that adds it to a chunk.  Characters  *)
(* are of three kinds: the end of a sentence, a blank, any other.          *)
(***************************************************************************)
EXTENDS Integers, Sequences, FiniteSetsExt

CONSTANT MaxLength    \* bound: characters of a text

VARIABLES
  input,              \* text, chunkSize, chunkOverlap, and the method that is called
  chunks,             \* the chunks so far
  startChar,          \* startChar, currentStartChar
  currentChunk,
  begin,              \* history: the sentences before currentChunk, in characters
  lastIndex,          \* lastIndex: the text up to it was split off
  padded,             \* history: the sentences so far, one after the other
  returned

vars == <<input, chunks, startChar, currentChunk, begin, lastIndex, padded, returned>>

Chars == {"other", "blank", "end"}
Texts == UNION {[1..n -> Chars] : n \in 0..MaxLength}

\* The routes pass on what parseInt makes of the query, which may be negative or
\* NaN (nan; overlap is 0 then, and not looked at); a NaN that goes by the queue
\* is null in its job, which counts as 0.  The constructor refuses chunkOverlap
\* >= chunkSize, which no NaN is.  Sizes below 1 are left out.
Options == {o \in [size : 1..MaxLength, overlap : -MaxLength..MaxLength, nan : BOOLEAN] :
              IF o.nan THEN o.overlap = 0 ELSE o.overlap < o.size}

Init ==
  /\ input \in [text : Texts, options : Options, sentences : BOOLEAN]
  /\ chunks = <<>> /\ startChar = 0 /\ currentChunk = <<>> /\ begin = 0
  /\ lastIndex = 0 /\ padded = <<>> /\ returned = (input.text = <<>>)

-----------------------------------------------------------------------------

Text == input.text
ChunkSize == input.options.size
Overlap == input.options.overlap
NaN == input.options.nan
NoOffset == -1      \* an offset that is NaN

Blank(s) == \A i \in DOMAIN s : s[i] = "blank"
Trim(s) ==
  LET kept == {i \in DOMAIN s : s[i] # "blank"} IN
  IF kept = {} THEN <<>> ELSE SubSeq(s, Min(kept), Max(kept))

\* from and to are history: the stretch of the text, or of the sentences, that
\* the chunk is.
Chunk(s, start, from, length) ==
  [text |-> s, startChar |-> start, from |-> from, to |-> from + length,
   endChar |-> IF start = NoOffset THEN NoOffset ELSE start + length]

\* Mutant of Step: the overlap is added where it is to be subtracted.
StepAdds(size, overlap) == size + overlap

\* From the start of a slice to the start of the next.
Step(size, overlap) == size - overlap

\* The loop of chunkText: blank slices are left out; it ends with the text, and
\* no NaN is less than its length.
NextSlice ==
  /\ ~input.sentences /\ ~returned
  /\ LET end == IF startChar + ChunkSize < Len(Text) THEN startChar + ChunkSize ELSE Len(Text)
         slice == SubSeq(Text, startChar + 1, end)
     IN  /\ chunks' = IF Blank(slice) THEN chunks
                       ELSE Append(chunks, Chunk(slice, startChar, startChar, end - startChar))
         /\ startChar' = IF NaN THEN NoOffset ELSE startChar + Step(ChunkSize, Overlap)
         /\ returned' = (end = Len(Text) \/ NaN \/ startChar' >= Len(Text))
  /\ UNCHANGED <<input, currentChunk, begin, lastIndex, padded>>

\* A run of ends closes a sentence.
Closes == {i \in DOMAIN Text : Text[i] = "end" /\ (i = Len(Text) \/ Text[i+1] # "end")}

\* Where the overlap begins in the chunk that is full.  A NaN is cut at 0; a
\* negative overlap begins behind the end of the chunk, and takes nothing over.
OverlapStart ==
  IF NaN \/ Len(currentChunk) <= Overlap THEN 0 ELSE Len(currentChunk) - Overlap

\* The chunk that is full, or the last one.
SentenceChunk == Chunk(Trim(currentChunk), startChar, begin, Len(currentChunk))

\* The loop of chunkTextWithSentences: a sentence that does not fit any more
\* begins a chunk, after the overlap.
AddSentence(sentence) ==
  /\ IF Len(currentChunk) + Len(sentence) > ChunkSize /\ currentChunk # <<>>
     THEN /\ chunks' = Append(chunks, SentenceChunk)
          /\ currentChunk' = SubSeq(currentChunk, OverlapStart + 1, Len(currentChunk)) \o sentence
          /\ startChar' = IF NaN THEN NoOffset ELSE startChar + OverlapStart
          /\ begin' = begin + Min({OverlapStart, Len(currentChunk)})
     ELSE currentChunk' = currentChunk \o sentence /\ UNCHANGED <<chunks, startChar, begin>>
  /\ padded' = padded \o sentence
  /\ UNCHANGED <<input, returned>>

\* splitIntoSentences: a sentence gets a blank.
NextSentence ==
  /\ input.sentences /\ ~returned
  /\ \E end \in Closes :
       /\ end > lastIndex /\ \A i \in Closes : i > lastIndex => i >= end
       /\ lastIndex' = end
       /\ AddSentence(Append(SubSeq(Text, lastIndex + 1, end), "blank"))

\* splitIntoSentences: a rest that is blank is dropped.
Rest ==
  /\ input.sentences /\ lastIndex < Len(Text)
  /\ \A i \in Closes : i <= lastIndex
  /\ lastIndex' = Len(Text)
  /\ LET rest == SubSeq(Text, lastIndex + 1, Len(Text)) IN
     IF Blank(rest)
     THEN UNCHANGED <<input, chunks, startChar, currentChunk, begin, padded, returned>>
     ELSE AddSentence(rest)

\* The final chunk.
LastChunk ==
  /\ input.sentences /\ ~returned /\ lastIndex = Len(Text)
  /\ chunks' = IF Blank(currentChunk) THEN chunks
               ELSE Append(chunks, SentenceChunk)
  /\ returned' = TRUE
  /\ UNCHANGED <<input, startChar, currentChunk, begin, lastIndex, padded>>

Next == NextSlice \/ NextSentence \/ Rest \/ LastChunk

Spec == Init /\ [][Next]_vars

-----------------------------------------------------------------------------
\* Every variable has its type.
TypeOK ==
  /\ Text \in Seq(Chars) /\ input.options \in Options /\ input.sentences \in BOOLEAN
  /\ chunks \in Seq([text : Seq(Chars), startChar : Int, endChar : Int, from : Nat, to : Nat])
  /\ startChar \in Int /\ currentChunk \in Seq(Chars) /\ begin \in Nat
  /\ lastIndex \in 0..Len(Text) /\ padded \in Seq(Chars) /\ returned \in BOOLEAN

\* What chunkText never looks at: with a negative overlap the step is longer than
\* the size, and the characters between two slices are passed over; with a NaN
\* there is no slice after the first.
PassedOver(i) ==
  IF NaN THEN i > ChunkSize
  ELSE \E n \in 0..Len(Text) : LET start == n * (ChunkSize - Overlap) IN
         start + ChunkSize < i /\ i <= start + (ChunkSize - Overlap)

\* What chunkText promises: every character that is not blank lies in a chunk,
\* or is passed over, which none is if the overlap is not negative; chunks are
\* slices no longer than the size, none lies inside another, and neighbours
\* share just the overlap.
CoversText ==
  /\ returned => \A i \in DOMAIN Text : Text[i] # "blank" =>
       PassedOver(i) \/ \E k \in DOMAIN chunks : chunks[k].startChar < i /\ i <= chunks[k].endChar
  /\ \A k \in DOMAIN chunks : LET c == chunks[k] IN
       /\ c.text = SubSeq(Text, c.startChar + 1, c.endChar) /\ Len(c.text) <= ChunkSize
       /\ k > 1 => /\ chunks[k-1].endChar < c.endChar
                   /\ chunks[k-1].endChar - c.startChar <= Overlap
                   /\ \A i \in chunks[k-1].endChar + 1 .. c.startChar + Overlap :
                        Text[i] = "blank" \/ PassedOver(i)

\* Where a character of the text is among the sentences: each sentence that
\* ended before it has a blank more.
Place(i) == i + Cardinality({j \in Closes : j < i})

\* What the chunks of sentences promise: no word of the text is lost, moved or
\* made up; each chunk begins no later than the one before it ends, and no
\* earlier than the overlap before that (a negative one is none, and a NaN takes
\* the whole chunk over); the last one ends with the text.  If the overlap is a
\* number and not negative, the offsets of a chunk, which count the blanks that
\* were added, give it back; a negative one makes them run ahead, and after the
\* first chunk a NaN makes them NaN.
KeepsSentences ==
  /\ \A i \in 1..lastIndex : Text[i] # "blank" =>
       Place(i) \in DOMAIN padded /\ padded[Place(i)] = Text[i]
  /\ \A p \in DOMAIN padded : padded[p] # "blank" => \E i \in 1..lastIndex : p = Place(i)
  /\ \A k \in DOMAIN chunks : LET c == chunks[k]
                                  end == IF k = 1 THEN 0 ELSE chunks[k-1].to IN
       /\ c.text = Trim(SubSeq(padded, c.from + 1, c.to))
       /\ c.from <= end
       /\ IF NaN THEN c.from = 0 ELSE c.from = end \/ end - c.from <= Overlap
       /\ ~NaN /\ Overlap >= 0 => c.startChar = c.from /\ c.endChar = c.to
  /\ returned => IF chunks = <<>> THEN Blank(Text)
                 ELSE /\ chunks[Len(chunks)].to = Len(padded)
                      /\ lastIndex = Len(Text)

\* For every text, every size of at least 1 and every overlap: chunks of
\* sentences lose nothing, and slices what their step passes over.
NothingIsCutOut == IF input.sentences THEN KeepsSentences ELSE CoversText

=============================================================================
