----------------------------- MODULE MCPlatform -----------------------------
(***************************************************************************)
(* The parts of the platform around chat, sessions, caps and pipeline, one *)
(* after the other: `part` chooses the part that the behaviour is about,   *)
(* and the others stay where they begin.  The parts share no state, so     *)
(* that nothing is lost by not interleaving them.                          *)
(***************************************************************************)
EXTENDS BrowserAuth, FiniteSets, TLC

CONSTANTS
  Parts,                                         \* the parts a run is about
  MaxStarts, MaxReconnects, MaxDrops,            \* Transcription
  MaxRuns, MaxChunks,                            \* ChatPage
  MaxTurns, MaxTicks,                            \* ChatHistory
  Files, NoFile, MaxPolls,                       \* UploadPage
  Deliveries, MaxSends, MaxCrashes, Attempts,    \* Webhooks
  Quota, MaxWindows, MaxOutages,                 \* RateLimits, with Requests
  MaxRetries, Size,                              \* ProviderStream
  Admins, Providers, MaxConfigs,                 \* ProviderConfig
  MaxLength,                                     \* Chunking
  Fields, RowIds, Limit                          \* CursorPages

AllParts == {"browser", "voice", "page", "history", "uploads", "webhooks", "limits", "provider",
             "configs", "chunks", "cursor"}

ASSUME PlatformAssumption ==
  /\ Parts \subseteq AllParts
  /\ MaxStarts \in Nat /\ MaxReconnects \in Nat /\ MaxDrops \in Nat
  /\ MaxSends \in Nat /\ MaxCrashes \in Nat /\ Attempts \in Nat \ {0}
  /\ Quota \in Nat /\ MaxWindows \in Nat /\ MaxOutages \in Nat
  /\ MaxRuns \in Nat /\ MaxChunks \in Nat /\ MaxTurns \in Nat /\ MaxTicks \in Nat
  /\ MaxPolls \in Nat /\ MaxRetries \in Nat /\ Size \in Nat /\ MaxConfigs \in Nat
  /\ Fields \subseteq Int /\ RowIds \subseteq Int /\ Limit \in Nat \ {0}
  /\ IsFiniteSet(Fields) /\ IsFiniteSet(RowIds)

VARIABLES
  part,
  start, starts, recording, connecting, mics, micRef, abortRef, sessionRef, late, ids, silence,
  deletes, session, drops,
  page, view, messages, pending, frame, drains, socketRef, controllerRef, streaming, run,
  chat, turn, rows, clock,
  open, uploadMode, queueRef, chosen, loop, temp, shown, dirty, timers, polls, listing,
  job, had,
  secret, process, posts, jobs, acked, ran, crashes, ended,
  skipFailed, counter, admitted, limited, extra, outages,
  kind, consumer, pc, retries, sent, buffer, lines, finish, yielded, skipped,
  configs, lists, op,
  input, chunks, startChar, currentChunk, begin, lastIndex, padded, returned,
  keyset, desc, table, walk, stable

\* The variables of each part.
voice == <<start, starts, recording, connecting, mics, micRef, abortRef, sessionRef, late, ids,
           silence, deletes, session, drops>>
chatPage == <<page, view, messages, pending, frame, drains, socketRef, controllerRef, streaming,
              run>>
histories == <<chat, turn, rows, clock>>
uploads == <<open, uploadMode, queueRef, chosen, loop, temp, shown, dirty, timers, polls, listing,
             job, had>>
webhooks == <<secret, process, posts, jobs, acked, ran, crashes, ended>>
limits == <<skipFailed, counter, admitted, limited, extra, outages>>
provider == <<kind, consumer, pc, retries, sent, buffer, lines, finish, yielded, skipped>>
adminPages == <<configs, lists, op>>
texts == <<input, chunks, startChar, currentChunk, begin, lastIndex, padded, returned>>
pages == <<keyset, desc, table, walk, stable>>

Voice == INSTANCE Transcription
Page == INSTANCE ChatPage
History == INSTANCE ChatHistory
Uploads == INSTANCE UploadPage
Hooks == INSTANCE Webhooks
Limits == INSTANCE RateLimits WITH request <- limited
Provider == INSTANCE ProviderStream
Configs == INSTANCE ProviderConfig WITH shown <- lists
Chunks == INSTANCE Chunking
Cursor == INSTANCE CursorPages

\* What a part may choose is fixed where the behaviour is about another one.
JointInit ==
  /\ part \in Parts
  /\ Chunks!Init /\ (part # "chunks" =>
                       /\ input.text = <<>> /\ input.options.size = 1 /\ ~input.sentences
                       /\ input.options.overlap = 0 /\ ~input.options.nan)
  /\ Cursor!Init /\ (part # "cursor" => ~keyset /\ ~desc /\ table = {})
  /\ Limits!Init /\ (part # "limits" => ~skipFailed /\ \A r \in Requests :
                       limited[r].caller.user /\ limited[r].caller.tenant)
  /\ Provider!Init /\ (part # "provider" => kind = "call" /\ consumer = "ws")
  /\ Hooks!Init /\ (part # "webhooks" => secret)
  /\ Page!Init /\ (part # "page" => page = "chat")
  /\ Init /\ Voice!Init /\ History!Init /\ Uploads!Init /\ Configs!Init

Others(p) ==
  /\ p # "browser" => UNCHANGED vars
  /\ p # "voice" => UNCHANGED voice
  /\ p # "page" => UNCHANGED chatPage
  /\ p # "history" => UNCHANGED histories
  /\ p # "uploads" => UNCHANGED uploads
  /\ p # "webhooks" => UNCHANGED webhooks
  /\ p # "limits" => UNCHANGED limits
  /\ p # "provider" => UNCHANGED provider
  /\ p # "configs" => UNCHANGED adminPages
  /\ p # "cursor" => UNCHANGED pages
  /\ p # "chunks" => UNCHANGED texts
  /\ UNCHANGED part

JointNext ==
  \/ part = "browser" /\ Next /\ Others(part)
  \/ part = "voice" /\ Voice!Next /\ Others(part)
  \/ part = "page" /\ Page!Next /\ Others(part)
  \/ part = "history" /\ History!Next /\ Others(part)
  \/ part = "uploads" /\ Uploads!Next /\ Others(part)
  \/ part = "webhooks" /\ Hooks!Next /\ Others(part)
  \/ part = "limits" /\ Limits!Next /\ Others(part)
  \/ part = "provider" /\ Provider!Next /\ Others(part)
  \/ part = "configs" /\ Configs!Next /\ Others(part)
  \/ part = "chunks" /\ Chunks!Next /\ Others(part)
  \/ part = "cursor" /\ Cursor!Next /\ Others(part)

JointSpec == JointInit /\ [][JointNext]_<<part, vars, voice, chatPage, histories, uploads,
                                            webhooks, limits, provider, adminPages, texts, pages>>

\* In the configurations two model values stand for the tabs, the files and the
\* administrators: to swap them in all parts at once is to rename them in one.
Symmetry == Permutations(Tabs \cup Files \cup Admins) \cup Permutations(Requests)

\* Bounds that lose nothing: an upload page that is gone never comes back, and
\* nothing is said of it; without a secret the kinds of a POST are not told apart.
Bounds ==
  /\ part = "uploads" => open
  /\ part = "webhooks" => secret \/ \A n \in DOMAIN posts : posts[n].kind = "good"

\* Nor does this one: when every file is chosen the mode of the page is not read.
StepBounds == part = "uploads" /\ chosen = Files => uploadMode' = uploadMode

-----------------------------------------------------------------------------
\* Every variable has its type, whatever part the behaviour is about.
TypesOK == CASE part = "browser" -> TypeOK
             [] part = "voice" -> Voice!TypeOK
             [] part = "page" -> Page!TypeOK
             [] part = "history" -> History!TypeOK
             [] part = "uploads" -> Uploads!TypeOK
             [] part = "webhooks" -> Hooks!TypeOK
             [] part = "limits" -> Limits!TypeOK
             [] part = "provider" -> Provider!TypeOK
             [] part = "configs" -> Configs!TypeOK
             [] part = "chunks" -> Chunks!TypeOK
             [] part = "cursor" -> Cursor!TypeOK

\* Whatever goes on of a voice input that no ref of the page holds, or whose
\* start is over, has one of the causes that module Transcription names.
LeftoversHaveReason == Voice!LeftoversHaveReason

\* An answer of the chat page is complete only when all of it is shown (module
\* ChatPage), and the history shows each answer that was saved, but for the
\* requests that overlap or are sent again (module ChatHistory).
ChatsAreWhole == Page!AnswersAreWhole /\ History!HistoryKeepsAnswers

\* The upload page polls each job that it does not show as ended, and shows only
\* endings that were real or that a failed poll told of (module UploadPage).
UploadsAreFollowed == Uploads!UploadsAreFollowed

\* An acknowledged webhook has a job, which no shutdown cuts off whose worker
\* closes (module Webhooks).
WebhooksAreKept == Hooks!WebhooksAreKept

\* A window of a limiter lets on no more than its max (module RateLimits).
WindowsKeepQuota == Limits!WindowsKeepQuota

\* An attempt of chatStream yields its content in order and leaves out only the
\* lines that do not parse (module ProviderStream).
NoGapInAttempt == Provider!NoGapInAttempt

\* A tenant has one active configuration of a provider (module
\* ProviderConfig).
OneActivePerProvider == Configs!OneActivePerProvider

\* Cutting a text into chunks loses nothing but what the step of a negative or
\* NaN overlap passes over (module Chunking).
NothingIsCutOut == Chunks!NothingIsCutOut

\* A walk along the pages shows each row that stays once (module CursorPages).
WalkSeesEveryRow == Cursor!WalkSeesEveryRow

=============================================================================
