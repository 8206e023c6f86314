# AI-Integration: specifications, checks and proofs

AI-Integration is an Express backend (`packages/backend`) and a Next.js frontend
(`packages/frontend`) that put chat, transcription and file processing by AI
providers behind accounts, tenants and token caps. State lives in Postgres, in
Redis, in BullMQ queues (Redis again) and, for some services, in maps of the
process. This directory holds TLA+ modules of the parts where that state is shared
by concurrent requests, the TLC runs that check them and the TLAPS proofs about
them. `PROJECT.json` maps every definition to its lines of source, and lists the
hazards of the code and the properties that watch them.

Paths below are relative to `packages/backend/src` unless they say otherwise.

## 1. Inventory

One Node process runs the service, possibly in several instances. A handler runs
alone between two `await`s; at each `await` (a Redis command, a query, a provider
call, backpressure) every other handler may run. That is the interleaving all
modules use: **one action per awaited call**. A Redis `MULTI` is one step, a `GET`
followed by a `MULTI` two.

| Component | State | Operations | Interacts with | What is hard |
|---|---|---|---|---|
| Accounts and sessions: `auth/*`, `redis/client.ts` | `auth.users`, role rows, `refresh_token:<id>`, `user_tokens:<user>` | register, login, refresh, cookie refresh in `authenticate`, logout, logout-all, list and delete tokens | every authenticated route; Redis; Postgres; `index.ts` exits on an unhandled rejection | rotation, revocation and listing are several calls each; registrations race; lost answers; crashes |
| Browser sessions: frontend `lib/api-client.ts`, `app/api/*` proxies, `AuthBootstrap`, `app/login` | the cookies, one `refreshPromise` per tab | apiFetch, refresh, retry, redirect to the login page | accounts and sessions, through proxies that drop cookies | several tabs with one cookie jar |
| SSE chat: `chat/index.ts`, `redis/stream-store.ts`, frontend `lib/useChatStream.ts` | `chat_stream:<id>` with a TTL, the response, the reader's refs, `app.chat_history` | start, chunk, finish, fail, resume, retry, abort | providers, usage caps, sessions | GET-then-SETEX appends, reconnects against a stream in progress, dropped connections, backpressure, every call may fail |
| WebSocket chat: `chat/websocket.ts` | two flags per socket | start, abort, close | providers, usage caps, history | message handlers that share flags across awaits; errors outside `try` |
| Chat pages: frontend `app/chat`, `app/chat/upload`, `useChatStream` | messages, character queue, refs of page and hook | ask, retry, abort, new chat, open history, a frame | both chats | callbacks of an older request, frames that are behind the stream |
| Chat history: `chat/index.ts:140-270`, both transports | `app.chat_history` | insert a turn, group rows into sessions | both chats, the pages | overlapping turns; order of rows by milliseconds |
| Voice input: `chat/index.ts:269-600`, `providers/implementations/deepgram.ts`, the pages | a map of sessions, the socket to Deepgram, microphone tracks | start, stop, silence, reconnect, close | Deepgram, the browser | a stop while a start still asks; a close during a reconnect |
| Token caps: `usage-caps/*` | caps row, usage events, daily and monthly rollups | checkAllowance, recordUsage, PUT caps | both chats | three separate reads, check-then-record, overlapping transactions, midnight |
| File pipeline: `pipeline/queue.ts`, `pipeline.ts`, `routes.ts` | BullMQ queue and dead letter queue, a map of jobs, listeners | add, process, fail, dead-letter, retry, clean, subscribe | Redis | the map and the queue are two stores; retries; restarts |
| Upload page: frontend `app/upload/page.tsx` | queue of files, list of jobs, timers | choose, upload in one of two modes, poll, leave | file pipeline | answers out of order; a loop that keeps the mode it began with |
| Chunking: `pipeline/chunking.ts` | none | cut a text with overlap, or by sentences | pipeline | boundaries of the overlap |
| Upload and extraction: `pipeline/{upload,extraction}.ts` | files | read pdf, docx, images | pipeline | I/O |
| Webhooks: `webhook/*` | BullMQ queue | verify, enqueue, process with retries | Redis, the process | repeated deliveries, shutdown in the middle of a job |
| Redis rate limits: `rate-limit/*` | a counter with a TTL per key | increment, second increment of a failed request | Redis, every route | window edges, fail-open, `skipFailedRequests` |
| In-memory limiter, CSRF, headers: `security/index.ts` | a map of timestamps | | no route uses it | |
| Tenant context and client: `database/{tenant-context,client}.ts` | pooled connections, the transaction-local tenant setting, rows under row-level security | withTenant, transactions, middleware, CRUD | Postgres | connections kept, nested connects, settings that outlive or do not reach a query |
| Pools and caches: `database/{pool-optimizer,cache,optimizer}.ts` | waiting queue, LRU map, tag sets | get, release; set, get, invalidate | Postgres, Redis | queues at their limit, stale entries |
| Providers: `providers/implementations/*` | retry counters, the buffer of a body | chatStream, fetch with retries | the chats | a retry in the middle of a stream, lines cut by reads |
| Provider configuration: `providers/{routes,config-service,postgres-repository}.ts`, the settings page | `tenant.ai_configs`, the page's list | create, update, deactivate, list | Postgres | check-then-insert by two administrators |
| Cursor pagination: `pagination/cursor.ts` | none; a client's position | next and previous pages by cursor or keyset | tables that change | ties, rows that come and go |
| Lifecycle: `index.ts` | server, sockets, pool, workers | start, shutdown, exit | all | order of closing, requests in flight |
| Audit, errors, logging, tracing, dashboard | rows and log lines | append, format | all | none that changes another component |
| Migrations, seeds, metrics, load tests, scripts | | | | tools, not the service |

What makes each of the modelled components correct:

* **Sessions** - a rotated token dies before its successor lives; a revoked token stays
  revoked; a logout that answers took effect, unless Redis rejected it; nobody revokes
  somebody else's token; what is honoured can be listed and revoked; an e-mail has one
  owner.
* **Browser sessions** - the cookie a browser holds is honoured, unless it ended or a
  proxy dropped its successor.
* **SSE chat** - the store never holds an answer with a hole; the reader never
  appends one chunk after another that does not follow it; `done` means the whole
  answer; readers and handlers come to an end.
* **WebSocket chat** - the shared flags never wedge the socket; every stream that
  was started is billed; only finished answers are saved; an abort stops chunks.
* **Token caps** - rollups are the sum of the events; a request is charged once;
  an admitted request fits in the cap with all that was recorded before; a refused
  one would not have fitted.
* **File pipeline** - a job that was queued is in the queue, processed or a dead
  letter, and gone from all of them only where the process logs it; a failure is kept
  whatever crashes or stalls; what is shown of a job follows the worker; every copy
  leaves the queue.
* **Chat pages and history** - an answer is marked complete when all of it is shown;
  the history shows every answer that was saved.
* **Voice input** - what a stop or a close leaves running has a known cause.
* **Upload page** - an unfinished job is polled, what is shown as finished had finished
  so or could not be asked for, and no row waits for an upload that will not come.
* **Webhooks** - what was acknowledged has a job and is run as often as it was sent;
  a shutdown leaves no job half done, unless the worker's close() rejected.
* **Rate limits** - a window lets on its maximum, outages apart.
* **Providers** - within one attempt no content is repeated or out of order, and none is
  lost but in a line that does not parse.
* **Provider configuration** - one active row per provider.
* **Chunking, cursors** - nothing of a text is lost unless the overlap is below 0 or NaN;
  a walk along the pages shows each lasting row once.
* **Tenant context and pools** - no call runs in another's context; a connection is
  lost only for a known reason; everybody who waits is served or refused.
* **Caches** - what is old in Redis is old for a reason, and not for ever; the LRU
  list fits its map.

## 2. Modules

| Module | Models | Checked through |
|---|---|---|
| `Sessions` | accounts and refresh tokens | `MCSessions` |
| `ChatStream` | SSE chat, stream store, SSE reader | `MCChatStream` |
| `ChatSocket` | one WebSocket | `MCChatRequests` |
| `UsageCaps` | allowance and recording; refines `TokenLedger`: one step adds an event and both rollups | `MCChatRequests` |
| `PipelineQueue` | the file pipeline's queue, worker, dead letters and jobs maps; refines `JobLedger`: where a job is, and where it may go | `MCPipelineQueue` |
| `TenantPool` | the pg pool, `TenantDatabase`, `DatabaseClient`, the tenant middleware, row-level security | `MCDatabase` |
| `QueryCache` with `LruCache` | `QueryOptimizer` over `CacheManager`: L1 of the process, L2 in Redis | `MCDatabase` |
| `QueuedPool` | `QueuedConnectionPool` | `MCDatabase` |
| `BrowserAuth` | tabs, their cookies, apiFetch, the proxies | `MCPlatform` |
| `ChatPage` | the two chat pages over `useChatStream` | `MCPlatform` |
| `ChatHistory` | the rows of turns and the sessions shown of them | `MCPlatform` |
| `Transcription` | voice input from the microphone to Deepgram | `MCPlatform` |
| `UploadPage` | the upload page with its polls | `MCPlatform` |
| `Webhooks` | webhook route, queue, worker; start, shutdown and crash of the process | `MCPlatform` |
| `RateLimits` | the three Redis limiters | `MCPlatform` |
| `ProviderStream` | `chatStream` and `fetchWithRetry` of the providers | `MCPlatform` |
| `ProviderConfig` | configuration rows, routes and settings page | `MCPlatform` |
| `Chunking` | `TextChunkingService` | `MCPlatform` |
| `CursorPages` | the SQL conditions of a page and a client that walks | `MCPlatform` |
| `SessionsProofs`, `UsageCapsProofs`, `PipelineProofs`, `ChatStreamProofs`, `ChatSocketProofs` | theorems about the module of that name, `PipelineProofs` about `PipelineQueue` | TLAPS |
| `DatabaseProofs` | theorems about `TenantPool`, `QueryCache` with `LruCache`, and `QueuedPool`, inside `MCDatabase` | TLAPS |
| `PlatformProofs` | theorems about `RateLimits`, `ProviderConfig`, `ProviderStream`, `Transcription`, `Webhooks`, `CursorPages` and `Chunking`, inside `MCPlatform`, and about the types of all its parts | TLAPS |
| `BrowserProofs` | theorems about the browser's parts of `MCPlatform`: `BrowserAuth`, `UploadPage`, `ChatHistory` and `ChatPage` | TLAPS |

### Sessions

`req` holds the handlers in flight, each with its operation, a program counter and
its local variables. Rotation is `verify` (GET), mint, `rotateGet`/`rotateDel` (the
two halves of `revokeRefreshToken`), `store` (MULTI), and then the handler itself:
`/auth/refresh` answers, `authenticate` calls `next()`. A JWT is its token id;
`owner` is the claim it carries, `store` the Redis key, `index` the set
`user_tokens`. `delivered` are the tokens that reached a client: a minted token
whose answer was lost is never presented. `parent` is history. Passwords, roles,
e-mail formats and audit rows are left out; they decide nothing here. One login or
registration attempt of an unknown or wrong password changes no state and is not a
step. A call that rejects ends register, login and refresh with an error and no tokens;
behind `authenticate` it is a 500 with the cookies of the rotation; and logout, whose
inner catch is meant for a bad token, answers its 200 (`AnswersFailure`). `failed`
remembers it. Access tokens are not state: a request comes with a valid one
(`StartWithAccess`) or with a refresh cookie (`StartWithCookie`).

### ChatStream

`client` is `startViaSSE` with its refs (`lastId`, `sid`), its attempts and the
text the page appends; `conn` the connection of its current request with the events
on the wire; `handler[s]` the `startNewStream` call that created stream `s` and goes
on when its client has left; `store` is Redis. An answer is the sequence of chunks
`<<s, 0>>, <<s, 1>>, ...`; what a chunk says is not modelled, its position is.
`Fault` bounds refused requests, dropped connections, rejected calls, provider
failures and expiries together by `MaxFaults`. A dropped connection loses any
suffix of what was sent. The loop over the provider goes on after a finishReason,
as the code does: the provider's generator then returns, or, when reading its body
fails, starts over and yields more (a fault).

### ChatSocket

One socket with its `isStreaming` and `isAborted`, and one handler per start
message. Between the test of `isStreaming` and its assignment lies the await of
`checkAllowance`; the model keeps the two apart. `up` is the process: a rejection
outside the `try` is unhandled and ends it.

### UsageCaps and TokenLedger

A request reads caps, daily and monthly rollup in any order, decides, streams, and
runs `recordUsage`: an upsert takes the lock of its row and computes the new total
from the committed one (what READ COMMITTED does once the row is free), COMMIT
publishes all three writes, ROLLBACK and a lost connection release the rows. COMMIT
may succeed and be answered by an error. `TokenLedger` has one action, `Record`;
`RecordsAtomically` is `Ledger!Spec` over the committed tables, with the identity as
mapping.

### PipelineQueue and JobLedger

`queue` is every copy of a job that was ever added to BullMQ's queue, with its place
and the times a worker took it; `deadLetters` every dead letter, for the copy that
failed. Both are in Redis. `jobs[p]` is the map of process `p`, made in the process
that took the upload, while any process may run the job: `updateJobStatus` does
nothing where there is no entry. `run[s]` is a processor, one of `Concurrency` of a
worker: `extract` (the one await that takes time), then, without waiting for I/O, the
statuses up to `completed`, or `failed` and `bury` (the await of the dead letter
queue's add), and `report`, the result on its way to BullMQ. BullMQ is external and is
modelled by what the code relies on: a worker fetches a waiting job and locks it; a
processor that returns completes it; a job whose lock ran out is put back, or given up
after `MaxStalled` times, while its first processor may still be running. A dead
letter is retried by an add and a removal (`retry`). Every call to Redis may fail
before or after it took effect. `Crash` restarts a process: its map, its processors
and its retry are gone. `shutdown` closes the webhook worker but not the pipeline's,
so that a regular end is the same.

`JobLedger` sees of all this one place per job: `new`, `queued`, `done`, `dead` or
`lost`. A job is `done` when one of its copies was processed, else `queued` when one is
in the queue, else `dead` when one has a dead letter. `lost` is allowed only for
`troubled` jobs: those that stalled too often, which the code never moves to the dead
letters, and those whose move there was rejected, which it logs.

### Database: TenantPool, QueryCache, QueuedPool

In `TenantPool` a call is a program: the sequence of its steps (`connect`, `begin`,
`set`, `query`, `commit`, `release`, ...), which `Programs` has for each kind, so that
the shape of each method - which connections it takes, what its `finally` releases -
can be laid beside the code. A step that fails runs what is left of the `finally`
blocks. `conn` holds, for each connection, its holder, whether a transaction is open and the
tenant that is set in it; COMMIT and ROLLBACK end the setting, as `set_config(..., TRUE)`
does. `obeysRls` is whether the pool's role is subject to the policies, `hasTimeout`
whether the pool has a `connectionTimeoutMillis`: `createPoolConfig` sets one,
`createDatabaseClient` does not. The loss of a connection in a health check needs a pool
timeout above its own 5000 ms; the default of both is 5000, so that it takes a
configuration to see it.

`QueryCache` keeps a value as the version of its row and every Redis command as a step;
`missed` records why an invalidation could not know of an entry. `LruCache` is the
operations of the L1 on a pair of list and map. `QueuedPool` is the queue alone:
`idleCount` is 0, as nobody opens a connection, hence requests end by their timers.

### The browser: BrowserAuth, ChatPage, ChatHistory, UploadPage, Transcription

`BrowserAuth` lets tabs share a `jar`. A refresh that reaches the backend through a
proxy that drops Set-Cookie rotates the token and leaves the jar with the old one:
`gone` says why a token is not honoured. `ChatPage` numbers the calls of `start`;
`run[r]` is its two halves, WebSocket and SSE, and `messages`, `pending` and `drains`
are shared by all runs, which is where callbacks of an older run meet a newer draft.
`ChatHistory` has the page's session id, the turns and the rows they insert. Of a turn,
`over` records the requests that the server had not ended when it was sent, `coming` those
of which its question had no answer yet, and `repeats` the turn that asked the question
first; what is sent again keeps `coming`.
`UploadPage` has the rows of a file as the statuses under its temporary and under its job
id; `dirty` is an effect that React has yet to run. The worker (`Work`) may take up a job
that ended and end it otherwise, as `PipelineQueue` has it after a stall or a retried dead
letter; `had` are the ends a job had so far, and the failed polls. A page that stopped
polling shows the end it was told. `Transcription` follows a start from `getUserMedia` over
the proxy to the provider's socket, with a ref of the page for each thing that must be
stopped; `ids` is what became of the id of a session that the page read. The causes of what
is left running are all named in `LeftoversHaveReason`: a microphone that was granted after a
stop, or to a start before it that no ref holds any more; the microphone of a start without a
recorder (`mute`), which no ref ever held; a session whose `ready` was not read before the
stop, so that no DELETE is sent; one whose id was overwritten, wiped by the answer of an
earlier DELETE, or whose DELETE failed; a socket whose reconnect was timed before the close.

### The service: Webhooks, RateLimits, ProviderStream, ProviderConfig

`Webhooks` joins route, queue and worker with the life of the process: a POST is answered
after the add, and its connection may break before; `shutdown` closes the HTTP server,
then, sockets destroyed if need be, the worker, then exits; if the worker's `close()`
rejects it is logged, and the exit follows with whatever runs (`CloseWorkerFails`, which
`ended` remembers). `RateLimits` is the chain of
limiters a request passes; a second increment (`extra`) is sent without waiting and may
meet the next window. `ProviderStream` cuts each line in two halves and a body into any
reads of them; a line that does not parse is skipped and the attempt goes on (`SkipLine`,
`skipped`), and OpenAI's finish reason may come with the last content, which is yielded
before it. `ProviderConfig` keeps the check and the write of a request apart.

### Algorithms: Chunking, CursorPages

`Chunking` is the two loops of `TextChunkingService`, a turn at a time, over every text up
to a length, for every size from 1 and every overlap that the constructor takes. It only
refuses an overlap that is not below the size, and the routes pass on what `parseInt`
makes of the query (`pipeline/routes.ts:71, 144`): a negative overlap makes the step
longer than the slice, a NaN ends `chunkText` after one slice and makes each chunk of
sentences begin with the whole of the one before (`PassedOver`, `OverlapStart`). Sizes
below 1 are left out: a slice would end before it begins; the synchronous route takes its
default for 0 and for a size that is no number (`pipeline/pipeline.ts:66`).
`splitIntoSentences` keeps no state, so that a sentence is split off in the turn of the
loop that takes it; `padded` is history, the sentences one after the other, in which the
code counts a blank after each; `from` and `to` of a chunk are its place in them.
`CursorPages` is a page's condition and order on a table, taken by a client between
changes to the table; `InOrder` puts a row at the place that as many rows precede.

### How they compose

`UsageCaps` models the calls that `ChatStream` (`AcceptNew`, `RecordUsage`) and
`ChatSocket` (`Allow`, `Refuse`, `RecordUsage`) make at one step each; `Sessions` models
the `authenticate` that precedes them ("other" among its operations), `BrowserAuth` what
a browser makes of its rotations. `ChatPage` sees of `ChatStream` and `ChatSocket` only
chunks and ends; `ProviderStream` is the provider behind both. They share no other state,
so they are checked apart.

`MCChatRequests`, `MCDatabase` and `MCPlatform` put several modules in one run: the variable `part`, chosen
at the start, says which of them the behaviour is about, and the others stand still. As
the parts share no variable, no interleaving is lost by that, and an invariant of one
part holds in the others because it holds at its start. `TypesOK` is the conjunction, or the case
distinction, of the modules' own type invariants. The parts of `MCPlatform` are divided
among two runs: `Parts` are those that a run starts.

## 3. Runs

| Run | Bounds | Shows |
|---|---|---|
| `sessions` | 2 users, 2 tokens, 2 requests | type, rotation, logout, finality, index loss |
| `sessions_single_use` | 1 user, 3 tokens, 2 requests | *violated:* two successors of one token |
| `chat_stream` | 2 streams, 2 chunks, 1 reconnect, 2 faults | type, store, text, done |
| `chat_stream_settles` | 2 streams, 2 chunks, 3 reconnects, 1 fault | termination of reader and handlers |
| `chat_stream_resumes` | same | *violated:* a reconnect after a chunk gets a new stream |
| `chat_requests` | caps: 2 requests, 1 tenant, 3 days in 2 months, 1 cap change, cap 2, estimate 2, usage 0 or 2; socket: 3 starts, 1 chunk | charges, decisions of the cap, refinement of the ledger, ends are recorded, the flags never wedge the socket, termination |
| `pipeline` | 1 job, 1 process with 2 processors, 2 copies, 1 stall, 1 restart | failures kept, entries, refinement, termination |
| `pipeline_attempts` | 2 processes with 1 processor each, 1 job | *violated:* a dead letter after one attempt |
| `database` | pool: 2 calls, 1 connection, 2 tenants, 1 failing query; cache: 2 queries, 2 keys, LRU of size 1, 2 writes, 1 lost command; queue: 3 requests, 3 priorities | contexts, losses, staleness, order, termination |
| `tenant_queries_scoped` | 1 call, 1 connection, 1 tenant | *violated:* a query of withTenant without its tenant |
| `platform` | 2 tabs and requests, 3 tokens, 1 fault; 2 starts of voice input, 1 reconnect, 2 drops; 1 delivery sent twice, 1 crash, 2 attempts; 2 requests to limits of 1, 2 windows, 1 outage; 2 retries of 2 content lines; 2 administrators, 2 providers, 3 rows; texts of 5 characters, overlaps from -5 and NaN; pages of 1 over 3 x 2 rows | the parts' invariants, one each |
| `pages` | 2 questions of 1 chunk; 3 turns in 3 milliseconds; 2 uploaded files, 2 polls | answers are whole on the page and kept in the history; rows, polls and jobs |

Why the bounds suffice. Every hazard of Sessions is a race of two handlers over one
or two tokens; a user beside the first is needed for ownership only, a third token
for two successors of one parent. In ChatStream two chunks distinguish an answer
from its beginning and from a hole, a second stream is what a failed reconnect
creates, and two faults combine every failure with every other. In UsageCaps two
requests race for a row, a cap that one estimate fills distinguishes "just fits"
from "exceeds", and days 0, 1 in month 0 and day 2 in month 1 give both rollovers;
rows of different tenants never meet, and the proofs hold for any set of tenants.
In ChatSocket the third start meets the flags that the first two left. In PipelineQueue
jobs do not meet but in the slots of a worker; two processors and two copies give the
races there are: a stalled processor beside its successor, a retry beside a late
processor, two retries of one letter. With two processes the entry of a job and its
processors may be apart, which only makes `Show` do nothing more often; the proofs
cover any number of processes, jobs and copies.

In `database`, two calls are a holder and one that waits, and one connection lets them
meet it one after the other; everything that goes wrong there is one connection or one
nested connect. All of the cache at once is too much for TLC, so that it is checked twice:
one query and one write over keys that evict each other (`part = "evicting"`, `OneReader`,
`OneWrite`), and several queries over the key that the tag covers, with two writes or with
one and a failing Redis (`"shared"`, `OneKey`); eviction touches L1 only, what races is
L2. The second write is the one that meets what the first left without a tag. Three
requests of three priorities give every place in the queue. In the runs of `MCPlatform`,
the second tab, question, start, file, request or administrator is the one the first is
raced by. A third turn of a chat is needed for an older turn that hides a newer one behind
a third, and three milliseconds for rows in, out of and beside their order. A text of five
characters has a word, a blank, a sentence's end and a rest, with every size and overlap
up to its length. Six rows in pages of one include ties on either side of a page's end.
`ChatPage` alone has also been checked with two chunks an answer. Three constraints spare
states that tell nothing apart: an upload page is not followed once it is gone (`Bounds`),
nor its mode once every file is chosen (`StepBounds`), and where no webhook secret is
configured an unsigned POST is not sent as well, as nothing looks at its signature (`Bounds`).

Symmetry is used in the runs of Sessions and of `MCPlatform`, which check no liveness: in
the latter the same model values are the tabs, the files and the administrators,
so that one permutation renames a part's own and nothing of the others. Deadlock is not
checked: tokens, starts, requests and streams are finite and each system stops
when they are used up.

Every property of a passing run has a mutant, a plausible bug of the code written
as an operator next to the definition it replaces, that the run then refutes.

### Fairness

* ChatStream: weak fairness of each handler's next step and of the reader. The event
  loop runs every continuation that is ready; queries and Redis commands are
  answered or rejected; a provider's call has a timeout and `fetch` gives up on a
  silent body. Nothing is assumed of faults, `close` events or the user's abort.
* UsageCaps: weak fairness of each step of `recordUsage`. Postgres answers unless the
  row is held, and a transaction that fails is rolled back.
* ChatSocket: weak fairness of each handler.
* PipelineQueue: weak fairness of the processors of each process together - files are
  finite and Redis answers or rejects - and of some step of BullMQ on some copy: a
  worker that fetches a waiting job, or the stalled check that finds an active job
  without a lock. Nothing is assumed of stalls of jobs that have their lock, retries,
  restarts and uploads. `CopiesSettle` holds because a copy is taken at most
  `MaxStalled + 1` times.
* TenantPool: weak fairness of each call's next step, of its timer and of the pool's
  grants. Postgres answers or rejects, and pg serves its queue when a connection is free.
  That a client ends its request is not assumed: the calls of `createTenantMiddleware`
  are over when `next()` was called, and `LossesHaveReason` says what they keep.
* QueryCache: weak fairness of readers and the writer, and of the expiry of each entry,
  which is a timer. QueuedPool: of each request's timer only.

`StreamsSettle` is the conjunction of `ReaderSettles` and `HandlersEndOrHang`.
`ReaderSettles` has one exception that the code has too: if `storeStreamState`
rejects, the response is never ended (`chat/index.ts:796` is outside the `try` and
after `writeHead`). `HandlersEndOrHang` has another: a `sendSSE` to a connection that
is gone may wait for 'drain' forever, and then neither history nor usage of the
stream is recorded. `MaxFaults` matters for `ReaderSettles`: `reconnectAttempts` is
reset by every response that is ok, so an endless series of broken responses is
retried endlessly.

## 4. Findings

Shown by a run:

1. *Refresh tokens are not single-use.* Two concurrent refreshes both pass
   `verifyRefreshToken`; each gets a successor (`auth/README.md:692`).
2. *Last-Event-ID does not resume.* The id of a chunk is not the id of a stream, and
   it is preferred over the `streamId` in the body; the reader gets, and pays for, a
   second answer (`chat/index.ts:8`, `docs/Setup-Production.md`, 5.3).
3. *A failed job is not tried again.* The processor returns a result for a failed job,
   so that BullMQ never uses `attempts: 3` (`docs/Setup-Production.md:430-436, 477-479`).
4. *withTenant does not scope its queries.* `set_tenant_context` sets the tenant until
   the end of the transaction, and there is none: the setting is gone before the callback's
   first query (`database/tenant-context.ts:119`, `migrations/001_initial_schema.ts:491-496`).

Part of the models, as the exceptions that their invariants name:

* Logout may leave the refresh token honoured and say it did not: the catch around
  `verifyToken` is around `revokeRefreshToken` as well, so that the answer is 200 'Logged
  out successfully' when Redis rejects (`auth/routes.ts:541`; `auth/README.md:682` says
  "Server deletes refresh token from Redis"; `AnsweredLogoutIsEffective`).
* logout-all can lose a token: one stored between SMEMBERS and MULTI stays honoured and
  is in no list (`OnlyRacedTokensLeaveIndex`).
* Two streams can run on one socket, as `isStreaming` is set after an await (ChatSocket).
* `authenticate` rotates a refresh token whose successor most proxies drop, so that the user is
  signed out at the next refresh (`auth/middleware.ts:73, 136`; `JarIsHonoured`).
* The DELETE of a tenant's second configuration of a provider is answered with a 500: the
  constraint of `migrations/002:46-49` becomes a plain UNIQUE that covers inactive rows too,
  although its comment (`:45`) speaks of the active ones (ProviderConfig).
* The read-only view of an old chat gets late characters of the running one
  (`app/chat/page.tsx:510`; ChatPage).
* Deepgram's `close()` does not cancel a timed reconnect (`deepgram.ts:534, 553`); a
  start of voice input that was stopped while it asked keeps its microphone, and one that
  was stopped before `ready` its session and socket (`LeftoversHaveReason`).
* A line of a provider's body that is not JSON, or an error object of OpenAI, is skipped, and
  the answer goes on with a gap (`openai.ts:564`, `anthropic.ts:630`; `NoGapInAttempt`).
* A negative overlap, or one that is no number, passes from the query to the chunks and loses
  text (`pipeline/routes.ts:71`, `chunking.ts:32`; `NothingIsCutOut`).
* A page that saw a job fail does not see it completed by a second run (`UploadsAreFollowed`),
  and a shutdown whose worker fails to close leaves a job active, to be found as stalled
  (`index.ts:412`; `WebhooksAreKept`).
* `skipFailedRequests` counts a failed request twice instead of not at all
  (`rate-limit/middleware.ts:151-160` against `rate-limit/types.ts:40`), and
  `rateLimitByIp` "always applies" (`:231`) but skips identified requests (`:235`).
* A repeated webhook delivery is run again: `deliveryId` is not used (`webhook/types.ts:26`).
* `users.update` without a field to set takes a second connection while holding one; without
  a `connectionTimeoutMillis` two of them wait for ever (`CallsEnd` excludes it).
* The connection of a health check that gave up is nobody's (`pool-optimizer.ts:107`).
* An entry that a query sets again between the DEL of an invalidation and the removal of
  the tag loses its tag: the next write does not find it, and it stays until it expires
  (`database/cache.ts:231, 261`; `StaleHasReason`, where `missed` excuses it).
* A row that an overlapping or repeated request inserts may hide a newer
  turn in the history (`HistoryKeepsAnswers`, `over` and `repeats`). So may a question that
  was asked while another answer was coming: the late end of an aborted SSE request
  (`useChatStream.ts:376-385`) frees the page although a newer request runs (`coming`).
  That takes five turns; the bounds of `pages` stop at three, and the proof covers it.
* A `before` cursor returns the first page instead of the one before, and rows that
  tie on the cursor's field are skipped (CursorPages); a timestamp loses its
  microseconds in a cursor. No route uses the module.

Read in the code only: the status listeners of the pipeline are registered under its own
job ids and notified under BullMQ's (`pipeline/queue.ts:247-261` and `317-325`);
`getDeadLetterJobs` asks for failed jobs while dead letters stay waiting (`332`); DELETE of
a pipeline job deletes nothing; `shutdown` does not close the pipeline's worker.

## 5. Proofs

TLAPS checks these for all values of the constants, under the named assumptions of
the modules (the null values are not users, tokens or numbers; caps and estimates
are positive; bounds are naturals).

`SessionsProofs`: `InvHolds`, and from it `TypeCorrect`, `RotationIsExclusive`,
`LogoutIsEffective`, `RegistrationIsUnique`, `RevocationIsFinal`, `RevocationIsByOwner`
and `IndexLossIsARace`. None of the invariants is inductive: that a rotated token is dead
when its successor is stored depends on what its handler did before. `Inv` therefore says,
for each program counter, what is known of the tokens a handler holds. `Provenance`: Redis
maps a token to its owner or to nobody, an index lists only its user's tokens, only signed
tokens are delivered, and a token is rotated only after it was delivered. `NewIsOwn`: a
minted token is signed for its handler's user and is no other handler's. `NewIsFresh`:
until it is stored it is not honoured, not delivered and in no index. `RotationState`: the
token being rotated was delivered to the handler's user, is the recorded parent of its
successor, and is dead once the handler is about to store. `RevocationState`: what a
revocation or a `logoutAll` snapshot names is a settled token of the handler's user, dead
when the handler responds and none of its calls rejected. `RegisterState`: a registration
walks insert, role, store, respond. There is one lemma per action and under it one step
per conjunct.

`UsageCapsProofs`: `InvHolds`, `TypeCorrect` and `ImplementsLedger`, the refinement.
The inductive invariant adds to the types that a transaction past an upsert holds the
row and that what it wrote is the committed total plus its tokens (`WrittenDaily`,
`WrittenMonthly`), and that a handler about to record has a token count (`ToRecord`). That is why
COMMIT is `Record` and every other step a stutter. `ChargesOnce` and `DecisionsFollow` are
about sums over a log. A sum is the number of its units (`Total`): a token is a pair of its
event and an ordinal, so that what a COMMIT adds is a disjoint union and no induction is
needed. `CapsInv` says that each rollup is the sum of its events (`Rollups`), that each of
the reads of a rollup lies between what was recorded before the check and what is
now (`ReadsRight`), that a decision was right against these (`Decided`), and that the
events are those of a set of requests with all that are done and none but those that are
done or failed (`Charges`).

`PipelineProofs`: `InvHolds`, and from it `TypeCorrect`, `FailuresKept`,
`BegunNotPending` and `CompletedStaysHolds`; and `LedgerImplemented`, the refinement.
`FailuresAreKept` is not inductive: that a failed copy has its dead letter when BullMQ
takes it for complete depends on what the processor did before (`ReportState`), and that
a removed letter's job is in the queue again on what the retry did (`RetryState`).
`RunState` says that two processors of a copy mean two takes of it and one lock at
most; `UploadState`, `EntryState` and `CompletedState` tie entries to the copies they
speak of. Copies only move out of the queue (`CopiesStay`), and a letter only goes when
its job was added again (`LettersStay`); so what is kept stays kept (`KeptStays`). For
the refinement, the last copy of a job that is nowhere (`LastCopy`) must have stalled
out or be unburied (`LostAreTroubled`), and every step changes one copy at most
(`OneCopy`), hence one job.

`ChatStreamProofs`: `StoredHolds`, and from it `TypeCorrect` and `NoHolesStored`;
`TracedHolds`, and from it `TextIsWhole` and `FullAnswer`. `Stored` says what Redis may
hold of a stream at each step of its handler: the first chunks that were taken from
the provider, all of them but between a read and its SETEX. `Traced` follows a chunk
from the handler over the wire into the page's text. `Flow`: the text, then the events
that were sent and not yet read (`Pipe`), then what the handler will send are one answer
without a gap (`Carries`, in which `Runs` is a stretch of chunks and `SentFits` where the
handler stands); what remains of it depends on whether the connection is the handler's
own, was dropped, or replays the store (`Link`). `Full`: whoever was told `done` has it
all. A step of `sendSSE` appends to the pipe, a read takes its head, a drop cuts its end:
each is a lemma about `Carries`.

`ChatSocketProofs`: `InvHolds`, `TypeCorrect`, `EndsRecorded`. `Progress` says of each
start what was sent to the client and what is in the two tables at its place in the
handler, whatever the other starts do to the shared flags.

`DatabaseProofs`: `PoolTyped` and `PoolIsClean`, `StaleExcused` and `StaleReasoned`.
`PoolInv` ties what is left of a call's program to the connections it holds (`Rests`,
`Stands`): between its first connect and its releases a call has only statements before
it, and as many releases as it holds connections. Hence a connection has one holder
(`Holdings`), a caller waits only at its connect (`Queueing`), and a transaction still has
its end before it (`Transactions`), so that the setting that is local to it is gone when
the next call comes. `CacheInv`: as long as no command failed, an entry that nothing
excuses has its tag, and if it is old, the writer has still to find or to delete it
(`Pending`). `StaleExcused` is about `QueryCache` alone, the others about the joint
specification. `OrdersHold`: what a filter leaves of the LRU list has each key that stays,
once and in its order (`Without`, by the ranks of the places that stay), so the list keeps
step with the map through every operation; a request is put into the waiting queue before
the first of a lower priority, and its turn is above those of all who asked before
(`QueuedInv`, in which `Leads` is the order), so that equal priorities stay in their turn.
`DatabaseTyped` joins the types of the three parts.

`PlatformProofs` and `BrowserProofs` have one invariant for each of the eleven parts of
`MCPlatform`; a step of the joint specification is a step of the part or leaves it alone.

* `QuotaHolds`: a count of the current window is given to one request only, so that those
  a limiter let on carry different counts, all from 1 to its maximum (`LimitCounts`); a
  hook's second increment skips counts, but gives none twice.
* `OneActive`: the table's constraint (`RowsDiffer`) decides, not the check before the
  insert; `Meant` says that lists and running requests name rows that exist.
* `AttemptsHaveNoGaps`: lines are read in their order (`ReadInOrder`) and yielded in it, and
  between the last content that was yielded and the lines worked off lie only lines that did
  not parse (`YieldedInOrder`, `Missed`), however the body is cut into reads.
* `LeftoversExplained`: a closed session has a reconnect that was timed before, or none to
  come and no socket that lives (`ClosedFits`); as long as no start up to it was granted its
  microphone after a stop, a start that asks or runs is the latest, and the refs hold it
  (`PageFits`); and an id that was read is in the ref, or its DELETE was sent, or it is lost
  (`IdFits`).
* `WebhooksKept`: a job follows its POST (`PostFits`, `JobFits`), what was acknowledged has
  one (`AckedHasJob`), a run beyond the first was paid for by a stall or another
  sending (`RunsFit`), and past a close() that did not reject no job is active.
* `BrowserInvHolds`, `BrowserTypes`, `JarHonoured`: the backend honours what it issued until
  there is a reason not to (`Ledger`), and cookies, requests and refreshes hold issued
  tokens only (`OnlyIssued`). A successor on its way to a tab (`Rotated`) is honoured, or
  ended, and nobody else holds it (`OnItsWay`); so the jar can only lag behind a successor
  that a proxy dropped, or that a tab is about to get.
* `UploadsFollowed`: what was answered of a job was so when it was read, and stays an end the
  job had, however late it comes (`Known`, `AnswersFit`, `Endings`); what a page shows is such
  an answer (`ShownFits`), a row that waits is of a file in hand or has the row of the other
  mode beside it (`RowsWait`), and once the effect has run an unfinished job has its interval
  (`Polled`).
* `HistoryKept`: the page has every answer of its session that it was told
  (`PageHears`), a request has those of before its question but for what was coming
  (`RequestHears`), and of a turn before it there is a later row only if that turn was
  running when it was sent (`EarlierEnded`). The row that is shown is a newest one of its
  session (`ShownNewest`, from the well-foundedness of the naturals), so it is of a turn
  that came after, or one of the exceptions. The first form of the property held in every
  run, and its proof did not go through: a repeat of a repeat, and a question asked
  past an answer that was coming, break it in longer histories than TLC was given.
* `AnswersTaken`: the text of the draft and the queue after it are one `Stream`, which a
  frame moves along and only the removal of the draft cuts, at its beginning
  (`UpToSuffix`). Of a delivery that goes on, the stream has a stretch of chunks up to the
  one that came last (`DeliveriesFit`, `UpToAppend`); of one that is done but waits for the
  queue, up to the last of all (`DrainsFit`); and a way by which nothing comes any more
  stays so (`Shut`). An answer takes the text when nothing is queued, hence all of
  the delivery that ends it (`AnswersAreTaken`). `ChatsWhole` is both together.

* `WalksSeeEveryRow`: what a walk has shown is in strict order (`Ordered`), hence without
  a row twice; and a row that was there all the time is shown, shares its field with one
  that is, or comes after the last one shown while there is a next page (`Accounts`).
* `NothingCutOut`: what `chunkText` has behind it (`Behind`) is covered by chunks, blank,
  or passed over by a step, of which the next slice is some number from the start
  (`SliceStarts`, `SlicesInv`). What the loop over sentences has joined is a text in which
  each character has its place, a blank further for each sentence that ended before
  (`PlacesFollow`, `WordsIn`); the current chunk is the end of that text (`CurrentFits`),
  and a chunk is the stretch from `from` to `to` (`SentenceFits`), which its offsets name
  unless the overlap is negative or NaN, whatever is put behind. Where a chunk is cut and
  what the trimming removes plays no part.
* `PlatformTyped`: the types of each part are a conjunct of its invariant.

The assumptions are named where the constants are declared: `NoOneAssumption` and
`FaultsAssumption` (TenantPool), `BrowserAssumption`, `BoundsAssumption`
(ChatStream), `PlatformAssumption` (bounds of `MCPlatform`'s parts are naturals, a job has
an attempt, a page a row; fields and ids of rows are finite sets of integers, as a table is
finite), `DatabaseAssumption` (bounds are naturals, the cache has keys, requests are finitely
many and their priorities integers). TLC evaluates each of them in the runs.

Some conventions of the models serve the prover: an update of several fields of one record is
written as one nested record update, and strings are without blanks, as its translation to
SMT reads other forms wrongly. What could be a recursion is a count: the place of a row
(`InOrder`) or of a key that stays (`Without`) is one more than the number of those before it,
a sum is the number of its units (`Total`). Their values are those of a sort, a filter and
a sum, and they take no induction over data.

Every invariant and action property that a run checks is proved; `NothingCutOut` and
`WalksSeeEveryRow` became provable when loops were written as steps and orders as counts.
Only model-checked:

* liveness: `StreamsSettle`, `SocketFreesUp`, `RequestsEnd`, `CopiesSettle` and
  `NothingStaysForEver`, that readers, handlers, transactions and copies end and that nothing
  stays in the cache for ever. The provers reason neither with fairness nor with `ENABLED`;
* the four violations of section 4, which are counterexamples.

## 6. Not modelled

Left out of modelled components, because it changes no state that another step reads:
POST `/chat/history`, which no page calls; `fetchStats` and `openJobDetails` of the upload
page; the heartbeat of a stream; ping and malformed messages of a socket; statistics;
offset pages. `CacheManager.invalidatePrefix` and `clear` are called by the diagnostics
routes only. `components/VoiceInput.tsx` uses the browser's recogniser, which is not this code.

Not modelled: the audit log, on which nothing depends; the in-memory limiter, which no
route uses; extraction (libraries for pdf, docx and images), of which the pipeline's model
has the failure; cryptography (JWT, bcrypt, webhook signatures, key encryption), HTTP and
SQL text, formatting, logging and tracing; the dashboards and other pages, which
show what they fetched; migrations, but for the constraints and policies that the modules
cite, and tools. The components with status `not_modelled` or `partly` in `PROJECT.json`
say why, one by one.
