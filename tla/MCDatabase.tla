----------------------------- MODULE MCDatabase -----------------------------
(***************************************************************************)
(* The database layer in one run: the pool with the tenant's context       *)
(* (TenantPool), the query cache before it (QueryCache with LruCache) and  *)
(* the queued pool (QueuedPool).  `part` chooses the part that the         *)
(* behaviour is about; they share no state.                                *)
(***************************************************************************)
EXTENDS TenantPool

CONSTANTS
  Queries, Keys, Prefixed, MaxSize, MaxWrites, MaxLost,    \* QueryCache
  Requests, Priorities                                     \* QueuedPool

ASSUME DatabaseAssumption ==
  /\ Keys # {} /\ MaxSize \in Nat /\ MaxWrites \in Nat /\ MaxLost \in Nat
  /\ IsFiniteSet(Requests) /\ Priorities \subseteq Int

VARIABLES
  part,
  hasL2, row, l1, l2, tagged, keyTags, reader, writer, lost,
  queue, request

\* The variables of each part.
cache == <<hasL2, row, l1, l2, tagged, keyTags, reader, writer, lost>>
queued == <<queue, request>>
jointVars == <<part, vars, cache, queued>>

Cache == INSTANCE QueryCache
Queued == INSTANCE QueuedPool

\* What a part may choose is fixed where the behaviour is about another one.
JointInit ==
  /\ part \in {"pool", "evicting", "shared", "queued"}
  /\ Init /\ (part # "pool" => obeysRls /\ hasTimeout)
  /\ Cache!Init /\ (part \in {"evicting", "shared"} \/ hasL2)
  /\ Queued!Init

\* All of the cache at once is too much for TLC: one query and one write over keys
\* that evict each other, or several queries over one key, with several writes or a
\* failing Redis.
OneWrite == FoldFunction(+, 0, row') <= 1
OneReader ==
  /\ lost' = 0 /\ OneWrite
  /\ \A q \in Queries : reader'[q].pc = "idle" \/ q = CHOOSE r \in Queries : TRUE
OneKey ==
  /\ lost' = 0 \/ OneWrite
  /\ \A k \in Keys \ Prefixed :
       row'[k] = 0 /\ \A q \in Queries : reader'[q].key = k => reader'[q].pc = "idle"

JointNext ==
  /\ UNCHANGED part
  /\ \/ part = "pool" /\ Next /\ UNCHANGED <<cache, queued>>
     \/ part = "evicting" /\ Cache!Next /\ OneReader /\ UNCHANGED <<vars, queued>>
     \/ part = "shared" /\ Cache!Next /\ OneKey /\ UNCHANGED <<vars, queued>>
     \/ part = "queued" /\ Queued!Next /\ UNCHANGED <<vars, cache>>

\* Each part's own fairness.
JointSpec == JointInit /\ [][JointNext]_jointVars
             /\ Fairness /\ Cache!Fairness /\ Queued!Fairness

-----------------------------------------------------------------------------
\* Every variable has its type, whatever part the behaviour is about.
TypesOK == TypeOK /\ Cache!TypeOK /\ Queued!TypeOK

\* No call runs in the context that another one left on its connection, and
\* only createTenantMiddleware and a health check that gave up lose a connection
\* (module TenantPool).
ConnectionsAreClean == NoForeignContext /\ LossesHaveReason

\* Redis holds what is old only for a reason (module QueryCache).
StaleHasReason == Cache!StaleHasReason

\* accessOrder fits the map of the LRU cache, and the queue of the pool is the
\* one its requests' priorities and turns make (modules LruCache, QueuedPool).
OrdersFit == Cache!OrderMatchesCache /\ Queued!QueueIsFair

\* With connectionTimeoutMillis every call ends, what is old leaves the caches
\* once the writes stop, and no request of the queued pool waits for ever.
NothingStaysForEver == CallsEnd /\ Cache!StaleDiesOut /\ Queued!WaitsEnd

=============================================================================
