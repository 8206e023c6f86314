----------------------------- MODULE QueryCache -----------------------------
(***************************************************************************)
(* QueryOptimizer.query (database/optimizer.ts) over CacheManager          *)
(* (database/cache.ts): the process has an LRU cache (L1, LruCache) before *)
(* Redis (L2), and a handler that writes to Postgres invalidates by tag.   *)
(*                                                                         *)
(* One tag covers every key.  A value is the version of its row; the step  *)
(* that reads it and the one that stores it are apart, and so is every     *)
(* command to Redis, which may fail.  Queries run concurrently with each   *)
(* other and with one writer.                                              *)
(***************************************************************************)
EXTENDS Integers, Functions, FiniteSets

CONSTANTS
  Queries,       \* concurrent handlers that query
  Keys,
  Prefixed,      \* keys that begin with the tag and a colon
  MaxSize,       \* maxSize of the LRU cache
  MaxWrites,     \* bound: writes of one row
  MaxLost        \* bound: commands to Redis that fail

VARIABLES
  hasL2,       \* l2Client is not null
  row,         \* key |-> version in Postgres
  l1,          \* accessOrder and cache
  l2,          \* key |-> value in Redis; missed: no invalidation was to find it in time
  tagged,      \* members of cache:tag:<tag>
  keyTags,     \* keys whose tags the process remembers
  reader,      \* handler |-> its query
  writer,      \* the write and the invalidation that follows
  lost

cacheVars == <<hasL2, row, l1, l2, tagged, keyTags, reader, writer, lost>>

Versions == 0..MaxWrites
L1 == INSTANCE LruCache WITH Values <- Versions
None == L1!None
Absent2 == [value |-> None, missed |-> FALSE]

Idle == [pc |-> "idle", key |-> CHOOSE k \in Keys : TRUE, value |-> None]
Quiet == [pc |-> "idle", found |-> {}, keys |-> {}, key |-> CHOOSE k \in Keys : TRUE]

Init ==
  /\ hasL2 \in BOOLEAN
  /\ row = [k \in Keys |-> 0]
  /\ l1 = L1!Empty
  /\ l2 = [k \in Keys |-> Absent2]
  /\ tagged = {}
  /\ keyTags = {}
  /\ reader = [q \in Queries |-> Idle]
  /\ writer = Quiet
  /\ lost = 0

-----------------------------------------------------------------------------
\* QueryOptimizer.query with CacheManager.get and set

Read(q, pc) == reader' = [reader EXCEPT ![q].pc = pc]

Get(q, k) ==
  /\ reader[q].pc = "idle"
  /\ IF l1.value[k] # None
     THEN l1' = L1!Touch(l1, k) /\ UNCHANGED reader
     ELSE /\ reader' = [reader EXCEPT ![q] = [pc |-> IF hasL2 THEN "get" ELSE "query",
                                              key |-> k, value |-> None]]
          /\ UNCHANGED l1
  /\ UNCHANGED <<hasL2, row, l2, tagged, keyTags, writer, lost>>

\* Redis answers GET; the answer is put in L1 in a later step.
GetL2(q) ==
  /\ reader[q].pc = "get"
  /\ LET v == l2[reader[q].key].value IN
     reader' = [reader EXCEPT ![q] = [@ EXCEPT !.pc = IF v # None THEN "populate" ELSE "query",
                                               !.value = v]]
  /\ UNCHANGED <<hasL2, row, l1, l2, tagged, keyTags, writer, lost>>

Populate(q) ==
  /\ reader[q].pc = "populate"
  /\ l1' = L1!Put(l1, reader[q].key, reader[q].value)
  /\ Read(q, "idle")
  /\ UNCHANGED <<hasL2, row, l2, tagged, keyTags, writer, lost>>

QueryRow(q) ==
  /\ reader[q].pc = "query"
  /\ reader' = [reader EXCEPT ![q] = [@ EXCEPT !.pc = "set", !.value = row[reader[q].key]]]
  /\ UNCHANGED <<hasL2, row, l1, l2, tagged, keyTags, writer, lost>>

\* set: L1 and the tags at once, then the commands to Redis.
Set(q) ==
  /\ reader[q].pc = "set"
  /\ l1' = L1!Put(l1, reader[q].key, reader[q].value)
  /\ keyTags' = keyTags \cup {reader[q].key}
  /\ Read(q, IF hasL2 THEN "setEx" ELSE "idle")
  /\ UNCHANGED <<hasL2, row, l2, tagged, writer, lost>>

SetEx(q) ==
  /\ reader[q].pc = "setEx"
  /\ l2' = [l2 EXCEPT ![reader[q].key] = [value |-> reader[q].value, missed |-> TRUE]]
  /\ Read(q, "sAdd")
  /\ UNCHANGED <<hasL2, row, l1, tagged, keyTags, writer, lost>>

SAdd(q) ==
  /\ reader[q].pc = "sAdd"
  /\ tagged' = tagged \cup {reader[q].key}
  /\ l2' = [l2 EXCEPT ![reader[q].key].missed = @ /\ l2[reader[q].key].value \notin
                                                     {None, row[reader[q].key]}]
  /\ Read(q, "idle")
  /\ UNCHANGED <<hasL2, row, l1, keyTags, writer, lost>>

\* A command of the reader fails: it is logged, and the query goes on.
FailRead(q) ==
  /\ lost < MaxLost /\ reader[q].pc \in {"get", "setEx", "sAdd"}
  /\ Read(q, IF reader[q].pc = "get" THEN "query" ELSE "idle")
  /\ lost' = lost + 1
  /\ UNCHANGED <<hasL2, row, l1, l2, tagged, keyTags, writer>>

-----------------------------------------------------------------------------
\* A write and CacheManager.invalidateTag with delete

Go(pc) == writer' = [writer EXCEPT !.pc = pc]

WriteRow(k) ==
  /\ writer.pc = "idle"
  /\ row[k] < MaxWrites
  /\ row' = [row EXCEPT ![k] = @ + 1]
  /\ Go("prefix")
  /\ UNCHANGED <<hasL2, l1, l2, tagged, keyTags, reader, lost>>

InvalidatePrefix ==
  /\ writer.pc = "prefix"
  /\ l1' = L1!DropPrefix(l1)
  /\ Go(IF hasL2 THEN "sMembers" ELSE "idle")
  /\ UNCHANGED <<hasL2, row, l2, tagged, keyTags, reader, lost>>

SMembers ==
  /\ writer.pc = "sMembers"
  /\ writer' = [writer EXCEPT !.pc = "next", !.found = tagged, !.keys = tagged]
  /\ UNCHANGED <<hasL2, row, l1, l2, tagged, keyTags, reader, lost>>

\* delete(key) of the next key: L1 first, then DEL.
Delete ==
  /\ writer.pc = "next"
  /\ IF writer.keys = {} THEN Go("delTag") /\ UNCHANGED l1
     ELSE \E k \in writer.keys :
            /\ l1' = L1!Drop(l1, k)
            /\ writer' = [writer EXCEPT !.pc = "del", !.key = k, !.keys = @ \ {k}]
  /\ UNCHANGED <<hasL2, row, l2, tagged, keyTags, reader, lost>>

\* Mutant of Del: the key is taken from its tag and left in Redis.
DelForgotten ==
  /\ writer.pc = "del"
  /\ Go(IF writer.key \in keyTags THEN "sRem" ELSE "next")
  /\ UNCHANGED <<hasL2, row, l1, l2, tagged, keyTags, reader, lost>>

Del ==
  /\ writer.pc = "del"
  /\ l2' = [l2 EXCEPT ![writer.key] = Absent2]
  /\ Go(IF writer.key \in keyTags THEN "sRem" ELSE "next")
  /\ UNCHANGED <<hasL2, row, l1, tagged, keyTags, reader, lost>>

Miss(keys) == [k \in Keys |-> IF k \in keys /\ l2[k] # Absent2
                             THEN [l2[k] EXCEPT !.missed = TRUE] ELSE l2[k]]

\* Keys that were set again since the write.
Fresh == {k \in Keys : l2[k].value = row[k]}

\* A key that was set again since its DEL loses its tag, too.
SRem ==
  /\ writer.pc = "sRem"
  /\ tagged' = tagged \ {writer.key}
  /\ keyTags' = keyTags \ {writer.key}
  /\ l2' = Miss({writer.key} \cap Fresh)
  /\ Go("next")
  /\ UNCHANGED <<hasL2, row, l1, reader, lost>>

\* The tag goes, with what was added to it since SMEMBERS or since its DEL.
DelTag ==
  /\ writer.pc = "delTag"
  /\ tagged' = {}
  /\ l2' = Miss(tagged \ (writer.found \ Fresh))
  /\ Go("idle")
  /\ UNCHANGED <<hasL2, row, l1, keyTags, reader, lost>>

\* A command of the writer fails. delete() catches its own and forgets the
\* tags; invalidateTag catches the others and gives up.
FailWrite ==
  /\ lost < MaxLost /\ writer.pc \in {"sMembers", "del", "sRem", "delTag"}
  /\ IF writer.pc \in {"del", "sRem"}
     THEN Go("next") /\ keyTags' = keyTags \ {writer.key}
     ELSE Go("idle") /\ UNCHANGED keyTags
  /\ lost' = lost + 1
  /\ UNCHANGED <<hasL2, row, l1, l2, tagged, reader>>

-----------------------------------------------------------------------------
\* Time. An entry of L1 that expired is dropped when it is next looked at.

ExpireL1(k) ==
  /\ l1.value[k] # None
  /\ l1' = L1!Drop(l1, k)
  /\ UNCHANGED <<hasL2, row, l2, tagged, keyTags, reader, writer, lost>>

ExpireL2(k) ==
  /\ l2[k] # Absent2
  /\ l2' = [l2 EXCEPT ![k] = Absent2]
  /\ UNCHANGED <<hasL2, row, l1, tagged, keyTags, reader, writer, lost>>

\* The tag lives as long as the entry that was added last said.
ExpireTag ==
  /\ tagged # {}
  /\ tagged' = {}
  /\ l2' = Miss(tagged)
  /\ UNCHANGED <<hasL2, row, l1, keyTags, reader, writer, lost>>

ReadStep(q) == GetL2(q) \/ Populate(q) \/ QueryRow(q) \/ Set(q) \/ SetEx(q) \/ SAdd(q)
WriteStep == InvalidatePrefix \/ SMembers \/ Delete \/ Del \/ SRem \/ DelTag

Next ==
  \/ \E q \in Queries : ReadStep(q) \/ FailRead(q) \/ \E k \in Keys : Get(q, k)
  \/ WriteStep \/ FailWrite \/ ExpireTag
  \/ \E k \in Keys : WriteRow(k) \/ ExpireL1(k) \/ ExpireL2(k)

Spec == Init /\ [][Next]_cacheVars

\* The process and Redis go on, and time passes.
Fairness == /\ \A q \in Queries : WF_cacheVars(ReadStep(q))
            /\ WF_cacheVars(WriteStep)
            /\ \A k \in Keys : WF_cacheVars(ExpireL1(k)) /\ WF_cacheVars(ExpireL2(k))
FairSpec == Spec /\ Fairness

-----------------------------------------------------------------------------
ReaderPcs == {"idle", "get", "populate", "query", "set", "setEx", "sAdd"}
WriterPcs == {"idle", "prefix", "sMembers", "next", "del", "sRem", "delTag"}

\* Every variable has its type.
TypeOK ==
  /\ hasL2 \in BOOLEAN
  /\ row \in [Keys -> Versions]
  /\ l1 \in L1!Caches
  /\ l2 \in [Keys -> [value : Versions \cup {None}, missed : BOOLEAN]]
  /\ tagged \subseteq Keys /\ keyTags \subseteq Keys
  /\ reader \in [Queries -> [pc : ReaderPcs, key : Keys, value : Versions \cup {None}]]
  /\ writer \in [pc : WriterPcs, found : SUBSET Keys, keys : SUBSET Keys, key : Keys]
  /\ lost \in 0..MaxLost

\* The list of the LRU cache stays in step with its map.
OrderMatchesCache == L1!OrderMatchesCache(l1)

\* Redis holds an old value only while the write that made it old still
\* invalidates, or because the invalidation could not know of it: SADD is
\* outstanding or came too late, the tag expired or went with an earlier
\* invalidation (cache.ts:231, 261), or a command failed.
StaleHasReason ==
  \A k \in Keys : l2[k].value \notin {None, row[k]} =>
    l2[k].missed \/ writer.pc # "idle" \/ lost > 0

\* What is old is gone for good once the writes stop: neither reading a value
\* nor filling L1 from Redis prolongs its life in Redis.
StaleDiesOut == <>[](\A k \in Keys : l1.value[k] \in {None, row[k]})

=============================================================================
