--------------------------- MODULE DatabaseProofs ---------------------------
(***************************************************************************)
(* Proofs about the parts of MCDatabase, each for the specification of its *)
(* own and for JointSpec: what is old in Redis (QueryCache), who has a     *)
(* connection (TenantPool), and the orders that the LRU cache (LruCache)   *)
(* and the queued pool (QueuedPool) keep.                                  *)
(***************************************************************************)
EXTENDS MCDatabase, FiniteSetTheorems, SequenceTheorems, TLAPS

-----------------------------------------------------------------------------
(***************************************************************************)
(* QueryCache.  What Redis holds and no one excuses has its tag, as long   *)
(* as every command succeeds; so an invalidation finds it in SMEMBERS, and *)
(* it is one of the keys that are still to be deleted.                     *)
(***************************************************************************)

AnyKey == CHOOSE k \in Keys : TRUE
Entries == [value : Int, missed : BOOLEAN]
CacheReaders == [pc : Cache!ReaderPcs, key : Keys \cup {AnyKey}, value : Int]
CacheWriters == [pc : Cache!WriterPcs, found : SUBSET Keys, keys : SUBSET Keys,
                 key : Keys \cup {AnyKey}]

CacheShape ==
  /\ hasL2 \in BOOLEAN
  /\ row \in [Keys -> Int]
  /\ l2 \in [Keys -> Entries]
  /\ tagged \subseteq Keys
  /\ reader \in [Queries -> CacheReaders]
  /\ writer \in CacheWriters
  /\ lost \in Nat

\* An entry that the next invalidation must find.
Found(k) == l2[k].value # -1 /\ ~l2[k].missed

\* Without Redis nothing is in it.
NoRedis ==
  /\ \A k \in Keys : l2[k].value = -1
  /\ \A q \in Queries : reader[q].pc \in {"idle", "query", "set"}
  /\ writer.pc \in {"idle", "prefix"}

\* The keys that the writer has still to find or to delete.
Pending(k) ==
  \/ writer.pc \in {"prefix", "sMembers"}
  \/ writer.pc \in {"next", "del", "sRem"} /\ k \in writer.keys
  \/ writer.pc = "del" /\ k = writer.key

CacheInv ==
  /\ CacheShape
  /\ \A q \in Queries : reader[q].pc # "idle" => reader[q].key \in Keys
  /\ ~hasL2 => NoRedis
  /\ writer.pc \in {"del", "sRem"} => writer.key \notin writer.keys
  /\ lost = 0 => \A k \in Keys : Found(k) =>
                   k \in tagged /\ (l2[k].value = row[k] \/ Pending(k))

\* The invariant says what is old in Redis.
LEMMA CacheInvExcuses == CacheInv => Cache!StaleHasReason
<1>. SUFFICES ASSUME CacheInv, NEW k \in Keys, l2[k].value \notin {-1, row[k]},
                     ~l2[k].missed, lost = 0
              PROVE  writer.pc # "idle"
  BY DEF Cache!StaleHasReason, Cache!None, Cache!L1!None, CacheInv, CacheShape
<1>. QED  BY DEF CacheInv, Found, Pending

\* At first Redis is empty, and nobody reads or writes.
LEMMA CacheInit == Cache!Init => CacheInv
<1>. SUFFICES ASSUME Cache!Init PROVE CacheInv
  OBVIOUS
<1>1. /\ hasL2 \in BOOLEAN /\ row = [k \in Keys |-> 0] /\ tagged = {} /\ lost = 0
      /\ l2 = [k \in Keys |-> [value |-> -1, missed |-> FALSE]]
      /\ reader = [q \in Queries |-> [pc |-> "idle", key |-> AnyKey, value |-> -1]]
      /\ writer = [pc |-> "idle", found |-> {}, keys |-> {}, key |-> AnyKey]
  BY DEF Cache!Init, Cache!Absent2, Cache!Idle, Cache!Quiet, Cache!None, Cache!L1!None, AnyKey
<1>2. CacheShape
  BY <1>1 DEF CacheShape, Entries, CacheReaders, CacheWriters, Cache!ReaderPcs, Cache!WriterPcs
<1>. QED  BY <1>1, <1>2 DEF CacheInv, NoRedis, Found, Pending

\* The fields of the cache's records.
LEMMA CacheFields ==
  ASSUME CacheInv
  PROVE  /\ \A k \in Keys : /\ row[k] \in Int /\ l2[k].value \in Int /\ l2[k].missed \in BOOLEAN
                            /\ l2[k] = [value |-> l2[k].value, missed |-> l2[k].missed]
         /\ \A q \in Queries : reader[q].key \in Keys \cup {AnyKey} /\ reader[q].value \in Int
         /\ writer.keys \subseteq Keys /\ writer.found \subseteq Keys
BY DEF CacheInv, CacheShape, Entries, CacheReaders, CacheWriters

\* Steps of a query before it writes to Redis keep the invariant.
LEMMA CacheReads ==
  ASSUME CacheInv, NEW q \in Queries,
         \/ \E k \in Keys : Cache!Get(q, k)
         \/ Cache!GetL2(q) \/ Cache!Populate(q) \/ Cache!QueryRow(q) \/ Cache!Set(q)
         \/ Cache!FailRead(q)
  PROVE  CacheInv'
<1>1. /\ UNCHANGED <<hasL2, row, l2, tagged, writer>>
      /\ lost' = lost \/ lost' = lost + 1
  BY DEF Cache!Get, Cache!GetL2, Cache!Populate, Cache!QueryRow, Cache!Set, Cache!FailRead,
         Cache!Read
<1>2. PICK r \in CacheReaders :
               /\ reader' = [reader EXCEPT ![q] = r]
               /\ ~hasL2 => r.pc \in {"idle", "query", "set"}
               /\ r.pc # "idle" => r.key \in Keys
  <2>0. /\ reader \in [Queries -> CacheReaders] /\ reader[q] \in CacheReaders /\ -1 \in Int
        /\ reader[q].pc # "idle" => /\ reader[q].key \in Keys
                                    /\ row[reader[q].key] \in Int
                                    /\ l2[reader[q].key].value \in Int
        /\ ~hasL2 => reader[q].pc \in {"idle", "query", "set"}
    BY CacheFields DEF CacheInv, CacheShape, NoRedis
  <2>. DEFINE Moved(r) == /\ reader' = [reader EXCEPT ![q] = r]
                          /\ ~hasL2 => r.pc \in {"idle", "query", "set"}
                          /\ r.pc # "idle" => r.key \in Keys
  <2>1. ASSUME NEW k \in Keys, Cache!Get(q, k) PROVE \E r \in CacheReaders : Moved(r)
    <3>. DEFINE r == [pc |-> IF hasL2 THEN "get" ELSE "query", key |-> k, value |-> -1]
    <3>1. r \in CacheReaders
      BY DEF CacheReaders, Cache!ReaderPcs
    <3>2. CASE reader' = reader
      BY <2>0, <3>2 DEF CacheInv
    <3>. QED  BY <2>1, <3>1, <3>2 DEF Cache!Get, Cache!None, Cache!L1!None
  <2>2. ASSUME Cache!GetL2(q) PROVE \E r \in CacheReaders : Moved(r)
    <3>. DEFINE v == l2[reader[q].key].value
                r == [reader[q] EXCEPT !.pc = IF v # -1 THEN "populate" ELSE "query", !.value = v]
    <3>1. hasL2
      BY <2>0, <2>2 DEF Cache!GetL2
    <3>2. Moved(r)
      BY <2>0, <2>2, <3>1 DEF Cache!GetL2, Cache!None, Cache!L1!None, CacheReaders
    <3>3. r \in CacheReaders
      BY <2>0, <2>2 DEF Cache!GetL2, CacheReaders, Cache!ReaderPcs
    <3>. QED  BY <3>2, <3>3
  <2>3. ASSUME Cache!QueryRow(q) PROVE \E r \in CacheReaders : Moved(r)
    <3>. DEFINE r == [reader[q] EXCEPT !.pc = "set", !.value = row[reader[q].key]]
    <3>1. Moved(r)
      BY <2>0, <2>3 DEF Cache!QueryRow, CacheReaders
    <3>2. r \in CacheReaders
      BY <2>0, <2>3 DEF Cache!QueryRow, CacheReaders, Cache!ReaderPcs
    <3>. QED  BY <3>1, <3>2
  <2>4. ASSUME Cache!Populate(q) \/ Cache!Set(q) \/ Cache!FailRead(q)
        PROVE  \E r \in CacheReaders : Moved(r)
    <3>1. PICK pc \in {"idle", "setEx", "query"} :
            /\ reader' = [reader EXCEPT ![q].pc = pc] /\ reader[q].pc # "idle"
            /\ ~hasL2 => pc # "setEx"
      BY <2>4 DEF Cache!Populate, Cache!Set, Cache!FailRead, Cache!Read
    <3>. DEFINE r == [reader[q] EXCEPT !.pc = pc]
    <3>2. r \in CacheReaders
      BY <2>0 DEF CacheReaders, Cache!ReaderPcs
    <3>3. Moved(r)
      BY <2>0, <3>1 DEF CacheReaders
    <3>. QED  BY <3>2, <3>3
  <2>. QED  BY <2>1, <2>2, <2>3, <2>4
<1>3. CacheShape'
  BY <1>1, <1>2 DEF CacheInv, CacheShape
<1>4. \A p \in Queries : /\ reader'[p].pc # "idle" => reader'[p].key \in Keys
                         /\ ~hasL2 => reader'[p].pc \in {"idle", "query", "set"}
  BY <1>2 DEF CacheInv, CacheShape, NoRedis
<1>. QED  BY <1>1, <1>3, <1>4 DEF CacheInv, CacheShape, NoRedis, Found, Pending

\* A query that writes to Redis: its entry is excused until it has its tag, and
\* then only if it is not what Postgres holds.
LEMMA CacheWrites ==
  ASSUME CacheInv, NEW q \in Queries, Cache!SetEx(q) \/ Cache!SAdd(q)
  PROVE  CacheInv'
<1>. DEFINE k == reader[q].key
            pc == IF reader[q].pc = "setEx" THEN "sAdd" ELSE "idle"
            excused == IF reader[q].pc = "setEx" THEN TRUE
                       ELSE l2[k].missed /\ l2[k].value \notin {-1, row[k]}
            value == IF reader[q].pc = "setEx" THEN reader[q].value ELSE l2[k].value
            r == [reader[q] EXCEPT !.pc = pc]
            e == [value |-> value, missed |-> excused]
<1>1. /\ reader[q].pc \in {"setEx", "sAdd"} /\ hasL2 /\ k \in Keys /\ k \in Keys \cup {AnyKey}
      /\ UNCHANGED <<hasL2, row, writer, lost>>
  BY DEF Cache!SetEx, Cache!SAdd, CacheInv, NoRedis
<1>2. /\ reader[q].value \in Int /\ l2[k].value \in Int /\ l2[k].missed \in BOOLEAN
      /\ l2[k] = [value |-> l2[k].value, missed |-> l2[k].missed]
  BY <1>1, CacheFields
<1>3. /\ reader' = [reader EXCEPT ![q] = r] /\ l2' = [l2 EXCEPT ![k] = e]
      /\ tagged' = IF reader[q].pc = "setEx" THEN tagged ELSE tagged \cup {k}
  <2>1. CASE Cache!SetEx(q)
    BY <2>1 DEF Cache!SetEx, Cache!Read
  <2>2. CASE Cache!SAdd(q)
    <3>1. l2' = [l2 EXCEPT ![k] = [l2[k] EXCEPT !.missed = /\ l2[k].missed
                                                           /\ l2[k].value \notin {-1, row[k]}]]
      BY <2>2 DEF Cache!SAdd, Cache!None, Cache!L1!None
    <3>2. reader[q].pc = "sAdd" /\ reader' = [reader EXCEPT ![q] = r] /\ tagged' = tagged \cup {k}
      BY <2>2 DEF Cache!SAdd, Cache!Read
    <3>3. e = [l2[k] EXCEPT !.missed = l2[k].missed /\ l2[k].value \notin {-1, row[k]}]
      BY <1>2, <3>2
    <3>. QED  BY <3>1, <3>2, <3>3
  <2>. QED  BY <2>1, <2>2
<1>4. e \in Entries /\ e.value = value /\ e.missed = excused
  BY <1>2 DEF Entries
<1>5. r \in CacheReaders /\ r.pc = pc /\ r.key = k /\ pc \in {"idle", "sAdd"}
  BY DEF CacheInv, CacheShape, CacheReaders, Cache!ReaderPcs
<1>6. /\ l2' \in [Keys -> Entries] /\ l2'[k] = e /\ \A j \in Keys \ {k} : l2'[j] = l2[j]
      /\ reader' \in [Queries -> CacheReaders] /\ reader'[q] = r
      /\ \A p \in Queries \ {q} : reader'[p] = reader[p]
  <2>. HIDE DEF r, e, k
  <2>. QED  BY <1>1, <1>3, <1>4, <1>5 DEF CacheInv, CacheShape
<1>7. CacheShape'
  BY <1>1, <1>3, <1>6 DEF CacheInv, CacheShape
<1>8. ASSUME lost = 0, NEW j \in Keys, Found(j)'
      PROVE  j \in tagged' /\ (l2'[j].value = row[j] \/ Pending(j))
  <2>1. CASE j # k
    BY <1>3, <1>6, <1>8, <2>1 DEF CacheInv, Found
  <2>2. CASE j = k
    <3>1. reader[q].pc = "sAdd" /\ ~excused /\ value # -1
      BY <1>1, <1>4, <1>6, <1>8, <2>2 DEF Found
    <3>2. j \in tagged' /\ l2'[j].value = l2[j].value /\ l2[j].value # -1
      BY <1>3, <1>4, <1>6, <2>2, <3>1
    <3>3. CASE l2[j].missed
      BY <1>1, <2>2, <3>1, <3>2, <3>3
    <3>4. CASE ~l2[j].missed
      BY <1>8, <3>2, <3>4 DEF CacheInv, Found
    <3>. QED  BY <3>2, <3>3, <3>4
  <2>. QED  BY <2>1, <2>2
<1>9. \A p \in Queries : reader'[p].pc # "idle" => reader'[p].key \in Keys
  BY <1>1, <1>5, <1>6 DEF CacheInv
<1>. QED  BY <1>1, <1>7, <1>8, <1>9 DEF CacheInv, Pending

\* Losing its tag changes no value; an entry that is there is excused for it.
LEMMA MissFacts ==
  ASSUME CacheInv, NEW keys, l2' = Cache!Miss(keys)
  PROVE  /\ l2' \in [Keys -> Entries]
         /\ \A k \in Keys : l2'[k].value = l2[k].value
         /\ \A k \in Keys : Found(k)' => Found(k) /\ k \notin keys
<1>1. \A k \in Keys : l2'[k] = IF k \in keys /\ l2[k] # [value |-> -1, missed |-> FALSE]
                               THEN [l2[k] EXCEPT !.missed = TRUE] ELSE l2[k]
  BY DEF Cache!Miss, Cache!Absent2, Cache!None, Cache!L1!None
<1>2. ASSUME NEW k \in Keys
      PROVE  /\ l2'[k] \in Entries /\ l2'[k].value = l2[k].value
             /\ ~l2'[k].missed /\ l2'[k].value # -1 => ~l2[k].missed /\ k \notin keys
  <2>. DEFINE e == [l2[k] EXCEPT !.missed = TRUE]
  <2>1. /\ l2[k] \in Entries /\ e \in Entries /\ e.value = l2[k].value /\ e.missed = TRUE
    BY DEF CacheInv, CacheShape, Entries
  <2>2. CASE k \in keys /\ l2[k] # [value |-> -1, missed |-> FALSE]
    <3>1. l2'[k] = e
      BY <1>1, <2>2
    <3>. HIDE DEF e
    <3>. QED  BY <2>1, <3>1
  <2>3. CASE k \notin keys
    BY <1>1, <2>1, <2>3
  <2>4. CASE l2[k] = [value |-> -1, missed |-> FALSE]
    <3>1. l2'[k] = l2[k]
      BY <1>1, <2>4
    <3>. QED  BY <2>1, <2>4, <3>1
  <2>. QED  BY <2>2, <2>3, <2>4
<1>3. l2' \in [Keys -> Entries]
  BY <1>2 DEF Cache!Miss
<1>. QED  BY <1>2, <1>3 DEF Found

\* Time: an entry or the tag expires.
LEMMA CacheExpires ==
  ASSUME CacheInv, Cache!ExpireTag \/ \E k \in Keys : Cache!ExpireL1(k) \/ Cache!ExpireL2(k)
  PROVE  CacheInv'
<1>1. UNCHANGED <<hasL2, row, reader, writer, lost>>
  BY DEF Cache!ExpireTag, Cache!ExpireL1, Cache!ExpireL2
<1>2. CASE Cache!ExpireTag
  <2>1. tagged' = {} /\ l2' = Cache!Miss(tagged)
    BY <1>2 DEF Cache!ExpireTag
  <2>2. /\ l2' \in [Keys -> Entries] /\ \A k \in Keys : l2'[k].value = l2[k].value
        /\ \A k \in Keys : Found(k)' => Found(k) /\ k \notin tagged
    BY <2>1, MissFacts
  <2>3. CacheShape'
    BY <1>1, <2>1, <2>2 DEF CacheInv, CacheShape
  <2>. QED  BY <1>1, <2>2, <2>3 DEF CacheInv, NoRedis
<1>3. CASE \E k \in Keys : Cache!ExpireL1(k)
  <2>1. UNCHANGED <<l2, tagged>>
    BY <1>3 DEF Cache!ExpireL1
  <2>. QED  BY <1>1, <2>1 DEF CacheInv, CacheShape, NoRedis, Found, Pending
<1>4. ASSUME NEW k \in Keys, Cache!ExpireL2(k) PROVE CacheInv'
  <2>1. tagged' = tagged /\ l2' = [l2 EXCEPT ![k] = [value |-> -1, missed |-> FALSE]]
    BY <1>4 DEF Cache!ExpireL2, Cache!Absent2, Cache!None, Cache!L1!None
  <2>2. CacheShape'
    BY <1>1, <2>1 DEF CacheInv, CacheShape, Entries
  <2>3. ASSUME NEW j \in Keys, Found(j)' PROVE Found(j) /\ l2'[j].value = l2[j].value
    BY <2>1, <2>3 DEF CacheInv, CacheShape, Found
  <2>4. \A j \in Keys : l2'[j].value = -1 \/ l2'[j] = l2[j]
    BY <2>1 DEF CacheInv, CacheShape
  <2>. QED  BY <1>1, <2>1, <2>2, <2>3, <2>4 DEF CacheInv, NoRedis, Pending
<1>. QED  BY <1>2, <1>3, <1>4

\* The writer's record with another pc.
LEMMA WriterAt ==
  ASSUME CacheInv, NEW pc \in Cache!WriterPcs, Cache!Go(pc)
  PROVE  /\ writer' \in CacheWriters /\ writer'.pc = pc /\ writer'.keys = writer.keys
         /\ writer'.key = writer.key
BY DEF Cache!Go, CacheInv, CacheShape, CacheWriters

\* The writer up to SMEMBERS: what it makes old is pending, and has its tag.
LEMMA CacheInvalidates ==
  ASSUME CacheInv, \/ \E k \in Keys : Cache!WriteRow(k)
                   \/ Cache!InvalidatePrefix \/ Cache!SMembers
  PROVE  CacheInv'
<1>1. UNCHANGED <<hasL2, l2, tagged, reader, lost>>
  BY DEF Cache!WriteRow, Cache!InvalidatePrefix, Cache!SMembers
<1>2. ASSUME NEW k \in Keys, Cache!WriteRow(k) PROVE CacheInv'
  <2>1. Cache!Go("prefix") /\ row' = [row EXCEPT ![k] = @ + 1]
    BY <1>2 DEF Cache!WriteRow
  <2>2. writer' \in CacheWriters /\ writer'.pc = "prefix"
    BY <2>1, WriterAt DEF Cache!WriterPcs
  <2>3. CacheShape'
    BY <1>1, <2>1, <2>2 DEF CacheInv, CacheShape
  <2>. QED  BY <1>1, <2>2, <2>3 DEF CacheInv, NoRedis, Found, Pending
<1>3. CASE Cache!InvalidatePrefix
  <2>1. writer.pc = "prefix" /\ Cache!Go(IF hasL2 THEN "sMembers" ELSE "idle") /\ row' = row
    BY <1>3 DEF Cache!InvalidatePrefix
  <2>2. writer' \in CacheWriters /\ writer'.pc = IF hasL2 THEN "sMembers" ELSE "idle"
    BY <2>1, WriterAt DEF Cache!WriterPcs
  <2>3. CacheShape'
    BY <1>1, <2>1, <2>2 DEF CacheInv, CacheShape
  <2>. QED  BY <1>1, <2>1, <2>2, <2>3 DEF CacheInv, NoRedis, Found, Pending
<1>4. CASE Cache!SMembers
  <2>1. /\ writer.pc = "sMembers" /\ row' = row
        /\ writer' = [writer EXCEPT !.pc = "next", !.found = tagged, !.keys = tagged]
    BY <1>4 DEF Cache!SMembers
  <2>2. writer' \in CacheWriters /\ writer'.pc = "next" /\ writer'.keys = tagged
    BY <2>1 DEF CacheInv, CacheShape, CacheWriters, Cache!WriterPcs
  <2>3. CacheShape'
    BY <1>1, <2>1, <2>2 DEF CacheInv, CacheShape
  <2>. QED  BY <1>1, <2>1, <2>2, <2>3 DEF CacheInv, NoRedis, Found, Pending
<1>. QED  BY <1>2, <1>3, <1>4

\* The writer's commands for one key, and the choice of the next.
LEMMA CacheDeletes ==
  ASSUME CacheInv, Cache!Delete \/ Cache!Del \/ Cache!SRem
  PROVE  CacheInv'
<1>1. UNCHANGED <<hasL2, row, reader, lost>>
  BY DEF Cache!Delete, Cache!Del, Cache!SRem
<1>2. CASE Cache!Delete
  <2>1. writer.pc = "next" /\ UNCHANGED <<l2, tagged>> /\ hasL2
    BY <1>2 DEF Cache!Delete, CacheInv, NoRedis
  <2>2. CASE writer.keys = {}
    <3>1. writer' \in CacheWriters /\ writer'.pc = "delTag"
      BY <1>2, <2>2, WriterAt DEF Cache!Delete, Cache!WriterPcs
    <3>2. CacheShape'
      BY <1>1, <2>1, <3>1 DEF CacheInv, CacheShape
    <3>. QED  BY <1>1, <2>1, <2>2, <3>1, <3>2 DEF CacheInv, Found, Pending
  <2>3. CASE writer.keys # {}
    <3>1. PICK k \in writer.keys :
            writer' = [writer EXCEPT !.pc = "del", !.key = k, !.keys = writer.keys \ {k}]
      BY <1>2, <2>3 DEF Cache!Delete
    <3>2. /\ writer' \in CacheWriters /\ writer'.pc = "del" /\ writer'.key = k
          /\ writer'.keys = writer.keys \ {k}
      BY <3>1 DEF CacheInv, CacheShape, CacheWriters, Cache!WriterPcs
    <3>3. CacheShape'
      BY <1>1, <2>1, <3>2 DEF CacheInv, CacheShape
    <3>. QED  BY <1>1, <2>1, <3>2, <3>3 DEF CacheInv, Found, Pending
  <2>. QED  BY <2>2, <2>3
<1>3. CASE Cache!Del
  <2>1. PICK pc \in {"sRem", "next"} : Cache!Go(pc)
    BY <1>3 DEF Cache!Del
  <2>2. /\ writer.pc = "del" /\ tagged' = tagged /\ hasL2
        /\ l2' = [l2 EXCEPT ![writer.key] = [value |-> -1, missed |-> FALSE]]
    BY <1>3 DEF Cache!Del, Cache!Absent2, Cache!None, Cache!L1!None, CacheInv, NoRedis
  <2>3. /\ writer' \in CacheWriters /\ writer'.pc = pc /\ writer'.keys = writer.keys
        /\ writer'.key = writer.key
    BY <2>1, WriterAt DEF Cache!WriterPcs
  <2>. DEFINE none == [value |-> -1, missed |-> FALSE]
  <2>7. none \in Entries
    BY DEF Entries
  <2>. HIDE DEF none
  <2>8. l2' = [l2 EXCEPT ![writer.key] = none]
    BY <2>2 DEF none
  <2>4. l2' \in [Keys -> Entries]
    BY <2>7, <2>8 DEF CacheInv, CacheShape
  <2>5. CacheShape'
    BY <1>1, <2>2, <2>3, <2>4 DEF CacheInv, CacheShape
  <2>6. ASSUME NEW j \in Keys, Found(j)' PROVE j # writer.key /\ l2'[j] = l2[j] /\ Found(j)
    BY <2>2, <2>6 DEF CacheInv, CacheShape, Found
  <2>. QED  BY <1>1, <2>2, <2>3, <2>5, <2>6 DEF CacheInv, Pending
<1>4. CASE Cache!SRem
  <2>1. /\ writer.pc = "sRem" /\ tagged' = tagged \ {writer.key} /\ hasL2 /\ Cache!Go("next")
        /\ l2' = Cache!Miss({writer.key} \cap Cache!Fresh)
    BY <1>4 DEF Cache!SRem, CacheInv, NoRedis
  <2>2. /\ writer' \in CacheWriters /\ writer'.pc = "next" /\ writer'.keys = writer.keys
    BY <2>1, WriterAt DEF Cache!WriterPcs
  <2>3. /\ l2' \in [Keys -> Entries] /\ \A k \in Keys : l2'[k].value = l2[k].value
        /\ \A k \in Keys : Found(k)' => Found(k) /\ k \notin {writer.key} \cap Cache!Fresh
    BY <2>1, MissFacts
  <2>4. CacheShape'
    BY <1>1, <2>1, <2>2, <2>3 DEF CacheInv, CacheShape
  <2>5. ASSUME lost = 0, NEW j \in Keys, Found(j)'
        PROVE  j \in tagged' /\ (l2'[j].value = row[j] \/ j \in writer.keys)
    <3>1. /\ Found(j) /\ l2'[j].value = l2[j].value
          /\ j \in tagged /\ (l2[j].value = row[j] \/ j \in writer.keys)
      BY <2>1, <2>3, <2>5 DEF CacheInv, Pending
    <3>2. CASE j = writer.key
      <4>1. j \notin writer.keys
        BY <2>1, <3>2 DEF CacheInv
      <4>2. j \notin Cache!Fresh
        BY <2>3, <2>5, <3>2
      <4>. QED  BY <3>1, <4>1, <4>2 DEF Cache!Fresh
    <3>. QED  BY <2>1, <3>1, <3>2
  <2>. QED  BY <1>1, <2>1, <2>2, <2>4, <2>5 DEF CacheInv, Pending
<1>. QED  BY <1>2, <1>3, <1>4

\* The tag goes: nothing that must be found is left; or a command fails.
LEMMA CacheEnds == ASSUME CacheInv, Cache!DelTag \/ Cache!FailWrite PROVE CacheInv'
<1>1. CASE Cache!DelTag
  <2>1. /\ writer.pc = "delTag" /\ tagged' = {} /\ hasL2 /\ Cache!Go("idle")
        /\ l2' = Cache!Miss(tagged \ (writer.found \ Cache!Fresh))
        /\ UNCHANGED <<hasL2, row, reader, lost>>
    BY <1>1 DEF Cache!DelTag, CacheInv, NoRedis
  <2>2. writer' \in CacheWriters /\ writer'.pc = "idle"
    BY <2>1, WriterAt DEF Cache!WriterPcs
  <2>. DEFINE keys == tagged \ (writer.found \ Cache!Fresh)
  <2>3. /\ l2' \in [Keys -> Entries] /\ \A k \in Keys : l2'[k].value = l2[k].value
        /\ \A k \in Keys : Found(k)' => Found(k) /\ k \notin keys
    BY <2>1, MissFacts
  <2>4. CacheShape'
    BY <2>1, <2>2, <2>3 DEF CacheInv, CacheShape
  <2>5. \A k \in Keys : lost = 0 /\ Found(k) => k \in tagged /\ k \in Cache!Fresh
    BY <2>1 DEF CacheInv, Pending, Cache!Fresh
  <2>6. \A k \in Keys : Found(k)' => lost # 0
    BY <2>3, <2>5
  <2>. QED  BY <2>1, <2>2, <2>4, <2>6, <2>3 DEF CacheInv, NoRedis
<1>2. CASE Cache!FailWrite
  <2>1. /\ lost' = lost + 1 /\ UNCHANGED <<hasL2, row, l2, tagged, reader>> /\ hasL2
    BY <1>2 DEF Cache!FailWrite, CacheInv, NoRedis
  <2>2. PICK pc \in {"next", "idle"} : Cache!Go(pc)
    BY <1>2 DEF Cache!FailWrite
  <2>3. writer' \in CacheWriters /\ writer'.pc = pc
    BY <2>2, WriterAt DEF Cache!WriterPcs
  <2>4. CacheShape' /\ lost' # 0
    BY <2>1, <2>3 DEF CacheInv, CacheShape
  <2>. QED  BY <2>1, <2>3, <2>4 DEF CacheInv
<1>. QED  BY <1>1, <1>2

\* Every step of the cache keeps its invariant.
LEMMA CacheNext == CacheInv /\ [Cache!Next]_cache => CacheInv'
<1>1. CacheInv /\ UNCHANGED cache => CacheInv'
  BY DEF cache, CacheInv, CacheShape, NoRedis, Found, Pending
<1>. QED  BY <1>1, CacheReads, CacheWrites, CacheExpires, CacheInvalidates, CacheDeletes, CacheEnds
     DEF Cache!Next, Cache!ReadStep, Cache!WriteStep

\* Whatever the bounds, the keys and the queries: what is old in Redis while no
\* write is under way was excused, or a command to Redis failed.
THEOREM StaleExcused == Cache!Spec => []Cache!StaleHasReason
<1>1. CacheInv /\ [Cache!Next]_(Cache!cacheVars) => CacheInv'
  BY CacheNext DEF Cache!cacheVars, cache
<1>. QED  BY <1>1, CacheInit, CacheInvExcuses, PTL DEF Cache!Spec

\* A step of the joint specification is one of the cache or leaves it alone.
LEMMA JointCache == [JointNext]_jointVars => [Cache!Next]_cache
  BY DEF JointNext, jointVars, cache

\* The same beside the other parts, for any keys, number of queries, writes and
\* failed commands: however queries, invalidations, failures and the end of
\* entries interleave, Redis holds what is old only for a reason.
THEOREM StaleReasoned == JointSpec => []StaleHasReason
<1>1. JointInit => CacheInv
  BY CacheInit DEF JointInit
<1>2. CacheInv => StaleHasReason
  BY CacheInvExcuses DEF StaleHasReason
<1>. QED  BY <1>1, <1>2, CacheNext, JointCache, PTL DEF JointSpec

-----------------------------------------------------------------------------
(***************************************************************************)
(* TenantPool.  What is left of a call's program and the connections it    *)
(* holds go together: between its first connection and its releases a call *)
(* has only statements before it, and then as many releases as it holds    *)
(* connections.  So a connection is released once, by the call that holds  *)
(* it; and since a transaction ends before the release that follows it,    *)
(* the setting that is local to it is gone when the next call comes.       *)
(***************************************************************************)

CallRecords ==
  [kind : Kinds, work : Works, tenant : Tenants \cup {NoOne}, project : {NoOne} \cup Projects,
   todo : Seq(Steps), held : Seq(Conns), failed : BOOLEAN,
   end : {"off", "running", "ok", "failed"}]
ConnRecords == [holder : Callers \cup {NoOne}, tx : BOOLEAN, tenant : Tenants \cup {NoOne},
                limited : BOOLEAN]

\* Statements, and a release for each of h connections.
Closing(todo, h) ==
  /\ Len(todo) >= h
  /\ \A i \in 1..Len(todo) : IF i > Len(todo) - h THEN todo[i] = "release"
                             ELSE todo[i] \in Statements \cup {"rollback"}

\* What is left for a call of the kind that holds h connections.
NestedRests == {<<"set", "connect", "set", "query", "release", "release">>,
                <<"connect", "set", "query", "release", "release">>}
MiddlewareRests == {<<"set", "query", "finish">>, <<"query", "finish">>, <<"finish">>, <<>>}
Rests(kind, todo, h) ==
  \/ h = 0 /\ todo \in {<<>>, Programs[kind]}
  \/ h = 1 /\ kind = "nested" /\ todo \in NestedRests
  \/ h = 1 /\ kind = "middleware" /\ todo \in MiddlewareRests
  \/ /\ kind # "middleware" /\ Closing(todo, h)
     /\ h = 1 \/ (h = 2 /\ kind = "nested")
     /\ (\E i \in 1..Len(todo) : todo[i] = "begin") => kind = "tx" /\ todo = Tail(Transaction)

\* A call that ended has nothing left, but for the middleware whose response was
\* cut off and the health check that gave up.
Stands(r) ==
  /\ Rests(r.kind, r.todo, Len(r.held))
  /\ r.end = "running" => r.todo # <<>>
  /\ r.end = "off" => r.todo = <<>> /\ r.held = <<>>
  /\ r.end \in {"ok", "failed"} =>
       \/ r.todo = <<>> /\ (r.held = <<>> \/ r.kind = "middleware")
       \/ r.end = "failed" /\ r.kind = "health" /\ r.held = <<>> /\ r.todo = HealthCheck

PoolShape ==
  /\ obeysRls \in BOOLEAN /\ hasTimeout \in BOOLEAN
  /\ conn \in [Conns -> ConnRecords]
  /\ waiting \in Seq(Callers)
  /\ projects \in [Projects -> {"absent", "ownerless", "owned", "deleted"}]
  /\ call \in [Callers -> CallRecords]
  /\ faults \in 0..MaxFaults

\* A connection is held once, by the call that has it or by a check that gave up.
Holdings ==
  /\ \A c \in Callers : IsInjective(call[c].held)
  /\ \A c \in Callers : \A i \in DOMAIN call[c].held : conn[call[c].held[i]].holder = c
  /\ \A c \in Callers, k \in Conns :
       conn[k].holder = c =>
         k \in Range(call[c].held) \/ (GaveUp(c) /\ c \notin Range(waiting))

\* A caller waits once, at its connect().
Queueing ==
  /\ IsInjective(waiting)
  /\ \A c \in Callers : c \in Range(waiting) => At(c, "connect") \/ GaveUp(c)

\* A transaction is withTransaction's, and its end is still to come.
Ending(todo) == \E i \in 1..Len(todo) : todo[i] \in {"commit", "rollback"}
InTransaction(k) == conn[k].tx =>
  \E c \in Callers : conn[k].holder = c /\ call[c].kind = "tx" /\ Ending(call[c].todo)
Transactions == \A k \in Conns : InTransaction(k)

\* The context of a connection is its holder's (NoForeignContext of one connection).
OwnContext(k) == conn[k].tenant # NoOne =>
  conn[k].tx /\ conn[k].holder \in Callers /\ call[conn[k].holder].tenant = conn[k].tenant

PoolInv ==
  /\ PoolShape
  /\ \A c \in Callers : Stands(call[c])
  /\ Holdings
  /\ Queueing
  /\ Transactions
  /\ NoForeignContext

\* What Front returns.
LEMMA FrontProperties ==
  ASSUME NEW S, NEW s \in Seq(S), s # <<>>
  PROVE  /\ Front(s) \in Seq(S) /\ Len(Front(s)) = Len(s) - 1
         /\ \A i \in 1..Len(s) - 1 : Front(s)[i] = s[i]
<1>1. Len(s) \in Nat \ {0} /\ \A i \in 1..Len(s) - 1 : s[i] \in S
  BY EmptySeq, ElementOfSeq
<1>. DEFINE n == Len(s) - 1
<1>2. n \in Nat /\ \A i \in 1..n : s[i] \in S
  BY <1>1
<1>. HIDE DEF n
<1>3. /\ SubSeq(s, 1, n) \in Seq(S) /\ Len(SubSeq(s, 1, n)) = n
      /\ \A i \in 1..n : SubSeq(s, 1, n)[i] = s[i]
  <2>1. /\ SubSeq(s, 1, n) \in Seq(S)
        /\ Len(SubSeq(s, 1, n)) = IF 1 <= n THEN n - 1 + 1 ELSE 0
        /\ \A i \in 1 .. n - 1 + 1 : SubSeq(s, 1, n)[i] = s[1 + i - 1]
    BY <1>2, SubSeqProperties
  <2>. QED  BY <1>2, <2>1
<1>. QED  BY <1>3 DEF n, Front

\* The programs one by one.
LEMMA ProgramsOf ==
  /\ Kinds = {"raw", "scoped", "user", "create", "nested", "tx", "middleware", "limited", "health"}
  /\ Programs["raw"] = <<"connect", "query", "release">>
  /\ Programs["scoped"] = <<"connect", "set", "query", "release">>
  /\ Programs["user"] = <<"connect", "set", "setUser", "query", "release">>
  /\ Programs["create"] = <<"connect", "set", "insert", "insertOwner", "release">>
  /\ Programs["nested"] =
       <<"connect", "set", "connect", "set", "query", "release", "release">>
  /\ Programs["tx"] = <<"connect", "begin", "set", "query", "commit", "release">>
  /\ Programs["middleware"] = <<"connect", "set", "query", "finish">>
  /\ Programs["limited"] = <<"connect", "limit", "query", "release">>
  /\ Programs["health"] = <<"connect", "query", "release">>
<1>1. Kinds = {"raw", "scoped", "user", "create", "nested", "tx", "middleware", "limited",
               "health"}
  BY DEF Kinds, Programs
<1>2. UpdateNothing = <<"connect", "set", "connect", "set", "query", "release", "release">>
  <2>. DEFINE whole == <<"connect", "set", "connect", "set", "query", "release", "release">>
              first == <<"connect", "set">>
              last == <<"release">>
  <2>1. /\ first \in Seq(Steps) /\ Scoped \in Seq(Steps) /\ last \in Seq(Steps)
        /\ whole \in Seq(Steps)
        /\ Len(first) = 2 /\ Len(Scoped) = 4 /\ Len(last) = 1 /\ Len(whole) = 7
    BY DEF Scoped, Steps
  <2>2. /\ first[1] = "connect" /\ first[2] = "set" /\ last[1] = "release"
        /\ Scoped[1] = "connect" /\ Scoped[2] = "set" /\ Scoped[3] = "query"
        /\ Scoped[4] = "release"
    BY DEF Scoped
  <2>3. /\ whole[1] = "connect" /\ whole[2] = "set" /\ whole[3] = "connect"
        /\ whole[4] = "set" /\ whole[5] = "query" /\ whole[6] = "release"
        /\ whole[7] = "release"
    OBVIOUS
  <2>4. UpdateNothing = (first \o Scoped) \o last
    BY DEF UpdateNothing
  <2>. HIDE DEF whole, first, last
  <2>. DEFINE six == first \o Scoped
  <2>5. /\ six \in Seq(Steps) /\ Len(six) = 6
        /\ \A i \in 1..6 : six[i] = IF i <= 2 THEN first[i] ELSE Scoped[i - 2]
    <3>1. /\ first \o Scoped \in Seq(Steps) /\ Len(first \o Scoped) = Len(first) + Len(Scoped)
          /\ \A i \in 1 .. Len(first) + Len(Scoped) : (first \o Scoped)[i] =
               IF i <= Len(first) THEN first[i] ELSE Scoped[i - Len(first)]
      BY <2>1, ConcatProperties
    <3>. QED  BY <2>1, <3>1
  <2>6. six[1] = "connect" /\ six[2] = "set" /\ six[3] = "connect" /\ six[4] = "set"
    BY <2>2, <2>5
  <2>7. six[5] = "query" /\ six[6] = "release"
    BY <2>2, <2>5
  <2>. HIDE DEF six
  <2>8. /\ six \o last \in Seq(Steps) /\ Len(six \o last) = 7
        /\ \A i \in 1..7 : (six \o last)[i] = IF i <= 6 THEN six[i] ELSE last[i - 6]
    <3>1. /\ six \o last \in Seq(Steps) /\ Len(six \o last) = Len(six) + Len(last)
          /\ \A i \in 1 .. Len(six) + Len(last) : (six \o last)[i] =
               IF i <= Len(six) THEN six[i] ELSE last[i - Len(six)]
      BY <2>1, <2>5, ConcatProperties
    <3>. QED  BY <2>1, <2>5, <3>1
  <2>9. \A i \in 1..7 : (six \o last)[i] = whole[i]
    <3>1. \A i \in 1..6 : six[i] = whole[i]
      BY <2>3, <2>6, <2>7
    <3>2. \A i \in 1..6 : i \in 1..7 /\ i <= 6
      OBVIOUS
    <3>3. 7 \in 1..7 /\ ~(7 <= 6) /\ 7 - 6 = 1 /\ \A i \in 1..7 : i \in 1..6 \/ i = 7
      OBVIOUS
    <3>. DEFINE seven == six \o last
    <3>4. \A i \in 1..7 : seven[i] = IF i <= 6 THEN six[i] ELSE last[i - 6]
      BY <2>8
    <3>. HIDE DEF seven
    <3>5. \A i \in 1..6 : seven[i] = whole[i]
      BY <3>1, <3>2, <3>4
    <3>6. seven[7] = whole[7]
      BY <2>2, <2>3, <3>3, <3>4
    <3>7. \A i \in 1..7 : seven[i] = whole[i]
      BY <3>3, <3>5, <3>6
    <3>. QED  BY <3>7 DEF seven
  <2>10. six \o last = whole
    BY <2>1, <2>8, <2>9, SeqEqual
  <2>. QED  BY <2>4, <2>10 DEF six, whole
<1>. QED  BY <1>1, <1>2 DEF Programs, Raw, Scoped, ScopedToUser, Create, Transaction, Middleware,
             Limited, HealthCheck

\* A program begins with its first connect(); what comes after it is for one
\* connection.
LEMMA ProgramRests ==
  ASSUME NEW kind \in Kinds
  PROVE  /\ Programs[kind] \in Seq(Steps) /\ Programs[kind] # <<>>
         /\ Head(Programs[kind]) = "connect" /\ Tail(Programs[kind]) # <<>>
         /\ Rests(kind, Tail(Programs[kind]), 1)
<1>1. /\ Programs[kind] \in Seq(Steps) /\ Programs[kind] # <<>>
      /\ Head(Programs[kind]) = "connect" /\ Tail(Programs[kind]) # <<>>
  <2>. DEFINE Begins(s) == s \in Seq(Steps) /\ s # <<>> /\ Head(s) = "connect" /\ Tail(s) # <<>>
  <2>1. /\ Begins(Raw) /\ Begins(Scoped) /\ Begins(ScopedToUser) /\ Begins(Create)
        /\ Begins(Transaction) /\ Begins(Middleware) /\ Begins(Limited)
        /\ Begins(HealthCheck)
    BY DEF Raw, Scoped, ScopedToUser, Create, Transaction, Middleware, Limited, HealthCheck,
           Steps
  <2>2. Begins(<<"connect", "set", "connect", "set", "query", "release", "release">>)
    BY DEF Steps
  <2>3. Begins(UpdateNothing)
    BY <2>2, ProgramsOf DEF Programs
  <2>. HIDE DEF Begins
  <2>4. Begins(Programs[kind])
    BY <2>1, <2>3 DEF Kinds, Programs
  <2>. QED  BY <2>4 DEF Begins
<1>2. CASE kind = "nested"
  <2>1. Tail(Programs[kind]) = <<"set", "connect", "set", "query", "release", "release">>
    BY <1>2, ProgramsOf
  <2>2. Tail(Programs[kind]) \in NestedRests
    BY <2>1 DEF NestedRests
  <2>. QED  BY <1>1, <1>2, <2>2 DEF Rests
<1>3. CASE kind = "middleware"
  <2>1. Tail(Programs[kind]) = <<"set", "query", "finish">>
    BY <1>3, ProgramsOf
  <2>2. Tail(Programs[kind]) \in MiddlewareRests
    BY <2>1 DEF MiddlewareRests
  <2>. QED  BY <1>1, <1>3, <2>2 DEF Rests
<1>4. CASE kind \notin {"nested", "middleware"}
  <2>. DEFINE rest == Tail(Programs[kind])
  <2>1. Closing(rest, 1)
    <3>1. CASE kind \in {"raw", "health"}
      <4>1. rest = <<"query", "release">>
        <5>1. Programs[kind] = <<"connect", "query", "release">>
          BY <3>1, ProgramsOf
        <5>. QED  BY <5>1
      <4>2. Closing(<<"query", "release">>, 1)
        BY DEF Closing, Statements
      <4>. QED  BY <4>1, <4>2
    <3>2. CASE kind = "scoped"
      <4>1. rest = <<"set", "query", "release">>
        BY <3>2, ProgramsOf
      <4>2. Closing(<<"set", "query", "release">>, 1)
        BY DEF Closing, Statements
      <4>. QED  BY <4>1, <4>2
    <3>3. CASE kind = "user"
      <4>1. rest = <<"set", "setUser", "query", "release">>
        BY <3>3, ProgramsOf
      <4>2. Closing(<<"set", "setUser", "query", "release">>, 1)
        BY DEF Closing, Statements
      <4>. QED  BY <4>1, <4>2
    <3>4. CASE kind = "create"
      <4>1. rest = <<"set", "insert", "insertOwner", "release">>
        BY <3>4, ProgramsOf
      <4>2. Closing(<<"set", "insert", "insertOwner", "release">>, 1)
        BY DEF Closing, Statements
      <4>. QED  BY <4>1, <4>2
    <3>5. CASE kind = "tx"
      <4>1. rest = <<"begin", "set", "query", "commit", "release">>
        BY <3>5, ProgramsOf
      <4>2. Closing(<<"begin", "set", "query", "commit", "release">>, 1)
        BY DEF Closing, Statements
      <4>. QED  BY <4>1, <4>2
    <3>6. CASE kind = "limited"
      <4>1. rest = <<"limit", "query", "release">>
        BY <3>6, ProgramsOf
      <4>2. Closing(<<"limit", "query", "release">>, 1)
        BY DEF Closing, Statements
      <4>. QED  BY <4>1, <4>2
    <3>. QED  BY <1>4, <3>1, <3>2, <3>3, <3>4, <3>5, <3>6, ProgramsOf
  <2>2. (\E i \in 1..Len(rest) : rest[i] = "begin") => kind = "tx" /\ rest = Tail(Transaction)
    <3>. DEFINE Plain(s) == \A i \in 1..Len(s) : s[i] # "begin"
    <3>1. /\ Plain(Tail(Raw)) /\ Plain(Tail(Scoped)) /\ Plain(Tail(ScopedToUser))
          /\ Plain(Tail(Create)) /\ Plain(Tail(Limited)) /\ Plain(Tail(HealthCheck))
      BY DEF Raw, Scoped, ScopedToUser, Create, Limited, HealthCheck
    <3>. HIDE DEF Plain
    <3>2. kind # "tx" => Plain(Tail(Programs[kind]))
      BY <1>4, <3>1 DEF Kinds, Programs
    <3>3. kind = "tx" => Programs[kind] = Transaction
      BY DEF Programs
    <3>. QED  BY <3>2, <3>3 DEF Plain
  <2>. QED  BY <1>1, <1>4, <2>1, <2>2 DEF Rests
<1>. QED  BY <1>1, <1>2, <1>3, <1>4

\* What is next of a closing sequence.
LEMMA ClosingNext ==
  ASSUME NEW todo \in Seq(Steps), NEW h \in 1..2, Closing(todo, h)
  PROVE  /\ todo # <<>> /\ Head(todo) = todo[1] /\ Tail(todo) \in Seq(Steps)
         /\ Head(todo) \in Statements \cup {"rollback", "release"}
         /\ Head(todo) = "release" => Len(todo) = h /\ Closing(Tail(todo), h - 1)
         /\ Head(todo) # "release" => Tail(todo) # <<>> /\ Closing(Tail(todo), h)
         /\ Len(Tail(todo)) = Len(todo) - 1
         /\ \A i \in 1..Len(Tail(todo)) : Tail(todo)[i] = todo[i + 1]
<1>1. /\ todo # <<>> /\ Len(todo) \in Nat /\ Len(todo) >= h /\ Head(todo) = todo[1]
  BY DEF Closing
<1>2. /\ Tail(todo) \in Seq(Steps) /\ Len(Tail(todo)) = Len(todo) - 1
      /\ \A i \in 1..Len(Tail(todo)) : Tail(todo)[i] = todo[i + 1]
  BY <1>1, HeadTailProperties
<1>3. /\ todo[1] \in Statements \cup {"rollback", "release"}
      /\ todo[1] = "release" <=> Len(todo) = h
  BY <1>1 DEF Closing, Statements
<1>. DEFINE rest == Tail(todo)
<1>7. \A i \in 1..Len(rest) : i + 1 \in 1..Len(todo) /\ rest[i] = todo[i + 1]
  BY <1>1, <1>2
<1>8. Len(rest) = Len(todo) - 1
  BY <1>2
<1>. HIDE DEF rest
<1>9. todo[1] = "release" => Closing(rest, h - 1)
  BY <1>1, <1>3, <1>7, <1>8 DEF Closing
<1>10. todo[1] # "release" => Closing(rest, h)
  BY <1>1, <1>3, <1>7, <1>8 DEF Closing
<1>4. todo[1] = "release" => Closing(Tail(todo), h - 1)
  BY <1>9 DEF rest
<1>5. todo[1] # "release" => Closing(Tail(todo), h)
  BY <1>10 DEF rest
<1>6. todo[1] # "release" => Tail(todo) # <<>>
  <2>1. todo[1] # "release" => Len(rest) > 0
    BY <1>1, <1>3, <1>8
  <2>2. rest = <<>> => Len(rest) = 0
    OBVIOUS
  <2>3. todo[1] # "release" => rest # <<>>
    BY <2>1, <2>2
  <2>. QED  BY <2>3 DEF rest
<1>. QED  BY <1>1, <1>2, <1>3, <1>4, <1>5, <1>6

\* The fields of a call's record, and what a state of it may be.
LEMMA CallFields ==
  ASSUME PoolShape, NEW c \in Callers
  PROVE  /\ call[c] \in CallRecords /\ call[c].kind \in Kinds
         /\ call[c].todo \in Seq(Steps) /\ call[c].held \in Seq(Conns)
         /\ Len(call[c].held) \in Nat /\ call[c].tenant \in Tenants \cup {NoOne}
         /\ call[c].project \in {NoOne} \cup Projects /\ call[c].failed \in BOOLEAN
         /\ call[c].end \in {"off", "running", "ok", "failed"}
BY DEF PoolShape, CallRecords

\* A statement: the call that makes it holds a connection, and goes on.
LEMMA StandsAtStatement ==
  ASSUME NEW r \in CallRecords, Stands(r), r.todo # <<>>,
         Head(r.todo) \in (Statements \cup {"rollback"}),
         NEW q \in CallRecords, q.kind = r.kind, q.todo = Tail(r.todo), q.held = r.held,
         q.end = r.end
  PROVE  /\ r.end = "running" /\ Len(r.held) \in 1..2 /\ Stands(q)
         /\ r.kind = "tx" => Len(r.held) = 1
         /\ Head(r.todo) = "begin" => r.kind = "tx" /\ Ending(q.todo)
         /\ Ending(r.todo) /\ Head(r.todo) \notin {"commit", "rollback"} => Ending(q.todo)
<1>. DEFINE h == Len(r.held)
<1>1. /\ r.todo \in Seq(Steps) /\ r.kind \in Kinds /\ h \in Nat
      /\ Head(r.todo) # "connect"
      /\ r.end \in {"off", "running", "ok", "failed"}
  BY DEF CallRecords, Statements
<1>2. r.todo # Programs[r.kind] /\ r.todo # HealthCheck
  BY <1>1, ProgramRests DEF HealthCheck
<1>3. r.end = "running" /\ h \in 1..2 /\ Rests(r.kind, r.todo, h)
  BY <1>1, <1>2 DEF Stands, Rests
<1>. HIDE DEF h
<1>4. Rests(r.kind, Tail(r.todo), h) /\ Tail(r.todo) # <<>>
  <2>1. CASE r.kind = "nested" /\ h = 1 /\ r.todo \in NestedRests
    <3>1. r.todo = <<"set", "connect", "set", "query", "release", "release">>
      BY <1>1, <2>1 DEF NestedRests
    <3>2. Tail(r.todo) = <<"connect", "set", "query", "release", "release">>
      BY <3>1
    <3>. QED  BY <2>1, <3>2 DEF Rests, NestedRests
  <2>2. CASE r.kind = "middleware"
    <3>1. h = 1 /\ r.todo \in MiddlewareRests
      BY <1>2, <1>3, <2>2 DEF Rests
    <3>2. CASE r.todo = <<"set", "query", "finish">>
      <4>1. Tail(r.todo) = <<"query", "finish">>
        BY <3>2
      <4>. QED  BY <2>2, <3>1, <4>1 DEF Rests, MiddlewareRests
    <3>3. CASE r.todo = <<"query", "finish">>
      <4>1. Tail(r.todo) = <<"finish">>
        BY <3>3
      <4>. QED  BY <2>2, <3>1, <4>1 DEF Rests, MiddlewareRests
    <3>4. r.todo # <<"finish">>
      BY DEF Statements
    <3>. QED  BY <3>1, <3>2, <3>3, <3>4 DEF MiddlewareRests
  <2>3. CASE /\ r.kind # "middleware" /\ Closing(r.todo, h)
             /\ h = 1 \/ (h = 2 /\ r.kind = "nested")
             /\ (\E i \in 1..Len(r.todo) : r.todo[i] = "begin")
                  => r.kind = "tx" /\ r.todo = Tail(Transaction)
    <3>1. /\ Head(r.todo) # "release" /\ Tail(r.todo) # <<>> /\ Closing(Tail(r.todo), h)
          /\ Len(Tail(r.todo)) = Len(r.todo) - 1 /\ Len(r.todo) \in Nat
          /\ \A i \in 1..Len(Tail(r.todo)) : Tail(r.todo)[i] = r.todo[i + 1]
      BY <1>1, <1>3, <2>3, ClosingNext DEF Statements
    <3>2. \A i \in 1..Len(Tail(r.todo)) : Tail(r.todo)[i] # "begin"
      <4>. SUFFICES ASSUME NEW i \in 1..Len(Tail(r.todo)), Tail(r.todo)[i] = "begin"
                    PROVE  FALSE
        OBVIOUS
      <4>1. i + 1 \in 1..Len(r.todo) /\ r.todo[i + 1] = "begin"
        BY <3>1
      <4>2. r.todo = <<"begin", "set", "query", "commit", "release">>
        BY <2>3, <4>1 DEF Transaction
      <4>3. i \in 1..4 /\ Tail(r.todo) = <<"set", "query", "commit", "release">>
        BY <3>1, <4>2
      <4>4. \A j \in 1..4 : <<"set", "query", "commit", "release">>[j] # "begin"
        OBVIOUS
      <4>. QED  BY <4>3, <4>4
    <3>. QED  BY <2>3, <3>1, <3>2 DEF Rests
  <2>. QED  BY <1>2, <1>3, <2>1, <2>2, <2>3 DEF Rests
<1>5. r.kind = "tx" => h = 1
  BY <1>2, <1>3 DEF Rests
<1>6. Head(r.todo) = "begin" => r.kind = "tx" /\ Ending(Tail(r.todo))
  <2>. SUFFICES ASSUME Head(r.todo) = "begin" PROVE r.kind = "tx" /\ Ending(Tail(r.todo))
    OBVIOUS
  <2>1. r.todo \notin NestedRests /\ r.todo \notin MiddlewareRests
    BY <1>1 DEF NestedRests, MiddlewareRests
  <2>2. 1 \in 1..Len(r.todo) /\ r.todo[1] = "begin"
    BY <1>1, EmptySeq
  <2>3. r.kind = "tx" /\ r.todo = <<"begin", "set", "query", "commit", "release">>
    BY <1>2, <1>3, <2>1, <2>2 DEF Rests, Transaction
  <2>4. Tail(r.todo) = <<"set", "query", "commit", "release">>
    BY <2>3
  <2>5. Ending(<<"set", "query", "commit", "release">>)
    BY DEF Ending
  <2>. QED  BY <2>3, <2>4, <2>5
<1>7. Ending(r.todo) /\ Head(r.todo) \notin {"commit", "rollback"} => Ending(Tail(r.todo))
  <2>. SUFFICES ASSUME NEW i \in 1..Len(r.todo), r.todo[i] \in {"commit", "rollback"},
                       Head(r.todo) \notin {"commit", "rollback"}
                PROVE  Ending(Tail(r.todo))
    BY DEF Ending
  <2>1. /\ Len(Tail(r.todo)) = Len(r.todo) - 1 /\ Head(r.todo) = r.todo[1]
        /\ \A j \in 1..Len(Tail(r.todo)) : Tail(r.todo)[j] = r.todo[j + 1]
    BY <1>1, HeadTailProperties
  <2>. DEFINE rest == Tail(r.todo)
  <2>. HIDE DEF rest
  <2>2. i # 1 /\ Len(rest) = Len(r.todo) - 1
        /\ \A j \in 1..Len(rest) : rest[j] = r.todo[j + 1]
    BY <2>1 DEF rest
  <2>3. Len(r.todo) \in Nat
    BY <1>1
  <2>4. i - 1 \in 1..Len(rest) /\ rest[i - 1] = r.todo[i]
    BY <2>2, <2>3
  <2>5. Ending(rest)
    BY <2>4 DEF Ending
  <2>. QED  BY <2>5 DEF rest
<1>. QED  BY <1>1, <1>3, <1>4, <1>5, <1>6, <1>7 DEF Stands, h

\* The release of a connection ends the call when nothing is left.
LEMMA StandsAtRelease ==
  ASSUME NEW r \in CallRecords, Stands(r), r.todo # <<>>, Head(r.todo) = "release",
         NEW q \in CallRecords, q.kind = r.kind, q.todo = Tail(r.todo), q.held = Front(r.held),
         q.end = IF q.todo # <<>> THEN r.end ELSE IF r.failed THEN "failed" ELSE "ok"
  PROVE  /\ r.end = "running" /\ Len(r.held) \in 1..2 /\ Stands(q)
         /\ Len(r.todo) = Len(r.held)
         /\ \A i \in 1..Len(r.todo) : r.todo[i] = "release"
<1>. DEFINE h == Len(r.held)
<1>1. /\ r.todo \in Seq(Steps) /\ r.kind \in Kinds /\ h \in Nat /\ r.held \in Seq(Conns)
      /\ r.end \in {"off", "running", "ok", "failed"}
  BY DEF CallRecords
<1>2. r.todo # Programs[r.kind] /\ r.todo # HealthCheck
  BY <1>1, ProgramRests DEF HealthCheck
<1>3. r.todo \notin NestedRests /\ r.todo \notin MiddlewareRests
  BY DEF NestedRests, MiddlewareRests
<1>4. r.end = "running" /\ h \in 1..2 /\ Rests(r.kind, r.todo, h)
  BY <1>1, <1>2, <1>3 DEF Stands, Rests
<1>5. /\ r.kind # "middleware" /\ Closing(r.todo, h)
      /\ h = 1 \/ (h = 2 /\ r.kind = "nested")
  BY <1>2, <1>3, <1>4 DEF Rests
<1>. HIDE DEF h
<1>6. /\ Len(r.todo) = h /\ Closing(Tail(r.todo), h - 1) /\ Tail(r.todo) \in Seq(Steps)
      /\ Len(Tail(r.todo)) = h - 1
  <2>1. /\ Head(r.todo) = "release" => Len(r.todo) = h /\ Closing(Tail(r.todo), h - 1)
        /\ Tail(r.todo) \in Seq(Steps) /\ Len(Tail(r.todo)) = Len(r.todo) - 1
    BY <1>1, <1>4, <1>5, ClosingNext
  <2>. QED  BY <2>1
<1>7. \A i \in 1..Len(r.todo) : r.todo[i] = "release"
  BY <1>4, <1>5, <1>6 DEF Closing
<1>8. Len(q.held) = h - 1
  <2>1. r.held # <<>>
    <3>1. r.held = <<>> => h = 0
      BY DEF h
    <3>. QED  BY <1>4, <3>1
  <2>. QED  BY <1>1, <2>1, FrontProperties DEF h
<1>9. CASE h = 1
  <2>1. Tail(r.todo) = <<>> /\ q.held = <<>>
    BY <1>6, <1>8, <1>9, EmptySeq DEF CallRecords
  <2>. QED  BY <1>1, <1>4, <1>6, <1>7, <1>8, <1>9, <2>1 DEF Stands, Rests, h
<1>10. CASE h = 2
  <2>. DEFINE rest == Tail(r.todo)
  <2>1. Closing(rest, 1) /\ Len(rest) = 1
    BY <1>6, <1>10
  <2>. HIDE DEF rest
  <2>6. rest = <<>> => Len(rest) = 0
    OBVIOUS
  <2>7. 1 \in 1..Len(rest) /\ 1 > Len(rest) - 1
    BY <2>1
  <2>2. rest[1] = "release" /\ rest # <<>>
    BY <2>1, <2>6, <2>7 DEF Closing
  <2>3. \A i \in 1..Len(rest) : rest[i] # "begin"
    BY <2>1, <2>2
  <2>4. Rests(q.kind, rest, 1)
    BY <1>5, <2>1, <2>3 DEF Rests
  <2>5. Stands(q)
    BY <1>1, <1>4, <1>8, <1>10, <2>2, <2>4 DEF Stands, rest
  <2>. QED  BY <1>4, <1>6, <1>7, <2>5 DEF h
<1>. QED  BY <1>4, <1>9, <1>10

\* The response of the route behind the middleware ends, or is cut off.
LEMMA StandsAtFinish ==
  ASSUME NEW r \in CallRecords, Stands(r), r.todo # <<>>, Head(r.todo) = "finish",
         NEW q \in CallRecords, q.kind = r.kind, q.todo = Tail(r.todo), q.held \in {<<>>, r.held},
         q.end = IF q.todo # <<>> THEN r.end ELSE IF r.failed THEN "failed" ELSE "ok"
  PROVE  /\ r.end = "running" /\ Len(r.held) = 1 /\ Stands(q)
         /\ r.kind = "middleware" /\ q.todo = <<>>
<1>. DEFINE h == Len(r.held)
<1>1. /\ r.todo \in Seq(Steps) /\ r.kind \in Kinds /\ h \in Nat /\ r.held \in Seq(Conns)
      /\ r.end \in {"off", "running", "ok", "failed"}
  BY DEF CallRecords
<1>2. r.todo # Programs[r.kind] /\ r.todo # HealthCheck
  BY <1>1, ProgramRests DEF HealthCheck
<1>3. r.end = "running" /\ Rests(r.kind, r.todo, h)
  BY <1>1, <1>2 DEF Stands
<1>4. ASSUME h \in 1..2, Closing(r.todo, h) PROVE FALSE
  BY <1>1, <1>4, ClosingNext DEF Statements
<1>5. r.todo \notin NestedRests
  BY DEF NestedRests
<1>. HIDE DEF h
<1>6. h = 1 /\ r.kind = "middleware" /\ r.todo \in MiddlewareRests
  BY <1>2, <1>3, <1>4, <1>5 DEF Rests
<1>7. r.todo = <<"finish">>
  BY <1>6 DEF MiddlewareRests
<1>8. q.todo = <<>>
  BY <1>7
<1>9. Rests(q.kind, q.todo, Len(q.held))
  <2>1. CASE q.held = <<>>
    BY <1>8, <2>1 DEF Rests
  <2>2. CASE q.held = r.held
    BY <1>6, <1>8, <2>2 DEF Rests, MiddlewareRests, h
  <2>. QED  BY <2>1, <2>2
<1>. QED  BY <1>1, <1>3, <1>6, <1>8, <1>9 DEF Stands, h

\* A call gets a connection.
LEMMA StandsAtConnect ==
  ASSUME NEW r \in CallRecords, Stands(r), r.end = "running", Head(r.todo) = "connect",
         NEW k \in Conns, NEW q \in CallRecords, q.kind = r.kind, q.todo = Tail(r.todo),
         q.held = Append(r.held, k), q.end = r.end
  PROVE  Stands(q)
<1>. DEFINE h == Len(r.held)
<1>1. /\ r.todo \in Seq(Steps) /\ r.kind \in Kinds /\ h \in Nat /\ r.held \in Seq(Conns)
      /\ r.todo # <<>>
  BY DEF CallRecords, Stands
<1>2. Len(q.held) = h + 1
  BY <1>1
<1>3. ASSUME h \in 1..2, Closing(r.todo, h) PROVE FALSE
  BY <1>1, <1>3, ClosingNext DEF Statements
<1>4. r.todo \notin MiddlewareRests
  BY <1>1 DEF MiddlewareRests
<1>. HIDE DEF h
<1>5. \/ h = 0 /\ r.todo = Programs[r.kind]
      \/ h = 1 /\ r.kind = "nested" /\ r.todo \in NestedRests
  BY <1>1, <1>3, <1>4 DEF Stands, Rests, h
<1>6. CASE h = 0 /\ r.todo = Programs[r.kind]
  <2>1. Rests(q.kind, q.todo, 1) /\ q.todo # <<>>
    BY <1>1, <1>6, ProgramRests
  <2>. QED  BY <1>2, <1>6, <2>1 DEF Stands
<1>7. CASE h = 1 /\ r.kind = "nested" /\ r.todo \in NestedRests
  <2>1. r.todo = <<"connect", "set", "query", "release", "release">>
    BY <1>7 DEF NestedRests
  <2>. DEFINE rest == <<"set", "query", "release", "release">>
  <2>2. q.todo = rest
    BY <2>1
  <2>3. Closing(rest, 2) /\ rest # <<>> /\ \A i \in 1..Len(rest) : rest[i] # "begin"
    BY DEF Closing, Statements
  <2>. HIDE DEF rest
  <2>4. Rests(q.kind, q.todo, 2) /\ q.todo # <<>>
    BY <1>7, <2>2, <2>3 DEF Rests
  <2>. QED  BY <1>2, <1>7, <2>4 DEF Stands
<1>. QED  BY <1>5, <1>6, <1>7

\* The releases that the finally blocks run.
Releases(h) == [i \in 1..h |-> "release"]

\* Releases alone, or after the end of a transaction, close a call.
LEMMA ReleasesClose ==
  /\ Releases(0) = <<>>
  /\ \A h \in 1..2 : /\ Releases(h) \in Seq(Steps) /\ Closing(Releases(h), h) /\ Releases(h) # <<>>
                     /\ \A i \in 1..Len(Releases(h)) : Releases(h)[i] # "begin"
  /\ LET undo == <<"rollback">> \o Releases(1) IN
     /\ undo \in Seq(Steps) /\ Closing(undo, 1) /\ undo # <<>> /\ Ending(undo)
     /\ \A i \in 1..Len(undo) : undo[i] # "begin"
<1>1. Releases(0) = <<>>
  BY DEF Releases
<1>2. Releases(1) = <<"release">> /\ Releases(2) = <<"release", "release">>
  BY DEF Releases
<1>. DEFINE one == <<"release">>  two == <<"release", "release">>
<1>3. /\ one \in Seq(Steps) /\ Closing(one, 1) /\ one # <<>>
      /\ \A i \in 1..Len(one) : one[i] # "begin"
  BY DEF Closing, Steps
<1>4. /\ two \in Seq(Steps) /\ Closing(two, 2) /\ two # <<>>
      /\ \A i \in 1..Len(two) : two[i] # "begin"
  BY DEF Closing, Steps
<1>. DEFINE undo == <<"rollback", "release">>
<1>5. <<"rollback">> \o one = undo
  <2>. DEFINE back == <<"rollback">>
  <2>1. /\ back \in Seq(Steps) /\ one \in Seq(Steps) /\ undo \in Seq(Steps)
        /\ Len(back) = 1 /\ Len(one) = 1 /\ Len(undo) = 2 /\ back[1] = "rollback"
        /\ one[1] = "release" /\ undo[1] = "rollback" /\ undo[2] = "release"
    BY DEF Steps
  <2>. HIDE DEF back, one, undo
  <2>2. /\ back \o one \in Seq(Steps) /\ Len(back \o one) = Len(back) + Len(one)
        /\ \A i \in 1 .. Len(back) + Len(one) :
             (back \o one)[i] = IF i <= Len(back) THEN back[i] ELSE one[i - Len(back)]
    BY <2>1, ConcatProperties
  <2>3. \A i \in 1..2 : (back \o one)[i] = undo[i]
    BY <2>1, <2>2
  <2>4. back \o one = undo
    BY <2>1, <2>2, <2>3, SeqEqual
  <2>. QED  BY <2>4 DEF back
<1>6. /\ undo \in Seq(Steps) /\ Closing(undo, 1) /\ undo # <<>> /\ Ending(undo)
      /\ \A i \in 1..Len(undo) : undo[i] # "begin"
  BY DEF Closing, Steps, Ending
<1>. HIDE DEF one, two, undo
<1>7. <<"rollback">> \o Releases(1) = undo
  BY <1>2, <1>5 DEF one
<1>8. \A h \in 1..2 : h = 1 \/ h = 2
  OBVIOUS
<1>. QED  BY <1>1, <1>2, <1>3, <1>4, <1>6, <1>7, <1>8 DEF one, two

\* The cleanup of a call that fails leaves a release for each connection, after
\* the end of the transaction; the middleware may leave its connection.
LEMMA StandsFailing ==
  ASSUME PoolShape, NEW c \in Callers, Stands(call[c]), call[c].todo # <<>>,
         \/ call[c].end = "running" /\ Head(call[c].todo) \in Statements \cup {"connect"}
         \/ GaveUp(c)
  PROVE  \E q \in CallRecords :
           /\ Failing(c) = [call EXCEPT ![c] = q] /\ Stands(q)
           /\ q.held = call[c].held /\ q.kind = call[c].kind /\ q.tenant = call[c].tenant
           /\ call[c].kind = "tx" /\ call[c].held # <<>> => Ending(q.todo)
<1>. DEFINE r == call[c]
            h == Len(call[c].held)
            todo == Cleanup(c)
            q == [r EXCEPT !.end = IF todo = <<>> THEN "failed" ELSE "running",
                           !.todo = todo, !.failed = TRUE]
<1>1. /\ r \in CallRecords /\ r.todo \in Seq(Steps) /\ r.kind \in Kinds /\ h \in Nat
      /\ r.held \in Seq(Conns) /\ (h = 0 <=> r.held = <<>>)
      /\ r.end \in {"off", "running", "ok", "failed"}
  BY CallFields
<1>2. /\ Rests(r.kind, r.todo, h)
      /\ GaveUp(c) => r.kind = "health" /\ h = 0
  BY <1>1 DEF Stands, GaveUp
<1>3. Failing(c) = [call EXCEPT ![c] = q]
  BY DEF Failing
<1>4. Cleanup(c) = CASE r.kind = "middleware" -> IF At(c, "query") THEN <<"finish">> ELSE <<>>
                     [] r.kind = "tx" /\ r.held # <<>> -> <<"rollback">> \o Releases(h)
                     [] OTHER -> Releases(h)
  BY DEF Cleanup, Releases
<1>. HIDE DEF h, r
<1>5. /\ todo \in Seq(Steps) /\ Rests(r.kind, todo, h)
      /\ todo = <<>> => h = 0 \/ r.kind = "middleware"
      /\ r.kind = "tx" /\ r.held # <<>> => Ending(todo)
  <2>1. h = 0 \/ (h = 1 /\ r.kind = "middleware") \/ (r.kind # "middleware" /\ h \in 1..2)
    BY <1>1, <1>2 DEF Rests
  <2>2. CASE r.kind = "middleware"
    <3>1. h = 0 \/ h = 1
      BY <2>1, <2>2
    <3>2. At(c, "query") => h = 1
      <4>1. At(c, "query") => r.todo # <<>> /\ Head(r.todo) # "connect"
        BY DEF At, r
      <4>. QED  BY <1>1, <1>2, <3>1, <4>1, ProgramRests DEF Rests
    <3>3. todo = <<>> \/ (h = 1 /\ todo = <<"finish">>)
      BY <1>4, <2>2, <3>2
    <3>4. todo \in Seq(Steps)
      <4>1. <<"finish">> \in Seq(Steps) /\ <<>> \in Seq(Steps)
        BY DEF Steps
      <4>. QED  BY <3>3, <4>1
    <3>5. Rests(r.kind, todo, h)
      <4>1. <<"finish">> \in MiddlewareRests /\ <<>> \in MiddlewareRests
        BY DEF MiddlewareRests
      <4>. QED  BY <2>2, <3>1, <3>3, <4>1 DEF Rests
    <3>. QED  BY <2>2, <3>4, <3>5
  <2>3. CASE r.kind # "middleware" /\ h = 0
    <3>1. todo = <<>>
      BY <1>1, <1>4, <2>3, ReleasesClose
    <3>. QED  BY <1>1, <2>3, <3>1 DEF Rests
  <2>4. CASE r.kind = "tx" /\ h \in 1..2
    <3>1. h = 1
      BY <1>1, <1>2, <2>4, ProgramsOf DEF Rests
    <3>2. todo = <<"rollback">> \o Releases(1)
      BY <1>1, <1>4, <2>4, <3>1
    <3>. QED  BY <2>4, <3>1, <3>2, ReleasesClose DEF Rests
  <2>5. CASE r.kind \notin {"middleware", "tx"} /\ h \in 1..2
    <3>1. todo = Releases(h)
      BY <1>4, <2>5
    <3>2. h = 1 \/ (h = 2 /\ r.kind = "nested")
      BY <1>2, <2>5 DEF Rests
    <3>. QED  BY <2>5, <3>1, <3>2, ReleasesClose DEF Rests
  <2>. QED  BY <2>1, <2>2, <2>3, <2>4, <2>5
<1>. HIDE DEF todo
<1>6. /\ q \in CallRecords /\ q.todo = todo /\ q.held = r.held /\ q.kind = r.kind
      /\ q.tenant = r.tenant /\ q.end = IF todo = <<>> THEN "failed" ELSE "running"
  BY <1>1, <1>5 DEF CallRecords
<1>. HIDE DEF q
<1>7. Stands(q)
  <2>1. Len(q.held) = h
    BY <1>6 DEF h, r
  <2>2. h = 0 => q.held = <<>>
    BY <1>1, <1>6
  <2>. QED  BY <1>5, <1>6, <2>1, <2>2 DEF Stands
<1>. QED  BY <1>3, <1>5, <1>6, <1>7 DEF r

\* A place of a queue without repetition is cut out.
LEMMA RemoveAtProperties ==
  ASSUME NEW S, NEW s \in Seq(S), NEW i \in 1..Len(s), IsInjective(s)
  PROVE  /\ RemoveAt(s, i) \in Seq(S) /\ Len(RemoveAt(s, i)) = Len(s) - 1
         /\ \A j \in 1..(Len(s) - 1) :
              RemoveAt(s, i)[j] = IF j < i THEN s[j] ELSE s[j + 1]
         /\ IsInjective(RemoveAt(s, i))
         /\ Range(RemoveAt(s, i)) = Range(s) \ {s[i]}
<1>. DEFINE a == SubSeq(s, 1, i - 1)  b == SubSeq(s, i + 1, Len(s))  t == RemoveAt(s, i)
            n == Len(s)
<1>1. n \in Nat /\ DOMAIN s = 1..n /\ \A j \in 1..n : s[j] \in S
  BY ElementOfSeq
<1>2. i - 1 \in Int /\ i + 1 \in Int /\ i \in 1..n
  BY <1>1
<1>3. /\ a \in Seq(S) /\ Len(a) = i - 1 /\ \A j \in 1..i - 1 : a[j] = s[j]
  <2>1. \A j \in 1..(i - 1) : s[j] \in S
    BY <1>1, <1>2
  <2>2. /\ a \in Seq(S) /\ Len(a) = IF 1 <= i - 1 THEN (i - 1) - 1 + 1 ELSE 0
        /\ \A j \in 1 .. (i - 1) - 1 + 1 : a[j] = s[1 + j - 1]
    BY <1>2, <2>1, SubSeqProperties
  <2>. QED  BY <1>2, <2>2
<1>4. /\ b \in Seq(S) /\ Len(b) = n - i /\ \A j \in 1..n - i : b[j] = s[i + j]
  <2>1. \A j \in (i + 1)..n : s[j] \in S
    BY <1>1, <1>2
  <2>2. /\ b \in Seq(S) /\ Len(b) = IF i + 1 <= n THEN n - (i + 1) + 1 ELSE 0
        /\ \A j \in 1 .. n - (i + 1) + 1 : b[j] = s[(i + 1) + j - 1]
    BY <1>1, <1>2, <2>1, SubSeqProperties
  <2>3. \A j \in 1..n - i : (i + 1) + j - 1 = i + j
    BY <1>1, <1>2
  <2>. HIDE DEF b, n
  <2>7. n \in Int /\ i \in Int /\ i <= n
    BY <1>1, <1>2
  <2>4. n - (i + 1) + 1 = n - i /\ (i + 1 <= n \/ n - i = 0)
    BY <2>7
  <2>5. b \in Seq(S) /\ \A j \in 1..n - i : b[j] = s[i + j]
    BY <2>2, <2>3, <2>4
  <2>6. Len(b) = n - i
    BY <1>1, <1>2, <2>2
  <2>. QED  BY <2>5, <2>6
<1>5. t = a \o b
  BY DEF RemoveAt
<1>. HIDE DEF a, b, t, n
<1>6. /\ t \in Seq(S) /\ Len(t) = n - 1 /\ DOMAIN t = 1..n - 1
      /\ \A j \in 1..n - 1 : t[j] = IF j < i THEN s[j] ELSE s[j + 1]
  <2>1. /\ t \in Seq(S) /\ Len(t) = Len(a) + Len(b)
        /\ \A j \in 1..Len(a) + Len(b) : t[j] = IF j <= Len(a) THEN a[j] ELSE b[j - Len(a)]
    BY <1>3, <1>4, <1>5, ConcatProperties
  <2>2. Len(t) = n - 1 /\ DOMAIN t = 1..n - 1
    BY <1>1, <1>2, <1>3, <1>4, <2>1, LenProperties
  <2>3. ASSUME NEW j \in 1..n - 1 PROVE t[j] = IF j < i THEN s[j] ELSE s[j + 1]
    <3>1. CASE j < i
      BY <1>1, <1>2, <1>3, <1>4, <2>1, <3>1
    <3>2. CASE ~(j < i)
      <4>1. j - (i - 1) \in 1..n - i /\ i + (j - (i - 1)) = j + 1
        BY <1>1, <1>2, <3>2
      <4>2. t[j] = b[j - (i - 1)]
        BY <1>1, <1>2, <1>3, <1>4, <2>1, <3>2
      <4>. QED  BY <1>4, <3>2, <4>1, <4>2
    <3>. QED  BY <3>1, <3>2
  <2>. QED  BY <2>1, <2>2, <2>3
<1>. DEFINE old(j) == IF j < i THEN j ELSE j + 1
<1>7. \A j \in 1..n - 1 : old(j) \in 1..n /\ old(j) # i /\ t[j] = s[old(j)]
  BY <1>1, <1>2, <1>6
<1>8. \A j, m \in 1..n - 1 : old(j) = old(m) => j = m
  BY <1>1, <1>2
<1>9. \A m \in 1..n : m # i => \E j \in 1..n - 1 : old(j) = m
  <2>. SUFFICES ASSUME NEW m \in 1..n, m # i PROVE \E j \in 1..n - 1 : old(j) = m
    OBVIOUS
  <2>1. CASE m < i
    <3>1. m \in 1..n - 1 /\ old(m) = m
      BY <1>1, <1>2, <2>1
    <3>. QED  BY <3>1
  <2>2. CASE m > i
    <3>1. m - 1 \in 1..n - 1 /\ old(m - 1) = m
      BY <1>1, <1>2, <2>2
    <3>. QED  BY <3>1
  <2>. QED  BY <1>1, <1>2, <2>1, <2>2
<1>. HIDE DEF old
<1>10. \A j, m \in 1..n : s[j] = s[m] => j = m
  BY <1>1 DEF IsInjective
<1>11. IsInjective(t)
  BY <1>6, <1>7, <1>8, <1>10 DEF IsInjective
<1>12. Range(t) = Range(s) \ {s[i]}
  <2>1. Range(t) \subseteq Range(s) \ {s[i]}
    BY <1>1, <1>2, <1>6, <1>7, <1>10 DEF Range
  <2>2. Range(s) \ {s[i]} \subseteq Range(t)
    <3>. SUFFICES ASSUME NEW m \in 1..n, m # i PROVE s[m] \in Range(t)
      BY <1>1, <1>2 DEF Range
    <3>1. PICK j \in 1..n - 1 : old(j) = m
      BY <1>9
    <3>. QED  BY <1>6, <1>7, <3>1 DEF Range
  <2>. QED  BY <2>1, <2>2
<1>. QED  BY <1>6, <1>11, <1>12 DEF t, n

\* An element is put behind a queue that does not hold it.
LEMMA AppendOnce ==
  ASSUME NEW S, NEW s \in Seq(S), NEW e \in S, IsInjective(s), e \notin Range(s)
  PROVE  /\ Append(s, e) \in Seq(S) /\ IsInjective(Append(s, e))
         /\ Range(Append(s, e)) = Range(s) \cup {e}
<1>. DEFINE n == Len(s)  t == Append(s, e)
<1>1. /\ n \in Nat /\ DOMAIN s = 1..n /\ t \in Seq(S) /\ Len(t) = n + 1 /\ DOMAIN t = 1..n + 1
      /\ \A j \in 1..n : t[j] = s[j] /\ s[j] # e
      /\ t[n + 1] = e
  BY DEF Range
<1>. HIDE DEF n, t
<1>2. \A j \in 1..n + 1 : j \in 1..n \/ j = n + 1
  BY <1>1
<1>3. IsInjective(t)
  BY <1>1, <1>2 DEF IsInjective
<1>4. Range(t) = Range(s) \cup {e}
  BY <1>1, <1>2 DEF Range
<1>. QED  BY <1>1, <1>3, <1>4 DEF t

\* The first element of a queue without repetition goes.
LEMMA TailOnce ==
  ASSUME NEW S, NEW s \in Seq(S), s # <<>>, IsInjective(s)
  PROVE  /\ Tail(s) \in Seq(S) /\ IsInjective(Tail(s)) /\ Head(s) \in S
         /\ Range(Tail(s)) = Range(s) \ {Head(s)} /\ Head(s) \in Range(s)
<1>. DEFINE n == Len(s)  t == Tail(s)
<1>1. /\ n \in Nat \ {0} /\ DOMAIN s = 1..n /\ t \in Seq(S) /\ Len(t) = n - 1
      /\ DOMAIN t = 1..n - 1 /\ Head(s) = s[1] /\ s[1] \in S
      /\ \A j \in 1..n - 1 : t[j] = s[j + 1]
  <2>1. /\ t \in Seq(S) /\ Len(t) = n - 1 /\ \A j \in 1..Len(t) : t[j] = s[j + 1]
    BY HeadTailProperties
  <2>2. n \in Nat \ {0} /\ DOMAIN s = 1..n /\ Head(s) = s[1] /\ Head(s) \in S
    BY EmptySeq, HeadTailProperties, LenProperties
  <2>. HIDE DEF t
  <2>. QED  BY <2>1, <2>2, LenProperties
<1>. HIDE DEF n, t
<1>2. \A j, m \in 1..n : s[j] = s[m] => j = m
  BY <1>1 DEF IsInjective
<1>3. IsInjective(t)
  <2>. SUFFICES ASSUME NEW j \in 1..n - 1, NEW m \in 1..n - 1, t[j] = t[m] PROVE j = m
    BY <1>1 DEF IsInjective
  <2>1. j + 1 \in 1..n /\ m + 1 \in 1..n /\ s[j + 1] = s[m + 1]
    BY <1>1
  <2>. QED  BY <1>2, <2>1
<1>4. Range(t) \subseteq Range(s) \ {s[1]}
  <2>. SUFFICES ASSUME NEW j \in 1..n - 1 PROVE t[j] \in Range(s) \ {s[1]}
    BY <1>1 DEF Range
  <2>1. j + 1 \in 1..n /\ j + 1 # 1 /\ 1 \in 1..n /\ t[j] = s[j + 1]
    BY <1>1
  <2>. QED  BY <1>1, <1>2, <2>1 DEF Range
<1>5. Range(s) \ {s[1]} \subseteq Range(t)
  <2>. SUFFICES ASSUME NEW j \in 1..n, j # 1 PROVE s[j] \in Range(t)
    BY <1>1 DEF Range
  <2>1. j - 1 \in 1..n - 1 /\ t[j - 1] = s[j]
    BY <1>1
  <2>. QED  BY <1>1, <2>1 DEF Range
<1>6. s[1] \in Range(s)
  BY <1>1 DEF Range
<1>. QED  BY <1>1, <1>3, <1>4, <1>5, <1>6 DEF t

\* At first nobody calls and all connections are free.
LEMMA PoolInit == Init => PoolInv
<1>. SUFFICES ASSUME Init PROVE PoolInv
  OBVIOUS
<1>1. NoCall \in CallRecords /\ FreeConn \in ConnRecords
  BY ProgramsOf DEF CallRecords, ConnRecords, NoCall, FreeConn, Works
<1>2. PoolShape
  BY <1>1, FaultsAssumption DEF PoolShape, Init
<1>3. /\ \A c \in Callers : call[c] = NoCall
      /\ \A k \in Conns : conn[k] = FreeConn
      /\ waiting = <<>>
  BY DEF Init
<1>4. Stands(NoCall)
  BY DEF Stands, Rests, NoCall
<1>5. Holdings
  <2>1. \A c \in Callers, k \in Conns : conn[k].holder # c
    BY <1>3, NoOneAssumption DEF FreeConn
  <2>2. \A c \in Callers : call[c].held = <<>>
    BY <1>3 DEF NoCall
  <2>. QED  BY <2>1, <2>2 DEF Holdings, IsInjective
<1>6. Queueing
  BY <1>3 DEF Queueing, IsInjective, Range
<1>7. Transactions /\ NoForeignContext
  BY <1>3 DEF Transactions, InTransaction, NoForeignContext, FreeConn
<1>. QED  BY <1>2, <1>3, <1>4, <1>5, <1>6, <1>7 DEF PoolInv

\* The connection that a call works with is its own; one in a transaction is the
\* only one its holder has.
LEMMA HeldIsOwn ==
  ASSUME PoolInv, NEW c \in Callers
  PROVE  /\ call[c].held # <<>> => Held(c) \in Conns /\ conn[Held(c)].holder = c
         /\ \A k \in Conns : conn[k].tx /\ conn[k].holder = c =>
              /\ call[c].kind = "tx" /\ call[c].held # <<>> /\ k = Held(c)
              /\ Ending(call[c].todo) /\ call[c].end = "running"
         /\ \A k \in Conns : conn[k].tx => conn[k].holder \in Callers
<1>1. /\ call[c] \in CallRecords /\ call[c].held \in Seq(Conns) /\ Len(call[c].held) \in Nat
      /\ Stands(call[c])
  BY CallFields DEF PoolInv
<1>2. ASSUME call[c].held # <<>> PROVE Held(c) \in Conns /\ conn[Held(c)].holder = c
  <2>1. /\ Len(call[c].held) \in DOMAIN call[c].held
        /\ Len(call[c].held) \in 1..Len(call[c].held)
    BY <1>1, <1>2, EmptySeq, LenProperties
  <2>. QED  BY <1>1, <2>1, ElementOfSeq DEF PoolInv, Holdings, Held, Last
<1>3. ASSUME NEW k \in Conns, conn[k].tx, conn[k].holder = c
      PROVE  /\ call[c].kind = "tx" /\ call[c].held # <<>> /\ k = Held(c)
             /\ Ending(call[c].todo) /\ call[c].end = "running"
  <2>1. call[c].kind = "tx" /\ Ending(call[c].todo)
    BY <1>3 DEF PoolInv, Transactions, InTransaction
  <2>2. call[c].todo # <<>>
    BY <2>1 DEF Ending
  <2>3. k \in Range(call[c].held)
    BY <1>3, <1>1, <2>1, <2>2 DEF PoolInv, Holdings, GaveUp, Stands
  <2>4. Len(call[c].held) # 0 /\ call[c].held # <<>>
    BY <1>1, <2>3, LenProperties DEF Range
  <2>5. Len(call[c].held) = 1
    BY <1>1, <2>1, <2>4 DEF Stands, Rests
  <2>6. k = call[c].held[1]
    BY <1>1, <2>3, <2>5, LenProperties DEF Range
  <2>7. call[c].end = "running"
    BY <1>1, <2>1, <2>2, CallFields DEF Stands, PoolInv
  <2>. QED  BY <2>1, <2>4, <2>5, <2>6, <2>7 DEF Held, Last
<1>. QED  BY <1>2, <1>3 DEF PoolInv, Transactions, InTransaction

\* A step of one call that keeps its connections, and leaves the queue or was
\* not in it.
LEMMA CallMoves ==
  ASSUME PoolInv, NEW c \in Callers, NEW q \in CallRecords, Stands(q),
         call' = [call EXCEPT ![c] = q], q.held = call[c].held,
         \A k \in Conns : conn'[k].holder = conn[k].holder,
         IsInjective(waiting'), Range(waiting') = Range(waiting) \ {c},
         ~GaveUp(c) \/ c \in Range(waiting)
  PROVE  (\A d \in Callers : Stands(call'[d])) /\ Holdings' /\ Queueing'
<1>1. /\ call'[c] = q
      /\ \A d \in Callers : d # c => call'[d] = call[d]
      /\ \A d \in Callers : call'[d].held = call[d].held
  BY DEF PoolInv, PoolShape
<1>2. \A d \in Callers : Stands(call'[d])
  BY <1>1 DEF PoolInv
<1>3. Holdings'
  <2>1. \A d \in Callers : IsInjective(call'[d].held)
    BY <1>1 DEF PoolInv, Holdings
  <2>2. \A d \in Callers : \A i \in DOMAIN call'[d].held : conn'[call'[d].held[i]].holder = d
    <3>. SUFFICES ASSUME NEW d \in Callers, NEW i \in DOMAIN call[d].held
                  PROVE  conn'[call[d].held[i]].holder = d
      BY <1>1
    <3>1. call[d].held[i] \in Conns
      BY CallFields, LenProperties, ElementOfSeq DEF PoolInv
    <3>. QED  BY <3>1 DEF PoolInv, Holdings
  <2>3. ASSUME NEW d \in Callers, NEW k \in Conns, conn'[k].holder = d
        PROVE  k \in Range(call'[d].held) \/ (GaveUp(d)' /\ d \notin Range(waiting'))
    <3>1. k \in Range(call[d].held) \/ (GaveUp(d) /\ d \notin Range(waiting))
      BY <2>3 DEF PoolInv, Holdings
    <3>2. CASE k \in Range(call[d].held)
      BY <1>1, <3>2
    <3>3. CASE GaveUp(d) /\ d \notin Range(waiting)
      BY <1>1, <3>3 DEF GaveUp
    <3>. QED  BY <3>1, <3>2, <3>3
  <2>. QED  BY <2>1, <2>2, <2>3 DEF Holdings
<1>4. Queueing'
  <2>1. ASSUME NEW d \in Callers, d \in Range(waiting') PROVE At(d, "connect")' \/ GaveUp(d)'
    BY <1>1, <2>1 DEF PoolInv, Queueing, At, GaveUp
  <2>. QED  BY <2>1 DEF Queueing
<1>. QED  BY <1>2, <1>3, <1>4

\* The transaction and the context of the connections that the step of one call
\* leaves alone.
LEMMA ContextsKept ==
  ASSUME PoolInv, NEW c \in Callers, NEW q \in CallRecords,
         call' = [call EXCEPT ![c] = q], q.kind = call[c].kind, q.tenant = call[c].tenant,
         NEW k \in Conns, conn'[k] = conn[k],
         conn[k].tx /\ conn[k].holder = c => Ending(q.todo)
  PROVE  InTransaction(k)' /\ OwnContext(k)'
<1>1. call'[c] = q /\ \A d \in Callers : d # c => call'[d] = call[d]
  BY DEF PoolInv, PoolShape
<1>2. ASSUME conn'[k].tx
      PROVE  \E d \in Callers : /\ conn'[k].holder = d /\ call'[d].kind = "tx"
                                /\ Ending(call'[d].todo)
  <2>1. PICK d \in Callers : conn[k].holder = d /\ call[d].kind = "tx" /\ Ending(call[d].todo)
    BY <1>2 DEF PoolInv, Transactions, InTransaction
  <2>. QED  BY <1>1, <1>2, <2>1
<1>3. conn'[k].tenant # NoOne => /\ conn'[k].tx /\ conn'[k].holder \in Callers
                                 /\ call'[conn'[k].holder].tenant = conn'[k].tenant
  BY <1>1 DEF PoolInv, NoForeignContext
<1>. QED  BY <1>2, <1>3 DEF InTransaction, OwnContext

\* Statements that succeed.
LEMMA PoolStatements ==
  ASSUME PoolInv, NEW c \in Callers,
         \/ Begin(c) \/ EndTransaction(c) \/ SetContext(c) \/ SetUser(c) \/ Limit(c)
         \/ Query(c) \/ InsertOwner(c)
         \/ Insert(c) /\ call' = Done(c)
  PROVE  PoolInv'
<1>. DEFINE r == call[c]  q == [r EXCEPT !.todo = Tail(r.todo)]  own == Held(c)
<1>1. /\ r.end = "running" /\ r.todo # <<>> /\ Head(r.todo) \in Statements \cup {"rollback"}
      /\ UNCHANGED <<obeysRls, hasTimeout, waiting, faults>>
      /\ call' = Done(c)
  BY DEF Begin, EndTransaction, SetContext, SetUser, Limit, Query, Insert, InsertOwner, At,
         Statements
<1>2. r \in CallRecords /\ r.todo \in Seq(Steps) /\ Stands(r) /\ r.tenant \in Tenants \cup {NoOne}
  BY CallFields DEF PoolInv
<1>3. q \in CallRecords /\ call' = [call EXCEPT ![c] = q] /\ q.todo = Tail(r.todo)
  <2>1. Tail(r.todo) \in Seq(Steps)
    BY <1>1, <1>2, HeadTailProperties
  <2>. QED  BY <1>1, <1>2, <2>1 DEF CallRecords, Done
<1>4. /\ Len(r.held) \in 1..2 /\ Stands(q) /\ q.held = r.held /\ q.kind = r.kind
      /\ q.tenant = r.tenant
      /\ Head(r.todo) = "begin" => r.kind = "tx" /\ Ending(q.todo)
      /\ Ending(r.todo) /\ Head(r.todo) \notin {"commit", "rollback"} => Ending(q.todo)
  <2>1. /\ q.kind = r.kind /\ q.todo = Tail(r.todo) /\ q.held = r.held /\ q.end = r.end
        /\ q.tenant = r.tenant
    BY <1>2 DEF CallRecords
  <2>. HIDE DEF q, r
  <2>. QED  BY <1>1, <1>2, <1>3, <2>1, StandsAtStatement
<1>5. r.held # <<>>
  <2>1. r.held = <<>> => Len(r.held) = 0
    BY DEF r
  <2>. QED  BY <1>4, <2>1
<1>6. own \in Conns /\ conn[own].holder = c
  BY <1>5, HeldIsOwn
<1>. HIDE DEF q, own
<1>7. PICK k \in ConnRecords :
        /\ conn' = [conn EXCEPT ![own] = k] /\ k.holder = c
        /\ \/ k = conn[own] /\ Head(r.todo) \notin {"commit", "rollback"}
           \/ k.limited /\ k.tx = conn[own].tx /\ k.tenant = conn[own].tenant
              /\ Head(r.todo) \notin {"commit", "rollback"}
           \/ k.tx /\ k.tenant = conn[own].tenant /\ Head(r.todo) = "begin"
           \/ ~k.tx /\ k.tenant = NoOne
           \/ conn[own].tx /\ k.tx /\ k.tenant = r.tenant
              /\ Head(r.todo) \notin {"commit", "rollback"}
  <2>0. conn \in [Conns -> ConnRecords] /\ conn[own] \in ConnRecords
    BY <1>6 DEF PoolInv, PoolShape
  <2>. DEFINE At1(k) ==
        /\ conn' = [conn EXCEPT ![own] = k] /\ k.holder = c
        /\ \/ k = conn[own] /\ Head(r.todo) \notin {"commit", "rollback"}
           \/ k.limited /\ k.tx = conn[own].tx /\ k.tenant = conn[own].tenant
              /\ Head(r.todo) \notin {"commit", "rollback"}
           \/ k.tx /\ k.tenant = conn[own].tenant /\ Head(r.todo) = "begin"
           \/ ~k.tx /\ k.tenant = NoOne
           \/ conn[own].tx /\ k.tx /\ k.tenant = r.tenant
              /\ Head(r.todo) \notin {"commit", "rollback"}
  <2>1. CASE Begin(c)
    <3>. DEFINE k == [conn[own] EXCEPT !.tx = TRUE]
    <3>1. k \in ConnRecords /\ At1(k)
      BY <1>6, <2>0, <2>1 DEF Begin, At, ConnRecords, own
    <3>. QED  BY <3>1
  <2>2. CASE EndTransaction(c)
    <3>. DEFINE k == [conn[own] EXCEPT !.tx = FALSE, !.tenant = NoOne]
    <3>1. k \in ConnRecords /\ At1(k)
      BY <1>6, <2>0, <2>2 DEF EndTransaction, ConnRecords, own
    <3>. QED  BY <3>1
  <2>3. CASE SetContext(c)
    <3>. DEFINE t == IF conn[own].tx THEN r.tenant ELSE conn[own].tenant
                k == [conn[own] EXCEPT !.tenant = t]
    <3>1. t \in Tenants \cup {NoOne}
      BY <1>2, <2>0 DEF ConnRecords
    <3>2. conn' = [conn EXCEPT ![own] = k]
      BY <2>0, <2>3, <1>6 DEF SetContext, SetLocal, own
    <3>. HIDE DEF t
    <3>3. /\ k \in ConnRecords /\ k.holder = c /\ k.tx = conn[own].tx /\ k.tenant = t
          /\ k.limited = conn[own].limited
      BY <1>6, <2>0, <3>1 DEF ConnRecords
    <3>4. Head(r.todo) \notin {"commit", "rollback"}
      BY <2>3 DEF SetContext, At
    <3>5. CASE conn[own].tx
      BY <3>2, <3>3, <3>4, <3>5 DEF t
    <3>6. CASE ~conn[own].tx
      <4>1. k = conn[own]
        BY <2>0, <3>6 DEF t, ConnRecords
      <4>. QED  BY <3>2, <3>3, <3>4, <4>1
    <3>. QED  BY <3>5, <3>6
  <2>4. CASE Limit(c)
    <3>. DEFINE k == [conn[own] EXCEPT !.limited = TRUE]
    <3>1. k \in ConnRecords /\ At1(k)
      BY <1>6, <2>0, <2>4 DEF Limit, At, ConnRecords, own
    <3>. QED  BY <3>1
  <2>5. CASE SetUser(c) \/ Query(c) \/ InsertOwner(c) \/ Insert(c)
    <3>1. conn' = conn /\ Head(r.todo) \notin {"commit", "rollback"}
      BY <2>5 DEF SetUser, Query, InsertOwner, Insert, At
    <3>2. At1(conn[own])
      BY <1>6, <2>0, <3>1
    <3>. QED  BY <2>0, <3>2
  <2>. QED  BY <2>1, <2>2, <2>3, <2>4, <2>5
<1>8. conn' \in [Conns -> ConnRecords] /\ \A j \in Conns : conn'[j].holder = conn[j].holder
  BY <1>6, <1>7 DEF PoolInv, PoolShape
<1>9. projects' \in [Projects -> {"absent", "ownerless", "owned", "deleted"}]
  <2>. DEFINE States == {"absent", "ownerless", "owned", "deleted"}
  <2>1. \/ projects' = projects
        \/ \E p, s : s \in States /\ projects' = [projects EXCEPT ![p] = s]
    <3>1. projects \in [Projects -> States]
      BY DEF PoolInv, PoolShape
    <3>2. CASE Query(c) \/ Insert(c)
      BY <3>2 DEF Query, Insert
    <3>3. CASE InsertOwner(c)
      <4>. DEFINE p == call[c].project
      <4>1. p \in Projects \/ p \notin DOMAIN projects
        BY <3>1
      <4>2. CASE p \in Projects
        BY <3>1, <3>3, <4>2 DEF InsertOwner
      <4>3. CASE p \notin DOMAIN projects
        BY <3>1, <3>3, <4>3 DEF InsertOwner
      <4>. QED  BY <4>1, <4>2, <4>3
    <3>. QED  BY <3>2, <3>3 DEF Begin, EndTransaction, SetContext, SetUser, Limit
  <2>. QED  BY <2>1 DEF PoolInv, PoolShape
<1>10. PoolShape'
  BY <1>1, <1>3, <1>8, <1>9 DEF PoolInv, PoolShape
<1>11. c \notin Range(waiting) /\ ~GaveUp(c)
  <2>1. Head(r.todo) # "connect" /\ r.end # "failed"
    BY <1>1 DEF Statements
  <2>. QED  BY <2>1 DEF PoolInv, Queueing, At, GaveUp
<1>12. (\A d \in Callers : Stands(call'[d])) /\ Holdings' /\ Queueing'
  <2>1. Range(waiting') = Range(waiting) \ {c} /\ IsInjective(waiting')
    BY <1>1, <1>11 DEF PoolInv, Queueing
  <2>. QED  BY <1>3, <1>4, <1>8, <1>11, <2>1, CallMoves
<1>13. Transactions' /\ NoForeignContext'
  <2>1. ASSUME NEW j \in Conns
        PROVE  InTransaction(j)' /\ OwnContext(j)'
    <3>1. conn[j].tx /\ conn[j].holder = c => j = own /\ Ending(r.todo) /\ r.kind = "tx"
      BY HeldIsOwn DEF own
    <3>2. CASE j # own
      BY <1>3, <1>4, <1>6, <1>7, <1>8, <3>1, <3>2, ContextsKept DEF PoolInv, PoolShape
    <3>3. CASE j = own
      <4>1. conn'[j] = k /\ call'[c] = q
        BY <1>3, <1>6, <1>7, <3>3 DEF PoolInv, PoolShape
      <4>2. conn[own].tenant # NoOne => conn[own].tx /\ r.tenant = conn[own].tenant
        BY <1>6 DEF PoolInv, NoForeignContext
      <4>3. k.tx => r.kind = "tx" /\ Ending(q.todo)
        BY <1>4, <1>6, <1>7, <3>1, <3>3
      <4>4. k.tenant # NoOne => k.tx /\ r.tenant = k.tenant
        BY <1>7, <4>2
      <4>. QED  BY <1>4, <1>7, <4>1, <4>3, <4>4 DEF InTransaction, OwnContext
    <3>. QED  BY <3>2, <3>3
  <2>. QED  BY <2>1 DEF Transactions, NoForeignContext, OwnContext
<1>. QED  BY <1>10, <1>12, <1>13 DEF PoolInv

\* A call fails at a statement, at its connect() or after it gave up.
LEMMA PoolFails ==
  ASSUME PoolInv, NEW c \in Callers,
         \/ TimeOut(c) \/ FailStatement(c) \/ Cancel(c) \/ RefusedByPolicy(c)
         \/ Insert(c) /\ call' = Failing(c) /\ UNCHANGED projects
  PROVE  PoolInv'
<1>1. call' = Failing(c) /\ UNCHANGED <<obeysRls, hasTimeout, conn>>
  BY DEF TimeOut, FailStatement, Cancel, RefusedByPolicy, Insert
<1>2. call[c] \in CallRecords /\ Stands(call[c]) /\ PoolShape
  BY CallFields DEF PoolInv
<1>3. /\ waiting' \in Seq(Callers) /\ IsInjective(waiting')
      /\ Range(waiting') = Range(waiting) \ {c}
      /\ call[c].todo # <<>>
      /\ \/ call[c].end = "running" /\ Head(call[c].todo) \in Statements \cup {"connect"}
         \/ GaveUp(c)
      /\ ~GaveUp(c) \/ c \in Range(waiting)
  <2>0. waiting \in Seq(Callers) /\ IsInjective(waiting)
    BY DEF PoolInv, PoolShape, Queueing
  <2>1. CASE TimeOut(c)
    <3>1. PICK i \in DOMAIN waiting : waiting[i] = c /\ waiting' = RemoveAt(waiting, i)
      BY <2>1 DEF TimeOut
    <3>2. i \in 1..Len(waiting) /\ c \in Range(waiting)
      BY <2>0, <3>1, LenProperties DEF Range
    <3>3. At(c, "connect") \/ GaveUp(c)
      BY <3>2 DEF PoolInv, Queueing
    <3>. QED  BY <2>0, <3>1, <3>2, <3>3, RemoveAtProperties DEF At, GaveUp
  <2>2. CASE FailStatement(c) \/ Cancel(c) \/ RefusedByPolicy(c) \/ Insert(c)
    <3>1. /\ waiting' = waiting /\ call[c].todo # <<>> /\ Head(call[c].todo) \in Statements
          /\ Head(call[c].todo) # "connect"
      BY <2>2 DEF FailStatement, Cancel, RefusedByPolicy, Insert, At, Statements
    <3>2. call[c].end = "running"
      <4>1. Head(HealthCheck) = "connect"
        BY DEF HealthCheck
      <4>. QED  BY <1>2, <3>1, <4>1, CallFields DEF Stands
    <3>3. c \notin Range(waiting)
      BY <3>1, <3>2 DEF PoolInv, Queueing, At, GaveUp
    <3>. QED  BY <2>0, <3>1, <3>2, <3>3 DEF GaveUp
  <2>. QED  BY <2>1, <2>2
<1>4. PICK q \in CallRecords :
        /\ call' = [call EXCEPT ![c] = q] /\ Stands(q)
        /\ q.held = call[c].held /\ q.kind = call[c].kind /\ q.tenant = call[c].tenant
        /\ call[c].kind = "tx" /\ call[c].held # <<>> => Ending(q.todo)
  BY <1>1, <1>2, <1>3, StandsFailing
<1>5. PoolShape'
  <2>1. UNCHANGED projects /\ faults' \in 0..MaxFaults
    <3>1. CASE FailStatement(c)
      BY <1>2, <3>1, FaultsAssumption DEF FailStatement, PoolShape
    <3>2. CASE Insert(c) /\ UNCHANGED projects
      BY <1>2, <3>2 DEF Insert, PoolShape
    <3>3. CASE TimeOut(c) \/ Cancel(c) \/ RefusedByPolicy(c)
      BY <1>2, <3>3 DEF TimeOut, Cancel, RefusedByPolicy, PoolShape
    <3>. QED  BY <3>1, <3>2, <3>3
  <2>. QED  BY <1>1, <1>2, <1>3, <1>4, <2>1 DEF PoolShape
<1>6. (\A d \in Callers : Stands(call'[d])) /\ Holdings' /\ Queueing'
  BY <1>1, <1>3, <1>4, CallMoves
<1>7. \A k \in Conns : conn[k].tx /\ conn[k].holder = c => Ending(q.todo)
  BY <1>4, HeldIsOwn
<1>8. Transactions' /\ NoForeignContext'
  <2>1. ASSUME NEW k \in Conns
        PROVE  InTransaction(k)' /\ OwnContext(k)'
    <3>1. conn'[k] = conn[k] /\ (conn[k].tx /\ conn[k].holder = c => Ending(q.todo))
      BY <1>1, <1>7
    <3>2. /\ call' = [call EXCEPT ![c] = q] /\ q.kind = call[c].kind
          /\ q.tenant = call[c].tenant
      BY <1>4
    <3>. QED  BY <3>1, <3>2, ContextsKept
  <2>. QED  BY <2>1 DEF Transactions, NoForeignContext, OwnContext
<1>. QED  BY <1>5, <1>6, <1>8 DEF PoolInv

\* A connection is released: by its call, or when the response finishes; or the
\* response is cut off and it is not.
LEMMA PoolReleases ==
  ASSUME PoolInv, NEW c \in Callers, Release(c) \/ Finish(c) \/ CloseEarly(c)
  PROVE  PoolInv'
<1>. DEFINE r == call[c]  own == Held(c)
<1>1. /\ r.end = "running" /\ r.todo # <<>> /\ Head(r.todo) \in {"release", "finish"}
      /\ UNCHANGED <<obeysRls, hasTimeout, waiting, projects, faults>>
  BY DEF Release, Finish, CloseEarly, At
<1>2. /\ r \in CallRecords /\ Stands(r) /\ PoolShape /\ r.todo \in Seq(Steps)
      /\ r.held \in Seq(Conns) /\ Tail(r.todo) \in Seq(Steps)
      /\ call \in [Callers -> CallRecords] /\ conn \in [Conns -> ConnRecords]
  BY <1>1, CallFields, HeadTailProperties DEF PoolInv, PoolShape
<1>3. PICK q \in CallRecords :
        /\ call' = [call EXCEPT ![c] = q] /\ Stands(q) /\ q.tenant = r.tenant
        /\ r.kind # "tx" \/ \A i \in 1..Len(r.todo) : r.todo[i] = "release"
        /\ r.held # <<>>
        /\ \/ q.held = r.held /\ conn' = conn
           \/ /\ q.held = Front(r.held) \/ (q.held = <<>> /\ Len(r.held) = 1)
              /\ conn' = [conn EXCEPT ![own].holder = NoOne]
  <2>. DEFINE Ends(held) == [r EXCEPT !.todo = Tail(r.todo), !.held = held,
                                      !.end = IF Tail(r.todo) # <<>> THEN r.end
                                              ELSE IF r.failed THEN "failed" ELSE "ok"]
  <2>1. ASSUME NEW held \in Seq(Conns)
        PROVE  /\ Ends(held) \in CallRecords /\ Ends(held).kind = r.kind
               /\ Ends(held).todo = Tail(r.todo) /\ Ends(held).held = held
               /\ Ends(held).tenant = r.tenant
               /\ Ends(held).end = IF Ends(held).todo # <<>> THEN r.end
                                   ELSE IF r.failed THEN "failed" ELSE "ok"
    BY <1>2 DEF CallRecords
  <2>2. ASSUME NEW held, NEW calls \in [Callers -> CallRecords], calls[c].todo = Tail(r.todo),
               calls[c].held = held, calls[c].end = r.end, calls[c].failed = r.failed,
               calls[c].kind = r.kind, calls[c].tenant = r.tenant, calls[c].work = r.work,
               calls[c].project = r.project, \A d \in Callers : d # c => calls[d] = call[d]
        PROVE  EndIfLast(c, calls) = [call EXCEPT ![c] = Ends(held)]
    <3>1. calls[c] = [r EXCEPT !.todo = Tail(r.todo), !.held = held]
      BY <1>2, <2>2 DEF CallRecords
    <3>2. calls = [call EXCEPT ![c] = calls[c]]
      BY <1>2, <2>2
    <3>3. EndIfLast(c, calls) =
            [calls EXCEPT ![c] = [calls[c] EXCEPT !.end =
               IF calls[c].todo # <<>> THEN calls[c].end
               ELSE IF calls[c].failed THEN "failed" ELSE "ok"]]
      BY <2>2 DEF EndIfLast, CallRecords
    <3>4. Ends(held) = [calls[c] EXCEPT !.end =
               IF calls[c].todo # <<>> THEN calls[c].end
               ELSE IF calls[c].failed THEN "failed" ELSE "ok"]
      BY <1>2, <2>2, <3>1 DEF CallRecords
    <3>. QED  BY <1>2, <2>2, <3>2, <3>3, <3>4
  <2>. HIDE DEF Ends
  <2>3. CASE Release(c)
    <3>. DEFINE held == Front(r.held)
                calls == [Done(c) EXCEPT ![c].held = held]
    <3>1. Head(r.todo) = "release" /\ conn' = [conn EXCEPT ![own].holder = NoOne]
      BY <2>3 DEF Release, At
    <3>2. r.held # <<>> /\ held \in Seq(Conns)
      <4>1. Len(r.held) \in 1..2
        <5>1. Rests(r.kind, r.todo, Len(r.held)) /\ r.kind \in Kinds
          BY <1>2 DEF Stands, CallRecords
        <5>2. r.todo # Programs[r.kind]
          BY <3>1, <5>1, ProgramRests
        <5>3. r.todo \notin MiddlewareRests /\ r.todo \notin NestedRests
          BY <1>1, <3>1 DEF MiddlewareRests, NestedRests
        <5>. QED  BY <1>1, <5>1, <5>2, <5>3 DEF Rests
      <4>2. r.held = <<>> => Len(r.held) = 0
        OBVIOUS
      <4>3. r.held # <<>>
        BY <4>1, <4>2
      <4>. QED  BY <1>2, <4>3, FrontProperties
    <3>3. /\ calls \in [Callers -> CallRecords] /\ calls[c].todo = Tail(r.todo)
          /\ calls[c].held = held /\ calls[c].end = r.end /\ calls[c].failed = r.failed
          /\ calls[c].kind = r.kind /\ calls[c].tenant = r.tenant /\ calls[c].work = r.work
          /\ calls[c].project = r.project /\ \A d \in Callers : d # c => calls[d] = call[d]
      <4>. HIDE DEF held
      <4>. QED  BY <1>2, <3>2 DEF Done, CallRecords
    <3>4. call' = EndIfLast(c, calls)
      <4>1. Done(c)[c].held = r.held
        BY <1>2 DEF Done, CallRecords
      <4>. QED  BY <1>2, <2>3, <4>1 DEF Release, Done
    <3>. HIDE DEF calls, held
    <3>5. call' = [call EXCEPT ![c] = Ends(held)]
      BY <2>2, <3>3, <3>4
    <3>6. Stands(Ends(held)) /\ \A i \in 1..Len(r.todo) : r.todo[i] = "release"
      BY <1>1, <1>2, <2>1, <3>1, <3>2, StandsAtRelease DEF held
    <3>. QED  BY <2>1, <3>1, <3>2, <3>5, <3>6 DEF held
  <2>4. CASE Finish(c)
    <3>. DEFINE calls == [Done(c) EXCEPT ![c].held = <<>>]
    <3>1. /\ Head(r.todo) = "finish" /\ conn' = [conn EXCEPT ![own].holder = NoOne]
          /\ <<>> \in Seq(Conns)
      BY <2>4 DEF Finish, At
    <3>3. /\ calls \in [Callers -> CallRecords] /\ calls[c].todo = Tail(r.todo)
          /\ calls[c].held = <<>> /\ calls[c].end = r.end /\ calls[c].failed = r.failed
          /\ calls[c].kind = r.kind /\ calls[c].tenant = r.tenant /\ calls[c].work = r.work
          /\ calls[c].project = r.project /\ \A d \in Callers : d # c => calls[d] = call[d]
      BY <1>2, <3>1 DEF Done, CallRecords
    <3>4. call' = EndIfLast(c, calls)
      BY <2>4 DEF Finish
    <3>. HIDE DEF calls
    <3>5. call' = [call EXCEPT ![c] = Ends(<<>>)]
      BY <2>2, <3>3, <3>4
    <3>6. Stands(Ends(<<>>)) /\ Len(r.held) = 1 /\ r.kind = "middleware"
      BY <1>1, <1>2, <2>1, <3>1, StandsAtFinish
    <3>7. r.held # <<>>
      <4>1. r.held = <<>> => Len(r.held) = 0
        OBVIOUS
      <4>. QED  BY <3>6, <4>1
    <3>. QED  BY <2>1, <3>1, <3>5, <3>6, <3>7
  <2>5. CASE CloseEarly(c)
    <3>. DEFINE calls == Done(c)
    <3>1. Head(r.todo) = "finish" /\ conn' = conn
      BY <2>5 DEF CloseEarly, At
    <3>3. /\ calls \in [Callers -> CallRecords] /\ calls[c].todo = Tail(r.todo)
          /\ calls[c].held = r.held /\ calls[c].end = r.end /\ calls[c].failed = r.failed
          /\ calls[c].kind = r.kind /\ calls[c].tenant = r.tenant /\ calls[c].work = r.work
          /\ calls[c].project = r.project /\ \A d \in Callers : d # c => calls[d] = call[d]
      BY <1>2 DEF Done, CallRecords
    <3>4. call' = EndIfLast(c, calls)
      BY <2>5 DEF CloseEarly
    <3>. HIDE DEF calls
    <3>5. call' = [call EXCEPT ![c] = Ends(r.held)]
      BY <2>2, <3>3, <3>4
    <3>6. Stands(Ends(r.held)) /\ Len(r.held) = 1 /\ r.kind = "middleware"
      BY <1>1, <1>2, <2>1, <3>1, StandsAtFinish
    <3>7. r.held # <<>>
      <4>1. r.held = <<>> => Len(r.held) = 0
        OBVIOUS
      <4>. QED  BY <3>6, <4>1
    <3>. QED  BY <1>2, <2>1, <3>1, <3>5, <3>6, <3>7
  <2>. QED  BY <2>3, <2>4, <2>5
<1>4. own \in Conns /\ conn[own].holder = c
  BY <1>3, HeldIsOwn
<1>5. ASSUME NEW k \in Conns, conn[k].tx PROVE conn[k].holder # c
  <2>. SUFFICES ASSUME conn[k].holder = c PROVE FALSE
    OBVIOUS
  <2>1. r.kind = "tx" /\ Ending(r.todo)
    BY <1>5, HeldIsOwn
  <2>. QED  BY <1>3, <2>1 DEF Ending
<1>. HIDE DEF own
<1>6. \A k \in Conns : /\ conn'[k].tx = conn[k].tx /\ conn'[k].tenant = conn[k].tenant
                       /\ conn'[k] \in ConnRecords
                       /\ conn'[k].holder \in {conn[k].holder, NoOne}
                       /\ k # own => conn'[k] = conn[k]
  BY <1>2, <1>3, <1>4 DEF ConnRecords
<1>7. PoolShape'
  <2>1. conn' \in [Conns -> ConnRecords]
    BY <1>2, <1>3, <1>4, <1>6
  <2>. QED  BY <1>1, <1>2, <1>3, <2>1 DEF PoolShape
<1>8. /\ call'[c] = q
      /\ \A d \in Callers : d # c => call'[d] = call[d]
  BY <1>2, <1>3
<1>9. \A d \in Callers : Stands(call'[d])
  BY <1>3, <1>8 DEF PoolInv
<1>10. c \notin Range(waiting) /\ ~GaveUp(c)
  <2>1. Head(r.todo) # "connect" /\ r.end # "failed"
    BY <1>1
  <2>. QED  BY <2>1 DEF PoolInv, Queueing, At, GaveUp
<1>11. Queueing'
  <2>1. \A d \in Callers : d \in Range(waiting') => At(d, "connect")' \/ GaveUp(d)'
    BY <1>1, <1>8, <1>10 DEF PoolInv, Queueing, At, GaveUp
  <2>. QED  BY <1>1, <2>1 DEF PoolInv, Queueing
<1>12. Transactions' /\ NoForeignContext'
  <2>1. ASSUME NEW k \in Conns, conn'[k].tx
        PROVE  \E d \in Callers : /\ conn'[k].holder = d /\ call'[d].kind = "tx"
                                  /\ Ending(call'[d].todo)
    <3>1. conn[k].tx /\ conn[k].holder # c /\ k # own
      BY <1>4, <1>5, <1>6, <2>1
    <3>2. conn'[k] = conn[k]
      BY <1>6, <3>1
    <3>3. PICK d \in Callers : conn[k].holder = d /\ call[d].kind = "tx" /\ Ending(call[d].todo)
      BY <3>1 DEF PoolInv, Transactions, InTransaction
    <3>. QED  BY <1>8, <3>1, <3>2, <3>3
  <2>2. ASSUME NEW k \in Conns, conn'[k].tenant # NoOne
        PROVE  /\ conn'[k].tx /\ conn'[k].holder \in Callers
               /\ call'[conn'[k].holder].tenant = conn'[k].tenant
    <3>1. /\ conn[k].tx /\ conn[k].holder \in Callers
          /\ call[conn[k].holder].tenant = conn[k].tenant
      BY <1>6, <2>2 DEF PoolInv, NoForeignContext
    <3>2. conn[k].holder # c /\ k # own
      BY <1>4, <1>5, <3>1
    <3>. QED  BY <1>6, <1>8, <3>1, <3>2
  <2>. QED  BY <2>1, <2>2 DEF Transactions, InTransaction, NoForeignContext
<1>13. Holdings'
  <2>1. CASE q.held = r.held /\ conn' = conn
    <3>1. \A d \in Callers : call'[d].held = call[d].held
      BY <1>8, <2>1
    <3>2. \A d \in Callers : \A k \in Conns : conn'[k].holder = d =>
            k \in Range(call'[d].held) \/ (GaveUp(d)' /\ d \notin Range(waiting'))
      BY <1>1, <1>8, <1>10, <2>1, <3>1 DEF PoolInv, Holdings, GaveUp
    <3>. QED  BY <2>1, <3>1, <3>2 DEF PoolInv, Holdings
  <2>2. CASE /\ q.held = Front(r.held) \/ (q.held = <<>> /\ Len(r.held) = 1)
             /\ conn' = [conn EXCEPT ![own].holder = NoOne]
    <3>. DEFINE n == Len(r.held)
    <3>1. /\ n \in Nat \ {0} /\ DOMAIN r.held = 1..n /\ own = r.held[n]
          /\ \A i \in 1..n : r.held[i] \in Conns /\ conn[r.held[i]].holder = c
          /\ \A i, j \in 1..n : r.held[i] = r.held[j] => i = j
      <4>1. n \in Nat \ {0} /\ DOMAIN r.held = 1..n
        BY <1>2, <1>3, EmptySeq, LenProperties
      <4>2. \A i \in 1..n : r.held[i] \in Conns /\ conn[r.held[i]].holder = c
        BY <1>2, <4>1, ElementOfSeq DEF PoolInv, Holdings
      <4>3. \A i, j \in 1..n : r.held[i] = r.held[j] => i = j
        BY <4>1 DEF PoolInv, Holdings, IsInjective
      <4>. QED  BY <4>1, <4>2, <4>3 DEF own, Held, Last
    <3>. HIDE DEF n
    <3>2. /\ DOMAIN q.held = 1..(n - 1)
          /\ \A i \in 1..(n - 1) : q.held[i] = r.held[i]
      <4>1. CASE q.held = Front(r.held)
        <5>1. /\ Front(r.held) \in Seq(Conns) /\ Len(Front(r.held)) = n - 1
              /\ \A i \in 1..n - 1 : Front(r.held)[i] = r.held[i]
          BY <1>2, <1>3, FrontProperties DEF n
        <5>. QED  BY <4>1, <5>1, LenProperties
      <4>2. CASE q.held = <<>> /\ Len(r.held) = 1
        BY <4>2 DEF n
      <4>. QED  BY <2>2, <4>1, <4>2
    <3>3. \A i \in 1..(n - 1) : i \in 1..n /\ q.held[i] = r.held[i] /\ q.held[i] # own
      BY <3>1, <3>2
    <3>4. \A d \in Callers : IsInjective(call'[d].held)
      <4>1. IsInjective(q.held)
        BY <3>1, <3>2, <3>3 DEF IsInjective
      <4>. QED  BY <1>8, <4>1 DEF PoolInv, Holdings
    <3>5. ASSUME NEW d \in Callers, NEW i \in DOMAIN call'[d].held
          PROVE  conn'[call'[d].held[i]].holder = d
      <4>1. CASE d = c
        BY <1>6, <1>8, <3>1, <3>2, <3>3, <3>5, <4>1
      <4>2. CASE d # c
        <5>1. call'[d].held = call[d].held /\ call[d].held \in Seq(Conns)
          BY <1>8, <1>2, <4>2, CallFields
        <5>2. call[d].held[i] \in Conns /\ conn[call[d].held[i]].holder = d
          BY <3>5, <5>1, LenProperties, ElementOfSeq DEF PoolInv, Holdings
        <5>. QED  BY <1>4, <1>6, <4>2, <5>1, <5>2
      <4>. QED  BY <4>1, <4>2
    <3>6. ASSUME NEW d \in Callers, NEW k \in Conns, conn'[k].holder = d
          PROVE  k \in Range(call'[d].held) \/ (GaveUp(d)' /\ d \notin Range(waiting'))
      <4>1. k # own /\ conn'[k] = conn[k] /\ conn[k].holder = d
        <5>1. conn'[own].holder = NoOne
          BY <1>2, <1>4, <2>2
        <5>. QED  BY <1>6, <3>6, <5>1, NoOneAssumption
      <4>2. k \in Range(call[d].held) \/ (GaveUp(d) /\ d \notin Range(waiting))
        BY <4>1 DEF PoolInv, Holdings
      <4>3. CASE d = c
        <5>1. PICK i \in 1..n : r.held[i] = k
          BY <1>10, <3>1, <4>2, <4>3 DEF Range
        <5>2. i \in 1..(n - 1) /\ q.held[i] = k
          BY <3>1, <3>2, <4>1, <5>1
        <5>. QED  BY <1>8, <3>2, <4>3, <5>2 DEF Range
      <4>4. CASE d # c
        BY <1>1, <1>8, <4>2, <4>4 DEF GaveUp
      <4>. QED  BY <4>3, <4>4
    <3>. QED  BY <3>4, <3>5, <3>6 DEF Holdings
  <2>. QED  BY <1>3, <2>1, <2>2
<1>. QED  BY <1>7, <1>9, <1>11, <1>12, <1>13 DEF PoolInv

\* A call begins; it asks for a connection; a health check gives up.
LEMMA PoolAsks ==
  ASSUME PoolInv, NEW c \in Callers, Start(c) \/ Connect(c) \/ GiveUp(c)
  PROVE  PoolInv'
<1>0. call[c] \in CallRecords /\ Stands(call[c]) /\ PoolShape /\ call \in [Callers -> CallRecords]
  BY CallFields DEF PoolInv, PoolShape
<1>1. CASE Start(c)
  <2>1. PICK kind \in Kinds, work \in Works, t \in Tenants, p \in Projects :
          Call(c, kind, work, t, p)
    BY <1>1, ProgramsOf DEF Start, Works
  <2>. DEFINE q == [NoCall EXCEPT !.kind = kind, !.work = work, !.tenant = t, !.project = p,
                                  !.todo = Programs[kind], !.end = "running"]
  <2>2. /\ call[c].end = "off" /\ call' = [call EXCEPT ![c] = q]
        /\ UNCHANGED <<obeysRls, hasTimeout, conn, waiting, projects, faults>>
    BY <2>1 DEF Call
  <2>3. /\ q \in CallRecords /\ q.kind = kind /\ q.todo = Programs[kind] /\ q.held = <<>>
        /\ q.end = "running"
    <3>1. NoCall \in CallRecords /\ NoCall.held = <<>>
      BY ProgramsOf DEF NoCall, CallRecords, Works
    <3>2. Programs[kind] \in Seq(Steps)
      BY ProgramRests
    <3>. QED  BY <3>1, <3>2 DEF CallRecords
  <2>4. call[c].todo = <<>> /\ call[c].held = <<>> /\ c \notin Range(waiting) /\ ~GaveUp(c)
    BY <1>0, <2>2 DEF Stands, PoolInv, Queueing, At, GaveUp
  <2>. HIDE DEF q
  <2>5. Stands(q)
    <3>1. Len(q.held) = 0
      BY <2>3
    <3>. QED  BY <2>3, <3>1, ProgramRests DEF Stands, Rests
  <2>6. PoolShape'
    BY <1>0, <2>2, <2>3 DEF PoolShape
  <2>7. (\A d \in Callers : Stands(call'[d])) /\ Holdings' /\ Queueing'
    <3>1. /\ q.held = call[c].held /\ \A k \in Conns : conn'[k].holder = conn[k].holder
          /\ IsInjective(waiting') /\ Range(waiting') = Range(waiting) \ {c}
      BY <2>2, <2>3, <2>4 DEF PoolInv, Queueing
    <3>. QED  BY <2>2, <2>3, <2>4, <2>5, <3>1, CallMoves
  <2>8. \A k \in Conns : conn[k].holder # c
    BY <2>4 DEF PoolInv, Holdings, Range
  <2>9. \A d \in Callers : d # c => call'[d] = call[d]
    BY <1>0, <2>2
  <2>10. Transactions'
    <3>. SUFFICES ASSUME NEW k \in Conns, conn[k].tx
                  PROVE  \E d \in Callers : /\ conn[k].holder = d /\ call'[d].kind = "tx"
                                            /\ Ending(call'[d].todo)
      BY <2>2 DEF Transactions, InTransaction
    <3>. QED  BY <2>8, <2>9 DEF PoolInv, Transactions, InTransaction
  <2>11. NoForeignContext'
    BY <2>2, <2>8, <2>9 DEF PoolInv, NoForeignContext
  <2>. QED  BY <2>6, <2>7, <2>10, <2>11 DEF PoolInv
<1>2. CASE Connect(c)
  <2>1. /\ At(c, "connect") /\ c \notin Range(waiting) /\ waiting' = Append(waiting, c)
        /\ UNCHANGED <<obeysRls, hasTimeout, conn, projects, call, faults>>
    BY <1>2 DEF Connect
  <2>2. /\ waiting' \in Seq(Callers) /\ IsInjective(waiting')
        /\ Range(waiting') = Range(waiting) \cup {c}
    BY <2>1, AppendOnce DEF PoolInv, PoolShape, Queueing
  <2>3. ~GaveUp(c)
    BY <2>1 DEF At, GaveUp
  <2>4. Holdings'
    <3>1. \A d \in Callers, k \in Conns : conn'[k].holder = d =>
            k \in Range(call'[d].held) \/ (GaveUp(d)' /\ d \notin Range(waiting'))
      BY <2>1, <2>2, <2>3 DEF PoolInv, Holdings, GaveUp
    <3>. QED  BY <2>1, <3>1 DEF PoolInv, Holdings
  <2>5. Queueing'
    BY <2>1, <2>2 DEF PoolInv, Queueing, At, GaveUp
  <2>6. PoolShape'
    BY <1>0, <2>1, <2>2 DEF PoolShape
  <2>. QED  BY <2>1, <2>4, <2>5, <2>6 DEF PoolInv, Transactions, InTransaction, NoForeignContext
<1>3. CASE GiveUp(c)
  <2>. DEFINE r == call[c]  q == [r EXCEPT !.end = "failed"]
  <2>1. /\ r.kind = "health" /\ At(c, "connect") /\ c \in Range(waiting)
        /\ call' = [call EXCEPT ![c] = q]
        /\ UNCHANGED <<obeysRls, hasTimeout, conn, waiting, projects, faults>>
    BY <1>3 DEF GiveUp
  <2>2. /\ q \in CallRecords /\ q.kind = r.kind /\ q.held = r.held /\ q.tenant = r.tenant
        /\ q.todo = r.todo /\ q.end = "failed" /\ q.todo # <<>> /\ Head(r.todo) = "connect"
        /\ r.todo \in Seq(Steps) /\ Len(r.held) \in Nat
    BY <1>0, <2>1, CallFields DEF CallRecords, At
  <2>3. Stands(q)
    <3>1. ~(Len(r.held) \in 1..2 /\ Closing(r.todo, Len(r.held)))
      BY <2>2, ClosingNext DEF Statements
    <3>2. Len(r.held) = 0 /\ r.todo = HealthCheck
      BY <1>0, <2>1, <2>2, <3>1, ProgramsOf DEF Stands, Rests, HealthCheck
    <3>3. Len(r.held) = 0 => r.held = <<>>
      BY <1>0, EmptySeq, CallFields
    <3>. QED  BY <1>0, <2>1, <2>2, <3>2, <3>3 DEF Stands
  <2>. HIDE DEF q
  <2>4. PoolShape'
    BY <1>0, <2>1, <2>2 DEF PoolShape
  <2>5. call'[c] = q /\ \A d \in Callers : d # c => call'[d] = call[d]
    BY <1>0, <2>1
  <2>6. \A d \in Callers : Stands(call'[d])
    BY <2>3, <2>5 DEF PoolInv
  <2>7. \A d \in Callers : call'[d].held = call[d].held /\ call'[d].todo = call[d].todo
                           /\ call'[d].tenant = call[d].tenant /\ call'[d].kind = call[d].kind
    BY <2>2, <2>5
  <2>8. ~GaveUp(c) /\ GaveUp(c)' /\ \A d \in Callers : d # c => GaveUp(d)' = GaveUp(d)
    BY <2>1, <2>2, <2>5 DEF At, GaveUp
  <2>9. Holdings'
    <3>1. \A d \in Callers, k \in Conns : conn'[k].holder = d =>
            k \in Range(call'[d].held) \/ (GaveUp(d)' /\ d \notin Range(waiting'))
      BY <2>1, <2>7, <2>8 DEF PoolInv, Holdings
    <3>. QED  BY <2>1, <2>7, <3>1 DEF PoolInv, Holdings
  <2>10. Queueing'
    BY <2>1, <2>5, <2>8 DEF PoolInv, Queueing, At
  <2>11. Transactions' /\ NoForeignContext'
    BY <2>1, <2>7 DEF PoolInv, Transactions, InTransaction, NoForeignContext
  <2>. QED  BY <2>4, <2>6, <2>9, <2>10, <2>11 DEF PoolInv
<1>. QED  BY <1>1, <1>2, <1>3

\* The first in the queue gets a free connection.
LEMMA PoolGrants == ASSUME PoolInv, NEW k \in Conns, Grant(k) PROVE PoolInv'
<1>. DEFINE c == Head(waiting)  r == call[c]
<1>1. /\ waiting # <<>> /\ conn[k].holder = NoOne /\ waiting' = Tail(waiting)
      /\ conn' = [conn EXCEPT ![k].holder = c]
      /\ UNCHANGED <<obeysRls, hasTimeout, projects, faults>>
  BY DEF Grant
<1>2. /\ waiting' \in Seq(Callers) /\ IsInjective(waiting') /\ c \in Callers
      /\ Range(waiting') = Range(waiting) \ {c} /\ c \in Range(waiting)
  BY <1>1, TailOnce DEF PoolInv, PoolShape, Queueing
<1>3. /\ r \in CallRecords /\ Stands(r) /\ r.held \in Seq(Conns) /\ r.todo \in Seq(Steps)
      /\ PoolShape /\ call \in [Callers -> CallRecords] /\ conn \in [Conns -> ConnRecords]
  BY <1>2, CallFields DEF PoolInv, PoolShape
<1>4. /\ \A d \in Callers : k \notin Range(call[d].held)
      /\ ~conn[k].tx /\ conn[k].tenant = NoOne
  <2>1. \A d \in Callers : k \notin Range(call[d].held)
    BY <1>1, NoOneAssumption DEF PoolInv, Holdings, Range
  <2>. QED  BY <1>1, <2>1, NoOneAssumption
            DEF PoolInv, Transactions, InTransaction, NoForeignContext
<1>. HIDE DEF c
<1>5. /\ conn'[k] = [conn[k] EXCEPT !.holder = c] /\ conn'[k].holder = c /\ ~conn'[k].tx
      /\ conn'[k].tenant = NoOne /\ conn' \in [Conns -> ConnRecords]
      /\ \A j \in Conns : j # k => conn'[j] = conn[j]
  BY <1>1, <1>2, <1>3, <1>4 DEF ConnRecords
<1>6. CASE GaveUp(c)
  <2>1. call' = call
    BY <1>6 DEF Grant, c
  <2>2. PoolShape'
    BY <1>1, <1>2, <1>3, <1>5, <2>1 DEF PoolShape
  <2>3. Holdings'
    <3>1. ASSUME NEW d \in Callers, NEW i \in DOMAIN call[d].held
          PROVE  conn'[call[d].held[i]].holder = d
      <4>1. call[d].held[i] \in Conns /\ call[d].held[i] # k
        BY <1>4, CallFields, LenProperties, ElementOfSeq DEF PoolInv, Range
      <4>. QED  BY <1>5, <4>1 DEF PoolInv, Holdings
    <3>2. ASSUME NEW d \in Callers, NEW j \in Conns, conn'[j].holder = d
          PROVE  j \in Range(call[d].held) \/ (GaveUp(d) /\ d \notin Range(waiting'))
      <4>1. CASE j = k
        BY <1>2, <1>5, <1>6, <3>2, <4>1
      <4>2. CASE j # k
        BY <1>2, <1>5, <3>2, <4>2 DEF PoolInv, Holdings
      <4>. QED  BY <4>1, <4>2
    <3>. QED  BY <2>1, <3>1, <3>2 DEF PoolInv, Holdings, GaveUp
  <2>4. Queueing'
    BY <1>2, <2>1 DEF PoolInv, Queueing, At, GaveUp
  <2>5. Transactions' /\ NoForeignContext'
    <3>1. ASSUME NEW j \in Conns, conn'[j].tx \/ conn'[j].tenant # NoOne PROVE conn'[j] = conn[j]
      BY <1>5, <3>1
    <3>2. \A j \in Conns : conn'[j].tx => \E d \in Callers :
             conn'[j].holder = d /\ call'[d].kind = "tx" /\ Ending(call'[d].todo)
      BY <2>1, <3>1 DEF PoolInv, Transactions, InTransaction
    <3>3. \A j \in Conns : conn'[j].tenant # NoOne =>
             /\ conn'[j].tx /\ conn'[j].holder \in Callers
             /\ call'[conn'[j].holder].tenant = conn'[j].tenant
      BY <2>1, <3>1 DEF PoolInv, NoForeignContext
    <3>. QED  BY <3>2, <3>3 DEF Transactions, InTransaction, NoForeignContext
  <2>. QED  BY <2>1, <2>2, <2>3, <2>4, <2>5 DEF PoolInv
<1>7. CASE ~GaveUp(c)
  <2>. DEFINE q == [r EXCEPT !.todo = Tail(r.todo), !.held = Append(r.held, k)]
  <2>1. r.end = "running" /\ r.todo # <<>> /\ Head(r.todo) = "connect"
    BY <1>2, <1>7 DEF PoolInv, Queueing, At
  <2>2. /\ Tail(r.todo) \in Seq(Steps) /\ Append(r.held, k) \in Seq(Conns)
        /\ IsInjective(Append(r.held, k)) /\ Range(Append(r.held, k)) = Range(r.held) \cup {k}
    BY <1>2, <1>3, <1>4, <2>1, HeadTailProperties, AppendOnce DEF PoolInv, Holdings
  <2>3. /\ q \in CallRecords /\ q.kind = r.kind /\ q.todo = Tail(r.todo)
        /\ q.held = Append(r.held, k) /\ q.end = r.end /\ q.tenant = r.tenant
    BY <1>3, <2>2 DEF CallRecords
  <2>4. call' = [call EXCEPT ![c] = q]
    <3>1. call' = [Done(c) EXCEPT ![c].held = Append(@, k)]
      BY <1>7 DEF Grant, c
    <3>2. Done(c)[c] = [r EXCEPT !.todo = Tail(r.todo)] /\ Done(c)[c].held = r.held
      BY <1>2, <1>3 DEF Done, CallRecords
    <3>. QED  BY <1>2, <1>3, <3>1, <3>2 DEF Done, CallRecords
  <2>. HIDE DEF q, r
  <2>5. Stands(q)
    BY <1>3, <2>1, <2>3, StandsAtConnect
  <2>6. call'[c] = q /\ \A d \in Callers : d # c => call'[d] = call[d]
    BY <1>2, <1>3, <2>4
  <2>7. PoolShape'
    BY <1>1, <1>2, <1>3, <1>5, <2>3, <2>4 DEF PoolShape
  <2>8. \A d \in Callers : Stands(call'[d])
    BY <2>5, <2>6 DEF PoolInv
  <2>9. Holdings'
    <3>1. \A d \in Callers : IsInjective(call'[d].held)
      BY <2>2, <2>3, <2>6 DEF PoolInv, Holdings
    <3>2. \A d \in Callers : Range(call[d].held) \subseteq Conns
      BY CallFields, LenProperties, ElementOfSeq DEF PoolInv, Range
    <3>3. ASSUME NEW d \in Callers, NEW j \in Range(call'[d].held)
          PROVE  j \in Conns /\ conn'[j].holder = d
      <4>1. CASE d = c
        <5>1. j = k \/ j \in Range(r.held)
          BY <2>2, <2>3, <2>6, <3>3, <4>1
        <5>2. CASE j = k
          BY <1>5, <4>1, <5>2
        <5>3. CASE j \in Range(r.held)
          <6>1. j \in Conns /\ j # k /\ conn[j].holder = c
            BY <1>2, <1>4, <3>2, <5>3 DEF r, PoolInv, Holdings, Range
          <6>. QED  BY <1>5, <4>1, <6>1
        <5>. QED  BY <5>1, <5>2, <5>3
      <4>2. CASE d # c
        <5>1. j \in Range(call[d].held)
          BY <2>6, <3>3, <4>2
        <5>2. j \in Conns /\ j # k /\ conn[j].holder = d
          BY <1>4, <3>2, <5>1 DEF PoolInv, Holdings, Range
        <5>. QED  BY <1>5, <5>2
      <4>. QED  BY <4>1, <4>2
    <3>4. ASSUME NEW d \in Callers, NEW j \in Conns, conn'[j].holder = d
          PROVE  j \in Range(call'[d].held) \/ (GaveUp(d)' /\ d \notin Range(waiting'))
      <4>1. CASE j = k
        BY <1>5, <2>2, <2>3, <2>6, <3>4, <4>1
      <4>2. CASE j # k
        <5>1. conn[j].holder = d
          BY <1>5, <3>4, <4>2
        <5>2. j \in Range(call[d].held) \/ (GaveUp(d) /\ d \notin Range(waiting))
          BY <5>1 DEF PoolInv, Holdings
        <5>3. CASE d = c
          BY <1>7, <2>2, <2>3, <2>6, <5>2, <5>3 DEF r
        <5>4. CASE d # c
          BY <1>2, <2>6, <5>2, <5>4 DEF GaveUp
        <5>. QED  BY <5>3, <5>4
      <4>. QED  BY <4>1, <4>2
    <3>. QED  BY <3>1, <3>3, <3>4 DEF Holdings, Range
  <2>10. Queueing'
    BY <1>2, <2>6 DEF PoolInv, Queueing, At, GaveUp
  <2>11. Transactions' /\ NoForeignContext'
    <3>1. ASSUME NEW j \in Conns, conn'[j].tx
          PROVE  \E d \in Callers : /\ conn'[j].holder = d /\ call'[d].kind = "tx"
                                    /\ Ending(call'[d].todo)
      <4>1. j # k /\ conn'[j] = conn[j]
        BY <1>5, <3>1
      <4>2. PICK d \in Callers : conn[j].holder = d /\ call[d].kind = "tx" /\ Ending(call[d].todo)
        BY <3>1, <4>1 DEF PoolInv, Transactions, InTransaction
      <4>3. Ending(q.todo) \/ d # c
        <5>. SUFFICES ASSUME d = c PROVE Ending(q.todo)
          OBVIOUS
        <5>1. call[c].kind = "tx" /\ call[c].held # <<>> /\ Head(call[c].todo) = "connect"
              /\ Len(call[c].held) \in Nat /\ call[c].todo # <<>> /\ call[c].todo \in Seq(Steps)
          BY <1>2, <2>1, <3>1, <4>1, <4>2, HeldIsOwn, CallFields DEF r, PoolInv
        <5>2. FALSE
          <6>1. ~(Len(r.held) \in 1..2 /\ Closing(r.todo, Len(r.held)))
            BY <5>1, ClosingNext DEF Statements, r
          <6>2. Len(r.held) # 0
            BY <1>3, <5>1, EmptySeq DEF r
          <6>. QED  BY <1>3, <5>1, <6>1, <6>2 DEF Stands, Rests, r
        <5>. QED  BY <5>2
      <4>. QED  BY <2>3, <2>6, <4>1, <4>2, <4>3 DEF r
    <3>2. \A j \in Conns : conn'[j].tenant # NoOne =>
            /\ conn'[j].tx /\ conn'[j].holder \in Callers
            /\ call'[conn'[j].holder].tenant = conn'[j].tenant
      <4>. SUFFICES ASSUME NEW j \in Conns, conn'[j].tenant # NoOne
                    PROVE  /\ conn'[j].tx /\ conn'[j].holder \in Callers
                           /\ call'[conn'[j].holder].tenant = conn'[j].tenant
        OBVIOUS
      <4>1. conn'[j] = conn[j]
        BY <1>5
      <4>2. /\ conn[j].tx /\ conn[j].holder \in Callers
            /\ call[conn[j].holder].tenant = conn[j].tenant
        BY <4>1 DEF PoolInv, NoForeignContext
      <4>3. \A d \in Callers : call'[d].tenant = call[d].tenant
        BY <2>3, <2>6 DEF r
      <4>. QED  BY <4>1, <4>2, <4>3
    <3>. QED  BY <3>1, <3>2 DEF Transactions, InTransaction, NoForeignContext
  <2>. QED  BY <2>7, <2>8, <2>9, <2>10, <2>11 DEF PoolInv
<1>. QED  BY <1>6, <1>7

\* Every step of the pool keeps its invariant.
LEMMA PoolNext == PoolInv /\ [Next]_vars => PoolInv'
<1>. SUFFICES ASSUME PoolInv, [Next]_vars PROVE PoolInv'
  OBVIOUS
<1>1. CASE UNCHANGED vars
  BY <1>1 DEF vars, PoolInv, PoolShape, Holdings, Queueing, Transactions, InTransaction,
         NoForeignContext,
              GaveUp, At
<1>2. ASSUME NEW c \in Callers,
             \/ Start(c) \/ Step(c) \/ TimeOut(c) \/ CloseEarly(c) \/ FailStatement(c)
             \/ Cancel(c) \/ GiveUp(c)
      PROVE  PoolInv'
  <2>1. Insert(c) => \/ Insert(c) /\ call' = Done(c)
                     \/ Insert(c) /\ call' = Failing(c) /\ UNCHANGED projects
    BY DEF Insert
  <2>. QED  BY <1>2, <2>1, PoolAsks, PoolStatements, PoolFails, PoolReleases DEF Step
<1>3. ASSUME NEW k \in Conns, Grant(k) PROVE PoolInv'
  BY <1>3, PoolGrants
<1>. QED  BY <1>1, <1>2, <1>3 DEF Next

\* What the invariant says of calls that ended and of the types.
LEMMA PoolInvClean == PoolInv => TypeOK /\ ConnectionsAreClean
<1>. SUFFICES ASSUME PoolInv PROVE TypeOK /\ ConnectionsAreClean
  OBVIOUS
<1>1. ASSUME NEW c \in Callers, call[c].end # "running"
      PROVE  /\ c \in Range(waiting) => GaveUp(c)
             /\ \A k \in Conns : conn[k].holder = c => call[c].kind = "middleware" \/ GaveUp(c)
  <2>1. c \in Range(waiting) => GaveUp(c)
    BY <1>1 DEF PoolInv, Queueing, At
  <2>2. ASSUME NEW k \in Conns, conn[k].holder = c, ~GaveUp(c)
        PROVE  call[c].kind = "middleware"
    <3>1. k \in Range(call[c].held)
      BY <2>2 DEF PoolInv, Holdings
    <3>2. call[c].held # <<>>
      BY <3>1 DEF Range
    <3>. QED  BY <1>1, <3>2, CallFields DEF PoolInv, Stands
  <2>. QED  BY <2>1, <2>2
<1>2. ASSUME NEW c \in Callers, call[c].todo # <<>>
      PROVE  At(c, "connect") \/ GaveUp(c) \/ call[c].held # <<>>
  <2>. SUFFICES ASSUME call[c].held = <<>>, ~GaveUp(c) PROVE At(c, "connect")
    OBVIOUS
  <2>1. /\ Rests(call[c].kind, call[c].todo, 0) /\ call[c].kind \in Kinds
        /\ call[c].end \in {"off", "running", "ok", "failed"}
    BY CallFields DEF PoolInv, Stands
  <2>2. call[c].end = "running"
    BY <1>2, <2>1 DEF PoolInv, Stands, GaveUp
  <2>. QED  BY <1>2, <2>1, <2>2, ProgramRests DEF Rests, At
<1>3. TypeOK
  BY <1>2 DEF PoolInv, PoolShape, Queueing, TypeOK, CallRecords, ConnRecords
<1>. QED  BY <1>1, <1>3 DEF PoolInv, ConnectionsAreClean, LossesHaveReason

\* A step of the joint specification is one of the pool or leaves it alone.
LEMMA JointPool == [JointNext]_jointVars => [Next]_vars
  BY DEF JointNext, jointVars, vars

\* Every variable of the pool has its type, a caller waits only at its connect()
\* or after it gave up, and no statement and no release comes without a connection.
THEOREM PoolTyped == JointSpec => []TypeOK
<1>1. JointInit => PoolInv
  BY PoolInit DEF JointInit
<1>. QED  BY <1>1, PoolInvClean, PoolNext, JointPool, PTL DEF JointSpec

\* For any number of callers, connections, tenants and failing statements: no
\* pooled connection carries a tenant's context to another call, and a call that
\* ended has lost a connection only where the middleware or a health check does.
THEOREM PoolIsClean == JointSpec => []ConnectionsAreClean
<1>1. JointInit => PoolInv
  BY PoolInit DEF JointInit
<1>. QED  BY <1>1, PoolInvClean, PoolNext, JointPool, PTL DEF JointSpec

-----------------------------------------------------------------------------
(***************************************************************************)
(* LruCache and QueuedPool.  Filtering a list keeps each of its keys once, *)
(* so that the list is as long as the map is large; what is put before the *)
(* first lower priority has asked after all those before it.               *)
(***************************************************************************)

\* The instances' names for the library's operators.
LEMMA SameOperators ==
  /\ \A S : Cache!L1!Cardinality(S) = Cardinality(S)
  /\ \A S, i : Cache!L1!Rank(S, i) = Cardinality({j \in S : j < i}) + 1
  /\ \A s : Cache!L1!IsInjective(s) <=> IsInjective(s)
  /\ \A s : Cache!L1!Range(s) = Range(s)
<1>1. ASSUME NEW S PROVE Cache!L1!Cardinality(S) = Cardinality(S)
  BY DEF Cache!L1!Cardinality, Cardinality
<1>2. \A S, i : Cache!L1!Rank(S, i) = Cardinality({j \in S : j < i}) + 1
  BY <1>1 DEF Cache!L1!Rank
<1>. QED  BY <1>1, <1>2 DEF Cache!L1!IsInjective, IsInjective, Cache!L1!Range, Range

\* The numbers of a finite set have the places from 1 on.
LEMMA RanksFit ==
  ASSUME NEW S \in SUBSET Int, IsFiniteSet(S)
  PROVE  /\ Cardinality(S) \in Nat
         /\ \A i, j \in S : i < j => Cache!L1!Rank(S, i) < Cache!L1!Rank(S, j)
         /\ \A i \in S : Cache!L1!Rank(S, i) \in 1..Cardinality(S)
         /\ \A n \in 1..Cardinality(S) : \E i \in S : Cache!L1!Rank(S, i) = n
<1>. DEFINE Below(i) == {j \in S : j < i}
            c == Cardinality(S)
            T == 1..c
            f == [i \in S |-> Cache!L1!Rank(S, i)]
<1>1. c \in Nat
  BY FS_CardinalityType
<1>2. ASSUME NEW i \in S
      PROVE  IsFiniteSet(Below(i)) /\ Cardinality(Below(i)) \in Nat /\ Cardinality(Below(i)) < c
  <2>1. Below(i) \subseteq S /\ i \notin Below(i)
    OBVIOUS
  <2>2. IsFiniteSet(Below(i)) /\ Cardinality(Below(i)) \in Nat
    BY <2>1, FS_Subset, FS_CardinalityType
  <2>3. Below(i) # S
    BY <2>1
  <2>. QED  BY <1>1, <2>1, <2>2, <2>3, FS_Subset
<1>3. \A i \in S : Cache!L1!Rank(S, i) \in T
  <2>1. \A i \in S : Cache!L1!Rank(S, i) = Cardinality(Below(i)) + 1
    BY SameOperators
  <2>. HIDE DEF Below
  <2>. QED  BY <1>1, <1>2, <2>1
<1>4. ASSUME NEW i \in S, NEW j \in S, i < j PROVE Cache!L1!Rank(S, i) < Cache!L1!Rank(S, j)
  <2>1. Below(i) \subseteq Below(j) /\ i \in Below(j) /\ i \notin Below(i)
    <3>1. i \in Int /\ j \in Int /\ \A x \in S : x \in Int
      OBVIOUS
    <3>2. \A x \in S : x < i => x < j
      BY <1>4, <3>1
    <3>3. ~(i < i)
      BY <3>1
    <3>. QED  BY <1>4, <3>2, <3>3
  <2>2. Below(i) # Below(j)
    BY <2>1
  <2>3. Cardinality(Below(i)) < Cardinality(Below(j))
    BY <1>2, <2>1, <2>2, FS_Subset
  <2>. QED  BY <1>2, <2>3, SameOperators
<1>5. f \in [S -> T] /\ \A i, j \in S : f[i] = f[j] => i = j
  <2>1. f \in [S -> T]
    BY <1>3
  <2>2. ASSUME NEW i \in S, NEW j \in S, i # j PROVE f[i] # f[j]
    <3>1. i < j \/ j < i
      BY <2>2
    <3>2. Cache!L1!Rank(S, i) \in Nat /\ Cache!L1!Rank(S, j) \in Nat
      BY <1>1, <1>3
    <3>3. Cache!L1!Rank(S, i) < Cache!L1!Rank(S, j) \/ Cache!L1!Rank(S, j) < Cache!L1!Rank(S, i)
      BY <1>4, <3>1
    <3>. QED  BY <3>2, <3>3
  <2>. QED  BY <2>1, <2>2
<1>6. IsFiniteSet(T) /\ Cardinality(T) = c
  <2>1. /\ IsFiniteSet(T)
        /\ Cardinality(T) = IF 1 > c THEN 0 ELSE c - 1 + 1
    <3>. HIDE DEF c
    <3>. QED  BY <1>1, FS_Interval
  <2>. HIDE DEF T, c
  <2>. QED  BY <1>1, <2>1
<1>7. f \in Surjection(S, T)
  <2>. HIDE DEF f, T
  <2>1. f \in Injection(S, T)
    BY <1>5 DEF Injection, IsInjective
  <2>. QED  BY <1>6, <2>1, FS_Injection
<1>8. \A n \in T : \E i \in S : Cache!L1!Rank(S, i) = n
  <2>. HIDE DEF T
  <2>. QED  BY <1>7 DEF Surjection
<1>. QED  BY <1>1, <1>3, <1>4, <1>8

\* A sequence without repetition is as long as its range is large.
LEMMA OnceLength ==
  ASSUME NEW S, NEW s \in Seq(S), IsInjective(s)
  PROVE  IsFiniteSet(Range(s)) /\ Cardinality(Range(s)) = Len(s)
<1>. DEFINE D == 1..Len(s)  R == Range(s)
<1>1. Len(s) \in Nat /\ DOMAIN s = D
  BY LenProperties
<1>2. IsFiniteSet(D) /\ Cardinality(D) = Len(s)
  <2>1. IsFiniteSet(D) /\ Cardinality(D) = IF 1 > Len(s) THEN 0 ELSE Len(s) - 1 + 1
    BY <1>1, FS_Interval
  <2>. HIDE DEF D
  <2>. QED  BY <1>1, <2>1
<1>3. s \in Surjection(D, R) /\ s \in Injection(D, R)
  <2>1. s \in [D -> R] /\ \A x \in R : \E i \in D : s[i] = x
    BY <1>1 DEF Range
  <2>2. \A i, j \in D : s[i] = s[j] => i = j
    BY <1>1 DEF IsInjective
  <2>. HIDE DEF D, R
  <2>3. s \in Surjection(D, R)
    BY <2>1 DEF Surjection
  <2>4. s \in Injection(D, R)
    BY <2>1, <2>2 DEF Injection, IsInjective
  <2>. QED  BY <2>3, <2>4
<1>. HIDE DEF D, R
<1>. QED  BY <1>2, <1>3, FS_Surjection DEF R

\* filter takes out the keys that are gone, and leaves the others once each.
LEMMA WithoutKeeps ==
  ASSUME NEW s \in Seq(Keys), IsInjective(s), NEW gone
  PROVE  LET t == Cache!L1!Without(s, gone)
         IN  /\ t \in Seq(Keys) /\ IsInjective(t)
             /\ Range(t) = Range(s) \ gone
<1>. DEFINE kept == {i \in DOMAIN s : s[i] \notin gone}
            c == Cardinality(kept)
            Nth(n) == CHOOSE i \in kept : Cache!L1!Rank(kept, i) = n
            t == Cache!L1!Without(s, gone)
<1>1. Len(s) \in Nat /\ DOMAIN s = 1..Len(s) /\ \A i \in 1..Len(s) : s[i] \in Keys
  BY LenProperties, ElementOfSeq
<1>2. kept \in SUBSET Int /\ IsFiniteSet(kept) /\ kept \subseteq DOMAIN s
  <2>1. IsFiniteSet(1..Len(s))
    BY <1>1, FS_Interval
  <2>2. kept \in SUBSET (1..Len(s))
    BY <1>1
  <2>3. IsFiniteSet(kept)
    <3>. HIDE DEF kept
    <3>. QED  BY <2>1, <2>2, FS_Subset
  <2>. QED  BY <1>1, <2>3
<1>3. t = [n \in 1..c |-> s[Nth(n)]]
  BY SameOperators DEF Cache!L1!Without
<1>. HIDE DEF kept
<1>4. c \in Nat /\ \A i \in kept : Cache!L1!Rank(kept, i) \in 1..c
  BY <1>2, RanksFit
<1>5. ASSUME NEW n \in 1..c PROVE Nth(n) \in kept /\ Cache!L1!Rank(kept, Nth(n)) = n
  <2>. DEFINE P(i) == Cache!L1!Rank(kept, i) = n
  <2>1. \E i \in kept : P(i)
    BY <1>2, RanksFit
  <2>2. Nth(n) = CHOOSE i \in kept : P(i)
    OBVIOUS
  <2>3. Nth(n) \in kept /\ P(Nth(n))
    <3>. HIDE DEF P, Nth
    <3>. QED  BY <2>1, <2>2
  <2>. QED  BY <2>3
<1>. HIDE DEF Nth, c, t
<1>6. t \in Seq(Keys) /\ DOMAIN t = 1..c /\ \A n \in 1..c : t[n] = s[Nth(n)]
  <2>1. \A n \in 1..c : s[Nth(n)] \in Keys
    BY <1>1, <1>2, <1>5
  <2>2. t \in [1..c -> Keys]
    BY <1>3, <2>1
  <2>. QED  BY <1>3, <1>4, <2>2, SeqDef
<1>7. IsInjective(t)
  <2>. SUFFICES ASSUME NEW n \in 1..c, NEW m \in 1..c, t[n] = t[m] PROVE n = m
    BY <1>6 DEF IsInjective
  <2>1. Nth(n) = Nth(m)
    BY <1>2, <1>5, <1>6 DEF IsInjective
  <2>. QED  BY <1>5, <2>1
<1>8. Range(t) \subseteq Range(s) \ gone
  <2>. SUFFICES ASSUME NEW n \in 1..c PROVE s[Nth(n)] \in Range(s) \ gone
    BY <1>6 DEF Range
  <2>. QED  BY <1>5 DEF kept, Range
<1>9. Range(s) \ gone \subseteq Range(t)
  <2>. SUFFICES ASSUME NEW i \in kept PROVE s[i] \in Range(t)
    BY DEF Range, kept
  <2>1. Cache!L1!Rank(kept, i) \in 1..c
    BY <1>4
  <2>2. /\ Nth(Cache!L1!Rank(kept, i)) \in kept
        /\ Cache!L1!Rank(kept, Nth(Cache!L1!Rank(kept, i))) = Cache!L1!Rank(kept, i)
    BY <1>5, <2>1
  <2>3. Nth(Cache!L1!Rank(kept, i)) = i
    <3>. DEFINE j == Nth(Cache!L1!Rank(kept, i))
    <3>1. j \in kept /\ Cache!L1!Rank(kept, j) = Cache!L1!Rank(kept, i)
      BY <2>2
    <3>. HIDE DEF j
    <3>2. j \in Int /\ i \in Int /\ Cache!L1!Rank(kept, i) \in Nat
      BY <1>2, <1>4, <3>1
    <3>3. ~(i < j) /\ ~(j < i)
      BY <1>2, <3>1, <3>2, RanksFit
    <3>4. i = j
      BY <3>2, <3>3
    <3>. QED  BY <3>4 DEF j
  <2>. QED  BY <1>6, <2>1, <2>3 DEF Range
<1>. QED  BY <1>6, <1>7, <1>8, <1>9 DEF t

\* A cache whose list is in step with its map.
LruFits(c) == c \in Cache!L1!Caches /\ Cache!L1!OrderMatchesCache(c)

\* The same of the list and the map.
ListFits(order, value) ==
  /\ order \in Seq(Keys) /\ IsInjective(order) /\ Len(order) <= MaxSize
  /\ value \in [Keys -> (0..MaxWrites) \cup {-1}]
  /\ Range(order) = {k \in Keys : value[k] # -1}

LEMMA LruFitsIs ==
  /\ \A order, value :
       LruFits([order |-> order, value |-> value]) <=> ListFits(order, value)
  /\ \A c : LruFits(c) => /\ c = [order |-> c.order, value |-> c.value]
                          /\ ListFits(c.order, c.value)
<1>1. ASSUME NEW order, NEW value
      PROVE  LruFits([order |-> order, value |-> value]) <=> ListFits(order, value)
  BY SameOperators DEF LruFits, ListFits, Cache!L1!Caches, Cache!L1!OrderMatchesCache,
     Cache!L1!Cached, Cache!L1!None, Cache!Versions
<1>2. ASSUME NEW c, LruFits(c)
      PROVE  c = [order |-> c.order, value |-> c.value]
  BY <1>2 DEF LruFits, Cache!L1!Caches
<1>3. ASSUME NEW c, LruFits(c) PROVE ListFits(c.order, c.value)
  <2>1. LruFits([order |-> c.order, value |-> c.value])
    BY <1>2, <1>3
  <2>. QED  BY <1>1, <2>1
<1>. QED  BY <1>1, <1>2, <1>3

\* Keys that leave the list and the map together.
LEMMA LruDrops ==
  ASSUME NEW order, NEW value, ListFits(order, value), NEW gone, NEW new,
         new \in [Keys -> (0..MaxWrites) \cup {-1}],
         \A k \in Keys : new[k] = IF k \in gone THEN -1 ELSE value[k]
  PROVE  ListFits(Cache!L1!Without(order, gone), new)
<1>. DEFINE t == Cache!L1!Without(order, gone)
<1>1. t \in Seq(Keys) /\ IsInjective(t) /\ Range(t) = Range(order) \ gone
  BY WithoutKeeps DEF ListFits
<1>. HIDE DEF t
<1>2. Len(t) <= Len(order)
  <2>1. IsFiniteSet(Range(order)) /\ Cardinality(Range(order)) = Len(order)
    BY OnceLength DEF ListFits
  <2>2. Cardinality(Range(t)) = Len(t)
    BY <1>1, OnceLength
  <2>. QED  BY <1>1, <2>1, <2>2, FS_Subset
<1>3. Len(t) \in Nat /\ Len(order) \in Nat /\ MaxSize \in Nat
  BY <1>1, LenProperties, DatabaseAssumption DEF ListFits
<1>4. Len(t) <= MaxSize
  BY <1>2, <1>3 DEF ListFits
<1>5. Range(t) = {k \in Keys : new[k] # -1}
  BY <1>1 DEF ListFits
<1>. QED  BY <1>1, <1>4, <1>5 DEF ListFits, t

LEMMA LruDrop == ASSUME NEW c, LruFits(c), NEW k PROVE LruFits(Cache!L1!Drop(c, k))
<1>. DEFINE new == [c.value EXCEPT ![k] = -1]
<1>1. ListFits(c.order, c.value)
  BY LruFitsIs
<1>2. new \in [Keys -> (0..MaxWrites) \cup {-1}]
      /\ \A j \in Keys : new[j] = IF j \in {k} THEN -1 ELSE c.value[j]
  BY <1>1 DEF ListFits
<1>3. ListFits(Cache!L1!Without(c.order, {k}), new)
  <2>. HIDE DEF new
  <2>. QED  BY <1>1, <1>2, LruDrops
<1>. QED  BY <1>3, LruFitsIs DEF Cache!L1!Drop, Cache!L1!None

LEMMA LruDropPrefix == ASSUME NEW c, LruFits(c) PROVE LruFits(Cache!L1!DropPrefix(c))
<1>. DEFINE new == [k \in Keys |-> IF k \in Prefixed THEN -1 ELSE c.value[k]]
<1>1. ListFits(c.order, c.value)
  BY LruFitsIs
<1>2. new \in [Keys -> (0..MaxWrites) \cup {-1}]
      /\ \A j \in Keys : new[j] = IF j \in Prefixed THEN -1 ELSE c.value[j]
  BY <1>1 DEF ListFits
<1>3. ListFits(Cache!L1!Without(c.order, Prefixed), new)
  <2>. HIDE DEF new
  <2>. QED  BY <1>1, <1>2, LruDrops
<1>. QED  BY <1>3, LruFitsIs DEF Cache!L1!DropPrefix, Cache!L1!None

\* A key moves to the end of the list, or is put there.
LEMMA LruMoves ==
  ASSUME NEW s \in Seq(Keys), IsInjective(s), NEW k \in Keys
  PROVE  LET t == Append(Cache!L1!Without(s, {k}), k)
         IN  /\ t \in Seq(Keys) /\ IsInjective(t) /\ Range(t) = Range(s) \cup {k}
             /\ Len(t) <= Len(s) + 1 /\ (k \in Range(s) => Len(t) = Len(s))
<1>. DEFINE w == Cache!L1!Without(s, {k})
            t == Append(w, k)
<1>1. w \in Seq(Keys) /\ IsInjective(w) /\ Range(w) = Range(s) \ {k}
  BY WithoutKeeps
<1>. HIDE DEF w
<1>2. t \in Seq(Keys) /\ IsInjective(t) /\ Range(t) = Range(s) \cup {k}
  <2>1. k \notin Range(w)
    BY <1>1
  <2>. QED  BY <1>1, <2>1, AppendOnce
<1>. HIDE DEF t
<1>3. /\ IsFiniteSet(Range(s)) /\ Cardinality(Range(s)) = Len(s)
      /\ Cardinality(Range(t)) = Len(t) /\ Len(s) \in Nat /\ Len(t) \in Nat
  BY <1>2, OnceLength, LenProperties
<1>4. Cardinality(Range(s) \cup {k}) =
        IF k \in Range(s) THEN Cardinality(Range(s)) ELSE Cardinality(Range(s)) + 1
  BY <1>3, FS_AddElement
<1>5. Len(t) <= Len(s) + 1 /\ (k \in Range(s) => Len(t) = Len(s))
  BY <1>2, <1>3, <1>4
<1>. QED  BY <1>2, <1>5 DEF t, w

LEMMA LruTouch ==
  ASSUME NEW c, LruFits(c), NEW k \in Keys, c.value[k] # -1
  PROVE  LruFits(Cache!L1!Touch(c, k))
<1>. DEFINE t == Append(Cache!L1!Without(c.order, {k}), k)
<1>1. ListFits(c.order, c.value) /\ c = [order |-> c.order, value |-> c.value]
  BY LruFitsIs
<1>2. k \in Range(c.order)
  BY <1>1 DEF ListFits
<1>3. t \in Seq(Keys) /\ IsInjective(t) /\ Range(t) = Range(c.order) /\ Len(t) = Len(c.order)
  BY <1>1, <1>2, LruMoves DEF ListFits
<1>. HIDE DEF t
<1>4. ListFits(t, c.value)
  BY <1>1, <1>3 DEF ListFits
<1>5. Cache!L1!Touch(c, k) = [order |-> t, value |-> c.value]
  <2>1. Cache!L1!Touch(c, k) = [c EXCEPT !.order = t]
    BY DEF Cache!L1!Touch, t
  <2>. QED  BY <1>1, <2>1
<1>. QED  BY <1>4, <1>5, LruFitsIs

LEMMA LruPut ==
  ASSUME NEW c, LruFits(c), NEW k \in Keys, NEW v \in 0..MaxWrites
  PROVE  LruFits(Cache!L1!Put(c, k, v))
<1>. DEFINE t == Append(Cache!L1!Without(c.order, {k}), k)
            new == [c.value EXCEPT ![k] = v]
            d == [order |-> t, value |-> new]
<1>1. ListFits(c.order, c.value)
  BY LruFitsIs
<1>2. /\ t \in Seq(Keys) /\ IsInjective(t) /\ Range(t) = Range(c.order) \cup {k}
      /\ Len(t) <= Len(c.order) + 1
  BY <1>1, LruMoves DEF ListFits
<1>3. /\ Len(t) \in Nat /\ MaxSize \in Nat /\ Len(t) <= MaxSize + 1
      /\ IsFiniteSet(Range(t)) /\ Cardinality(Range(t)) = Len(t)
  <2>1. Len(c.order) \in Nat /\ Len(c.order) <= MaxSize /\ MaxSize \in Nat
    BY <1>1, LenProperties, DatabaseAssumption DEF ListFits
  <2>2. Len(t) \in Nat /\ IsFiniteSet(Range(t)) /\ Cardinality(Range(t)) = Len(t)
    <3>. HIDE DEF t
    <3>. QED  BY <1>2, OnceLength, LenProperties
  <2>. HIDE DEF t
  <2>. QED  BY <1>2, <2>1, <2>2
<1>. HIDE DEF t
<1>4. new \in [Keys -> (0..MaxWrites) \cup {-1}] /\ Range(t) = {j \in Keys : new[j] # -1}
  <2>1. v # -1
    BY DatabaseAssumption
  <2>. QED  BY <1>1, <1>2, <2>1 DEF ListFits
<1>. HIDE DEF new
<1>5. Cache!L1!Put(c, k, v) = Cache!L1!Evict(d) /\ d.order = t /\ d.value = new
  BY DEF Cache!L1!Put, t, new
<1>6. Cache!L1!Cardinality(Cache!L1!Cached(d)) = Len(t)
  BY <1>3, <1>4, <1>5, SameOperators DEF Cache!L1!Cached, Cache!L1!None
<1>7. CASE Len(t) <= MaxSize
  <2>1. Cache!L1!Evict(d) = d
    BY <1>3, <1>6, <1>7 DEF Cache!L1!Evict
  <2>2. ListFits(t, new)
    BY <1>2, <1>4, <1>7 DEF ListFits
  <2>. QED  BY <1>5, <2>1, <2>2, LruFitsIs
<1>8. CASE ~(Len(t) <= MaxSize)
  <2>. DEFINE h == Head(t)
              w == Cache!L1!Without(t, {h})
              left == [new EXCEPT ![h] = -1]
  <2>1. Cache!L1!Evict(d) = [order |-> w, value |-> left]
    BY <1>3, <1>5, <1>6, <1>8 DEF Cache!L1!Evict, Cache!L1!Drop, Cache!L1!None
  <2>2. h \in Range(t) /\ Len(t) = MaxSize + 1
    <3>1. Len(t) > 0 /\ Len(t) = MaxSize + 1 /\ 1 \in DOMAIN t /\ h = t[1]
      BY <1>2, <1>3, <1>8, LenProperties
    <3>. QED  BY <3>1 DEF Range
  <2>3. w \in Seq(Keys) /\ IsInjective(w) /\ Range(w) = Range(t) \ {h}
    BY <1>2, WithoutKeeps
  <2>. HIDE DEF w, h
  <2>4. Len(w) = MaxSize
    <3>1. Cardinality(Range(t) \ {h}) = Len(t) - 1
      BY <1>3, <2>2, FS_RemoveElement
    <3>2. Cardinality(Range(w)) = Len(w)
      BY <2>3, OnceLength
    <3>. QED  BY <1>3, <2>2, <2>3, <3>1, <3>2
  <2>5. left \in [Keys -> (0..MaxWrites) \cup {-1}] /\ Range(w) = {j \in Keys : left[j] # -1}
    BY <1>4, <2>2, <2>3
  <2>. HIDE DEF left
  <2>6. ListFits(w, left)
    BY <1>3, <2>3, <2>4, <2>5 DEF ListFits
  <2>. QED  BY <1>5, <2>1, <2>6, LruFitsIs
<1>. QED  BY <1>7, <1>8

\* The cache is empty at first.
LEMMA LruEmpty == LruFits(Cache!L1!Empty)
<1>. DEFINE new == [k \in Keys |-> -1]
<1>1. <<>> \in Seq(Keys) /\ IsInjective(<<>>) /\ Len(<<>>) <= MaxSize /\ Range(<<>>) = {}
  BY EmptySeq, DatabaseAssumption DEF IsInjective, Range
<1>2. new \in [Keys -> (0..MaxWrites) \cup {-1}] /\ {k \in Keys : new[k] # -1} = {}
  OBVIOUS
<1>3. ListFits(<<>>, new)
  <2>. HIDE DEF new
  <2>. QED  BY <1>1, <1>2 DEF ListFits
<1>. QED  BY <1>3, LruFitsIs DEF Cache!L1!Empty, Cache!L1!None

\* The types of the cache, and a list that fits its map.
CacheValues == (0..MaxWrites) \cup {-1}
\* A reader that has something to put into the cache has its value.
Carries(pc, v) == pc \in {"populate", "set"} => v # -1
TypedReaders == {r \in [pc : Cache!ReaderPcs, key : Keys, value : CacheValues] :
                   Carries(r.pc, r.value)}
TypedWriters == [pc : Cache!WriterPcs, found : SUBSET Keys, keys : SUBSET Keys, key : Keys]
TypedEntries == [value : CacheValues, missed : BOOLEAN]

CacheTyped ==
  /\ hasL2 \in BOOLEAN /\ row \in [Keys -> 0..MaxWrites] /\ LruFits(l1)
  /\ l2 \in [Keys -> TypedEntries] /\ tagged \subseteq Keys /\ keyTags \subseteq Keys
  /\ reader \in [Queries -> TypedReaders] /\ writer \in TypedWriters
  /\ lost \in 0..MaxLost

LEMMA CacheTypes == CacheTyped => Cache!TypeOK /\ Cache!OrderMatchesCache
  BY DEF CacheTyped, Cache!OrderMatchesCache, Carries, Cache!TypeOK, CacheValues, TypedReaders, TypedWriters,
         TypedEntries, LruFits,
     Cache!None, Cache!L1!None, Cache!Versions

LEMMA CacheTypedInit == Cache!Init => CacheTyped
<1>. SUFFICES ASSUME Cache!Init PROVE CacheTyped
  OBVIOUS
<1>1. AnyKey \in Keys /\ 0 \in 0..MaxWrites /\ 0 \in 0..MaxLost
  BY DatabaseAssumption DEF AnyKey
<1>2. /\ hasL2 \in BOOLEAN /\ row = [k \in Keys |-> 0] /\ tagged = {} /\ keyTags = {} /\ lost = 0
      /\ l2 = [k \in Keys |-> [value |-> -1, missed |-> FALSE]]
      /\ reader = [q \in Queries |-> [pc |-> "idle", key |-> AnyKey, value |-> -1]]
      /\ writer = [pc |-> "idle", found |-> {}, keys |-> {}, key |-> AnyKey]
  BY DEF Cache!Init, Cache!Absent2, Cache!Idle, Cache!Quiet, Cache!None, Cache!L1!None, AnyKey
<1>3. LruFits(l1)
  BY LruEmpty DEF Cache!Init
<1>. QED  BY <1>1, <1>2, <1>3
     DEF CacheTyped, CacheValues, TypedReaders, Carries, TypedWriters, TypedEntries,
          Cache!ReaderPcs, Cache!WriterPcs

\* A query's record after a step.
LEMMA TypedRead ==
  ASSUME CacheTyped, NEW q \in Queries, NEW pc \in Cache!ReaderPcs
  PROVE  /\ pc \notin {"populate", "set"} =>
              [reader EXCEPT ![q].pc = pc] \in [Queries -> TypedReaders]
         /\ \A v \in CacheValues : Carries(pc, v) =>
              [reader EXCEPT ![q] = [reader[q] EXCEPT !.pc = pc, !.value = v]]
                \in [Queries -> TypedReaders]
<1>1. reader \in [Queries -> TypedReaders] /\ reader[q] \in TypedReaders
  BY DEF CacheTyped
<1>2. \A r \in TypedReaders : [reader EXCEPT ![q] = r] \in [Queries -> TypedReaders]
  BY <1>1
<1>3. pc \notin {"populate", "set"} => [reader[q] EXCEPT !.pc = pc] \in TypedReaders
  BY <1>1 DEF TypedReaders, Carries
<1>4. \A v \in CacheValues : Carries(pc, v) =>
        [reader[q] EXCEPT !.pc = pc, !.value = v] \in TypedReaders
  BY <1>1 DEF TypedReaders, Carries
<1>5. [reader EXCEPT ![q].pc = pc] = [reader EXCEPT ![q] = [reader[q] EXCEPT !.pc = pc]]
  OBVIOUS
<1>. QED  BY <1>2, <1>3, <1>4, <1>5

LEMMA CacheTypedReads ==
  ASSUME CacheTyped, NEW q \in Queries,
         Cache!ReadStep(q) \/ Cache!FailRead(q) \/ \E k \in Keys : Cache!Get(q, k)
  PROVE  CacheTyped'
<1>1. /\ hasL2 \in BOOLEAN /\ row \in [Keys -> 0..MaxWrites] /\ LruFits(l1)
      /\ l2 \in [Keys -> TypedEntries] /\ tagged \subseteq Keys /\ keyTags \subseteq Keys
      /\ reader \in [Queries -> TypedReaders] /\ writer \in TypedWriters
      /\ lost \in 0..MaxLost
  BY DEF CacheTyped
<1>2. /\ reader[q].key \in Keys /\ reader[q].value \in CacheValues
      /\ row[reader[q].key] \in CacheValues /\ l2[reader[q].key].value \in CacheValues
      /\ l2[reader[q].key] \in TypedEntries
  BY <1>1 DEF TypedReaders, TypedEntries, CacheValues
<1>3. UNCHANGED <<hasL2, row, writer>>
  BY DEF Cache!ReadStep, Cache!Get, Cache!GetL2, Cache!Populate, Cache!QueryRow, Cache!Set,
         Cache!SetEx, Cache!SAdd, Cache!FailRead
<1>4. ASSUME NEW k \in Keys, Cache!Get(q, k) PROVE CacheTyped'
  <2>1. UNCHANGED <<l2, tagged, keyTags, lost>>
    BY <1>4 DEF Cache!Get
  <2>2. CASE l1.value[k] # -1
    <3>1. l1' = Cache!L1!Touch(l1, k) /\ reader' = reader
      BY <1>4, <2>2 DEF Cache!Get, Cache!None, Cache!L1!None
    <3>2. LruFits(l1')
      BY <1>1, <2>2, <3>1, LruTouch
    <3>. QED  BY <1>1, <1>3, <2>1, <3>1, <3>2 DEF CacheTyped
  <2>3. CASE l1.value[k] = -1
    <3>. DEFINE r == [pc |-> IF hasL2 THEN "get" ELSE "query", key |-> k, value |-> -1]
    <3>1. l1' = l1 /\ reader' = [reader EXCEPT ![q] = r]
      BY <1>4, <2>3 DEF Cache!Get, Cache!None, Cache!L1!None
    <3>2. r \in TypedReaders
      BY DEF TypedReaders, Carries, Cache!ReaderPcs, CacheValues
    <3>. HIDE DEF r
    <3>3. reader' \in [Queries -> TypedReaders]
      BY <1>1, <3>1, <3>2
    <3>. QED  BY <1>1, <1>3, <2>1, <3>1, <3>3 DEF CacheTyped
  <2>. QED  BY <2>2, <2>3
<1>5. CASE Cache!GetL2(q)
  <2>1. UNCHANGED <<l1, l2, tagged, keyTags, lost>>
    BY <1>5 DEF Cache!GetL2
  <2>. DEFINE v == l2[reader[q].key].value
              pc == IF v # -1 THEN "populate" ELSE "query"
  <2>2. reader' = [reader EXCEPT ![q] = [reader[q] EXCEPT !.pc = pc, !.value = v]]
    BY <1>5 DEF Cache!GetL2, Cache!None, Cache!L1!None
  <2>3. pc \in Cache!ReaderPcs /\ v \in CacheValues /\ Carries(pc, v)
    BY <1>2 DEF Cache!ReaderPcs, Carries
  <2>. HIDE DEF v, pc
  <2>4. reader' \in [Queries -> TypedReaders]
    BY <2>2, <2>3, TypedRead
  <2>. QED  BY <1>1, <1>3, <2>1, <2>4 DEF CacheTyped
<1>6. CASE Cache!QueryRow(q)
  <2>1. UNCHANGED <<l1, l2, tagged, keyTags, lost>>
    BY <1>6 DEF Cache!QueryRow
  <2>. DEFINE v == row[reader[q].key]
  <2>2. reader' = [reader EXCEPT ![q] = [reader[q] EXCEPT !.pc = "set", !.value = v]]
    BY <1>6 DEF Cache!QueryRow
  <2>3. "set" \in Cache!ReaderPcs /\ v \in CacheValues /\ Carries("set", v)
    BY <1>1, <1>2, DatabaseAssumption DEF Cache!ReaderPcs, Carries, TypedReaders
  <2>. HIDE DEF v
  <2>4. reader' \in [Queries -> TypedReaders]
    BY <2>2, <2>3, TypedRead
  <2>. QED  BY <1>1, <1>3, <2>1, <2>4 DEF CacheTyped
<1>7. CASE Cache!Populate(q) \/ Cache!Set(q) \/ Cache!SetEx(q) \/ Cache!SAdd(q) \/ Cache!FailRead(q)
  <2>1. PICK pc \in Cache!ReaderPcs \ {"populate", "set"} : reader' = [reader EXCEPT ![q].pc = pc]
    BY <1>7 DEF Cache!Populate, Cache!Set, Cache!SetEx, Cache!SAdd, Cache!FailRead, Cache!Read,
                Cache!ReaderPcs
  <2>2. reader' \in [Queries -> TypedReaders]
    BY <2>1, TypedRead
  <2>3. keyTags' \subseteq Keys /\ tagged' \subseteq Keys
    BY <1>1, <1>2, <1>7
    DEF Cache!Populate, Cache!Set, Cache!SetEx, Cache!SAdd, Cache!FailRead
  <2>4. lost' \in 0..MaxLost
    BY <1>1, <1>7, DatabaseAssumption
    DEF Cache!Populate, Cache!Set, Cache!SetEx, Cache!SAdd, Cache!FailRead
  <2>5. LruFits(l1')
    <3>1. CASE Cache!Populate(q) \/ Cache!Set(q)
      <4>1. l1' = Cache!L1!Put(l1, reader[q].key, reader[q].value)
        BY <3>1 DEF Cache!Populate, Cache!Set
      <4>2. reader[q].value \in 0..MaxWrites
        <5>1. reader[q] \in TypedReaders /\ reader[q].pc \in {"populate", "set"}
          BY <1>1, <3>1 DEF Cache!Populate, Cache!Set
        <5>. QED  BY <5>1 DEF TypedReaders, Carries, CacheValues
      <4>. QED  BY <1>1, <1>2, <4>1, <4>2, LruPut
    <3>2. CASE Cache!SetEx(q) \/ Cache!SAdd(q) \/ Cache!FailRead(q)
      BY <1>1, <3>2 DEF Cache!SetEx, Cache!SAdd, Cache!FailRead
    <3>. QED  BY <1>7, <3>1, <3>2
  <2>6. l2' \in [Keys -> TypedEntries]
    <3>1. CASE Cache!SetEx(q)
      <4>. DEFINE e == [value |-> reader[q].value, missed |-> TRUE]
      <4>1. e \in TypedEntries
        BY <1>2 DEF TypedEntries
      <4>2. l2' = [l2 EXCEPT ![reader[q].key] = e]
        BY <3>1 DEF Cache!SetEx
      <4>. HIDE DEF e
      <4>. QED  BY <1>1, <4>1, <4>2
    <3>2. CASE Cache!SAdd(q)
      <4>1. PICK b \in BOOLEAN : l2' = [l2 EXCEPT ![reader[q].key].missed = b]
        BY <1>2, <3>2 DEF Cache!SAdd, TypedEntries
      <4>. QED  BY <1>1, <4>1 DEF TypedEntries
    <3>3. CASE Cache!Populate(q) \/ Cache!Set(q) \/ Cache!FailRead(q)
      BY <1>1, <3>3 DEF Cache!Populate, Cache!Set, Cache!FailRead
    <3>. QED  BY <1>7, <3>1, <3>2, <3>3
  <2>. QED  BY <1>1, <1>3, <2>2, <2>3, <2>4, <2>5, <2>6 DEF CacheTyped
<1>. QED  BY <1>4, <1>5, <1>6, <1>7 DEF Cache!ReadStep

LEMMA CacheTypedOthers ==
  ASSUME CacheTyped,
         \/ Cache!WriteStep \/ Cache!FailWrite \/ Cache!ExpireTag
         \/ \E k \in Keys : Cache!WriteRow(k) \/ Cache!ExpireL1(k) \/ Cache!ExpireL2(k)
  PROVE  CacheTyped'
<1>. USE DEF CacheTyped
<1>1. writer.key \in Keys /\ writer.keys \subseteq Keys /\ writer \in TypedWriters
  BY DEF TypedWriters
<1>2. \A pc \in Cache!WriterPcs : [writer EXCEPT !.pc = pc] \in TypedWriters
  BY DEF TypedWriters
<1>. DEFINE none == [value |-> -1, missed |-> FALSE]
<1>3. none \in TypedEntries /\ \A k : [l2 EXCEPT ![k] = none] \in [Keys -> TypedEntries]
  <2>1. none \in TypedEntries
    BY DEF TypedEntries, CacheValues
  <2>. HIDE DEF none
  <2>. QED  BY <2>1
<1>4. ASSUME NEW gone PROVE Cache!Miss(gone) \in [Keys -> TypedEntries]
  <2>1. \A k \in Keys : /\ l2[k] \in TypedEntries
                        /\ [l2[k] EXCEPT !.missed = TRUE] \in TypedEntries
    BY DEF TypedEntries
  <2>. QED  BY <2>1 DEF Cache!Miss
<1>5. ASSUME NEW k \in Keys, Cache!WriteRow(k) PROVE CacheTyped'
  <2>1. row' \in [Keys -> 0..MaxWrites]
    BY <1>5, DatabaseAssumption DEF Cache!WriteRow
  <2>2. writer' \in TypedWriters
    BY <1>2, <1>5 DEF Cache!WriteRow, Cache!Go, Cache!WriterPcs
  <2>. QED  BY <1>5, <2>1, <2>2 DEF Cache!WriteRow
<1>6. CASE Cache!InvalidatePrefix
  <2>1. writer' \in TypedWriters
    BY <1>2, <1>6 DEF Cache!InvalidatePrefix, Cache!Go, Cache!WriterPcs
  <2>2. LruFits(l1')
    BY <1>6, LruDropPrefix DEF Cache!InvalidatePrefix
  <2>. QED  BY <1>6, <2>1, <2>2 DEF Cache!InvalidatePrefix
<1>7. CASE Cache!SMembers
  <2>1. writer' \in TypedWriters
    BY <1>1, <1>7 DEF Cache!SMembers, TypedWriters, Cache!WriterPcs
  <2>. QED  BY <1>7, <2>1 DEF Cache!SMembers
<1>8. CASE Cache!Delete
  <2>1. UNCHANGED <<hasL2, row, l2, tagged, keyTags, reader, lost>>
    BY <1>8 DEF Cache!Delete
  <2>2. CASE writer.keys = {}
    <3>1. writer' \in TypedWriters /\ l1' = l1
      BY <1>2, <1>8, <2>2 DEF Cache!Delete, Cache!Go, Cache!WriterPcs
    <3>. QED  BY <2>1, <3>1
  <2>3. CASE writer.keys # {}
    <3>1. PICK k \in writer.keys :
            /\ l1' = Cache!L1!Drop(l1, k)
            /\ writer' = [writer EXCEPT !.pc = "del", !.key = k, !.keys = writer.keys \ {k}]
      BY <1>8, <2>3 DEF Cache!Delete
    <3>2. writer' \in TypedWriters
      BY <1>1, <3>1 DEF TypedWriters, Cache!WriterPcs
    <3>3. LruFits(l1')
      BY <3>1, LruDrop
    <3>. QED  BY <2>1, <3>2, <3>3
  <2>. QED  BY <2>2, <2>3
<1>9. CASE Cache!Del \/ Cache!SRem \/ Cache!DelTag \/ Cache!FailWrite
  <2>1. writer' \in TypedWriters
    BY <1>2, <1>9
    DEF Cache!Del, Cache!SRem, Cache!DelTag, Cache!FailWrite, Cache!Go, Cache!WriterPcs
  <2>2. l2' \in [Keys -> TypedEntries]
    BY <1>3, <1>4, <1>9
    DEF Cache!Del, Cache!SRem, Cache!DelTag, Cache!FailWrite, Cache!Absent2, Cache!None,
        Cache!L1!None
  <2>3. tagged' \subseteq Keys /\ keyTags' \subseteq Keys
    BY <1>9 DEF Cache!Del, Cache!SRem, Cache!DelTag, Cache!FailWrite
  <2>4. lost' \in 0..MaxLost
    BY <1>9, DatabaseAssumption DEF Cache!Del, Cache!SRem, Cache!DelTag, Cache!FailWrite
  <2>5. UNCHANGED <<hasL2, row, l1, reader>>
    BY <1>9 DEF Cache!Del, Cache!SRem, Cache!DelTag, Cache!FailWrite
  <2>. QED  BY <2>1, <2>2, <2>3, <2>4, <2>5
<1>10. CASE Cache!ExpireTag
  <2>1. l2' \in [Keys -> TypedEntries]
    BY <1>4, <1>10 DEF Cache!ExpireTag
  <2>. QED  BY <1>10, <2>1 DEF Cache!ExpireTag
<1>11. ASSUME NEW k \in Keys, Cache!ExpireL1(k) PROVE CacheTyped'
  <2>1. LruFits(l1')
    BY <1>11, LruDrop DEF Cache!ExpireL1
  <2>. QED  BY <1>11, <2>1 DEF Cache!ExpireL1
<1>12. ASSUME NEW k \in Keys, Cache!ExpireL2(k) PROVE CacheTyped'
  <2>1. l2' \in [Keys -> TypedEntries]
    BY <1>3, <1>12 DEF Cache!ExpireL2, Cache!Absent2, Cache!None, Cache!L1!None
  <2>. QED  BY <1>12, <2>1 DEF Cache!ExpireL2
<1>. QED  BY <1>5, <1>6, <1>7, <1>8, <1>9, <1>10, <1>11, <1>12 DEF Cache!WriteStep

\* Every step of the cache keeps the types and the list.
LEMMA CacheTypedNext == CacheTyped /\ [Cache!Next]_cache => CacheTyped'
<1>1. CacheTyped /\ UNCHANGED cache => CacheTyped'
  BY DEF cache, CacheTyped
<1>. QED  BY <1>1, CacheTypedReads, CacheTypedOthers DEF Cache!Next

QueuedRecords == [state : {"off", "waiting", "served", "rejected"},
                  priority : Priorities \cup {0}, turn : Nat]

\* The requests that asked.
HaveAsked == {r \in Requests : request[r].state # "off"}

\* r comes before s in the queue.
Leads(r, s) ==
  \/ request[r].priority > request[s].priority
  \/ request[r].priority = request[s].priority /\ request[r].turn < request[s].turn

\* The queue of the pool: what QueueIsFair says, and that a request asks with a
\* turn that none before it has.
QueuedInv ==
  /\ queue \in Seq(Requests) /\ request \in [Requests -> QueuedRecords]
  /\ IsInjective(queue)
  /\ Range(queue) = {r \in Requests : request[r].state = "waiting"}
  /\ \A i, j \in 1..Len(queue) : i < j => Leads(queue[i], queue[j])
  /\ \A r \in Requests : request[r].state # "off" => request[r].turn < Cardinality(HaveAsked)

\* The invariant in the words of QueuedPool.
LEMMA QueuedFair == QueuedInv => Queued!TypeOK /\ Queued!QueueIsFair
<1>1. Queued!IsInjective(queue) <=> IsInjective(queue)
  BY DEF Queued!IsInjective, IsInjective
<1>2. Queued!Range(queue) = Range(queue)
  BY DEF Queued!Range, Range
<1>. QED  BY <1>1, <1>2
     DEF QueuedInv, Queued!TypeOK, Queued!QueueIsFair, QueuedRecords, Leads

\* An element is put into a sequence at a place.
LEMMA InsertAtProperties ==
  ASSUME NEW S, NEW s \in Seq(S), NEW i \in 1..(Len(s) + 1), NEW e \in S
  PROVE  LET t == Queued!InsertAt(s, i, e)
         IN  /\ t \in Seq(S) /\ Len(t) = Len(s) + 1
             /\ \A j \in 1..(Len(s) + 1) :
                  t[j] = IF j < i THEN s[j] ELSE IF j = i THEN e ELSE s[j - 1]
<1>. DEFINE n == Len(s)
            a == SubSeq(s, 1, i - 1)
            b == SubSeq(s, i, n)
            m == a \o <<e>>
            t == m \o b
<1>1. n \in Nat /\ \A j \in 1..n : s[j] \in S
  BY LenProperties, ElementOfSeq
<1>2. i \in Int /\ 1 <= i /\ i <= n + 1
  BY <1>1
<1>3. /\ a \in Seq(S) /\ Len(a) = i - 1 /\ \A j \in 1..(i - 1) : a[j] = s[j]
  <2>1. \A j \in 1..(i - 1) : s[j] \in S
    BY <1>1, <1>2
  <2>2. i - 1 \in Int
    BY <1>2
  <2>3. /\ a \in Seq(S) /\ Len(a) = IF 1 <= i - 1 THEN (i - 1) - 1 + 1 ELSE 0
        /\ \A j \in 1 .. (i - 1) - 1 + 1 : a[j] = s[1 + j - 1]
    BY <2>1, <2>2, SubSeqProperties
  <2>. HIDE DEF a
  <2>4. (i - 1) - 1 + 1 = i - 1 /\ (1 <= i - 1 \/ i - 1 = 0) /\ \A j \in 1..(i - 1) : 1 + j - 1 = j
    BY <1>2
  <2>. QED  BY <2>3, <2>4
<1>4. /\ b \in Seq(S) /\ Len(b) = n - i + 1 /\ \A j \in 1..(n - i + 1) : b[j] = s[i + j - 1]
  <2>1. \A j \in i..n : s[j] \in S
    BY <1>1, <1>2
  <2>2. /\ b \in Seq(S) /\ Len(b) = IF i <= n THEN n - i + 1 ELSE 0
        /\ \A j \in 1..(n - i + 1) : b[j] = s[i + j - 1]
    <3>. HIDE DEF n
    <3>. QED  BY <1>1, <1>2, <2>1, SubSeqProperties
  <2>. HIDE DEF b, n
  <2>3. i <= n \/ n - i + 1 = 0
    BY <1>1, <1>2
  <2>. QED  BY <2>2, <2>3
<1>. HIDE DEF a, b, n
<1>5. /\ m \in Seq(S) /\ Len(m) = i /\ \A j \in 1..i : m[j] = IF j < i THEN s[j] ELSE e
  <2>1. /\ <<e>> \in Seq(S) /\ Len(<<e>>) = 1 /\ <<e>>[1] = e
    OBVIOUS
  <2>2. /\ m \in Seq(S) /\ Len(m) = Len(a) + 1
        /\ \A j \in 1..(Len(a) + 1) : m[j] = IF j <= Len(a) THEN a[j] ELSE <<e>>[j - Len(a)]
    BY <1>3, <2>1, ConcatProperties
  <2>. HIDE DEF m
  <2>3. Len(m) = i
    BY <1>2, <1>3, <2>2
  <2>4. ASSUME NEW j \in 1..i PROVE m[j] = IF j < i THEN s[j] ELSE e
    <3>1. CASE j < i
      <4>1. j \in 1..(i - 1) /\ j \in 1..(Len(a) + 1) /\ j <= Len(a)
        BY <1>2, <1>3, <3>1
      <4>. QED  BY <1>3, <2>2, <3>1, <4>1
    <3>2. CASE j = i
      <4>1. j \in 1..(Len(a) + 1) /\ ~(j <= Len(a)) /\ j - Len(a) = 1
        BY <1>2, <1>3, <3>2
      <4>2. m[j] = <<e>>[1]
        BY <2>2, <4>1
      <4>. QED  BY <2>1, <3>2, <4>2
    <3>. QED  BY <1>2, <3>1, <3>2
  <2>. QED  BY <2>2, <2>3, <2>4
<1>. HIDE DEF m
<1>6. /\ t \in Seq(S) /\ Len(t) = n + 1
      /\ \A j \in 1..(n + 1) : t[j] = IF j <= i THEN m[j] ELSE b[j - i]
  <2>1. /\ t \in Seq(S) /\ Len(t) = Len(m) + Len(b)
        /\ \A j \in 1..(Len(m) + Len(b)) : t[j] = IF j <= Len(m) THEN m[j] ELSE b[j - Len(m)]
    BY <1>4, <1>5, ConcatProperties
  <2>. HIDE DEF t
  <2>2. Len(m) + Len(b) = n + 1
    BY <1>1, <1>2, <1>4, <1>5
  <2>. QED  BY <1>5, <2>1, <2>2
<1>7. t = Queued!InsertAt(s, i, e)
  BY DEF Queued!InsertAt, m, a, b, n
<1>. HIDE DEF t
<1>8. ASSUME NEW j \in 1..(n + 1)
      PROVE  t[j] = IF j < i THEN s[j] ELSE IF j = i THEN e ELSE s[j - 1]
  <2>1. CASE j <= i
    <3>1. j \in 1..i
      BY <1>1, <1>2, <2>1
    <3>. QED  BY <1>1, <1>2, <1>5, <1>6, <2>1, <3>1
  <2>2. CASE ~(j <= i)
    <3>1. j - i \in 1..(n - i + 1) /\ i + (j - i) - 1 = j - 1 /\ ~(j < i) /\ j # i
      BY <1>1, <1>2, <2>2
    <3>2. t[j] = b[j - i] /\ b[j - i] = s[i + (j - i) - 1]
      BY <1>4, <1>6, <2>2, <3>1
    <3>. QED  BY <3>1, <3>2
  <2>. QED  BY <2>1, <2>2
<1>. QED  BY <1>6, <1>7, <1>8 DEF n

\* How many asked: one more once another request asks.
LEMMA AskedCounts ==
  /\ IsFiniteSet(HaveAsked) /\ Cardinality(HaveAsked) \in Nat
  /\ Queued!Asked = Cardinality(HaveAsked)
  /\ \A r \in Requests : request[r].state = "off" =>
       Cardinality(HaveAsked \cup {r}) = Cardinality(HaveAsked) + 1
<1>1. IsFiniteSet(HaveAsked)
  <2>1. HaveAsked \subseteq Requests /\ IsFiniteSet(Requests)
    BY DatabaseAssumption DEF HaveAsked
  <2>. QED  BY <2>1, FS_Subset
<1>2. \A S : Queued!Cardinality(S) = Cardinality(S)
  BY DEF Queued!Cardinality, Cardinality
<1>3. Queued!Asked = Cardinality(HaveAsked)
  BY <1>2 DEF Queued!Asked, HaveAsked
<1>4. \A r \in Requests : request[r].state = "off" => r \notin HaveAsked
  BY DEF HaveAsked
<1>. QED  BY <1>1, <1>3, <1>4, FS_AddElement, FS_CardinalityType

\* A request is put before the lower priorities and behind all the others.
LEMMA PlaceFits ==
  ASSUME QueuedInv, NEW p \in Priorities
  PROVE  /\ Queued!Place(p) \in 1..(Len(queue) + 1)
         /\ \A j \in 1..Len(queue) : IF j < Queued!Place(p)
                                     THEN request[queue[j]].priority >= p
                                     ELSE request[queue[j]].priority < p
<1>. DEFINE m == Len(queue)
            rank(i) == request[queue[i]].priority
            lower == {i \in 1..m : p > rank(i)}
<1>1. m \in Nat /\ p \in Int /\ \A i \in 1..m : rank(i) \in Int
  <2>1. m \in Nat /\ \A i \in 1..m : queue[i] \in Requests
    BY ElementOfSeq, LenProperties DEF QueuedInv
  <2>2. \A r \in Requests : request[r].priority \in Priorities \cup {0}
    BY DEF QueuedInv, QueuedRecords
  <2>3. p \in Int /\ \A q \in Priorities \cup {0} : q \in Int
    BY DatabaseAssumption
  <2>4. \A i \in 1..m : rank(i) \in Priorities \cup {0}
    BY <2>1, <2>2
  <2>. HIDE DEF rank, m
  <2>. QED  BY <2>1, <2>3, <2>4
<1>2. Queued!Place(p) = IF lower = {} THEN m + 1 ELSE Queued!Min(lower)
  BY DEF Queued!Place
<1>. HIDE DEF rank, m
<1>3. CASE lower = {}
  BY <1>1, <1>2, <1>3 DEF m, rank
<1>4. CASE lower # {}
  <2>1. lower \in SUBSET Int /\ IsFiniteSet(lower)
    <3>1. IsFiniteSet(1..m) /\ lower \subseteq 1..m
      BY <1>1, FS_Interval
    <3>. QED  BY <1>1, <3>1, FS_Subset
  <2>2. Cardinality(lower) \in Nat /\ Cardinality(lower) # 0
    BY <1>4, <2>1, FS_EmptySet, FS_CardinalityType
  <2>3. PICK i \in lower : \A j \in lower : i <= j
    <3>. HIDE DEF lower
    <3>1. PICK i \in lower : Cache!L1!Rank(lower, i) = 1
      BY <2>1, <2>2, RanksFit
    <3>2. ASSUME NEW j \in lower, j < i PROVE FALSE
      <4>1. /\ Cache!L1!Rank(lower, j) < Cache!L1!Rank(lower, i)
            /\ Cache!L1!Rank(lower, j) \in 1..Cardinality(lower)
        BY <2>1, <3>2, RanksFit
      <4>. QED  BY <2>2, <3>1, <4>1
    <3>3. \A j \in lower : i \in Int /\ j \in Int
      BY <2>1
    <3>. QED  BY <3>2, <3>3
  <2>4. Queued!Min(lower) \in lower /\ \A j \in lower : Queued!Min(lower) <= j
    BY <2>3 DEF Queued!Min
  <2>. DEFINE a == Queued!Min(lower)
  <2>5. Queued!Place(p) = a
    BY <1>2, <1>4
  <2>. HIDE DEF a
  <2>6. /\ a \in 1..m /\ p > rank(a) /\ \A j \in 1..m : p > rank(j) => a <= j
    BY <2>4 DEF a
  <2>7. a \in 1..(m + 1)
    BY <1>1, <2>6
  <2>9. \A k, j \in 1..m : k < j => rank(k) >= rank(j)
    <3>1. \A k, j \in 1..m : k < j => rank(k) > rank(j) \/ rank(k) = rank(j)
      BY DEF QueuedInv, Leads, m, rank
    <3>. QED  BY <1>1, <3>1
  <2>8. ASSUME NEW j \in 1..m PROVE IF j < a THEN rank(j) >= p ELSE rank(j) < p
    <3>1. rank(j) \in Int /\ p \in Int /\ a \in Int /\ j \in Int
      BY <1>1, <2>6
    <3>2. CASE j < a
      BY <2>6, <3>1, <3>2
    <3>3. CASE ~(j < a)
      <4>1. a \in 1..m /\ p > rank(a) /\ a \in Int
        BY <2>6, <3>1
      <4>2. CASE j = a
        BY <3>3, <4>1, <4>2
      <4>3. CASE a < j
        <5>1. rank(a) >= rank(j) /\ rank(a) \in Int
          BY <1>1, <2>9, <4>1, <4>3
        <5>. QED  BY <3>1, <3>3, <4>1, <5>1
      <4>. QED  BY <3>1, <3>3, <4>1, <4>2, <4>3
    <3>. QED  BY <3>2, <3>3
  <2>. QED  BY <2>5, <2>7, <2>8 DEF m, rank
<1>. QED  BY <1>3, <1>4

\* A request asks, and waits: no connection is idle.
LEMMA QueuedAsks ==
  ASSUME QueuedInv, NEW r \in Requests, NEW p \in Priorities, Queued!GetConnection(r, p)
  PROVE  QueuedInv'
<1>. DEFINE m == Len(queue)
            a == Queued!Place(p)
            c == Cardinality(HaveAsked)
            t == queue'
            old(j) == IF j < a THEN j ELSE j - 1
            leads(x, y) ==
              \/ request'[x].priority > request'[y].priority
              \/ request'[x].priority = request'[y].priority /\ request'[x].turn < request'[y].turn
<1>1. /\ request[r].state = "off"
      /\ request' = [request EXCEPT ![r] = [state |-> "waiting", priority |-> p, turn |-> c]]
      /\ t = Queued!InsertAt(queue, a, r)
  BY AskedCounts DEF Queued!GetConnection, Queued!IdleCount
<1>2. /\ a \in 1..(m + 1) /\ m \in Nat /\ c \in Nat /\ a \in Int
      /\ \A j \in 1..m : /\ queue[j] \in Requests /\ queue[j] # r
                         /\ request[queue[j]].priority \in Int
                         /\ request[queue[j]].turn \in Nat /\ request[queue[j]].turn < c
                         /\ j < a => request[queue[j]].priority >= p
                         /\ ~(j < a) => request[queue[j]].priority < p
  <2>1. m \in Nat /\ \A j \in 1..m : queue[j] \in Requests
    BY ElementOfSeq, LenProperties DEF QueuedInv
  <2>2. \A j \in 1..m : request[queue[j]].state = "waiting"
    BY <2>1 DEF QueuedInv, Range
  <2>3. \A q \in Requests : request[q].priority \in Priorities \cup {0} /\ request[q].turn \in Nat
    BY DEF QueuedInv, QueuedRecords
  <2>4. \A j \in 1..m : request[queue[j]].turn < c
    BY <2>1, <2>2 DEF QueuedInv
  <2>5. a \in 1..(m + 1) /\ \A j \in 1..m : IF j < a
                                     THEN request[queue[j]].priority >= p
                                     ELSE request[queue[j]].priority < p
    BY PlaceFits
  <2>8. \A q \in Priorities \cup {0} : q \in Int
    BY DatabaseAssumption
  <2>6. \A j \in 1..m : queue[j] # r /\ request[queue[j]].priority \in Int
    BY <1>1, <2>1, <2>2, <2>3, <2>8
  <2>7. a \in Int
    BY <2>1, <2>5
  <2>. QED  BY <2>1, <2>3, <2>4, <2>5, <2>6, <2>7, AskedCounts
<1>3. /\ t \in Seq(Requests) /\ Len(t) = m + 1 /\ DOMAIN t = 1..(m + 1)
      /\ \A j \in 1..(m + 1) : t[j] = IF j < a THEN queue[j] ELSE IF j = a THEN r ELSE queue[j - 1]
  <2>1. queue \in Seq(Requests)
    BY DEF QueuedInv
  <2>2. /\ t \in Seq(Requests) /\ Len(t) = m + 1
        /\ \A j \in 1..(m + 1) : t[j] = IF j < a THEN queue[j] ELSE IF j = a THEN r ELSE queue[j - 1]
    <3>. HIDE DEF a, t
    <3>1. a \in 1..(Len(queue) + 1) /\ r \in Requests
      BY <1>2
    <3>. DEFINE u == Queued!InsertAt(queue, a, r)
    <3>2. /\ u \in Seq(Requests) /\ Len(u) = Len(queue) + 1
          /\ \A j \in 1..(Len(queue) + 1) :
               u[j] = IF j < a THEN queue[j] ELSE IF j = a THEN r ELSE queue[j - 1]
      BY <2>1, <3>1, InsertAtProperties
    <3>. HIDE DEF u
    <3>3. t = u
      BY <1>1 DEF u
    <3>. QED  BY <3>2, <3>3
  <2>. QED  BY <2>2, LenProperties
<1>. HIDE DEF m, a, c, t
<1>4. /\ \A j \in 1..(m + 1) : j # a => old(j) \in 1..m /\ t[j] = queue[old(j)]
      /\ t[a] = r
  BY <1>2, <1>3
<1>5. \A i, j \in 1..(m + 1) : i < j /\ i # a /\ j # a => old(i) < old(j)
  BY <1>2
<1>6. \A n \in 1..m : \E j \in 1..(m + 1) : j # a /\ old(j) = n
  <2>. SUFFICES ASSUME NEW n \in 1..m PROVE \E j \in 1..(m + 1) : j # a /\ old(j) = n
    OBVIOUS
  <2>1. CASE n < a
    <3>1. n \in 1..(m + 1) /\ n # a /\ old(n) = n
      BY <1>2, <2>1
    <3>. QED  BY <3>1
  <2>2. CASE ~(n < a)
    <3>1. n + 1 \in 1..(m + 1) /\ n + 1 # a /\ old(n + 1) = n
      BY <1>2, <2>2
    <3>. QED  BY <3>1
  <2>. QED  BY <2>1, <2>2
<1>7. /\ request' \in [Requests -> QueuedRecords]
      /\ request'[r].state = "waiting" /\ request'[r].priority = p /\ request'[r].turn = c
      /\ \A q \in Requests : q # r => request'[q] = request[q]
  <2>1. [state |-> "waiting", priority |-> p, turn |-> c] \in QueuedRecords
    BY <1>2 DEF QueuedRecords
  <2>. QED  BY <1>1, <2>1 DEF QueuedInv
<1>. HIDE DEF old
<1>8. IsInjective(t)
  <2>. SUFFICES ASSUME NEW i \in 1..(m + 1), NEW j \in 1..(m + 1), i < j PROVE t[i] # t[j]
    <3>1. ASSUME NEW i \in 1..(m + 1), NEW j \in 1..(m + 1) PROVE i < j \/ j < i \/ i = j
      BY <1>2
    <3>. QED  BY <1>3, <3>1 DEF IsInjective
  <2>1. CASE i = a \/ j = a
    <3>1. i \in Int /\ j \in Int /\ i # j
      BY <1>2
    <3>. QED  BY <1>2, <1>4, <2>1, <3>1
  <2>2. CASE i # a /\ j # a
    <3>1. old(i) \in 1..m /\ old(j) \in 1..m /\ old(i) < old(j)
      BY <1>4, <1>5, <2>2
    <3>2. old(i) # old(j) /\ DOMAIN queue = 1..m
      BY <1>2, <3>1, LenProperties DEF QueuedInv, m
    <3>. QED  BY <1>4, <2>2, <3>1, <3>2 DEF QueuedInv, IsInjective
  <2>. QED  BY <2>1, <2>2
<1>9. Range(t) = {q \in Requests : request'[q].state = "waiting"}
  <2>1. Range(queue) = {queue[j] : j \in 1..m}
    <3>1. DOMAIN queue = 1..m
      BY LenProperties DEF QueuedInv, m
    <3>. QED  BY <3>1 DEF Range
  <2>2. Range(t) = Range(queue) \cup {r}
    <3>1. ASSUME NEW j \in 1..(m + 1) PROVE t[j] \in Range(queue) \cup {r}
      BY <1>4, <2>1
    <3>2. r \in Range(t)
      BY <1>2, <1>3, <1>4 DEF Range
    <3>3. ASSUME NEW n \in 1..m PROVE queue[n] \in Range(t)
      <4>1. PICK j \in 1..(m + 1) : j # a /\ old(j) = n
        BY <1>6
      <4>. QED  BY <1>3, <1>4, <4>1 DEF Range
    <3>4. Range(t) = {t[j] : j \in 1..(m + 1)}
      BY <1>3 DEF Range
    <3>. QED  BY <2>1, <3>1, <3>2, <3>3, <3>4
  <2>. QED  BY <1>7, <2>2 DEF QueuedInv
<1>10. ASSUME NEW i \in 1..(m + 1), NEW j \in 1..(m + 1), i < j
       PROVE  leads(t[i], t[j])
  <2>1. CASE j = a
    <3>1. i # a /\ old(i) = i /\ i \in 1..m /\ i < a
      BY <1>2, <1>10, <2>1 DEF old
    <3>2. /\ request'[t[i]] = request[queue[i]] /\ t[j] = r
          /\ request[queue[i]].priority >= p /\ request[queue[i]].turn < c
          /\ request[queue[i]].priority \in Int
      BY <1>2, <1>4, <1>7, <2>1, <3>1
    <3>3. p \in Int
      BY DatabaseAssumption
    <3>4. request[queue[i]].priority > p \/ request[queue[i]].priority = p
      BY <3>2, <3>3
    <3>. QED  BY <1>7, <3>2, <3>4
  <2>2. CASE i = a
    <3>1. j # a /\ old(j) = j - 1 /\ j - 1 \in 1..m /\ ~(j - 1 < a)
      BY <1>2, <1>10, <2>2 DEF old
    <3>2. /\ request'[t[j]] = request[queue[j - 1]] /\ t[i] = r
          /\ request[queue[j - 1]].priority < p
          /\ request[queue[j - 1]].priority \in Int
      BY <1>2, <1>4, <1>7, <2>2, <3>1
    <3>3. p \in Int
      BY DatabaseAssumption
    <3>4. p > request[queue[j - 1]].priority
      BY <3>2, <3>3
    <3>. QED  BY <1>7, <3>2, <3>4
  <2>3. CASE i # a /\ j # a
    <3>1. old(i) \in 1..m /\ old(j) \in 1..m /\ old(i) < old(j)
      BY <1>4, <1>5, <1>10, <2>3
    <3>2. Leads(queue[old(i)], queue[old(j)])
      BY <3>1 DEF QueuedInv, m
    <3>3. request'[t[i]] = request[queue[old(i)]] /\ request'[t[j]] = request[queue[old(j)]]
      BY <1>2, <1>4, <1>7, <2>3, <3>1
    <3>. QED  BY <3>2, <3>3 DEF Leads
  <2>. QED  BY <2>1, <2>2, <2>3
<1>11. ASSUME NEW q \in Requests, request'[q].state # "off"
       PROVE  request'[q].turn < Cardinality(HaveAsked')
  <2>1. HaveAsked' = HaveAsked \cup {r}
    BY <1>7 DEF HaveAsked
  <2>2. Cardinality(HaveAsked') = c + 1
    BY <1>1, <2>1, AskedCounts DEF c
  <2>3. q # r => request[q].turn < c /\ request[q].turn \in Nat
    BY <1>7, <1>11 DEF QueuedInv, QueuedRecords, c
  <2>. QED  BY <1>2, <1>7, <2>2, <2>3
<1>12. \A i, j \in 1..Len(queue') : i < j => Leads(queue[i], queue[j])'
  BY <1>3, <1>10 DEF Leads, t
<1>. QED  BY <1>3, <1>7, <1>8, <1>9, <1>11, <1>12 DEF QueuedInv, t

\* Its timer fires.
LEMMA QueuedTimesOut ==
  ASSUME QueuedInv, NEW r \in Requests, Queued!TimeOut(r)
  PROVE  QueuedInv'
<1>. DEFINE m == Len(queue)
            t == queue'
            leads(x, y) ==
              \/ request'[x].priority > request'[y].priority
              \/ request'[x].priority = request'[y].priority /\ request'[x].turn < request'[y].turn
<1>1. m \in Nat /\ DOMAIN queue = 1..m
  BY LenProperties DEF QueuedInv
<1>2. PICK a \in 1..m : queue[a] = r /\ t = Queued!RemoveAt(queue, a)
  BY <1>1 DEF Queued!TimeOut
<1>3. request[r].state = "waiting" /\ request' = [request EXCEPT ![r].state = "rejected"]
  BY DEF Queued!TimeOut
<1>4. /\ t \in Seq(Requests) /\ Len(t) = m - 1 /\ IsInjective(t)
      /\ \A j \in 1..(m - 1) : t[j] = IF j < a THEN queue[j] ELSE queue[j + 1]
      /\ Range(t) = Range(queue) \ {r}
  <2>1. t = RemoveAt(queue, a)
    BY <1>2 DEF Queued!RemoveAt, RemoveAt
  <2>2. queue \in Seq(Requests) /\ IsInjective(queue)
    BY DEF QueuedInv
  <2>. DEFINE u == RemoveAt(queue, a)
  <2>3. /\ u \in Seq(Requests) /\ Len(u) = m - 1 /\ IsInjective(u)
        /\ \A j \in 1..(m - 1) : u[j] = IF j < a THEN queue[j] ELSE queue[j + 1]
        /\ Range(u) = Range(queue) \ {queue[a]}
    BY <2>2, RemoveAtProperties
  <2>. HIDE DEF t, u, m
  <2>4. t = u
    BY <2>1 DEF u
  <2>. QED  BY <1>2, <2>3, <2>4
<1>5. /\ request' \in [Requests -> QueuedRecords]
      /\ \A q \in Requests : /\ request'[q].priority = request[q].priority
                             /\ request'[q].turn = request[q].turn
                             /\ request'[q].state = IF q = r THEN "rejected" ELSE request[q].state
  <2>1. [request[r] EXCEPT !.state = "rejected"] \in QueuedRecords
    BY DEF QueuedInv, QueuedRecords
  <2>2. request' = [request EXCEPT ![r] = [request[r] EXCEPT !.state = "rejected"]]
    BY <1>3
  <2>3. request[r] \in QueuedRecords
    BY DEF QueuedInv
  <2>. QED  BY <2>1, <2>2, <2>3 DEF QueuedInv, QueuedRecords
<1>. HIDE DEF m, t
<1>6. Range(t) = {q \in Requests : request'[q].state = "waiting"}
  BY <1>3, <1>4, <1>5 DEF QueuedInv
<1>7. ASSUME NEW i \in 1..(m - 1), NEW j \in 1..(m - 1), i < j
      PROVE  leads(t[i], t[j])
  <2>. DEFINE old(x) == IF x < a THEN x ELSE x + 1
  <2>1. old(i) \in 1..m /\ old(j) \in 1..m /\ old(i) < old(j)
    BY <1>1, <1>2, <1>7
  <2>2. t[i] = queue[old(i)] /\ t[j] = queue[old(j)]
    BY <1>4
  <2>. HIDE DEF old
  <2>3. Leads(queue[old(i)], queue[old(j)])
    BY <2>1 DEF QueuedInv, m
  <2>4. queue[old(i)] \in Requests /\ queue[old(j)] \in Requests
    BY <2>1, ElementOfSeq DEF QueuedInv, m
  <2>. QED  BY <1>5, <2>2, <2>3, <2>4 DEF Leads
<1>8. HaveAsked' = HaveAsked
  BY <1>3, <1>5 DEF HaveAsked
<1>9. ASSUME NEW q \in Requests, request'[q].state # "off"
      PROVE  request'[q].turn < Cardinality(HaveAsked')
  BY <1>3, <1>5, <1>8, <1>9 DEF QueuedInv
<1>10. \A i, j \in 1..Len(queue') : i < j => Leads(queue[i], queue[j])'
  BY <1>4, <1>7 DEF Leads, t
<1>. QED  BY <1>4, <1>5, <1>6, <1>9, <1>10 DEF QueuedInv, t

\* The pool closes: nobody waits any more.
LEMMA QueuedCloses == ASSUME QueuedInv, Queued!Close PROVE QueuedInv'
<1>1. /\ queue' = <<>>
      /\ request' = [r \in Requests |-> IF r \in Range(queue)
                                        THEN [request[r] EXCEPT !.state = "rejected"]
                                        ELSE request[r]]
  <2>1. Queued!Range(queue) = Range(queue)
    BY DEF Queued!Range, Range
  <2>. QED  BY <2>1 DEF Queued!Close
<1>2. ASSUME NEW r \in Requests
      PROVE  /\ request'[r] \in QueuedRecords /\ request'[r].turn = request[r].turn
             /\ request'[r].state # "waiting"
             /\ request'[r].state # "off" <=> request[r].state # "off"
  <2>1. request[r] \in QueuedRecords
    BY DEF QueuedInv
  <2>2. CASE r \in Range(queue)
    <3>1. request[r].state = "waiting"
      BY <2>2 DEF QueuedInv
    <3>. QED  BY <1>1, <2>1, <2>2, <3>1 DEF QueuedRecords
  <2>3. CASE r \notin Range(queue)
    <3>1. request[r].state # "waiting"
      BY <2>3 DEF QueuedInv
    <3>. QED  BY <1>1, <2>1, <2>3, <3>1
  <2>. QED  BY <2>2, <2>3
<1>3. request' \in [Requests -> QueuedRecords]
  <2>1. request' = [r \in Requests |-> request'[r]]
    BY <1>1
  <2>. QED  BY <1>2, <2>1
<1>4. HaveAsked' = HaveAsked
  BY <1>2 DEF HaveAsked
<1>5. /\ queue' \in Seq(Requests) /\ Len(queue') = 0 /\ IsInjective(queue') /\ Range(queue') = {}
  BY <1>1 DEF IsInjective, Range
<1>6. Range(queue') = {r \in Requests : request'[r].state = "waiting"}
  BY <1>2, <1>5
<1>7. \A r \in Requests : request'[r].state # "off" =>
                            request'[r].turn < Cardinality(HaveAsked')
  BY <1>2, <1>4 DEF QueuedInv
<1>8. \A i, j \in 1..Len(queue') : i < j => Leads(queue[i], queue[j])'
  BY <1>5
<1>. QED  BY <1>3, <1>5, <1>6, <1>7, <1>8 DEF QueuedInv

\* At first nobody asked.
LEMMA QueuedInit == Queued!Init => QueuedInv
<1>. SUFFICES ASSUME Queued!Init PROVE QueuedInv
  OBVIOUS
<1>1. /\ queue = <<>>
      /\ request = [r \in Requests |-> [state |-> "off", priority |-> 0, turn |-> 0]]
  BY DEF Queued!Init
<1>2. /\ queue \in Seq(Requests) /\ Len(queue) = 0 /\ IsInjective(queue) /\ Range(queue) = {}
  BY <1>1 DEF IsInjective, Range
<1>3. request \in [Requests -> QueuedRecords]
  BY <1>1 DEF QueuedRecords
<1>. QED  BY <1>1, <1>2, <1>3 DEF QueuedInv

\* Every step of the queue keeps the invariant.
LEMMA QueuedNext == QueuedInv /\ [Queued!Next]_queued => QueuedInv'
<1>. SUFFICES ASSUME QueuedInv, [Queued!Next]_queued PROVE QueuedInv'
  OBVIOUS
<1>1. CASE UNCHANGED queued
  BY <1>1 DEF queued, QueuedInv, HaveAsked, Leads
<1>2. CASE Queued!Next
  BY <1>2, QueuedAsks, QueuedTimesOut, QueuedCloses DEF Queued!Next
<1>. QED  BY <1>1, <1>2

\* A step of the joint specification is one of the queue or leaves it alone.
LEMMA JointQueued == [JointNext]_jointVars => [Queued!Next]_queued
  BY DEF JointNext, jointVars, queued

\* Every variable of the database layer has its type, whatever the behaviour is about.
THEOREM DatabaseTyped == JointSpec => []TypesOK
<1>1. JointInit => PoolInv /\ CacheTyped /\ QueuedInv
  BY PoolInit, CacheTypedInit, QueuedInit DEF JointInit
<1>2. PoolInv /\ CacheTyped /\ QueuedInv => TypesOK
  BY PoolInvClean, CacheTypes, QueuedFair DEF TypesOK
<1>. QED  BY <1>1, <1>2, PoolNext, JointPool, CacheTypedNext, JointCache, QueuedNext, JointQueued,
             PTL DEF JointSpec

\* For any number of keys, requests and priorities and any size of the cache:
\* accessOrder holds the keys of the map once each (cache.ts:17), and the queue
\* the requests that wait, by priority and then by the turn in which they asked
\* (pool-optimizer.ts:303).
THEOREM OrdersHold == JointSpec => []OrdersFit
<1>1. JointInit => CacheTyped /\ QueuedInv
  BY CacheTypedInit, QueuedInit DEF JointInit
<1>2. CacheTyped /\ QueuedInv => OrdersFit
  BY CacheTypes, QueuedFair DEF OrdersFit
<1>. QED  BY <1>1, <1>2, CacheTypedNext, JointCache, QueuedNext, JointQueued, PTL DEF JointSpec
=============================================================================
