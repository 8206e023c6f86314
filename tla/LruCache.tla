------------------------------ MODULE LruCache ------------------------------
(***************************************************************************)
(* LRUCache of database/cache.ts: a map of entries that expire, and        *)
(* accessOrder, the list of their keys from the least to the most recently *)
(* used.  Its operations as operators on the pair of both.                 *)
(***************************************************************************)
EXTENDS Integers, SequencesExt, FiniteSetsExt

CONSTANTS
  Keys,
  Values,
  Prefixed,      \* keys that begin with the prefix that is invalidated
  MaxSize        \* maxSize

None == -1
Caches == [order : Seq(Keys), value : [Keys -> Values \cup {None}]]

\* The constructor and clear.
Empty == [order |-> <<>>, value |-> [k \in Keys |-> None]]
Cached(c) == {k \in Keys : c.value[k] # None}

\* The place of i among those that stay.
Rank(kept, i) == Cardinality({j \in kept : j < i}) + 1

\* filter: the keys that stay, in their order.
Without(order, gone) ==
  LET kept == {i \in DOMAIN order : order[i] \notin gone}
  IN  [n \in 1..Cardinality(kept) |-> order[CHOOSE i \in kept : Rank(kept, i) = n]]

\* delete, and get or has of an entry that expired.
Drop(c, k) == [order |-> Without(c.order, {k}), value |-> [c.value EXCEPT ![k] = None]]

\* get of an entry that is there.
Touch(c, k) == [c EXCEPT !.order = Append(Without(@, {k}), k)]

Evict(c) == IF Cardinality(Cached(c)) > MaxSize THEN Drop(c, Head(c.order)) ELSE c

\* Mutant of Put: the old place of the key stays in accessOrder.
PutTwice(c, k, v) ==
  Evict([order |-> Append(c.order, k), value |-> [c.value EXCEPT ![k] = v]])

\* set.
Put(c, k, v) ==
  Evict([order |-> Append(Without(c.order, {k}), k), value |-> [c.value EXCEPT ![k] = v]])

\* invalidatePrefix.
DropPrefix(c) == [order |-> Without(c.order, Prefixed),
                  value |-> [k \in Keys |-> IF k \in Prefixed THEN None ELSE c.value[k]]]

\* accessOrder, a list beside the map, stays in step with it (cache.ts:42):
\* each cached key once, so that what is evicted is the least recently used
\* key and the cache never outgrows maxSize.
OrderMatchesCache(c) ==
  /\ IsInjective(c.order)
  /\ Range(c.order) = Cached(c)
  /\ Len(c.order) <= MaxSize

=============================================================================
