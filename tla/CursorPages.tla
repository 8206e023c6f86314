----------------------------- MODULE CursorPages -----------------------------
(***************************************************************************)
(* The pagination of pagination/cursor.ts: a client walks through a table  *)
(* along the next links, in either order, or goes back along a previous    *)
(* link, while rows come and go between its requests.                      *)
(*                                                                         *)
(* A row is a pair of the field that the cursor names and an id.  A page   *)
(* by cursor compares the field; a page by keyset compares the pair, and   *)
(* ascends whatever orderBy says.  The field is one whose value survives   *)
(* the JSON of a cursor (a timestamp loses its microseconds there).        *)
(***************************************************************************)
EXTENDS Integers, SequencesExt, FiniteSetsExt

CONSTANTS
  Fields, RowIds,
  Limit          \* limit

VARIABLES
  keyset,        \* buildKeysetWhereClause instead of buildCursorWhereClause
  desc,          \* orderBy
  table,         \* the rows
  walk,          \* pages the client has taken since the first one, and where it is
  stable         \* rows that were there all the time since the first page

vars == <<keyset, desc, table, walk, stable>>

Rows == Fields \X RowIds
NoWalk == [state |-> "off", seen |-> <<>>, page |-> <<>>]

Init ==
  /\ keyset \in BOOLEAN /\ desc \in BOOLEAN /\ (keyset => ~desc)
  /\ table \in SUBSET Rows
  /\ walk = NoWalk /\ stable = {}

-----------------------------------------------------------------------------

\* The order of the rows: by field only, unless by keyset; the order that
\* Postgres gives rows of one field is the id's here.
Before(a, b) == IF a[1] # b[1] THEN (IF desc THEN a[1] > b[1] ELSE a[1] < b[1]) ELSE a[2] < b[2]

\* buildKeysetWhereClause, forwards.
KeysetAfter(a, row) == row[1] > a[1] \/ (row[1] = a[1] /\ row[2] > a[2])

\* Mutant of After: a keyset that compares the field alone.
AfterField(a, row) == IF desc THEN row[1] < a[1] ELSE row[1] > a[1]

\* The WHERE clause for `after`.
After(a, row) == IF keyset THEN KeysetAfter(a, row)
                 ELSE IF desc THEN row[1] < a[1] ELSE row[1] > a[1]

\* The WHERE clause for `before`, in the order of the rows and from its start.
BeforeCursor(b, row) == IF desc THEN row[1] > b[1] ELSE row[1] < b[1]

\* How many of the rows come before this one.
Preceding(rows, row) == Cardinality({r \in rows : Before(r, row)})

\* ORDER BY: at a place is the row that as many rows precede.
InOrder(rows) == [i \in 1..Cardinality(rows) |->
                    CHOOSE row \in rows : Preceding(rows, row) = i - 1]

\* LIMIT limit + 1; processCursorPaginationResults keeps limit of them.
Fetch(rows) == LET all == InOrder(rows) IN SubSeq(all, 1, IF Len(all) > Limit + 1
                                                     THEN Limit + 1 ELSE Len(all))
HasMore(rows) == Len(rows) > Limit
Data(rows) == IF HasMore(rows) THEN SubSeq(rows, 1, Limit) ELSE rows

Show(rows, seen) ==
  walk' = [state |-> IF HasMore(rows) THEN "more" ELSE "end",
           seen |-> seen \o Data(rows), page |-> Data(rows)]

First ==
  /\ walk.state = "off"
  /\ Show(Fetch(table), <<>>)
  /\ stable' = table
  /\ UNCHANGED <<keyset, desc, table>>

\* rel="next": after = the cursor of the last row of the page.
NextPage ==
  /\ walk.state = "more"
  /\ Show(Fetch({row \in table : After(Last(walk.page), row)}), walk.seen)
  /\ UNCHANGED <<keyset, desc, table, stable>>

\* rel="prev": before = the cursor of the first row.  The page that comes is
\* the first one of the table, and the walk starts anew.
PreviousPage ==
  /\ ~keyset /\ walk.state \in {"more", "end"} /\ walk.page # <<>>
  /\ Show(Fetch({row \in table : BeforeCursor(Head(walk.page), row)}), <<>>)
  /\ stable' = {row \in table : BeforeCursor(Head(walk.page), row)}
  /\ UNCHANGED <<keyset, desc, table>>

Insert(row) ==
  /\ walk.state = "more" /\ row \notin table
  /\ table' = table \cup {row}
  /\ UNCHANGED <<keyset, desc, walk, stable>>

Delete(row) ==
  /\ walk.state = "more" /\ row \in table
  /\ table' = table \ {row}
  /\ stable' = stable \ {row}
  /\ UNCHANGED <<keyset, desc, walk>>

Next == First \/ NextPage \/ PreviousPage \/ \E row \in Rows : Insert(row) \/ Delete(row)

Spec == Init /\ [][Next]_vars

-----------------------------------------------------------------------------
\* Every variable has its type, and a page is no longer than the limit.
TypeOK ==
  /\ keyset \in BOOLEAN /\ desc \in BOOLEAN
  /\ table \subseteq Rows /\ stable \subseteq table
  /\ walk.state \in {"off", "more", "end"}
  /\ walk.page \in Seq(Rows) /\ Len(walk.page) <= Limit /\ walk.seen \in Seq(Rows)

\* cursor.ts:9 "Handles data mutations between requests": a walk shows no row
\* twice, and at its end it has shown every row that was there all the time,
\* except, with a cursor, one that shares its field with a row that is shown.
WalkSeesEveryRow ==
  /\ IsInjective(walk.seen)
  /\ walk.state = "end" => \A row \in stable :
       \/ row \in Range(walk.seen)
       \/ ~keyset /\ \E shown \in Range(walk.seen) : shown[1] = row[1]

=============================================================================
