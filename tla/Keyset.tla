------------------------------- MODULE Keyset -------------------------------
(***************************************************************************)
(* page.rs of moso-orm: pages of a query, by cursor.  The query orders by  *)
(* one nullable column, in either direction and with NULLs at either end,  *)
(* and page.rs appends the primary key.  A client walks from link to link  *)
(* while rows are inserted, changed and deleted under it: forward by       *)
(* `next`, or backward by `prev`.                                          *)
(*                                                                         *)
(* A row is its identifier and its column; the database is external and    *)
(* sorts and compares as SQL does, where a comparison with NULL is not     *)
(* true.                                                                   *)
(***************************************************************************)
EXTENDS Integers, Sequences, SequencesExt

CONSTANTS
    KsIds,              \* primary keys
    KsValues,           \* values of the column
    KsNull,
    KsMaxLimit,         \* bound: rows in a page
    KsMaxChanges        \* bound: changes to the table during the walk

ASSUME KsAssumption ==
    /\ KsIds \subseteq Nat /\ KsValues \subseteq Nat
    /\ KsNull \notin Nat
    /\ KsMaxLimit \in Nat \ {0} /\ KsMaxChanges \in Nat

VARIABLES
    ksOrder,            \* "asc" or "desc"
    ksNulls,            \* where the column's NULLs go: "first" or "last"
    ksForward,          \* which way the client walks
    ksLimit,            \* rows in a page
    ksTable,            \* the rows
    ksCursor,           \* the keys of the page it has, <<>> for none yet
    ksDone,             \* there is no link to follow
    ksLog,              \* the rows it was given, in the order of the walk
    ksTouched,          \* rows inserted, changed or deleted since it began
    ksChanges

ksVars == <<ksOrder, ksNulls, ksForward, ksLimit, ksTable, ksCursor, ksDone, ksLog, ksTouched, ksChanges>>

Columns == KsValues \union {KsNull}
KsRow == [id : KsIds, val : Columns]

Flip(o) == CASE o = "asc" -> "desc" [] o = "desc" -> "asc"
             [] o = "first" -> "last" [] o = "last" -> "first"

\* key_columns: the term, and the primary key in the direction of the term.  Its
\* NULLs do not matter, it has none.
KeyColumn(forward, field) ==
    [field |-> field,
     order |-> IF forward THEN ksOrder ELSE Flip(ksOrder),
     nulls |-> IF forward THEN ksNulls ELSE Flip(ksNulls),
     nullable |-> field = "val"]
Key(forward) == <<KeyColumn(forward, "val"), KeyColumn(forward, "id")>>

\* What the database does with a term: before, as `order by ... nulls ...` sorts.
Precedes(k, a, b) ==
    CASE a = KsNull -> b # KsNull /\ k.nulls = "first"
      [] a # KsNull /\ b = KsNull -> k.nulls = "last"
      [] OTHER -> IF k.order = "asc" THEN a < b ELSE a > b

Before(forward, r, s) ==
    LET k == Key(forward) IN
    \E n \in DOMAIN k :
        /\ \A i \in 1..(n - 1) : r[k[i].field] = s[k[i].field]
        /\ Precedes(k[n], r[k[n].field], s[k[n].field])

\* Wrong: NULLs are never after anything.
StrictlyAfter_NoNulls(k, x, v) ==
    IF v = KsNull THEN FALSE
    ELSE x # KsNull /\ IF k.order = "asc" THEN x > v ELSE x < v

\* strictly_after, as the database evaluates it: `x > v` and `x < v` are not true
\* of a NULL x, and a nullable column whose NULLs sort last gets `or x is null`.
StrictlyAfter(k, x, v) ==
    IF v = KsNull
    THEN k.nulls = "first" /\ x # KsNull
    ELSE \/ x # KsNull /\ IF k.order = "asc" THEN x > v ELSE x < v
         \/ k.nulls = "last" /\ k.nullable /\ x = KsNull

\* keyset_expr: a disjunct per column, equal in the ones before it.
KeysetExpr(forward, row, at) ==
    LET k == Key(forward) IN
    \E n \in DOMAIN k :
        /\ \A i \in 1..(n - 1) : row[k[i].field] = at[k[i].field]
        /\ StrictlyAfter(k[n], row[k[n].field], at[k[n].field])

\* plan: the rows past the cursor.
Past == {row \in ksTable : ksCursor = <<>> \/ KeysetExpr(ksForward, row, Last(ksCursor))}

\* `order by .. limit ..`: the first of them in the order of the walk, as many as
\* a page holds or all there are.
IsPage(page, rows) ==
    /\ \A m, n \in DOMAIN page : m < n => Before(ksForward, page[m], page[n])
    /\ \A n \in DOMAIN page : \A row \in rows \ ToSet(page) : Before(ksForward, page[n], row)
    /\ Len(page) = ksLimit \/ ToSet(page) = rows

KsInit ==
    /\ ksOrder \in {"asc", "desc"} /\ ksNulls \in {"first", "last"} /\ ksForward \in BOOLEAN
    /\ ksLimit \in 1..KsMaxLimit
    /\ \E rows \in SUBSET KsIds : \E f \in [rows -> Columns] :
            ksTable = {[id |-> i, val |-> f[i]] : i \in rows}
    /\ ksCursor = <<>> /\ ksDone = FALSE
    /\ ksLog = <<>>
    /\ ksTouched = {} /\ ksChanges = 0

\* fetch, and the client follows the link.  There is one if there are more rows
\* than the page holds, which the query sees by asking for one more; it is minted
\* from the last row in the direction of the walk (`next` from the last of a
\* forward page, `prev` from the first of a reversed one).
KsFetch ==
    /\ ~ksDone
    /\ \E n \in 0..ksLimit : \E page \in [1..n -> Past] :
        /\ IsPage(page, Past)
        /\ ksLog' = ksLog \o page
        /\ ksCursor' = page
        /\ ksDone' = (ToSet(page) = Past)
    /\ UNCHANGED <<ksOrder, ksNulls, ksForward, ksLimit, ksTable, ksTouched, ksChanges>>

\* Another connection inserts, updates or deletes a row.
KsChange(i) ==
    /\ ~ksDone
    /\ ksChanges < KsMaxChanges
    /\ ksChanges' = ksChanges + 1
    /\ ksTouched' = ksTouched \union {i}
    /\ LET others == {row \in ksTable : row.id # i} IN
        \/ ksTable' = others
        \/ \E v \in Columns : ksTable' = others \union {[id |-> i, val |-> v]}
    /\ UNCHANGED <<ksOrder, ksNulls, ksForward, ksLimit, ksCursor, ksDone, ksLog>>

KsNext == KsFetch \/ \E i \in KsIds : KsChange(i)

KsSpec == KsInit /\ [][KsNext]_ksVars

-----------------------------------------------------------------------------
(* Properties *)

\* The table, the walk and the cursor have their shapes.
KsTypeOK ==
    /\ ksOrder \in {"asc", "desc"} /\ ksNulls \in {"first", "last"} /\ ksForward \in BOOLEAN
    /\ ksLimit \in 1..KsMaxLimit
    /\ ksTable \subseteq KsRow
    /\ ksCursor \in Seq(KsRow) /\ Len(ksCursor) <= ksLimit
    /\ ksDone \in BOOLEAN
    /\ ksLog \in Seq(KsRow)
    /\ ksTouched \subseteq KsIds
    /\ ksChanges \in 0..KsMaxChanges

\* A row that nobody touches during a walk is delivered once, whatever happens to
\* the rows around it, the one the cursor was minted from included; and what is
\* delivered is in the order of the query, NULLs and ties among it.
WalkIsExact ==
    /\ \A m, n \in DOMAIN ksLog : m < n => Before(ksForward, ksLog[m], ksLog[n])
    /\ ksDone => \A row \in ksTable : row.id \notin ksTouched => \E n \in DOMAIN ksLog : ksLog[n] = row
=============================================================================
