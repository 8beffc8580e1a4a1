-------------------------------- MODULE Lists ---------------------------------
(* The list endpoint: one request runs source, filter, sort and pagination  *)
(* (ListMixin.get_list), in memory or in SQL (DjangoORMViewSet), and a      *)
(* client walks the pages with the cursors of the page before while rows    *)
(* come, go and move; a lookup (LookupMixin) filters its source in memory.  *)
(* A request is atomic: the in-memory pipeline does not suspend, and a page *)
(* is one SELECT of the Django backend; the count of an offset page is a    *)
(* SELECT of its own. Values are JSON-native, and the order of rows equal in*)
(* every sort column is arbitrary.                                          *)
EXTENDS Cursor, SequencesExt

CONSTANTS
    Pks,            \* the primary keys
    TableRows,      \* the rows that the table may hold
    Concrete,       \* the fields of the schema that are columns of the model
    Nullable,       \* the columns that may be NULL
    ListQueries,    \* the requests of the client, without a cursor
    MaxEdits        \* bounds the rows that change under a walk

NoCursor == [none |-> TRUE]

(* A filter names the hand-made model of filter_list, or a declared lookup. *)
Lookups == {"exact", "in", "gt", "gte", "lt", "lte", "isnull", "overlaps"}

Filters == [handmade : BOOLEAN, lookup : Lookups, field : Fields, value : FieldValues]

QueryRecords == [shape : {"plain", "paginated", "cursor", "lookup"}, sort : Seq(SortKeys),
                 fltr : Filters \cup {null}, offset : Nat, limit : Nat \ {0}]

ASSUME ListsAssumption ==
    /\ IsFiniteSet(Pks) /\ Pks \subseteq FieldValues
    /\ TableRows \subseteq ListRows
    /\ ListQueries \subseteq QueryRecords
    /\ null \notin ListQueries /\ null \notin Nat
    /\ MaxEdits \in Nat

VARIABLES
    table,     \* table[k]: the row of key k, or null
    site,      \* the viewset: its backend, its `nulls`, its nullable columns
    query,     \* the client's query
    page,      \* the last answer, with the cursor it was asked for
    counted,   \* the count of an offset page whose rows are still to be read
    walk,      \* what the client has read with this query, and what has changed
    edits

listVars == <<table, site, query, page, counted, walk, edits>>

Rows == {table[k] : k \in {k \in Pks : table[k] # null}}

Django == site.backend = "django"

------------------------------------------------------------------------------
(* Filters                                                                  *)

FilterMatches(fltr, row) ==
    LET actual == row[fltr.field]
    IN CASE fltr.lookup \in {"exact", "in"} -> actual = fltr.value
         [] fltr.lookup = "isnull" -> (actual = null) = (fltr.value = 1)
         [] fltr.lookup = "overlaps" -> actual # null /\ actual = fltr.value
         [] fltr.lookup = "gt" -> actual # null /\ actual > fltr.value
         [] fltr.lookup = "gte" -> actual # null /\ actual >= fltr.value
         [] fltr.lookup = "lt" -> actual # null /\ actual < fltr.value
         [] OTHER -> actual # null /\ actual <= fltr.value

(* The lookups a compiler is registered for.                                *)
Compiled == Lookups \ {"overlaps"}

(* A generated model carries its filters; a hand-made one none.             *)
FiltersFrom(q) == IF q.fltr # null /\ ~q.fltr.handmade THEN {q.fltr} ELSE {}

(* The compiler and the columns of every filter of the set are known: one on*)
(* a field that is no column is left to memory, as a sort by it is.         *)
Translatable(q, keys, cursor) ==
    /\ \A f \in FiltersFrom(q) : f.field \in Concrete /\ f.lookup \in Compiled
    /\ cursor # NoCursor => \A i \in DOMAIN keys : keys[i].name \in Concrete

(* apply_filter of the Django backend: the set, cursor predicate included,  *)
(* is compiled as a whole or left to memory; what it marks as applied the   *)
(* in-memory stage skips.                                                   *)
PushesFilter(q, keys, cursor) ==
    /\ Django
    /\ FiltersFrom(q) # {} \/ cursor # NoCursor
    /\ Translatable(q, keys, cursor)

Filtered(q, keys, cursor, rows) ==
    IF PushesFilter(q, keys, cursor)
    THEN {r \in rows : /\ \A f \in FiltersFrom(q) : FilterMatches(f, r)
                       /\ cursor # NoCursor =>
                             CursorCondition(r, cursor, keys, site.nullsFirst, site.nullable)}
    ELSE {r \in rows : /\ \A f \in FiltersFrom(q) : FilterMatches(f, r)
                       /\ cursor # NoCursor => CursorMatches(r, cursor, keys, site.nullsFirst)
                       /\ q.fltr # null /\ q.fltr.handmade => FilterMatches(q.fltr, r)}

(* An in-memory filter has landed the rows in a list.                       *)
Landed(q, keys, cursor) ==
    \/ ~Django
    \/ /\ q.fltr # null \/ cursor # NoCursor
       /\ ~PushesFilter(q, keys, cursor)

------------------------------------------------------------------------------
(* Sorting: the orders of the rows that the sort columns allow              *)

Compare(a, b, col) == CompareInOrder(a[col.name], b[col.name], col.desc, site.nullsFirst)

SortListBefore(a, b, sort) ==
    \E i \in DOMAIN sort :
       /\ \A j \in 1..(i - 1) : Compare(a, b, sort[j]) = 0
       /\ Compare(a, b, sort[i]) < 0

(* ORDER BY, with the placement of the NULLs spelled out per column.        *)
OrderByBefore(a, b, sort) ==
    \E i \in DOMAIN sort :
       /\ \A j \in 1..(i - 1) : a[sort[j].name] = b[sort[j].name]
       /\ LET x == a[sort[i].name]
              y == b[sort[i].name]
              first == site.nullsFirst # sort[i].desc
          IN /\ x # y
             /\ IF x = null THEN first
                ELSE IF y = null THEN ~first
                ELSE IF sort[i].desc THEN x > y ELSE x < y

SortInSql(sort, landed) == ~landed /\ \A i \in DOMAIN sort : sort[i].name \in Concrete

Orders(rows, sort, landed) ==
    {s \in SetToSeqs(rows) :
        \A i, j \in DOMAIN s :
            i < j => IF SortInSql(sort, landed) THEN ~OrderByBefore(s[j], s[i], sort)
                                                ELSE ~SortListBefore(s[j], s[i], sort)}

------------------------------------------------------------------------------
(* Pages                                                                    *)

Least(a, b) == IF a < b THEN a ELSE b

(* A Python slice, s[start : start + size].                                 *)
Slice(s, start, size) == SubSeq(s, start + 1, Least(start + size, Len(s)))

(* take_page: limit + 1 rows are read to know whether more follow.          *)
TakePage(s, offset, limit) ==
    LET read == Slice(s, offset, limit + 1)
    IN [rows |-> Slice(read, 0, limit), more |-> Len(read) > limit]

(* A cursor names the ordering keys and the active filter it was issued for.*)
Fingerprint(keys, fltr) == <<keys, fltr>>

CursorOf(row, backwards, inclusive, keys, fltr) ==
    [position |-> row, backwards |-> backwards, inclusive |-> inclusive,
     query |-> Fingerprint(keys, fltr)]

(* The anchors of a page: its edge rows.                                    *)
Anchors(results, keys, fltr) ==
    IF results = <<>> THEN [a \in {"next", "previous", "first", "last"} |-> NoCursor]
    ELSE [next |-> CursorOf(results[Len(results)], FALSE, FALSE, keys, fltr),
          previous |-> CursorOf(results[1], TRUE, FALSE, keys, fltr),
          first |-> CursorOf(results[1], TRUE, TRUE, keys, fltr),
          last |-> CursorOf(results[Len(results)], FALSE, TRUE, keys, fltr)]

Backwards(cursor) == cursor # NoCursor /\ cursor.backwards

(* _cursor_page: a page read backwards is turned round.                     *)
CursorPage(q, keys, cursor, taken) ==
    LET back == Backwards(cursor)
        results == IF back THEN Reverse(taken.rows) ELSE taken.rows
        hasMore == IF back THEN cursor # NoCursor ELSE taken.more
        hasPrevious == IF back THEN taken.more ELSE cursor # NoCursor
        anchors == Anchors(results, keys, q.fltr)
    IN [kind |-> "cursor", from |-> cursor, rows |-> results,
        hasMore |-> hasMore, hasPrevious |-> hasPrevious,
        anchors |-> [anchors EXCEPT !.next = IF hasMore THEN @ ELSE NoCursor,
                                    !.previous = IF hasPrevious THEN @ ELSE NoCursor]]

NoPage == [kind |-> "none", from |-> NoCursor, rows |-> <<>>, hasMore |-> FALSE,
           hasPrevious |-> FALSE, anchors |-> Anchors(<<>>, <<>>, null)]

(* A cursor of another query is a client error.                             *)
Refused == [NoPage EXCEPT !.kind = "refused"]

(* get_list, the cursor shape.                                              *)
CursorAnswers(q, cursor) ==
    LET keys == CursorKeys(q.sort)
        sort == Reversed(keys, Backwards(cursor))
        rows == Filtered(q, keys, cursor, Rows)
    IN IF cursor # NoCursor /\ cursor.query # Fingerprint(keys, q.fltr)
       THEN {Refused}
       ELSE {CursorPage(q, keys, cursor, TakePage(s, 0, q.limit)) :
                s \in Orders(rows, sort, Landed(q, keys, cursor))}

(* get_list, the plain and the paginated shape.                             *)
OffsetAnswers(q) ==
    LET rows == Filtered(q, <<>>, NoCursor, Rows)
        paged(s) ==
            LET taken == TakePage(s, q.offset, q.limit)
            IN [NoPage EXCEPT !.kind = "paginated", !.rows = taken.rows, !.hasMore = taken.more,
                              !.hasPrevious = q.offset > 0]
    IN {IF q.shape = "plain" THEN [NoPage EXCEPT !.kind = "plain", !.rows = s] ELSE paged(s) :
           s \in Orders(rows, q.sort, Landed(q, <<>>, NoCursor))}

(* apply_lookup_filter: by the declaration, else by filter_lookup.          *)
LookupNarrows(q, row) ==
    /\ \A f \in FiltersFrom(q) : FilterMatches(f, row)
    /\ q.fltr # null /\ q.fltr.handmade => FilterMatches(q.fltr, row)

(* get_lookup: the source comes in an order of its own, here `sort`, and a  *)
(* filter in memory keeps the order of what it leaves.                      *)
LookupAnswers(q) ==
    {[NoPage EXCEPT !.kind = "lookup", !.rows = s] :
        s \in Orders({row \in Rows : LookupNarrows(q, row)}, q.sort, TRUE)}

------------------------------------------------------------------------------
(* The order that a query asks for, which the walk and the properties go by:*)
(* a row comes before another if it does in the first column they differ in.*)

Lower(x, y) == x # y /\ IF x = null \/ y = null THEN (x = null) = site.nullsFirst ELSE x < y

Ahead(a, b, key) == IF key.desc THEN Lower(b[key.name], a[key.name]) ELSE Lower(a[key.name], b[key.name])

Same(a, b, key) == a[key.name] = b[key.name]

ComesBefore(a, b, keys) ==
    \E i \in DOMAIN keys : Ahead(a, b, keys[i]) /\ \A j \in 1..(i - 1) : Same(a, b, keys[j])

(* The span of the rows that the pages read so far cover, end to end; it is *)
(* open where no row bounds it.                                             *)
Open == [none |-> TRUE]

Span(answer) ==
    LET rows == answer.rows
        from == IF answer.from = NoCursor THEN Open ELSE answer.from.position
    IN IF Backwards(answer.from)
       THEN [lo |-> IF answer.hasPrevious THEN rows[1] ELSE Open, hi |-> from]
       ELSE [lo |-> from, hi |-> IF answer.hasMore THEN rows[Len(rows)] ELSE Open]

Within(r, span, keys) ==
    /\ span.lo = Open \/ ~ComesBefore(r, span.lo, keys)
    /\ span.hi = Open \/ ~ComesBefore(span.hi, r, keys)

PksOf(rows) == {rows[i]["pk"] : i \in DOMAIN rows}

NoWalk == [seen |-> {}, moved |-> {}, lo |-> Open, hi |-> Open]

Walked(q, answer) ==
    LET keys == CursorKeys(q.sort)
        span == Span(answer)
        lower == walk.lo # Open /\ (span.lo = Open \/ ComesBefore(span.lo, walk.lo, keys))
        higher == walk.hi # Open /\ (span.hi = Open \/ ComesBefore(walk.hi, span.hi, keys))
    IN IF answer.from = NoCursor
       THEN [seen |-> PksOf(answer.rows), moved |-> {}, lo |-> span.lo, hi |-> span.hi]
       ELSE [walk EXCEPT !.seen = @ \cup PksOf(answer.rows),
                         !.lo = IF lower THEN span.lo ELSE @, !.hi = IF higher THEN span.hi ELSE @]

------------------------------------------------------------------------------
(* The steps: a request, with no cursor or one of the last page; the second *)
(* query of an offset page; a row written by somebody else. A client starts *)
(* once: a request without a cursor does not depend on the pages before. A  *)
(* cursor sent with another query is the page's last.                       *)

Cursors(q) ==
    CASE query = null -> {NoCursor}
      [] query = q -> {page.anchors[a] : a \in DOMAIN page.anchors} \ {NoCursor}
      [] OTHER -> {page.anchors.last} \ {NoCursor}

ListCursor(q, cursor) ==
    /\ q.shape = "cursor"
    /\ \E answer \in CursorAnswers(q, cursor) :
          /\ page' = answer
          /\ walk' = IF answer.kind = "refused" THEN NoWalk ELSE Walked(q, answer)
    /\ query' = q
    /\ UNCHANGED <<table, site, counted, edits>>

CountRecords(q) ==
    /\ q.shape = "paginated" /\ query = null
    /\ counted' = Cardinality(Filtered(q, <<>>, NoCursor, Rows))
    /\ query' = q /\ page' = NoPage /\ walk' = NoWalk
    /\ UNCHANGED <<table, site, edits>>

ListPaginated ==
    /\ counted # null
    /\ page' \in OffsetAnswers(query)
    /\ counted' = null
    /\ UNCHANGED <<table, site, query, walk, edits>>

ListPlain(q) ==
    /\ q.shape = "plain" /\ query = null
    /\ page' \in OffsetAnswers(q)
    /\ query' = q /\ walk' = NoWalk
    /\ UNCHANGED <<table, site, counted, edits>>

ListLookup(q) ==
    /\ q.shape = "lookup" /\ query = null
    /\ page' \in LookupAnswers(q)
    /\ query' = q /\ walk' = NoWalk
    /\ UNCHANGED <<table, site, counted, edits>>

(* A row of key k: a NULL is in a nullable column only.                     *)
RowsOf(k) == {r \in TableRows : r.pk = k /\ \A f \in Fields \ site.nullable : r[f] # null}

Edit(k) ==
    /\ query # null /\ edits < MaxEdits
    /\ \E row \in RowsOf(k) \cup {null} : row # table[k] /\ table' = [table EXCEPT ![k] = row]
    /\ walk' = [walk EXCEPT !.moved = @ \cup {k}]
    /\ edits' = edits + 1
    /\ UNCHANGED <<site, query, page, counted>>

Sites == [backend : {"memory"}, nullsFirst : BOOLEAN, nullable : {Nullable}]
         \cup [backend : {"django"}, nullsFirst : BOOLEAN, nullable : {{}, Nullable}]

ListsInit ==
    /\ site \in Sites
    /\ table \in {t \in [Pks -> UNION {RowsOf(k) : k \in Pks}] : \A k \in Pks : t[k].pk = k}
    /\ query = null /\ page = NoPage /\ counted = null /\ walk = NoWalk /\ edits = 0

ListsNext ==
    \/ \E q \in ListQueries : \E cursor \in Cursors(q) : ListCursor(q, cursor)
    \/ \E q \in ListQueries : CountRecords(q) \/ ListPlain(q) \/ ListLookup(q)
    \/ ListPaginated
    \/ \E k \in Pks : Edit(k)

ListsSpec == ListsInit /\ [][ListsNext]_listVars

------------------------------------------------------------------------------
(* Every variable has its type, and a page its limit.                       *)
ListsTypeOK ==
    /\ site \in Sites
    /\ \A k \in Pks : table[k] \in RowsOf(k) \cup {null}
    /\ query \in ListQueries \cup {null}
    /\ page.kind \in {"none", "refused", "plain", "paginated", "cursor", "lookup"}
    /\ page.kind \in {"paginated", "cursor"} => Len(page.rows) <= query.limit
    /\ counted \in Nat \cup {null}
    /\ walk.seen \subseteq Pks /\ walk.moved \subseteq Pks
    /\ edits \in 0..MaxEdits

(* The rows a query asks for.                                               *)
Accepted(q) == {r \in Rows : q.fltr # null => FilterMatches(q.fltr, r)}

(* A hand-made filter on the Django backend is not applied past the first   *)
(* page (EveryPageIsFiltered).                                              *)
Unfiltered(q, cursor) == Django /\ cursor # NoCursor /\ q.fltr # null /\ q.fltr.handmade

(* The rows that a page read from a cursor is of.                           *)
Beyond(r, from, keys) ==
    from # NoCursor =>
        IF \A i \in DOMAIN keys : Same(r, from.position, keys[i]) THEN from.inclusive
        ELSE IF from.backwards THEN ComesBefore(r, from.position, keys)
        ELSE ComesBefore(from.position, r, keys)

(* Of a cursor page: it holds exactly the rows next to its anchor that the  *)
(* filter accepts, in the order asked for, and says rightly whether more lie*)
(* in the direction it was read, wherever the NULLs sort, also from an      *)
(* anchor row that has moved or gone; and only a cursor of the same ordering*)
(* and filter is answered (cursor.py 188-239, django_orm.py 411-478).       *)
PageIsExactly(answer, q) ==
    LET keys == CursorKeys(q.sort)
        from == answer.from
        wanted == {r \in Accepted(q) : Beyond(r, from, keys)}
        given == {answer.rows[i] : i \in DOMAIN answer.rows}
    IN IF answer.kind = "refused"
       THEN page.anchors.last.query # <<keys, q.fltr>>
       ELSE /\ from # NoCursor => from.query = <<keys, q.fltr>>
            /\ given \subseteq wanted
            /\ Len(answer.rows) = Least(q.limit, Cardinality(wanted))
            /\ \A i, j \in DOMAIN answer.rows :
                  i < j => ComesBefore(answer.rows[i], answer.rows[j], keys)
            /\ \A r \in given, s \in wanted \ given :
                  IF Backwards(from) THEN ComesBefore(s, r, keys) ELSE ComesBefore(r, s, keys)
            /\ (IF Backwards(from) THEN answer.hasPrevious ELSE answer.hasMore)
                  <=> Cardinality(wanted) > q.limit

(* Of a plain list, a lookup and an offset page: the list is the whole of   *)
(* the rows accepted, in the order asked for, and the count of a page and   *)
(* its rows agree when no row was written between the two.                  *)
ListIsExactly(answer, q) ==
    LET accepted == Cardinality(Accepted(q))
    IN /\ \A i, j \in DOMAIN answer.rows : i < j => ~ComesBefore(answer.rows[j], answer.rows[i], q.sort)
       /\ \A i \in DOMAIN answer.rows : answer.rows[i] \in Accepted(q)
       /\ answer.kind \in {"plain", "lookup"} => Len(answer.rows) = accepted
       /\ answer.kind = "paginated" => (answer.hasMore <=> q.offset + q.limit < accepted)
       /\ counted # null /\ walk.moved = {} => counted = accepted

(* Every answer is exact, whichever of memory and SQL made it (mixins.py    *)
(* 403-508, 716-739).                                                       *)
PageIsExact ==
    [][page' # page =>
          /\ page'.kind \in {"cursor", "refused"} /\ ~Unfiltered(query', page'.from)
                => PageIsExactly(page', query')
          /\ page'.kind \in {"plain", "paginated", "lookup"} => ListIsExactly(page', query')]_listVars

(* A walk misses nothing and has no early end: of the rows that nobody      *)
(* touched since it began, the client has read every one the pages span,    *)
(* whatever was inserted, deleted or moved around it, its anchor included,  *)
(* and a page without `next` (`previous`) ends the span only where no such  *)
(* row is left (docs/guide/list-pipeline.md:204).                           *)
WalkMissesNothing ==
    page.kind = "cursor" =>
        \A r \in Accepted(query) :
            r.pk \notin walk.moved /\ Within(r, walk, CursorKeys(query.sort)) => r.pk \in walk.seen

(* Every page is of rows that the filter accepts, a hand-made one included  *)
(* (docs/guide/list-pipeline.md:281).                                       *)
EveryPageIsFiltered ==
    [][page' # page /\ query' # null
          => \A i \in DOMAIN page'.rows : page'.rows[i] \in Accepted(query')]_listVars
=============================================================================
