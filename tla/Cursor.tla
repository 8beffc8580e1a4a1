------------------------------- MODULE Cursor --------------------------------
(* Where a page of a list starts: the ordering keys of a query (cursor.py), *)
(* the in-memory comparison and predicate, and the condition the Django     *)
(* backend compiles the same predicate to (backends/django_orm.py). A row   *)
(* is a record, a key names one of its fields and a direction; `null` is    *)
(* the value of an empty column.                                            *)
EXTENDS Integers, Sequences

CONSTANTS null, Fields, FieldValues

ASSUME ValuesAssumption == FieldValues \subseteq Int /\ null \notin FieldValues

ASSUME FieldsAssumption == "pk" \in Fields

ListRows == [Fields -> FieldValues \cup {null}]

SortKeys == [name : Fields, desc : BOOLEAN]

(* What decode_cursor returns, once the cursor is known to be of the query; *)
(* the position holds the anchor row's own values.                          *)
IsCursorState(state) == state.position \in ListRows /\ {state.backwards, state.inclusive} \subseteq BOOLEAN

(* Mutant of CursorKeys: the ordering as asked, without the primary key.    *)
KeysAsAsked(sort) == sort

(* The client's ordering with the primary key appended when it is absent.   *)
CursorKeys(sort) ==
    IF \E i \in DOMAIN sort : sort[i].name = "pk" THEN sort
    ELSE Append(sort, [name |-> "pk", desc |-> FALSE])

Differ(p, q) == ~(p <=> q)

(* The keys a page read backwards is sorted by.                             *)
Reversed(keys, backwards) ==
    [i \in DOMAIN keys |-> [keys[i] EXCEPT !.desc = Differ(@, backwards)]]

------------------------------------------------------------------------------
(* In memory                                                                *)

Ascending(left, right, nullsFirst) ==
    CASE left = null /\ right = null -> 0
      [] left = null /\ right # null -> IF nullsFirst THEN -1 ELSE 1
      [] left # null /\ right = null -> IF nullsFirst THEN 1 ELSE -1
      [] OTHER -> IF left > right THEN 1 ELSE IF left < right THEN -1 ELSE 0

CompareInOrder(left, right, descending, nullsFirst) ==
    IF descending THEN 0 - Ascending(left, right, nullsFirst)
                  ELSE Ascending(left, right, nullsFirst)

KeyOrder(row, state, key, nullsFirst) ==
    CompareInOrder(row[key.name], state.position[key.name], key.desc, nullsFirst)

(* CursorPredicate.matches: the first key that differs decides, and the     *)
(* anchor row itself, equal in every key, belongs to an inclusive page.     *)
CursorMatches(row, state, keys, nullsFirst) ==
    \/ \E i \in DOMAIN keys :
          /\ \A j \in 1..(i - 1) : KeyOrder(row, state, keys[j], nullsFirst) = 0
          /\ IF state.backwards THEN KeyOrder(row, state, keys[i], nullsFirst) < 0
                                ELSE KeyOrder(row, state, keys[i], nullsFirst) > 0
    \/ /\ state.inclusive
       /\ \A i \in DOMAIN keys : KeyOrder(row, state, keys[i], nullsFirst) = 0

------------------------------------------------------------------------------
(* In SQL, where a comparison with NULL is unknown and selects nothing      *)

WantsGreater(descending, backwards) == Differ(~descending, backwards)

SqlBeyond(actual, value, greater) ==
    /\ actual # null /\ value # null
    /\ IF greater THEN actual > value ELSE actual < value

(* Mutant of Segment: the end of the NULLs of a page read forwards.         *)
SegmentForwards(row, state, key, nullsFirst) ==
    LET actual == row[key.name]
        value == state.position[key.name]
        nullsLead == Differ(nullsFirst, key.desc)
    IN IF value = null THEN nullsLead /\ actual # null
       ELSE \/ SqlBeyond(actual, value, WantsGreater(key.desc, state.backwards))
            \/ ~nullsLead /\ actual = null

(* One key of a segment: strictly past the anchor's value, the NULLs added  *)
(* or excluded according to the end at which they are read.                 *)
Segment(row, state, key, nullsFirst) ==
    LET actual == row[key.name]
        value == state.position[key.name]
        nullsLead == Differ(Differ(nullsFirst, key.desc), state.backwards)
    IN IF value = null THEN nullsLead /\ actual # null
       ELSE \/ SqlBeyond(actual, value, WantsGreater(key.desc, state.backwards))
            \/ ~nullsLead /\ actual = null

SegmentCondition(row, state, keys, nullsFirst) ==
    \/ \E i \in DOMAIN keys :
          /\ \A j \in 1..(i - 1) : row[keys[j].name] = state.position[keys[j].name]
          /\ Segment(row, state, keys[i], nullsFirst)
    \/ /\ state.inclusive
       /\ \A i \in DOMAIN keys : row[keys[i].name] = state.position[keys[i].name]

(* (a, b) > (x, y): lexicographic, and unknown over a NULL.                 *)
RowValueCondition(row, state, keys) ==
    \E i \in DOMAIN keys :
       /\ \A j \in 1..(i - 1) :
             /\ row[keys[j].name] # null
             /\ row[keys[j].name] = state.position[keys[j].name]
       /\ SqlBeyond(row[keys[i].name], state.position[keys[i].name],
                    WantsGreater(keys[1].desc, state.backwards))

(* The row-value form only for keys of one direction without a nullable     *)
(* column, and never for an inclusive page.                                 *)
CursorCondition(row, state, keys, nullsFirst, nullable) ==
    IF /\ \A i, j \in DOMAIN keys : keys[i].desc = keys[j].desc
       /\ ~state.inclusive
       /\ \A i \in DOMAIN keys : keys[i].name \notin nullable
    THEN RowValueCondition(row, state, keys)
    ELSE SegmentCondition(row, state, keys, nullsFirst)
=============================================================================
