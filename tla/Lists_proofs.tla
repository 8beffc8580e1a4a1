----------------------------- MODULE Lists_proofs ------------------------------
(* Proofs about lists: the rows that a page after a cursor selects, in each *)
(* form of "past this row"; that each answer is exact, from memory or from  *)
(* SQL; and that a walk misses nothing while rows come, go and move.        *)
EXTENDS Lists, FiniteSetTheorems, SequenceTheorems, WellFoundedInduction, TLAPS

------------------------------------------------------------------------------
(* Cursor: the three forms of "past this row" select the same rows.         *)

LEMMA AscendingSign ==
    ASSUME NEW l \in FieldValues \cup {null}, NEW r \in FieldValues \cup {null}, NEW n \in BOOLEAN
    PROVE  /\ Ascending(l, r, n) \in {-1, 0, 1}
           /\ Ascending(l, r, n) = 0 <=> l = r
           /\ Ascending(l, r, n) = 1 <=> \/ l = null /\ r # null /\ ~n
                                         \/ l # null /\ r = null /\ n
                                         \/ l # null /\ r # null /\ l > r
<1>1. CASE l = null
  BY <1>1 DEF Ascending
<1>2. CASE l # null /\ r = null
  BY <1>2 DEF Ascending
<1>3. CASE l # null /\ r # null
  <2>1. l \in Int /\ r \in Int
    BY <1>3, ValuesAssumption
  <2> QED  BY <1>3, <2>1 DEF Ascending
<1> QED  BY <1>1, <1>2, <1>3

(* A comparison is the ascending one or its opposite.                       *)
LEMMA ComparisonSign ==
    ASSUME NEW l \in FieldValues \cup {null}, NEW r \in FieldValues \cup {null},
           NEW d \in BOOLEAN, NEW n \in BOOLEAN
    PROVE  /\ CompareInOrder(l, r, d, n) = 0 <=> l = r
           /\ CompareInOrder(l, r, d, n) > 0
                <=> l # r /\ (IF d THEN Ascending(l, r, n) # 1 ELSE Ascending(l, r, n) = 1)
           /\ CompareInOrder(l, r, d, n) < 0
                <=> l # r /\ (IF d THEN Ascending(l, r, n) = 1 ELSE Ascending(l, r, n) # 1)
<1> DEFINE a == Ascending(l, r, n)
<1>1. a \in {-1, 0, 1} /\ (a = 0 <=> l = r)
  BY AscendingSign
<1>2. CompareInOrder(l, r, d, n) = IF d THEN 0 - a ELSE a
  BY DEF CompareInOrder
<1> HIDE DEF a
<1> DEFINE c == CompareInOrder(l, r, d, n)
<1> HIDE DEF c
<1>3. CASE a = -1
  <2>1. c = IF d THEN 1 ELSE -1
    BY <1>2, <1>3 DEF c
  <2>2. l # r
    BY <1>1, <1>3
  <2>3. /\ c = 0 <=> l = r
        /\ c > 0 <=> l # r /\ (IF d THEN a # 1 ELSE a = 1)
        /\ c < 0 <=> l # r /\ (IF d THEN a = 1 ELSE a # 1)
    BY <1>3, <2>1, <2>2
  <2> QED  BY <2>3 DEF a, c
<1>4. CASE a = 0
  <2>1. c = 0
    BY <1>2, <1>4 DEF c
  <2>2. l = r
    BY <1>1, <1>4
  <2>3. /\ c = 0 <=> l = r
        /\ c > 0 <=> l # r /\ (IF d THEN a # 1 ELSE a = 1)
        /\ c < 0 <=> l # r /\ (IF d THEN a = 1 ELSE a # 1)
    BY <2>1, <2>2
  <2> QED  BY <2>3 DEF a, c
<1>5. CASE a = 1
  <2>1. c = IF d THEN -1 ELSE 1
    BY <1>2, <1>5 DEF c
  <2>2. l # r
    BY <1>1, <1>5
  <2>3. /\ c = 0 <=> l = r
        /\ c > 0 <=> l # r /\ (IF d THEN a # 1 ELSE a = 1)
        /\ c < 0 <=> l # r /\ (IF d THEN a = 1 ELSE a # 1)
    BY <1>5, <2>1, <2>2
  <2> QED  BY <2>3 DEF a, c
<1> QED  BY <1>1, <1>3, <1>4, <1>5

(* A key of a row compares equal to the anchor's exactly when the values    *)
(* are equal, both null included.                                           *)
LEMMA EqualKeys ==
    ASSUME NEW row \in ListRows, NEW state, IsCursorState(state), NEW key \in SortKeys,
           NEW nullsFirst \in BOOLEAN
    PROVE  (KeyOrder(row, state, key, nullsFirst) = 0)
             <=> (row[key.name] = state.position[key.name])
<1>1. /\ row[key.name] \in FieldValues \cup {null}
      /\ state.position[key.name] \in FieldValues \cup {null}
      /\ key.desc \in BOOLEAN
  BY SMTT(30) DEF ListRows, IsCursorState, SortKeys
<1> QED  BY <1>1, ComparisonSign DEF KeyOrder

(* A segment asks of its key what the comparison does, in the direction of  *)
(* the page.                                                                *)
LEMMA SegmentIsTheOrder ==
    ASSUME NEW row \in ListRows, NEW state, IsCursorState(state), NEW key \in SortKeys,
           NEW nullsFirst \in BOOLEAN
    PROVE  Segment(row, state, key, nullsFirst)
             <=> IF state.backwards THEN KeyOrder(row, state, key, nullsFirst) < 0
                 ELSE KeyOrder(row, state, key, nullsFirst) > 0
<1> DEFINE a == row[key.name]
           v == state.position[key.name]
<1>1. /\ a \in FieldValues \cup {null}
      /\ v \in FieldValues \cup {null}
      /\ key.desc \in BOOLEAN /\ state.backwards \in BOOLEAN
  BY SMTT(30) DEF ListRows, IsCursorState, SortKeys
<1>2. KeyOrder(row, state, key, nullsFirst) = CompareInOrder(a, v, key.desc, nullsFirst)
  BY DEF KeyOrder
<1>3. Segment(row, state, key, nullsFirst) <=>
        \/ v = null /\ a # null /\ Differ(Differ(nullsFirst, key.desc), state.backwards)
        \/ v # null /\ a = null /\ ~Differ(Differ(nullsFirst, key.desc), state.backwards)
        \/ v # null /\ a # null /\ (IF Differ(~key.desc, state.backwards) THEN a > v ELSE a < v)
  BY DEF Segment, SqlBeyond, WantsGreater
<1> HIDE DEF a, v
<1>4. a # null /\ v # null => a \in Int /\ v \in Int
  BY <1>1, ValuesAssumption
<1> DEFINE past == \/ a = null /\ v # null /\ ~nullsFirst
                   \/ a # null /\ v = null /\ nullsFirst
                   \/ a # null /\ v # null /\ a > v
<1>9. Ascending(a, v, nullsFirst) = 1 <=> past
  BY <1>1, AscendingSign
<1>10. /\ CompareInOrder(a, v, key.desc, nullsFirst) > 0
             <=> a # v /\ (IF key.desc THEN ~past ELSE past)
       /\ CompareInOrder(a, v, key.desc, nullsFirst) < 0
             <=> a # v /\ (IF key.desc THEN past ELSE ~past)
  BY <1>1, <1>9, ComparisonSign
<1>11. /\ KeyOrder(row, state, key, nullsFirst) > 0
             <=> a # v /\ (IF key.desc THEN ~past ELSE past)
       /\ KeyOrder(row, state, key, nullsFirst) < 0
             <=> a # v /\ (IF key.desc THEN past ELSE ~past)
  BY <1>2, <1>10
<1>5. CASE state.backwards /\ key.desc
  <2>1. /\ Differ(Differ(nullsFirst, key.desc), state.backwards) <=> nullsFirst
        /\ Differ(~key.desc, state.backwards) <=> TRUE
    BY <1>5, Zenon DEF Differ
  <2>2. Segment(row, state, key, nullsFirst)
          <=> \/ v = null /\ a # null /\ nullsFirst
              \/ v # null /\ a = null /\ ~(nullsFirst)
              \/ v # null /\ a # null /\ a > v
    BY <1>3, <2>1
  <2> QED  BY <1>4, <1>5, <1>11, <2>2
<1>6. CASE state.backwards /\ ~key.desc
  BY <1>3, <1>4, <1>6, <1>11 DEF Differ
<1>7. CASE ~state.backwards /\ key.desc
  <2>1. /\ Differ(Differ(nullsFirst, key.desc), state.backwards) <=> ~nullsFirst
        /\ Differ(~key.desc, state.backwards) <=> FALSE
    BY <1>7, Zenon DEF Differ
  <2>2. Segment(row, state, key, nullsFirst)
          <=> \/ v = null /\ a # null /\ ~nullsFirst
              \/ v # null /\ a = null /\ ~(~nullsFirst)
              \/ v # null /\ a # null /\ a < v
    BY <1>3, <2>1
  <2> QED  BY <1>4, <1>7, <1>11, <2>2
<1>8. CASE ~state.backwards /\ ~key.desc
  BY <1>3, <1>4, <1>8, <1>11 DEF Differ
<1> QED  BY <1>1, <1>5, <1>6, <1>7, <1>8

(* The segments, one per key, select the rows the in-memory predicate does, *)
(* for any keys, directions and placement of NULLs.                         *)
THEOREM SegmentsAreTheComparison ==
    ASSUME NEW row \in ListRows, NEW state, IsCursorState(state), NEW keys \in Seq(SortKeys),
           NEW nullsFirst \in BOOLEAN
    PROVE  SegmentCondition(row, state, keys, nullsFirst)
             <=> CursorMatches(row, state, keys, nullsFirst)
<1>1. ASSUME NEW i \in DOMAIN keys
      PROVE  /\ keys[i] \in SortKeys
             /\ \A j \in 1..(i - 1) : j \in DOMAIN keys /\ keys[j] \in SortKeys
  <2>1. i \in 1..Len(keys)
    OBVIOUS
  <2>2. ASSUME NEW j \in 1..(i - 1) PROVE j \in 1..Len(keys)
    BY <2>1
  <2> QED  BY <2>1, <2>2
<1>2. ASSUME NEW i \in DOMAIN keys
      PROVE  (KeyOrder(row, state, keys[i], nullsFirst) = 0)
               <=> (row[keys[i].name] = state.position[keys[i].name])
  BY <1>1, EqualKeys
<1>3. ASSUME NEW i \in DOMAIN keys
      PROVE  Segment(row, state, keys[i], nullsFirst)
               <=> IF state.backwards THEN KeyOrder(row, state, keys[i], nullsFirst) < 0
                   ELSE KeyOrder(row, state, keys[i], nullsFirst) > 0
  BY <1>1, SegmentIsTheOrder
<1> QED  BY <1>1, <1>2, <1>3, Zenon DEF SegmentCondition, CursorMatches

(* Whichever form the Django backend picks, the page is read from the row   *)
(* the in-memory list would read it from: a column that is not nullable     *)
(* holds no NULL, in the row or in the cursor.                              *)
THEOREM SqlIsTheComparison ==
    ASSUME NEW row \in ListRows, NEW state, IsCursorState(state), NEW keys \in Seq(SortKeys),
           NEW nullsFirst \in BOOLEAN, NEW nullable,
           \A f \in Fields \ nullable : row[f] # null /\ state.position[f] # null
    PROVE  CursorCondition(row, state, keys, nullsFirst, nullable)
             <=> CursorMatches(row, state, keys, nullsFirst)
<1> DEFINE OneWay == \A i, j \in DOMAIN keys : keys[i].desc = keys[j].desc
           Whole == \A i \in DOMAIN keys : keys[i].name \notin nullable
<1>1. CASE ~(OneWay /\ ~state.inclusive /\ Whole)
  BY <1>1, SegmentsAreTheComparison DEF CursorCondition
<1>2. CASE OneWay /\ ~state.inclusive /\ Whole
  <2>1. \A i \in DOMAIN keys : keys[i] \in SortKeys /\ i \in 1..Len(keys)
    OBVIOUS
  <2>2. ASSUME NEW i \in DOMAIN keys
        PROVE  /\ row[keys[i].name] # null /\ state.position[keys[i].name] # null
               /\ keys[1].desc = keys[i].desc /\ keys[i].desc \in BOOLEAN
               /\ \A j \in 1..(i - 1) : j \in DOMAIN keys
    <3>1. keys[i].name \in Fields \ nullable /\ keys[i].desc \in BOOLEAN
      BY <1>2, <2>1 DEF SortKeys
    <3>2. 1 \in DOMAIN keys
      BY <2>1
    <3>3. ASSUME NEW j \in 1..(i - 1) PROVE j \in DOMAIN keys
      BY <2>1
    <3> QED  BY <1>2, <3>1, <3>2, <3>3
  <2>3. ASSUME NEW i \in DOMAIN keys
        PROVE  SqlBeyond(row[keys[i].name], state.position[keys[i].name],
                         WantsGreater(keys[1].desc, state.backwards))
                 <=> Segment(row, state, keys[i], nullsFirst)
    BY <2>2 DEF Segment
  <2>4. RowValueCondition(row, state, keys)
          <=> SegmentCondition(row, state, keys, nullsFirst)
    BY <1>2, <2>2, <2>3, Zenon DEF RowValueCondition, SegmentCondition
  <2>5. CursorCondition(row, state, keys, nullsFirst, nullable)
          <=> RowValueCondition(row, state, keys)
    BY <1>2 DEF CursorCondition
  <2> QED  BY <2>4, <2>5, SegmentsAreTheComparison
<1> QED  BY <1>1, <1>2

------------------------------------------------------------------------------
(* The order that a query asks for                                          *)

LEMMA LowerIsStrict ==
    ASSUME NEW x \in FieldValues \cup {null}, NEW y \in FieldValues \cup {null},
           NEW z \in FieldValues \cup {null}, site.nullsFirst \in BOOLEAN
    PROVE  /\ ~(Lower(x, y) /\ Lower(y, x))
           /\ x # y <=> Lower(x, y) \/ Lower(y, x)
           /\ Lower(x, z) => Lower(x, y) \/ Lower(y, z)
<1>1. \A v \in FieldValues \cup {null} : v # null => v \in Int
  BY ValuesAssumption
<1>2. CASE site.nullsFirst = TRUE
  BY <1>1, <1>2 DEF Lower
<1>3. CASE site.nullsFirst = FALSE
  BY <1>1, <1>3 DEF Lower
<1> QED
  BY <1>2, <1>3

LEMMA AheadIsStrict ==
    ASSUME NEW a \in ListRows, NEW b \in ListRows, NEW c \in ListRows, NEW key \in SortKeys,
           site.nullsFirst \in BOOLEAN
    PROVE  /\ ~(Ahead(a, b, key) /\ Ahead(b, a, key))
           /\ ~Same(a, b, key) <=> Ahead(a, b, key) \/ Ahead(b, a, key)
           /\ Ahead(a, c, key) => Ahead(a, b, key) \/ Ahead(b, c, key)
<1>1. /\ a[key.name] \in FieldValues \cup {null} /\ b[key.name] \in FieldValues \cup {null}
      /\ c[key.name] \in FieldValues \cup {null}
  BY DEF ListRows, SortKeys
<1> QED
  BY <1>1, LowerIsStrict, Zenon DEF Ahead, Same

(* Of the keys in which two rows differ there is a first one.               *)
LEMMA FirstDifference ==
    ASSUME NEW a, NEW b, NEW keys \in Seq(SortKeys), NEW k \in DOMAIN keys, ~Same(a, b, keys[k])
    PROVE  \E i \in DOMAIN keys : i <= k /\ ~Same(a, b, keys[i]) /\ \A j \in 1..(i - 1) : Same(a, b, keys[j])
<1> DEFINE S == {i \in 1..k : ~Same(a, b, keys[i])}
<1>1. k \in Nat \ {0} /\ DOMAIN keys = 1..Len(keys) /\ k <= Len(keys) /\ Len(keys) \in Nat
  OBVIOUS
<1>2. S \in SUBSET Nat /\ k \in S
  BY <1>1
<1> HIDE DEF S
<1>3. PICK i \in S : \A j \in S : ~(<<j, i>> \in OpToRel(<, Nat))
  BY <1>2, WFMin, NatLessThanWellFounded, Zenon
<1>4. i \in 1..k /\ ~Same(a, b, keys[i])
  BY <1>3 DEF S
<1>5. ASSUME NEW j \in 1..(i - 1) PROVE Same(a, b, keys[j])
  <2>1. j \in 1..k /\ j \in Nat /\ i \in Nat /\ j < i
    BY <1>1, <1>4
  <2>2. j \notin S
    BY <1>2, <1>3, <2>1 DEF OpToRel
  <2> QED
    BY <2>1, <2>2 DEF S
<1> QED
  BY <1>1, <1>4, <1>5

(* The keys are an order of the rows in which those equal in all of them    *)
(* are one: what is not after another is before it or the same, and of two  *)
(* rows apart each third is before the one or after the other.              *)
LEMMA KeysAreAnOrder ==
    ASSUME NEW a \in ListRows, NEW b \in ListRows, NEW c \in ListRows, NEW keys \in Seq(SortKeys),
           site.nullsFirst \in BOOLEAN
    PROVE  /\ ~(ComesBefore(a, b, keys) /\ ComesBefore(b, a, keys))
           /\ (\E i \in DOMAIN keys : ~Same(a, b, keys[i])) <=> ComesBefore(a, b, keys) \/ ComesBefore(b, a, keys)
           /\ ComesBefore(a, c, keys) => ComesBefore(a, b, keys) \/ ComesBefore(b, c, keys)
<1>1. ASSUME NEW i \in DOMAIN keys
      PROVE  i \in Nat \ {0} /\ keys[i] \in SortKeys /\ \A j \in 1..(i - 1) : j \in DOMAIN keys
  OBVIOUS
<1>2. \A x, y \in {a, b, c}, i \in DOMAIN keys :
         /\ ~(Ahead(x, y, keys[i]) /\ Ahead(y, x, keys[i]))
         /\ ~Same(x, y, keys[i]) <=> Ahead(x, y, keys[i]) \/ Ahead(y, x, keys[i])
         /\ Same(x, y, keys[i]) <=> Same(y, x, keys[i])
  BY <1>1, AheadIsStrict DEF Same
<1>3. ~(ComesBefore(a, b, keys) /\ ComesBefore(b, a, keys))
  <2>1. SUFFICES ASSUME NEW i \in DOMAIN keys, Ahead(a, b, keys[i]), \A j \in 1..(i - 1) : Same(a, b, keys[j]),
                        NEW k \in DOMAIN keys, Ahead(b, a, keys[k]), \A j \in 1..(k - 1) : Same(b, a, keys[j])
                 PROVE  FALSE
    BY DEF ComesBefore
  <2>2. i = k \/ i \in 1..(k - 1) \/ k \in 1..(i - 1)
    BY <1>1
  <2> QED
    BY <1>2, <2>1, <2>2
<1>4. (\E i \in DOMAIN keys : ~Same(a, b, keys[i])) <=> ComesBefore(a, b, keys) \/ ComesBefore(b, a, keys)
  <2>1. ASSUME NEW k \in DOMAIN keys, ~Same(a, b, keys[k])
        PROVE  ComesBefore(a, b, keys) \/ ComesBefore(b, a, keys)
    <3>1. PICK i \in DOMAIN keys : ~Same(a, b, keys[i]) /\ \A j \in 1..(i - 1) : Same(a, b, keys[j])
      BY <2>1, FirstDifference
    <3>2. \A j \in 1..(i - 1) : Same(b, a, keys[j])
      BY <1>1, <1>2, <3>1
    <3> QED
      BY <1>2, <3>1, <3>2 DEF ComesBefore
  <2> QED
    BY <1>2, <2>1 DEF ComesBefore
<1>5. ASSUME ComesBefore(a, c, keys) PROVE ComesBefore(a, b, keys) \/ ComesBefore(b, c, keys)
  <2>1. PICK i \in DOMAIN keys : Ahead(a, c, keys[i]) /\ \A j \in 1..(i - 1) : Same(a, c, keys[j])
    BY <1>5 DEF ComesBefore
  <2>2. CASE \A j \in 1..(i - 1) : Same(a, b, keys[j])
    <3>1. Ahead(a, b, keys[i]) \/ Ahead(b, c, keys[i])
      BY <1>1, <2>1, AheadIsStrict
    <3>2. \A j \in 1..(i - 1) : Same(b, c, keys[j])
      BY <2>1, <2>2 DEF Same
    <3> QED
      BY <2>2, <3>1, <3>2 DEF ComesBefore
  <2>3. CASE \E k \in 1..(i - 1) : ~Same(a, b, keys[k])
    <3>1. PICK k \in 1..(i - 1) : ~Same(a, b, keys[k])
      BY <2>3
    <3>2. PICK m \in DOMAIN keys : m <= k /\ ~Same(a, b, keys[m]) /\ \A j \in 1..(m - 1) : Same(a, b, keys[j])
      BY <1>1, <3>1, FirstDifference
    <3>3. m \in 1..(i - 1) /\ \A j \in 1..(m - 1) : j \in 1..(i - 1)
      BY <1>1, <3>1, <3>2
    <3>4. Same(a, c, keys[m]) /\ \A j \in 1..(m - 1) : Same(b, c, keys[j])
      BY <2>1, <3>2, <3>3 DEF Same
    <3>5. Ahead(a, b, keys[m]) \/ Ahead(b, a, keys[m])
      BY <1>2, <3>2
    <3>6. Ahead(b, a, keys[m]) => Ahead(b, c, keys[m])
      BY <3>4, Zenon DEF Ahead, Same
    <3> QED
      BY <3>2, <3>4, <3>5, <3>6 DEF ComesBefore
  <2> QED
    BY <2>2, <2>3
<1> QED
  BY <1>3, <1>4, <1>5

(* The comparison of two values in memory is this order.                    *)
LEMMA AscendingIsLower ==
    ASSUME NEW x \in FieldValues \cup {null}, NEW y \in FieldValues \cup {null},
           site.nullsFirst \in BOOLEAN
    PROVE  /\ Ascending(x, y, site.nullsFirst) = 1 <=> Lower(y, x)
           /\ x # y => (Ascending(x, y, site.nullsFirst) # 1 <=> Lower(x, y))
<1>1. \A v \in FieldValues \cup {null} : v # null => v \in Int
  BY ValuesAssumption
<1>2. Ascending(x, y, site.nullsFirst) = 1
        <=> \/ x = null /\ y # null /\ ~site.nullsFirst
            \/ x # null /\ y = null /\ site.nullsFirst
            \/ x # null /\ y # null /\ x > y
  BY AscendingSign
<1>3. CASE site.nullsFirst = TRUE
  BY <1>1, <1>2, <1>3 DEF Lower
<1>4. CASE site.nullsFirst = FALSE
  BY <1>1, <1>2, <1>4 DEF Lower
<1> QED
  BY <1>3, <1>4

LEMMA CompareIsTheOrder ==
    ASSUME NEW a \in ListRows, NEW b \in ListRows, NEW key \in SortKeys, site.nullsFirst \in BOOLEAN
    PROVE  /\ Compare(a, b, key) = 0 <=> Same(a, b, key)
           /\ Compare(a, b, key) < 0 <=> Ahead(a, b, key)
           /\ Compare(a, b, key) > 0 <=> Ahead(b, a, key)
<1> DEFINE x == a[key.name]
           y == b[key.name]
<1>1. x \in FieldValues \cup {null} /\ y \in FieldValues \cup {null} /\ key.desc \in BOOLEAN
  BY DEF ListRows, SortKeys
<1>2. /\ Same(a, b, key) <=> x = y
      /\ Ahead(a, b, key) <=> IF key.desc THEN Lower(y, x) ELSE Lower(x, y)
      /\ Ahead(b, a, key) <=> IF key.desc THEN Lower(x, y) ELSE Lower(y, x)
      /\ Compare(a, b, key) = CompareInOrder(x, y, key.desc, site.nullsFirst)
  BY DEF Same, Ahead, Compare
<1> HIDE DEF x, y
<1>3. /\ Ascending(x, y, site.nullsFirst) = 1 <=> Lower(y, x)
      /\ x # y => (Ascending(x, y, site.nullsFirst) # 1 <=> Lower(x, y))
      /\ x # y <=> Lower(x, y) \/ Lower(y, x)
  BY <1>1, AscendingIsLower, LowerIsStrict
<1>4. /\ CompareInOrder(x, y, key.desc, site.nullsFirst) = 0 <=> x = y
      /\ CompareInOrder(x, y, key.desc, site.nullsFirst) > 0
           <=> x # y /\ (IF key.desc THEN Ascending(x, y, site.nullsFirst) # 1
                         ELSE Ascending(x, y, site.nullsFirst) = 1)
      /\ CompareInOrder(x, y, key.desc, site.nullsFirst) < 0
           <=> x # y /\ (IF key.desc THEN Ascending(x, y, site.nullsFirst) = 1
                         ELSE Ascending(x, y, site.nullsFirst) # 1)
  BY <1>1, ComparisonSign
<1>5. CASE key.desc
  BY <1>2, <1>3, <1>4, <1>5
<1>6. CASE ~key.desc
  BY <1>2, <1>3, <1>4, <1>6
<1> QED
  BY <1>5, <1>6

LEMMA KeyOrderIsTheOrder ==
    ASSUME NEW row \in ListRows, NEW state, IsCursorState(state), NEW key \in SortKeys,
           site.nullsFirst \in BOOLEAN
    PROVE  /\ KeyOrder(row, state, key, site.nullsFirst) = 0 <=> Same(row, state.position, key)
           /\ KeyOrder(row, state, key, site.nullsFirst) < 0 <=> Ahead(row, state.position, key)
           /\ KeyOrder(row, state, key, site.nullsFirst) > 0 <=> Ahead(state.position, row, key)
<1>1. KeyOrder(row, state, key, site.nullsFirst) = Compare(row, state.position, key)
  BY DEF KeyOrder, Compare
<1> QED
  BY <1>1, CompareIsTheOrder DEF IsCursorState

(* Each key of a sequence is a key, and so are those before it.             *)
LEMMA KeysOf ==
    ASSUME NEW keys \in Seq(SortKeys), NEW i \in DOMAIN keys
    PROVE  keys[i] \in SortKeys /\ \A j \in 1..(i - 1) : j \in DOMAIN keys /\ keys[j] \in SortKeys
<1>1. i \in 1..Len(keys) /\ DOMAIN keys = 1..Len(keys) /\ Len(keys) \in Nat
  OBVIOUS
<1>2. ASSUME NEW j \in 1..(i - 1) PROVE j \in DOMAIN keys
  BY <1>1
<1> QED
  BY <1>1, <1>2

(* sort_list orders the rows so.                                            *)
LEMMA SortListIsTheOrder ==
    ASSUME NEW a \in ListRows, NEW b \in ListRows, NEW sort \in Seq(SortKeys), site.nullsFirst \in BOOLEAN
    PROVE  SortListBefore(a, b, sort) <=> ComesBefore(a, b, sort)
<1>1. ASSUME NEW i \in DOMAIN sort
      PROVE  /\ Compare(a, b, sort[i]) = 0 <=> Same(a, b, sort[i])
             /\ Compare(a, b, sort[i]) < 0 <=> Ahead(a, b, sort[i])
  BY KeysOf, CompareIsTheOrder
<1>2. ASSUME NEW i \in DOMAIN sort PROVE \A j \in 1..(i - 1) : j \in DOMAIN sort
  BY KeysOf
<1> QED
  BY <1>1, <1>2, Zenon DEF SortListBefore, ComesBefore

(* ORDER BY orders them so, its NULLs placed per column.                    *)
LEMMA OrderByIsTheOrder ==
    ASSUME NEW a \in ListRows, NEW b \in ListRows, NEW sort \in Seq(SortKeys), site.nullsFirst \in BOOLEAN
    PROVE  OrderByBefore(a, b, sort) <=> ComesBefore(a, b, sort)
<1> DEFINE Column(x, y, desc) ==
             /\ x # y
             /\ IF x = null THEN site.nullsFirst # desc
                ELSE IF y = null THEN ~(site.nullsFirst # desc)
                ELSE IF desc THEN x > y ELSE x < y
<1>1. ASSUME NEW x \in FieldValues \cup {null}, NEW y \in FieldValues \cup {null}, NEW desc \in BOOLEAN
      PROVE  Column(x, y, desc) <=> IF desc THEN Lower(y, x) ELSE Lower(x, y)
  <2>1. x # null => x \in Int
    BY ValuesAssumption
  <2>2. y # null => y \in Int
    BY ValuesAssumption
  <2>3. CASE desc = TRUE /\ site.nullsFirst = TRUE
    BY <2>1, <2>2, <2>3 DEF Lower
  <2>4. CASE desc = TRUE /\ site.nullsFirst = FALSE
    BY <2>1, <2>2, <2>4 DEF Lower
  <2>5. CASE desc = FALSE /\ site.nullsFirst = TRUE
    BY <2>1, <2>2, <2>5 DEF Lower
  <2>6. CASE desc = FALSE /\ site.nullsFirst = FALSE
    BY <2>1, <2>2, <2>6 DEF Lower
  <2> QED
    BY <2>3, <2>4, <2>5, <2>6
<1>2. OrderByBefore(a, b, sort)
        <=> \E i \in DOMAIN sort : /\ \A j \in 1..(i - 1) : a[sort[j].name] = b[sort[j].name]
                                   /\ Column(a[sort[i].name], b[sort[i].name], sort[i].desc)
  BY DEF OrderByBefore
<1> HIDE DEF Column
<1>3. ASSUME NEW i \in DOMAIN sort
      PROVE  Column(a[sort[i].name], b[sort[i].name], sort[i].desc) <=> Ahead(a, b, sort[i])
  <2>1. sort[i] \in SortKeys
    BY KeysOf
  <2>2. /\ a[sort[i].name] \in FieldValues \cup {null} /\ b[sort[i].name] \in FieldValues \cup {null}
        /\ sort[i].desc \in BOOLEAN
    BY <2>1 DEF ListRows, SortKeys
  <2> QED
    BY <2>2, <1>1 DEF Ahead
<1> QED
  BY <1>2, <1>3, Zenon DEF ComesBefore, Same

(* The in-memory predicate of a cursor selects the rows past its position.  *)
LEMMA MatchesIsBeyond ==
    ASSUME NEW row \in ListRows, NEW cursor, IsCursorState(cursor), cursor # NoCursor,
           NEW keys \in Seq(SortKeys), site.nullsFirst \in BOOLEAN
    PROVE  CursorMatches(row, cursor, keys, site.nullsFirst) <=> Beyond(row, cursor, keys)
<1> DEFINE p == cursor.position
           AllSame == \A i \in DOMAIN keys : Same(row, p, keys[i])
<1>1. cursor.backwards \in BOOLEAN /\ cursor.inclusive \in BOOLEAN /\ p \in ListRows
  BY DEF IsCursorState
<1>2. ASSUME NEW i \in DOMAIN keys
      PROVE  /\ KeyOrder(row, cursor, keys[i], site.nullsFirst) = 0 <=> Same(row, p, keys[i])
             /\ KeyOrder(row, cursor, keys[i], site.nullsFirst) < 0 <=> Ahead(row, p, keys[i])
             /\ KeyOrder(row, cursor, keys[i], site.nullsFirst) > 0 <=> Ahead(p, row, keys[i])
             /\ Same(row, p, keys[i]) <=> Same(p, row, keys[i])
             /\ \A j \in 1..(i - 1) : j \in DOMAIN keys
  BY KeysOf, KeyOrderIsTheOrder DEF Same
<1> HIDE DEF p
<1>3. CursorMatches(row, cursor, keys, site.nullsFirst)
        <=> \/ IF cursor.backwards THEN ComesBefore(row, p, keys) ELSE ComesBefore(p, row, keys)
            \/ cursor.inclusive /\ AllSame
  <2>1. CASE cursor.backwards
    BY <1>2, <2>1, Zenon DEF CursorMatches, ComesBefore
  <2>2. CASE ~cursor.backwards
    BY <1>2, <2>2, Zenon DEF CursorMatches, ComesBefore
  <2> QED
    BY <2>1, <2>2
<1>4. AllSame <=> ~ComesBefore(row, p, keys) /\ ~ComesBefore(p, row, keys)
  BY <1>1, KeysAreAnOrder
<1>5. Beyond(row, cursor, keys)
        <=> IF AllSame THEN cursor.inclusive
            ELSE IF cursor.backwards THEN ComesBefore(row, p, keys) ELSE ComesBefore(p, row, keys)
  BY DEF Beyond, p
<1> HIDE DEF AllSame
<1> QED
  BY <1>1, <1>3, <1>4, <1>5

------------------------------------------------------------------------------
(* The keys of a page                                                       *)

(* A page read backwards is sorted in the reverse of the order.             *)
LEMMA ReversedIsReversed ==
    ASSUME NEW a, NEW b, NEW keys \in Seq(SortKeys), NEW back \in BOOLEAN
    PROVE  /\ Reversed(keys, back) \in Seq(SortKeys)
           /\ ComesBefore(a, b, Reversed(keys, back))
                <=> IF back THEN ComesBefore(b, a, keys) ELSE ComesBefore(a, b, keys)
<1> DEFINE K == Reversed(keys, back)
<1>1. DOMAIN keys = 1..Len(keys) /\ Len(keys) \in Nat
  OBVIOUS
<1>2. K = [i \in 1..Len(keys) |-> [keys[i] EXCEPT !.desc = Differ(@, back)]]
  BY <1>1 DEF Reversed
<1>3. ASSUME NEW i \in 1..Len(keys)
      PROVE  /\ [keys[i] EXCEPT !.desc = Differ(@, back)] \in SortKeys
             /\ K[i].name = keys[i].name /\ K[i].desc = Differ(keys[i].desc, back)
             /\ keys[i].desc \in BOOLEAN /\ \A j \in 1..(i - 1) : j \in 1..Len(keys)
  <2>1. keys[i] \in [name : Fields, desc : BOOLEAN]
    BY <1>1, KeysOf DEF SortKeys
  <2>2. Differ(keys[i].desc, back) \in BOOLEAN
    BY DEF Differ
  <2>3. K[i] = [keys[i] EXCEPT !.desc = Differ(@, back)]
    BY <1>2
  <2>4. \A j \in 1..(i - 1) : j \in 1..Len(keys)
    BY <1>1
  <2> QED
    BY <2>1, <2>2, <2>3, <2>4 DEF SortKeys
<1>4. K \in Seq(SortKeys) /\ DOMAIN K = 1..Len(keys)
  <2>1. K \in [1..Len(keys) -> SortKeys]
    BY <1>2, <1>3
  <2> QED
    BY <1>1, <2>1
<1> HIDE DEF K
<1>5. ASSUME NEW i \in 1..Len(keys)
      PROVE  /\ Ahead(a, b, K[i]) <=> IF back THEN Ahead(b, a, keys[i]) ELSE Ahead(a, b, keys[i])
             /\ Same(a, b, K[i]) <=> Same(a, b, keys[i])
             /\ Same(b, a, keys[i]) <=> Same(a, b, keys[i])
  BY <1>3 DEF Ahead, Same, Differ
<1>6. ComesBefore(a, b, K) <=> IF back THEN ComesBefore(b, a, keys) ELSE ComesBefore(a, b, keys)
  <2>1. ASSUME NEW i \in 1..Len(keys) PROVE \A j \in 1..(i - 1) : j \in 1..Len(keys)
    BY <1>3
  <2>2. CASE back
    BY <1>1, <1>4, <1>5, <2>1, <2>2, Zenon DEF ComesBefore
  <2>3. CASE ~back
    BY <1>1, <1>4, <1>5, <2>1, <2>3, Zenon DEF ComesBefore
  <2> QED
    BY <2>2, <2>3
<1> QED
  BY <1>4, <1>6 DEF K

(* The keys of a cursor tell rows apart: the primary key is one of them.    *)
LEMMA CursorKeysAreKeys ==
    ASSUME NEW sort \in Seq(SortKeys)
    PROVE  CursorKeys(sort) \in Seq(SortKeys) /\ \E i \in DOMAIN CursorKeys(sort) : CursorKeys(sort)[i].name = "pk"
<1>1. CASE \E i \in DOMAIN sort : sort[i].name = "pk"
  BY <1>1 DEF CursorKeys
<1>2. CASE ~\E i \in DOMAIN sort : sort[i].name = "pk"
  <2> DEFINE e == [name |-> "pk", desc |-> FALSE]
  <2>1. e \in SortKeys /\ e.name = "pk"
    BY FieldsAssumption DEF SortKeys
  <2>2. CursorKeys(sort) = Append(sort, e)
    BY <1>2 DEF CursorKeys
  <2> HIDE DEF e
  <2>3. /\ Append(sort, e) \in Seq(SortKeys) /\ Append(sort, e)[Len(sort) + 1] = e
        /\ Len(sort) + 1 \in DOMAIN Append(sort, e)
    BY <2>1
  <2> QED
    BY <2>1, <2>2, <2>3
<1> QED
  BY <1>1, <1>2

(* Of two rows of the table one comes before the other.                     *)
LEMMA KeysTellApart ==
    ASSUME NEW a \in ListRows, NEW b \in ListRows, a.pk # b.pk, NEW sort \in Seq(SortKeys),
           site.nullsFirst \in BOOLEAN
    PROVE  ComesBefore(a, b, CursorKeys(sort)) \/ ComesBefore(b, a, CursorKeys(sort))
<1> DEFINE keys == CursorKeys(sort)
<1>1. keys \in Seq(SortKeys)
  BY CursorKeysAreKeys
<1>2. PICK i \in DOMAIN keys : keys[i].name = "pk"
  BY CursorKeysAreKeys
<1>3. ~Same(a, b, keys[i])
  BY <1>2 DEF Same
<1> QED
  BY <1>1, <1>3, KeysAreAnOrder

------------------------------------------------------------------------------
(* Slices of a sorted list                                                  *)

(* An arrangement of a finite set has each of its members once.             *)
LEMMA Arrangements ==
    ASSUME NEW S, IsFiniteSet(S), NEW s \in SetToSeqs(S)
    PROVE  /\ s \in Seq(S) /\ Len(s) = Cardinality(S) /\ Cardinality(S) \in Nat
           /\ \A i, j \in DOMAIN s : i # j => s[i] # s[j]
           /\ \A r \in S : \E i \in DOMAIN s : s[i] = r
<1> DEFINE n == Cardinality(S)
<1>1. n \in Nat
  BY FS_CardinalityType
<1>2. s \in [1..n -> S] /\ \A i, j \in 1..n : i # j => s[i] # s[j]
  BY DEF SetToSeqs
<1> HIDE DEF n
<1>3. s \in Injection(1..n, S)
  BY <1>2 DEF Injection, IsInjective
<1>4. Cardinality(1..n) = n
  BY <1>1, FS_Interval
<1>5. s \in Surjection(1..n, S)
  BY <1>3, <1>4, FS_Injection DEF n
<1>6. s \in Seq(S) /\ Len(s) = n /\ DOMAIN s = 1..n
  BY <1>1, <1>2
<1>7. \A r \in S : \E i \in 1..n : s[i] = r
  BY <1>5 DEF Surjection
<1> QED
  BY <1>1, <1>2, <1>6, <1>7 DEF n

(* What a slice is: so many entries, each of them where it was.             *)
SliceLen(n, start, size) == IF n <= start THEN 0 ELSE IF size < n - start THEN size ELSE n - start

Sliced(t, S, s, start, size) ==
    /\ t \in Seq(S) /\ Len(t) = SliceLen(Len(s), start, size)
    /\ \A i \in DOMAIN t : start + i \in DOMAIN s /\ t[i] = s[start + i]

LEMMA SliceOf ==
    ASSUME NEW S, NEW s \in Seq(S), NEW start \in Nat, NEW size \in Nat
    PROVE  Sliced(Slice(s, start, size), S, s, start, size)
<1> DEFINE l == Len(s)
           m == start + 1
           n == Least(start + size, l)
           t == Slice(s, start, size)
<1>1. l \in Nat /\ DOMAIN s = 1..l
  OBVIOUS
<1>2. t = SubSeq(s, m, n)
  BY DEF Slice
<1> HIDE DEF l
<1>3. n = IF start + size < l THEN start + size ELSE l
  BY DEF Least
<1> HIDE DEF n, t
<1>4. n \in Int /\ n <= l /\ m \in Int /\ m >= 1
  BY <1>1, <1>3
<1>5. \A i \in m..n : i \in 1..l
  BY <1>1, <1>4
<1>6. \A i \in m..n : s[i] \in S
  BY <1>1, <1>5
<1>7. /\ t \in Seq(S) /\ Len(t) = IF m <= n THEN n - m + 1 ELSE 0
      /\ \A i \in 1..(n - m + 1) : t[i] = s[m + i - 1]
  BY <1>2, <1>4, <1>6, SubSeqProperties
<1>8. Len(t) = SliceLen(l, start, size)
  <2>1. (IF m <= n THEN n - m + 1 ELSE 0) = SliceLen(l, start, size)
    BY <1>1, <1>3 DEF SliceLen
  <2> QED
    BY <1>7, <2>1
<1>9. ASSUME NEW i \in DOMAIN t PROVE start + i \in DOMAIN s /\ t[i] = s[start + i]
  <2>1. i \in 1..Len(t) /\ Len(t) = IF m <= n THEN n - m + 1 ELSE 0
    BY <1>7
  <2>2. i \in Int /\ i \in 1..(n - m + 1)
    BY <1>4, <2>1
  <2>3. m + i - 1 = start + i /\ start + i \in 1..l
    BY <1>1, <1>4, <2>2
  <2>4. t[i] = s[m + i - 1]
    BY <1>7, <2>2
  <2> QED
    BY <1>1, <2>3, <2>4
<1> QED
  BY <1>7, <1>8, <1>9, Zenon DEF t, l, Sliced

(* Of a page: the rows from the offset on, the limit of them at most, and   *)
(* whether more follow.                                                     *)
Taken(t, S, s, offset, limit) ==
    /\ Sliced(t.rows, S, s, offset, limit)
    /\ t.more \in BOOLEAN /\ (t.more <=> offset + limit < Len(s))

LEMMA PageTaken ==
    ASSUME NEW S, NEW s \in Seq(S), NEW offset \in Nat, NEW limit \in Nat \ {0}
    PROVE  Taken(TakePage(s, offset, limit), S, s, offset, limit)
<1> DEFINE read == Slice(s, offset, limit + 1)
           t == TakePage(s, offset, limit)
           l == Len(s)
           u == Slice(read, 0, limit)
<1>1. limit + 1 \in Nat /\ l \in Nat /\ limit \in Nat /\ 0 \in Nat
  OBVIOUS
<1>2. Sliced(read, S, s, offset, limit + 1)
  BY <1>1, SliceOf, Zenon
<1>3. t.rows = u /\ t.more \in BOOLEAN /\ (t.more <=> Len(read) > limit)
  <2> DEFINE more == Len(read) > limit
  <2>1. TakePage(s, offset, limit) = [rows |-> u, more |-> more]
    BY Zenon DEF TakePage
  <2>2. more \in BOOLEAN
    OBVIOUS
  <2> HIDE DEF more
  <2>3. t.rows = u /\ t.more = more
    BY <2>1
  <2> QED
    BY <2>2, <2>3 DEF more
<1>4. read \in Seq(S) /\ Len(read) = SliceLen(l, offset, limit + 1)
  BY <1>2, Zenon DEF Sliced
<1>5. Sliced(u, S, read, 0, limit)
  BY <1>1, <1>4, SliceOf, Zenon
<1>6. u \in Seq(S) /\ Len(u) = SliceLen(Len(read), 0, limit)
  BY <1>5, Zenon DEF Sliced
<1> HIDE DEF l, t, u, read
<1>7. Len(u) = SliceLen(l, offset, limit)
  <2>1. SliceLen(SliceLen(l, offset, limit + 1), 0, limit) = SliceLen(l, offset, limit)
    BY <1>1 DEF SliceLen
  <2> QED
    BY <1>4, <1>6, <2>1
<1>8. t.more \in BOOLEAN /\ (t.more <=> offset + limit < l)
  <2>1. SliceLen(l, offset, limit + 1) > limit <=> offset + limit < l
    BY <1>1 DEF SliceLen
  <2> QED
    BY <1>3, <1>4, <2>1, Zenon
<1>9. ASSUME NEW i \in DOMAIN u PROVE offset + i \in DOMAIN s /\ u[i] = s[offset + i]
  <2>1. 0 + i \in DOMAIN read /\ u[i] = read[0 + i]
    BY <1>5, Zenon DEF Sliced
  <2>2. i \in Nat
    BY <1>6
  <2>3. 0 + i = i
    BY <2>2
  <2>4. i \in DOMAIN read /\ u[i] = read[i]
    BY <2>1, <2>3
  <2> QED
    BY <1>2, <2>4, Zenon DEF Sliced
<1>10. Sliced(u, S, s, offset, limit)
  BY <1>6, <1>7, <1>9, Zenon DEF Sliced, l
<1> QED
  BY <1>3, <1>8, <1>10, Zenon DEF Taken, t, l

------------------------------------------------------------------------------
(* The rows of the table                                                    *)

TableTyped == site \in Sites /\ \A k \in Pks : table[k] \in RowsOf(k) \cup {null}

LEMMA SiteTyped ==
    ASSUME site \in Sites
    PROVE  site.nullsFirst \in BOOLEAN /\ site.backend \in {"memory", "django"}
  BY DEF Sites

(* A row of the table is the one of its key, and a NULL in it is in a       *)
(* nullable column.                                                         *)
LEMMA RowsTyped ==
    ASSUME TableTyped, NEW r \in Rows
    PROVE  /\ r \in TableRows /\ r \in ListRows /\ r.pk \in Pks /\ r = table[r.pk]
           /\ \A f \in Fields \ site.nullable : r[f] # null
<1>1. PICK k \in Pks : table[k] # null /\ r = table[k]
  BY DEF Rows
<1>2. r \in RowsOf(k)
  BY <1>1 DEF TableTyped
<1>3. r \in TableRows /\ r.pk = k /\ \A f \in Fields \ site.nullable : r[f] # null
  BY <1>2 DEF RowsOf
<1> QED
  BY <1>1, <1>3, ListsAssumption

LEMMA RowsFinite ==
    IsFiniteSet(Rows) /\ \A S \in SUBSET Rows : IsFiniteSet(S) /\ Cardinality(S) \in Nat
<1> DEFINE D == {k \in Pks : table[k] # null}
           f == [k \in D |-> table[k]]
<1>1. IsFiniteSet(D)
  BY FS_Subset, ListsAssumption
<1>2. f \in Surjection(D, Rows)
  BY DEF Surjection, Rows
<1>3. IsFiniteSet(Rows)
  BY <1>1, <1>2, FS_Surjection
<1> QED
  BY <1>3, FS_Subset, FS_CardinalityType

(* Whichever of memory and SQL sorts, the rows come in the order asked for. *)
LEMMA OrdersAreSorted ==
    ASSUME site.nullsFirst \in BOOLEAN, NEW rows \in SUBSET ListRows, IsFiniteSet(rows), NEW sort \in Seq(SortKeys),
           NEW landed \in BOOLEAN, NEW s \in Orders(rows, sort, landed)
    PROVE  /\ s \in SetToSeqs(rows)
           /\ \A i, j \in DOMAIN s : i < j => ~ComesBefore(s[j], s[i], sort)
<1>1. /\ s \in SetToSeqs(rows)
      /\ \A i, j \in DOMAIN s :
            i < j => IF SortInSql(sort, landed) THEN ~OrderByBefore(s[j], s[i], sort)
                                                ELSE ~SortListBefore(s[j], s[i], sort)
  BY Zenon DEF Orders
<1>2. \A i \in DOMAIN s : s[i] \in ListRows
  <2>1. s \in Seq(rows)
    BY <1>1, Arrangements
  <2> QED
    BY <2>1
<1>3. ASSUME NEW i \in DOMAIN s, NEW j \in DOMAIN s
      PROVE  /\ OrderByBefore(s[j], s[i], sort) <=> ComesBefore(s[j], s[i], sort)
             /\ SortListBefore(s[j], s[i], sort) <=> ComesBefore(s[j], s[i], sort)
  BY <1>2, OrderByIsTheOrder, SortListIsTheOrder
<1> QED
  BY <1>1, <1>3

(* What a page takes of the rows that it is of.                             *)
PageOf(t, rows, sort, offset, limit) ==
    /\ t.rows \in Seq(rows) /\ Cardinality(rows) \in Nat
    /\ Len(t.rows) = SliceLen(Cardinality(rows), offset, limit)
    /\ t.more \in BOOLEAN /\ (t.more <=> offset + limit < Cardinality(rows))
    /\ \A i, j \in DOMAIN t.rows : i < j => ~ComesBefore(t.rows[j], t.rows[i], sort) /\ t.rows[i] # t.rows[j]

(* A row left out comes, in the order, after none of those on the page.     *)
NoneLeftOut(t, rows, sort) ==
    \A r \in rows : \/ \E i \in DOMAIN t.rows : t.rows[i] = r
                    \/ t.more /\ \A i \in DOMAIN t.rows : ~ComesBefore(r, t.rows[i], sort) /\ r # t.rows[i]

LEMMA PagesAreSorted ==
    ASSUME site.nullsFirst \in BOOLEAN, NEW rows \in SUBSET ListRows, IsFiniteSet(rows), NEW sort \in Seq(SortKeys),
           NEW landed \in BOOLEAN, NEW s \in Orders(rows, sort, landed),
           NEW offset \in Nat, NEW limit \in Nat \ {0}
    PROVE  /\ PageOf(TakePage(s, offset, limit), rows, sort, offset, limit)
           /\ offset = 0 => NoneLeftOut(TakePage(s, offset, limit), rows, sort)
<1> DEFINE t == TakePage(s, offset, limit)
           n == Cardinality(rows)
<1>1. s \in SetToSeqs(rows) /\ \A i, j \in DOMAIN s : i < j => ~ComesBefore(s[j], s[i], sort)
  BY OrdersAreSorted
<1>2. /\ s \in Seq(rows) /\ Len(s) = n /\ n \in Nat
      /\ \A i, j \in DOMAIN s : i # j => s[i] # s[j]
      /\ \A r \in rows : \E i \in DOMAIN s : s[i] = r
  BY <1>1, Arrangements
<1>3. Taken(t, rows, s, offset, limit)
  BY <1>2, PageTaken, Zenon
<1> HIDE DEF t, n
<1>4. /\ t.rows \in Seq(rows) /\ Len(t.rows) = SliceLen(n, offset, limit)
      /\ \A i \in DOMAIN t.rows : offset + i \in DOMAIN s /\ t.rows[i] = s[offset + i]
      /\ t.more \in BOOLEAN /\ (t.more <=> offset + limit < n)
  BY <1>2, <1>3, Zenon DEF Taken, Sliced
<1>5. DOMAIN t.rows = 1..Len(t.rows) /\ Len(t.rows) \in Nat
  BY <1>4
<1>6. ASSUME NEW i \in DOMAIN t.rows, NEW j \in DOMAIN t.rows, i < j
      PROVE  ~ComesBefore(t.rows[j], t.rows[i], sort) /\ t.rows[i] # t.rows[j]
  <2>1. offset + i < offset + j /\ offset + i # offset + j
    BY <1>5, <1>6
  <2>2. /\ offset + i \in DOMAIN s /\ t.rows[i] = s[offset + i]
        /\ offset + j \in DOMAIN s /\ t.rows[j] = s[offset + j]
    BY <1>4, Zenon
  <2> QED
    BY <1>1, <1>2, <2>1, <2>2, Zenon
<1>7. PageOf(t, rows, sort, offset, limit)
  BY <1>2, <1>4, <1>6, Zenon DEF PageOf, n
<1>8. ASSUME offset = 0 PROVE NoneLeftOut(t, rows, sort)
  <2>1. SUFFICES ASSUME NEW r \in rows, \A i \in DOMAIN t.rows : t.rows[i] # r
                 PROVE  t.more /\ \A i \in DOMAIN t.rows : ~ComesBefore(r, t.rows[i], sort) /\ r # t.rows[i]
    BY Zenon DEF NoneLeftOut
  <2>2. PICK m \in DOMAIN s : s[m] = r
    BY <1>2
  <2>3. m \in 1..n
    BY <1>2
  <2>4. \A i \in DOMAIN t.rows : i \in DOMAIN s /\ t.rows[i] = s[i]
    <3>1. ASSUME NEW i \in DOMAIN t.rows PROVE offset + i = i
      BY <1>5, <1>8
    <3> QED
      BY <1>4, <3>1
  <2>5. m \notin DOMAIN t.rows
    BY <2>1, <2>2, <2>4
  <2>6. limit < m /\ Len(t.rows) = limit /\ limit < n
    <3>1. Len(t.rows) = SliceLen(n, 0, limit) /\ ~(m <= Len(t.rows)) /\ m \in Nat \ {0} /\ m <= n
      BY <1>4, <1>5, <1>8, <2>3, <2>5
    <3> QED
      BY <1>2, <3>1 DEF SliceLen
  <2>7. t.more
    <3>1. offset + limit < n
      BY <1>8, <2>6
    <3> QED
      BY <1>4, <3>1
  <2>8. ASSUME NEW i \in DOMAIN t.rows PROVE ~ComesBefore(r, t.rows[i], sort)
    <3>1. i < m
      BY <1>5, <2>3, <2>6
    <3> QED
      BY <1>1, <2>2, <2>4, <3>1, Zenon
  <2> QED
    BY <2>1, <2>7, <2>8
<1> QED
  BY <1>7, <1>8 DEF t

------------------------------------------------------------------------------
(* The rows that a request is of                                            *)

(* A cursor whose position may be a row of the table.                       *)
Usable(cursor) ==
    /\ IsCursorState(cursor) /\ cursor.position \in TableRows
    /\ \A f \in Fields \ site.nullable : cursor.position[f] # null

Wanted(q, cursor, keys) == {r \in Accepted(q) : Beyond(r, cursor, keys)}

(* In memory or compiled to SQL, a request is of the rows that its filter   *)
(* accepts and that lie past its cursor; of a hand-made filter which is not *)
(* applied it is of more of them.                                           *)
LEMMA FilteredRows ==
    ASSUME TableTyped, NEW q \in ListQueries, NEW keys \in Seq(SortKeys),
           NEW cursor, cursor # NoCursor => Usable(cursor)
    PROVE  /\ Filtered(q, keys, cursor, Rows) \subseteq {r \in Rows : Beyond(r, cursor, keys)}
           /\ Wanted(q, cursor, keys) \subseteq Filtered(q, keys, cursor, Rows)
           /\ ~Unfiltered(q, cursor) => Filtered(q, keys, cursor, Rows) = Wanted(q, cursor, keys)
<1> DEFINE Declared(r) == \A f \in FiltersFrom(q) : FilterMatches(f, r)
           HandMade(r) == q.fltr # null /\ q.fltr.handmade => FilterMatches(q.fltr, r)
           F == Filtered(q, keys, cursor, Rows)
<1>1. \A r : (q.fltr # null => FilterMatches(q.fltr, r)) <=> Declared(r) /\ HandMade(r)
  BY Zenon DEF FiltersFrom
<1>2. ASSUME NEW r \in Rows
      PROVE  /\ (cursor # NoCursor => CursorMatches(r, cursor, keys, site.nullsFirst)) <=> Beyond(r, cursor, keys)
             /\ (cursor # NoCursor => CursorCondition(r, cursor, keys, site.nullsFirst, site.nullable))
                   <=> Beyond(r, cursor, keys)
  <2>1. CASE cursor = NoCursor
    BY <2>1 DEF Beyond
  <2>2. CASE cursor # NoCursor
    <3>1. /\ r \in ListRows /\ IsCursorState(cursor) /\ site.nullsFirst \in BOOLEAN
          /\ \A f \in Fields \ site.nullable : r[f] # null /\ cursor.position[f] # null
      BY <2>2, RowsTyped, SiteTyped DEF Usable, TableTyped
    <3>2. CursorMatches(r, cursor, keys, site.nullsFirst) <=> Beyond(r, cursor, keys)
      BY <2>2, <3>1, MatchesIsBeyond, Zenon
    <3>3. CursorCondition(r, cursor, keys, site.nullsFirst, site.nullable)
            <=> CursorMatches(r, cursor, keys, site.nullsFirst)
      BY <3>1, SqlIsTheComparison, Zenon
    <3> QED
      BY <2>2, <3>2, <3>3
  <2> QED
    BY <2>1, <2>2
<1>3. ASSUME NEW r \in Rows
      PROVE  r \in F <=> /\ Declared(r) /\ Beyond(r, cursor, keys)
                         /\ PushesFilter(q, keys, cursor) \/ HandMade(r)
  <2>1. CASE PushesFilter(q, keys, cursor)
    BY <1>2, <2>1, Zenon DEF Filtered
  <2>2. CASE ~PushesFilter(q, keys, cursor)
    BY <1>2, <2>2, Zenon DEF Filtered
  <2> QED
    BY <2>1, <2>2
<1>4. F \subseteq Rows
  BY Zenon DEF Filtered
<1>5. ASSUME NEW r \in Rows
      PROVE  r \in Wanted(q, cursor, keys) <=> Declared(r) /\ HandMade(r) /\ Beyond(r, cursor, keys)
  BY <1>1, Zenon DEF Wanted, Accepted
<1>6. Wanted(q, cursor, keys) \subseteq Rows
  BY Zenon DEF Wanted, Accepted
<1>7. ASSUME ~Unfiltered(q, cursor), PushesFilter(q, keys, cursor), NEW r PROVE HandMade(r)
  <2>1. SUFFICES ASSUME q.fltr # null, q.fltr.handmade PROVE FALSE
    OBVIOUS
  <2>2. FiltersFrom(q) = {}
    BY <2>1 DEF FiltersFrom
  <2>3. Django /\ cursor # NoCursor
    BY <1>7, <2>2 DEF PushesFilter
  <2> QED
    BY <1>7, <2>1, <2>3 DEF Unfiltered
<1> HIDE DEF Declared, HandMade, F
<1>8. F \subseteq {r \in Rows : Beyond(r, cursor, keys)} /\ Wanted(q, cursor, keys) \subseteq F
  BY <1>3, <1>4, <1>5, <1>6, Zenon
<1>9. ASSUME ~Unfiltered(q, cursor) PROVE F = Wanted(q, cursor, keys)
  BY <1>3, <1>4, <1>5, <1>6, <1>7, <1>9, Zenon
<1> QED
  BY <1>8, <1>9 DEF F

(* Without a cursor it is of all the rows that the filter accepts.          *)
LEMMA AllAccepted ==
    ASSUME TableTyped, NEW q \in ListQueries
    PROVE  Filtered(q, <<>>, NoCursor, Rows) = Accepted(q)
<1>1. <<>> \in Seq(SortKeys)
  OBVIOUS
<1>2. ~Unfiltered(q, NoCursor)
  BY DEF Unfiltered
<1>3. Wanted(q, NoCursor, <<>>) = Accepted(q)
  BY DEF Wanted, Beyond
<1> QED
  BY <1>1, <1>2, <1>3, FilteredRows, Zenon

LEMMA LookupIsAccepted ==
    ASSUME NEW q \in ListQueries
    PROVE  {row \in Rows : LookupNarrows(q, row)} = Accepted(q)
  BY Zenon DEF LookupNarrows, Accepted, FiltersFrom

LEMMA AcceptedRows ==
    ASSUME TableTyped, NEW q
    PROVE  Accepted(q) \in SUBSET Rows /\ Accepted(q) \in SUBSET ListRows /\ IsFiniteSet(Accepted(q))
           /\ Cardinality(Accepted(q)) \in Nat
  BY RowsTyped, RowsFinite DEF Accepted

LEMMA QueriesTyped ==
    ASSUME NEW q \in ListQueries
    PROVE  /\ q.sort \in Seq(SortKeys) /\ q.offset \in Nat /\ q.limit \in Nat \ {0}
           /\ q.shape \in {"plain", "paginated", "cursor", "lookup"} /\ q # null
  BY ListsAssumption DEF QueryRecords

------------------------------------------------------------------------------
(* The answers                                                              *)

Sides == {"next", "previous", "first", "last"}

(* Every anchor of a page is a cursor at one of its rows.                   *)
AtARow(anchors, results, keys, fltr) ==
    /\ DOMAIN anchors = Sides
    /\ \A a \in Sides : anchors[a] # NoCursor =>
          \E i \in DOMAIN results, backwards \in BOOLEAN, inclusive \in BOOLEAN :
             anchors[a] = CursorOf(results[i], backwards, inclusive, keys, fltr)

LEMMA AnchorsAreAtRows ==
    ASSUME NEW S, NEW results \in Seq(S), NEW keys, NEW fltr
    PROVE  AtARow(Anchors(results, keys, fltr), results, keys, fltr)
<1>1. CASE results = <<>>
  BY <1>1 DEF AtARow, Anchors, Sides
<1>2. CASE results # <<>>
  <2>1. 1 \in DOMAIN results /\ Len(results) \in DOMAIN results
    BY <1>2
  <2> DEFINE c1 == CursorOf(results[Len(results)], FALSE, FALSE, keys, fltr)
             c2 == CursorOf(results[1], TRUE, FALSE, keys, fltr)
             c3 == CursorOf(results[1], TRUE, TRUE, keys, fltr)
             c4 == CursorOf(results[Len(results)], FALSE, TRUE, keys, fltr)
             At(c) == \E i \in DOMAIN results, backwards \in BOOLEAN, inclusive \in BOOLEAN :
                         c = CursorOf(results[i], backwards, inclusive, keys, fltr)
  <2>2. At(c1) /\ At(c2) /\ At(c3) /\ At(c4)
    BY <2>1
  <2>3. Anchors(results, keys, fltr) = [next |-> c1, previous |-> c2, first |-> c3, last |-> c4]
    BY <1>2 DEF Anchors
  <2> HIDE DEF c1, c2, c3, c4, At
  <2>4. DOMAIN Anchors(results, keys, fltr) = Sides
    BY <2>3 DEF Sides
  <2>5. \A a \in Sides : At(Anchors(results, keys, fltr)[a])
    BY <2>2, <2>3 DEF Sides
  <2> QED
    BY <2>4, <2>5, Zenon DEF AtARow, At
<1> QED
  BY <1>1, <1>2

(* A page has anchors or, of another shape, none.                           *)
NoAnchors(answer) == DOMAIN answer.anchors = Sides /\ \A a \in Sides : answer.anchors[a] = NoCursor

LEMMA NoPageFields ==
    NoPage.kind = "none" /\ NoPage.rows = <<>> /\ NoPage.from = NoCursor /\ NoAnchors(NoPage)
<1> DEFINE none == Anchors(<<>>, <<>>, null)
<1>1. none = [a \in Sides |-> NoCursor]
  BY DEF Anchors, Sides
<1>2. NoPage = [kind |-> "none", from |-> NoCursor, rows |-> <<>>, hasMore |-> FALSE,
                hasPrevious |-> FALSE, anchors |-> none]
  BY DEF NoPage
<1> HIDE DEF none
<1>3. DOMAIN none = Sides /\ \A a \in Sides : none[a] = NoCursor
  BY <1>1
<1> QED
  BY <1>2, <1>3 DEF NoAnchors

LEMMA ListFields ==
    ASSUME NEW kind, NEW listed
    PROVE  LET one == [NoPage EXCEPT !.kind = kind, !.rows = listed]
           IN  one.kind = kind /\ one.rows = listed /\ NoAnchors(one)
<1>1. NoPage.anchors = [NoPage EXCEPT !.kind = kind, !.rows = listed].anchors
  BY DEF NoPage
<1>2. LET one == [NoPage EXCEPT !.kind = kind, !.rows = listed] IN one.kind = kind /\ one.rows = listed
  BY DEF NoPage
<1> QED
  BY <1>1, <1>2, NoPageFields, Zenon DEF NoAnchors

LEMMA PagedFields ==
    ASSUME NEW kind, NEW listed, NEW more, NEW previous
    PROVE  LET paged == [NoPage EXCEPT !.kind = kind, !.rows = listed, !.hasMore = more, !.hasPrevious = previous]
           IN  paged.kind = kind /\ paged.rows = listed /\ paged.hasMore = more /\ NoAnchors(paged)
<1> DEFINE paged == [NoPage EXCEPT !.kind = kind, !.rows = listed, !.hasMore = more, !.hasPrevious = previous]
<1>1. NoPage.anchors = paged.anchors /\ paged.kind = kind /\ paged.rows = listed /\ paged.hasMore = more
  BY DEF NoPage
<1> QED
  BY <1>1, NoPageFields, Zenon DEF NoAnchors

LEMMA RefusedFields == Refused.kind = "refused" /\ NoAnchors(Refused)
<1>1. Refused.kind = "refused" /\ Refused.anchors = NoPage.anchors
  BY DEF Refused, NoPage
<1> QED
  BY <1>1, NoPageFields, Zenon DEF NoAnchors

(* Of a list without a cursor: the clauses of ListIsExactly about the rows. *)
ExactList(answer, q) ==
    /\ answer.rows \in Seq(Accepted(q)) /\ NoAnchors(answer)
    /\ \A i, j \in DOMAIN answer.rows : i < j => ~ComesBefore(answer.rows[j], answer.rows[i], q.sort)
    /\ answer.kind \in {"plain", "lookup"} => Len(answer.rows) = Cardinality(Accepted(q))
    /\ answer.kind = "paginated" =>
          /\ answer.hasMore <=> q.offset + q.limit < Cardinality(Accepted(q))
          /\ Len(answer.rows) <= q.limit

LEMMA WholeListIsExact ==
    ASSUME TableTyped, NEW q \in ListQueries, NEW landed \in BOOLEAN, NEW kind \in {"plain", "lookup"},
           NEW s \in Orders(Accepted(q), q.sort, landed)
    PROVE  LET answer == [NoPage EXCEPT !.kind = kind, !.rows = s]
           IN  answer.kind = kind /\ ExactList(answer, q)
<1> DEFINE answer == [NoPage EXCEPT !.kind = kind, !.rows = s]
<1>1. answer.kind = kind /\ answer.rows = s /\ NoAnchors(answer)
  BY ListFields, Zenon
<1> HIDE DEF answer
<1>2. Accepted(q) \in SUBSET ListRows /\ IsFiniteSet(Accepted(q)) /\ site.nullsFirst \in BOOLEAN /\ q.sort \in Seq(SortKeys)
  BY AcceptedRows, QueriesTyped, SiteTyped DEF TableTyped
<1>3. s \in SetToSeqs(Accepted(q)) /\ \A i, j \in DOMAIN s : i < j => ~ComesBefore(s[j], s[i], q.sort)
  BY <1>2, OrdersAreSorted, Zenon
<1>4. s \in Seq(Accepted(q)) /\ Len(s) = Cardinality(Accepted(q))
  BY <1>2, <1>3, Arrangements, Zenon
<1>5. kind # "paginated"
  OBVIOUS
<1> QED
  BY <1>1, <1>3, <1>4, <1>5, Zenon DEF ExactList, answer

LEMMA OffsetPageIsExact ==
    ASSUME TableTyped, NEW q \in ListQueries, NEW landed \in BOOLEAN, NEW previous,
           NEW s \in Orders(Accepted(q), q.sort, landed)
    PROVE  LET taken == TakePage(s, q.offset, q.limit)
               answer == [NoPage EXCEPT !.kind = "paginated", !.rows = taken.rows, !.hasMore = taken.more,
                                        !.hasPrevious = previous]
           IN  answer.kind = "paginated" /\ ExactList(answer, q)
<1> DEFINE t == TakePage(s, q.offset, q.limit)
           answer == [NoPage EXCEPT !.kind = "paginated", !.rows = t.rows, !.hasMore = t.more,
                                    !.hasPrevious = previous]
<1> HIDE DEF t
<1>1. answer.kind = "paginated" /\ answer.rows = t.rows /\ answer.hasMore = t.more /\ NoAnchors(answer)
  <2> DEFINE kind == "paginated"
             rows == t.rows
             more == t.more
  <2> HIDE DEF kind, rows, more
  <2>1. LET paged == [NoPage EXCEPT !.kind = kind, !.rows = rows, !.hasMore = more, !.hasPrevious = previous]
        IN  paged.kind = kind /\ paged.rows = rows /\ paged.hasMore = more /\ NoAnchors(paged)
    BY PagedFields, Zenon
  <2> QED
    BY <2>1, Zenon DEF kind, rows, more
<1>2. /\ Accepted(q) \in SUBSET ListRows /\ IsFiniteSet(Accepted(q)) /\ site.nullsFirst \in BOOLEAN
      /\ q.sort \in Seq(SortKeys) /\ q.offset \in Nat /\ q.limit \in Nat \ {0}
  BY AcceptedRows, QueriesTyped, SiteTyped DEF TableTyped
<1>3. PageOf(t, Accepted(q), q.sort, q.offset, q.limit)
  BY <1>2, PagesAreSorted, Zenon DEF t
<1> HIDE DEF answer
<1>4. Len(t.rows) <= q.limit
  <2>1. Len(t.rows) = SliceLen(Cardinality(Accepted(q)), q.offset, q.limit) /\ Cardinality(Accepted(q)) \in Nat
    BY <1>3, Zenon DEF PageOf
  <2> QED
    BY <1>2, <2>1 DEF SliceLen
<1>5. /\ t.rows \in Seq(Accepted(q))
      /\ t.more <=> q.offset + q.limit < Cardinality(Accepted(q))
      /\ \A i, j \in DOMAIN t.rows : i < j => ~ComesBefore(t.rows[j], t.rows[i], q.sort)
  BY <1>3, Zenon DEF PageOf
<1>6. answer.kind \notin {"plain", "lookup"}
  BY <1>1
<1>7. ExactList(answer, q)
  BY <1>1, <1>4, <1>5, <1>6, Zenon DEF ExactList
<1> QED
  BY <1>1, <1>7 DEF answer, t

LEMMA OffsetAnswersAreExact ==
    ASSUME TableTyped, NEW q \in ListQueries, NEW answer \in OffsetAnswers(q)
    PROVE  answer.kind \in {"plain", "paginated"} /\ ExactList(answer, q)
<1> DEFINE landed == Landed(q, <<>>, NoCursor)
           plain(s) == [NoPage EXCEPT !.kind = "plain", !.rows = s]
           paged(s) == [NoPage EXCEPT !.kind = "paginated", !.rows = TakePage(s, q.offset, q.limit).rows,
                                      !.hasMore = TakePage(s, q.offset, q.limit).more,
                                      !.hasPrevious = q.offset > 0]
<1>1. PICK s \in Orders(Accepted(q), q.sort, landed) :
         answer = IF q.shape = "plain" THEN plain(s) ELSE paged(s)
  BY AllAccepted, Zenon DEF OffsetAnswers
<1>2. landed \in BOOLEAN
  BY DEF Landed
<1>3. plain(s).kind = "plain" /\ ExactList(plain(s), q)
  BY <1>2, WholeListIsExact, Zenon
<1>4. paged(s).kind = "paginated" /\ ExactList(paged(s), q)
  BY <1>2, OffsetPageIsExact, Zenon
<1> HIDE DEF plain, paged
<1> QED
  BY <1>1, <1>3, <1>4, Zenon

LEMMA LookupAnswersAreExact ==
    ASSUME TableTyped, NEW q \in ListQueries, NEW answer \in LookupAnswers(q)
    PROVE  answer.kind = "lookup" /\ ExactList(answer, q)
<1>1. PICK s \in Orders(Accepted(q), q.sort, TRUE) : answer = [NoPage EXCEPT !.kind = "lookup", !.rows = s]
  BY LookupIsAccepted, Zenon DEF LookupAnswers
<1> QED
  BY <1>1, WholeListIsExact, Zenon

------------------------------------------------------------------------------
(* A page read from a cursor                                                *)

LEMMA CursorPageFields ==
    ASSUME NEW S, NEW taken, taken.rows \in Seq(S), NEW q, NEW keys, NEW cursor
    PROVE  LET answer == CursorPage(q, keys, cursor, taken)
           IN  /\ answer.kind = "cursor" /\ answer.from = cursor
               /\ answer.rows = IF Backwards(cursor) THEN Reverse(taken.rows) ELSE taken.rows
               /\ (IF Backwards(cursor) THEN answer.hasPrevious ELSE answer.hasMore) = taken.more
               /\ AtARow(answer.anchors, answer.rows, keys, q.fltr)
<1> DEFINE back == Backwards(cursor)
           results == IF back THEN Reverse(taken.rows) ELSE taken.rows
           hasMore == IF back THEN cursor # NoCursor ELSE taken.more
           hasPrevious == IF back THEN taken.more ELSE cursor # NoCursor
           anchors == Anchors(results, keys, q.fltr)
           answer == CursorPage(q, keys, cursor, taken)
           left == [anchors EXCEPT !.next = IF hasMore THEN @ ELSE NoCursor,
                                   !.previous = IF hasPrevious THEN @ ELSE NoCursor]
<1>1. answer = [kind |-> "cursor", from |-> cursor, rows |-> results, hasMore |-> hasMore,
                hasPrevious |-> hasPrevious, anchors |-> left]
  BY Zenon DEF CursorPage
<1>2. results \in Seq(S)
  <2>1. Reverse(taken.rows) \in [1..Len(taken.rows) -> S]
    BY DEF Reverse
  <2>2. Reverse(taken.rows) \in Seq(S)
    BY <2>1
  <2> QED
    BY <2>2
<1>3. AtARow(anchors, results, keys, q.fltr)
  BY <1>2, AnchorsAreAtRows, Zenon
<1>4. (IF back THEN hasPrevious ELSE hasMore) = taken.more
  OBVIOUS
<1> HIDE DEF anchors, results, hasMore, hasPrevious, back
<1>5. DOMAIN left = Sides /\ \A a \in Sides : left[a] = anchors[a] \/ left[a] = NoCursor
  <2>1. DOMAIN anchors = Sides
    BY <1>3, Zenon DEF AtARow
  <2> QED
    BY <2>1 DEF Sides
<1> HIDE DEF left
<1>6. AtARow(left, results, keys, q.fltr)
  BY <1>3, <1>5, Zenon DEF AtARow
<1> HIDE DEF answer
<1>7. /\ answer.kind = "cursor" /\ answer.from = cursor /\ answer.rows = results
      /\ answer.hasMore = hasMore /\ answer.hasPrevious = hasPrevious /\ answer.anchors = left
  BY <1>1
<1>8. AtARow(answer.anchors, answer.rows, keys, q.fltr)
  BY <1>6, <1>7, Zenon
<1>9. (IF back THEN answer.hasPrevious ELSE answer.hasMore) = taken.more
  BY <1>4, <1>7
<1> QED
  BY <1>7, <1>8, <1>9, Zenon DEF answer, results, back

LEMMA RowsTellApart ==
    ASSUME TableTyped, NEW a \in Rows, NEW b \in Rows, a # b, NEW sort \in Seq(SortKeys)
    PROVE  ComesBefore(a, b, CursorKeys(sort)) \/ ComesBefore(b, a, CursorKeys(sort))
<1>1. a \in ListRows /\ b \in ListRows /\ a = table[a.pk] /\ b = table[b.pk] /\ site.nullsFirst \in BOOLEAN
  BY RowsTyped, SiteTyped DEF TableTyped
<1>2. a.pk # b.pk
  BY <1>1
<1> QED
  BY <1>1, <1>2, KeysTellApart

More(answer) == IF Backwards(answer.from) THEN answer.hasPrevious ELSE answer.hasMore

(* The next row in the direction that a cursor is read.                     *)
Onward(a, b, cursor, keys) == IF Backwards(cursor) THEN ComesBefore(b, a, keys) ELSE ComesBefore(a, b, keys)

(* A page of the rows W: they are strictly in order, as many as the limit   *)
(* allows, and those left out lie onward of all of them.                    *)
CursorFacts(answer, q, cursor, W) ==
    LET keys == CursorKeys(q.sort)
    IN /\ answer.kind = "cursor" /\ answer.from = cursor
       /\ AtARow(answer.anchors, answer.rows, keys, q.fltr)
       /\ answer.rows \in Seq(W) /\ Cardinality(W) \in Nat
       /\ Len(answer.rows) = SliceLen(Cardinality(W), 0, q.limit)
       /\ More(answer) \in BOOLEAN /\ (More(answer) <=> q.limit < Cardinality(W))
       /\ \A i, j \in DOMAIN answer.rows : i < j => ComesBefore(answer.rows[i], answer.rows[j], keys)
       /\ \A r \in W : \/ \E i \in DOMAIN answer.rows : answer.rows[i] = r
                       \/ More(answer) /\ \A i \in DOMAIN answer.rows : Onward(answer.rows[i], r, cursor, keys)

LEMMA CursorPages ==
    ASSUME TableTyped, NEW q \in ListQueries, NEW cursor, cursor # NoCursor => Usable(cursor),
           NEW W \in SUBSET Rows, NEW landed \in BOOLEAN,
           NEW s \in Orders(W, Reversed(CursorKeys(q.sort), Backwards(cursor)), landed)
    PROVE  CursorFacts(CursorPage(q, CursorKeys(q.sort), cursor, TakePage(s, 0, q.limit)), q, cursor, W)
<1> DEFINE keys == CursorKeys(q.sort)
           back == Backwards(cursor)
           K == Reversed(keys, back)
           t == TakePage(s, 0, q.limit)
           answer == CursorPage(q, keys, cursor, t)
<1>1. /\ q.sort \in Seq(SortKeys) /\ q.limit \in Nat \ {0} /\ keys \in Seq(SortKeys)
      /\ back \in BOOLEAN /\ site.nullsFirst \in BOOLEAN /\ 0 \in Nat
  <2>1. back \in BOOLEAN
    BY DEF Backwards
  <2> QED
    BY <2>1, QueriesTyped, CursorKeysAreKeys, SiteTyped DEF TableTyped
<1>2. W \in SUBSET ListRows /\ IsFiniteSet(W) /\ \A r \in W : r \in ListRows /\ r \in Rows
  BY RowsTyped, RowsFinite
<1>3. /\ K \in Seq(SortKeys)
      /\ \A a, b : ComesBefore(a, b, K) <=> IF back THEN ComesBefore(b, a, keys) ELSE ComesBefore(a, b, keys)
  BY <1>1, ReversedIsReversed, Zenon
<1>4. PageOf(t, W, K, 0, q.limit) /\ NoneLeftOut(t, W, K)
  BY <1>1, <1>2, <1>3, PagesAreSorted, Zenon
<1>5. /\ t.rows \in Seq(W) /\ Cardinality(W) \in Nat
      /\ Len(t.rows) = SliceLen(Cardinality(W), 0, q.limit)
      /\ t.more \in BOOLEAN /\ (t.more <=> 0 + q.limit < Cardinality(W))
      /\ \A i, j \in DOMAIN t.rows : i < j => ~ComesBefore(t.rows[j], t.rows[i], K) /\ t.rows[i] # t.rows[j]
  BY <1>4, Zenon DEF PageOf
<1>6. /\ answer.kind = "cursor" /\ answer.from = cursor
      /\ answer.rows = IF back THEN Reverse(t.rows) ELSE t.rows
      /\ (IF back THEN answer.hasPrevious ELSE answer.hasMore) = t.more
      /\ AtARow(answer.anchors, answer.rows, keys, q.fltr)
  BY <1>5, CursorPageFields, Zenon
<1>7. More(answer) = t.more
  BY <1>6, Zenon DEF More
<1>8. ASSUME NEW a \in W, NEW b \in W, a # b
      PROVE  ComesBefore(a, b, keys) \/ ComesBefore(b, a, keys)
  BY <1>1, <1>2, <1>8, RowsTellApart, Zenon
<1> HIDE DEF keys, back, K, t, answer
<1>9. /\ t.more <=> q.limit < Cardinality(W)
      /\ DOMAIN t.rows = 1..Len(t.rows) /\ Len(t.rows) \in Nat /\ \A i \in DOMAIN t.rows : t.rows[i] \in W
  <2>1. 0 + q.limit = q.limit
    BY <1>1
  <2> QED
    BY <1>5, <2>1
<1>10. ASSUME NEW i \in DOMAIN t.rows, NEW j \in DOMAIN t.rows, i < j
       PROVE  IF back THEN ComesBefore(t.rows[j], t.rows[i], keys) ELSE ComesBefore(t.rows[i], t.rows[j], keys)
  BY <1>3, <1>5, <1>8, <1>9, <1>10, Zenon
<1>11. ASSUME NEW r \in W, ~\E i \in DOMAIN t.rows : t.rows[i] = r
       PROVE  t.more /\ \A i \in DOMAIN t.rows :
                 IF back THEN ComesBefore(r, t.rows[i], keys) ELSE ComesBefore(t.rows[i], r, keys)
  <2>1. t.more /\ \A i \in DOMAIN t.rows : ~ComesBefore(r, t.rows[i], K) /\ r # t.rows[i]
    BY <1>4, <1>11, Zenon DEF NoneLeftOut
  <2> QED
    BY <1>3, <1>8, <1>9, <2>1, Zenon
<1>12. CASE ~back
  <2>1. answer.rows = t.rows
    BY <1>6, <1>12
  <2>2. \A i, j \in DOMAIN answer.rows : i < j => ComesBefore(answer.rows[i], answer.rows[j], keys)
    BY <1>10, <1>12, <2>1, Zenon
  <2>3. \A r \in W : \/ \E i \in DOMAIN answer.rows : answer.rows[i] = r
                     \/ More(answer) /\ \A i \in DOMAIN answer.rows : Onward(answer.rows[i], r, cursor, keys)
    BY <1>7, <1>11, <1>12, <2>1, Zenon DEF Onward, back
  <2>4. answer.rows \in Seq(W) /\ Len(answer.rows) = SliceLen(Cardinality(W), 0, q.limit)
    BY <1>5, <2>1, Zenon
  <2> QED
    BY <1>5, <1>6, <1>7, <1>9, <2>2, <2>3, <2>4, Zenon DEF CursorFacts, keys, answer, t
<1>13. CASE back
  <2> DEFINE l == Len(t.rows)
  <2>1. answer.rows = [i \in 1..l |-> t.rows[(l - i) + 1]]
    BY <1>6, <1>13, Zenon DEF Reverse
  <2>2. \A i \in 1..l : (l - i) + 1 \in 1..l
    BY <1>9
  <2>3. answer.rows \in Seq(W) /\ Len(answer.rows) = l /\ DOMAIN answer.rows = 1..l
    <3>1. answer.rows \in [1..l -> W]
      BY <1>9, <2>1, <2>2
    <3> QED
      BY <1>9, <3>1
  <2>4. ASSUME NEW i \in 1..l, NEW j \in 1..l, i < j
        PROVE  ComesBefore(answer.rows[i], answer.rows[j], keys)
    <3>1. (l - j) + 1 \in 1..l /\ (l - i) + 1 \in 1..l /\ (l - j) + 1 < (l - i) + 1
      BY <1>9, <2>2, <2>4
    <3>2. answer.rows[i] = t.rows[(l - i) + 1] /\ answer.rows[j] = t.rows[(l - j) + 1]
      BY <2>1
    <3> QED
      BY <1>9, <1>10, <1>13, <3>1, <3>2, Zenon
  <2>5. ASSUME NEW r \in W, ~\E i \in 1..l : answer.rows[i] = r
        PROVE  More(answer) /\ \A i \in 1..l : Onward(answer.rows[i], r, cursor, keys)
    <3>1. ASSUME NEW i \in 1..l PROVE t.rows[i] # r
      <4>1. (l - i) + 1 \in 1..l /\ (l - ((l - i) + 1)) + 1 = i
        BY <1>9
      <4>2. answer.rows[(l - i) + 1] = t.rows[i]
        BY <2>1, <4>1
      <4> QED
        BY <2>5, <4>1, <4>2
    <3>2. t.more /\ \A i \in DOMAIN t.rows : ComesBefore(r, t.rows[i], keys)
      BY <1>9, <1>11, <1>13, <3>1, Zenon
    <3>3. ASSUME NEW i \in 1..l PROVE answer.rows[i] = t.rows[(l - i) + 1] /\ (l - i) + 1 \in DOMAIN t.rows
      BY <1>9, <2>1, <2>2
    <3> QED
      BY <1>7, <1>13, <3>2, <3>3, Zenon DEF Onward, back
  <2>6. \A i, j \in DOMAIN answer.rows : i < j => ComesBefore(answer.rows[i], answer.rows[j], keys)
    BY <2>3, <2>4, Zenon
  <2>7. \A r \in W : \/ \E i \in DOMAIN answer.rows : answer.rows[i] = r
                     \/ More(answer) /\ \A i \in DOMAIN answer.rows : Onward(answer.rows[i], r, cursor, keys)
    BY <2>3, <2>5, Zenon
  <2>8. Len(answer.rows) = SliceLen(Cardinality(W), 0, q.limit)
    BY <1>5, <2>3, Zenon
  <2> QED
    BY <1>5, <1>6, <1>7, <1>9, <2>3, <2>6, <2>7, <2>8, Zenon DEF CursorFacts, keys, answer, t
<1> QED
  BY <1>1, <1>12, <1>13

(* Of a request with a cursor, or the first: it is refused, or a page.      *)
LEMMA CursorAnswered ==
    ASSUME TableTyped, NEW q \in ListQueries, NEW cursor, cursor # NoCursor => Usable(cursor),
           NEW answer \in CursorAnswers(q, cursor)
    PROVE  LET keys == CursorKeys(q.sort)
           IN  IF cursor # NoCursor /\ cursor.query # Fingerprint(keys, q.fltr) THEN answer = Refused
               ELSE CursorFacts(answer, q, cursor, Filtered(q, keys, cursor, Rows))
<1> DEFINE keys == CursorKeys(q.sort)
           W == Filtered(q, keys, cursor, Rows)
           landed == Landed(q, keys, cursor)
           stale == cursor # NoCursor /\ cursor.query # Fingerprint(keys, q.fltr)
<1>1. W \in SUBSET Rows /\ landed \in BOOLEAN
  BY Zenon DEF Filtered, Landed
<1>2. CASE stale
  BY <1>2, Zenon DEF CursorAnswers
<1>3. CASE ~stale
  <2>1. PICK s \in Orders(W, Reversed(keys, Backwards(cursor)), landed) :
           answer = CursorPage(q, keys, cursor, TakePage(s, 0, q.limit))
    BY <1>3, Zenon DEF CursorAnswers
  <2>2. CursorFacts(answer, q, cursor, W)
    BY <1>1, <2>1, CursorPages, Zenon
  <2> QED
    BY <1>3, <2>2, Zenon
<1> QED
  BY <1>2, <1>3

------------------------------------------------------------------------------
(* The span of a walk                                                       *)

LEMMA OpenIsNoRow == Open \notin ListRows
<1>1. SUFFICES ASSUME Open \in ListRows PROVE FALSE
  OBVIOUS
<1>2. DOMAIN Open = Fields
  BY <1>1 DEF ListRows
<1>3. DOMAIN Open = {"none"}
  BY DEF Open
<1>4. "pk" \in {"none"}
  BY <1>2, <1>3, FieldsAssumption, Zenon
<1> QED
  BY <1>4

Bounds == TableRows \cup {Open}

(* The rows from `near` to `far` in an order: Within, read in one direction.*)
Between(r, near, far, keys) ==
    /\ near = Open \/ ~ComesBefore(r, near, keys)
    /\ far = Open \/ ~ComesBefore(far, r, keys)

Further(far, end, keys) == far # Open /\ (end = Open \/ ComesBefore(far, end, keys))

(* A page from a row of the span, read to `end`, extends the span to it:    *)
(* the new span is the old one and the page, and leaves nothing between.    *)
LEMMA SpansJoin ==
    ASSUME site.nullsFirst \in BOOLEAN, NEW keys \in Seq(SortKeys), NEW p \in ListRows,
           NEW near \in Bounds, NEW far \in Bounds, NEW end \in Bounds, Between(p, near, far, keys)
    PROVE  LET newFar == IF Further(far, end, keys) THEN end ELSE far
           IN  /\ ~(near # Open /\ ComesBefore(p, near, keys))
               /\ \A r \in ListRows : Between(r, near, newFar, keys)
                                         => Between(r, near, far, keys) \/ Between(r, p, end, keys)
               /\ \A r \in ListRows : Between(r, p, end, keys) => Between(r, near, newFar, keys)
<1> DEFINE newFar == IF Further(far, end, keys) THEN end ELSE far
<1>1. \A b \in Bounds : b # Open => b \in ListRows
  BY ListsAssumption DEF Bounds
<1>2. ~(near # Open /\ ComesBefore(p, near, keys))
  BY DEF Between
<1>3. p # Open
  BY OpenIsNoRow
<1>4. \A a, b, c \in ListRows :
         /\ ~(ComesBefore(a, b, keys) /\ ComesBefore(b, a, keys))
         /\ ComesBefore(a, c, keys) => ComesBefore(a, b, keys) \/ ComesBefore(b, c, keys)
  BY KeysAreAnOrder
<1>5. ASSUME NEW r \in ListRows, Between(r, near, newFar, keys)
      PROVE  Between(r, near, far, keys) \/ Between(r, p, end, keys)
  <2>1. CASE ComesBefore(r, p, keys)
    <3>1. far = Open \/ ~ComesBefore(far, r, keys)
      <4>1. SUFFICES ASSUME far # Open, ComesBefore(far, r, keys) PROVE FALSE
        OBVIOUS
      <4>2. ComesBefore(far, p, keys) \/ ComesBefore(p, r, keys)
        BY <1>1, <1>4, <4>1
      <4> QED
        BY <1>4, <2>1, <4>1, <4>2 DEF Between
    <3> QED
      BY <1>5, <3>1 DEF Between
  <2>2. CASE ~ComesBefore(r, p, keys) /\ (end = Open \/ ~ComesBefore(end, r, keys))
    BY <2>2 DEF Between
  <2>3. CASE end # Open /\ ComesBefore(end, r, keys)
    <3>1. ~Further(far, end, keys)
      BY <1>5, <2>3 DEF Between
    <3> QED
      BY <1>5, <3>1 DEF Between
  <2> QED
    BY <2>1, <2>2, <2>3
<1>6. ASSUME NEW r \in ListRows, Between(r, p, end, keys)
      PROVE  Between(r, near, newFar, keys)
  <2>1. near = Open \/ ~ComesBefore(r, near, keys)
    <3>1. SUFFICES ASSUME near # Open, ComesBefore(r, near, keys) PROVE FALSE
      OBVIOUS
    <3>2. ComesBefore(r, p, keys) \/ ComesBefore(p, near, keys)
      BY <1>1, <1>4, <3>1
    <3> QED
      BY <1>2, <1>3, <1>6, <3>1, <3>2 DEF Between
  <2>2. newFar = Open \/ ~ComesBefore(newFar, r, keys)
    <3>1. CASE Further(far, end, keys)
      BY <1>6, <3>1 DEF Between
    <3>2. CASE ~Further(far, end, keys)
      <4>1. SUFFICES ASSUME far # Open, ComesBefore(far, r, keys) PROVE FALSE
        BY <3>2
      <4>2. end # Open /\ ~ComesBefore(far, end, keys)
        BY <3>2, <4>1 DEF Further
      <4>3. ComesBefore(far, end, keys) \/ ComesBefore(end, r, keys)
        BY <1>1, <1>4, <4>1, <4>2
      <4> QED
        BY <1>6, <4>2, <4>3 DEF Between
    <3> QED
      BY <3>1, <3>2
  <2> QED
    BY <2>1, <2>2, Zenon DEF Between
<1> QED
  BY <1>2, <1>5, <1>6, Zenon

(* Within is Between, from the side that the page is read from.             *)
LEMMA WithinEitherWay ==
    ASSUME NEW r, NEW lo, NEW hi, NEW keys \in Seq(SortKeys)
    PROVE  /\ Within(r, [lo |-> lo, hi |-> hi], keys) <=> Between(r, lo, hi, keys)
           /\ Within(r, [lo |-> lo, hi |-> hi], keys) <=> Between(r, hi, lo, Reversed(keys, TRUE))
<1>1. \A a, b : ComesBefore(a, b, Reversed(keys, TRUE)) <=> ComesBefore(b, a, keys)
  BY ReversedIsReversed, Zenon
<1> DEFINE span == [lo |-> lo, hi |-> hi]
<1>2. span.lo = lo /\ span.hi = hi
  OBVIOUS
<1> HIDE DEF span
<1>3. Within(r, span, keys) <=> Between(r, lo, hi, keys)
  BY <1>2, Zenon DEF Within, Between
<1>4. Within(r, span, keys) <=> Between(r, hi, lo, Reversed(keys, TRUE))
  BY <1>1, <1>2, Zenon DEF Within, Between
<1> QED
  BY <1>3, <1>4, Zenon DEF span

(* Only the ends of a span matter.                                          *)
LEMMA WithinEnds ==
    ASSUME NEW r, NEW span, NEW keys
    PROVE  Within(r, span, keys) <=> Within(r, [lo |-> span.lo, hi |-> span.hi], keys)
<1> DEFINE ends == [lo |-> span.lo, hi |-> span.hi]
<1>1. ends.lo = span.lo /\ ends.hi = span.hi
  OBVIOUS
<1> HIDE DEF ends
<1>2. Within(r, span, keys) <=> Within(r, ends, keys)
  BY <1>1, Zenon DEF Within
<1> QED
  BY <1>2, Zenon DEF ends

WalkTyped == walk \in [seen : SUBSET Pks, moved : SUBSET Pks, lo : Bounds, hi : Bounds]

(* A later page of a walk: what it spans joins what was spanned before.     *)
LEMMA WalkedOn ==
    ASSUME WalkTyped, site.nullsFirst \in BOOLEAN, NEW q \in ListQueries, NEW answer,
           answer.from # NoCursor, answer.from.position \in TableRows,
           Within(answer.from.position, walk, CursorKeys(q.sort)),
           More(answer) => answer.rows[1] \in TableRows /\ answer.rows[Len(answer.rows)] \in TableRows
    PROVE  LET keys == CursorKeys(q.sort)
               new == Walked(q, answer)
               span == Span(answer)
           IN  /\ new.seen = walk.seen \cup PksOf(answer.rows) /\ new.moved = walk.moved
               /\ DOMAIN new = {"seen", "moved", "lo", "hi"} /\ new = [walk EXCEPT !.seen = new.seen, !.lo = new.lo, !.hi = new.hi]
               /\ new.lo \in Bounds /\ new.hi \in Bounds
               /\ \A r \in ListRows : Within(r, new, keys) => Within(r, walk, keys) \/ Within(r, span, keys)
               /\ \A r \in ListRows : Within(r, span, keys) => Within(r, new, keys)
<1> DEFINE keys == CursorKeys(q.sort)
           new == Walked(q, answer)
           span == Span(answer)
           p == answer.from.position
           lower == walk.lo # Open /\ (span.lo = Open \/ ComesBefore(span.lo, walk.lo, keys))
           higher == walk.hi # Open /\ (span.hi = Open \/ ComesBefore(walk.hi, span.hi, keys))
           lo == IF lower THEN span.lo ELSE walk.lo
           hi == IF higher THEN span.hi ELSE walk.hi
           first == IF answer.hasPrevious THEN answer.rows[1] ELSE Open
           last == IF answer.hasMore THEN answer.rows[Len(answer.rows)] ELSE Open
<1>1. /\ keys \in Seq(SortKeys) /\ p \in ListRows /\ p # Open /\ p \in Bounds
      /\ walk.lo \in Bounds /\ walk.hi \in Bounds
  BY QueriesTyped, CursorKeysAreKeys, ListsAssumption, OpenIsNoRow DEF WalkTyped, Bounds
<1>2. \A a, b : ComesBefore(a, b, Reversed(keys, TRUE)) <=> ComesBefore(b, a, keys)
  BY <1>1, ReversedIsReversed, Zenon
<1>3. Reversed(keys, TRUE) \in Seq(SortKeys)
  BY <1>1, ReversedIsReversed
<1>4. new = [walk EXCEPT !.seen = walk.seen \cup PksOf(answer.rows), !.lo = lo, !.hi = hi]
  BY Zenon DEF Walked
<1>5. span = IF Backwards(answer.from) THEN [lo |-> first, hi |-> p] ELSE [lo |-> p, hi |-> last]
  BY Zenon DEF Span
<1> HIDE DEF keys, new, span, p, first, last
<1>6. /\ new.seen = walk.seen \cup PksOf(answer.rows) /\ new.moved = walk.moved /\ new.lo = lo /\ new.hi = hi
      /\ DOMAIN new = {"seen", "moved", "lo", "hi"}
      /\ new = [walk EXCEPT !.seen = new.seen, !.lo = new.lo, !.hi = new.hi]
  BY <1>4, Zenon DEF WalkTyped
<1>7. \A r : /\ Within(r, walk, keys) <=> Between(r, walk.lo, walk.hi, keys)
             /\ Within(r, walk, keys) <=> Between(r, walk.hi, walk.lo, Reversed(keys, TRUE))
             /\ Within(r, new, keys) <=> Between(r, lo, hi, keys)
             /\ Within(r, new, keys) <=> Between(r, hi, lo, Reversed(keys, TRUE))
             /\ Within(r, span, keys) <=> Between(r, span.lo, span.hi, keys)
             /\ Within(r, span, keys) <=> Between(r, span.hi, span.lo, Reversed(keys, TRUE))
  BY <1>1, <1>6, WithinEnds, WithinEitherWay, Zenon
<1>8. Within(p, walk, keys)
  BY DEF keys, p
<1>9. CASE Backwards(answer.from)
  <2>1. span.lo = first /\ span.hi = p /\ first \in Bounds
    <3>1. span.lo = first /\ span.hi = p
      BY <1>5, <1>9
    <3>2. first \in Bounds
      BY <1>9 DEF More, first, Bounds
    <3> QED
      BY <3>1, <3>2
  <2>2. lower <=> Further(walk.lo, first, Reversed(keys, TRUE))
    BY <1>2, <2>1, Zenon DEF Further
  <2>3. Between(p, walk.hi, walk.lo, Reversed(keys, TRUE))
    BY <1>7, <1>8, Zenon
  <2> DEFINE newFar == IF Further(walk.lo, first, Reversed(keys, TRUE)) THEN first ELSE walk.lo
  <2>4. /\ ~(walk.hi # Open /\ ComesBefore(p, walk.hi, Reversed(keys, TRUE)))
        /\ \A r \in ListRows : Between(r, walk.hi, newFar, Reversed(keys, TRUE))
              => Between(r, walk.hi, walk.lo, Reversed(keys, TRUE)) \/ Between(r, p, first, Reversed(keys, TRUE))
        /\ \A r \in ListRows : Between(r, p, first, Reversed(keys, TRUE))
              => Between(r, walk.hi, newFar, Reversed(keys, TRUE))
    BY <1>1, <1>3, <2>1, <2>3, SpansJoin, Zenon
  <2>5. ~higher
    BY <1>1, <1>2, <2>1, <2>4, Zenon
  <2>6. hi = walk.hi /\ lo = newFar
    BY <2>1, <2>2, <2>5, Zenon
  <2>7. lo \in Bounds /\ hi \in Bounds
    BY <1>1, <2>1, <2>6
  <2> HIDE DEF newFar, lo, hi
  <2>8. /\ \A r \in ListRows : Within(r, new, keys) => Within(r, walk, keys) \/ Within(r, span, keys)
        /\ \A r \in ListRows : Within(r, span, keys) => Within(r, new, keys)
    BY <1>7, <2>1, <2>4, <2>6, Zenon
  <2> QED
    BY <1>6, <2>7, <2>8, Zenon DEF keys, new, span
<1>10. CASE ~Backwards(answer.from)
  <2>1. span.hi = last /\ span.lo = p /\ last \in Bounds
    <3>1. span.hi = last /\ span.lo = p
      BY <1>5, <1>10
    <3>2. last \in Bounds
      BY <1>10 DEF More, last, Bounds
    <3> QED
      BY <3>1, <3>2
  <2>2. higher <=> Further(walk.hi, last, keys)
    BY <2>1, Zenon DEF Further
  <2>3. Between(p, walk.lo, walk.hi, keys)
    BY <1>7, <1>8, Zenon
  <2> DEFINE newFar == IF Further(walk.hi, last, keys) THEN last ELSE walk.hi
  <2>4. /\ ~(walk.lo # Open /\ ComesBefore(p, walk.lo, keys))
        /\ \A r \in ListRows : Between(r, walk.lo, newFar, keys)
              => Between(r, walk.lo, walk.hi, keys) \/ Between(r, p, last, keys)
        /\ \A r \in ListRows : Between(r, p, last, keys) => Between(r, walk.lo, newFar, keys)
    BY <1>1, <2>1, <2>3, SpansJoin, Zenon
  <2>5. ~lower
    BY <1>1, <2>1, <2>4, Zenon
  <2>6. lo = walk.lo /\ hi = newFar
    BY <2>1, <2>2, <2>5, Zenon
  <2>7. lo \in Bounds /\ hi \in Bounds
    BY <1>1, <2>1, <2>6
  <2> HIDE DEF newFar, lo, hi
  <2>8. /\ \A r \in ListRows : Within(r, new, keys) => Within(r, walk, keys) \/ Within(r, span, keys)
        /\ \A r \in ListRows : Within(r, span, keys) => Within(r, new, keys)
    BY <1>7, <2>1, <2>4, <2>6, Zenon
  <2> QED
    BY <1>6, <2>7, <2>8, Zenon DEF keys, new, span
<1> QED
  BY <1>9, <1>10

------------------------------------------------------------------------------
(* What a page spans                                                        *)

(* Keys with the primary key in them tell rows of two primary keys apart.   *)
LEMMA SameRow ==
    ASSUME NEW a, NEW b, NEW sort \in Seq(SortKeys),
           \A i \in DOMAIN CursorKeys(sort) : Same(a, b, CursorKeys(sort)[i])
    PROVE  a.pk = b.pk
<1>1. PICK i \in DOMAIN CursorKeys(sort) : CursorKeys(sort)[i].name = "pk"
  BY CursorKeysAreKeys
<1> QED
  BY <1>1 DEF Same

(* The page from a cursor has each accepted row that it spans, but for the  *)
(* one at the cursor, and spans its own rows.                               *)
LEMMA PageCoversItsSpan ==
    ASSUME TableTyped, NEW q \in ListQueries, NEW cursor, cursor # NoCursor => Usable(cursor),
           NEW W \in SUBSET {r \in Rows : Beyond(r, cursor, CursorKeys(q.sort))},
           Wanted(q, cursor, CursorKeys(q.sort)) \subseteq W,
           NEW answer, CursorFacts(answer, q, cursor, W)
    PROVE  LET keys == CursorKeys(q.sort)
               span == Span(answer)
           IN  /\ span.lo \in Bounds /\ span.hi \in Bounds
               /\ More(answer) => answer.rows[1] \in TableRows /\ answer.rows[Len(answer.rows)] \in TableRows
               /\ PksOf(answer.rows) \subseteq Pks
               /\ \A i \in DOMAIN answer.rows : answer.rows[i] \in Rows /\ Within(answer.rows[i], span, keys)
               /\ \A r \in Accepted(q) : Within(r, span, keys)
                     => r.pk \in PksOf(answer.rows) \/ (cursor # NoCursor /\ r.pk = cursor.position.pk)
<1> DEFINE keys == CursorKeys(q.sort)
           span == Span(answer)
           rows == answer.rows
           n == Len(answer.rows)
           back == Backwards(cursor)
           from == IF cursor = NoCursor THEN Open ELSE cursor.position
<1>1. /\ keys \in Seq(SortKeys) /\ q.sort \in Seq(SortKeys) /\ q.limit \in Nat \ {0}
      /\ site.nullsFirst \in BOOLEAN
  BY QueriesTyped, CursorKeysAreKeys, SiteTyped DEF TableTyped
<1>2. /\ answer.from = cursor /\ rows \in Seq(W) /\ Cardinality(W) \in Nat
      /\ n = SliceLen(Cardinality(W), 0, q.limit)
      /\ More(answer) <=> q.limit < Cardinality(W)
      /\ \A i, j \in DOMAIN rows : i < j => ComesBefore(rows[i], rows[j], keys)
      /\ \A r \in W : \/ \E i \in DOMAIN rows : rows[i] = r
                      \/ More(answer) /\ \A i \in DOMAIN rows : Onward(rows[i], r, cursor, keys)
  BY Zenon DEF CursorFacts
<1>3. /\ n \in Nat /\ DOMAIN rows = 1..n
      /\ \A i \in 1..n : rows[i] \in W
  BY <1>2
<1>4. ASSUME More(answer) PROVE 1 \in 1..n /\ n \in 1..n
  <2>1. n = q.limit
    BY <1>1, <1>2, <1>4 DEF SliceLen
  <2> QED
    BY <1>1, <2>1
<1>5. \A r \in W : r \in Rows /\ r \in ListRows /\ r \in TableRows /\ r.pk \in Pks /\ Beyond(r, cursor, keys)
  BY RowsTyped
<1>6. cursor # NoCursor => cursor.position \in ListRows /\ cursor.position \in TableRows /\ cursor.position # Open
  BY ListsAssumption, OpenIsNoRow DEF Usable
<1>7. span = IF back THEN [lo |-> IF answer.hasPrevious THEN rows[1] ELSE Open, hi |-> from]
             ELSE [lo |-> from, hi |-> IF answer.hasMore THEN rows[n] ELSE Open]
  BY <1>2, Zenon DEF Span
<1>8. More(answer) = IF back THEN answer.hasPrevious ELSE answer.hasMore
  BY <1>2, Zenon DEF More
<1>9. Open \notin ListRows
  BY OpenIsNoRow
<1>10. \A a, b \in ListRows :
          /\ ~(ComesBefore(a, b, keys) /\ ComesBefore(b, a, keys))
          /\ (\A i \in DOMAIN keys : Same(a, b, keys[i])) <=> ~ComesBefore(a, b, keys) /\ ~ComesBefore(b, a, keys)
  BY <1>1, KeysAreAnOrder
<1> HIDE DEF keys, span, rows, n, back
<1>11. /\ back => /\ span.hi = from
                  /\ span.lo = IF More(answer) THEN rows[1] ELSE Open
       /\ ~back => /\ span.lo = from
                   /\ span.hi = IF More(answer) THEN rows[n] ELSE Open
  BY <1>7, <1>8
<1>12. More(answer) => rows[1] \in TableRows /\ rows[n] \in TableRows
  BY <1>3, <1>4, <1>5
<1>13. span.lo \in Bounds /\ span.hi \in Bounds
  <2>1. from \in Bounds
    BY <1>6 DEF Bounds
  <2> QED
    BY <1>11, <1>12, <2>1 DEF Bounds
<1>14. PksOf(rows) \subseteq Pks
  BY <1>3, <1>5 DEF PksOf
<1>15. \A a \in ListRows : ~ComesBefore(a, a, keys)
  BY <1>10, Zenon
<1>16. ASSUME NEW i \in 1..n PROVE Within(rows[i], span, keys)
  <2>1. rows[i] \in W /\ rows[i] \in ListRows /\ Beyond(rows[i], cursor, keys)
    BY <1>3, <1>5
  <2>2. CASE back
    <3>1. cursor # NoCursor /\ cursor.backwards
      BY <2>2 DEF back, Backwards
    <3>2. ~ComesBefore(cursor.position, rows[i], keys)
      BY <1>6, <1>10, <2>1, <3>1, Zenon DEF Beyond
    <3>3. ASSUME More(answer) PROVE ~ComesBefore(rows[i], rows[1], keys)
      <4>1. CASE i = 1
        BY <1>15, <2>1, <4>1
      <4>2. CASE 1 < i
        <5>1. ComesBefore(rows[1], rows[i], keys) /\ rows[1] \in ListRows
          BY <1>2, <1>3, <1>4, <1>5, <3>3, <4>2, Zenon
        <5> QED
          BY <1>10, <2>1, <5>1, Zenon
      <4>3. i = 1 \/ 1 < i
        BY <1>3
      <4> QED
        BY <4>1, <4>2, <4>3
    <3> QED
      BY <1>11, <2>2, <3>1, <3>2, <3>3, Zenon DEF Within
  <2>3. CASE ~back
    <3>1. ASSUME cursor # NoCursor PROVE ~ComesBefore(rows[i], cursor.position, keys)
      <4>1. ~cursor.backwards
        BY <2>3, <3>1 DEF back, Backwards
      <4> QED
        BY <1>6, <1>10, <2>1, <3>1, <4>1, Zenon DEF Beyond
    <3>2. ASSUME More(answer) PROVE ~ComesBefore(rows[n], rows[i], keys)
      <4>1. CASE i = n
        BY <1>15, <2>1, <4>1
      <4>2. CASE i < n
        <5>1. ComesBefore(rows[i], rows[n], keys) /\ rows[n] \in ListRows
          BY <1>2, <1>3, <1>4, <1>5, <3>2, <4>2, Zenon
        <5> QED
          BY <1>10, <2>1, <5>1, Zenon
      <4>3. i = n \/ i < n
        BY <1>3
      <4> QED
        BY <4>1, <4>2, <4>3
    <3> QED
      BY <1>11, <2>3, <3>1, <3>2, Zenon DEF Within
  <2> QED
    BY <2>2, <2>3
<1>17. ASSUME NEW r \in Accepted(q), Within(r, span, keys)
       PROVE  r.pk \in PksOf(rows) \/ (cursor # NoCursor /\ r.pk = cursor.position.pk)
  <2>1. r \in Rows /\ r \in ListRows
    BY RowsTyped DEF Accepted
  <2>2. CASE Beyond(r, cursor, keys)
    <3>1. r \in W
      BY <2>2 DEF Wanted, keys
    <3>2. ASSUME More(answer), \A i \in DOMAIN rows : Onward(rows[i], r, cursor, keys) PROVE FALSE
      <4>1. /\ Onward(rows[1], r, cursor, keys) /\ Onward(rows[n], r, cursor, keys)
            /\ rows[1] # Open /\ rows[n] # Open
        BY <1>3, <1>4, <1>5, <1>9, <3>2
      <4>2. CASE back
        BY <1>11, <1>17, <3>2, <4>1, <4>2, Zenon DEF Within, Onward, back
      <4>3. CASE ~back
        BY <1>11, <1>17, <3>2, <4>1, <4>3, Zenon DEF Within, Onward, back
      <4> QED
        BY <4>2, <4>3
    <3>3. PICK i \in DOMAIN rows : rows[i] = r
      BY <1>2, <3>1, <3>2
    <3> QED
      BY <3>3 DEF PksOf
  <2>3. CASE ~Beyond(r, cursor, keys)
    <3>1. cursor # NoCursor
      BY <2>3 DEF Beyond
    <3>2. IF back THEN ~ComesBefore(cursor.position, r, keys) ELSE ~ComesBefore(r, cursor.position, keys)
      BY <1>6, <1>11, <1>17, <3>1, Zenon DEF Within
    <3>3. back <=> cursor.backwards
      BY <3>1, Zenon DEF back, Backwards
    <3>4. \A i \in DOMAIN keys : Same(r, cursor.position, keys[i])
      BY <1>6, <1>10, <2>1, <2>3, <3>1, <3>2, <3>3, Zenon DEF Beyond
    <3>5. r.pk = cursor.position.pk
      BY <1>1, <3>4, SameRow, Zenon DEF keys
    <3> QED
      BY <3>1, <3>5
  <2> QED
    BY <2>2, <2>3
<1>18. \A i \in DOMAIN rows : rows[i] \in Rows
  BY <1>3, <1>5
<1> QED
  BY <1>3, <1>12, <1>13, <1>14, <1>16, <1>17, <1>18, Zenon DEF keys, span, rows, n

(* A page from a cursor is exact, where the filter is applied.              *)
LEMMA CursorPageIsExact ==
    ASSUME NEW q \in ListQueries, NEW cursor,
           cursor # NoCursor => cursor.query = Fingerprint(CursorKeys(q.sort), q.fltr),
           NEW answer, CursorFacts(answer, q, cursor, Wanted(q, cursor, CursorKeys(q.sort)))
    PROVE  PageIsExactly(answer, q)
<1> DEFINE keys == CursorKeys(q.sort)
           rows == answer.rows
           W == Wanted(q, cursor, keys)
           given == {rows[i] : i \in DOMAIN rows}
<1>1. /\ answer.kind = "cursor" /\ answer.from = cursor /\ rows \in Seq(W) /\ Cardinality(W) \in Nat
      /\ Len(rows) = SliceLen(Cardinality(W), 0, q.limit)
      /\ More(answer) <=> q.limit < Cardinality(W)
      /\ \A i, j \in DOMAIN rows : i < j => ComesBefore(rows[i], rows[j], keys)
      /\ \A r \in W : \/ \E i \in DOMAIN rows : rows[i] = r
                      \/ More(answer) /\ \A i \in DOMAIN rows : Onward(rows[i], r, cursor, keys)
  BY Zenon DEF CursorFacts
<1>2. given \subseteq W
  BY <1>1
<1>3. Len(rows) = Least(q.limit, Cardinality(W))
  <2>1. q.limit \in Nat \ {0}
    BY QueriesTyped
  <2> QED
    BY <1>1, <2>1 DEF SliceLen, Least
<1>4. \A r \in given, s \in W \ given :
         IF Backwards(cursor) THEN ComesBefore(s, r, keys) ELSE ComesBefore(r, s, keys)
  BY <1>1, Zenon DEF Onward
<1>5. (IF Backwards(cursor) THEN answer.hasPrevious ELSE answer.hasMore) <=> Cardinality(W) > q.limit
  <2>1. q.limit \in Nat
    BY QueriesTyped
  <2>2. q.limit < Cardinality(W) <=> Cardinality(W) > q.limit
    BY <1>1, <2>1
  <2> QED
    BY <1>1, <2>2, Zenon DEF More
<1>6. cursor # NoCursor => cursor.query = <<keys, q.fltr>>
  BY DEF Fingerprint
<1>7. W = {r \in Accepted(q) : Beyond(r, cursor, keys)} /\ answer.kind # "refused"
  BY <1>1 DEF Wanted
<1> HIDE DEF W, keys
<1> QED
  BY <1>1, <1>2, <1>3, <1>4, <1>5, <1>6, <1>7, Zenon DEF PageIsExactly, keys

------------------------------------------------------------------------------
(* The invariant: every anchor of the page is at a row that the client has  *)
(* read and the walk spans, also after the row has moved or gone; the count *)
(* of an offset page is of the table while nobody has written.              *)

AnchorOf(cursor) ==
    /\ Usable(cursor)
    /\ cursor.query = Fingerprint(CursorKeys(query.sort), query.fltr)
    /\ cursor.position.pk \in walk.seen
    /\ Within(cursor.position, walk, CursorKeys(query.sort))

AnchorsTyped == DOMAIN page.anchors = Sides /\ \A a \in Sides :
    page.anchors[a] # NoCursor => page.kind = "cursor" /\ AnchorOf(page.anchors[a])

CountTyped ==
    counted # null => page.kind = "none" /\ query \in ListQueries /\ (walk.moved = {} => counted = Cardinality(Accepted(query)))

IInv ==
    /\ ListsTypeOK
    /\ table \in [Pks -> TableRows \cup {null}] /\ WalkTyped
    /\ query = null => page.kind = "none"
    /\ CountTyped /\ AnchorsTyped /\ WalkMissesNothing

LEMMA InvTyped ==
    ASSUME IInv PROVE TableTyped
  BY DEF IInv, ListsTypeOK, TableTyped

LEMMA InitIInv == ListsInit => IInv
<1> SUFFICES ASSUME ListsInit PROVE IInv
  OBVIOUS
<1>1. /\ site \in Sites /\ query = null /\ page = NoPage /\ counted = null /\ walk = NoWalk /\ edits = 0
      /\ table \in [Pks -> UNION {RowsOf(k) : k \in Pks}] /\ \A k \in Pks : table[k].pk = k
  BY Zenon DEF ListsInit
<1>2. \A k \in Pks : table[k] \in RowsOf(k)
  BY <1>1 DEF RowsOf
<1>3. table \in [Pks -> TableRows \cup {null}]
  BY <1>1, <1>2 DEF RowsOf
<1>4. page.kind = "none" /\ NoAnchors(page)
  BY <1>1, NoPageFields
<1>5. WalkTyped /\ walk.seen \subseteq Pks /\ walk.moved \subseteq Pks
  BY <1>1 DEF WalkTyped, NoWalk, Bounds
<1>6. ListsTypeOK
  BY <1>1, <1>2, <1>4, <1>5, ListsAssumption DEF ListsTypeOK
<1>7. AnchorsTyped
  BY <1>4, Zenon DEF AnchorsTyped, NoAnchors
<1>8. CountTyped /\ WalkMissesNothing
  BY <1>1, <1>4 DEF CountTyped, WalkMissesNothing
<1> QED
  BY <1>1, <1>3, <1>4, <1>5, <1>6, <1>7, <1>8 DEF IInv

(* What the invariant says of the walk and of the anchors, for the page and *)
(* the walk that a request leaves; the table stays as it was.               *)
Missed(q, new) ==
    \A r \in Accepted(q) :
        r.pk \notin new.moved /\ Within(r, new, CursorKeys(q.sort)) => r.pk \in new.seen

Anchored(answer, q, new) == DOMAIN answer.anchors = Sides /\ \A a \in Sides :
    answer.anchors[a] # NoCursor =>
        /\ answer.kind = "cursor" /\ Usable(answer.anchors[a])
        /\ answer.anchors[a].query = Fingerprint(CursorKeys(q.sort), q.fltr)
        /\ answer.anchors[a].position.pk \in new.seen
        /\ Within(answer.anchors[a].position, new, CursorKeys(q.sort))

Counted(count, answer, q, new) ==
    count # null => answer.kind = "none" /\ q \in ListQueries /\ (new.moved = {} => count = Cardinality(Accepted(q)))

LEMMA ReadOnly ==
    ASSUME table' = table, site' = site
    PROVE  /\ WalkMissesNothing' <=> (page'.kind = "cursor" => Missed(query', walk'))
           /\ AnchorsTyped' <=> Anchored(page', query', walk')
           /\ CountTyped' <=> Counted(counted', page', query', walk')
<1>1. WalkMissesNothing' <=> (page'.kind = "cursor" => Missed(query', walk'))
  BY DEF WalkMissesNothing, Missed, Accepted, Rows, FilterMatches, Within, ComesBefore, Ahead, Lower, Same
<1>2. AnchorsTyped' <=> Anchored(page', query', walk')
  BY DEF AnchorsTyped, AnchorOf, Anchored, Usable, Within, ComesBefore, Ahead, Lower, Same
<1>3. CountTyped' <=> Counted(counted', page', query', walk')
  <2>1. Accepted(query)' = Accepted(query')
    BY DEF Accepted, Rows, FilterMatches
  <2> QED
    BY <2>1 DEF CountTyped, Counted
<1> QED
  BY <1>1, <1>2, <1>3

LEMMA Anchoring ==
    /\ WalkMissesNothing <=> (page.kind = "cursor" => Missed(query, walk))
    /\ AnchorsTyped <=> Anchored(page, query, walk)
  BY Zenon DEF WalkMissesNothing, Missed, AnchorsTyped, AnchorOf, Anchored

(* A request has no cursor, or one of the last page.                        *)
LEMMA CursorSent ==
    ASSUME IInv, NEW q \in ListQueries, NEW cursor \in Cursors(q)
    PROVE  \/ cursor = NoCursor /\ query = null
           \/ /\ cursor # NoCursor /\ query # null /\ page.kind = "cursor" /\ AnchorOf(cursor)
              /\ cursor.query = Fingerprint(CursorKeys(q.sort), q.fltr) \/ cursor = page.anchors.last
<1>1. q # null
  BY QueriesTyped
<1>2. AnchorsTyped
  BY DEF IInv
<1>3. CASE query = null
  BY <1>1, <1>3 DEF Cursors
<1>4. CASE query = q
  <2>1. PICK a \in Sides : cursor = page.anchors[a] /\ cursor # NoCursor
    BY <1>1, <1>2, <1>4 DEF Cursors, AnchorsTyped
  <2>2. page.kind = "cursor" /\ AnchorOf(cursor)
    BY <1>2, <2>1 DEF AnchorsTyped
  <2>3. cursor.query = Fingerprint(CursorKeys(q.sort), q.fltr)
    BY <1>4, <2>2 DEF AnchorOf
  <2> QED
    BY <1>1, <1>4, <2>1, <2>2, <2>3
<1>5. CASE query # null /\ query # q
  <2>1. cursor = page.anchors.last /\ cursor # NoCursor
    BY <1>5 DEF Cursors
  <2>2. "last" \in Sides
    BY DEF Sides
  <2>3. page.anchors.last = page.anchors["last"]
    OBVIOUS
  <2>4. page.kind = "cursor" /\ AnchorOf(cursor)
    BY <1>2, <2>1, <2>2, <2>3 DEF AnchorsTyped
  <2> QED
    BY <1>5, <2>1, <2>4
<1> QED
  BY <1>3, <1>4, <1>5

LEMMA SentIsUsable ==
    ASSUME IInv, NEW q \in ListQueries, NEW cursor \in Cursors(q)
    PROVE  cursor # NoCursor => Usable(cursor)
  BY CursorSent DEF AnchorOf

(* The walk after a page, and the anchors of the page.                      *)
LEMMA PageWalked ==
    ASSUME IInv, NEW q \in ListQueries, NEW cursor \in Cursors(q),
           cursor # NoCursor => cursor.query = Fingerprint(CursorKeys(q.sort), q.fltr),
           NEW answer, CursorFacts(answer, q, cursor, Filtered(q, CursorKeys(q.sort), cursor, Rows))
    PROVE  LET new == Walked(q, answer)
           IN  /\ new \in [seen : SUBSET Pks, moved : SUBSET Pks, lo : Bounds, hi : Bounds]
               /\ Missed(q, new) /\ Anchored(answer, q, new)
<1> DEFINE keys == CursorKeys(q.sort)
           W == Filtered(q, keys, cursor, Rows)
           new == Walked(q, answer)
           span == Span(answer)
           at == cursor.position
<1>1. TableTyped /\ q.sort \in Seq(SortKeys) /\ keys \in Seq(SortKeys) /\ site.nullsFirst \in BOOLEAN
  BY InvTyped, QueriesTyped, CursorKeysAreKeys, SiteTyped DEF TableTyped
<1>2. cursor # NoCursor => Usable(cursor)
  BY SentIsUsable
<1>3. W \in SUBSET {r \in Rows : Beyond(r, cursor, keys)} /\ Wanted(q, cursor, keys) \subseteq W
  BY <1>1, <1>2, FilteredRows, Zenon
<1>4. /\ span.lo \in Bounds /\ span.hi \in Bounds
      /\ More(answer) => answer.rows[1] \in TableRows /\ answer.rows[Len(answer.rows)] \in TableRows
      /\ PksOf(answer.rows) \subseteq Pks
      /\ \A i \in DOMAIN answer.rows : answer.rows[i] \in Rows /\ Within(answer.rows[i], span, keys)
      /\ \A r \in Accepted(q) : Within(r, span, keys)
            => r.pk \in PksOf(answer.rows) \/ (cursor # NoCursor /\ r.pk = at.pk)
  BY <1>1, <1>2, <1>3, PageCoversItsSpan, Zenon
<1>5. answer.kind = "cursor" /\ answer.from = cursor /\ AtARow(answer.anchors, answer.rows, keys, q.fltr)
  BY Zenon DEF CursorFacts
<1>6. /\ new \in [seen : SUBSET Pks, moved : SUBSET Pks, lo : Bounds, hi : Bounds] /\ Missed(q, new)
      /\ PksOf(answer.rows) \subseteq new.seen
      /\ \A r \in ListRows : Within(r, span, keys) => Within(r, new, keys)
  <2>1. CASE cursor = NoCursor
    <3>1. new = [seen |-> PksOf(answer.rows), moved |-> {}, lo |-> span.lo, hi |-> span.hi]
      BY <1>5, <2>1, Zenon DEF Walked
    <3> HIDE DEF new, span
    <3>2. /\ new.seen = PksOf(answer.rows) /\ new.moved = {} /\ new.lo = span.lo /\ new.hi = span.hi
          /\ new \in [seen : SUBSET Pks, moved : SUBSET Pks, lo : Bounds, hi : Bounds]
      BY <1>4, <3>1
    <3>3. \A r : Within(r, new, keys) <=> Within(r, span, keys)
      BY <3>2, Zenon DEF Within
    <3>4. Missed(q, new)
      BY <1>4, <2>1, <3>2, <3>3, Zenon DEF Missed
    <3> QED
      BY <3>2, <3>3, <3>4, Zenon
  <2>2. CASE cursor # NoCursor
    <3>1. AnchorOf(cursor) /\ page.kind = "cursor"
      BY <2>2, CursorSent
    <3>2. keys = CursorKeys(query.sort) /\ q.fltr = query.fltr
      BY <2>2, <3>1 DEF AnchorOf, Fingerprint
    <3>3. Accepted(q) = Accepted(query)
      BY <3>2, Zenon DEF Accepted
    <3>4. at.pk \in walk.seen /\ Within(at, walk, keys) /\ at \in TableRows
      BY <3>1, <3>2 DEF AnchorOf, Usable
    <3>5. WalkTyped /\ Missed(query, walk)
      BY <3>1, Anchoring DEF IInv
    <3>6. /\ new.seen = walk.seen \cup PksOf(answer.rows) /\ new.moved = walk.moved
          /\ new = [walk EXCEPT !.seen = new.seen, !.lo = new.lo, !.hi = new.hi]
          /\ new.lo \in Bounds /\ new.hi \in Bounds
          /\ \A r \in ListRows : Within(r, new, keys) => Within(r, walk, keys) \/ Within(r, span, keys)
          /\ \A r \in ListRows : Within(r, span, keys) => Within(r, new, keys)
      BY <1>1, <1>4, <1>5, <2>2, <3>4, <3>5, WalkedOn, Zenon
    <3> HIDE DEF new, span, keys
    <3>7. new \in [seen : SUBSET Pks, moved : SUBSET Pks, lo : Bounds, hi : Bounds]
      BY <1>4, <3>5, <3>6 DEF WalkTyped
    <3>8. \A r \in Accepted(q) : r \in ListRows
      BY <1>1, RowsTyped DEF Accepted
    <3>9. Missed(q, new)
      <4>1. SUFFICES ASSUME NEW r \in Accepted(q), r.pk \notin new.moved, Within(r, new, keys) PROVE r.pk \in new.seen
        BY Zenon DEF Missed, keys
      <4>2. CASE Within(r, walk, keys)
        <5>1. r.pk \in walk.seen
          BY <3>2, <3>3, <3>5, <3>6, <4>1, <4>2, Zenon DEF Missed
        <5> QED
          BY <3>6, <5>1
      <4>3. CASE Within(r, span, keys)
        BY <1>4, <3>4, <3>6, <4>3
      <4> QED
        BY <3>6, <3>8, <4>1, <4>2, <4>3
    <3>10. PksOf(answer.rows) \subseteq new.seen
      BY <3>6
    <3> QED
      BY <3>6, <3>7, <3>9, <3>10, Zenon
  <2> QED
    BY <2>1, <2>2
<1> HIDE DEF new, span, keys
<1>7. Anchored(answer, q, new)
  <2>1. DOMAIN answer.anchors = Sides
    BY <1>5, Zenon DEF AtARow
  <2>2. ASSUME NEW a \in Sides, answer.anchors[a] # NoCursor
        PROVE  /\ Usable(answer.anchors[a])
               /\ answer.anchors[a].query = Fingerprint(keys, q.fltr)
               /\ answer.anchors[a].position.pk \in new.seen
               /\ Within(answer.anchors[a].position, new, keys)
    <3>1. PICK i \in DOMAIN answer.rows, backwards \in BOOLEAN, inclusive \in BOOLEAN :
             answer.anchors[a] = CursorOf(answer.rows[i], backwards, inclusive, keys, q.fltr)
      BY <1>5, <2>2, Zenon DEF AtARow
    <3> DEFINE c == answer.anchors[a]
               row == answer.rows[i]
    <3>2. /\ c.position = row /\ c.backwards = backwards /\ c.inclusive = inclusive
          /\ c.query = Fingerprint(keys, q.fltr)
      BY <3>1 DEF CursorOf
    <3>3. row \in Rows /\ Within(row, span, keys)
      BY <1>4, Zenon
    <3>4. row \in TableRows /\ row \in ListRows /\ \A f \in Fields \ site.nullable : row[f] # null
      BY <1>1, <3>3, RowsTyped, Zenon
    <3>5. row.pk \in PksOf(answer.rows)
      BY DEF PksOf
    <3> HIDE DEF c, row
    <3>6. Usable(c)
      BY <3>2, <3>4 DEF Usable, IsCursorState
    <3>7. row.pk \in new.seen /\ Within(row, new, keys)
      BY <1>6, <3>3, <3>4, <3>5
    <3> QED
      BY <3>2, <3>6, <3>7, Zenon DEF c
  <2> QED
    BY <1>5, <2>1, <2>2, Zenon DEF Anchored, keys
<1> QED
  BY <1>6, <1>7, Zenon DEF new

------------------------------------------------------------------------------
(* The steps                                                                *)

Kinds == {"none", "refused", "plain", "paginated", "cursor", "lookup"}

Walks == [seen : SUBSET Pks, moved : SUBSET Pks, lo : Bounds, hi : Bounds]

(* A request keeps the invariant if its answer and its walk do.             *)
LEMMA RequestKeeps ==
    ASSUME IInv, table' = table, site' = site, edits' = edits, query' \in ListQueries, page'.kind \in Kinds,
           page'.kind \in {"paginated", "cursor"} => Len(page'.rows) <= query'.limit,
           counted' \in Nat \cup {null}, walk' \in Walks,
           page'.kind = "cursor" => Missed(query', walk'),
           Anchored(page', query', walk'), Counted(counted', page', query', walk')
    PROVE  IInv'
<1>1. WalkMissesNothing' /\ AnchorsTyped' /\ CountTyped'
  BY ReadOnly
<1>2. ListsTypeOK'
  <2>1. site' \in Sites /\ edits' \in 0..MaxEdits
    BY DEF IInv, ListsTypeOK
  <2>2. \A k \in Pks : table'[k] \in RowsOf(k)' \cup {null}
    BY DEF IInv, ListsTypeOK, RowsOf
  <2>3. walk'.seen \subseteq Pks /\ walk'.moved \subseteq Pks
    BY DEF Walks
  <2> QED
    BY <2>1, <2>2, <2>3 DEF ListsTypeOK, Kinds, Sites
<1>3. table' \in [Pks -> TableRows \cup {null}] /\ WalkTyped'
  BY DEF IInv, WalkTyped, Walks
<1>4. query' # null
  BY QueriesTyped
<1> QED
  BY <1>1, <1>2, <1>3, <1>4 DEF IInv

LEMMA NoWalkTyped == NoWalk \in Walks
  BY DEF NoWalk, Walks, Bounds

LEMMA NoAnchorsAnchored ==
    ASSUME NEW answer, NoAnchors(answer), NEW q, NEW new
    PROVE  Anchored(answer, q, new)
  BY Zenon DEF NoAnchors, Anchored

(* The count of an offset page is still to be used while the client waits   *)
(* for its rows only.                                                       *)
LEMMA NotCounted ==
    ASSUME IInv, query = null \/ page.kind = "cursor"
    PROVE  counted = null
  BY ListsAssumption DEF IInv, CountTyped

LEMMA ListCursorStep ==
    ASSUME IInv, NEW q \in ListQueries, NEW cursor \in Cursors(q), ListCursor(q, cursor)
    PROVE  /\ IInv'
           /\ page'.kind \in {"cursor", "refused"}
           /\ ~Unfiltered(query', page'.from) => PageIsExactly(page', query')
<1> DEFINE keys == CursorKeys(q.sort)
           W == Filtered(q, keys, cursor, Rows)
           stale == cursor # NoCursor /\ cursor.query # Fingerprint(keys, q.fltr)
<1>1. /\ page' \in CursorAnswers(q, cursor) /\ query' = q
      /\ walk' = IF page'.kind = "refused" THEN NoWalk ELSE Walked(q, page')
      /\ table' = table /\ site' = site /\ counted' = counted /\ edits' = edits
  BY Zenon DEF ListCursor
<1>2. TableTyped /\ (cursor # NoCursor => Usable(cursor))
  BY InvTyped, SentIsUsable
<1>3. IF stale THEN page' = Refused ELSE CursorFacts(page', q, cursor, W)
  BY <1>1, <1>2, CursorAnswered, Zenon
<1>4. counted' = null /\ Counted(counted', page', query', walk')
  <2>1. query = null \/ page.kind = "cursor"
    BY CursorSent
  <2> QED
    BY <1>1, <2>1, NotCounted DEF Counted
<1>5. CASE stale
  <2>1. page'.kind = "refused" /\ NoAnchors(page')
    BY <1>3, <1>5, RefusedFields, Zenon
  <2>2. walk' \in Walks
    BY <1>1, <2>1, NoWalkTyped
  <2>3. Anchored(page', query', walk')
    BY <2>1, NoAnchorsAnchored, Zenon
  <2>4. IInv'
    BY <1>1, <1>4, <2>1, <2>2, <2>3, RequestKeeps DEF Kinds
  <2>5. cursor = page.anchors.last
    BY <1>5, CursorSent
  <2>6. PageIsExactly(page', query')
    BY <1>1, <1>5, <2>1, <2>5, Zenon DEF PageIsExactly, Fingerprint
  <2> QED
    BY <2>1, <2>4, <2>6
<1>6. CASE ~stale
  <2>1. CursorFacts(page', q, cursor, W)
    BY <1>3, <1>6
  <2>2. page'.kind = "cursor" /\ page'.from = cursor /\ Len(page'.rows) <= q.limit
    <3>1. /\ page'.kind = "cursor" /\ page'.from = cursor
          /\ Len(page'.rows) = SliceLen(Cardinality(W), 0, q.limit) /\ Cardinality(W) \in Nat
      BY <2>1, Zenon DEF CursorFacts
    <3>2. q.limit \in Nat
      BY QueriesTyped
    <3> QED
      BY <3>1, <3>2 DEF SliceLen
  <2>3. walk' = Walked(q, page')
    BY <1>1, <2>2
  <2>4. walk' \in Walks /\ Missed(q, walk') /\ Anchored(page', q, walk')
    BY <1>6, <2>1, <2>3, PageWalked, Zenon DEF Walks
  <2>5. IInv'
    BY <1>1, <1>4, <2>2, <2>4, RequestKeeps, ListsAssumption DEF Kinds
  <2>6. ASSUME ~Unfiltered(query', page'.from) PROVE PageIsExactly(page', query')
    <3>1. ~Unfiltered(q, cursor)
      BY <1>1, <2>2, <2>6
    <3>2. W = Wanted(q, cursor, keys)
      <4>1. keys \in Seq(SortKeys)
        BY QueriesTyped, CursorKeysAreKeys
      <4> QED
        BY <1>2, <3>1, <4>1, FilteredRows, Zenon
    <3>3. PageIsExactly(page', q)
      BY <1>6, <2>1, <3>2, CursorPageIsExact, Zenon
    <3> QED
      BY <1>1, <3>3
  <2> QED
    BY <2>2, <2>5, <2>6
<1> QED
  BY <1>5, <1>6

LEMMA CountStep ==
    ASSUME IInv, NEW q \in ListQueries, CountRecords(q)
    PROVE  IInv' /\ page'.kind = "none"
<1>1. /\ counted' = Cardinality(Filtered(q, <<>>, NoCursor, Rows)) /\ query' = q /\ page' = NoPage
      /\ walk' = NoWalk /\ table' = table /\ site' = site /\ edits' = edits
  BY DEF CountRecords
<1>2. counted' = Cardinality(Accepted(q)) /\ counted' \in Nat
  BY <1>1, InvTyped, AllAccepted, AcceptedRows
<1>3. page'.kind = "none" /\ NoAnchors(page')
  BY <1>1, NoPageFields
<1>4. Anchored(page', query', walk')
  BY <1>3, NoAnchorsAnchored, Zenon
<1>5. Counted(counted', page', query', walk')
  BY <1>1, <1>2, <1>3 DEF Counted
<1> QED
  BY <1>1, <1>2, <1>3, <1>4, <1>5, NoWalkTyped, RequestKeeps DEF Kinds

(* The steps that answer with a list.                                       *)
LEMMA ListStep ==
    ASSUME IInv, page'.kind \in {"plain", "paginated", "lookup"}, query' \in ListQueries,
           ExactList(page', query'), counted' = null, walk' \in Walks,
           table' = table, site' = site, edits' = edits,
           counted # null => query' = query
    PROVE  IInv' /\ ListIsExactly(page', query')
<1>1. Anchored(page', query', walk')
  BY NoAnchorsAnchored, Zenon DEF ExactList
<1>2. Counted(counted', page', query', walk')
  BY DEF Counted
<1>3. page'.kind \in {"paginated", "cursor"} => Len(page'.rows) <= query'.limit
  BY DEF ExactList
<1>4. IInv'
  BY <1>1, <1>2, <1>3, RequestKeeps DEF Kinds
<1>5. counted # null /\ walk.moved = {} => counted = Cardinality(Accepted(query'))
  BY DEF IInv, CountTyped
<1>6. \A i \in DOMAIN page'.rows : page'.rows[i] \in Accepted(query')
  <2>1. page'.rows \in Seq(Accepted(query'))
    BY Zenon DEF ExactList
  <2> QED
    BY <2>1
<1>7. ListIsExactly(page', query')
  BY <1>5, <1>6, Zenon DEF ListIsExactly, ExactList
<1> QED
  BY <1>4, <1>7

LEMMA PaginatedStep ==
    ASSUME IInv, ListPaginated
    PROVE  IInv' /\ page'.kind \in {"plain", "paginated"} /\ ListIsExactly(page', query')
<1>1. /\ counted # null /\ page' \in OffsetAnswers(query) /\ counted' = null /\ query' = query
      /\ walk' = walk /\ table' = table /\ site' = site /\ edits' = edits
  BY DEF ListPaginated
<1>2. query \in ListQueries /\ walk' \in Walks
  BY <1>1 DEF IInv, CountTyped, WalkTyped, Walks
<1>3. page'.kind \in {"plain", "paginated"} /\ ExactList(page', query)
  BY <1>1, <1>2, InvTyped, OffsetAnswersAreExact, Zenon
<1> QED
  BY <1>1, <1>2, <1>3, ListStep

LEMMA PlainStep ==
    ASSUME IInv, NEW q \in ListQueries, ListPlain(q)
    PROVE  IInv' /\ page'.kind \in {"plain", "paginated"} /\ ListIsExactly(page', query')
<1>1. /\ query = null /\ page' \in OffsetAnswers(q) /\ counted' = counted /\ query' = q
      /\ walk' = NoWalk /\ table' = table /\ site' = site /\ edits' = edits
  BY DEF ListPlain
<1>2. page'.kind \in {"plain", "paginated"} /\ ExactList(page', q)
  BY <1>1, InvTyped, OffsetAnswersAreExact, Zenon
<1> QED
  BY <1>1, <1>2, NotCounted, NoWalkTyped, ListStep

LEMMA LookupStep ==
    ASSUME IInv, NEW q \in ListQueries, ListLookup(q)
    PROVE  IInv' /\ page'.kind = "lookup" /\ ListIsExactly(page', query')
<1>1. /\ query = null /\ page' \in LookupAnswers(q) /\ counted' = counted /\ query' = q
      /\ walk' = NoWalk /\ table' = table /\ site' = site /\ edits' = edits
  BY DEF ListLookup
<1>2. page'.kind = "lookup" /\ ExactList(page', q)
  BY <1>1, InvTyped, LookupAnswersAreExact, Zenon
<1> QED
  BY <1>1, <1>2, NotCounted, NoWalkTyped, ListStep

LEMMA EditStep ==
    ASSUME IInv, NEW k \in Pks, Edit(k)
    PROVE  IInv' /\ page' = page
<1>1. PICK row \in RowsOf(k) \cup {null} : table' = [table EXCEPT ![k] = row]
  BY Zenon DEF Edit
<1>2. /\ walk' = [walk EXCEPT !.moved = @ \cup {k}] /\ edits' = edits + 1 /\ edits < MaxEdits
      /\ site' = site /\ query' = query /\ page' = page /\ counted' = counted
  BY DEF Edit
<1>3. /\ walk' \in Walks /\ walk'.moved = walk.moved \cup {k} /\ walk'.seen = walk.seen
      /\ walk'.lo = walk.lo /\ walk'.hi = walk.hi
  BY <1>2 DEF IInv, WalkTyped, Walks
<1>4. /\ table' \in [Pks -> TableRows \cup {null}] /\ table'[k] = row
      /\ \A j \in Pks : j # k => table'[j] = table[j]
  BY <1>1 DEF IInv, RowsOf
<1>5. \A j : RowsOf(j)' = RowsOf(j)
  BY <1>2 DEF RowsOf
<1>6. ListsTypeOK'
  <2>1. \A j \in Pks : table'[j] \in RowsOf(j)' \cup {null}
    BY <1>1, <1>4, <1>5 DEF IInv, ListsTypeOK
  <2>2. edits' \in 0..MaxEdits
    BY <1>2, ListsAssumption DEF IInv, ListsTypeOK
  <2>3. walk'.seen \subseteq Pks /\ walk'.moved \subseteq Pks
    BY <1>3 DEF Walks
  <2> QED
    BY <1>2, <2>1, <2>2, <2>3 DEF IInv, ListsTypeOK, Sites
<1>7. \A r \in Rows' : r.pk # k => r \in Rows
  <2>1. SUFFICES ASSUME NEW r \in Rows', r.pk # k PROVE r \in Rows
    OBVIOUS
  <2>2. PICK j \in Pks : table'[j] # null /\ r = table'[j]
    BY <2>1 DEF Rows
  <2>3. r \in RowsOf(j)
    BY <1>5, <1>6, <2>2 DEF ListsTypeOK
  <2>4. j # k
    BY <2>1, <2>3 DEF RowsOf
  <2> QED
    BY <1>4, <2>2, <2>4 DEF Rows
<1>8. \A r \in Accepted(query)' : r.pk # k => r \in Accepted(query)
  BY <1>2, <1>7 DEF Accepted, FilterMatches
<1>9. \A r : Within(r, walk, CursorKeys(query.sort))' <=> Within(r, walk, CursorKeys(query.sort))
  BY <1>2, <1>3 DEF Within, ComesBefore, Ahead, Lower, Same
<1>10. WalkMissesNothing'
  BY <1>2, <1>3, <1>8, <1>9 DEF IInv, WalkMissesNothing
<1>11. AnchorsTyped'
  <2>1. \A c : AnchorOf(c)' <=> AnchorOf(c)
    BY <1>2, <1>3 DEF AnchorOf, Usable, Within, ComesBefore, Ahead, Lower, Same
  <2> QED
    BY <1>2, <2>1 DEF IInv, AnchorsTyped
<1>12. CountTyped'
  BY <1>2, <1>3 DEF IInv, CountTyped
<1> QED
  BY <1>2, <1>3, <1>4, <1>6, <1>10, <1>11, <1>12 DEF IInv, WalkTyped, Walks

LEMMA Unchanged ==
    ASSUME IInv, UNCHANGED listVars PROVE IInv' /\ page' = page
<1>1. /\ table' = table /\ site' = site /\ query' = query /\ page' = page /\ counted' = counted
      /\ walk' = walk /\ edits' = edits
  BY DEF listVars
<1>2. ListsTypeOK'
  BY <1>1 DEF IInv, ListsTypeOK, RowsOf, Sites
<1>3. WalkMissesNothing' /\ AnchorsTyped' /\ CountTyped'
  <2>1. Missed(query', walk') <=> Missed(query, walk)
    BY <1>1
  <2>2. Anchored(page', query', walk') <=> Anchored(page, query, walk)
    BY <1>1
  <2>3. Counted(counted', page', query', walk') <=> Counted(counted, page, query, walk)
    BY <1>1
  <2>4. Counted(counted, page, query, walk)
    BY DEF IInv, CountTyped, Counted
  <2> QED
    BY <1>1, <2>1, <2>2, <2>3, <2>4, ReadOnly, Anchoring DEF IInv
<1> QED
  BY <1>1, <1>2, <1>3 DEF IInv, WalkTyped

(* What every step does: the invariant stays, and an answer is exact.       *)
ExactStep ==
    page' # page =>
        /\ page'.kind \in {"cursor", "refused"} /\ ~Unfiltered(query', page'.from) => PageIsExactly(page', query')
        /\ page'.kind \in {"plain", "paginated", "lookup"} => ListIsExactly(page', query')

LEMMA NextIInv ==
    ASSUME IInv, [ListsNext]_listVars PROVE IInv' /\ ExactStep
<1>1. ASSUME NEW q \in ListQueries, NEW cursor \in Cursors(q), ListCursor(q, cursor) PROVE IInv' /\ ExactStep
  <2>1. /\ IInv' /\ page'.kind \in {"cursor", "refused"}
        /\ ~Unfiltered(query', page'.from) => PageIsExactly(page', query')
    BY <1>1, ListCursorStep
  <2>2. page'.kind \notin {"plain", "paginated", "lookup"}
    BY <2>1
  <2> QED
    BY <2>1, <2>2, Zenon DEF ExactStep
<1>2. ASSUME NEW q \in ListQueries, CountRecords(q) PROVE IInv' /\ ExactStep
  <2>1. IInv' /\ page'.kind = "none"
    BY <1>2, CountStep
  <2>2. page'.kind \notin {"cursor", "refused"} /\ page'.kind \notin {"plain", "paginated", "lookup"}
    BY <2>1
  <2> QED
    BY <2>1, <2>2, Zenon DEF ExactStep
<1>3. ASSUME IInv', page'.kind \in {"plain", "paginated", "lookup"}, ListIsExactly(page', query')
      PROVE  IInv' /\ ExactStep
  <2>1. page'.kind \notin {"cursor", "refused"}
    BY <1>3
  <2> QED
    BY <1>3, <2>1, Zenon DEF ExactStep
<1>4. ASSUME NEW q \in ListQueries, ListPlain(q) PROVE IInv' /\ ExactStep
  BY <1>3, <1>4, PlainStep
<1>5. ASSUME NEW q \in ListQueries, ListLookup(q) PROVE IInv' /\ ExactStep
  BY <1>3, <1>5, LookupStep
<1>6. ASSUME ListPaginated PROVE IInv' /\ ExactStep
  BY <1>3, <1>6, PaginatedStep
<1>7. ASSUME NEW k \in Pks, Edit(k) PROVE IInv' /\ ExactStep
  BY <1>7, EditStep, Zenon DEF ExactStep
<1>8. CASE UNCHANGED listVars
  BY <1>8, Unchanged, Zenon DEF ExactStep
<1> QED
  BY <1>1, <1>2, <1>4, <1>5, <1>6, <1>7, <1>8, Zenon DEF ListsNext

THEOREM Invariance == ListsSpec => []IInv
<1>1. IInv /\ [ListsNext]_listVars => IInv'
  BY NextIInv
<1> QED
  BY <1>1, InitIInv, PTL DEF ListsSpec

(* A list and a walk of it are well-formed in every state of an endpoint.   *)
THEOREM ListsTypeCorrect == ListsSpec => []ListsTypeOK
<1>1. IInv => ListsTypeOK
  BY DEF IInv
<1> QED
  BY <1>1, Invariance, PTL

(* A walk misses no row that nobody touched, whatever the rows, the filter, *)
(* the ordering and the placement of NULLs (cursor.py 188-239).             *)
THEOREM WalksMissNothing == ListsSpec => []WalkMissesNothing
<1>1. IInv => WalkMissesNothing
  BY DEF IInv
<1> QED
  BY <1>1, Invariance, PTL

(* Every answer, of memory or of SQL, is exactly what was asked for.        *)
THEOREM PagesAreExact == ListsSpec => PageIsExact
<1>1. IInv /\ [ListsNext]_listVars => [ExactStep]_listVars
  BY NextIInv
<1>2. [ExactStep]_listVars
        => [page' # page =>
               /\ page'.kind \in {"cursor", "refused"} /\ ~Unfiltered(query', page'.from)
                     => PageIsExactly(page', query')
               /\ page'.kind \in {"plain", "paginated", "lookup"} => ListIsExactly(page', query')]_listVars
  BY DEF ExactStep
<1> QED
  BY <1>1, <1>2, Invariance, PTL DEF ListsSpec, PageIsExact
=============================================================================
