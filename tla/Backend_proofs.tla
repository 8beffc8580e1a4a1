---------------------------- MODULE Backend_proofs -----------------------------
(* Proofs about what the backends do with the records: the writes and their *)
(* events, on either backend.                                               *)
EXTENDS Records, FiniteSetTheorems, WellFoundedInduction, TLAPS

------------------------------------------------------------------------------
(* Records, for any keys, rows, write calls and writers                     *)

(* Of the keys that are left, one is the least.                             *)
LEMMA Least ==
    ASSUME NEW S \in SUBSET Keys, S # {}
    PROVE  \E k \in S : \A j \in S : k <= j
<1>1. S \subseteq Nat
  BY RecordsAssumption
<1>2. PICK k \in S : \A j \in S : <<j, k>> \notin OpToRel(<, Nat)
  BY <1>1, WFMin, NatLessThanWellFounded, Zenon
<1>3. \A j \in S : ~(j < k)
  BY <1>1, <1>2, Zenon DEF OpToRel
<1>4. ASSUME NEW j \in S PROVE k <= j
  <2>1. j \in Nat /\ k \in Nat
    BY <1>1
  <2>2. ~(j < k)
    BY <1>3
  <2> QED  BY <2>1, <2>2
<1> QED  BY <1>4

(* A finite set of keys has a greatest member.                              *)
LEMMA Greatest ==
    ASSUME NEW S \in SUBSET Keys, S # {}
    PROVE  \E k \in S : \A j \in S : j <= k
<1> DEFINE Above(k) == {j \in Keys : j > k}
           T == {Above(k) : k \in S}
<1>1. IsWellFoundedOn(StrictSubsetOrdering(Keys), SUBSET Keys)
  BY RecordsAssumption, FS_StrictSubsetOrderingWellFounded, FS_FiniteSubsetsOfFinite
<1>2. T \subseteq SUBSET Keys /\ T # {}
  OBVIOUS
<1> HIDE DEF T
<1>3. PICK x \in T : \A y \in T : <<y, x>> \notin StrictSubsetOrdering(Keys)
  BY <1>1, <1>2, WFMin, Zenon
<1>4. PICK k \in S : x = Above(k)
  BY <1>3 DEF T
<1>5. ASSUME NEW j \in S PROVE j <= k
  <2>1. j \in Nat /\ k \in Nat /\ Keys \subseteq Nat
    BY RecordsAssumption
  <2>2. SUFFICES ASSUME j > k PROVE FALSE
    BY <2>1
  <2>3. Above(j) \subseteq Above(k) /\ j \in Above(k) /\ j \notin Above(j)
    <3>1. ASSUME NEW i \in Keys, i > j PROVE i > k
      <4>1. i \in Nat
        BY <2>1
      <4> QED  BY <2>1, <2>2, <3>1, <4>1
    <3>2. j \in Keys /\ ~(j > j)
      BY <2>1
    <3> QED  BY <2>2, <3>1, <3>2
  <2>4. Above(j) \in T
    BY DEF T
  <2> HIDE DEF Above
  <2>5. Above(j) \in SUBSET Keys /\ Above(k) \in SUBSET Keys
    BY <2>4, <1>2, <1>3, <1>4
  <2> QED  BY <2>3, <2>4, <2>5, <1>3, <1>4 DEF StrictSubsetOrdering
<1> QED  BY <1>5

------------------------------------------------------------------------------
(* The write calls                                                          *)

LEMMA RequestFacts ==
    ASSUME NEW r \in WriteRequests
    PROVE  /\ r.op \in {"updated", "deleted", "created"}
           /\ Named(r) \subseteq Keys
           /\ r.op # "created" =>
                 /\ r.order \in Seq(Keys)
                 /\ \A i \in 1..Len(r.order) : r.order[i] \in Keys
           /\ r.op = "deleted" => 1 \in 1..Len(r.order)
<1>1. r \in UpdateRequests \/ r \in CreateRequests \/ r \in DeleteRequests
  BY RecordsAssumption
<1>2. r.op \in {"updated", "deleted", "created"} /\ (r.op # "created" => r.order \in Seq(Keys))
  BY <1>1 DEF UpdateRequests, CreateRequests, DeleteRequests
<1>3. r.op = "deleted" => r.order # <<>>
  BY RecordsAssumption
<1> QED  BY <1>2, <1>3 DEF Named

(* An update states columns of the rows that it names.                      *)
LEMMA UpdateFacts ==
    ASSUME NEW r \in WriteRequests, r.op = "updated"
    PROVE  /\ DOMAIN r.records = Named(r)
           /\ \A k \in Named(r) : \A c \in DOMAIN r.records[k] : r.records[k][c] \in Values
<1>1. r \in UpdateRequests
  BY RecordsAssumption DEF CreateRequests, DeleteRequests
<1>2. PICK ks \in SUBSET Keys : r.records \in [ks -> UNION {[cs -> Values] : cs \in SUBSET Columns}]
  BY <1>1, Zenon DEF UpdateRequests
<1>3. DOMAIN r.records = Named(r)
  BY RecordsAssumption
<1>4. ASSUME NEW k \in Named(r) PROVE \A c \in DOMAIN r.records[k] : r.records[k][c] \in Values
  <2>1. r.records[k] \in UNION {[cs -> Values] : cs \in SUBSET Columns}
    BY <1>2, <1>3
  <2> QED  BY <2>1
<1> QED  BY <1>3, <1>4

LEMMA MergedFacts ==
    ASSUME NEW row \in RecordRows, NEW fields, \A c \in DOMAIN fields : fields[c] \in Values
    PROVE  Merged(row, fields) \in RecordRows
BY DEF Merged, RecordRows

------------------------------------------------------------------------------
(* The inductive invariant                                                  *)

Phases == {"idle", "updated", "deleted", "created", "found", "written", "ended"}

RowsRead == UNION {[ks -> RecordRows] : ks \in SUBSET Keys}

Calls == [pc : Phases, request : WriteRequests \cup {None}, at : Nat, got : RowsRead,
          pks : SUBSET Keys, told : BOOLEAN]

Typed ==
    /\ backend \in {"django", "memory"}
    /\ rows \in [Keys -> RecordRows \cup {None}]
    /\ lock \in [Keys -> Writers \cup {None}]
    /\ call \in [Writers -> Calls]
    /\ used \subseteq Keys /\ excused \subseteq Keys
    /\ faults \in 0..MaxFaults

(* A call that writes knows its request, and its place in the keys of a     *)
(* delete.                                                                  *)
Asked(w) ==
    /\ call[w].pc \in {"updated", "deleted", "created", "found"} =>
          /\ call[w].request \in WriteRequests
          /\ call[w].request.op = IF call[w].pc = "found" THEN "deleted" ELSE call[w].pc
    /\ call[w].pc \in {"deleted", "found"} => call[w].at \in 1..Len(call[w].request.order)

(* What a transaction has read it has locked, in the order of the keys, and *)
(* nobody has written the rows since.                                       *)
Transaction(w) ==
    call[w].pc = "updated" /\ backend = "django" =>
        /\ DOMAIN call[w].got \subseteq Named(call[w].request)
        /\ \A k \in DOMAIN call[w].got :
              /\ lock[k] = w /\ rows[k] # None
              /\ call[w].got[k] = Merged(rows[k], call[w].request.records[k])
        /\ \A k \in DOMAIN call[w].got, j \in Left(w) : k < j

Locks ==
    \A k \in Keys : lock[k] # None =>
        call[lock[k]].pc = "updated" /\ backend = "django" /\ k \in DOMAIN call[lock[k]].got

KeysAreUsed == \A k \in Keys : rows[k] # None => k \in used

RecordsInv ==
    /\ Typed
    /\ \A w \in Writers : Asked(w) /\ Transaction(w)
    /\ Locks /\ KeysAreUsed /\ StoredRowsAreAcceptable

LEMMA NothingRead == <<>> \in RowsRead /\ DOMAIN <<>> = {}
<1>1. <<>> \in [{} -> RecordRows]
  OBVIOUS
<1> QED  BY <1>1 DEF RowsRead

LEMMA IdleIsACall == Idle \in Calls
BY NothingRead DEF Idle, Calls, Phases

LEMMA InitRecordsInv == RecordsInit => RecordsInv
<1> SUFFICES ASSUME RecordsInit PROVE RecordsInv
  OBVIOUS
<1>1. Typed
  BY IdleIsACall, RecordsAssumption DEF RecordsInit, Typed
<1>2. ASSUME NEW w \in Writers PROVE Asked(w) /\ Transaction(w)
  <2>1. call[w] = Idle
    BY DEF RecordsInit
  <2> QED  BY <2>1 DEF Idle, Asked, Transaction
<1>3. Locks /\ KeysAreUsed
  BY DEF RecordsInit, Locks, KeysAreUsed
<1>4. StoredRowsAreAcceptable
  BY RecordsAssumption DEF RecordsInit, StoredRowsAreAcceptable, Acceptable
<1> QED  BY <1>1, <1>2, <1>3, <1>4 DEF RecordsInv

------------------------------------------------------------------------------
(* Each step keeps the invariant                                            *)

(* A call that holds no lock writes rows that no transaction has read.      *)
LEMMA AnotherWriter ==
    ASSUME RecordsInv, NEW w \in Writers, NEW c \in Calls,
           call' = [call EXCEPT ![w] = c],
           UNCHANGED <<backend, lock>>,
           rows' \in [Keys -> RecordRows \cup {None}],
           \A k \in Keys : rows'[k] # rows[k] => lock[k] = None,
           used' \subseteq Keys, KeysAreUsed', StoredRowsAreAcceptable',
           excused' \subseteq Keys, faults' \in 0..MaxFaults,
           call[w].pc # "updated" \/ backend # "django",
           Asked(w)', Transaction(w)'
    PROVE  RecordsInv'
<1>0. /\ call \in [Writers -> Calls] /\ lock \in [Keys -> Writers \cup {None}]
      /\ None \notin Writers
  BY RecordsAssumption DEF RecordsInv, Typed
<1>1. Typed'
  BY DEF RecordsInv, Typed
<1>2. ASSUME NEW v \in Writers, v # w PROVE call'[v] = call[v]
  BY <1>2 DEF RecordsInv, Typed
<1>3. ASSUME NEW v \in Writers, v # w PROVE Asked(v)' /\ Transaction(v)'
  <2>1. call'[v] = call[v] /\ Asked(v) /\ Transaction(v)
    BY <1>2, <1>3 DEF RecordsInv
  <2>2. Asked(v)' /\ Left(v)' = Left(v)
    BY <2>1 DEF Asked, Left
  <2>3. CASE ~(call[v].pc = "updated" /\ backend = "django")
    <3>1. ~(call'[v].pc = "updated" /\ backend' = "django")
      BY <2>1, <2>3
    <3> QED  BY <2>2, <3>1 DEF Transaction
  <2>4. CASE call[v].pc = "updated" /\ backend = "django"
    <3>1. /\ DOMAIN call[v].got \subseteq Named(call[v].request)
          /\ \A k \in DOMAIN call[v].got :
                /\ lock[k] = v /\ rows[k] # None
                /\ call[v].got[k] = Merged(rows[k], call[v].request.records[k])
          /\ \A k \in DOMAIN call[v].got, j \in Left(v) : k < j
      BY <2>1, <2>4 DEF Transaction
    <3>2. Named(call[v].request) \subseteq Keys
      BY <2>1, <2>4, RequestFacts DEF Asked
    <3>3. \A k \in DOMAIN call[v].got : rows'[k] = rows[k]
      BY <1>0, <3>1, <3>2
    <3> QED  BY <2>1, <2>2, <3>1, <3>3 DEF Transaction
  <2> QED  BY <2>3, <2>4
<1>4. Locks'
  <2>1. ASSUME NEW k \in Keys, lock[k] # None
        PROVE  /\ call'[lock[k]] = call[lock[k]]
               /\ call[lock[k]].pc = "updated" /\ backend = "django" /\ k \in DOMAIN call[lock[k]].got
    <3>1. call[lock[k]].pc = "updated" /\ backend = "django" /\ k \in DOMAIN call[lock[k]].got
      BY <2>1 DEF RecordsInv, Locks
    <3>2. lock[k] \in Writers /\ lock[k] # w
      BY <2>1, <3>1 DEF RecordsInv, Typed
    <3> QED  BY <1>2, <3>1, <3>2
  <2> QED  BY <2>1 DEF Locks
<1> QED  BY <1>1, <1>3, <1>4 DEF RecordsInv

(* What a call does that takes no row and writes none is seen by no other.  *)
LEMMA AnotherCall ==
    ASSUME RecordsInv, NEW w \in Writers, NEW c \in Calls,
           call' = [call EXCEPT ![w] = c],
           UNCHANGED <<backend, rows, lock, used>>,
           excused' \subseteq Keys, faults' \in 0..MaxFaults,
           call[w].pc # "updated" \/ backend # "django",
           Asked(w)', Transaction(w)'
    PROVE  RecordsInv'
<1>1. rows' \in [Keys -> RecordRows \cup {None}] /\ used' \subseteq Keys
  BY DEF RecordsInv, Typed
<1>2. KeysAreUsed' /\ StoredRowsAreAcceptable'
  BY DEF RecordsInv, KeysAreUsed, StoredRowsAreAcceptable
<1> QED  BY <1>1, <1>2, AnotherWriter

LEMMA BeginKeeps ==
    ASSUME RecordsInv, NEW w \in Writers, NEW r \in WriteRequests, BeginWrite(w, r)
    PROVE  RecordsInv'
<1>0. call \in [Writers -> Calls] /\ call[w].pc = "idle"
  BY DEF RecordsInv, Typed, BeginWrite
<1>1. faults' \in 0..MaxFaults
  <2>1. MaxFaults \in Nat
    BY RecordsAssumption
  <2>2. faults' = faults \/ (faults < MaxFaults /\ faults' = faults + 1)
    BY DEF BeginWrite, Fault
  <2> QED  BY <2>1, <2>2 DEF RecordsInv, Typed
<1>2. CASE \E told \in BOOLEAN : Proceed(w, r, told)
  <2>1. PICK told \in BOOLEAN : Proceed(w, r, told)
    BY <1>2
  <2> DEFINE c == [Idle EXCEPT !.pc = r.op, !.request = r, !.pks = Named(r), !.told = told]
  <2>2. /\ c \in Calls /\ c.pc = r.op /\ c.request = r /\ c.at = 1 /\ c.got = <<>>
    BY NothingRead, RequestFacts DEF Idle, Calls, Phases
  <2>3. call' = [call EXCEPT ![w] = c]
    BY <2>1 DEF Proceed
  <2> HIDE DEF c
  <2>4. call'[w] = c
    BY <1>0, <2>3
  <2>5. Asked(w)'
    BY <2>2, <2>4, RequestFacts DEF Asked
  <2>6. Transaction(w)'
    BY <2>2, <2>4, NothingRead DEF Transaction
  <2> QED  BY <1>0, <1>1, <2>2, <2>3, <2>5, <2>6, AnotherCall DEF BeginWrite, RecordsInv, Typed
<1>3. CASE call' = [call EXCEPT ![w].pc = "ended"]
  <2> DEFINE c == [call[w] EXCEPT !.pc = "ended"]
  <2>1. c \in Calls /\ c.pc = "ended"
    BY <1>0 DEF Calls, Phases
  <2>2. call' = [call EXCEPT ![w] = c]
    BY <1>3
  <2> HIDE DEF c
  <2>3. Asked(w)' /\ Transaction(w)'
    BY <1>0, <2>1, <2>2 DEF Asked, Transaction
  <2> QED  BY <1>0, <1>1, <2>1, <2>2, <2>3, AnotherCall DEF BeginWrite, RecordsInv, Typed
<1> QED  BY <1>2, <1>3 DEF BeginWrite

LEMMA PublishKeeps ==
    ASSUME RecordsInv, NEW w \in Writers, Publish(w)
    PROVE  RecordsInv'
<1> DEFINE c == [call[w] EXCEPT !.pc = "ended"]
<1>0. call \in [Writers -> Calls] /\ call[w] \in Calls /\ call[w].pc = "written"
  BY DEF RecordsInv, Typed, Publish
<1>1. c \in Calls /\ c.pc = "ended"
  BY <1>0 DEF Calls, Phases
<1>2. call' = [call EXCEPT ![w] = c]
  BY DEF Publish, Raise
<1>3. faults' \in 0..MaxFaults
  BY RecordsAssumption DEF RecordsInv, Typed, Publish
<1>4. excused' \subseteq Keys
  BY <1>0 DEF RecordsInv, Typed, Publish, Calls
<1> HIDE DEF c
<1>5. Asked(w)' /\ Transaction(w)'
  BY <1>0, <1>1, <1>2 DEF Asked, Transaction
<1> QED  BY <1>0, <1>1, <1>2, <1>3, <1>4, <1>5, AnotherCall DEF Publish

LEMMA FindKeeps ==
    ASSUME RecordsInv, NEW w \in Writers, FindRow(w)
    PROVE  RecordsInv'
<1> DEFINE c == [call[w] EXCEPT !.pc = IF Visible(call[w].request.order[call[w].at]) THEN "found" ELSE "ended"]
<1>0. /\ call \in [Writers -> Calls] /\ call[w] \in Calls /\ call[w].pc = "deleted"
      /\ call[w].request \in WriteRequests /\ call[w].request.op = "deleted"
      /\ call[w].at \in 1..Len(call[w].request.order)
  BY DEF RecordsInv, Typed, FindRow, Asked
<1>1. /\ c \in Calls /\ c.pc \in {"found", "ended"}
      /\ c.request = call[w].request /\ c.at = call[w].at
  BY <1>0 DEF Calls, Phases
<1>2. call' = [call EXCEPT ![w] = c]
  BY DEF FindRow, Raise
<1>3. Deleted(w) \subseteq Keys
  BY <1>0, RequestFacts DEF Deleted
<1>4. excused' \subseteq Keys
  BY <1>3 DEF RecordsInv, Typed, FindRow
<1>5. faults' \in 0..MaxFaults
  BY DEF RecordsInv, Typed, FindRow
<1> HIDE DEF c
<1>6. call'[w] = c
  BY <1>0, <1>2
<1>7. Asked(w)' /\ Transaction(w)'
  BY <1>0, <1>1, <1>6 DEF Asked, Transaction
<1> QED  BY <1>0, <1>1, <1>2, <1>4, <1>5, <1>7, AnotherCall DEF FindRow

(* What a transaction locks next is the least of the keys that it has left. *)
LEMMA NextIsLeast ==
    ASSUME RecordsInv, NEW w \in Writers, Locking(w)
    PROVE  /\ NextKey(w) \in Left(w) /\ NextKey(w) \in Keys /\ NextKey(w) \in Named(call[w].request)
           /\ \A j \in Left(w) : NextKey(w) <= j
           /\ call[w].request \in WriteRequests /\ call[w].request.op = "updated"
<1>1. call[w].request \in WriteRequests /\ call[w].request.op = "updated"
  BY DEF RecordsInv, Asked, Locking
<1>2. Left(w) \in SUBSET Keys /\ Left(w) # {} /\ Left(w) \subseteq Named(call[w].request)
  BY <1>1, RequestFacts DEF Left, Locking
<1>3. \E k \in Left(w) : \A j \in Left(w) : k <= j
  BY <1>2, Least
<1> QED  BY <1>1, <1>2, <1>3 DEF NextKey

(* A transaction ends: its locks are released, the others keep theirs.      *)
LEMMA ReleaseKeeps ==
    ASSUME RecordsInv, NEW w \in Writers, NEW phase \in {"ended", "written"},
           call' = [call EXCEPT ![w].pc = phase], lock' = Released(w),
           UNCHANGED <<backend, used, excused, faults>>,
           rows' \in [Keys -> RecordRows \cup {None}],
           \A k \in Keys : rows'[k] # rows[k] => lock[k] = w /\ rows[k] # None,
           StoredRowsAreAcceptable'
    PROVE  RecordsInv'
<1>1. /\ call \in [Writers -> Calls] /\ lock \in [Keys -> Writers \cup {None}]
      /\ None \notin Writers
  BY RecordsAssumption DEF RecordsInv, Typed
<1>2. [call[w] EXCEPT !.pc = phase] \in Calls
  BY <1>1 DEF Calls, Phases
<1>3. Typed'
  BY <1>1, <1>2 DEF RecordsInv, Typed, Released
<1>4. call'[w].pc = phase
  BY <1>1 DEF Calls
<1>5. ASSUME NEW v \in Writers, v # w PROVE Asked(v)' /\ Transaction(v)'
  <2>1. call'[v] = call[v]
    BY <1>1, <1>5
  <2>2. Asked(v)'
    BY <2>1 DEF RecordsInv, Asked
  <2>9. CASE ~(call[v].pc = "updated" /\ backend = "django")
    <3>1. ~(call'[v].pc = "updated" /\ backend' = "django")
      BY <2>1, <2>9
    <3> QED  BY <2>2, <3>1 DEF Transaction
  <2>3. SUFFICES ASSUME call[v].pc = "updated", backend = "django" PROVE Transaction(v)'
    BY <2>2, <2>9
  <2>4. /\ DOMAIN call[v].got \subseteq Named(call[v].request)
        /\ \A k \in DOMAIN call[v].got :
              /\ lock[k] = v /\ rows[k] # None
              /\ call[v].got[k] = Merged(rows[k], call[v].request.records[k])
        /\ \A k \in DOMAIN call[v].got, j \in Left(v) : k < j
    BY <2>3 DEF RecordsInv, Transaction
  <2>5. Named(call[v].request) \subseteq Keys
    BY <2>3, RequestFacts DEF RecordsInv, Asked
  <2>6. ASSUME NEW k \in DOMAIN call[v].got PROVE lock'[k] = v /\ rows'[k] = rows[k]
    <3>1. k \in Keys /\ lock[k] = v
      BY <2>4, <2>5
    <3> QED  BY <1>5, <3>1 DEF Released
  <2>7. Left(v)' = Left(v)
    BY <2>1 DEF Left
  <2> QED  BY <2>1, <2>4, <2>6, <2>7 DEF Transaction
<1>6. Asked(w)' /\ Transaction(w)'
  BY <1>4 DEF Asked, Transaction
<1>7. Locks'
  <2>1. ASSUME NEW k \in Keys, lock'[k] # None
        PROVE  call'[lock'[k]].pc = "updated" /\ backend = "django" /\ k \in DOMAIN call'[lock'[k]].got
    <3>1. lock'[k] = lock[k] /\ lock[k] # w
      BY <2>1 DEF Released
    <3>2. lock[k] \in Writers /\ call'[lock[k]] = call[lock[k]]
      BY <1>1, <2>1, <3>1
    <3> QED  BY <2>1, <3>1, <3>2 DEF RecordsInv, Locks
  <2> QED  BY <2>1 DEF Locks
<1>8. KeysAreUsed'
  BY DEF RecordsInv, KeysAreUsed
<1> QED  BY <1>3, <1>5, <1>6, <1>7, <1>8 DEF RecordsInv

LEMMA LockKeeps ==
    ASSUME RecordsInv, NEW w \in Writers, LockRow(w)
    PROVE  RecordsInv'
<1> DEFINE k == NextKey(w)
<1>0. /\ call \in [Writers -> Calls] /\ lock \in [Keys -> Writers \cup {None}]
      /\ rows \in [Keys -> RecordRows \cup {None}] /\ None \notin Writers
      /\ call[w] \in Calls /\ call[w].pc = "updated" /\ backend = "django"
  BY RecordsAssumption DEF RecordsInv, Typed, LockRow, Locking
<1>1. /\ k \in Left(w) /\ k \in Keys /\ k \in Named(call[w].request)
      /\ \A j \in Left(w) : k <= j
      /\ call[w].request \in WriteRequests /\ call[w].request.op = "updated"
  BY NextIsLeast DEF LockRow
<1>2. CASE ~Visible(k)
  <2>1. UNCHANGED <<backend, rows, used, excused, faults>> /\ lock' = Released(w) /\ call' = [call EXCEPT ![w].pc = "ended"]
    BY <1>2 DEF LockRow, Raise
  <2>2. StoredRowsAreAcceptable'
    BY <2>1 DEF RecordsInv, StoredRowsAreAcceptable
  <2> QED  BY <1>0, <2>1, <2>2, ReleaseKeeps
<1>3. CASE Visible(k)
  <2> DEFINE c == [call[w] EXCEPT !.got = WithRow(w, k)]
  <2>1. /\ UNCHANGED <<backend, rows, used, excused, faults>>
        /\ lock' = [lock EXCEPT ![k] = w] /\ call' = [call EXCEPT ![w] = c]
        /\ rows[k] # None /\ lock[k] = None
    BY <1>3 DEF LockRow, Visible
  <2>2. DOMAIN call[w].got \subseteq Keys /\ \A j \in DOMAIN call[w].got : call[w].got[j] \in RecordRows
    BY <1>0 DEF Calls, RowsRead
  <2>3. Merged(rows[k], call[w].request.records[k]) \in RecordRows
    BY <1>0, <1>1, <2>1, UpdateFacts, MergedFacts
  <2>4. WithRow(w, k) \in [DOMAIN call[w].got \cup {k} -> RecordRows]
    BY <2>2, <2>3 DEF WithRow
  <2>5. WithRow(w, k) \in RowsRead
    BY <1>1, <2>2, <2>4 DEF RowsRead
  <2>6. /\ c \in Calls /\ c.pc = "updated" /\ c.request = call[w].request
        /\ c.got = WithRow(w, k) /\ c.at = call[w].at
    BY <1>0, <2>5 DEF Calls
  <2> HIDE DEF c, k
  <2>7. call'[w] = c /\ \A v \in Writers : v # w => call'[v] = call[v]
    BY <1>0, <2>1
  <2>8. Typed'
    BY <1>0, <1>1, <2>1, <2>6 DEF RecordsInv, Typed
  <2>9. Asked(w)'
    BY <1>0, <1>1, <2>6, <2>7 DEF Asked
  <2>10. Transaction(w)'
    <3>1. DOMAIN call'[w].got = DOMAIN call[w].got \cup {k}
      BY <2>4, <2>6, <2>7
    <3>2. Left(w)' = Left(w) \ {k}
      BY <2>6, <2>7, <3>1 DEF Left
    <3>3. Transaction(w)
      BY DEF RecordsInv
    <3>4. DOMAIN call'[w].got \subseteq Named(call'[w].request)
      BY <1>0, <1>1, <2>6, <2>7, <3>1, <3>3 DEF Transaction
    <3>5. ASSUME NEW j \in DOMAIN call'[w].got
          PROVE  /\ lock'[j] = w /\ rows'[j] # None
                 /\ call'[w].got[j] = Merged(rows'[j], call'[w].request.records[j])
      <4>1. CASE j = k
        BY <1>0, <1>1, <2>1, <2>6, <2>7, <3>1, <4>1 DEF WithRow
      <4>2. CASE j # k
        <5>1. j \in DOMAIN call[w].got
          BY <3>1, <4>2
        <5>2. lock[j] = w /\ rows[j] # None /\ call[w].got[j] = Merged(rows[j], call[w].request.records[j])
          BY <1>0, <3>3, <5>1 DEF Transaction
        <5>3. lock'[j] = lock[j]
          BY <2>1, <2>2, <4>2, <5>1, <1>0
        <5>4. call'[w].got[j] = call[w].got[j]
          BY <2>6, <2>7, <4>2, <5>1 DEF WithRow
        <5> QED  BY <2>1, <2>6, <2>7, <5>2, <5>3, <5>4
      <4> QED  BY <4>1, <4>2
    <3>6. ASSUME NEW i \in DOMAIN call'[w].got, NEW j \in Left(w)' PROVE i < j
      <4>1. j \in Left(w) /\ j # k /\ k <= j
        BY <1>1, <3>2
      <4>2. j \in Nat /\ k \in Nat
        <5>1. Left(w) \subseteq Keys /\ Keys \subseteq Nat
          BY <1>1, RequestFacts, RecordsAssumption DEF Left
        <5> QED  BY <1>1, <4>1, <5>1
      <4>3. CASE i = k
        BY <4>1, <4>2, <4>3
      <4>4. CASE i # k
        BY <1>0, <3>1, <3>3, <4>1, <4>4 DEF Transaction
      <4> QED  BY <4>3, <4>4
    <3> QED  BY <3>4, <3>5, <3>6 DEF Transaction
  <2>11. ASSUME NEW v \in Writers, v # w PROVE Asked(v)' /\ Transaction(v)'
    <3>1. call'[v] = call[v] /\ Asked(v) /\ Transaction(v)
      BY <2>7, <2>11 DEF RecordsInv
    <3>2. Asked(v)' /\ Left(v)' = Left(v)
      BY <3>1 DEF Asked, Left
    <3>3. ASSUME call[v].pc = "updated", NEW j \in DOMAIN call[v].got PROVE lock'[j] = lock[j]
      <4>1. lock[j] = v
        BY <1>0, <3>1, <3>3 DEF Transaction
      <4>2. j # k
        BY <1>0, <2>1, <4>1
      <4> QED  BY <1>0, <2>1, <4>2
    <3> QED  BY <1>0, <2>1, <3>1, <3>2, <3>3 DEF Transaction
  <2>12. Locks'
    <3>1. ASSUME NEW j \in Keys, lock'[j] # None
          PROVE  call'[lock'[j]].pc = "updated" /\ backend' = "django" /\ j \in DOMAIN call'[lock'[j]].got
      <4>1. CASE j = k
        BY <1>0, <1>1, <2>1, <2>4, <2>6, <2>7, <4>1
      <4>2. CASE j # k
        <5>1. lock'[j] = lock[j] /\ lock[j] \in Writers
          BY <1>0, <2>1, <3>1, <4>2
        <5>2. call[lock[j]].pc = "updated" /\ j \in DOMAIN call[lock[j]].got
          BY <3>1, <5>1 DEF RecordsInv, Locks
        <5>3. CASE lock[j] = w
          BY <1>0, <2>1, <2>4, <2>6, <2>7, <5>1, <5>2, <5>3
        <5>4. CASE lock[j] # w
          BY <1>0, <2>1, <2>7, <5>1, <5>2, <5>4
        <5> QED  BY <5>3, <5>4
      <4> QED  BY <4>1, <4>2
    <3> QED  BY <3>1 DEF Locks
  <2>13. KeysAreUsed' /\ StoredRowsAreAcceptable'
    BY <2>1 DEF RecordsInv, KeysAreUsed, StoredRowsAreAcceptable
  <2> QED  BY <2>8, <2>9, <2>10, <2>11, <2>12, <2>13 DEF RecordsInv
<1> QED  BY <1>2, <1>3

LEMMA SaveKeeps ==
    ASSUME RecordsInv, NEW w \in Writers, Save(w)
    PROVE  RecordsInv'
<1> DEFINE got == call[w].got
<1>0. /\ rows \in [Keys -> RecordRows \cup {None}] /\ call[w] \in Calls
      /\ call[w].pc = "updated" /\ backend = "django"
      /\ UNCHANGED <<backend, used, excused, faults>> /\ lock' = Released(w)
  BY DEF RecordsInv, Typed, Save
<1>1. DOMAIN got \subseteq Keys /\ \A k \in DOMAIN got : got[k] \in RecordRows
  BY <1>0 DEF Calls, RowsRead
<1>2. \A k \in DOMAIN got : lock[k] = w /\ rows[k] # None
  BY <1>0 DEF RecordsInv, Transaction
<1>3. StoredRowsAreAcceptable
  BY DEF RecordsInv
<1> HIDE DEF got
<1>4. CASE \A k \in DOMAIN got : Acceptable(got[k])
  <2>1. /\ rows' = [k \in Keys |-> IF k \in DOMAIN got THEN got[k] ELSE rows[k]]
        /\ call' = [call EXCEPT ![w].pc = "written"]
    BY <1>4 DEF Save, Written, got
  <2>2. rows' \in [Keys -> RecordRows \cup {None}]
    BY <1>0, <1>1, <2>1
  <2>3. \A k \in Keys : rows'[k] # rows[k] => lock[k] = w /\ rows[k] # None
    BY <1>2, <2>1
  <2>4. StoredRowsAreAcceptable'
    BY <1>0, <1>3, <1>4, <2>1 DEF StoredRowsAreAcceptable, Acceptable
  <2> QED  BY <1>0, <2>1, <2>2, <2>3, <2>4, ReleaseKeeps
<1>5. CASE ~\A k \in DOMAIN got : Acceptable(got[k])
  <2>1. rows' = rows /\ call' = [call EXCEPT ![w].pc = "ended"]
    BY <1>5 DEF Save, Raise, got
  <2>2. StoredRowsAreAcceptable'
    BY <1>0, <1>3, <2>1 DEF StoredRowsAreAcceptable
  <2> QED  BY <1>0, <2>1, <2>2, ReleaseKeeps
<1> QED  BY <1>4, <1>5

LEMMA DeleteKeeps ==
    ASSUME RecordsInv, NEW w \in Writers, DeleteRow(w)
    PROVE  RecordsInv'
<1> DEFINE n == Len(call[w].request.order)
           last == call[w].at = n
           c == [call[w] EXCEPT !.at = @ + 1, !.pc = IF last THEN "written" ELSE "deleted"]
           k == call[w].request.order[call[w].at]
<1>0. /\ rows \in [Keys -> RecordRows \cup {None}]
      /\ call \in [Writers -> Calls] /\ call[w] \in Calls /\ call[w].pc = "found"
      /\ call[w].request \in WriteRequests /\ call[w].request.op = "deleted"
      /\ call[w].at \in 1..n
  BY DEF RecordsInv, Typed, DeleteRow, Asked
<1>1. k \in Keys /\ n \in Nat
  BY <1>0, RequestFacts
<1>2. /\ UNCHANGED <<backend, lock, faults, used, excused>>
      /\ lock[k] = None /\ rows' = [rows EXCEPT ![k] = None]
      /\ call' = [call EXCEPT ![w] = c]
  BY DEF DeleteRow
<1>3. /\ c \in Calls /\ c.pc = IF last THEN "written" ELSE "deleted"
      /\ c.request = call[w].request /\ c.at = call[w].at + 1
  <2>1. call[w].at \in Nat /\ call[w].at + 1 \in Nat
    BY <1>0 DEF Calls
  <2>2. (IF last THEN "written" ELSE "deleted") \in Phases
    BY DEF Phases
  <2> HIDE DEF last
  <2> QED  BY <1>0, <2>1, <2>2 DEF Calls
<1> HIDE DEF c, k
<1>4. call'[w] = c
  BY <1>0, <1>2
<1>5. Asked(w)'
  <2>1. ~last => c.at \in 1..n
    BY <1>0, <1>1, <1>3
  <2> QED  BY <1>0, <1>3, <1>4, <2>1 DEF Asked
<1>6. Transaction(w)'
  BY <1>3, <1>4 DEF Transaction
<1>7. /\ rows' \in [Keys -> RecordRows \cup {None}]
      /\ \A j \in Keys : rows'[j] # rows[j] => lock[j] = None
      /\ \A j \in Keys : rows'[j] # None => rows'[j] = rows[j]
  BY <1>0, <1>1, <1>2
<1>8. KeysAreUsed' /\ StoredRowsAreAcceptable'
  BY <1>2, <1>7 DEF RecordsInv, KeysAreUsed, StoredRowsAreAcceptable
<1>9. used' \subseteq Keys /\ excused' \subseteq Keys /\ faults' \in 0..MaxFaults
  BY <1>2 DEF RecordsInv, Typed
<1> QED  BY <1>0, <1>2, <1>3, <1>5, <1>6, <1>7, <1>8, <1>9, AnotherWriter

(* A bulk update or delete of a collection writes rows that are there.      *)
LEMMA ChangedFacts ==
    ASSUME RecordsInv, NEW r \in WriteRequests, r.op \in {"updated", "deleted"}
    PROVE  /\ Reached(r) \subseteq Named(r)
           /\ Changed(r) \in [Keys -> RecordRows \cup {None}]
           /\ \A k \in Keys : Changed(r)[k] # None => rows[k] # None
           /\ \A k \in Reached(r) : rows[k] # None
<1>1. Reached(r) \subseteq Named(r)
  BY DEF Reached, Named
<1>2. \A k \in Reached(r) : rows[k] # None
  <2>1. ASSUME NEW i \in DOMAIN r.order, \A j \in 1..i : rows[r.order[j]] # None
        PROVE  rows[r.order[i]] # None
    <3>1. r.order \in Seq(Keys)
      BY RequestFacts
    <3>2. i \in 1..i
      BY <3>1
    <3> QED  BY <2>1, <3>2
  <2> QED  BY <2>1 DEF Reached
<1>3. ASSUME NEW k \in Reached(r), r.op = "updated" PROVE Merged(rows[k], r.records[k]) \in RecordRows
  <2>1. k \in Named(r) /\ k \in Keys /\ rows[k] \in RecordRows
    BY <1>1, <1>2, RequestFacts DEF RecordsInv, Typed
  <2> QED  BY <1>3, <2>1, UpdateFacts, MergedFacts
<1>4. Changed(r) \in [Keys -> RecordRows \cup {None}]
  BY <1>3 DEF Changed, RecordsInv, Typed
<1>5. \A k \in Keys : Changed(r)[k] # None => rows[k] # None
  BY <1>2 DEF Changed
<1> QED  BY <1>1, <1>2, <1>4, <1>5

LEMMA ContainerKeeps ==
    ASSUME RecordsInv, NEW w \in Writers, WriteContainer(w)
    PROVE  RecordsInv'
<1> DEFINE r == call[w].request
           c == [call[w] EXCEPT !.pc = IF Reached(r) = Named(r) THEN "written" ELSE "ended"]
<1>0. /\ rows \in [Keys -> RecordRows \cup {None}] /\ backend = "memory"
      /\ call \in [Writers -> Calls] /\ call[w] \in Calls
      /\ r \in WriteRequests /\ r.op \in {"updated", "deleted"}
  BY DEF RecordsInv, Typed, WriteContainer, Asked
<1>1. /\ UNCHANGED <<backend, lock, faults, used>> /\ rows' = Changed(r)
      /\ call' = [call EXCEPT ![w] = c]
      /\ excused' = excused \/ excused' = excused \cup Reached(r)
  BY DEF WriteContainer, Written, Raise
<1>2. c \in Calls /\ c.pc \in {"written", "ended"}
  BY <1>0 DEF Calls, Phases
<1> HIDE DEF c, r
<1>3. Asked(w)' /\ Transaction(w)'
  BY <1>0, <1>1, <1>2 DEF Asked, Transaction
<1>4. /\ rows' \in [Keys -> RecordRows \cup {None}] /\ Reached(r) \subseteq Keys
      /\ \A k \in Keys : rows'[k] # None => rows[k] # None
  BY <1>0, <1>1, ChangedFacts, RequestFacts
<1>5. \A k \in Keys : lock[k] = None
  BY <1>0 DEF RecordsInv, Locks
<1>6. KeysAreUsed' /\ StoredRowsAreAcceptable'
  BY <1>0, <1>1, <1>4 DEF RecordsInv, KeysAreUsed, StoredRowsAreAcceptable
<1>7. used' \subseteq Keys /\ excused' \subseteq Keys /\ faults' \in 0..MaxFaults
  BY <1>1, <1>4 DEF RecordsInv, Typed
<1> QED  BY <1>0, <1>1, <1>2, <1>3, <1>4, <1>5, <1>6, <1>7, AnotherWriter

(* The keys of new rows; the database gives none that is taken.             *)
Added(given) == {given[i] : i \in DOMAIN given}

LEMMA NewKeysAreFree ==
    ASSUME NEW r, NEW given \in NewKeys(r)
    PROVE  /\ Added(given) \subseteq Keys
           /\ ~Clash(given) => \A k \in Added(given) : rows[k] = None
  BY DEF NewKeys, Clash, Added

(* A create is refused, or adds all its rows, in place of rows of a         *)
(* collection only.                                                         *)
Refuses(w) ==
    /\ call' = [call EXCEPT ![w].pc = "ended"] /\ UNCHANGED <<rows, used, excused>>

Adds(w, added) ==
    /\ rows' = [k \in Keys |-> IF k \in added THEN Blank ELSE rows[k]]
    /\ used' = used \cup added
    /\ excused' = excused \cup {k \in added \cap used : rows[k] = None}
    /\ call' = [call EXCEPT ![w].pc = "written", ![w].pks = added]

LEMMA CreateSteps ==
    ASSUME NEW w \in Writers, Create(w)
    PROVE  /\ UNCHANGED <<backend, lock, log, watch, faults>>
           /\ Refuses(w) \/ \E added \in SUBSET Keys :
                 Adds(w, added) /\ (backend = "django" => \A k \in added : rows[k] = None)
<1>1. PICK given \in NewKeys(call[w].request) :
        IF backend = "django" /\ Clash(given) THEN Refuses(w) ELSE Adds(w, Added(given))
  BY DEF Create, Added, Refuses, Adds, Raise
<1>2. Added(given) \subseteq Keys /\ (~Clash(given) => \A k \in Added(given) : rows[k] = None)
  BY NewKeysAreFree
<1> QED  BY <1>1, <1>2 DEF Create

LEMMA CreateKeeps ==
    ASSUME RecordsInv, NEW w \in Writers, Create(w)
    PROVE  RecordsInv'
<1>0. /\ rows \in [Keys -> RecordRows \cup {None}] /\ None \notin Writers
      /\ Blank \in RecordRows /\ Blank \notin Unacceptable
      /\ call \in [Writers -> Calls] /\ call[w] \in Calls /\ call[w].pc = "created"
  BY RecordsAssumption DEF RecordsInv, Typed, Create
<1>1. UNCHANGED <<backend, lock, faults>>
  BY CreateSteps
<1>2. CASE Refuses(w)
  <2> DEFINE c == [call[w] EXCEPT !.pc = "ended"]
  <2>1. c \in Calls /\ c.pc = "ended" /\ call' = [call EXCEPT ![w] = c]
    BY <1>0, <1>2 DEF Calls, Phases, Refuses
  <2> HIDE DEF c
  <2>2. Asked(w)' /\ Transaction(w)'
    BY <1>0, <2>1 DEF Asked, Transaction
  <2>3. /\ rows' \in [Keys -> RecordRows \cup {None}]
        /\ \A j \in Keys : rows'[j] # rows[j] => lock[j] = None
    BY <1>0, <1>2 DEF Refuses
  <2>4. /\ KeysAreUsed' /\ StoredRowsAreAcceptable'
        /\ used' \subseteq Keys /\ excused' \subseteq Keys /\ faults' \in 0..MaxFaults
    BY <1>1, <1>2 DEF Refuses, RecordsInv, Typed, KeysAreUsed, StoredRowsAreAcceptable
  <2> QED  BY <1>0, <1>1, <2>1, <2>2, <2>3, <2>4, AnotherWriter
<1>3. ASSUME NEW added \in SUBSET Keys, Adds(w, added), backend = "django" => \A k \in added : rows[k] = None
      PROVE  RecordsInv'
  <2> DEFINE c == [call[w] EXCEPT !.pc = "written", !.pks = added]
  <2>1. c \in Calls /\ c.pc = "written" /\ call' = [call EXCEPT ![w] = c]
    BY <1>0, <1>3 DEF Calls, Phases, Adds
  <2> HIDE DEF c
  <2>2. Asked(w)' /\ Transaction(w)'
    BY <1>0, <2>1 DEF Asked, Transaction
  <2>3. ASSUME NEW k \in added PROVE lock[k] = None
    <3>1. SUFFICES ASSUME lock[k] # None PROVE FALSE
      OBVIOUS
    <3>2. LET v == lock[k] IN /\ v \in Writers /\ call[v].pc = "updated" /\ backend = "django"
                              /\ k \in DOMAIN call[v].got
      BY <3>1 DEF RecordsInv, Typed, Locks
    <3>3. Transaction(lock[k])
      BY <3>2 DEF RecordsInv
    <3> QED  BY <1>3, <3>2, <3>3 DEF Transaction
  <2>4. /\ rows' \in [Keys -> RecordRows \cup {None}]
        /\ \A j \in Keys : rows'[j] # rows[j] => lock[j] = None
        /\ \A j \in Keys : rows'[j] = IF j \in added THEN Blank ELSE rows[j]
    BY <1>0, <1>3, <2>3 DEF Adds
  <2>5. KeysAreUsed'
    BY <1>3, <2>4 DEF RecordsInv, KeysAreUsed, Adds
  <2>6. StoredRowsAreAcceptable'
    BY <1>0, <1>1, <2>4 DEF RecordsInv, StoredRowsAreAcceptable, Acceptable
  <2>7. used' \subseteq Keys /\ excused' \subseteq Keys /\ faults' \in 0..MaxFaults
    BY <1>1, <1>3 DEF RecordsInv, Typed, Adds
  <2> QED  BY <1>0, <1>1, <2>1, <2>2, <2>4, <2>5, <2>6, <2>7, AnotherWriter
<1> QED  BY <1>2, <1>3, CreateSteps

(* The frontend writes nothing.                                             *)
LEMMA WatchKeeps ==
    ASSUME RecordsInv, UNCHANGED <<backend, rows, lock, call, used, excused>>,
           faults' \in 0..MaxFaults
    PROVE  RecordsInv'
<1>1. Typed'
  BY DEF RecordsInv, Typed
<1>2. ASSUME NEW w \in Writers PROVE Asked(w)' /\ Transaction(w)'
  <2>1. Asked(w) /\ Transaction(w)
    BY DEF RecordsInv
  <2>2. Left(w)' = Left(w)
    BY DEF Left
  <2> QED  BY <2>1, <2>2 DEF Asked, Transaction
<1>3. Locks' /\ KeysAreUsed' /\ StoredRowsAreAcceptable'
  BY DEF RecordsInv, Locks, KeysAreUsed, StoredRowsAreAcceptable
<1> QED  BY <1>1, <1>2, <1>3 DEF RecordsInv

LEMMA InductiveRecords == RecordsInv /\ [RecordsNext]_recordVars => RecordsInv'
<1> SUFFICES ASSUME RecordsInv, [RecordsNext]_recordVars PROVE RecordsInv'
  OBVIOUS
<1>0. MaxFaults \in Nat /\ faults \in 0..MaxFaults
  BY RecordsAssumption DEF RecordsInv, Typed
<1>1. ASSUME NEW w \in Writers, Writes(w) PROVE RecordsInv'
  BY <1>1, BeginKeeps, LockKeeps, SaveKeeps, FindKeeps, DeleteKeeps, CreateKeeps, ContainerKeeps, PublishKeeps
  DEF Writes
<1>2. CASE OnEvent
  BY <1>0, <1>2, WatchKeeps DEF OnEvent, Fault
<1>3. CASE TakeEvent
  BY <1>0, <1>3, WatchKeeps DEF TakeEvent
<1>4. CASE Retrieve
  BY <1>0, <1>4, WatchKeeps DEF Retrieve
<1>5. CASE Complete
  BY <1>0, <1>5, WatchKeeps DEF Complete, Fault
<1>6. CASE Unsubscribe
  BY <1>0, <1>6, WatchKeeps DEF Unsubscribe, Fault
<1>7. CASE UNCHANGED recordVars
  BY <1>0, <1>7, WatchKeeps DEF recordVars
<1> QED  BY <1>1, <1>2, <1>3, <1>4, <1>5, <1>6, <1>7 DEF RecordsNext

LEMMA RecordsInductive == RecordsSpec => []RecordsInv
BY InitRecordsInv, InductiveRecords, PTL DEF RecordsSpec

------------------------------------------------------------------------------
(* What follows for every number of keys, writers and write calls           *)

(* Every variable has its type, and only a transaction under way, of rows   *)
(* that it has read, holds locks (django_orm.py 252-290).                   *)
THEOREM RecordsTypeCorrect == RecordsSpec => []RecordsTypeOK
<1>1. RecordsInv => RecordsTypeOK
  <2> SUFFICES ASSUME RecordsInv PROVE RecordsTypeOK
    OBVIOUS
  <2>1. /\ backend \in {"django", "memory"}
        /\ rows \in [Keys -> RecordRows \cup {None}]
        /\ lock \in [Keys -> Writers \cup {None}]
        /\ used \subseteq Keys /\ excused \subseteq Keys
        /\ faults \in 0..MaxFaults
    BY DEF RecordsInv, Typed
  <2>2. ASSUME NEW w \in Writers
        PROVE  /\ call[w].pc \in {"idle", "updated", "deleted", "created", "found", "written", "ended"}
               /\ call[w].request \in WriteRequests \cup {None}
               /\ call[w].pks \subseteq Keys /\ call[w].told \in BOOLEAN
               /\ DOMAIN call[w].got \subseteq Keys
    <3>1. call[w] \in Calls
      BY DEF RecordsInv, Typed
    <3> QED  BY <3>1 DEF Calls, Phases, RowsRead
  <2>3. \A k \in Keys : lock[k] # None => call[lock[k]].pc = "updated" /\ k \in DOMAIN call[lock[k]].got
    BY DEF RecordsInv, Locks
  <2> QED  BY <2>1, <2>2, <2>3 DEF RecordsTypeOK
<1> QED  BY <1>1, RecordsInductive, PTL

(* However the updates of its columns interleave, no stored row breaks a    *)
(* rule over several of them (docs/guide/list-pipeline.md:407).             *)
THEOREM RowsAreAcceptable == RecordsSpec => []StoredRowsAreAcceptable
<1>1. RecordsInv => StoredRowsAreAcceptable
  BY DEF RecordsInv
<1> QED  BY <1>1, RecordsInductive, PTL

(* Of the transactions under way one can go on: the one whose next row is   *)
(* the greatest waits, if at all, for a call that has nothing left to lock  *)
(* or whose next row is free (django_orm.py 257).                           *)
THEOREM NoCircleOfLocks == RecordsSpec => []NoLockCycle
<1>1. RecordsInv => NoLockCycle
  <2> SUFFICES ASSUME RecordsInv, NEW u \in Writers, Locking(u),
                      \A w \in Writers : ~(call[w].pc = "updated" /\ (Locking(w) => ~Blocked(w)))
               PROVE  FALSE
    BY DEF NoLockCycle
  <2> DEFINE S == {NextKey(w) : w \in {v \in Writers : Locking(v)}}
  <2>1. S \in SUBSET Keys /\ S # {}
    BY NextIsLeast
  <2>2. PICK k \in S : \A j \in S : j <= k
    BY <2>1, Greatest
  <2>3. PICK w \in Writers : Locking(w) /\ k = NextKey(w)
    BY <2>2
  <2>4. Blocked(w)
    BY <2>3 DEF Locking
  <2> DEFINE v == lock[k]
  <2>5. v \in Writers /\ call[v].pc = "updated" /\ backend = "django" /\ k \in DOMAIN call[v].got
    BY <2>1, <2>3, <2>4 DEF Blocked, RecordsInv, Typed, Locks
  <2>6. Locking(v)
    BY <2>5
  <2>7. NextKey(v) \in S /\ NextKey(v) \in Left(v)
    BY <2>5, <2>6, NextIsLeast
  <2>8. k < NextKey(v)
    BY <2>5, <2>7 DEF RecordsInv, Transaction
  <2>9. k \in Nat /\ NextKey(v) \in Nat /\ NextKey(v) <= k
    BY <2>1, <2>2, <2>7, RecordsAssumption
  <2> QED  BY <2>8, <2>9
<1> QED  BY <1>1, RecordsInductive, PTL

(* The write actions implement the table of RecordTable: each takes effect  *)
(* at one moment (django_orm.py 252).*)
LEMMA TableStep == RecordsInv /\ [RecordsNext]_recordVars => [WriteTable!TableNext]_<<rows, backend = "django">>
<1> SUFFICES ASSUME RecordsInv, [RecordsNext]_recordVars
             PROVE  [WriteTable!TableNext]_<<rows, backend = "django">>
  OBVIOUS
<1> DEFINE updates == {r.records : r \in {r \in WriteRequests : r.op = "updated"}}
<1>0. /\ rows \in [Keys -> RecordRows \cup {None}]
      /\ None \notin Writers
  BY RecordsAssumption DEF RecordsInv, Typed
<1>1. backend' = backend
  BY DEF RecordsNext, Writes, BeginWrite, LockRow, Save, FindRow, DeleteRow, Create, WriteContainer,
         Publish, OnEvent, TakeEvent, Retrieve, Complete, Unsubscribe, recordVars
<1>2. CASE rows' = rows
  BY <1>1, <1>2
<1>3. ASSUME NEW w \in Writers, Save(w), rows' # rows PROVE WriteTable!TableNext
  <2> DEFINE r == call[w].request
             got == call[w].got
  <2>1. r \in WriteRequests /\ r.op = "updated" /\ backend = "django" /\ Left(w) = {}
    BY <1>3 DEF RecordsInv, Asked, Save, Locking
  <2>2. /\ DOMAIN got = Named(r)
        /\ \A k \in DOMAIN got : rows[k] # None /\ got[k] = Merged(rows[k], r.records[k])
    BY <1>3, <2>1 DEF RecordsInv, Transaction, Save, Left
  <2>3. /\ \A k \in DOMAIN got : Acceptable(got[k])
        /\ rows' = [k \in Keys |-> IF k \in DOMAIN got THEN got[k] ELSE rows[k]]
    BY <1>3 DEF Save
  <2>4. r.records \in updates /\ DOMAIN r.records = Named(r)
    BY <2>1, UpdateFacts
  <2>5. WriteTable!Write(r.records, Named(r))
    BY <2>2, <2>3, <2>4 DEF WriteTable!Write, WriteTable!Stated, Merged
  <2> QED  BY <1>1, <2>4, <2>5 DEF WriteTable!TableNext
<1>4. ASSUME NEW w \in Writers, DeleteRow(w) PROVE WriteTable!TableNext
  <2> DEFINE k == call[w].request.order[call[w].at]
  <2>1. k \in Keys
    BY <1>4, RequestFacts DEF RecordsInv, Asked, DeleteRow
  <2>2. rows' = [rows EXCEPT ![k] = None]
    BY <1>4 DEF DeleteRow
  <2>3. WriteTable!Delete({k})
    BY <1>0, <2>1, <2>2 DEF WriteTable!Delete
  <2> QED  BY <1>1, <2>1, <2>3 DEF WriteTable!TableNext
<1>5. ASSUME NEW w \in Writers, Create(w) PROVE WriteTable!TableNext
  <2>1. CASE Refuses(w)
    <3>1. WriteTable!Add({})
      BY <2>1 DEF Refuses, WriteTable!Add
    <3> QED  BY <1>1, <3>1 DEF WriteTable!TableNext
  <2>2. ASSUME NEW added \in SUBSET Keys, Adds(w, added), backend = "django" => \A k \in added : rows[k] = None
        PROVE  WriteTable!TableNext
    <3>1. Blank # None /\ Acceptable(Blank)
      BY RecordsAssumption DEF Acceptable
    <3>2. WriteTable!Add(added)
      BY <1>0, <2>2, <3>1 DEF WriteTable!Add, Adds
    <3> QED  BY <1>1, <3>2 DEF WriteTable!TableNext
  <2> QED  BY <1>5, <2>1, <2>2, CreateSteps
<1>6. ASSUME NEW w \in Writers, WriteContainer(w) PROVE WriteTable!TableNext
  <2> DEFINE r == call[w].request
  <2>1. /\ r \in WriteRequests /\ r.op \in {"updated", "deleted"} /\ backend = "memory"
        /\ rows' = Changed(r)
    BY <1>6 DEF RecordsInv, Asked, WriteContainer
  <2>2. Reached(r) \subseteq Named(r) /\ Named(r) \subseteq Keys /\ \A k \in Reached(r) : rows[k] # None
    BY <2>1, ChangedFacts, RequestFacts
  <2>3. CASE r.op = "deleted"
    <3>1. WriteTable!Delete(Reached(r))
      BY <2>1, <2>2, <2>3 DEF WriteTable!Delete, Changed
    <3> QED  BY <1>1, <2>2, <3>1 DEF WriteTable!TableNext
  <2>4. CASE r.op = "updated"
    <3>1. r.records \in updates /\ DOMAIN r.records = Named(r)
      BY <2>1, <2>4, UpdateFacts
    <3>2. Changed(r) = [k \in Keys |-> IF k \in Reached(r) THEN Merged(rows[k], r.records[k]) ELSE rows[k]]
      BY <2>4 DEF Changed
    <3>3. WriteTable!Write(r.records, Reached(r))
      BY <2>1, <2>2, <3>1, <3>2 DEF WriteTable!Write, WriteTable!Stated, Merged
    <3>4. Reached(r) \in SUBSET DOMAIN r.records
      BY <2>2, <3>1
    <3> QED  BY <1>1, <3>1, <3>3, <3>4 DEF WriteTable!TableNext
  <2> QED  BY <2>1, <2>3, <2>4
<1>7. CASE rows' # rows
  <2>1. \E w \in Writers : Save(w) \/ DeleteRow(w) \/ Create(w) \/ WriteContainer(w)
    BY <1>7 DEF RecordsNext, Writes, BeginWrite, LockRow, FindRow, Publish,
                OnEvent, TakeEvent, Retrieve, Complete, Unsubscribe, recordVars
  <2> QED  BY <1>3, <1>4, <1>5, <1>6, <1>7, <2>1
<1> QED  BY <1>2, <1>7

(* Every write is atomic, on either backend and whatever interleaves: the   *)
(* write actions refine the abstract table (django_orm.py 252).             *)
THEOREM WritesImplementTheTable == RecordsSpec => WritesAreAtomic
<1>1. RecordsInit => WriteTable!TableInit
  BY RecordsAssumption DEF RecordsInit, WriteTable!TableInit, Acceptable
<1> QED  BY <1>1, TableStep, RecordsInductive, PTL DEF RecordsSpec, WritesAreAtomic, WriteTable!TableSpec

------------------------------------------------------------------------------
(* What the frontend's copy will be: the second invariant                   *)

Events == [op : {"created", "updated", "deleted", "resync"}, pks : SUBSET Keys]

WatchTyped ==
    /\ log \in Seq(Events)
    /\ watch \in [copy : [Keys -> RecordRows \cup {None}], queue : Seq(Events), next : Nat,
                  fetching : Fetches \cup {None}, fetch : {"each", "rows"}, stopped : BOOLEAN]
    /\ watch.next \in 1..(Len(log) + 1)

(* The event of a call will name the rows that it writes; a row that is     *)
(* found has had a key.                                                     *)
Follows(w) ==
    /\ call[w].pc \in {"updated", "deleted", "found"} => call[w].pks = Named(call[w].request)
    /\ call[w].pc = "written" => call[w].request \in WriteRequests
    /\ call[w].pc = "found" => call[w].request.order[call[w].at] \in used /\ backend = "django"
    /\ call[w].pc = "deleted" /\ call[w].at # 1 => backend = "django"

(* Call w has written row k, and its event is still to come.                *)
Pends(w, k) ==
    \/ call[w].pc = "written" /\ k \in call[w].pks
    \/ call[w].pc \in {"deleted", "found"} /\ k \in Deleted(w)

Deletes(w, k) ==
    \/ call[w].pc = "written" /\ call[w].request.op = "deleted" /\ k \in call[w].pks
    \/ call[w].pc \in {"deleted", "found"} /\ k \in Deleted(w)

Gone(k) == rows[k] = None /\ k \in used

(* A row whose deletion is announced does not come back.                    *)
DeletionsAreFinal ==
    \A k \in Keys \ excused :
        \/ \E w \in Writers : Deletes(w, k)
        \/ \E i \in 1..Len(log) : log[i].op = "deleted" /\ k \in log[i].pks
        \/ \E i \in 1..Len(watch.queue) : watch.queue[i].op = "deleted" /\ k \in watch.queue[i].pks
        => Gone(k)

(* An event that names k, or a reload, is still ahead of the copy.          *)
Ahead(k) ==
    \/ \E w \in Writers : Pends(w, k)
    \/ \E i \in watch.next..Len(log) : k \in log[i].pks
    \/ \E i \in 1..Len(watch.queue) : k \in watch.queue[i].pks \/ watch.queue[i].op = "resync"

(* What the copy holds of k when the fetch under way has completed is right.*)
Right(k) ==
    IF watch.fetching # None /\ k \in DOMAIN watch.fetching.got
    THEN watch.fetching.got[k] = rows[k] ELSE watch.copy[k] = rows[k]

Converging ==
    ~watch.stopped =>
        \A k \in Keys \ (Hidden \cup excused) :
            Ahead(k) \/ (watch.fetching # None /\ k \in watch.fetching.left) \/ Right(k)

WatchInv == WatchTyped /\ (\A w \in Writers : Follows(w)) /\ DeletionsAreFinal /\ Converging

LEMMA InitWatchInv == RecordsInit => WatchInv
<1> SUFFICES ASSUME RecordsInit PROVE WatchInv
  OBVIOUS
<1>1. /\ watch.copy = [k \in Keys |-> IF Visible(k) THEN rows[k] ELSE None]
      /\ watch.queue = <<>> /\ watch.next = 1 /\ watch.fetching = None /\ log = <<>>
      /\ rows \in [Keys -> RecordRows \cup {None}]
      /\ watch \in [copy : {watch.copy}, queue : {<<>>},
                    next : {1}, fetching : {None}, fetch : {"each", "rows"}, stopped : {FALSE}]
  BY DEF RecordsInit
<1>2. watch.copy \in [Keys -> RecordRows \cup {None}]
  BY <1>1
<1>3. WatchTyped
  <2>1. /\ watch = [copy |-> watch.copy, queue |-> watch.queue, next |-> watch.next,
                    fetching |-> watch.fetching, fetch |-> watch.fetch, stopped |-> watch.stopped]
        /\ watch.fetch \in {"each", "rows"} /\ watch.stopped \in BOOLEAN /\ watch.next \in Nat
        /\ watch.fetching \in Fetches \cup {None}
    <3> DEFINE R == [copy : {watch.copy}, queue : {<<>>}, next : {1}, fetching : {None},
                     fetch : {"each", "rows"}, stopped : {FALSE}]
    <3>1. ASSUME NEW x \in R
          PROVE  /\ x = [copy |-> x.copy, queue |-> x.queue, next |-> x.next,
                         fetching |-> x.fetching, fetch |-> x.fetch, stopped |-> x.stopped]
                 /\ x.fetch \in {"each", "rows"} /\ x.stopped = FALSE
      OBVIOUS
    <3>2. watch \in R
      BY <1>1
    <3> HIDE DEF R
    <3>3. /\ watch = [copy |-> watch.copy, queue |-> watch.queue, next |-> watch.next,
                      fetching |-> watch.fetching, fetch |-> watch.fetch, stopped |-> watch.stopped]
          /\ watch.fetch \in {"each", "rows"} /\ watch.stopped = FALSE
      BY <3>1, <3>2
    <3>4. watch.next \in Nat /\ watch.fetching \in Fetches \cup {None}
      BY <1>1
    <3> QED  BY <3>3, <3>4
  <2>2. <<>> \in Seq(Events)
    OBVIOUS
  <2>3. watch \in [copy : [Keys -> RecordRows \cup {None}], queue : Seq(Events), next : Nat,
                   fetching : Fetches \cup {None}, fetch : {"each", "rows"}, stopped : BOOLEAN]
    <3>1. watch.queue \in Seq(Events)
      BY <1>1, <2>2
    <3> QED  BY <1>2, <2>1, <3>1
  <2> QED  BY <1>1, <2>2, <2>3 DEF WatchTyped
<1>4. \A w \in Writers : call[w].pc = "idle"
  BY DEF RecordsInit, Idle
<1>5. \A w \in Writers : Follows(w)
  BY <1>4 DEF Follows
<1>6. DeletionsAreFinal
  BY <1>1, <1>4 DEF DeletionsAreFinal, Deletes
<1>7. Converging
  BY <1>1 DEF Converging, Right, Visible
<1> QED  BY <1>3, <1>5, <1>6, <1>7 DEF WatchInv

(* What a step of one call must do for the invariant: announce or excuse    *)
(* the rows that it writes, and write no row again that was deleted.        *)
LEMMA WriterStep ==
    ASSUME RecordsInv, WatchInv, NEW w \in Writers,
           \A v \in Writers : v # w => call'[v] = call[v],
           UNCHANGED <<backend, watch, log>>, excused \subseteq excused', used \subseteq used',
           \A k \in Keys \ excused' :
               /\ rows'[k] # rows[k] \/ Pends(w, k) => Pends(w, k)'
               /\ Gone(k) => rows'[k] = None
               /\ Deletes(w, k)' => Gone(k)',
           Follows(w)'
    PROVE  WatchInv'
<1>1. WatchTyped'
  BY DEF WatchInv, WatchTyped
<1>2. \A v \in Writers : Follows(v)'
  <2>1. ASSUME NEW v \in Writers, v # w PROVE Follows(v)'
    <3>1. call'[v] = call[v] /\ Follows(v)
      BY <2>1 DEF WatchInv
    <3> QED  BY <3>1 DEF Follows
  <2> QED  BY <2>1
<1>3. ASSUME NEW v \in Writers, v # w, NEW k \in Keys
      PROVE  (Pends(v, k)' <=> Pends(v, k)) /\ (Deletes(v, k)' <=> Deletes(v, k))
  <2>1. call'[v] = call[v]
    BY <1>3
  <2> QED  BY <2>1 DEF Pends, Deletes, Deleted
<1>4. DeletionsAreFinal'
  <2> SUFFICES ASSUME NEW k \in Keys \ excused',
                      \/ \E v \in Writers : Deletes(v, k)'
                      \/ \E i \in 1..Len(log) : log[i].op = "deleted" /\ k \in log[i].pks
                      \/ \E i \in 1..Len(watch.queue) : watch.queue[i].op = "deleted" /\ k \in watch.queue[i].pks
               PROVE  Gone(k)'
    BY DEF DeletionsAreFinal
  <2>1. CASE Deletes(w, k)'
    BY <2>1
  <2>2. CASE ~Deletes(w, k)'
    <3>1. Gone(k)
      BY <1>3, <2>2 DEF WatchInv, DeletionsAreFinal
    <3> QED  BY <3>1 DEF Gone
  <2> QED  BY <2>1, <2>2
<1>5. Converging'
  <2> SUFFICES ASSUME ~watch.stopped, NEW k \in Keys \ (Hidden \cup excused')
               PROVE  Ahead(k)' \/ (watch.fetching # None /\ k \in watch.fetching.left) \/ Right(k)'
    BY DEF Converging
  <2>1. Ahead(k) \/ (watch.fetching # None /\ k \in watch.fetching.left) \/ Right(k)
    BY DEF WatchInv, Converging
  <2>2. Ahead(k) => Ahead(k)'
    BY <1>3 DEF Ahead
  <2>3. rows'[k] # rows[k] => Ahead(k)'
    BY DEF Ahead
  <2>4. rows'[k] = rows[k] /\ Right(k) => Right(k)'
    BY DEF Right
  <2> QED  BY <2>1, <2>2, <2>3, <2>4
<1> QED  BY <1>1, <1>2, <1>4, <1>5 DEF WatchInv

(* The steps of a write call keep the second invariant.                     *)
LEMMA BeginFollows ==
    ASSUME RecordsInv, WatchInv, NEW w \in Writers, NEW r \in WriteRequests, BeginWrite(w, r)
    PROVE  WatchInv'
<1>0. call \in [Writers -> Calls] /\ call[w].pc = "idle"
  BY DEF RecordsInv, Typed, BeginWrite
<1>1. \A v \in Writers : v # w => call'[v] = call[v]
  BY <1>0 DEF BeginWrite, Proceed
<1>2. \/ call'[w].pc = "ended"
      \/ call'[w].pc = r.op /\ call'[w].request = r /\ call'[w].at = 1 /\ call'[w].pks = Named(r)
  <2>1. CASE \E told \in BOOLEAN : Proceed(w, r, told)
    <3>1. PICK told \in BOOLEAN : Proceed(w, r, told)
      BY <2>1
    <3>2. call'[w] = [Idle EXCEPT !.pc = r.op, !.request = r, !.pks = Named(r), !.told = told]
      BY <1>0, <3>1 DEF Proceed
    <3> QED  BY <3>2 DEF Idle
  <2>2. CASE call' = [call EXCEPT ![w].pc = "ended"]
    BY <1>0, <2>2 DEF Calls
  <2> QED  BY <2>1, <2>2 DEF BeginWrite
<1>3. r.op \in {"updated", "deleted", "created"}
  BY RequestFacts
<1>4. Follows(w)'
  BY <1>2, <1>3 DEF Follows
<1>5. \A k \in Keys : ~Pends(w, k) /\ ~Deletes(w, k)'
  BY <1>0, <1>2, <1>3 DEF Pends, Deletes, Deleted
<1>6. UNCHANGED <<backend, rows, used, excused, watch, log>>
  BY DEF BeginWrite
<1> QED  BY <1>1, <1>4, <1>5, <1>6, WriterStep DEF Gone

LEMMA LockFollows ==
    ASSUME RecordsInv, WatchInv, NEW w \in Writers, LockRow(w)
    PROVE  WatchInv'
<1>0. call \in [Writers -> Calls] /\ call[w].pc = "updated" /\ Follows(w)
  BY DEF RecordsInv, WatchInv, Typed, LockRow, Locking
<1>1. /\ \A v \in Writers : v # w => call'[v] = call[v]
      /\ call'[w].pc \in {"updated", "ended"} /\ call'[w].pks = call[w].pks
      /\ call'[w].request = call[w].request
  BY <1>0 DEF LockRow, Raise, Calls
<1>2. Follows(w)'
  BY <1>0, <1>1 DEF Follows
<1>3. \A k \in Keys : ~Pends(w, k) /\ ~Deletes(w, k)'
  BY <1>0, <1>1 DEF Pends, Deletes
<1>4. UNCHANGED <<backend, rows, used, excused, watch, log>>
  BY DEF LockRow
<1> QED  BY <1>1, <1>2, <1>3, <1>4, WriterStep DEF Gone

LEMMA SaveFollows ==
    ASSUME RecordsInv, WatchInv, NEW w \in Writers, Save(w)
    PROVE  WatchInv'
<1>0. /\ call \in [Writers -> Calls] /\ call[w].pc = "updated" /\ Follows(w) /\ Transaction(w)
      /\ backend = "django"
      /\ call[w].request \in WriteRequests /\ call[w].request.op = "updated"
  BY DEF RecordsInv, WatchInv, Typed, Save, Asked
<1>1. UNCHANGED <<backend, used, excused, watch, log>> /\ \A v \in Writers : v # w => call'[v] = call[v]
  BY <1>0 DEF Save, Written, Raise
<1>2. CASE rows' = rows /\ call' = [call EXCEPT ![w].pc = "ended"]
  <2>1. call'[w].pc = "ended"
    BY <1>0, <1>2 DEF Calls
  <2>2. Follows(w)' /\ \A k \in Keys : ~Pends(w, k) /\ ~Deletes(w, k)'
    BY <1>0, <2>1 DEF Follows, Pends, Deletes
  <2> QED  BY <1>1, <1>2, <2>2, WriterStep DEF Gone
<1>3. CASE /\ rows' = [k \in Keys |-> IF k \in DOMAIN call[w].got THEN call[w].got[k] ELSE rows[k]]
           /\ call' = [call EXCEPT ![w].pc = "written"]
  <2>1. call'[w].pc = "written" /\ call'[w].pks = call[w].pks /\ call'[w].request = call[w].request
    BY <1>0, <1>3 DEF Calls
  <2>2. Follows(w)' /\ \A k \in Keys : ~Pends(w, k) /\ ~Deletes(w, k)'
    BY <1>0, <2>1 DEF Follows, Pends, Deletes
  <2>3. ASSUME NEW k \in Keys, rows'[k] # rows[k] PROVE Pends(w, k)' /\ rows[k] # None
    <3>1. k \in DOMAIN call[w].got
      BY <1>3, <2>3
    <3>2. k \in call[w].pks /\ rows[k] # None
      BY <1>0, <3>1 DEF Follows, Transaction
    <3> QED  BY <2>1, <3>2 DEF Pends
  <2> QED  BY <1>1, <2>2, <2>3, WriterStep DEF Gone
<1> QED  BY <1>2, <1>3 DEF Save, Written, Raise

LEMMA FindFollows ==
    ASSUME RecordsInv, WatchInv, NEW w \in Writers, FindRow(w)
    PROVE  WatchInv'
<1>0. /\ call \in [Writers -> Calls] /\ call[w].pc = "deleted" /\ Follows(w) /\ WatchInv
      /\ backend = "django"
      /\ call[w].request \in WriteRequests /\ call[w].request.op = "deleted"
      /\ call[w].at \in 1..Len(call[w].request.order)
  BY DEF RecordsInv, WatchInv, Typed, FindRow, Asked
<1>1. /\ UNCHANGED <<backend, rows, used, watch, log>> /\ \A v \in Writers : v # w => call'[v] = call[v]
      /\ call'[w].request = call[w].request /\ call'[w].at = call[w].at /\ call'[w].pks = call[w].pks
  BY <1>0 DEF FindRow, Raise, Calls
<1>2. Deleted(w)' = Deleted(w)
  BY <1>1 DEF Deleted
<1>3. \A k \in Keys \ excused : Deletes(w, k) => Gone(k)
  BY <1>0 DEF WatchInv, DeletionsAreFinal
<1>4. CASE Visible(call[w].request.order[call[w].at])
  <2>1. call'[w].pc = "found" /\ excused' = excused
    BY <1>0, <1>4 DEF FindRow, Calls
  <2>2. call[w].request.order[call[w].at] \in used
    BY <1>0, <1>4, RequestFacts DEF Visible, RecordsInv, KeysAreUsed
  <2>3. Follows(w)'
    BY <1>0, <1>1, <2>1, <2>2 DEF Follows
  <2>4. \A k \in Keys : (Pends(w, k)' <=> Pends(w, k)) /\ (Deletes(w, k)' <=> Deletes(w, k))
    BY <1>0, <1>2, <2>1 DEF Pends, Deletes
  <2> QED  BY <1>1, <1>3, <2>1, <2>3, <2>4, WriterStep DEF Gone
<1>5. CASE ~Visible(call[w].request.order[call[w].at])
  <2>1. call'[w].pc = "ended" /\ excused' = excused \cup Deleted(w)
    BY <1>0, <1>5 DEF FindRow, Raise, Calls
  <2>2. Follows(w)' /\ \A k \in Keys : ~Deletes(w, k)'
    BY <2>1 DEF Follows, Deletes
  <2>3. \A k \in Keys \ excused' : ~Pends(w, k)
    BY <1>0, <2>1 DEF Pends
  <2> QED  BY <1>1, <2>1, <2>2, <2>3, WriterStep DEF Gone
<1> QED  BY <1>4, <1>5

LEMMA DeleteFollows ==
    ASSUME RecordsInv, WatchInv, NEW w \in Writers, DeleteRow(w)
    PROVE  WatchInv'
<1> DEFINE order == call[w].request.order
           k == order[call[w].at]
           last == call[w].at = Len(order)
<1>0. /\ call \in [Writers -> Calls] /\ call[w].pc = "found" /\ Follows(w)
      /\ call[w] \in Calls /\ rows \in [Keys -> RecordRows \cup {None}]
      /\ call[w].request \in WriteRequests /\ call[w].request.op = "deleted"
      /\ call[w].at \in 1..Len(order) /\ order \in Seq(Keys)
  BY RequestFacts DEF RecordsInv, WatchInv, Typed, DeleteRow, Asked
<1>1. k \in Keys /\ k \in used /\ call[w].pks = Named(call[w].request)
  BY <1>0 DEF Follows
<1>2. /\ UNCHANGED <<backend, used, excused, watch, log>> /\ \A v \in Writers : v # w => call'[v] = call[v]
      /\ rows' = [rows EXCEPT ![k] = None]
      /\ call' = [call EXCEPT ![w].at = @ + 1, ![w].pc = IF last THEN "written" ELSE "deleted"]
  BY <1>0 DEF DeleteRow
<1>3. /\ call'[w].pc = IF last THEN "written" ELSE "deleted"
      /\ call'[w].request = call[w].request /\ call'[w].at = call[w].at + 1 /\ call'[w].pks = call[w].pks
  <2> HIDE DEF last, k
  <2>1. call'[w] = [call[w] EXCEPT !.at = @ + 1, !.pc = IF last THEN "written" ELSE "deleted"]
    BY <1>0, <1>2
  <2> QED  BY <1>0, <2>1 DEF Calls
<1>4. /\ \A j \in Keys : rows'[j] = IF j = k THEN None ELSE rows[j]
  BY <1>0, <1>1, <1>2
<1>5. Deleted(w)' = Deleted(w) \cup {k}
  <2>1. ASSUME NEW i PROVE i \in 1..call[w].at <=> i \in 1..(call[w].at - 1) \/ i = call[w].at
    BY <1>0
  <2>2. Deleted(w)' = {order[i] : i \in 1..call[w].at}
    BY <1>0, <1>3 DEF Deleted
  <2> QED  BY <2>1, <2>2 DEF Deleted
<1>6. last => Named(call[w].request) = Deleted(w)'
  <2>1. DOMAIN order = 1..Len(order) /\ {order[i] : i \in 1..Len(order)} \subseteq Keys
    BY <1>0
  <2>2. Named(call[w].request) = {order[i] : i \in 1..Len(order)}
    BY <2>1 DEF Named
  <2>3. Deleted(w)' = {order[i] : i \in 1..call[w].at}
    BY <1>0, <1>3 DEF Deleted
  <2> QED  BY <2>2, <2>3
<1> HIDE DEF k, last
<1>7. Follows(w)'
  BY <1>0, <1>1, <1>2, <1>3 DEF Follows
<1>8. \A j \in Keys \ excused : j \in Deleted(w) => Gone(j)
  BY <1>0 DEF WatchInv, DeletionsAreFinal, Deletes
<1>9. \A j \in Keys : (Pends(w, j)' <=> j \in Deleted(w) \cup {k}) /\ (Deletes(w, j)' <=> j \in Deleted(w) \cup {k})
  BY <1>0, <1>1, <1>3, <1>5, <1>6 DEF Pends, Deletes
<1>10. \A j \in Keys : Pends(w, j) <=> j \in Deleted(w)
  BY <1>0 DEF Pends
<1>11. \A j \in Keys \ excused' : j \in Deleted(w) \cup {k} => Gone(j)'
  BY <1>1, <1>2, <1>4, <1>8 DEF Gone
<1>12. \A j \in Keys \ excused' : Gone(j) => rows'[j] = None
  BY <1>4 DEF Gone
<1>13. \A j \in Keys \ excused' : rows'[j] # rows[j] \/ Pends(w, j) => Pends(w, j)'
  BY <1>4, <1>9, <1>10
<1> QED  BY <1>2, <1>7, <1>9, <1>11, <1>12, <1>13, WriterStep

LEMMA CreateFollows ==
    ASSUME RecordsInv, WatchInv, NEW w \in Writers, Create(w)
    PROVE  WatchInv'
<1>0. /\ call \in [Writers -> Calls] /\ call[w].pc = "created"
      /\ call[w] \in Calls /\ rows \in [Keys -> RecordRows \cup {None}]
      /\ call[w].request \in WriteRequests /\ call[w].request.op = "created"
  BY DEF RecordsInv, Typed, Create, Asked
<1>1. UNCHANGED <<backend, watch, log>>
  BY CreateSteps
<1>2. \A j \in Keys : ~Pends(w, j)
  BY <1>0 DEF Pends
<1>3. CASE Refuses(w)
  <2>1. /\ \A v \in Writers : v # w => call'[v] = call[v]
        /\ call'[w].pc = "ended" /\ UNCHANGED <<rows, used, excused>>
    BY <1>0, <1>3 DEF Calls, Refuses
  <2>2. Follows(w)' /\ \A j \in Keys : ~Deletes(w, j)'
    BY <2>1 DEF Follows, Deletes
  <2> QED  BY <1>1, <1>2, <2>1, <2>2, WriterStep DEF Gone
<1>4. ASSUME NEW added \in SUBSET Keys, Adds(w, added) PROVE WatchInv'
  <2>1. \A j \in Keys : rows'[j] = IF j \in added THEN Blank ELSE rows[j]
    BY <1>0, <1>4 DEF Adds
  <2>2. /\ \A v \in Writers : v # w => call'[v] = call[v]
        /\ call'[w].pc = "written" /\ call'[w].pks = added /\ call'[w].request = call[w].request
    BY <1>0, <1>4 DEF Calls, Adds
  <2>3. Follows(w)'
    BY <1>0, <2>2 DEF Follows
  <2>4. \A j \in Keys : ~Deletes(w, j)' /\ (Pends(w, j)' <=> j \in added)
    BY <1>0, <2>2 DEF Pends, Deletes
  <2>5. /\ \A j \in Keys \ excused' : Gone(j) => rows'[j] = None
        /\ excused \subseteq excused' /\ used \subseteq used'
    BY <1>4, <2>1 DEF Gone, Adds
  <2> QED  BY <1>1, <1>2, <2>1, <2>2, <2>3, <2>4, <2>5, WriterStep
<1> QED  BY <1>3, <1>4, CreateSteps

LEMMA ContainerFollows ==
    ASSUME RecordsInv, WatchInv, NEW w \in Writers, WriteContainer(w)
    PROVE  WatchInv'
<1> DEFINE r == call[w].request
<1>0. /\ call \in [Writers -> Calls] /\ call[w].pc \in {"updated", "deleted"} /\ Follows(w)
      /\ call[w] \in Calls /\ backend = "memory"
      /\ r \in WriteRequests /\ r.op \in {"updated", "deleted"}
  BY DEF RecordsInv, WatchInv, Typed, WriteContainer, Asked
<1>1. /\ UNCHANGED <<backend, used, watch, log>> /\ rows' = Changed(r)
      /\ \A v \in Writers : v # w => call'[v] = call[v]
      /\ call'[w].request = r /\ call'[w].pks = call[w].pks
  BY <1>0 DEF WriteContainer, Written, Raise, Calls
<1>2. \A k \in Keys : ~Pends(w, k)
  BY <1>0 DEF Follows, Pends, Deleted
<1>3. /\ \A k \in Keys : rows'[k] # rows[k] => k \in Reached(r)
      /\ \A k \in Keys : rows'[k] # None => rows[k] # None
      /\ r.op = "deleted" => \A k \in Keys \cap Reached(r) : rows'[k] = None /\ rows[k] # None
  BY <1>0, <1>1, ChangedFacts DEF Changed
<1>4. call[w].pks = Named(r)
  BY <1>0 DEF Follows
<1>5. CASE Reached(r) = Named(r)
  <2>1. call'[w].pc = "written" /\ excused' = excused
    BY <1>0, <1>5 DEF WriteContainer, Written, Calls
  <2>2. Follows(w)'
    BY <1>0, <1>1, <2>1 DEF Follows
  <2>3. \A k \in Keys : /\ (Pends(w, k)' <=> k \in Reached(r))
                        /\ (Deletes(w, k)' <=> k \in Reached(r) /\ r.op = "deleted")
    BY <1>0, <1>1, <1>4, <1>5, <2>1 DEF Pends, Deletes
  <2>4. \A k \in Keys : Deletes(w, k)' => Gone(k)'
    BY <1>1, <1>3, <2>3 DEF Gone, RecordsInv, KeysAreUsed
  <2> HIDE DEF r
  <2> QED  BY <1>1, <1>2, <1>3, <2>1, <2>2, <2>3, <2>4, WriterStep DEF Gone
<1>6. CASE Reached(r) # Named(r)
  <2>1. call'[w].pc = "ended" /\ excused' = excused \cup Reached(r)
    BY <1>0, <1>6 DEF WriteContainer, Raise, Calls
  <2>2. Follows(w)' /\ \A k \in Keys : ~Deletes(w, k)'
    BY <2>1 DEF Follows, Deletes
  <2> HIDE DEF r
  <2> QED  BY <1>1, <1>2, <1>3, <2>1, <2>2, WriterStep DEF Gone
<1> QED  BY <1>5, <1>6

LEMMA PublishFollows ==
    ASSUME RecordsInv, WatchInv, NEW w \in Writers, Publish(w)
    PROVE  WatchInv'
<1> DEFINE event == [op |-> call[w].request.op, pks |-> call[w].pks]
<1>0. /\ call \in [Writers -> Calls] /\ call[w].pc = "written" /\ Follows(w)
      /\ call[w] \in Calls /\ call[w].request \in WriteRequests
  BY DEF RecordsInv, WatchInv, Typed, Publish, Follows
<1>1. /\ UNCHANGED <<backend, rows, used, watch>>
      /\ \A v \in Writers : v # w => call'[v] = call[v]
      /\ call'[w].pc = "ended"
  BY <1>0 DEF Publish, Raise, Calls
<1>2. Follows(w)' /\ \A k \in Keys : ~Deletes(w, k)' /\ ~Pends(w, k)'
  BY <1>1 DEF Follows, Deletes, Pends
<1>3. \A k \in Keys : Pends(w, k) <=> k \in call[w].pks
  BY <1>0 DEF Pends
<1>4. CASE excused' = excused \cup event.pks /\ UNCHANGED log
  BY <1>1, <1>2, <1>3, <1>4, WriterStep DEF Gone
<1>5. CASE log' = Append(log, event) /\ UNCHANGED excused
  <2>0. /\ log \in Seq(Events) /\ Len(log) \in Nat /\ watch.next \in 1..(Len(log) + 1)
        /\ call[w].pks \subseteq Keys
    BY <1>0 DEF WatchInv, WatchTyped, Calls
  <2>1. event \in Events
    BY <1>0, <2>0, RequestFacts DEF Events
  <2>2. /\ event.op = call[w].request.op /\ event.pks = call[w].pks
    OBVIOUS
  <2> HIDE DEF event
  <2>3. /\ log' \in Seq(Events) /\ Len(log') = Len(log) + 1 /\ log'[Len(log) + 1] = event
        /\ \A i \in 1..Len(log) : log'[i] = log[i]
    BY <1>5, <2>0, <2>1
  <2>4. WatchTyped'
    BY <1>1, <2>0, <2>3 DEF WatchInv, WatchTyped
  <2>5. ASSUME NEW v \in Writers, v # w
        PROVE  /\ Follows(v)'
               /\ \A k \in Keys : (Pends(v, k)' <=> Pends(v, k)) /\ (Deletes(v, k)' <=> Deletes(v, k))
    <3>1. call'[v] = call[v] /\ Follows(v)
      BY <1>1, <2>5 DEF WatchInv
    <3> QED  BY <1>1, <3>1 DEF Follows, Pends, Deletes, Deleted
  <2>6. DeletionsAreFinal'
    <3> SUFFICES ASSUME NEW k \in Keys \ excused,
                        \/ \E v \in Writers : Deletes(v, k)'
                        \/ \E i \in 1..Len(log') : log'[i].op = "deleted" /\ k \in log'[i].pks
                        \/ \E i \in 1..Len(watch.queue) : watch.queue[i].op = "deleted" /\ k \in watch.queue[i].pks
                 PROVE  Gone(k)
      BY <1>1, <1>5 DEF DeletionsAreFinal, Gone
    <3>1. CASE \E v \in Writers : Deletes(v, k)'
      BY <1>2, <2>5, <3>1 DEF WatchInv, DeletionsAreFinal
    <3>2. ASSUME NEW i \in 1..Len(log'), log'[i].op = "deleted", k \in log'[i].pks PROVE Gone(k)
      <4>1. CASE i = Len(log) + 1
        <5>1. Deletes(w, k)
          BY <1>0, <2>2, <2>3, <3>2, <4>1 DEF Deletes
        <5> QED  BY <5>1 DEF WatchInv, DeletionsAreFinal
      <4>2. CASE i # Len(log) + 1
        <5>1. i \in 1..Len(log) /\ log'[i] = log[i]
          BY <2>0, <2>3, <4>2
        <5> QED  BY <3>2, <5>1 DEF WatchInv, DeletionsAreFinal
      <4> QED  BY <4>1, <4>2
    <3>3. CASE \E i \in 1..Len(watch.queue) : watch.queue[i].op = "deleted" /\ k \in watch.queue[i].pks
      BY <3>3 DEF WatchInv, DeletionsAreFinal
    <3> QED  BY <3>1, <3>2, <3>3
  <2>7. Converging'
    <3> SUFFICES ASSUME ~watch.stopped, NEW k \in Keys \ (Hidden \cup excused)
                 PROVE  Ahead(k)' \/ (watch.fetching # None /\ k \in watch.fetching.left) \/ Right(k)
      BY <1>1, <1>5 DEF Converging, Right
    <3>1. Ahead(k) \/ (watch.fetching # None /\ k \in watch.fetching.left) \/ Right(k)
      BY DEF WatchInv, Converging
    <3>2. Pends(w, k) => Ahead(k)'
      <4>1. SUFFICES ASSUME Pends(w, k) PROVE Ahead(k)'
        OBVIOUS
      <4>2. k \in log'[Len(log) + 1].pks
        BY <1>3, <2>2, <2>3, <4>1
      <4>3. Len(log) + 1 \in watch'.next..Len(log')
        BY <1>1, <2>0, <2>3
      <4> QED  BY <4>2, <4>3 DEF Ahead
    <3>3. ASSUME NEW i \in watch.next..Len(log), k \in log[i].pks PROVE Ahead(k)'
      <4>1. i \in watch'.next..Len(log') /\ i \in 1..Len(log)
        BY <1>1, <2>0, <2>3
      <4>2. k \in log'[i].pks
        BY <2>3, <3>3, <4>1
      <4> QED  BY <4>1, <4>2 DEF Ahead
    <3>4. ASSUME NEW v \in Writers, v # w, Pends(v, k) PROVE Ahead(k)'
      BY <2>5, <3>4 DEF Ahead
    <3>5. ASSUME \E i \in 1..Len(watch.queue) : k \in watch.queue[i].pks \/ watch.queue[i].op = "resync"
          PROVE  Ahead(k)'
      BY <1>1, <3>5 DEF Ahead
    <3> QED  BY <3>1, <3>2, <3>3, <3>4, <3>5 DEF Ahead
  <2> QED  BY <1>2, <2>4, <2>5, <2>6, <2>7 DEF WatchInv
<1> QED  BY <1>4, <1>5 DEF Publish

(* A step of the frontend: what it still queues to remove is gone.          *)
LEMMA WatchStep ==
    ASSUME RecordsInv, WatchInv, UNCHANGED <<backend, rows, call, log, used, excused>>,
           WatchTyped', Converging',
           \A i \in 1..Len(watch'.queue) :
               \/ watch'.queue[i].op # "deleted"
               \/ \E j \in 1..Len(watch.queue) : watch'.queue[i] = watch.queue[j]
               \/ \E j \in 1..Len(log) : watch'.queue[i] = log[j]
    PROVE  WatchInv'
<1>1. ASSUME NEW w \in Writers PROVE Follows(w)'
  BY DEF WatchInv, Follows
<1>2. \A w \in Writers, k \in Keys : Deletes(w, k)' <=> Deletes(w, k)
  BY DEF Deletes, Deleted
<1>3. DeletionsAreFinal'
  <2> SUFFICES ASSUME NEW k \in Keys \ excused,
                      \/ \E w \in Writers : Deletes(w, k)
                      \/ \E i \in 1..Len(log) : log[i].op = "deleted" /\ k \in log[i].pks
                      \/ \E i \in 1..Len(watch'.queue) : watch'.queue[i].op = "deleted" /\ k \in watch'.queue[i].pks
               PROVE  Gone(k)
    BY <1>2 DEF DeletionsAreFinal, Gone
  <2>1. CASE \E i \in 1..Len(watch'.queue) : watch'.queue[i].op = "deleted" /\ k \in watch'.queue[i].pks
    BY <2>1 DEF WatchInv, DeletionsAreFinal
  <2>2. CASE ~\E i \in 1..Len(watch'.queue) : watch'.queue[i].op = "deleted" /\ k \in watch'.queue[i].pks
    BY <2>2 DEF WatchInv, DeletionsAreFinal
  <2> QED  BY <2>1, <2>2
<1> QED  BY <1>1, <1>3 DEF WatchInv

(* The fields of the frontend's state.                                      *)
LEMMA WatchFacts ==
    ASSUME WatchInv
    PROVE  /\ watch.copy \in [Keys -> RecordRows \cup {None}]
           /\ watch.queue \in Seq(Events) /\ Len(watch.queue) \in Nat
           /\ watch.next \in Nat /\ Len(log) \in Nat /\ log \in Seq(Events)
           /\ watch.next \in 1..(Len(log) + 1)
           /\ watch.fetching \in Fetches \cup {None} /\ watch.fetch \in {"each", "rows"}
           /\ watch.stopped \in BOOLEAN
BY DEF WatchInv, WatchTyped

LEMMA OnEventFollows ==
    ASSUME RecordsInv, WatchInv, OnEvent
    PROVE  WatchInv'
<1> DEFINE skips == watch' = [watch EXCEPT !.next = Len(log) + 1, !.queue = Append(@, Resync)]
           event == IF skips THEN Resync ELSE log[watch.next]
           next == IF skips THEN Len(log) + 1 ELSE watch.next + 1
<1>0. UNCHANGED <<backend, rows, call, log, used, excused>> /\ watch.next <= Len(log)
  BY DEF OnEvent
<1>1. watch' = [watch EXCEPT !.next = next, !.queue = Append(@, event)]
  BY DEF OnEvent
<1>2. event \in Events
  <2>1. Resync \in Events
    BY DEF Resync, Events
  <2>2. watch.next \in 1..Len(log)
    BY <1>0, WatchFacts
  <2>3. log[watch.next] \in Events
    BY <2>2, WatchFacts
  <2> QED  BY <2>1, <2>3
<1>3. next \in watch.next..(Len(log) + 1) /\ next \in 1..(Len(log) + 1) /\ next \in Nat
  BY <1>0, WatchFacts
<1>4. event.op = "resync" \/ (event = log[watch.next] /\ next = watch.next + 1)
  BY DEF Resync
<1> HIDE DEF event, next
<1>5. /\ watch'.next = next /\ watch'.queue = Append(watch.queue, event)
      /\ watch'.copy = watch.copy /\ watch'.fetching = watch.fetching /\ watch'.stopped = watch.stopped
  BY <1>1 DEF WatchInv, WatchTyped
<1>6. /\ watch'.queue \in Seq(Events) /\ Len(watch'.queue) = Len(watch.queue) + 1
      /\ watch'.queue[Len(watch.queue) + 1] = event
      /\ \A i \in 1..Len(watch.queue) : watch'.queue[i] = watch.queue[i]
  BY <1>2, <1>5, WatchFacts
<1>7. WatchTyped'
  BY <1>0, <1>1, <1>2, <1>3, <1>5, <1>6 DEF WatchInv, WatchTyped
<1>8. Converging'
  <2> SUFFICES ASSUME ~watch.stopped, NEW k \in Keys \ (Hidden \cup excused)
               PROVE  Ahead(k)' \/ (watch.fetching # None /\ k \in watch.fetching.left) \/ Right(k)
    BY <1>0, <1>5 DEF Converging, Right
  <2>1. Ahead(k) \/ (watch.fetching # None /\ k \in watch.fetching.left) \/ Right(k)
    BY DEF WatchInv, Converging
  <2>2. Len(watch.queue) + 1 \in 1..Len(watch'.queue) /\ \A i \in 1..Len(watch.queue) : i \in 1..Len(watch'.queue)
    BY <1>6, WatchFacts
  <2>3. CASE event.op = "resync"
    BY <1>6, <2>2, <2>3 DEF Ahead
  <2>4. CASE event = log[watch.next] /\ next = watch.next + 1
    <3>1. ASSUME NEW i \in watch.next..Len(log), k \in log[i].pks PROVE Ahead(k)'
      <4>1. CASE i = watch.next
        BY <1>6, <2>2, <2>4, <3>1, <4>1 DEF Ahead
      <4>2. CASE i # watch.next
        <5>1. i \in watch'.next..Len(log')
          BY <1>0, <1>5, <2>4, <4>2, WatchFacts
        <5> QED  BY <1>0, <3>1, <5>1 DEF Ahead
      <4> QED  BY <4>1, <4>2
    <3>2. ASSUME NEW i \in 1..Len(watch.queue), k \in watch.queue[i].pks \/ watch.queue[i].op = "resync"
          PROVE  Ahead(k)'
      BY <1>6, <2>2, <3>2 DEF Ahead
    <3>3. ASSUME NEW w \in Writers, Pends(w, k) PROVE Ahead(k)'
      <4>1. Pends(w, k)'
        BY <1>0, <3>3 DEF Pends, Deleted
      <4> QED  BY <4>1 DEF Ahead
    <3> QED  BY <2>1, <3>1, <3>2, <3>3 DEF Ahead
  <2> QED  BY <1>4, <2>3, <2>4
<1>9. ASSUME NEW i \in 1..Len(watch'.queue)
      PROVE  \/ watch'.queue[i].op # "deleted"
             \/ \E j \in 1..Len(watch.queue) : watch'.queue[i] = watch.queue[j]
             \/ \E j \in 1..Len(log) : watch'.queue[i] = log[j]
  <2>1. CASE i \in 1..Len(watch.queue)
    BY <1>6, <2>1
  <2>2. CASE i = Len(watch.queue) + 1
    <3>1. watch.next \in 1..Len(log)
      BY <1>0, WatchFacts
    <3> QED  BY <1>4, <1>6, <2>2, <3>1
  <2> QED  BY <1>6, <2>1, <2>2, WatchFacts
<1> QED  BY <1>0, <1>7, <1>8, <1>9, WatchStep

(* A reload gives the copy the rows as they are.                            *)
LEMMA ReloadedFacts ==
    ASSUME RecordsInv, WatchInv
    PROVE  /\ Reloaded.copy \in [Keys -> RecordRows \cup {None}]
           /\ \A k \in Keys \ Hidden : Reloaded.copy[k] = rows[k]
           /\ Reloaded.fetching = None /\ Reloaded.queue = watch.queue /\ Reloaded.next = watch.next
           /\ Reloaded.fetch = watch.fetch /\ Reloaded.stopped = watch.stopped
<1>1. Reloaded.copy = [k \in Keys |-> IF Visible(k) THEN rows[k] ELSE None]
  BY DEF Reloaded, WatchInv, WatchTyped
<1>2. rows \in [Keys -> RecordRows \cup {None}]
  BY DEF RecordsInv, Typed
<1>3. /\ Reloaded.fetching = None /\ Reloaded.queue = watch.queue /\ Reloaded.next = watch.next
      /\ Reloaded.fetch = watch.fetch /\ Reloaded.stopped = watch.stopped
  BY DEF Reloaded, WatchInv, WatchTyped
<1>4. Reloaded.copy \in [Keys -> RecordRows \cup {None}]
  BY <1>1, <1>2
<1>5. \A k \in Keys \ Hidden : Reloaded.copy[k] = rows[k]
  BY <1>1 DEF Visible
<1> QED  BY <1>3, <1>4, <1>5

LEMMA TakeFollows ==
    ASSUME RecordsInv, WatchInv, TakeEvent
    PROVE  WatchInv'
<1> DEFINE event == Head(watch.queue)
           taken == [watch EXCEPT !.queue = Tail(@)]
           started == [left |-> event.pks, got |-> <<>>]
           removed == [k \in Keys |-> IF k \in event.pks THEN None ELSE watch.copy[k]]
<1>0. /\ UNCHANGED <<backend, rows, call, log, used, excused>>
      /\ watch.fetching = None /\ watch.queue # <<>> /\ ~watch.stopped
  BY DEF TakeEvent, Steps
<1>1. /\ event \in Events /\ Tail(watch.queue) \in Seq(Events) /\ event = watch.queue[1]
      /\ 1 \in 1..Len(watch.queue) /\ Len(Tail(watch.queue)) = Len(watch.queue) - 1
      /\ \A i \in 1..Len(Tail(watch.queue)) : Tail(watch.queue)[i] = watch.queue[i + 1]
  BY <1>0, WatchFacts
<1>2. /\ event.op \in {"created", "updated", "deleted", "resync"} /\ event.pks \subseteq Keys
  BY <1>1 DEF Events
<1>3. /\ event.op = "resync" => watch' = [Reloaded EXCEPT !.queue = Tail(@)]
      /\ event.op = "deleted" => watch' = [taken EXCEPT !.copy = removed]
      /\ event.op \notin {"resync", "deleted"} => watch' = [taken EXCEPT !.fetching = started]
  <2>1. taken.copy = watch.copy
    BY DEF WatchInv, WatchTyped
  <2>2. event.op = "deleted" =>
            watch' = [taken EXCEPT !.copy = [k \in Keys |-> IF k \in event.pks THEN None ELSE taken.copy[k]]]
    BY DEF TakeEvent
  <2> QED  BY <2>1, <2>2 DEF TakeEvent
<1> HIDE DEF event
<1>4. started \in Fetches
  <2>1. <<>> \in [{} -> RecordRows \cup {None}]
    OBVIOUS
  <2> QED  BY <1>2, <2>1 DEF Fetches
<1>5. /\ watch'.queue = Tail(watch.queue) /\ watch'.next = watch.next
      /\ watch'.stopped = watch.stopped
      /\ watch' \in [copy : [Keys -> RecordRows \cup {None}], queue : Seq(Events), next : Nat,
                     fetching : Fetches \cup {None}, fetch : {"each", "rows"}, stopped : BOOLEAN]
  <2>1. CASE event.op = "resync"
    <3>1. Reloaded \in [copy : [Keys -> RecordRows \cup {None}], queue : Seq(Events), next : Nat,
                        fetching : Fetches \cup {None}, fetch : {"each", "rows"}, stopped : BOOLEAN]
      <4>1. [k \in Keys |-> IF Visible(k) THEN rows[k] ELSE None] \in [Keys -> RecordRows \cup {None}]
        BY DEF RecordsInv, Typed
      <4> QED  BY <4>1 DEF Reloaded, WatchInv, WatchTyped
    <3>2. watch' = [Reloaded EXCEPT !.queue = Tail(@)]
      BY <1>3, <2>1
    <3> QED  BY <1>1, <3>1, <3>2, ReloadedFacts
  <2>2. CASE event.op = "deleted"
    <3>1. removed \in [Keys -> RecordRows \cup {None}]
      BY WatchFacts
    <3> HIDE DEF removed
    <3> QED  BY <1>1, <1>3, <2>2, <3>1 DEF WatchInv, WatchTyped
  <2>3. CASE event.op \notin {"resync", "deleted"}
    <3> HIDE DEF started
    <3> QED  BY <1>1, <1>3, <1>4, <2>3 DEF WatchInv, WatchTyped
  <2> QED  BY <2>1, <2>2, <2>3
<1>6. WatchTyped'
  BY <1>0, <1>5, WatchFacts DEF WatchTyped
<1>7. Converging'
  <2> SUFFICES ASSUME NEW k \in Keys \ (Hidden \cup excused)
               PROVE  Ahead(k)' \/ (watch'.fetching # None /\ k \in watch'.fetching.left) \/ Right(k)'
    BY <1>0 DEF Converging
  <2>1. Ahead(k) \/ Right(k)
    BY <1>0 DEF WatchInv, Converging
  <2>2. ASSUME Ahead(k) PROVE Ahead(k)' \/ k \in event.pks \/ event.op = "resync"
    <3>1. ASSUME NEW w \in Writers, Pends(w, k) PROVE Ahead(k)'
      <4>1. Pends(w, k)'
        BY <1>0, <3>1 DEF Pends, Deleted
      <4> QED  BY <4>1 DEF Ahead
    <3>2. ASSUME NEW i \in watch.next..Len(log), k \in log[i].pks PROVE Ahead(k)'
      BY <1>0, <1>5, <3>2 DEF Ahead
    <3>3. ASSUME NEW i \in 1..Len(watch.queue), k \in watch.queue[i].pks \/ watch.queue[i].op = "resync", i # 1
          PROVE  Ahead(k)'
      <4>1. i - 1 \in 1..Len(watch'.queue) /\ watch'.queue[i - 1] = watch.queue[i]
        <5>1. i - 1 \in 1..Len(Tail(watch.queue)) /\ (i - 1) + 1 = i
          BY <1>1, <3>3, WatchFacts
        <5> QED  BY <1>1, <1>5, <5>1
      <4> QED  BY <3>3, <4>1 DEF Ahead
    <3> QED  BY <1>1, <2>2, <3>1, <3>2, <3>3 DEF Ahead
  <2>3. CASE event.op = "resync"
    <3>1. watch'.copy[k] = rows[k] /\ watch'.fetching = None
      <4>1. watch' = [Reloaded EXCEPT !.queue = Tail(@)]
        BY <1>3, <2>3
      <4>2. watch'.copy = Reloaded.copy /\ watch'.fetching = Reloaded.fetching
        BY <4>1 DEF Reloaded, WatchInv, WatchTyped
      <4> QED  BY <4>2, ReloadedFacts
    <3> QED  BY <1>0, <3>1 DEF Right
  <2>4. CASE event.op = "deleted"
    <3>1. /\ \A j \in Keys : watch'.copy[j] = IF j \in event.pks THEN None ELSE watch.copy[j]
          /\ watch'.fetching = None
      <4>1. watch'.copy = removed /\ watch'.fetching = None
        <5> HIDE DEF removed
        <5> QED  BY <1>0, <1>3, <2>4 DEF WatchInv, WatchTyped
      <4> QED  BY <4>1
    <3> HIDE DEF removed
    <3>2. CASE k \in event.pks
      <4>1. Gone(k)
        BY <1>1, <2>4, <3>2 DEF WatchInv, DeletionsAreFinal
      <4> QED  BY <1>0, <3>1, <3>2, <4>1 DEF Right, Gone
    <3>3. CASE k \notin event.pks
      BY <1>0, <2>1, <2>2, <2>4, <3>1, <3>3 DEF Right
    <3> QED  BY <3>2, <3>3
  <2>5. CASE event.op \notin {"resync", "deleted"}
    <3>1. watch'.copy = watch.copy /\ watch'.fetching = started
      BY <1>3, <2>5 DEF WatchInv, WatchTyped
    <3>2. watch'.fetching # None /\ watch'.fetching.left = event.pks /\ DOMAIN watch'.fetching.got = {}
      <4>1. None \notin Fetches
        BY RecordsAssumption
      <4> QED  BY <1>4, <3>1, <4>1
    <3> HIDE DEF started
    <3>3. CASE k \in event.pks
      BY <3>2, <3>3
    <3>4. CASE k \notin event.pks
      BY <1>0, <2>1, <2>2, <2>5, <3>1, <3>2, <3>4 DEF Right
    <3> QED  BY <3>3, <3>4
  <2> QED  BY <2>3, <2>4, <2>5
<1>8. ASSUME NEW i \in 1..Len(watch'.queue)
      PROVE  \E j \in 1..Len(watch.queue) : watch'.queue[i] = watch.queue[j]
  <2>1. i + 1 \in 1..Len(watch.queue) /\ watch'.queue[i] = watch.queue[i + 1]
    BY <1>1, <1>5, WatchFacts
  <2> QED  BY <2>1
<1> QED  BY <1>0, <1>6, <1>7, <1>8, WatchStep

(* Steps that leave the queue and the place in the log alone.               *)
LEMMA AheadStays ==
    ASSUME UNCHANGED <<rows, call, log>>, watch'.next = watch.next, watch'.queue = watch.queue, NEW k
    PROVE  Ahead(k)' <=> Ahead(k)
BY DEF Ahead, Pends, Deleted

LEMMA RetrieveFollows ==
    ASSUME RecordsInv, WatchInv, Retrieve
    PROVE  WatchInv'
<1> DEFINE f == watch.fetching
<1>0. /\ UNCHANGED <<backend, rows, call, log, used, excused>>
      /\ f \in Fetches /\ f # None
      /\ rows \in [Keys -> RecordRows \cup {None}]
  BY WatchFacts DEF Retrieve, RecordsInv, Typed
<1>1. PICK ks \in SUBSET f.left :
        watch' = [watch EXCEPT !.fetching =
              [left |-> f.left \ ks,
               got |-> [k \in DOMAIN f.got \cup ks |->
                  IF k \notin ks THEN f.got[k] ELSE IF Visible(k) THEN rows[k] ELSE None]]]
  <2>1. \E ks \in IF watch.fetch = "rows" THEN {f.left} ELSE {{k} : k \in f.left} :
          watch' = [watch EXCEPT !.fetching =
              [left |-> f.left \ ks,
               got |-> [k \in DOMAIN f.got \cup ks |->
                  IF k \notin ks THEN f.got[k] ELSE IF Visible(k) THEN rows[k] ELSE None]]]
    BY DEF Retrieve
  <2>2. (IF watch.fetch = "rows" THEN {f.left} ELSE {{k} : k \in f.left}) \subseteq SUBSET f.left
    OBVIOUS
  <2> QED  BY <2>1, <2>2, Zenon
<1> DEFINE got == [k \in DOMAIN f.got \cup ks |->
                      IF k \notin ks THEN f.got[k] ELSE IF Visible(k) THEN rows[k] ELSE None]
           g == [left |-> f.left \ ks, got |-> got]
<1>2. /\ f = [left |-> f.left, got |-> f.got] /\ f.left \subseteq Keys /\ DOMAIN f.got \subseteq Keys
      /\ \A k \in DOMAIN f.got : f.got[k] \in RecordRows \cup {None}
  BY <1>0 DEF Fetches
<1>3. got \in [DOMAIN f.got \cup ks -> RecordRows \cup {None}]
  BY <1>0, <1>2
<1>4. DOMAIN f.got \cup ks \in SUBSET Keys
  BY <1>2
<1> HIDE DEF got
<1>5. g \in Fetches /\ g # None
  <2>1. got \in UNION {[js -> RecordRows \cup {None}] : js \in SUBSET Keys}
    BY <1>3, <1>4
  <2>2. g \in Fetches
    BY <1>2, <2>1 DEF Fetches
  <2> QED  BY <2>2, RecordsAssumption
<1>6. /\ watch'.fetching = g /\ watch'.copy = watch.copy /\ watch'.queue = watch.queue
      /\ watch'.next = watch.next /\ watch'.stopped = watch.stopped /\ watch'.fetch = watch.fetch
      /\ watch' = [watch EXCEPT !.fetching = g]
  <2>3. watch' = [watch EXCEPT !.fetching = g]
    BY <1>1 DEF got
  <2> HIDE DEF g
  <2> QED  BY <2>3 DEF WatchInv, WatchTyped
<1> HIDE DEF g
<1>7. WatchTyped'
  BY <1>0, <1>5, <1>6 DEF WatchInv, WatchTyped
<1>8. Converging'
  <2> SUFFICES ASSUME ~watch.stopped, NEW k \in Keys \ (Hidden \cup excused)
               PROVE  Ahead(k)' \/ k \in g.left \/ Right(k)'
    BY <1>0, <1>5, <1>6 DEF Converging
  <2>1. Ahead(k) \/ k \in f.left \/ Right(k)
    BY <1>0 DEF WatchInv, Converging
  <2>2. Ahead(k)' <=> Ahead(k)
    BY <1>0, <1>6, AheadStays
  <2>3. g.left = f.left \ ks /\ g.got = got /\ DOMAIN got = DOMAIN f.got \cup ks
    BY <1>3 DEF g
  <2>4. CASE k \in ks
    <3>1. got[k] = rows[k]
      BY <2>4 DEF got, Visible
    <3> QED  BY <1>0, <1>5, <1>6, <2>3, <2>4, <3>1 DEF Right
  <2>5. CASE k \notin ks
    <3>1. k \in DOMAIN f.got => got[k] = f.got[k]
      BY <2>5 DEF got
    <3>2. Right(k) => Right(k)'
      BY <1>0, <1>5, <1>6, <2>3, <2>5, <3>1 DEF Right
    <3> QED  BY <2>1, <2>2, <2>3, <2>5, <3>2
  <2> QED  BY <2>4, <2>5
<1> QED  BY <1>0, <1>6, <1>7, <1>8, WatchStep

LEMMA CompleteFollows ==
    ASSUME RecordsInv, WatchInv, Complete
    PROVE  WatchInv'
<1> DEFINE f == watch.fetching
           filled == [k \in Keys |-> IF watch.stopped \/ k \notin DOMAIN f.got
                                     THEN watch.copy[k] ELSE f.got[k]]
           done == watch' = [watch EXCEPT !.copy = filled, !.fetching = None]
           failed == watch' = IF watch.stopped THEN [watch EXCEPT !.fetching = None] ELSE Reloaded
<1>0. /\ UNCHANGED <<backend, rows, call, log, used, excused>>
      /\ f \in Fetches /\ f # None
  BY WatchFacts DEF Complete
<1>1. (f.left = {} /\ done) \/ failed
  BY DEF Complete
<1>2. \A k \in DOMAIN f.got : f.got[k] \in RecordRows \cup {None}
  BY <1>0 DEF Fetches
<1>3. filled \in [Keys -> RecordRows \cup {None}]
  BY <1>2, WatchFacts
<1>4. \A k \in Keys : filled[k] = IF watch.stopped \/ k \notin DOMAIN f.got THEN watch.copy[k] ELSE f.got[k]
  OBVIOUS
<1> HIDE DEF filled
<1>5. /\ watch'.queue = watch.queue /\ watch'.next = watch.next /\ watch'.stopped = watch.stopped
      /\ watch'.fetching = None
      /\ watch' \in [copy : [Keys -> RecordRows \cup {None}], queue : Seq(Events), next : Nat,
                     fetching : Fetches \cup {None}, fetch : {"each", "rows"}, stopped : BOOLEAN]
  <2>1. CASE done
    BY <1>3, <2>1 DEF WatchInv, WatchTyped
  <2>2. CASE failed /\ watch.stopped
    BY <2>2 DEF WatchInv, WatchTyped
  <2>3. CASE failed /\ ~watch.stopped
    <3>1. [k \in Keys |-> IF Visible(k) THEN rows[k] ELSE None] \in [Keys -> RecordRows \cup {None}]
      BY DEF RecordsInv, Typed
    <3> QED  BY <2>3, <3>1 DEF Reloaded, WatchInv, WatchTyped
  <2> QED  BY <1>1, <2>1, <2>2, <2>3
<1>6. WatchTyped'
  BY <1>0, <1>5, WatchFacts DEF WatchTyped
<1>7. Converging'
  <2> SUFFICES ASSUME ~watch.stopped, NEW k \in Keys \ (Hidden \cup excused)
               PROVE  Ahead(k)' \/ watch'.copy[k] = rows[k]
    BY <1>0, <1>5 DEF Converging, Right
  <2>1. Ahead(k)' <=> Ahead(k)
    BY <1>0, <1>5, AheadStays
  <2>2. CASE f.left = {} /\ done
    <3>1. watch'.copy = filled
      BY <2>2 DEF WatchInv, WatchTyped
    <3>2. Ahead(k) \/ Right(k)
      BY <2>2 DEF WatchInv, Converging
    <3> QED  BY <1>0, <1>4, <2>1, <3>1, <3>2 DEF Right
  <2>3. CASE failed
    BY <2>3, ReloadedFacts
  <2> QED  BY <1>1, <2>2, <2>3
<1> QED  BY <1>0, <1>5, <1>6, <1>7, WatchStep

LEMMA UnsubscribeFollows ==
    ASSUME RecordsInv, WatchInv, Unsubscribe
    PROVE  WatchInv'
<1>1. UNCHANGED <<backend, rows, call, log, used, excused>> /\ watch' = [watch EXCEPT !.stopped = TRUE]
  BY DEF Unsubscribe
<1>2. watch'.stopped /\ watch'.queue = watch.queue /\ watch'.next = watch.next
  BY <1>1 DEF WatchInv, WatchTyped
<1>3. WatchTyped' /\ Converging'
  BY <1>1, <1>2 DEF WatchInv, WatchTyped, Converging
<1> QED  BY <1>1, <1>2, <1>3, WatchStep

LEMMA InductiveWatch == RecordsInv /\ WatchInv /\ [RecordsNext]_recordVars => WatchInv'
<1> SUFFICES ASSUME RecordsInv, WatchInv, [RecordsNext]_recordVars PROVE WatchInv'
  OBVIOUS
<1>1. ASSUME NEW w \in Writers, Writes(w) PROVE WatchInv'
  BY <1>1, BeginFollows, LockFollows, SaveFollows, FindFollows, DeleteFollows, CreateFollows,
     ContainerFollows, PublishFollows
  DEF Writes
<1>2. CASE UNCHANGED recordVars
  <2>1. UNCHANGED <<backend, rows, call, log, used, excused, watch>>
    BY <1>2 DEF recordVars
  <2>2. WatchTyped'
    BY <2>1 DEF WatchInv, WatchTyped
  <2>3. \A k \in Keys : (Ahead(k)' <=> Ahead(k)) /\ (Right(k)' <=> Right(k))
    BY <2>1, AheadStays DEF Right
  <2>4. Converging'
    BY <2>1, <2>3 DEF WatchInv, Converging
  <2> QED  BY <2>1, <2>2, <2>4, WatchStep
<1> QED  BY <1>1, <1>2, OnEventFollows, TakeFollows, RetrieveFollows, CompleteFollows, UnsubscribeFollows
         DEF RecordsNext

LEMMA WatchInductive == RecordsSpec => [](RecordsInv /\ WatchInv)
BY InitRecordsInv, InitWatchInv, InductiveRecords, InductiveWatch, PTL DEF RecordsSpec

(* A frontend that has handed on every event, with no call under way, has   *)
(* the rows of the table, whatever order the events of two calls came in,   *)
(* whatever was written while it read, and whichever reads failed; except   *)
(* for keys written without an event or given to a second row.              *)
THEOREM TheCopyConverges == RecordsSpec => []WatchConverges
<1>1. RecordsInv /\ WatchInv => WatchConverges
  <2> SUFFICES ASSUME RecordsInv, WatchInv,
                      \A w \in Writers : call[w].pc \in {"idle", "ended"},
                      watch.next > Len(log), watch.queue = <<>>, watch.fetching = None, ~watch.stopped,
                      NEW k \in Keys \ (Hidden \cup excused)
               PROVE  watch.copy[k] = rows[k]
    BY DEF WatchConverges
  <2>1. Ahead(k) \/ Right(k)
    BY DEF WatchInv, Converging
  <2>2. ~Ahead(k)
    <3>1. \A w \in Writers : ~Pends(w, k)
      BY DEF Pends
    <3>2. watch.next..Len(log) = {} /\ 1..Len(watch.queue) = {}
      BY WatchFacts
    <3> QED  BY <3>1, <3>2 DEF Ahead
  <2> QED  BY <2>1, <2>2 DEF Right
<1> QED  BY <1>1, WatchInductive, PTL

(* After unsubscribe() nothing reaches the copy, neither an event that was  *)
(* queued before nor a fetch that ends later (changes.ts 143-145).          *)
THEOREM NothingAfterUnsubscribe == RecordsSpec => NoCallbackAfterUnsubscribe
<1>1. WatchInv /\ [RecordsNext]_recordVars => [watch.stopped => watch'.copy = watch.copy]_recordVars
  <2> SUFFICES ASSUME WatchInv, RecordsNext, watch.stopped PROVE watch'.copy = watch.copy
    OBVIOUS
  <2>1. CASE \E w \in Writers : Writes(w)
    BY <2>1 DEF Writes, BeginWrite, LockRow, Save, FindRow, DeleteRow, Create, WriteContainer, Publish
  <2>2. CASE OnEvent
    BY <2>2 DEF OnEvent, WatchInv, WatchTyped
  <2>3. CASE TakeEvent
    BY <2>3 DEF TakeEvent, Steps
  <2>4. CASE Retrieve
    <3>1. \E x : watch' = [watch EXCEPT !.fetching = x]
      BY <2>4 DEF Retrieve, WatchInv, WatchTyped
    <3> QED  BY <3>1 DEF WatchInv, WatchTyped
  <2>5. CASE Complete
    <3>1. CASE watch' = [watch EXCEPT
                 !.copy = [k \in Keys |-> IF watch.stopped \/ k \notin DOMAIN watch.fetching.got
                                          THEN @[k] ELSE watch.fetching.got[k]],
                 !.fetching = None]
      <4>1. watch'.copy = [k \in Keys |-> watch.copy[k]]
        BY <3>1 DEF WatchInv, WatchTyped
      <4> QED  BY <4>1, WatchFacts
    <3>2. CASE watch' = [watch EXCEPT !.fetching = None]
      BY <3>2 DEF WatchInv, WatchTyped
    <3> QED  BY <2>5, <3>1, <3>2 DEF Complete
  <2>6. CASE Unsubscribe
    BY <2>6 DEF Unsubscribe
  <2> QED  BY <2>1, <2>2, <2>3, <2>4, <2>5, <2>6 DEF RecordsNext
<1> QED  BY <1>1, WatchInductive, PTL DEF RecordsSpec, NoCallbackAfterUnsubscribe
===============================================================================
