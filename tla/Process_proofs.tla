---------------------------- MODULE Process_proofs -----------------------------
(* Proofs about what a server or a worker process keeps for its requests:   *)
(* the windows of the rate limiter, the contexts and their lazy values, and *)
(* the executor of a worker, for any values of their constants.             *)
EXTENDS RateLimiter, Contexts, Executor, FiniteSetTheorems, SequenceTheorems, TLAPS

------------------------------------------------------------------------------
(* RateLimiter. The parts of its invariant are operators of a history H, so *)
(* that a step is a statement about two histories.                          *)

WindowRecords == [count : 0..(ForeignCount + MaxHits), at : (0 - 1)..(MaxNow + Window)]

(* Hit i was counted at place q for key k.                                  *)
At(H, q, k, i) == H[i].place = q /\ H[i].key = k

First(H, i) == \A j \in DOMAIN H : H[j].key = H[i].key /\ H[j].place = H[i].place => j >= i

(* When the window that is stored at place q began.                         *)
SinceOf(q, w) == IF q = "redis" THEN w.at - Window ELSE w.at

(* At time t: a request falls into its window, and its count decides.       *)
WellCounted(H, redis, t, i) ==
    /\ H[i].since <= H[i].time /\ H[i].time < H[i].since + Window /\ H[i].time <= t
    /\ H[i].allowed <=> H[i].count <= H[i].limit
    /\ H[i].place = "redis" <=> redis
    /\ \A j \in DOMAIN H : j <= i => H[j].time <= H[i].time

(* The windows of a key do not overlap, and count each request once.        *)
Apart(H, i, j) ==
    At(H, H[i].place, H[i].key, j) =>
        /\ H[i].since = H[j].since /\ H[i].count = H[j].count => i = j
        /\ \/ H[i].since = H[j].since
           \/ H[i].since + Window <= H[j].since
           \/ H[j].since + Window <= H[i].since

(* The n-th of the window is one of the requests before m, or came with the *)
(* key that Redis already had.                                              *)
Slot(H, redis, q, k, since, n, m) ==
    \/ \E j \in DOMAIN H : j < m /\ At(H, q, k, j) /\ H[j].since = since /\ H[j].count = n
    \/ /\ n <= ForeignCount /\ redis
       /\ \E j \in DOMAIN H : j <= m /\ At(H, q, k, j) /\ H[j].since = since /\ First(H, j)

Filled(H, redis, i) ==
    \A n \in 1..(H[i].count - 1) : Slot(H, redis, H[i].place, H[i].key, H[i].since, n, i)

HitsInv(H, redis, t) ==
    /\ \A i \in DOMAIN H : WellCounted(H, redis, t, i) /\ Filled(H, redis, i)
    /\ \A i, j \in DOMAIN H : Apart(H, i, j)

(* What is stored for key k at place q is its last window, or nothing once  *)
(* that is over.                                                            *)
Nothing(H, t, q, k, w) ==
    /\ q # "redis" => w = NoWindow
    /\ w.count \in {0, ForeignCount}
    /\ \A i \in DOMAIN H : At(H, q, k, i) => q # "redis" /\ H[i].since + Window <= t

LastWindow(H, redis, t, q, k, w) ==
    /\ SinceOf(q, w) \in 0..t /\ w.count > 0
    /\ \A i \in DOMAIN H :
          At(H, q, k, i) => \/ H[i].since = SinceOf(q, w) /\ H[i].count <= w.count
                            \/ H[i].since + Window <= SinceOf(q, w)
    /\ \A n \in 1..w.count : Slot(H, redis, q, k, SinceOf(q, w), n, Len(H) + 1)

Current(H, redis, t, q, k, w) ==
    /\ w \in WindowRecords /\ w.count <= ForeignCount + Len(H)
    /\ IF w.at = 0 - 1 THEN Nothing(H, t, q, k, w) ELSE LastWindow(H, redis, t, q, k, w)

(* The n-th request of the window that began at b is the next one.          *)
Continues(H, redis, q, k, b, n) ==
    /\ n <= ForeignCount + Len(H) + 1
    /\ \A i \in DOMAIN H :
          At(H, q, k, i) => (H[i].since = b /\ H[i].count < n) \/ H[i].since + Window <= b
    /\ \A m \in 1..(n - 1) :
          \/ Slot(H, redis, q, k, b, m, Len(H) + 1)
          \/ m <= ForeignCount /\ redis /\ \A i \in DOMAIN H : ~At(H, q, k, i)

(* A process prunes once per window.                                        *)
Forgets(p) ==
    /\ nextPrune[p] <= now + Window
    /\ \A k \in LimitKeys : windows[p][k] = NoWindow \/ nextPrune[p] - windows[p][k].at < 2 * Window
    /\ \A i \in DOMAIN hits : hits[i].place = p => hits[i].time < nextPrune[p]

RateInv ==
    /\ RateTypeOK
    /\ HitsInv(hits, inRedis, now)
    /\ \A q \in Places, k \in LimitKeys : Current(hits, inRedis, now, q, k, windows[q][k])
    /\ ~inRedis => \A p \in Limiters : Forgets(p)
------------------------------------------------------------------------------
LEMMA RateAssumed ==
    /\ ForeignCount \in Nat /\ Window \in Nat /\ Window > 0 /\ MaxNow \in Nat /\ MaxHits \in Nat
    /\ Limits \subseteq Nat /\ "redis" \notin Limiters
BY RateLimiterAssumption

LEMMA HitTypes ==
    ASSUME NEW h \in HitRecords
    PROVE  /\ h.time \in Nat /\ h.since \in Nat /\ h.count \in Nat /\ h.count > 0 /\ h.limit \in Nat
           /\ h.place \in Places /\ h.key \in LimitKeys /\ h.allowed \in BOOLEAN
<1>1. /\ h.time \in 0..MaxNow /\ h.since \in 0..MaxNow /\ h.count \in 1..(ForeignCount + MaxHits)
      /\ h.limit \in Limits /\ h.place \in Places /\ h.key \in LimitKeys /\ h.allowed \in BOOLEAN
  BY DEF HitRecords
<1>2. ForeignCount + MaxHits \in Nat /\ MaxNow \in Nat
  BY RateAssumed
<1>3. h.time \in Nat /\ h.since \in Nat /\ h.count \in Nat /\ h.count > 0
  BY <1>1, <1>2
<1>4. h.limit \in Nat
  BY <1>1, RateAssumed
<1> QED  BY <1>1, <1>3, <1>4

LEMMA HistoryTypes ==
    ASSUME NEW H \in Seq(HitRecords)
    PROVE  /\ Len(H) \in Nat /\ DOMAIN H = 1..Len(H)
           /\ \A i \in DOMAIN H :
                 /\ i \in Nat /\ i > 0 /\ i <= Len(H) /\ H[i] \in HitRecords
                 /\ H[i].time \in Nat /\ H[i].since \in Nat /\ H[i].count \in Nat /\ H[i].count > 0
                 /\ H[i].limit \in Nat /\ H[i].place \in Places /\ H[i].key \in LimitKeys
                 /\ H[i].allowed \in BOOLEAN
<1>1. Len(H) \in Nat /\ DOMAIN H = 1..Len(H) /\ \A i \in DOMAIN H : H[i] \in HitRecords
  OBVIOUS
<1>2. \A i \in DOMAIN H : i \in Nat /\ i > 0 /\ i <= Len(H)
  BY <1>1
<1> QED  BY <1>1, <1>2, HitTypes

LEMMA WindowTypes ==
    ASSUME NEW w \in WindowRecords
    PROVE  w.count \in Nat /\ w.at \in Int /\ w.at >= 0 - 1 /\ (w.at # 0 - 1 => w.at \in Nat)
<1>1. w.count \in 0..(ForeignCount + MaxHits) /\ w.at \in (0 - 1)..(MaxNow + Window)
  BY DEF WindowRecords
<1> QED  BY <1>1, RateAssumed

(* A history grows at its end.                                              *)
LEMMA Appended ==
    ASSUME NEW H \in Seq(HitRecords), NEW h \in HitRecords, NEW G, G = Append(H, h)
    PROVE  /\ G \in Seq(HitRecords) /\ Len(G) = Len(H) + 1
           /\ Len(H) + 1 \in DOMAIN G /\ Len(H) + 1 \notin DOMAIN H
           /\ DOMAIN G = DOMAIN H \cup {Len(H) + 1}
           /\ G[Len(H) + 1] = h /\ \A i \in DOMAIN H : G[i] = H[i]
<1>1. G \in Seq(HitRecords) /\ Len(G) = Len(H) + 1 /\ Len(H) \in Nat
      /\ DOMAIN H = 1..Len(H) /\ DOMAIN G = 1..(Len(H) + 1)
      /\ G[Len(H) + 1] = h /\ \A i \in 1..Len(H) : G[i] = H[i]
  OBVIOUS
<1> QED  BY <1>1

(* A slot stays filled.                                                     *)
LEMMA SlotStays ==
    ASSUME NEW H \in Seq(HitRecords), NEW h \in HitRecords, NEW G, G = Append(H, h), NEW redis \in BOOLEAN,
           NEW q, NEW k, NEW since, NEW n, NEW m \in Nat, NEW l \in Nat, m <= l,
           Slot(H, redis, q, k, since, n, m)
    PROVE  Slot(G, redis, q, k, since, n, l)
<1>1. \A i \in DOMAIN H : i \in DOMAIN G /\ G[i] = H[i] /\ i \in Nat /\ i <= Len(H)
  BY Appended, HistoryTypes
<1>2. CASE \E j \in DOMAIN H : j < m /\ At(H, q, k, j) /\ H[j].since = since /\ H[j].count = n
  <2>1. PICK j \in DOMAIN H : j < m /\ At(H, q, k, j) /\ H[j].since = since /\ H[j].count = n
    BY <1>2
  <2>2. j < l /\ At(G, q, k, j) /\ G[j].since = since /\ G[j].count = n
    BY <1>1, <2>1 DEF At
  <2> QED  BY <1>1, <2>2 DEF Slot
<1>3. CASE /\ n <= ForeignCount /\ redis
           /\ \E j \in DOMAIN H : j <= m /\ At(H, q, k, j) /\ H[j].since = since /\ First(H, j)
  <2>1. PICK j \in DOMAIN H : j <= m /\ At(H, q, k, j) /\ H[j].since = since /\ First(H, j)
    BY <1>3
  <2>2. j <= l /\ At(G, q, k, j) /\ G[j].since = since
    BY <1>1, <2>1 DEF At
  <2>3. First(G, j)
    BY <1>1, <2>1, Appended, HistoryTypes DEF First
  <2> QED  BY <1>1, <1>3, <2>2, <2>3 DEF Slot
<1> QED  BY <1>2, <1>3 DEF Slot

(* A request that is counted as the next of its window keeps the history    *)
(* what it was.                                                             *)
LEMMA HitKeepsHistory ==
    ASSUME NEW H \in Seq(HitRecords), NEW h \in HitRecords, NEW G, G = Append(H, h), NEW redis \in BOOLEAN,
           HitsInv(H, redis, h.time), Continues(H, redis, h.place, h.key, h.since, h.count),
           h.since <= h.time, h.time < h.since + Window, h.allowed <=> h.count <= h.limit,
           h.place = "redis" <=> redis
    PROVE  HitsInv(G, redis, h.time) /\ Filled(G, redis, Len(H) + 1)
<1>0. PICK m \in Nat : m = Len(H) + 1
  BY HistoryTypes
<1>1. /\ m \in DOMAIN G /\ m \notin DOMAIN H /\ DOMAIN G = DOMAIN H \cup {m} /\ G[m] = h
      /\ \A i \in DOMAIN H : i \in DOMAIN G /\ G[i] = H[i] /\ i \in Nat /\ i < m
  BY <1>0, Appended, HistoryTypes
<1>2. Window \in Nat /\ Window > 0 /\ h.time \in Nat /\ h.since \in Nat /\ h.count \in Nat
  BY RateAssumed, HitTypes
<1>3. \A i \in DOMAIN H : /\ H[i].time \in Nat /\ H[i].since \in Nat /\ H[i].count \in Nat
                          /\ H[i].time <= h.time /\ H[i].since <= H[i].time
                          /\ H[i].time < H[i].since + Window
  BY HistoryTypes DEF HitsInv, WellCounted
<1>4. ASSUME NEW i \in DOMAIN H PROVE WellCounted(G, redis, h.time, i) /\ Filled(G, redis, i)
  <2>1. WellCounted(H, redis, h.time, i) /\ Filled(H, redis, i)
    BY DEF HitsInv
  <2>2. WellCounted(G, redis, h.time, i)
    BY <1>1, <2>1 DEF WellCounted
  <2>3. ASSUME NEW n \in 1..(G[i].count - 1)
        PROVE  Slot(G, redis, G[i].place, G[i].key, G[i].since, n, i)
    <3>1. Slot(H, redis, H[i].place, H[i].key, H[i].since, n, i)
      BY <1>1, <2>1 DEF Filled
    <3>2. i \in Nat /\ i <= i /\ G[i] = H[i]
      BY <1>1
    <3>3. Slot(G, redis, H[i].place, H[i].key, H[i].since, n, i)
      BY <3>1, <3>2, SlotStays
    <3> QED  BY <3>2, <3>3
  <2> QED  BY <2>2, <2>3 DEF Filled
<1>5. WellCounted(G, redis, h.time, m)
  <2>1. \A j \in DOMAIN G : G[j].time <= h.time
    BY <1>1, <1>2, <1>3
  <2> QED  BY <1>1, <1>2, <2>1 DEF WellCounted
<1>6. Filled(G, redis, m)
  <2> SUFFICES ASSUME NEW n \in 1..(h.count - 1)
               PROVE  Slot(G, redis, h.place, h.key, h.since, n, m)
    BY <1>1 DEF Filled
  <2>1. CASE Slot(H, redis, h.place, h.key, h.since, n, m)
    <3>1. m \in Nat /\ m <= m
      BY <1>0
    <3> QED  BY <2>1, <3>1, SlotStays
  <2>2. CASE n <= ForeignCount /\ redis /\ \A i \in DOMAIN H : ~At(H, h.place, h.key, i)
    <3>1. First(G, m)
      BY <1>1, <2>2 DEF First, At
    <3>2. At(G, h.place, h.key, m) /\ G[m].since = h.since
      BY <1>1 DEF At
    <3> QED  BY <1>1, <2>2, <3>1, <3>2 DEF Slot
  <2> QED  BY <1>0, <2>1, <2>2 DEF Continues
<1>7. ASSUME NEW i \in DOMAIN H
      PROVE  At(H, h.place, h.key, i) => (H[i].since = h.since /\ H[i].count < h.count) \/ H[i].since + Window <= h.since
  BY DEF Continues
<1>8. ASSUME NEW i \in DOMAIN G, NEW j \in DOMAIN G PROVE Apart(G, i, j)
  <2>1. CASE i \in DOMAIN H /\ j \in DOMAIN H
    <3>1. Apart(H, i, j) /\ G[i] = H[i] /\ G[j] = H[j]
      BY <1>1, <2>1 DEF HitsInv
    <3> QED  BY <3>1 DEF Apart, At
  <2>2. CASE i = m /\ j \in DOMAIN H
    <3>1. G[j] = H[j] /\ G[i] = h
      BY <1>1, <2>2
    <3> QED  BY <1>2, <1>3, <1>7, <2>2, <3>1 DEF Apart, At
  <2>3. CASE i \in DOMAIN H /\ j = m
    <3>1. G[i] = H[i] /\ G[j] = h
      BY <1>1, <2>3
    <3> QED  BY <1>2, <1>3, <1>7, <2>3, <3>1 DEF Apart, At
  <2>4. CASE i = m /\ j = m
    BY <2>4 DEF Apart
  <2> QED  BY <1>1, <2>1, <2>2, <2>3, <2>4
<1>9. \A i \in DOMAIN G : WellCounted(G, redis, h.time, i) /\ Filled(G, redis, i)
  BY <1>1, <1>4, <1>5, <1>6
<1> QED  BY <1>0, <1>6, <1>8, <1>9 DEF HitsInv

(* The window in which the request is counted is the last one of its key.   *)
LEMMA HitKeepsItsWindow ==
    ASSUME NEW H \in Seq(HitRecords), NEW h \in HitRecords, NEW G, G = Append(H, h), NEW redis \in BOOLEAN,
           HitsInv(G, redis, h.time), Continues(H, redis, h.place, h.key, h.since, h.count),
           Filled(G, redis, Len(H) + 1), h.since <= h.time,
           NEW w \in WindowRecords, w.count = h.count, w.at # 0 - 1, SinceOf(h.place, w) = h.since
    PROVE  Current(G, redis, h.time, h.place, h.key, w)
<1>0. PICK m \in Nat : m = Len(H) + 1
  BY HistoryTypes
<1>1. /\ m \in DOMAIN G /\ DOMAIN G = DOMAIN H \cup {m} /\ G[m] = h /\ Len(G) = m
      /\ G \in Seq(HitRecords) /\ \A i \in DOMAIN H : G[i] = H[i]
  BY <1>0, Appended
<1>2. /\ h.time \in Nat /\ h.since \in Nat /\ h.count \in Nat /\ h.count > 0
      /\ ForeignCount \in Nat /\ Len(H) \in Nat
  BY HitTypes, RateAssumed, HistoryTypes
<1>3. SinceOf(h.place, w) \in 0..h.time /\ w.count > 0 /\ w.count <= ForeignCount + Len(G)
  BY <1>0, <1>1, <1>2 DEF Continues
<1>4. ASSUME NEW i \in DOMAIN G, At(G, h.place, h.key, i)
      PROVE  \/ G[i].since = h.since /\ G[i].count <= h.count
             \/ G[i].since + Window <= h.since
  <2>1. CASE i = m
    BY <1>1, <1>2, <2>1
  <2>2. CASE i \in DOMAIN H
    <3>1. At(H, h.place, h.key, i) /\ G[i] = H[i] /\ H[i].count \in Nat
      BY <1>1, <1>4, <2>2, HistoryTypes DEF At
    <3> QED  BY <1>2, <2>2, <3>1 DEF Continues
  <2> QED  BY <1>1, <2>1, <2>2
<1>5. ASSUME NEW n \in 1..h.count PROVE Slot(G, redis, h.place, h.key, h.since, n, m + 1)
  <2>0. m \in Nat /\ m < m + 1 /\ n \in Nat
    BY <1>2
  <2>1. CASE n = h.count
    <3>1. At(G, h.place, h.key, m) /\ G[m].since = h.since /\ G[m].count = n
      BY <1>1, <2>1 DEF At
    <3> QED  BY <1>1, <2>0, <3>1 DEF Slot
  <2>2. CASE n # h.count
    <3>1. n \in 1..(G[m].count - 1)
      BY <1>1, <1>2, <2>2
    <3>2. Slot(G, redis, h.place, h.key, h.since, n, m)
      BY <1>0, <1>1, <3>1 DEF Filled
    <3>3. \A j \in DOMAIN G : j \in Nat /\ (j < m => j < m + 1) /\ (j <= m => j <= m + 1)
      BY <1>0, <1>1, HistoryTypes
    <3> QED  BY <3>2, <3>3 DEF Slot
  <2> QED  BY <2>1, <2>2
<1>6. LastWindow(G, redis, h.time, h.place, h.key, w)
  BY <1>1, <1>3, <1>4, <1>5 DEF LastWindow
<1> QED  BY <1>3, <1>6 DEF Current

(* Other windows are what they were.                                        *)
LEMMA HitKeepsOthers ==
    ASSUME NEW H \in Seq(HitRecords), NEW h \in HitRecords, NEW G, G = Append(H, h), NEW redis \in BOOLEAN,
           NEW t, NEW q, NEW k, ~(h.place = q /\ h.key = k), NEW w, Current(H, redis, t, q, k, w)
    PROVE  Current(G, redis, t, q, k, w)
<1>0. PICK m \in Nat : m = Len(H) + 1
  BY HistoryTypes
<1>1. /\ DOMAIN G = DOMAIN H \cup {m} /\ G[m] = h /\ Len(G) = m /\ \A i \in DOMAIN H : G[i] = H[i]
  BY <1>0, Appended
<1>2. \A i \in DOMAIN G : At(G, q, k, i) => i \in DOMAIN H /\ At(H, q, k, i) /\ G[i] = H[i]
  BY <1>1 DEF At
<1>3. w \in WindowRecords /\ w.count <= ForeignCount + Len(G)
  <2>1. w \in WindowRecords /\ w.count <= ForeignCount + Len(H) /\ Len(H) \in Nat /\ w.count \in Nat
    BY HistoryTypes, WindowTypes DEF Current
  <2> QED  BY <1>0, <1>1, <2>1, RateAssumed
<1>4. CASE w.at = 0 - 1
  <2>1. Nothing(H, t, q, k, w)
    BY <1>4 DEF Current
  <2>2. Nothing(G, t, q, k, w)
    BY <1>2, <2>1 DEF Nothing
  <2> QED  BY <1>3, <1>4, <2>2 DEF Current
<1>5. CASE w.at # 0 - 1
  <2>1. LastWindow(H, redis, t, q, k, w)
    BY <1>5 DEF Current
  <2>2. ASSUME NEW n \in 1..w.count PROVE Slot(G, redis, q, k, SinceOf(q, w), n, Len(G) + 1)
    <3>1. Slot(H, redis, q, k, SinceOf(q, w), n, m)
      BY <1>0, <2>1 DEF LastWindow
    <3>2. Len(G) + 1 \in Nat /\ m <= Len(G) + 1
      BY <1>1
    <3> QED  BY <3>1, <3>2, SlotStays
  <2>3. LastWindow(G, redis, t, q, k, w)
    BY <1>2, <2>1, <2>2 DEF LastWindow
  <2> QED  BY <1>3, <1>5, <2>3 DEF Current
<1> QED  BY <1>4, <1>5

(* A window that is over may be forgotten.                                  *)
LEMMA Forgotten ==
    ASSUME NEW H \in Seq(HitRecords), NEW redis \in BOOLEAN, NEW t \in Nat, NEW q, q # "redis", NEW k, NEW w,
           Current(H, redis, t, q, k, w), t - w.at >= Window
    PROVE  Current(H, redis, t, q, k, NoWindow)
<1>1. /\ Window \in Nat /\ ForeignCount \in Nat /\ MaxNow \in Nat /\ MaxHits \in Nat /\ Len(H) \in Nat
      /\ \A i \in DOMAIN H : H[i].since \in Nat
  BY RateAssumed, HistoryTypes
<1>2. NoWindow \in WindowRecords /\ NoWindow.at = 0 - 1 /\ NoWindow.count = 0
  BY <1>1 DEF NoWindow, WindowRecords
<1>3. ASSUME NEW i \in DOMAIN H, At(H, q, k, i) PROVE H[i].since + Window <= t
  <2>1. CASE w.at = 0 - 1
    BY <1>3, <2>1 DEF Current, Nothing
  <2>2. CASE w.at # 0 - 1
    <3>1. w.at \in Nat /\ w.at + Window <= t
      BY <1>1, <2>2, WindowTypes DEF Current
    <3>2. H[i].since = w.at \/ H[i].since + Window <= w.at
      BY <1>3, <2>2 DEF Current, LastWindow, SinceOf
    <3> QED  BY <1>1, <3>1, <3>2
  <2> QED  BY <2>1, <2>2
<1>4. Nothing(H, t, q, k, NoWindow)
  BY <1>2, <1>3 DEF Nothing
<1> QED  BY <1>1, <1>2, <1>4 DEF Current

(* Nothing that was counted depends on the time that passed since.          *)
LEMMA TimeKeeps ==
    ASSUME NEW H \in Seq(HitRecords), NEW redis \in BOOLEAN, NEW t \in Nat
    PROVE  /\ HitsInv(H, redis, t) => HitsInv(H, redis, t + 1)
           /\ \A q, k, w : Current(H, redis, t, q, k, w) => Current(H, redis, t + 1, q, k, w)
<1>1. Window \in Nat /\ \A i \in DOMAIN H : H[i].time \in Nat /\ H[i].since \in Nat
  BY HistoryTypes, RateAssumed
<1>2. ASSUME HitsInv(H, redis, t) PROVE HitsInv(H, redis, t + 1)
  <2>1. ASSUME NEW i \in DOMAIN H PROVE WellCounted(H, redis, t + 1, i)
    <3>1. WellCounted(H, redis, t, i)
      BY <1>2 DEF HitsInv
    <3> QED  BY <1>1, <3>1 DEF WellCounted
  <2> QED  BY <1>2, <2>1 DEF HitsInv
<1>3. ASSUME NEW q, NEW k, NEW w, Current(H, redis, t, q, k, w) PROVE Current(H, redis, t + 1, q, k, w)
  <2>1. Nothing(H, t, q, k, w) => Nothing(H, t + 1, q, k, w)
    BY <1>1 DEF Nothing
  <2>2. LastWindow(H, redis, t, q, k, w) => LastWindow(H, redis, t + 1, q, k, w)
    <3>1. SinceOf(q, w) \in 0..t => SinceOf(q, w) \in 0..(t + 1)
      OBVIOUS
    <3> QED  BY <3>1 DEF LastWindow
  <2> QED  BY <1>3, <2>1, <2>2 DEF Current
<1> QED  BY <1>2, <1>3
------------------------------------------------------------------------------
LEMMA RateTypes ==
    ASSUME RateInv
    PROVE  /\ now \in 0..MaxNow /\ now \in Nat /\ inRedis \in BOOLEAN
           /\ windows \in [Places -> [LimitKeys -> WindowRecords]]
           /\ nextPrune \in [Limiters -> 0..(MaxNow + Window)]
           /\ hits \in Seq(HitRecords) /\ Len(hits) \in Nat /\ Len(hits) <= MaxHits
           /\ Limiters \subseteq Places /\ "redis" \in Places
<1>1. /\ now \in 0..MaxNow /\ inRedis \in BOOLEAN
      /\ windows \in [Places -> [LimitKeys -> WindowRecords]]
      /\ nextPrune \in [Limiters -> 0..(MaxNow + Window)]
      /\ hits \in Seq(HitRecords) /\ Len(hits) <= MaxHits
  BY DEF RateInv, RateTypeOK, WindowRecords
<1>2. now \in Nat /\ Len(hits) \in Nat
  BY <1>1, RateAssumed
<1> QED  BY <1>1, <1>2 DEF Places

LEMMA InitRateInv == RateInit => RateInv
<1> SUFFICES ASSUME RateInit PROVE RateInv
  OBVIOUS
<1>1. NoWindow \in WindowRecords /\ Foreign \in WindowRecords
  BY RateAssumed DEF NoWindow, Foreign, WindowRecords
<1>2. /\ now = 0 /\ inRedis \in BOOLEAN /\ hits = <<>> /\ nextPrune = [p \in Limiters |-> 0]
  BY DEF RateInit
<1>3. PICK redis \in [LimitKeys -> {NoWindow, Foreign}] :
         windows = [place \in Places |-> IF place = "redis" THEN redis ELSE [k \in LimitKeys |-> NoWindow]]
  BY DEF RateInit
<1>4. ASSUME NEW q \in Places, NEW k \in LimitKeys
      PROVE  /\ windows[q][k] \in {NoWindow, Foreign}
             /\ q # "redis" => windows[q][k] = NoWindow
  BY <1>3
<1>5. windows \in [Places -> [LimitKeys -> WindowRecords]]
  BY <1>1, <1>3
<1>6. hits \in Seq(HitRecords) /\ Len(hits) = 0 /\ DOMAIN hits = {}
  BY <1>2
<1>7. RateTypeOK
  BY <1>2, <1>5, <1>6, RateAssumed DEF RateTypeOK, WindowRecords
<1>8. HitsInv(hits, inRedis, now)
  BY <1>6 DEF HitsInv
<1>9. ASSUME NEW q \in Places, NEW k \in LimitKeys
      PROVE  Current(hits, inRedis, now, q, k, windows[q][k])
  BY <1>1, <1>4, <1>6, RateAssumed DEF Current, Nothing, NoWindow, Foreign
<1>10. ASSUME NEW p \in Limiters, ~inRedis PROVE Forgets(p)
  <2>1. p # "redis" /\ p \in Places
    BY RateAssumed DEF Places
  <2> QED  BY <1>2, <1>4, <1>6, <2>1, RateAssumed DEF Forgets
<1> QED  BY <1>7, <1>8, <1>9, <1>10 DEF RateInv

(* The steps of both kinds of limiter: what is left to show of each is that *)
(* it counts the request in the right window, and leaves or forgets others. *)
LEMMA HitStep ==
    ASSUME RateInv, NEW q \in Places, NEW key \in LimitKeys, NEW b, NEW n, NEW h \in HitRecords,
           h.time = now, h.key = key, h.place = q, h.count = n, h.since = b, h.allowed <=> h.count <= h.limit,
           Len(hits) < MaxHits, hits' = Append(hits, h), UNCHANGED <<now, inRedis>>,
           q = "redis" <=> inRedis, b \in 0..now, now < b + Window,
           Continues(hits, inRedis, q, key, b, n),
           windows' \in [Places -> [LimitKeys -> WindowRecords]],
           nextPrune' \in [Limiters -> 0..(MaxNow + Window)],
           windows'[q][key].count = n, windows'[q][key].at # 0 - 1, SinceOf(q, windows'[q][key]) = b,
           \A r \in Places, k \in LimitKeys :
              \/ r = q /\ k = key
              \/ windows'[r][k] = windows[r][k]
              \/ windows'[r][k] = NoWindow /\ r # "redis" /\ now - windows[r][k].at >= Window,
           ~inRedis => \A p \in Limiters : Forgets(p)'
    PROVE  RateInv'
<1>0. /\ now \in Nat /\ now \in 0..MaxNow /\ inRedis \in BOOLEAN /\ hits \in Seq(HitRecords)
      /\ Len(hits) \in Nat /\ MaxNow \in Nat /\ MaxHits \in Nat /\ ForeignCount \in Nat
      /\ n <= ForeignCount + Len(hits) + 1 /\ b \in 0..MaxNow
  BY RateTypes, RateAssumed DEF Continues
<1>3. HitsInv(hits, inRedis, now)
  BY DEF RateInv
<1>4. HitsInv(hits', inRedis, now) /\ Filled(hits', inRedis, Len(hits) + 1)
  <2>1. h.since <= h.time /\ h.time < h.since + Window
    BY <1>0
  <2>2. HitsInv(hits, inRedis, h.time) /\ Continues(hits, inRedis, h.place, h.key, h.since, h.count)
    BY <1>3
  <2>3. (h.allowed <=> h.count <= h.limit) /\ (h.place = "redis" <=> inRedis)
    OBVIOUS
  <2>4. HitsInv(hits', inRedis, h.time) /\ Filled(hits', inRedis, Len(hits) + 1)
    BY <1>0, <2>1, <2>2, <2>3, HitKeepsHistory
  <2> QED  BY <2>4
<1>5. hits' \in Seq(HitRecords) /\ Len(hits') = Len(hits) + 1
  BY <1>0, Appended
<1>6. ASSUME NEW r \in Places, NEW k \in LimitKeys
      PROVE  Current(hits', inRedis, now, r, k, windows'[r][k])
  <2>0. Current(hits, inRedis, now, r, k, windows[r][k])
    BY DEF RateInv
  <2>1. CASE r = q /\ k = key
    <3>1. PICK w \in WindowRecords : w = windows'[q][key]
      OBVIOUS
    <3>2. w.count = h.count /\ w.at # 0 - 1 /\ SinceOf(h.place, w) = h.since /\ h.since <= h.time
      BY <1>0, <3>1
    <3>3. HitsInv(hits', inRedis, h.time) /\ Continues(hits, inRedis, h.place, h.key, h.since, h.count)
      BY <1>4
    <3>4. Current(hits', inRedis, h.time, h.place, h.key, w)
      BY <1>0, <1>4, <3>2, <3>3, HitKeepsItsWindow
    <3> QED  BY <2>1, <3>1, <3>4
  <2>2. CASE ~(r = q /\ k = key)
    <3>1. Current(hits, inRedis, now, r, k, windows'[r][k])
      <4>1. CASE windows'[r][k] = windows[r][k]
        BY <2>0, <4>1
      <4>2. CASE windows'[r][k] = NoWindow /\ r # "redis" /\ now - windows[r][k].at >= Window
        <5>1. Current(hits, inRedis, now, r, k, NoWindow)
          BY <1>0, <2>0, <4>2, Forgotten
        <5> QED  BY <4>2, <5>1
      <4> QED  BY <2>2, <4>1, <4>2
    <3>2. ~(h.place = r /\ h.key = k)
      BY <2>2
    <3>3. PICK w : w = windows'[r][k]
      OBVIOUS
    <3>4. Current(hits, inRedis, now, r, k, w)
      BY <3>1, <3>3
    <3>5. Current(hits', inRedis, now, r, k, w)
      BY <1>0, <3>2, <3>4, HitKeepsOthers
    <3> QED  BY <3>3, <3>5
  <2> QED  BY <2>1, <2>2
<1>7. RateTypeOK'
  BY <1>0, <1>5 DEF RateTypeOK, WindowRecords
<1>8. HitsInv(hits', inRedis', now')
  BY <1>4
<1>9. \A r \in Places, k \in LimitKeys : Current(hits', inRedis', now', r, k, windows'[r][k])
  BY <1>6
<1>10. ~inRedis' => \A p \in Limiters : Forgets(p)'
  OBVIOUS
<1> QED  BY <1>7, <1>8, <1>9, <1>10 DEF RateInv

LEMMA HitFields ==
    ASSUME RateInv, Len(hits) < MaxHits, NEW p \in Limiters, NEW key \in LimitKeys, NEW limit \in Limits,
           NEW n \in Nat \ {0}, n <= ForeignCount + Len(hits) + 1, NEW b \in 0..now, Hit(p, key, limit, n, b),
           NEW q, q = PlaceOfCounts(p)
    PROVE  \E h \in HitRecords :
              /\ h.time = now /\ h.key = key /\ h.place = q /\ h.count = n /\ h.since = b
              /\ h.allowed <=> h.count <= h.limit
              /\ hits' = Append(hits, h)
<1>1. n \in 1..(ForeignCount + MaxHits) /\ b \in 0..MaxNow /\ (n <= limit) \in BOOLEAN /\ now \in 0..MaxNow
  BY RateTypes, RateAssumed
<1>2. q \in Places
  BY DEF PlaceOfCounts, Places
<1>3. PICK h : h = [time |-> now, key |-> key, limit |-> limit, place |-> q, allowed |-> n <= limit,
                    count |-> n, since |-> b]
  OBVIOUS
<1>4. h \in HitRecords
  BY <1>1, <1>2, <1>3 DEF HitRecords
<1>5. hits' = Append(hits, h)
  BY <1>3 DEF Hit
<1>6. /\ h.time = now /\ h.key = key /\ h.place = q /\ h.count = n /\ h.since = b
      /\ h.allowed <=> h.count <= h.limit
  BY <1>3
<1> QED  BY <1>4, <1>5, <1>6

(* A process counts: what it finds is the last window of the key, or over.  *)
LEMMA MemoryContinues ==
    ASSUME NEW H \in Seq(HitRecords), NEW t \in Nat, NEW q, q # "redis", NEW k, NEW w,
           Current(H, FALSE, t, q, k, w)
    PROVE  /\ w = NoWindow \/ t - w.at >= Window => Continues(H, FALSE, q, k, t, 1)
           /\ ~(w = NoWindow \/ t - w.at >= Window) =>
                 /\ Continues(H, FALSE, q, k, w.at, w.count + 1)
                 /\ w.at \in 0..t /\ t < w.at + Window
<1>1. /\ Window \in Nat /\ Window > 0 /\ ForeignCount \in Nat /\ Len(H) \in Nat
      /\ \A i \in DOMAIN H : H[i].since \in Nat /\ H[i].count \in Nat
      /\ w.count \in Nat /\ (w.at # 0 - 1 => w.at \in Nat) /\ w.count <= ForeignCount + Len(H)
  BY RateAssumed, HistoryTypes, WindowTypes DEF Current
<1>2. ASSUME w = NoWindow \/ t - w.at >= Window PROVE Continues(H, FALSE, q, k, t, 1)
  <2>1. Current(H, FALSE, t, q, k, NoWindow)
    BY <1>2, Forgotten
  <2>2. \A i \in DOMAIN H : At(H, q, k, i) => H[i].since + Window <= t
    BY <2>1 DEF Current, Nothing, NoWindow
  <2> QED  BY <1>1, <2>2 DEF Continues
<1>3. ASSUME ~(w = NoWindow \/ t - w.at >= Window)
      PROVE  /\ Continues(H, FALSE, q, k, w.at, w.count + 1)
             /\ w.at \in 0..t /\ t < w.at + Window
  <2>1. w.at # 0 - 1
    BY <1>3 DEF Current, Nothing
  <2>2. LastWindow(H, FALSE, t, q, k, w) /\ SinceOf(q, w) = w.at /\ w.at \in Nat
    BY <1>1, <2>1 DEF Current, SinceOf
  <2>3. w.at \in 0..t /\ t < w.at + Window
    BY <1>1, <1>3, <2>2 DEF LastWindow
  <2>4. PICK n \in Nat : n = w.count + 1
    BY <1>1
  <2>5. n - 1 = w.count /\ n <= ForeignCount + Len(H) + 1
    BY <1>1, <2>4
  <2>6. ASSUME NEW i \in DOMAIN H, At(H, q, k, i)
        PROVE  (H[i].since = w.at /\ H[i].count < n) \/ H[i].since + Window <= w.at
    <3>1. (H[i].since = w.at /\ H[i].count <= w.count) \/ H[i].since + Window <= w.at
      BY <2>2, <2>6 DEF LastWindow
    <3> QED  BY <1>1, <2>4, <3>1
  <2>7. \A m \in 1..(n - 1) : Slot(H, FALSE, q, k, w.at, m, Len(H) + 1)
    BY <2>2, <2>5 DEF LastWindow
  <2>8. Continues(H, FALSE, q, k, w.at, n)
    BY <2>5, <2>6, <2>7 DEF Continues
  <2> QED  BY <2>3, <2>4, <2>8
<1> QED  BY <1>2, <1>3

(* Redis counts: what it finds is the last window of the key until it is    *)
(* expired, or what was there without an expiry.                            *)
LEMMA RedisContinues ==
    ASSUME NEW H \in Seq(HitRecords), NEW t \in Nat, NEW k, NEW w, Current(H, TRUE, t, "redis", k, w)
    PROVE  /\ w.at >= 0 /\ t >= w.at => Continues(H, TRUE, "redis", k, t, 1)
           /\ ~(w.at >= 0) => Continues(H, TRUE, "redis", k, t, w.count + 1)
           /\ w.at >= 0 /\ ~(t >= w.at) =>
                 /\ Continues(H, TRUE, "redis", k, w.at - Window, w.count + 1)
                 /\ w.at - Window \in 0..t
<1>1. /\ Window \in Nat /\ Window > 0 /\ ForeignCount \in Nat /\ Len(H) \in Nat
      /\ \A i \in DOMAIN H : H[i].since \in Nat /\ H[i].count \in Nat
      /\ w.count \in Nat /\ w.at \in Int /\ w.at >= 0 - 1 /\ w.count <= ForeignCount + Len(H)
  BY RateAssumed, HistoryTypes, WindowTypes DEF Current
<1>2. ASSUME ~(w.at >= 0) PROVE Continues(H, TRUE, "redis", k, t, w.count + 1)
  <2>1. w.at = 0 - 1
    BY <1>1, <1>2
  <2>2. w.count \in {0, ForeignCount} /\ \A i \in DOMAIN H : ~At(H, "redis", k, i)
    BY <2>1 DEF Current, Nothing
  <2>3. PICK n \in Nat : n = w.count + 1
    BY <1>1
  <2>4. n <= ForeignCount + Len(H) + 1 /\ \A m \in 1..(n - 1) : m <= ForeignCount
    BY <1>1, <2>2, <2>3
  <2>5. Continues(H, TRUE, "redis", k, t, n)
    BY <2>2, <2>4 DEF Continues
  <2> QED  BY <2>3, <2>5
<1>3. ASSUME w.at >= 0
      PROVE  /\ w.at - Window \in 0..t /\ w.count > 0
             /\ \A i \in DOMAIN H :
                   At(H, "redis", k, i) => \/ H[i].since = w.at - Window /\ H[i].count <= w.count
                                           \/ H[i].since + Window <= w.at - Window
             /\ \A m \in 1..w.count : Slot(H, TRUE, "redis", k, w.at - Window, m, Len(H) + 1)
  <2>1. w.at # 0 - 1
    BY <1>3
  <2>2. LastWindow(H, TRUE, t, "redis", k, w)
    BY <2>1 DEF Current
  <2>3. SinceOf("redis", w) = w.at - Window
    BY DEF SinceOf
  <2> QED  BY <2>2, <2>3 DEF LastWindow
<1>4. ASSUME w.at >= 0, t >= w.at PROVE Continues(H, TRUE, "redis", k, t, 1)
  <2>1. ASSUME NEW i \in DOMAIN H, At(H, "redis", k, i) PROVE H[i].since + Window <= t
    <3>1. \/ H[i].since = w.at - Window
          \/ H[i].since + Window <= w.at - Window
      BY <1>3, <1>4, <2>1
    <3> QED  BY <1>1, <1>4, <3>1
  <2>2. 1 <= ForeignCount + Len(H) + 1 /\ 1..(1 - 1) = {}
    BY <1>1
  <2> QED  BY <2>1, <2>2 DEF Continues
<1>5. ASSUME w.at >= 0, ~(t >= w.at)
      PROVE  Continues(H, TRUE, "redis", k, w.at - Window, w.count + 1)
  <2>1. PICK n \in Nat : n = w.count + 1
    BY <1>1
  <2>2. n - 1 = w.count /\ n <= ForeignCount + Len(H) + 1
    BY <1>1, <2>1
  <2>3. ASSUME NEW i \in DOMAIN H, At(H, "redis", k, i)
        PROVE  (H[i].since = w.at - Window /\ H[i].count < n) \/ H[i].since + Window <= w.at - Window
    <3>1. \/ H[i].since = w.at - Window /\ H[i].count <= w.count
          \/ H[i].since + Window <= w.at - Window
      BY <1>3, <1>5, <2>3
    <3> QED  BY <1>1, <2>1, <3>1
  <2>4. \A m \in 1..(n - 1) : Slot(H, TRUE, "redis", k, w.at - Window, m, Len(H) + 1)
    BY <1>3, <1>5, <2>2
  <2>5. Continues(H, TRUE, "redis", k, w.at - Window, n)
    BY <2>2, <2>3, <2>4 DEF Continues
  <2> QED  BY <2>1, <2>5
<1> QED  BY <1>2, <1>3, <1>4, <1>5

LEMMA PrunedWindows ==
    ASSUME RateInv, NEW p \in Limiters
    PROVE  /\ Pruned(p) \in [LimitKeys -> WindowRecords]
           /\ \A k \in LimitKeys :
                 \/ Pruned(p)[k] = windows[p][k]
                 \/ Pruned(p)[k] = NoWindow /\ now >= nextPrune[p] /\ now - windows[p][k].at >= Window
           /\ now >= nextPrune[p] =>
                 \A k \in LimitKeys : Pruned(p)[k] = NoWindow \/ now - Pruned(p)[k].at < Window
<1>1. windows[p] \in [LimitKeys -> WindowRecords] /\ now \in Nat /\ nextPrune[p] \in Int
  BY RateTypes, RateAssumed
<1>2. NoWindow \in WindowRecords
  BY RateAssumed DEF NoWindow, WindowRecords
<1>3. \A k \in LimitKeys : windows[p][k] \in WindowRecords /\ windows[p][k].at \in Int
  BY <1>1, WindowTypes
<1>4. CASE now >= nextPrune[p]
  <2>1. Pruned(p) = [k \in LimitKeys |-> IF Old(windows[p][k]) THEN NoWindow ELSE windows[p][k]]
    BY <1>4 DEF Pruned
  <2>2. \A k \in LimitKeys : Old(windows[p][k]) <=> now - windows[p][k].at >= Window
    BY DEF Old
  <2>3. \A k \in LimitKeys : ~(now - windows[p][k].at >= Window) => now - windows[p][k].at < Window
    BY <1>1, <1>3, RateAssumed
  <2> QED  BY <1>1, <1>2, <1>4, <2>1, <2>2, <2>3
<1>5. CASE ~(now >= nextPrune[p])
  BY <1>1, <1>5 DEF Pruned
<1> QED  BY <1>4, <1>5

LEMMA MemoryStep ==
    ASSUME RateInv, Len(hits) < MaxHits, NEW p \in Limiters, NEW key \in LimitKeys, NEW limit \in Limits,
           CountInMemory(p, key, limit)
    PROVE  RateInv'
<1>0. /\ now \in Nat /\ Window \in Nat /\ Window > 0 /\ MaxNow \in Nat /\ now <= MaxNow
      /\ hits \in Seq(HitRecords) /\ Len(hits) \in Nat /\ ForeignCount \in Nat
      /\ windows \in [Places -> [LimitKeys -> WindowRecords]] /\ Limiters \subseteq Places
      /\ nextPrune \in [Limiters -> 0..(MaxNow + Window)]
  BY RateTypes, RateAssumed
<1>1. /\ p \in Places /\ p # "redis" /\ inRedis = FALSE /\ PlaceOfCounts(p) = p
      /\ UNCHANGED <<now, inRedis>>
  BY RateTypes, RateAssumed DEF CountInMemory, PlaceOfCounts
<1>2. PICK w : w = windows[p][key]
  OBVIOUS
<1>3. Current(hits, FALSE, now, p, key, w) /\ w \in WindowRecords
  BY <1>0, <1>1, <1>2 DEF RateInv
<1>4. PICK pruned \in [LimitKeys -> WindowRecords] : pruned = Pruned(p)
  BY PrunedWindows
<1>5. PICK found : found = pruned[key]
  OBVIOUS
<1>6. found = w \/ (found = NoWindow /\ now - w.at >= Window)
  BY <1>2, <1>4, <1>5, PrunedWindows
<1>7. PICK open : open = IF found = NoWindow \/ Old(found) THEN [count |-> 0, at |-> now] ELSE found
  OBVIOUS
<1>8. PICK n, b : n = open.count + 1 /\ b = open.at
  OBVIOUS
<1>9. /\ windows' = [windows EXCEPT ![p] = [pruned EXCEPT ![key] = [count |-> n, at |-> b]]]
      /\ nextPrune' = IF now >= nextPrune[p] THEN [nextPrune EXCEPT ![p] = now + Window] ELSE nextPrune
      /\ Hit(p, key, limit, n, b)
  BY <1>4, <1>5, <1>7, <1>8 DEF CountInMemory
<1>10. n \in Nat \ {0} /\ b \in 0..now /\ now < b + Window /\ Continues(hits, FALSE, p, key, b, n)
  <2>1. CASE found = NoWindow \/ now - found.at >= Window
    <3>1. n = 1 /\ b = now
      BY <1>7, <1>8, <2>1 DEF Old
    <3>2. w = NoWindow \/ now - w.at >= Window
      BY <1>6, <2>1
    <3>3. Continues(hits, FALSE, p, key, now, 1)
      BY <1>0, <1>1, <1>3, <3>2, MemoryContinues
    <3>4. 1 \in Nat \ {0} /\ now \in 0..now /\ now < now + Window
      BY <1>0
    <3> QED  BY <3>1, <3>3, <3>4
  <2>2. CASE ~(found = NoWindow \/ now - found.at >= Window)
    <3>1. n = w.count + 1 /\ b = w.at /\ found = w
      BY <1>6, <1>7, <1>8, <2>2 DEF Old
    <3>2. Continues(hits, FALSE, p, key, w.at, w.count + 1) /\ w.at \in 0..now /\ now < w.at + Window
      BY <1>0, <1>1, <1>3, <2>2, <3>1, MemoryContinues
    <3>3. w.count + 1 \in Nat \ {0}
      <4>1. w.count \in Nat
        BY <1>3, WindowTypes
      <4> QED  BY <4>1
    <3> QED  BY <3>1, <3>2, <3>3
  <2> QED  BY <2>1, <2>2
<1>11. PICK h \in HitRecords :
          /\ h.time = now /\ h.key = key /\ h.place = p /\ h.count = n /\ h.since = b
          /\ h.allowed <=> h.count <= h.limit
          /\ hits' = Append(hits, h)
  BY <1>1, <1>9, <1>10, HitFields DEF Continues
<1>12. /\ windows' \in [Places -> [LimitKeys -> WindowRecords]]
       /\ windows'[p][key] = [count |-> n, at |-> b]
       /\ \A k \in LimitKeys : k # key => windows'[p][k] = pruned[k]
       /\ \A r \in Places : r # p => windows'[r] = windows[r]
  <2>1. n \in 0..(ForeignCount + MaxHits) /\ b \in (0 - 1)..(MaxNow + Window)
    BY <1>0, <1>10, RateAssumed DEF Continues
  <2>2. [count |-> n, at |-> b] \in WindowRecords
    BY <2>1 DEF WindowRecords
  <2> QED  BY <1>0, <1>1, <1>9, <2>2
<1>13. /\ windows'[p][key].count = n /\ windows'[p][key].at = b /\ b \in Nat
       /\ windows'[p][key].at # 0 - 1 /\ SinceOf(p, windows'[p][key]) = b
  BY <1>0, <1>1, <1>10, <1>12 DEF SinceOf
<1>14. nextPrune' \in [Limiters -> 0..(MaxNow + Window)]
  BY <1>0, <1>9
<1>15. ASSUME NEW r \in Places, NEW k \in LimitKeys
       PROVE  \/ r = p /\ k = key
              \/ windows'[r][k] = windows[r][k]
              \/ windows'[r][k] = NoWindow /\ r # "redis" /\ now - windows[r][k].at >= Window
  BY <1>1, <1>4, <1>12, PrunedWindows
<1>16. ASSUME NEW o \in Limiters PROVE Forgets(o)'
  <2>0. /\ Forgets(o) /\ now' = now /\ o \in Places
        /\ nextPrune[o] \in Int /\ \A k \in LimitKeys : windows[o][k].at \in Int
    <3>1. \A k \in LimitKeys : windows[o][k] \in WindowRecords
      BY <1>0
    <3> QED  BY <1>0, <1>1, <3>1, WindowTypes, RateAssumed DEF RateInv
  <2>1. /\ Len(hits) + 1 \in DOMAIN hits' /\ DOMAIN hits' = DOMAIN hits \cup {Len(hits) + 1}
        /\ hits'[Len(hits) + 1] = h /\ \A i \in DOMAIN hits : hits'[i] = hits[i]
    BY <1>0, <1>11, Appended
  <2>2. CASE o # p
    <3>1. nextPrune'[o] = nextPrune[o] /\ windows'[o] = windows[o]
      BY <1>0, <1>9, <1>12, <2>0, <2>2
    <3>2. \A i \in DOMAIN hits' : hits'[i].place = o => i \in DOMAIN hits /\ hits'[i] = hits[i]
      BY <1>11, <2>1, <2>2
    <3> QED  BY <2>0, <3>1, <3>2 DEF Forgets
  <2>3. CASE o = p /\ now >= nextPrune[p]
    <3>1. nextPrune'[p] = now + Window
      BY <1>0, <1>9, <2>3
    <3>2. ASSUME NEW k \in LimitKeys
          PROVE  windows'[p][k] = NoWindow \/ now + Window - windows'[p][k].at < 2 * Window
      <4>1. CASE k = key
        BY <1>0, <1>10, <1>13, <4>1
      <4>2. CASE k # key
        <5>1. pruned[k] = NoWindow \/ now - pruned[k].at < Window
          BY <1>4, <2>3, PrunedWindows
        <5>2. windows'[p][k] = pruned[k] /\ pruned[k].at \in Int
          BY <1>12, <4>2, WindowTypes
        <5> QED  BY <1>0, <5>1, <5>2
      <4> QED  BY <4>1, <4>2
    <3>3. ASSUME NEW i \in DOMAIN hits' PROVE hits'[i].time < now + Window
      <4>1. CASE i = Len(hits) + 1
        BY <1>0, <1>11, <2>1, <4>1
      <4>2. CASE i \in DOMAIN hits
        <5>1. hits'[i] = hits[i] /\ hits[i].time \in Nat /\ hits[i].time <= now
          BY <1>0, <2>1, <4>2, HistoryTypes DEF RateInv, HitsInv, WellCounted
        <5> QED  BY <1>0, <5>1
      <4> QED  BY <2>1, <4>1, <4>2
    <3>4. nextPrune'[p] <= now' + Window
      BY <1>0, <2>0, <3>1
    <3>5. \A k \in LimitKeys : windows'[p][k] = NoWindow \/ nextPrune'[p] - windows'[p][k].at < 2 * Window
      <4>1. \A k \in LimitKeys : windows'[p][k].at \in Int
        BY <1>1, <1>12, WindowTypes
      <4> QED  BY <1>0, <3>1, <3>2, <4>1
    <3>6. \A i \in DOMAIN hits' : hits'[i].place = p => hits'[i].time < nextPrune'[p]
      BY <3>1, <3>3
    <3> QED  BY <2>3, <3>4, <3>5, <3>6 DEF Forgets
  <2>4. CASE o = p /\ ~(now >= nextPrune[p])
    <3>1. nextPrune'[p] = nextPrune[p] /\ now < nextPrune[p] /\ nextPrune[p] <= now + Window
      BY <1>0, <1>9, <2>0, <2>4 DEF Forgets
    <3>2. ASSUME NEW k \in LimitKeys
          PROVE  windows'[p][k] = NoWindow \/ nextPrune[p] - windows'[p][k].at < 2 * Window
      <4>1. CASE k = key
        <5>1. b = now \/ (b = w.at /\ w # NoWindow)
          BY <1>6, <1>7, <1>8
        <5>2. CASE b = now
          BY <1>0, <1>13, <2>0, <2>4, <3>1, <4>1, <5>2
        <5>3. CASE b = w.at /\ w # NoWindow
          BY <1>2, <1>13, <2>0, <2>4, <4>1, <5>3 DEF Forgets
        <5> QED  BY <5>1, <5>2, <5>3
      <4>2. CASE k # key
        <5>1. windows'[p][k] = windows[p][k]
          BY <1>4, <1>12, <2>4, <4>2, PrunedWindows
        <5> QED  BY <2>0, <2>4, <5>1 DEF Forgets
      <4> QED  BY <4>1, <4>2
    <3>3. ASSUME NEW i \in DOMAIN hits', hits'[i].place = p PROVE hits'[i].time < nextPrune[p]
      <4>1. CASE i = Len(hits) + 1
        BY <1>11, <2>1, <3>1, <4>1
      <4>2. CASE i \in DOMAIN hits
        BY <2>0, <2>1, <2>4, <3>3, <4>2 DEF Forgets
      <4> QED  BY <2>1, <4>1, <4>2
    <3>4. nextPrune'[p] <= now' + Window
      BY <2>0, <3>1
    <3> QED  BY <2>4, <3>1, <3>2, <3>3, <3>4 DEF Forgets
  <2> QED  BY <2>2, <2>3, <2>4
<1>17. p = "redis" <=> inRedis
  BY <1>1
<1>18. Continues(hits, inRedis, p, key, b, n)
  BY <1>1, <1>10
<1> QED  BY <1>1, <1>10, <1>11, <1>12, <1>13, <1>14, <1>15, <1>16, <1>17, <1>18, HitStep

LEMMA RedisStep ==
    ASSUME RateInv, Len(hits) < MaxHits, NEW p \in Limiters, NEW key \in LimitKeys, NEW limit \in Limits,
           CountInRedis(p, key, limit)
    PROVE  RateInv'
<1>0. /\ now \in Nat /\ Window \in Nat /\ Window > 0 /\ MaxNow \in Nat /\ now <= MaxNow
      /\ hits \in Seq(HitRecords) /\ Len(hits) \in Nat /\ ForeignCount \in Nat
      /\ windows \in [Places -> [LimitKeys -> WindowRecords]]
      /\ nextPrune \in [Limiters -> 0..(MaxNow + Window)]
  BY RateTypes, RateAssumed
<1>1. /\ "redis" \in Places /\ inRedis = TRUE /\ PlaceOfCounts(p) = "redis"
      /\ UNCHANGED <<now, inRedis, nextPrune>>
  BY RateTypes DEF CountInRedis, PlaceOfCounts
<1>2. PICK w : w = windows["redis"][key]
  OBVIOUS
<1>3. Current(hits, TRUE, now, "redis", key, w) /\ w \in WindowRecords
  BY <1>0, <1>1, <1>2 DEF RateInv
<1>4. PICK found : found = IF Expired(w) THEN NoWindow ELSE w
  OBVIOUS
<1>5. PICK until : until = IF found.at < 0 THEN now + Window ELSE found.at
  OBVIOUS
<1>6. PICK n, b : n = found.count + 1 /\ b = until - Window
  OBVIOUS
<1>7. /\ windows' = [windows EXCEPT !["redis"][key] = [count |-> n, at |-> until]]
      /\ Hit(p, key, limit, n, b)
  BY <1>2, <1>4, <1>5, <1>6 DEF CountInRedis
<1>8. /\ n \in Nat \ {0} /\ b \in 0..now /\ until \in Nat /\ until = b + Window /\ now < until
      /\ Continues(hits, TRUE, "redis", key, b, n)
  <2>0. w.count \in Nat /\ w.at \in Int /\ w.count + 1 \in Nat \ {0}
    <3>1. w.count \in Nat /\ w.at \in Int
      BY <1>3, WindowTypes
    <3> QED  BY <3>1
  <2>1. CASE w.at >= 0 /\ now >= w.at
    <3>1. found = NoWindow
      BY <1>4, <2>1 DEF Expired
    <3>2. n = 1 /\ until = now + Window
      BY <1>5, <1>6, <3>1 DEF NoWindow
    <3>3. b = now /\ now \in 0..now /\ now < until /\ until \in Nat
      BY <1>0, <1>6, <3>2
    <3>4. Continues(hits, TRUE, "redis", key, now, 1)
      BY <1>0, <1>3, <2>1, RedisContinues
    <3>5. 1 \in Nat \ {0} /\ until = b + Window
      BY <3>2, <3>3
    <3> QED  BY <3>2, <3>3, <3>4, <3>5
  <2>2. CASE ~(w.at >= 0)
    <3>1. found = w /\ found.at < 0
      BY <1>4, <2>0, <2>2 DEF Expired
    <3>2. n = w.count + 1 /\ until = now + Window
      BY <1>5, <1>6, <3>1
    <3>3. b = now /\ now \in 0..now /\ now < until /\ until \in Nat
      BY <1>0, <1>6, <3>2
    <3>4. Continues(hits, TRUE, "redis", key, now, w.count + 1)
      BY <1>0, <1>3, <2>2, RedisContinues
    <3>5. until = b + Window
      BY <3>2, <3>3
    <3> QED  BY <2>0, <3>2, <3>3, <3>4, <3>5
  <2>3. CASE w.at >= 0 /\ ~(now >= w.at)
    <3>1. found = w /\ ~(found.at < 0)
      BY <1>4, <2>0, <2>3 DEF Expired
    <3>2. n = w.count + 1 /\ until = w.at /\ b = w.at - Window
      BY <1>5, <1>6, <3>1
    <3>3. Continues(hits, TRUE, "redis", key, w.at - Window, w.count + 1) /\ w.at - Window \in 0..now
      BY <1>0, <1>3, <2>3, RedisContinues
    <3>4. until \in Nat /\ until = b + Window /\ now < until
      BY <1>0, <2>0, <2>3, <3>2
    <3> QED  BY <2>0, <3>2, <3>3, <3>4
  <2> QED  BY <2>1, <2>2, <2>3
<1>9. PICK h \in HitRecords :
         /\ h.time = now /\ h.key = key /\ h.place = "redis" /\ h.count = n /\ h.since = b
         /\ h.allowed <=> h.count <= h.limit
         /\ hits' = Append(hits, h)
  BY <1>1, <1>7, <1>8, HitFields DEF Continues
<1>10. /\ windows' \in [Places -> [LimitKeys -> WindowRecords]]
       /\ windows'["redis"][key] = [count |-> n, at |-> until]
       /\ \A r \in Places, k \in LimitKeys : ~(r = "redis" /\ k = key) => windows'[r][k] = windows[r][k]
  <2>1. n \in 0..(ForeignCount + MaxHits) /\ until \in (0 - 1)..(MaxNow + Window)
    BY <1>0, <1>8, RateAssumed DEF Continues
  <2>2. [count |-> n, at |-> until] \in WindowRecords
    BY <2>1 DEF WindowRecords
  <2> QED  BY <1>0, <1>1, <1>7, <2>2
<1>11. /\ windows'["redis"][key].count = n /\ windows'["redis"][key].at # 0 - 1
       /\ SinceOf("redis", windows'["redis"][key]) = b
  <2>1. windows'["redis"][key].count = n /\ windows'["redis"][key].at = until
    BY <1>10
  <2> QED  BY <1>6, <1>8, <2>1 DEF SinceOf
<1>12. nextPrune' \in [Limiters -> 0..(MaxNow + Window)]
  BY <1>0, <1>1
<1>13. now < b + Window /\ Continues(hits, inRedis, "redis", key, b, n)
  BY <1>1, <1>8
<1>14. \A r \in Places, k \in LimitKeys :
          \/ r = "redis" /\ k = key
          \/ windows'[r][k] = windows[r][k]
          \/ windows'[r][k] = NoWindow /\ r # "redis" /\ now - windows[r][k].at >= Window
  BY <1>10
<1>15. PICK q \in Places : q = "redis"
  BY <1>1
<1>16. /\ q = "redis" <=> inRedis
       /\ h.place = q /\ Continues(hits, inRedis, q, key, b, n)
       /\ windows'[q][key].count = n /\ windows'[q][key].at # 0 - 1 /\ SinceOf(q, windows'[q][key]) = b
  BY <1>1, <1>9, <1>11, <1>13, <1>15
<1>17. \A r \in Places, k \in LimitKeys :
          \/ r = q /\ k = key
          \/ windows'[r][k] = windows[r][k]
          \/ windows'[r][k] = NoWindow /\ r # "redis" /\ now - windows[r][k].at >= Window
  BY <1>14, <1>15
<1>18. /\ ~inRedis => \A o \in Limiters : Forgets(o)'
       /\ windows' \in [Places -> [LimitKeys -> WindowRecords]]
       /\ b \in 0..now /\ now < b + Window /\ UNCHANGED <<now, inRedis>>
  BY <1>1, <1>8, <1>10, <1>13
<1> QED  BY <1>9, <1>12, <1>16, <1>17, <1>18, HitStep

LEMMA TimeStep == ASSUME RateInv, TimePasses PROVE RateInv'
<1>0. /\ now \in Nat /\ now \in 0..MaxNow /\ MaxNow \in Nat /\ hits \in Seq(HitRecords) /\ inRedis \in BOOLEAN
      /\ Window \in Nat /\ nextPrune \in [Limiters -> 0..(MaxNow + Window)]
  BY RateTypes, RateAssumed
<1>1. now < MaxNow /\ now' = now + 1 /\ UNCHANGED <<inRedis, windows, nextPrune, hits>>
  BY DEF TimePasses
<1>2. HitsInv(hits', inRedis', now')
  BY <1>0, <1>1, TimeKeeps DEF RateInv
<1>3. ASSUME NEW q \in Places, NEW k \in LimitKeys
      PROVE  Current(hits', inRedis', now', q, k, windows'[q][k])
  <2>1. PICK w : w = windows[q][k] /\ Current(hits, inRedis, now, q, k, w)
    BY DEF RateInv
  <2>2. Current(hits, inRedis, now + 1, q, k, w)
    BY <1>0, <2>1, TimeKeeps
  <2> QED  BY <1>1, <2>1, <2>2
<1>4. ASSUME NEW p \in Limiters, ~inRedis PROVE Forgets(p)'
  <2>1. Forgets(p) /\ nextPrune[p] \in Nat
    BY <1>0, <1>4 DEF RateInv
  <2> QED  BY <1>0, <1>1, <2>1 DEF Forgets
<1>5. now' \in 0..MaxNow
  BY <1>0, <1>1
<1>6. RateTypeOK'
  BY <1>1, <1>5 DEF RateInv, RateTypeOK
<1>7. ~inRedis' => \A p \in Limiters : Forgets(p)'
  BY <1>1, <1>4
<1> QED  BY <1>2, <1>3, <1>6, <1>7 DEF RateInv

LEMMA RateStep == ASSUME RateInv, [RateNext]_rateVars PROVE RateInv'
<1>1. CASE TimePasses
  BY <1>1, TimeStep
<1>2. ASSUME Len(hits) < MaxHits, NEW p \in Limiters, NEW key \in LimitKeys, NEW limit \in Limits,
             CountInMemory(p, key, limit) \/ CountInRedis(p, key, limit)
      PROVE  RateInv'
  BY <1>2, MemoryStep, RedisStep
<1>3. CASE UNCHANGED rateVars
  BY <1>3 DEF RateInv, rateVars, RateTypeOK, Forgets
<1> QED  BY <1>1, <1>2, <1>3 DEF RateNext

THEOREM RateInvariant == RateSpec => []RateInv
<1>1. RateInit => RateInv
  BY InitRateInv
<1>2. RateInv /\ [RateNext]_rateVars => RateInv'
  BY RateStep
<1> QED  BY <1>1, <1>2, PTL DEF RateSpec

(* The clock, the windows and the history keep their types.                 *)
THEOREM RateTypeCorrect == RateSpec => []RateTypeOK
<1>1. RateInv => RateTypeOK
  BY DEF RateInv
<1> QED  BY <1>1, RateInvariant, PTL

(* Whatever a process holds when it has just counted is less than two       *)
(* windows old, for any window.                                             *)
THEOREM OldWindowsAreForgotten == RateSpec => []WindowsAreForgotten
<1>1. ASSUME RateInv PROVE WindowsAreForgotten
  <2> SUFFICES ASSUME NEW i \in DOMAIN hits, ~inRedis, NEW key \in LimitKeys
               PROVE  \/ windows[hits[i].place][key] = NoWindow
                      \/ hits[i].time - windows[hits[i].place][key].at < 2 * Window
    BY DEF WindowsAreForgotten
  <2>1. PICK p : p = hits[i].place
    OBVIOUS
  <2>2. p \in Limiters
    BY <1>1, <2>1, RateTypes, HistoryTypes DEF RateInv, HitsInv, WellCounted, Places
  <2>3. /\ hits[i].time \in Nat /\ nextPrune[p] \in Int /\ windows[p][key].at \in Int
        /\ Window \in Nat
    <3>1. windows[p][key] \in WindowRecords /\ nextPrune[p] \in 0..(MaxNow + Window)
      BY <1>1, <2>2, RateTypes
    <3> QED  BY <1>1, <3>1, RateTypes, HistoryTypes, WindowTypes, RateAssumed
  <2>4. /\ hits[i].time < nextPrune[p]
        /\ windows[p][key] = NoWindow \/ nextPrune[p] - windows[p][key].at < 2 * Window
    BY <1>1, <2>1, <2>2 DEF RateInv, Forgets
  <2> QED  BY <2>1, <2>3, <2>4
<1> QED  BY <1>1, RateInvariant, PTL
------------------------------------------------------------------------------
(* Requests that one window lets through are counted from 1 to the limit.   *)
LEMMA OneWindow ==
    ASSUME NEW H \in Seq(HitRecords), NEW redis, NEW t, HitsInv(H, redis, t), NEW q, NEW k, NEW since,
           NEW limit \in Nat,
           NEW S, \A i \in S : /\ i \in DOMAIN H /\ At(H, q, k, i) /\ H[i].since = since
                               /\ H[i].limit = limit /\ H[i].allowed
    PROVE  IsFiniteSet(S) /\ Cardinality(S) \in Nat /\ Cardinality(S) <= limit
<1>1. ASSUME NEW i \in S PROVE H[i].count \in 1..limit
  <2>1. i \in DOMAIN H /\ H[i].count \in Nat /\ H[i].count > 0 /\ H[i].limit = limit
    BY HistoryTypes
  <2>2. H[i].count <= H[i].limit
    BY <2>1 DEF HitsInv, WellCounted
  <2> QED  BY <2>1, <2>2
<1>2. ASSUME NEW i \in S, NEW j \in S, H[i].count = H[j].count PROVE i = j
  <2>1. i \in DOMAIN H /\ j \in DOMAIN H /\ At(H, q, k, i) /\ At(H, q, k, j) /\ H[i].since = H[j].since
    OBVIOUS
  <2> QED  BY <1>2, <2>1 DEF HitsInv, Apart, At
<1>3. PICK f : f = [i \in S |-> H[i].count]
  OBVIOUS
<1>4. f \in Injection(S, 1..limit)
  BY <1>1, <1>2, <1>3 DEF Injection, IsInjective
<1>5. IsFiniteSet(1..limit) /\ Cardinality(1..limit) = limit
  BY FS_Interval
<1>6. IsFiniteSet(S) /\ Cardinality(S) <= limit
  BY <1>4, <1>5, FS_Injection
<1> QED  BY <1>6, FS_CardinalityType

LEMMA AtMostTwice == ASSUME RateInv PROVE TwiceTheLimit
<1> SUFFICES ASSUME NEW place \in Places, NEW key \in LimitKeys, NEW t \in 0..now, NEW limit \in Limits
             PROVE  Cardinality({i \in During(place, key, t) : hits[i].limit = limit /\ hits[i].allowed}) <= 2 * limit
  BY DEF TwiceTheLimit
<1>0. /\ hits \in Seq(HitRecords) /\ HitsInv(hits, inRedis, now) /\ limit \in Nat /\ t \in Nat
      /\ Window \in Nat /\ Window > 0
  BY RateTypes, RateAssumed DEF RateInv
<1>1. PICK S : S = {i \in During(place, key, t) : hits[i].limit = limit /\ hits[i].allowed}
  OBVIOUS
<1>2. ASSUME NEW i \in S
      PROVE  /\ i \in DOMAIN hits /\ At(hits, place, key, i) /\ hits[i].limit = limit /\ hits[i].allowed
             /\ hits[i].since \in Nat /\ t < hits[i].since + Window /\ hits[i].since < t + Window
  <2>1. /\ i \in DOMAIN hits /\ hits[i].place = place /\ hits[i].key = key /\ hits[i].limit = limit
        /\ hits[i].allowed /\ hits[i].time >= t /\ hits[i].time < t + Window
    BY <1>1 DEF During
  <2>2. /\ hits[i].since <= hits[i].time /\ hits[i].time < hits[i].since + Window
        /\ hits[i].time \in Nat /\ hits[i].since \in Nat
    BY <1>0, <2>1, HistoryTypes DEF HitsInv, WellCounted
  <2> QED  BY <1>0, <2>1, <2>2 DEF At
<1>3. ASSUME NEW i \in S, NEW j \in S
      PROVE  \/ hits[i].since = hits[j].since
             \/ hits[i].since + Window <= hits[j].since
             \/ hits[j].since + Window <= hits[i].since
  BY <1>0, <1>2 DEF HitsInv, Apart, At
<1>4. \E a, b : \A i \in S : hits[i].since \in {a, b}
  <2>1. CASE \E i, j \in S : hits[i].since + Window <= hits[j].since
    <3>1. PICK i, j \in S : hits[i].since + Window <= hits[j].since
      BY <2>1
    <3>2. ASSUME NEW l \in S PROVE hits[l].since \in {hits[i].since, hits[j].since}
      <4>1. /\ hits[i].since \in Nat /\ hits[j].since \in Nat /\ hits[l].since \in Nat
            /\ t < hits[i].since + Window /\ hits[j].since < t + Window
            /\ t < hits[l].since + Window /\ hits[l].since < t + Window
        BY <1>2, <3>1
      <4>2. /\ \/ hits[i].since = hits[l].since
               \/ hits[i].since + Window <= hits[l].since
               \/ hits[l].since + Window <= hits[i].since
            /\ \/ hits[j].since = hits[l].since
               \/ hits[j].since + Window <= hits[l].since
               \/ hits[l].since + Window <= hits[j].since
        BY <1>3, <3>1
      <4>3. PICK x \in Nat, y \in Nat, z \in Nat :
               x = hits[i].since /\ y = hits[j].since /\ z = hits[l].since
        BY <4>1
      <4>4. /\ x + Window <= y /\ t < x + Window /\ y < t + Window /\ t < z + Window /\ z < t + Window
            /\ x = z \/ x + Window <= z \/ z + Window <= x
            /\ y = z \/ y + Window <= z \/ z + Window <= y
        BY <3>1, <4>1, <4>2, <4>3
      <4>5. z = x \/ z = y
        BY <1>0, <4>4
      <4> QED  BY <4>3, <4>5
    <3> QED  BY <3>2
  <2>2. CASE ~\E i, j \in S : hits[i].since + Window <= hits[j].since
    <3>1. \A i, j \in S : hits[i].since = hits[j].since
      BY <1>3, <2>2
    <3>2. CASE S = {}
      BY <3>2
    <3>3. CASE S # {}
      <4>1. PICK i \in S : TRUE
        BY <3>3
      <4> QED  BY <3>1, <4>1
    <3> QED  BY <3>2, <3>3
  <2> QED  BY <2>1, <2>2
<1>5. PICK a, b : \A i \in S : hits[i].since \in {a, b}
  BY <1>4
<1>6. PICK A : A = {i \in S : hits[i].since = a}
  OBVIOUS
<1>7. PICK B : B = {i \in S : hits[i].since = b}
  OBVIOUS
<1>8. /\ IsFiniteSet(A) /\ Cardinality(A) \in Nat /\ Cardinality(A) <= limit
      /\ IsFiniteSet(B) /\ Cardinality(B) \in Nat /\ Cardinality(B) <= limit
  <2>1. \A i \in A : /\ i \in DOMAIN hits /\ At(hits, place, key, i) /\ hits[i].since = a
                     /\ hits[i].limit = limit /\ hits[i].allowed
    BY <1>2, <1>6
  <2>2. \A i \in B : /\ i \in DOMAIN hits /\ At(hits, place, key, i) /\ hits[i].since = b
                     /\ hits[i].limit = limit /\ hits[i].allowed
    BY <1>2, <1>7
  <2>3. IsFiniteSet(A) /\ Cardinality(A) \in Nat /\ Cardinality(A) <= limit
    BY <1>0, <2>1, OneWindow
  <2>4. IsFiniteSet(B) /\ Cardinality(B) \in Nat /\ Cardinality(B) <= limit
    BY <1>0, <2>2, OneWindow
  <2> QED  BY <2>3, <2>4
<1>9. S = A \cup B
  BY <1>5, <1>6, <1>7
<1>10. /\ IsFiniteSet(A \cap B) /\ Cardinality(A \cap B) \in Nat
  <2>1. A \cap B \in SUBSET A
    OBVIOUS
  <2> QED  BY <1>8, <2>1, FS_Subset, FS_CardinalityType
<1>11. Cardinality(S) = Cardinality(A) + Cardinality(B) - Cardinality(A \cap B)
  BY <1>8, <1>9, FS_Union
<1>12. Cardinality(S) <= 2 * limit
  BY <1>0, <1>8, <1>10, <1>11
<1> QED  BY <1>1, <1>12

(* Distinct counts are distinct requests.                                   *)
LEMMA CountsAreRequests ==
    ASSUME NEW H \in Seq(HitRecords), NEW a \in Nat, NEW b \in Nat, a <= b, NEW S, IsFiniteSet(S),
           \A n \in (a + 1)..b : \E j \in S : H[j].count = n
    PROVE  Cardinality(S) \in Nat /\ Cardinality(S) >= b - a
<1>1. PICK f : f = [n \in (a + 1)..b |-> CHOOSE j \in S : H[j].count = n]
  OBVIOUS
<1>2. \A n \in (a + 1)..b : f[n] \in S /\ H[f[n]].count = n
  BY <1>1
<1>3. f \in Injection((a + 1)..b, S)
  BY <1>1, <1>2 DEF Injection, IsInjective
<1>4. Cardinality((a + 1)..b) = b - a
  <2>1. a + 1 \in Int /\ b \in Int
    OBVIOUS
  <2>2. Cardinality((a + 1)..b) = IF a + 1 > b THEN 0 ELSE b - (a + 1) + 1
    BY <2>1, FS_Interval
  <2> QED  BY <2>2
<1>5. Cardinality((a + 1)..b) <= Cardinality(S)
  BY <1>3, FS_Injection
<1> QED  BY <1>4, <1>5, FS_CardinalityType

LEMMA Earned == ASSUME RateInv PROVE RefusalsAreEarned
<1> SUFFICES ASSUME NEW i \in DOMAIN hits, ~hits[i].allowed
             PROVE  Cardinality(Before(i))
                    + (IF inRedis /\ \E j \in Before(i) \cup {i} : FirstOfItsKey(j) THEN ForeignCount ELSE 0)
                    >= hits[i].limit
  BY DEF RefusalsAreEarned
<1>0. /\ hits \in Seq(HitRecords) /\ HitsInv(hits, inRedis, now) /\ inRedis \in BOOLEAN
      /\ Window \in Nat /\ Window > 0 /\ ForeignCount \in Nat
      /\ i \in Nat /\ i \in DOMAIN hits /\ DOMAIN hits = 1..Len(hits) /\ Len(hits) \in Nat
  BY RateTypes, RateAssumed, HistoryTypes DEF RateInv
<1>1. PICK q, k, since : q = hits[i].place /\ k = hits[i].key /\ since = hits[i].since
  OBVIOUS
<1>2. PICK limit \in Nat : limit = hits[i].limit
  BY <1>0, HistoryTypes
<1>3. limit < hits[i].count /\ hits[i].count \in Nat
  BY <1>0, <1>2, HistoryTypes DEF HitsInv, WellCounted
<1>4. ASSUME NEW n \in 1..limit PROVE Slot(hits, inRedis, q, k, since, n, i)
  <2>1. n \in 1..(hits[i].count - 1)
    BY <1>3
  <2> QED  BY <1>0, <1>1, <2>1 DEF HitsInv, Filled
<1>5. ASSUME NEW j \in DOMAIN hits, j < i, At(hits, q, k, j), hits[j].since = since PROVE j \in Before(i)
  <2>1. /\ hits[j].time \in Nat /\ hits[i].time \in Nat /\ since \in Nat
        /\ hits[j].time <= hits[i].time /\ since <= hits[j].time /\ hits[i].time < since + Window
    BY <1>0, <1>1, <1>5, HistoryTypes DEF HitsInv, WellCounted
  <2>2. hits[j].time >= hits[i].time - Window + 1 /\ hits[j].time < hits[i].time - Window + 1 + Window
    BY <1>0, <2>1
  <2> QED  BY <1>1, <1>5, <2>2 DEF Before, During, At
<1>6. PICK S : S = Before(i)
  OBVIOUS
<1>7. IsFiniteSet(S)
  <2>1. S \in SUBSET (1..Len(hits))
    BY <1>0, <1>6 DEF Before, During
  <2>2. IsFiniteSet(1..Len(hits))
    BY <1>0, FS_Interval
  <2> QED  BY <2>1, <2>2, FS_Subset
<1>8. \A j \in DOMAIN hits : FirstOfItsKey(j) <=> First(hits, j)
  BY DEF FirstOfItsKey, First
<1>9. CASE inRedis /\ \E j \in S \cup {i} : FirstOfItsKey(j)
  <2>1. CASE ForeignCount <= limit
    <3>1. ASSUME NEW n \in (ForeignCount + 1)..limit PROVE \E j \in S : hits[j].count = n
      <4>1. n \in 1..limit /\ ~(n <= ForeignCount)
        BY <1>0
      <4> QED  BY <1>4, <1>5, <1>6, <4>1 DEF Slot
    <3>2. Cardinality(S) \in Nat /\ Cardinality(S) >= limit - ForeignCount
      BY <1>0, <1>7, <2>1, <3>1, CountsAreRequests
    <3>3. Cardinality(S) + ForeignCount >= limit
      BY <1>0, <3>2
    <3> QED  BY <1>2, <1>6, <1>9, <3>3
  <2>2. CASE ~(ForeignCount <= limit)
    <3>1. Cardinality(S) \in Nat
      BY <1>7, FS_CardinalityType
    <3>2. Cardinality(S) + ForeignCount >= limit
      BY <1>0, <2>2, <3>1
    <3> QED  BY <1>2, <1>6, <1>9, <3>2
  <2> QED  BY <2>1, <2>2
<1>10. CASE ~(inRedis /\ \E j \in S \cup {i} : FirstOfItsKey(j))
  <2>1. ASSUME NEW n \in 1..limit PROVE \E j \in S : hits[j].count = n
    <3>1. CASE \E j \in DOMAIN hits : j < i /\ At(hits, q, k, j) /\ hits[j].since = since /\ hits[j].count = n
      BY <1>5, <1>6, <3>1
    <3>2. CASE /\ n <= ForeignCount /\ inRedis
               /\ \E j \in DOMAIN hits : j <= i /\ At(hits, q, k, j) /\ hits[j].since = since /\ First(hits, j)
      <4>1. PICK j \in DOMAIN hits : j <= i /\ At(hits, q, k, j) /\ hits[j].since = since /\ First(hits, j)
        BY <3>2
      <4>2. j \in S \cup {i}
        BY <1>0, <1>5, <1>6, <4>1
      <4> QED  BY <1>8, <1>10, <3>2, <4>1, <4>2
    <3>3. Slot(hits, inRedis, q, k, since, n, i)
      BY <1>4, <2>1
    <3> QED  BY <3>1, <3>2, <3>3 DEF Slot
  <2>2. Cardinality(S) \in Nat /\ Cardinality(S) >= limit - 0
    <3>1. 0 \in Nat /\ 0 <= limit /\ (0 + 1)..limit = 1..limit
      OBVIOUS
    <3>2. \A n \in (0 + 1)..limit : \E j \in S : hits[j].count = n
      BY <2>1, <3>1
    <3> QED  BY <1>0, <1>7, <3>1, <3>2, CountsAreRequests
  <2>3. Cardinality(S) + 0 >= limit
    BY <2>2
  <2> QED  BY <1>2, <1>6, <1>10, <2>3
<1> QED  BY <1>6, <1>9, <1>10

(* For any limits, window and number of processes: no interval as long as a *)
(* window admits more than twice a limit, and nobody is refused before the  *)
(* limit is reached (rate_limiter.py 76-95).                                *)
THEOREM LimitIsAlwaysKept == RateSpec => []LimitIsKept
<1>1. RateInv => LimitIsKept
  BY AtMostTwice, Earned DEF LimitIsKept
<1> QED  BY <1>1, RateInvariant, PTL

------------------------------------------------------------------------------
(* Contexts                                                                 *)

Futures == {"none", "pending", "done", "failed", "cancelled"}

CopyRecords == [from : Copies \cup {"none", "request"}, carried : Answers \cup {NoAnswer},
                future : Futures, answer : Answers \cup {NoAnswer}, resolved : 0..1]

AwaiterRecords == [on : Copies \cup {"none"}, pc : {"idle", "waiting", "got", "raised", "cancelled"},
          got : Answers \cup {NoAnswer}, cancelled : BOOLEAN]

(* A future that is done has an answer, and keeps what it was given; one    *)
(* that was given its value never resolves.                                 *)
Settled(i) ==
    /\ ~Made(i) => copies[i].carried = NoAnswer /\ copies[i].future = "none"
    /\ copies[i].future = "none" => copies[i].resolved = 0
    /\ copies[i].future = "done" => copies[i].answer \in Answers
    /\ copies[i].future # "done" => copies[i].answer = NoAnswer
    /\ copies[i].carried # NoAnswer => /\ copies[i].resolved = 0
                                       /\ copies[i].future \in {"none", "done"}
                                       /\ copies[i].future = "done" => copies[i].answer = copies[i].carried

(* What a task was given is what its future was given.                      *)
Attached(t) ==
    /\ awaiters[t].pc = "idle" => ~awaiters[t].cancelled
    /\ awaiters[t].pc # "idle" => awaiters[t].on \in Copies /\ Made(awaiters[t].on)
                                  /\ copies[awaiters[t].on].future # "none"
    /\ awaiters[t].pc = "got" => /\ copies[awaiters[t].on].future = "done"
                                 /\ awaiters[t].got = copies[awaiters[t].on].answer
    /\ awaiters[t].pc = "cancelled" =>
          awaiters[t].cancelled \/ copies[awaiters[t].on].future = "cancelled"

(* A copy carries what its original was given before it was made.           *)
Inherited(j) ==
    copies[j].from \in Copies =>
        LET i == copies[j].from
        IN /\ Made(i)
           /\ copies[j].carried # NoAnswer =>
                \/ copies[j].carried = copies[i].carried
                \/ copies[i].future = "done" /\ copies[j].carried = copies[i].answer
           /\ kind = "deferred" => copies[j].carried # NoAnswer

(* A future is cancelled for a task that awaits it.                         *)
CancelledFor(i) ==
    copies[i].future = "cancelled" => \E t \in Awaiters : awaiters[t].cancelled /\ awaiters[t].on = i

(* A deferred value is what the request's own context resolved.             *)
OneSource ==
    kind = "deferred" =>
        \A j \in Copies : Made(j) /\ j # FirstCopy =>
            copies[FirstCopy].future = "done" /\ copies[j].carried = copies[FirstCopy].answer

ContextsInv ==
    /\ ContextsTypeOK
    /\ copies[FirstCopy].from = "request" /\ copies[FirstCopy].carried = NoAnswer
    /\ \A j \in Copies : copies[j].from = "request" => j = FirstCopy
    /\ \A i \in Copies : Settled(i) /\ Inherited(i) /\ CancelledFor(i)
    /\ \A t \in Awaiters : Attached(t)
    /\ OneSource

LEMMA InitContextsInv == ContextsInit => ContextsInv
<1> SUFFICES ASSUME ContextsInit PROVE ContextsInv
  OBVIOUS
<1>1. /\ \A i \in Copies : copies[i] = IF i = FirstCopy THEN [NoCopy EXCEPT !.from = "request"] ELSE NoCopy
      /\ \A t \in Awaiters : awaiters[t] = NoTask
  BY DEF ContextsInit
<1>2. /\ [NoCopy EXCEPT !.from = "request"] \in CopyRecords /\ NoCopy \in CopyRecords /\ NoTask \in AwaiterRecords
      /\ [NoCopy EXCEPT !.from = "request"].from = "request" /\ NoCopy.from = "none"
  BY DEF NoCopy, NoTask, CopyRecords, AwaiterRecords, Futures
<1>3. ContextsTypeOK
  <2>1. copies \in [Copies -> CopyRecords] /\ awaiters \in [Awaiters -> AwaiterRecords]
    BY <1>2 DEF ContextsInit
  <2> QED  BY <2>1, ContextsAssumption DEF ContextsInit, ContextsTypeOK, CopyRecords, AwaiterRecords, Futures
<1>4. ASSUME NEW i \in Copies
      PROVE  /\ copies[i].from = IF i = FirstCopy THEN "request" ELSE "none"
             /\ copies[i].carried = NoAnswer /\ copies[i].future = "none" /\ copies[i].answer = NoAnswer
             /\ copies[i].resolved = 0
  BY <1>1 DEF NoCopy
<1>5. \A i \in Copies : Settled(i) /\ Inherited(i) /\ CancelledFor(i)
  BY <1>4, ContextsAssumption DEF Settled, Inherited, CancelledFor
<1>6. \A t \in Awaiters : Attached(t)
  BY <1>1 DEF NoTask, Attached
<1>7. OneSource
  BY <1>4 DEF OneSource, Made
<1> QED  BY <1>3, <1>4, <1>5, <1>6, <1>7, ContextsAssumption DEF ContextsInv

LEMMA ContextsTypes ==
    ASSUME ContextsTypeOK
    PROVE  copies \in [Copies -> CopyRecords] /\ awaiters \in [Awaiters -> AwaiterRecords]
BY DEF ContextsTypeOK, CopyRecords, AwaiterRecords, Futures

(* A step at the future of one copy: what was given stays, and what was not *)
(* yet known may become known.                                              *)
LEMMA FutureStep ==
    ASSUME ContextsInv, NEW i \in Copies, NEW c \in CopyRecords, Made(i),
           copies' = [copies EXCEPT ![i] = c],
           c.from = copies[i].from, c.carried = copies[i].carried,
           copies[i].future = "done" => c = copies[i],
           copies[i].future # "none" => c.future # "none",
           copies[i].future = "cancelled" => c.future = "cancelled",
           UNCHANGED <<kind, sync, truth, changes>>,
           awaiters' \in [Awaiters -> AwaiterRecords],
           Settled(i)', CancelledFor(i)',
           \A j \in Copies : j # i => CancelledFor(j)',
           \A t \in Awaiters : Attached(t)'
    PROVE  ContextsInv'
<1>0. copies \in [Copies -> CopyRecords] /\ copies' \in [Copies -> CopyRecords]
  BY ContextsTypes DEF ContextsInv
<1>1. ContextsTypeOK'
  BY <1>0 DEF ContextsInv, ContextsTypeOK, CopyRecords, AwaiterRecords, Futures
<1>2. /\ copies'[i] = c /\ \A j \in Copies : j # i => copies'[j] = copies[j]
  BY <1>0
<1>3. \A j \in Copies : /\ copies'[j].from = copies[j].from /\ copies'[j].carried = copies[j].carried
                        /\ copies[j].future = "done" => copies'[j] = copies[j]
                        /\ Made(j)' <=> Made(j)
  BY <1>2 DEF Made
<1>4. \A j \in Copies : Settled(j)' /\ CancelledFor(j)'
  BY <1>2 DEF ContextsInv, Settled, Made
<1>5. ASSUME NEW j \in Copies PROVE Inherited(j)'
  <2>1. Inherited(j)
    BY DEF ContextsInv
  <2> QED  BY <1>3, <2>1 DEF Inherited
<1>6. OneSource'
  BY <1>3, ContextsAssumption DEF ContextsInv, OneSource
<1> QED  BY <1>1, <1>3, <1>4, <1>5, <1>6, ContextsAssumption DEF ContextsInv

LEMMA AwaitKeeps ==
    ASSUME ContextsInv, NEW t \in Awaiters, NEW i \in Copies, Await(t, i)
    PROVE  ContextsInv'
<1> DEFINE waiting == [NoTask EXCEPT !.on = i, !.pc = "waiting"]
<1>0. /\ copies \in [Copies -> CopyRecords] /\ awaiters \in [Awaiters -> AwaiterRecords]
      /\ copies[i] \in CopyRecords /\ Made(i) /\ Settled(i) /\ truth \in Answers /\ NoAnswer \notin Answers
      /\ awaiters[t].pc = "idle"
  BY ContextsTypes, ContextsAssumption DEF ContextsInv, Await, ContextsTypeOK
<1>1. /\ waiting \in AwaiterRecords /\ waiting.on = i /\ waiting.pc = "waiting" /\ waiting.cancelled = FALSE
  BY DEF NoTask, AwaiterRecords
<1>2. UNCHANGED <<kind, sync, truth, changes>> /\ awaiters' = [awaiters EXCEPT ![t] = waiting]
  BY DEF Await
<1>3. PICK c \in CopyRecords :
        /\ copies' = [copies EXCEPT ![i] = c]
        /\ c.from = copies[i].from /\ c.carried = copies[i].carried /\ c.future # "none"
        /\ copies[i].future # "none" => c = copies[i]
        /\ c.future # "cancelled" \/ c = copies[i]
        /\ c.future = "done" => c.answer \in Answers
        /\ c.future # "done" => c.answer = NoAnswer
        /\ c.carried # NoAnswer => c.resolved = 0 /\ c.future = "done" /\ c.answer = c.carried
  <2>1. CASE copies[i].future # "none"
    <3>1. copies' = copies
      BY <2>1 DEF Await, EnsureFuture
    <3>2. copies' = [copies EXCEPT ![i] = copies[i]]
      BY <1>0, <3>1
    <3> QED  BY <1>0, <2>1, <3>2 DEF Settled
  <2>2. CASE copies[i].future = "none"
    <3> DEFINE Becomes(future, answer) ==
                 [from |-> copies[i].from, carried |-> copies[i].carried, future |-> future, answer |-> answer,
                  resolved |-> IF copies[i].carried = NoAnswer THEN copies[i].resolved + 1 ELSE copies[i].resolved]
    <3>1. \/ copies[i].carried # NoAnswer /\ copies' = [copies EXCEPT ![i] = Becomes("done", copies[i].carried)]
          \/ copies[i].carried = NoAnswer /\ copies' = [copies EXCEPT ![i] = Becomes("done", truth)]
          \/ copies[i].carried = NoAnswer /\ copies' = [copies EXCEPT ![i] = Becomes("pending", NoAnswer)]
      BY <1>0, <2>2 DEF Await, EnsureFuture
    <3>2. ASSUME NEW future \in Futures, NEW answer \in Answers \cup {NoAnswer}
          PROVE  LET c == Becomes(future, answer)
                 IN  /\ c \in CopyRecords /\ c.from = copies[i].from /\ c.carried = copies[i].carried
                     /\ c.future = future /\ c.answer = answer
                     /\ c.carried # NoAnswer => c.resolved = 0
      <4>1. copies[i].resolved = 0
        BY <1>0, <2>2 DEF Settled
      <4>2. (IF copies[i].carried = NoAnswer THEN copies[i].resolved + 1 ELSE copies[i].resolved) \in 0..1
        BY <4>1
      <4> QED  BY <1>0, <4>1, <4>2 DEF CopyRecords
    <3>3. copies[i].carried \in Answers \cup {NoAnswer}
      BY <1>0 DEF CopyRecords
    <3> HIDE DEF Becomes
    <3>4. CASE copies[i].carried # NoAnswer /\ copies' = [copies EXCEPT ![i] = Becomes("done", copies[i].carried)]
      <4> DEFINE c == Becomes("done", copies[i].carried)
      <4>1. /\ c \in CopyRecords /\ c.from = copies[i].from /\ c.carried = copies[i].carried
            /\ c.future = "done" /\ c.answer = copies[i].carried
            /\ c.carried # NoAnswer => c.resolved = 0
        BY <1>0, <3>2, <3>3 DEF Futures
      <4>2. copies' = [copies EXCEPT ![i] = c]
        BY <3>4
      <4> HIDE DEF c
      <4> QED  BY <1>0, <2>2, <3>3, <3>4, <4>1, <4>2
    <3>5. CASE copies[i].carried = NoAnswer /\ copies' = [copies EXCEPT ![i] = Becomes("done", truth)]
      <4> DEFINE c == Becomes("done", truth)
      <4>1. /\ c \in CopyRecords /\ c.from = copies[i].from /\ c.carried = copies[i].carried
            /\ c.future = "done" /\ c.answer = truth
            /\ c.carried # NoAnswer => c.resolved = 0
        BY <1>0, <3>2, <3>3 DEF Futures
      <4>2. copies' = [copies EXCEPT ![i] = c]
        BY <3>5
      <4> HIDE DEF c
      <4> QED  BY <1>0, <2>2, <3>5, <4>1, <4>2
    <3>6. CASE copies[i].carried = NoAnswer /\ copies' = [copies EXCEPT ![i] = Becomes("pending", NoAnswer)]
      <4> DEFINE c == Becomes("pending", NoAnswer)
      <4>1. /\ c \in CopyRecords /\ c.from = copies[i].from /\ c.carried = copies[i].carried
            /\ c.future = "pending" /\ c.answer = NoAnswer
            /\ c.carried # NoAnswer => c.resolved = 0
        BY <1>0, <3>2, <3>3 DEF Futures
      <4>2. copies' = [copies EXCEPT ![i] = c]
        BY <3>6
      <4> HIDE DEF c
      <4> QED  BY <1>0, <2>2, <3>6, <4>1, <4>2
    <3> QED  BY <3>1, <3>4, <3>5, <3>6
  <2> QED  BY <2>1, <2>2
<1> HIDE DEF waiting
<1>4. /\ copies'[i] = c /\ \A j \in Copies : j # i => copies'[j] = copies[j]
      /\ awaiters'[t] = waiting /\ \A u \in Awaiters : u # t => awaiters'[u] = awaiters[u]
      /\ awaiters' \in [Awaiters -> AwaiterRecords]
  BY <1>0, <1>1, <1>2, <1>3
<1>5. Settled(i)'
  BY <1>0, <1>3, <1>4 DEF Settled, Made
<1>6. ASSUME NEW j \in Copies PROVE CancelledFor(j)'
  <2>1. copies'[j].future = "cancelled" => copies[j].future = "cancelled"
    BY <1>3, <1>4
  <2>2. copies[j].future = "cancelled" => \E u \in Awaiters : awaiters[u].cancelled /\ awaiters[u].on = j
    BY DEF ContextsInv, CancelledFor
  <2>3. ~awaiters[t].cancelled
    BY <1>0 DEF ContextsInv, Attached
  <2> QED  BY <1>4, <2>1, <2>2, <2>3 DEF CancelledFor
<1>7. ASSUME NEW u \in Awaiters PROVE Attached(u)'
  <2>1. CASE u = t
    BY <1>0, <1>1, <1>3, <1>4, <2>1 DEF Attached, Made
  <2>2. CASE u # t
    <3>1. awaiters'[u] = awaiters[u] /\ Attached(u)
      BY <1>4, <2>2 DEF ContextsInv
    <3>2. \A j \in Copies : /\ Made(j)' <=> Made(j)
                            /\ copies[j].future # "none" => copies'[j] = copies[j]
      BY <1>3, <1>4 DEF Made
    <3> QED  BY <3>1, <3>2 DEF Attached
  <2> QED  BY <2>1, <2>2
<1> QED  BY <1>0, <1>2, <1>3, <1>4, <1>5, <1>6, <1>7, FutureStep

LEMMA ResolveKeeps ==
    ASSUME ContextsInv, NEW i \in Copies, Resolve(i)
    PROVE  ContextsInv'
<1>0. /\ copies \in [Copies -> CopyRecords] /\ awaiters \in [Awaiters -> AwaiterRecords]
      /\ copies[i] \in CopyRecords /\ copies[i].future = "pending" /\ Settled(i) /\ Made(i)
      /\ truth \in Answers /\ NoAnswer \notin Answers
  BY ContextsTypes, ContextsAssumption DEF ContextsInv, Resolve, ContextsTypeOK, Settled
<1>1. UNCHANGED <<kind, sync, truth, changes, awaiters>>
  BY DEF Resolve
<1>2. PICK c \in CopyRecords :
        /\ copies' = [copies EXCEPT ![i] = c]
        /\ c.from = copies[i].from /\ c.carried = copies[i].carried
        /\ \/ c.future = "done" /\ c.answer = truth
           \/ c.future = "failed" /\ c.answer = NoAnswer
  <2>1. CASE copies' = [copies EXCEPT ![i].future = "done", ![i].answer = truth]
    <3> DEFINE c == [copies[i] EXCEPT !.future = "done", !.answer = truth]
    <3>1. /\ c \in CopyRecords /\ c.from = copies[i].from /\ c.carried = copies[i].carried
          /\ c.future = "done" /\ c.answer = truth
      BY <1>0 DEF CopyRecords, Futures
    <3>2. copies' = [copies EXCEPT ![i] = c]
      BY <2>1
    <3> HIDE DEF c
    <3> QED  BY <3>1, <3>2
  <2>2. CASE copies' = [copies EXCEPT ![i].future = "failed"]
    <3> DEFINE c == [copies[i] EXCEPT !.future = "failed"]
    <3>1. /\ c \in CopyRecords /\ c.from = copies[i].from /\ c.carried = copies[i].carried
          /\ c.future = "failed" /\ c.answer = NoAnswer
      BY <1>0 DEF CopyRecords, Futures, Settled
    <3>2. copies' = [copies EXCEPT ![i] = c]
      BY <2>2
    <3> HIDE DEF c
    <3> QED  BY <3>1, <3>2
  <2> QED  BY <2>1, <2>2 DEF Resolve
<1>3. /\ copies'[i] = c /\ \A j \in Copies : j # i => copies'[j] = copies[j]
  BY <1>0, <1>2
<1>4. Settled(i)'
  BY <1>0, <1>2, <1>3 DEF Settled, Made
<1>5. \A j \in Copies : CancelledFor(j)'
  BY <1>1, <1>2, <1>3 DEF ContextsInv, CancelledFor
<1>6. ASSUME NEW u \in Awaiters PROVE Attached(u)'
  <2>1. awaiters'[u] = awaiters[u] /\ Attached(u)
    BY <1>1 DEF ContextsInv
  <2>2. \A j \in Copies : /\ Made(j)' <=> Made(j)
                          /\ copies[j].future # "none" => copies'[j].future # "none"
                          /\ copies[j].future \in {"done", "cancelled"} => copies'[j] = copies[j]
    BY <1>0, <1>2, <1>3 DEF Made
  <2> QED  BY <2>1, <2>2 DEF Attached
<1> QED  BY <1>0, <1>1, <1>2, <1>4, <1>5, <1>6, FutureStep

(* A step of a task that leaves every copy as it is.                        *)
LEMMA WakeKeeps ==
    ASSUME ContextsInv, NEW t \in Awaiters, Wake(t)
    PROVE  ContextsInv'
<1> DEFINE i == awaiters[t].on
           pc == IF awaiters[t].cancelled THEN "cancelled"
                 ELSE [done |-> "got", failed |-> "raised", cancelled |-> "cancelled"][copies[i].future]
           a == [awaiters[t] EXCEPT !.pc = pc, !.got = copies[i].answer]
<1>0. /\ copies \in [Copies -> CopyRecords] /\ awaiters \in [Awaiters -> AwaiterRecords]
      /\ awaiters[t] \in AwaiterRecords /\ Attached(t) /\ i \in Copies /\ copies[i] \in CopyRecords
      /\ awaiters[t].pc = "waiting" /\ copies[i].future \in {"done", "failed", "cancelled"}
  BY ContextsTypes DEF ContextsInv, Wake, Attached, CopyRecords, Futures
<1>1. /\ pc \in {"got", "raised", "cancelled"}
      /\ pc = "got" => copies[i].future = "done"
      /\ pc = "cancelled" => awaiters[t].cancelled \/ copies[i].future = "cancelled"
  <2>1. CASE copies[i].future = "done"
    BY <2>1
  <2>2. CASE copies[i].future = "failed"
    BY <2>2
  <2>3. CASE copies[i].future = "cancelled"
    BY <2>3
  <2> QED  BY <1>0, <2>1, <2>2, <2>3
<1> HIDE DEF pc
<1>2. /\ a \in AwaiterRecords /\ a.on = i /\ a.pc = pc /\ a.got = copies[i].answer
      /\ a.cancelled = awaiters[t].cancelled
  BY <1>0, <1>1 DEF AwaiterRecords, CopyRecords
<1>3. UNCHANGED <<kind, sync, truth, changes, copies>> /\ awaiters' = [awaiters EXCEPT ![t] = a]
  BY DEF Wake, pc
<1> HIDE DEF a
<1>4. /\ awaiters' \in [Awaiters -> AwaiterRecords] /\ awaiters'[t] = a
      /\ \A u \in Awaiters : u # t => awaiters'[u] = awaiters[u]
  BY <1>0, <1>2, <1>3
<1>5. ContextsTypeOK'
  BY <1>3, <1>4 DEF ContextsInv, ContextsTypeOK, AwaiterRecords
<1>6. ASSUME NEW j \in Copies PROVE Settled(j)' /\ Inherited(j)' /\ CancelledFor(j)'
  <2>1. Settled(j) /\ Inherited(j) /\ CancelledFor(j)
    BY DEF ContextsInv
  <2>2. \A u \in Awaiters : awaiters'[u].cancelled = awaiters[u].cancelled /\ awaiters'[u].on = awaiters[u].on
    BY <1>2, <1>4
  <2> QED  BY <1>3, <2>1, <2>2 DEF Settled, Inherited, CancelledFor, Made
<1>7. ASSUME NEW u \in Awaiters PROVE Attached(u)'
  <2>1. CASE u = t
    <3>1. PICK j : j = i
      OBVIOUS
    <3>2. Made(j) /\ copies[j].future # "none" /\ j \in Copies
      BY <1>0, <3>1 DEF Attached
    <3>3. /\ awaiters'[t].pc = pc /\ awaiters'[t].on = j /\ awaiters'[t].got = copies[j].answer
          /\ awaiters'[t].cancelled = awaiters[t].cancelled
      BY <1>2, <1>4, <3>1
    <3>4. copies' = copies /\ pc # "idle"
      BY <1>1, <1>3
    <3>5. Made(j)'
      BY <3>2, <3>4 DEF Made
    <3>6. /\ pc = "got" => copies[j].future = "done"
          /\ pc = "cancelled" => awaiters[t].cancelled \/ copies[j].future = "cancelled"
      BY <1>1, <3>1
    <3>7. Attached(t)'
      BY <3>2, <3>3, <3>4, <3>5, <3>6 DEF Attached
    <3> QED  BY <2>1, <3>7
  <2>2. CASE u # t
    <3>1. awaiters'[u] = awaiters[u] /\ Attached(u)
      BY <1>4, <2>2 DEF ContextsInv
    <3> QED  BY <1>3, <3>1 DEF Attached, Made
  <2> QED  BY <2>1, <2>2
<1>8. OneSource'
  BY <1>3 DEF ContextsInv, OneSource, Made
<1> QED  BY <1>3, <1>5, <1>6, <1>7, <1>8 DEF ContextsInv

LEMMA CancelKeeps ==
    ASSUME ContextsInv, NEW t \in Awaiters, CancelTask(t)
    PROVE  ContextsInv'
<1>a. PICK i \in Copies : i = awaiters[t].on
  BY DEF ContextsInv, CancelTask, Attached
<1> DEFINE a == [awaiters[t] EXCEPT !.cancelled = TRUE]
           c == [copies[i] EXCEPT !.future = IF @ = "pending" THEN "cancelled" ELSE @]
<1>0. /\ copies \in [Copies -> CopyRecords] /\ awaiters \in [Awaiters -> AwaiterRecords]
      /\ awaiters[t] \in AwaiterRecords /\ Attached(t) /\ i \in Copies /\ copies[i] \in CopyRecords
      /\ awaiters[t].pc = "waiting" /\ Made(i) /\ Settled(i) /\ copies[i].future # "none"
  BY <1>a, ContextsTypes DEF ContextsInv, CancelTask, Attached
<1>1. /\ a \in AwaiterRecords /\ a.on = i /\ a.pc = "waiting" /\ a.cancelled = TRUE
  BY <1>0, <1>a DEF AwaiterRecords
<1>2. /\ c \in CopyRecords /\ c.from = copies[i].from /\ c.carried = copies[i].carried
      /\ c.answer = copies[i].answer /\ c.resolved = copies[i].resolved
      /\ c.future = IF copies[i].future = "pending" THEN "cancelled" ELSE copies[i].future
      /\ copies[i].future # "pending" => c = copies[i]
  BY <1>0 DEF CopyRecords, Futures
<1>3. /\ UNCHANGED <<kind, sync, truth, changes>> /\ awaiters' = [awaiters EXCEPT ![t] = a]
      /\ copies' = [copies EXCEPT ![i] = c]
  BY <1>a DEF CancelTask
<1> HIDE DEF a, c
<1>4. /\ awaiters' \in [Awaiters -> AwaiterRecords] /\ awaiters'[t] = a
      /\ \A u \in Awaiters : u # t => awaiters'[u] = awaiters[u]
      /\ copies'[i] = c /\ \A j \in Copies : j # i => copies'[j] = copies[j]
  BY <1>0, <1>1, <1>2, <1>3
<1>5. Settled(i)'
  <2>1. CASE copies[i].future = "pending"
    <3>1. /\ c.future = "cancelled" /\ c.carried = NoAnswer /\ c.answer = NoAnswer
          /\ c.from # "none"
      BY <1>0, <1>2, <2>1 DEF Settled, Made
    <3> QED  BY <1>4, <3>1 DEF Settled, Made
  <2>2. CASE copies[i].future # "pending"
    <3>1. copies'[i] = copies[i]
      BY <1>2, <1>4, <2>2
    <3> QED  BY <1>0, <3>1 DEF Settled, Made
  <2> QED  BY <2>1, <2>2
<1>6. ASSUME NEW j \in Copies PROVE CancelledFor(j)'
  <2>1. CASE j = i
    BY <1>1, <1>4, <2>1 DEF CancelledFor
  <2>2. CASE j # i
    <3>1. CancelledFor(j) /\ copies'[j] = copies[j]
      BY <1>4, <2>2 DEF ContextsInv
    <3>2. \A u \in Awaiters : awaiters[u].cancelled => awaiters'[u].cancelled /\ awaiters'[u].on = awaiters[u].on
      BY <1>a, <1>1, <1>4
    <3> QED  BY <3>1, <3>2 DEF CancelledFor
  <2> QED  BY <2>1, <2>2
<1>7. ASSUME NEW u \in Awaiters PROVE Attached(u)'
  <2>1. CASE u = t
    BY <1>0, <1>1, <1>2, <1>4, <2>1 DEF Attached, Made
  <2>2. CASE u # t
    <3>1. awaiters'[u] = awaiters[u] /\ Attached(u)
      BY <1>4, <2>2 DEF ContextsInv
    <3>2. \A j \in Copies : /\ Made(j)' <=> Made(j)
                            /\ copies[j].future # "none" => copies'[j].future # "none"
                            /\ copies[j].future \in {"done", "cancelled"} => copies'[j] = copies[j]
      BY <1>0, <1>2, <1>4 DEF Made
    <3> QED  BY <3>1, <3>2 DEF Attached
  <2> QED  BY <2>1, <2>2
<1>8. /\ copies[i].future = "done" => c = copies[i]
      /\ copies[i].future # "none" => c.future # "none"
      /\ copies[i].future = "cancelled" => c.future = "cancelled"
  BY <1>2
<1>9. CancelledFor(i)' /\ (\A j \in Copies : j # i => CancelledFor(j)') /\ (\A u \in Awaiters : Attached(u)')
  BY <1>0, <1>6, <1>7
<1>10. i \in Copies /\ c \in CopyRecords /\ Made(i) /\ c.from = copies[i].from /\ c.carried = copies[i].carried
       /\ awaiters' \in [Awaiters -> AwaiterRecords]
  BY <1>0, <1>2, <1>4
<1> QED  BY <1>3, <1>5, <1>8, <1>9, <1>10, FutureStep

LEMMA CopyKeeps ==
    ASSUME ContextsInv, NEW i \in Copies, NEW j \in Copies, Copy(i, j)
    PROVE  ContextsInv'
<1> DEFINE v == CarriedValue(i)
           c == [from |-> i, carried |-> v, future |-> "none", answer |-> NoAnswer, resolved |-> 0]
<1>0. /\ copies \in [Copies -> CopyRecords] /\ copies[i] \in CopyRecords
      /\ Made(i) /\ ~Made(j) /\ i # j /\ Settled(i) /\ Settled(j) /\ Serializes(i) /\ NoAnswer \notin Answers
      /\ "none" \notin Copies /\ "request" \notin Copies /\ FirstCopy \in Copies /\ j # FirstCopy
  BY ContextsTypes, ContextsAssumption DEF ContextsInv, Copy, Made
<1>1. /\ v \in Answers \cup {NoAnswer}
      /\ v # NoAnswer => \/ v = copies[i].carried
                         \/ copies[i].future = "done" /\ v = copies[i].answer
  BY <1>0 DEF CarriedValue, ValueOf, Resolved, Settled, CopyRecords, Futures
<1>2. kind = "deferred" =>
          /\ v # NoAnswer
          /\ \/ copies[i].carried # NoAnswer /\ v = copies[i].carried
             \/ copies[i].carried = NoAnswer /\ copies[i].future = "done" /\ v = copies[i].answer
  BY <1>0 DEF CarriedValue, ValueOf, Resolved, Settled, Serializes, Succeeded, CopyRecords
<1> HIDE DEF v
<1>3. /\ c \in CopyRecords /\ c.from = i /\ c.carried = v /\ c.future = "none" /\ c.answer = NoAnswer
      /\ c.resolved = 0
  BY <1>0, <1>1 DEF CopyRecords, Futures
<1>4. UNCHANGED <<kind, sync, truth, changes, awaiters>> /\ copies' = [copies EXCEPT ![j] = c]
  BY DEF Copy, v
<1> HIDE DEF c
<1>5. /\ copies' \in [Copies -> CopyRecords] /\ copies'[j] = c
      /\ \A h \in Copies : h # j => copies'[h] = copies[h]
  BY <1>0, <1>3, <1>4
<1>6. ContextsTypeOK'
  BY <1>4, <1>5 DEF ContextsInv, ContextsTypeOK, CopyRecords, Futures
<1>7. ASSUME NEW h \in Copies PROVE Settled(h)' /\ Inherited(h)' /\ CancelledFor(h)'
  <2>1. CASE h = j
    BY <1>0, <1>1, <1>2, <1>3, <1>4, <1>5, <2>1 DEF Settled, Inherited, CancelledFor, Made
  <2>2. CASE h # j
    <3>1. copies'[h] = copies[h] /\ Settled(h) /\ Inherited(h) /\ CancelledFor(h)
      BY <1>5, <2>2 DEF ContextsInv
    <3>2. Settled(h)' /\ CancelledFor(h)'
      BY <1>4, <3>1 DEF Settled, CancelledFor, Made
    <3>3. copies[h].from \in Copies => copies[h].from # j
      BY <1>0, <3>1 DEF Inherited
    <3>4. Inherited(h)'
      BY <1>4, <1>5, <3>1, <3>3 DEF Inherited, Made
    <3> QED  BY <3>2, <3>4
  <2> QED  BY <2>1, <2>2
<1>8. ASSUME NEW u \in Awaiters PROVE Attached(u)'
  <2>1. Attached(u)
    BY DEF ContextsInv
  <2>2. awaiters[u].pc # "idle" => awaiters[u].on # j
    BY <1>0, <2>1 DEF Attached
  <2> QED  BY <1>4, <1>5, <2>1, <2>2 DEF Attached, Made
<1>9. OneSource'
  <2> SUFFICES ASSUME kind = "deferred", NEW h \in Copies, Made(h)', h # FirstCopy
               PROVE  copies[FirstCopy].future = "done" /\ copies'[h].carried = copies[FirstCopy].answer
    BY <1>0, <1>4, <1>5 DEF OneSource
  <2>1. CASE h = j
    <3>1. CASE i = FirstCopy
      <4>1. copies[i].carried = NoAnswer
        BY <3>1 DEF ContextsInv
      <4> QED  BY <1>2, <1>3, <1>5, <2>1, <3>1, <4>1
    <3>2. CASE i # FirstCopy
      <4>1. /\ copies[FirstCopy].future = "done" /\ copies[i].carried = copies[FirstCopy].answer
            /\ copies[FirstCopy].answer \in Answers
        BY <1>0, <3>2 DEF ContextsInv, OneSource, Settled
      <4> QED  BY <1>0, <1>2, <1>3, <1>5, <2>1, <4>1
    <3> QED  BY <3>1, <3>2
  <2>2. CASE h # j
    BY <1>5, <2>2 DEF ContextsInv, OneSource, Made
  <2> QED  BY <2>1, <2>2
<1>10. /\ copies'[FirstCopy] = copies[FirstCopy]
       /\ \A h \in Copies : copies'[h].from = "request" => h = FirstCopy
  BY <1>0, <1>3, <1>5 DEF ContextsInv
<1> QED  BY <1>6, <1>7, <1>8, <1>9, <1>10 DEF ContextsInv

LEMMA ContextsStep == ContextsInv /\ [ContextsNext]_contextVars => ContextsInv'
<1> SUFFICES ASSUME ContextsInv, [ContextsNext]_contextVars PROVE ContextsInv'
  OBVIOUS
<1>1. CASE TruthChanges
  <2>1. UNCHANGED <<kind, sync, copies, awaiters>> /\ truth' \in Answers /\ changes' \in 0..MaxChanges
    BY <1>1, ContextsAssumption DEF TruthChanges, ContextsInv, ContextsTypeOK
  <2> QED  BY <2>1 DEF ContextsInv, ContextsTypeOK, Settled, Inherited, CancelledFor, Attached, OneSource, Made
<1>2. CASE UNCHANGED contextVars
  <2>1. UNCHANGED <<kind, sync, truth, changes, copies, awaiters>>
    BY <1>2 DEF contextVars
  <2> QED  BY <2>1 DEF ContextsInv, ContextsTypeOK, Settled, Inherited, CancelledFor, Attached, OneSource, Made
<1> QED  BY <1>1, <1>2, AwaitKeeps, WakeKeeps, CancelKeeps, ResolveKeeps, CopyKeeps DEF ContextsNext

LEMMA ContextsInductive == ContextsSpec => []ContextsInv
BY InitContextsInv, ContextsStep, PTL DEF ContextsSpec

------------------------------------------------------------------------------
(* Every variable has its type; a value is resolved at most once for a copy *)
(* of the context (context/__init__.py 74-86).                              *)
THEOREM ContextsTypeCorrect == ContextsSpec => []ContextsTypeOK
<1>1. ContextsInv => ContextsTypeOK
  BY DEF ContextsInv
<1> QED  BY <1>1, ContextsInductive, PTL

(* The cancellation of a call reaches the tasks that share its future, and  *)
(* no task of a copy (context/__init__.py 74-86).                           *)
LEMMA CancellationStays == ContextsInv => CancelledWithASharer
<1> SUFFICES ASSUME ContextsInv, NEW t \in Awaiters, awaiters[t].pc = "cancelled"
             PROVE  \E u \in Awaiters : awaiters[u].cancelled /\ awaiters[u].on = awaiters[t].on
  BY DEF CancelledWithASharer
<1>1. /\ awaiters[t].on \in Copies
      /\ awaiters[t].cancelled \/ copies[awaiters[t].on].future = "cancelled"
  BY DEF ContextsInv, Attached
<1> QED  BY <1>1 DEF ContextsInv, CancelledFor

(* The tasks of a call, the copies made of a value and, of a deferred value,*)
(* all of them together are given one answer, however what resolving        *)
(* answers changes, and a task is cancelled only with one that shares its   *)
(* future (context/__init__.py 74-86, 236-246, 306-319).                    *)
THEOREM ContextsHaveOneValue == ContextsSpec => []OneValue
<1>1. ContextsInv => AwaitersAgree
  BY DEF ContextsInv, AwaitersAgree, Attached, Settled
<1>2. ContextsInv => CopiesKeepTheirValue
  <2> SUFFICES ASSUME ContextsInv, NEW i \in Copies, NEW j \in Copies,
                      copies[j].from = i, copies[j].carried # NoAnswer
               PROVE  copies[j].resolved = 0 /\ copies[j].carried \in {copies[i].answer, copies[i].carried}
    BY DEF CopiesKeepTheirValue
  <2> QED  BY DEF ContextsInv, Settled, Inherited
<1>3. ContextsInv => OneKeyForTheCall
  <2> SUFFICES ASSUME ContextsInv, kind = "deferred", NEW t \in Awaiters, NEW u \in Awaiters,
                      awaiters[t].pc = "got", awaiters[u].pc = "got"
               PROVE  awaiters[t].got = awaiters[u].got
    BY DEF OneKeyForTheCall
  <2>1. ASSUME NEW x \in Awaiters, awaiters[x].pc = "got"
        PROVE  awaiters[x].got = copies[FirstCopy].answer
    <3>1. /\ awaiters[x].on \in Copies /\ Made(awaiters[x].on) /\ copies[awaiters[x].on].future = "done"
          /\ awaiters[x].got = copies[awaiters[x].on].answer
      BY <2>1 DEF ContextsInv, Attached
    <3>2. CASE awaiters[x].on = FirstCopy
      BY <3>1, <3>2
    <3>3. CASE awaiters[x].on # FirstCopy
      <4>1. /\ copies[awaiters[x].on].carried = copies[FirstCopy].answer
            /\ copies[FirstCopy].answer \in Answers
        BY <3>1, <3>3, ContextsAssumption DEF ContextsInv, OneSource, Settled
      <4> QED  BY <3>1, <4>1, ContextsAssumption DEF ContextsInv, Settled
    <3> QED  BY <3>2, <3>3
  <2> QED  BY <2>1
<1>4. ContextsInv => CancelledWithASharer
  BY CancellationStays
<1>5. ContextsInv => OneValue
  BY <1>1, <1>2, <1>3, <1>4 DEF OneValue
<1> QED  BY <1>5, ContextsInductive, PTL

------------------------------------------------------------------------------
(* Executor                                                                 *)

Ends == {"exit", "Interrupted"}

Errors == {"none", "http", "error", "Failed", "Interrupted", "exit", "soft", "timeout", "celery", "cancelled"}

Payloads == {"result", "http", "Failed", "Interrupted", "NotRun"}

RunRecords ==
    [pc : {"idle", "ensure", "starting", "running", "unwinding", "pushing", "failing"}, task : Tasks \cup {Free},
     coroutine : {"none", "running", "suspended", "cancelled", "done", "left"},
     interruption : Ends \cup {"none"}, interrupting : Errors, caught : Errors, cause : Errors, seen : Errors,
     cut : BOOLEAN, again : BOOLEAN]

(* An execution that nothing has cut off yet, and one that something has.   *)
Uncut(r) == ~r.cut /\ r.interruption = "none" /\ r.interrupting = "none"

Sound(r) ==
    /\ r \in RunRecords
    /\ r.pc # "idle" => r.task \in Tasks
    /\ r.cut => r.task \in Tasks
    /\ r.pc \notin {"running", "unwinding"} => r.coroutine \in {"none", "done"} \/ r.again
    /\ r.pc \in {"ensure", "starting", "running", "pushing"} => Uncut(r)
    /\ r.pc = "unwinding" => r.interruption # "none" /\ r.cut
    /\ r.pc = "failing" => r.caught \in {"http", "error", "Failed", "Interrupted", "exit", "soft", "timeout"}
    /\ r.pc \in {"unwinding", "failing"} /\ r.cut => r.caught \in {"Interrupted", "exit", "timeout"}
    /\ r.seen \notin {"cancelled", "soft", "timeout", "celery"}

(* The set-ups: of this process, one at a time.                             *)
SetUpInv ==
    /\ startedPid \in {"none", "parent", "child"}
    /\ startedLoops \subseteq Loops /\ setUp \subseteq Loops /\ startedLock \in Loops \cup {Free}
    /\ startedPid = "child" => startedLoops \subseteq setUp
    /\ \A l \in Loops :
          /\ runs[l].pc \in {"running", "unwinding", "pushing"} => l \in setUp
          /\ runs[l].pc = "starting" => startedPid = "child" /\ startedLock = l

Told(s, payload) == \E i \in DOMAIN s : s[i] = payload

(* What is told of a call: a task whose report said that it will not run is *)
(* never executed, and one that was executed and reported was interrupted.  *)
AnswersInv ==
    /\ payloads \in [Tasks -> Seq(Payloads)]
    /\ \A k \in Tasks : IsReported(k) => Told(payloads[k], "Interrupted") \/ Told(payloads[k], "NotRun")
    /\ \A l \in Loops :
          /\ runs[l].task \in Tasks => ~Told(payloads[runs[l].task], "NotRun")
          /\ runs[l].pc = "idle" /\ runs[l].cut => Told(payloads[runs[l].task], "Interrupted")

(* The last reports are the last transitions.                               *)
ReportsInv ==
    /\ reported \in Seq(Tasks)
    /\ transitions \in Seq([task : Tasks, state : {"queued", "listened", "done"}])
    /\ Len(reported) <= ReportedKept /\ Len(reported) <= Len(transitions)
    /\ Len(reported) < ReportedKept => Len(reported) = Len(transitions)
    /\ \A i \in 1..Len(reported) : reported[i] = transitions[(Len(transitions) - Len(reported)) + i].task
    /\ ReportedOnce

(* A shutdown waits for all that was submitted and is not done.             *)
DrainInv ==
    /\ process \in {"up", "draining", "down"} /\ drain \subseteq DOMAIN transitions
    /\ due \in 0..Len(transitions)
    /\ process = "draining" => \A i \in 1..due : i \in drain \/ transitions[i].state = "done"

ExecutorInv ==
    /\ pool \in Pools /\ cuts \in 0..MaxCuts
    /\ runs \in [Loops -> RunRecords] /\ \A l \in Loops : Sound(runs[l])
    /\ SetUpInv /\ AnswersInv /\ ReportsInv /\ DrainInv

------------------------------------------------------------------------------
(* A step of one execution                                                  *)

After(r, fields) == [f \in DOMAIN NoRun |-> IF f \in DOMAIN fields THEN fields[f] ELSE r[f]]

(* What a step leaves of the fields that it does not name.                  *)
LEMMA AfterFields ==
    ASSUME NEW r, NEW fields
    PROVE  LET s == After(r, fields)
           IN /\ s.pc = IF "pc" \in DOMAIN fields THEN fields.pc ELSE r.pc
              /\ s.task = IF "task" \in DOMAIN fields THEN fields.task ELSE r.task
              /\ s.coroutine = IF "coroutine" \in DOMAIN fields THEN fields.coroutine ELSE r.coroutine
              /\ s.interruption = IF "interruption" \in DOMAIN fields THEN fields.interruption ELSE r.interruption
              /\ s.interrupting = IF "interrupting" \in DOMAIN fields THEN fields.interrupting ELSE r.interrupting
              /\ s.caught = IF "caught" \in DOMAIN fields THEN fields.caught ELSE r.caught
              /\ s.cause = IF "cause" \in DOMAIN fields THEN fields.cause ELSE r.cause
              /\ s.seen = IF "seen" \in DOMAIN fields THEN fields.seen ELSE r.seen
              /\ s.cut = IF "cut" \in DOMAIN fields THEN fields.cut ELSE r.cut
              /\ s.again = IF "again" \in DOMAIN fields THEN fields.again ELSE r.again
    BY DEF After, NoRun

LEMMA AfterRecord ==
    ASSUME NEW r, NEW fields,
           LET s == After(r, fields)
           IN /\ s.pc \in {"idle", "ensure", "starting", "running", "unwinding", "pushing", "failing"}
              /\ s.task \in Tasks \cup {Free}
              /\ s.coroutine \in {"none", "running", "suspended", "cancelled", "done", "left"}
              /\ s.interruption \in Ends \cup {"none"} /\ s.interrupting \in Errors /\ s.caught \in Errors
              /\ s.cause \in Errors /\ s.seen \in Errors /\ s.cut \in BOOLEAN /\ s.again \in BOOLEAN
    PROVE  After(r, fields) \in RunRecords
    BY DEF After, NoRun, RunRecords

LEMMA AfterIsRecord ==
    ASSUME NEW r, NEW s, \E fields : s = After(r, fields),
           s.pc \in {"idle", "ensure", "starting", "running", "unwinding", "pushing", "failing"},
           s.task \in Tasks \cup {Free},
           s.coroutine \in {"none", "running", "suspended", "cancelled", "done", "left"},
           s.interruption \in Ends \cup {"none"}, s.interrupting \in Errors, s.caught \in Errors,
           s.cause \in Errors, s.seen \in Errors, s.cut \in BOOLEAN, s.again \in BOOLEAN
    PROVE  s \in RunRecords
    BY AfterRecord

LEMMA StepIsAfter ==
    ASSUME NEW l \in Loops, runs \in [Loops -> RunRecords], NEW fields, Step(l, fields)
    PROVE  runs' = [runs EXCEPT ![l] = After(runs[l], fields)]
    BY DEF Step, After

LEMMA SignalsType ==
    ASSUME pool \in Pools
    PROVE  Signals \subseteq {"soft", "exit", "timeout"}
    BY DEF Pools, Signals

(* What an error becomes on its way out.                                    *)
LEMMA TranslateType ==
    ASSUME NEW r \in RunRecords, NEW error \in Errors,
           error = "cancelled" => r.interruption # "none"
    PROVE  /\ Translate(r, error) \in {"none", "http", "error", "Failed", "Interrupted", "exit"}
           /\ error \in {"Interrupted", "soft", "exit", "timeout"} => Translate(r, error) \in Ends
           /\ error \in {"http", "error", "celery", "Interrupted", "soft", "exit", "timeout", "Failed"} =>
                 Translate(r, error) # "none"
    BY DEF Translate, RunRecords, Errors, Ends

------------------------------------------------------------------------------
(* What is left as it is                                                    *)

LEMMA RunsKept ==
    ASSUME runs \in [Loops -> RunRecords], \A l \in Loops : Sound(runs[l]),
           NEW l \in Loops, NEW s, Sound(s), runs' = [runs EXCEPT ![l] = s]
    PROVE  /\ (runs \in [Loops -> RunRecords] /\ \A m \in Loops : Sound(runs[m]))'
           /\ runs'[l] = s /\ \A m \in Loops : m # l => runs'[m] = runs[m]
    BY DEF Sound

LEMMA ReportsKept ==
    ASSUME ReportsInv, DrainInv, UNCHANGED <<reported, transitions, process, drain, due>>
    PROVE  ReportsInv' /\ DrainInv'
    BY DEF ReportsInv, DrainInv, ReportedOnce

LEMMA AnswersKept ==
    ASSUME AnswersInv, runs \in [Loops -> RunRecords], UNCHANGED <<reported, payloads>>,
           NEW l \in Loops, NEW s, runs' = [runs EXCEPT ![l] = s],
           s.task = runs[l].task, s.pc # "idle"
    PROVE  AnswersInv'
    BY DEF AnswersInv, IsReported

------------------------------------------------------------------------------
(* The execution                                                            *)

(* A step of the execution that leaves the queues as they are.              *)
RunStep(l, s) ==
    /\ Sound(s) /\ runs' = [runs EXCEPT ![l] = s]
    /\ s.pc # "idle" /\ UNCHANGED <<pool, Queues>> /\ cuts' \in 0..MaxCuts

LEMMA RunStepKeeps ==
    ASSUME ExecutorInv, NEW l \in Loops, NEW s, RunStep(l, s),
           s.task = runs[l].task \/ ~Taken(s.task), SetUpInv'
    PROVE  ExecutorInv'
<1>1. (runs \in [Loops -> RunRecords] /\ \A m \in Loops : Sound(runs[m]))'
  BY RunsKept DEF ExecutorInv, RunStep
<1>2. ReportsInv' /\ DrainInv'
  BY ReportsKept DEF ExecutorInv, RunStep, Queues
<1>3. AnswersInv'
  <2>1. CASE s.task = runs[l].task
    BY <2>1, AnswersKept DEF ExecutorInv, RunStep, Queues
  <2>2. CASE ~Taken(s.task)
    <3>1. runs'[l] = s /\ \A m \in Loops : m # l => runs'[m] = runs[m]
      BY RunsKept DEF ExecutorInv, RunStep
    <3>2. s.task \in Tasks => payloads[s.task] = <<>>
      BY <2>2 DEF Taken
    <3>3. s.task \in Tasks => ~Told(payloads[s.task], "NotRun")
      BY <3>2 DEF Told
    <3> QED
      BY <3>1, <3>3 DEF ExecutorInv, RunStep, Queues, AnswersInv, IsReported
  <2> QED
    BY <2>1, <2>2
<1> QED
  BY <1>1, <1>2, <1>3 DEF ExecutorInv, RunStep, Queues

(* The types that the steps of an execution rest on.                        *)
Usual(l) == /\ l \in Loops /\ runs \in [Loops -> RunRecords] /\ Sound(runs[l])
            /\ pool \in Pools /\ cuts \in 0..MaxCuts /\ MaxCuts \in Nat

LEMMA CutsType == ASSUME cuts \in 0..MaxCuts, MaxCuts \in Nat, Cuts PROVE cuts' \in 0..MaxCuts
BY DEF Cuts

LEMMA UsualRun == ASSUME ExecutorInv, NEW l \in Loops PROVE Usual(l)
BY ExecutorAssumption DEF ExecutorInv, Usual

LEMMA ReceiveRun ==
    ASSUME NEW l \in Loops, NEW k \in Tasks, Usual(l), Receive(l, k)
    PROVE  \E s : RunStep(l, s) /\ s.pc = "ensure" /\ s.task = k
<1> DEFINE fields == [NoRun EXCEPT !.pc = "ensure", !.task = k]
           s == After(runs[l], fields)
<1>1. runs' = [runs EXCEPT ![l] = s]
  BY StepIsAfter DEF Usual, Receive
<1>2. /\ s.pc = "ensure" /\ s.task = k /\ s.coroutine = "none" /\ s.interruption = "none"
      /\ s.interrupting = "none" /\ s.caught = "none" /\ s.cause = "none" /\ s.seen = "none"
      /\ s.cut = FALSE /\ s.again = FALSE
  <2>1. DOMAIN fields =
          {"pc", "task", "coroutine", "interruption", "interrupting", "caught", "cause", "seen", "cut", "again"}
    BY DEF NoRun
  <2>2. /\ fields.pc = "ensure" /\ fields.task = k /\ fields.coroutine = "none" /\ fields.interruption = "none"
        /\ fields.interrupting = "none" /\ fields.caught = "none" /\ fields.cause = "none"
        /\ fields.seen = "none" /\ fields.cut = FALSE /\ fields.again = FALSE
    BY DEF NoRun
  <2> HIDE DEF fields
  <2> QED
    BY <2>1, <2>2, AfterFields
<1> HIDE DEF fields
<1>3. s \in RunRecords
  BY <1>2, AfterRecord DEF Errors
<1>4. Sound(s)
  BY <1>2, <1>3 DEF Sound, Uncut
<1> QED
  BY <1>1, <1>2, <1>4 DEF RunStep, Receive, Usual

LEMMA EnsureStartedRun ==
    ASSUME NEW l \in Loops, Usual(l), EnsureStarted(l)
    PROVE  \E s : /\ RunStep(l, s) /\ s.task = runs[l].task
                  /\ s.pc = IF startedPid = "child" /\ l \in startedLoops THEN "running" ELSE "starting"
<1>1. CASE startedPid = "child" /\ l \in startedLoops
  <2> DEFINE s == After(runs[l], [pc |-> "running", coroutine |-> "running"])
  <2>1. runs' = [runs EXCEPT ![l] = s]
    BY <1>1, StepIsAfter DEF Usual, EnsureStarted
  <2>2. /\ s.pc = "running" /\ s.task = runs[l].task /\ s.coroutine = "running"
        /\ s.interruption = runs[l].interruption /\ s.interrupting = runs[l].interrupting
        /\ s.caught = runs[l].caught /\ s.cause = runs[l].cause /\ s.seen = runs[l].seen
        /\ s.cut = runs[l].cut /\ s.again = runs[l].again
    BY AfterFields
  <2>3. s \in RunRecords
    BY <2>2, AfterRecord DEF RunRecords, Usual
  <2>4. Sound(s)
    BY <2>2, <2>3 DEF Sound, Uncut, Usual, EnsureStarted
  <2> QED
    BY <1>1, <2>1, <2>2, <2>4 DEF RunStep, EnsureStarted, Usual
<1>2. CASE ~(startedPid = "child" /\ l \in startedLoops)
  <2> DEFINE s == After(runs[l], [pc |-> "starting"])
  <2>1. runs' = [runs EXCEPT ![l] = s]
    BY <1>2, StepIsAfter DEF Usual, EnsureStarted
  <2>2. /\ s.pc = "starting" /\ s.task = runs[l].task /\ s.coroutine = runs[l].coroutine
        /\ s.interruption = runs[l].interruption /\ s.interrupting = runs[l].interrupting
        /\ s.caught = runs[l].caught /\ s.cause = runs[l].cause /\ s.seen = runs[l].seen
        /\ s.cut = runs[l].cut /\ s.again = runs[l].again
    BY AfterFields
  <2>3. s \in RunRecords
    BY <2>2, AfterRecord DEF RunRecords, Usual
  <2>4. Sound(s)
    BY <2>2, <2>3 DEF Sound, Uncut, Usual, EnsureStarted
  <2> QED
    BY <1>2, <2>1, <2>2, <2>4 DEF RunStep, EnsureStarted, Usual
<1> QED
  BY <1>1, <1>2

LEMMA StartedRun ==
    ASSUME NEW l \in Loops, Usual(l), Started(l)
    PROVE  \E s : RunStep(l, s) /\ s.pc = "running" /\ s.task = runs[l].task
<1> DEFINE s == After(runs[l], [pc |-> "running", coroutine |-> "running"])
<1>1. runs' = [runs EXCEPT ![l] = s]
  BY StepIsAfter DEF Usual, Started
<1>2. /\ s.pc = "running" /\ s.task = runs[l].task /\ s.coroutine = "running"
      /\ s.interruption = runs[l].interruption /\ s.interrupting = runs[l].interrupting
      /\ s.caught = runs[l].caught /\ s.cause = runs[l].cause /\ s.seen = runs[l].seen
      /\ s.cut = runs[l].cut /\ s.again = runs[l].again
  BY AfterFields
<1>3. s \in RunRecords
  BY <1>2, AfterRecord DEF RunRecords, Usual
<1>4. Sound(s)
  BY <1>2, <1>3 DEF Sound, Uncut, Usual, Started
<1> QED
  BY <1>1, <1>2, <1>4 DEF RunStep, Started, Usual

LEMMA NotStartedRun ==
    ASSUME NEW l \in Loops, Usual(l), NotStarted(l)
    PROVE  \E s : RunStep(l, s) /\ s.pc = "failing" /\ s.task = runs[l].task
<1>1. PICK error \in Signals \cup {"error"} :
          Step(l, [pc |-> "failing", caught |-> IF error \in {"soft", "error"} THEN "Failed" ELSE error])
  BY DEF NotStarted
<1> DEFINE caught == IF error \in {"soft", "error"} THEN "Failed" ELSE error
           s == After(runs[l], [pc |-> "failing", caught |-> caught])
<1>2. caught \in {"Failed", "exit", "timeout"}
  BY <1>1, SignalsType DEF Usual
<1>3. runs' = [runs EXCEPT ![l] = s]
  BY <1>1, StepIsAfter DEF Usual
<1>4. /\ s.pc = "failing" /\ s.task = runs[l].task /\ s.coroutine = runs[l].coroutine
      /\ s.interruption = runs[l].interruption /\ s.interrupting = runs[l].interrupting
      /\ s.caught = caught /\ s.cause = runs[l].cause /\ s.seen = runs[l].seen
      /\ s.cut = runs[l].cut /\ s.again = runs[l].again
  BY AfterFields
<1> HIDE DEF caught, s
<1>5. s \in RunRecords
  BY <1>2, <1>4, AfterRecord DEF RunRecords, Usual, Errors, s
<1>6. Sound(s)
  BY <1>2, <1>4, <1>5 DEF Sound, Uncut, Usual, NotStarted
<1>7. cuts' \in 0..MaxCuts
  BY CutsType DEF NotStarted, Usual
<1> QED
  BY <1>3, <1>4, <1>6, <1>7 DEF RunStep, NotStarted

LEMMA SuspendRun ==
    ASSUME NEW l \in Loops, Usual(l), Suspend(l)
    PROVE  \E s : RunStep(l, s) /\ s.pc = "running" /\ s.task = runs[l].task
<1> DEFINE coroutine == IF runs[l].coroutine = "running" THEN "suspended" ELSE "running"
           s == After(runs[l], [coroutine |-> coroutine])
<1>1. runs' = [runs EXCEPT ![l] = s]
  BY StepIsAfter DEF Usual, Suspend
<1>2. coroutine \in {"suspended", "running"}
  OBVIOUS
<1> HIDE DEF coroutine
<1>3. /\ s.pc = "running" /\ s.task = runs[l].task /\ s.coroutine = coroutine
      /\ s.interruption = runs[l].interruption /\ s.interrupting = runs[l].interrupting
      /\ s.caught = runs[l].caught /\ s.cause = runs[l].cause /\ s.seen = runs[l].seen
      /\ s.cut = runs[l].cut /\ s.again = runs[l].again
  BY AfterFields DEF Suspend
<1>4. s \in RunRecords
  BY <1>2, <1>3, AfterRecord DEF RunRecords, Usual
<1>5. Sound(s)
  BY <1>2, <1>3, <1>4 DEF Sound, Uncut, Usual, Suspend
<1> QED
  BY <1>1, <1>3, <1>5 DEF RunStep, Suspend, Usual

LEMMA ReturnRun ==
    ASSUME NEW l \in Loops, Usual(l), Return(l)
    PROVE  \E s : RunStep(l, s) /\ s.pc \in {"pushing", "failing"} /\ s.task = runs[l].task
<1>1. CASE Step(l, [pc |-> "pushing", coroutine |-> "done"])
  <2> DEFINE s == After(runs[l], [pc |-> "pushing", coroutine |-> "done"])
  <2>1. runs' = [runs EXCEPT ![l] = s]
    BY <1>1, StepIsAfter DEF Usual
  <2>2. /\ s.pc = "pushing" /\ s.task = runs[l].task /\ s.coroutine = "done"
        /\ s.interruption = runs[l].interruption /\ s.interrupting = runs[l].interrupting
        /\ s.caught = runs[l].caught /\ s.cause = runs[l].cause /\ s.seen = runs[l].seen
        /\ s.cut = runs[l].cut /\ s.again = runs[l].again
    BY AfterFields
  <2>3. s \in RunRecords
    BY <2>2, AfterRecord DEF RunRecords, Usual
  <2>4. Sound(s)
    BY <2>2, <2>3 DEF Sound, Uncut, Usual, Return
  <2> QED
    BY <2>1, <2>2, <2>4 DEF RunStep, Return, Usual
<1>2. ASSUME NEW error \in {"http", "error", "celery"},
             Step(l, [pc |-> "failing", coroutine |-> "done", seen |-> Translate(runs[l], error),
                      caught |-> Translate(runs[l], error), cause |-> error])
      PROVE  \E s : RunStep(l, s) /\ s.pc \in {"pushing", "failing"} /\ s.task = runs[l].task
  <2>1. PICK out : out = Translate(runs[l], error)
    OBVIOUS
  <2> DEFINE s == After(runs[l], [pc |-> "failing", coroutine |-> "done", seen |-> out, caught |-> out, cause |-> error])
  <2>2. out \in {"http", "error", "Failed", "Interrupted", "exit"}
    BY <2>1, TranslateType DEF Usual, Errors
  <2>3. runs' = [runs EXCEPT ![l] = s]
    BY <1>2, <2>1, StepIsAfter DEF Usual
  <2>4. /\ s.pc = "failing" /\ s.task = runs[l].task /\ s.coroutine = "done"
        /\ s.interruption = runs[l].interruption /\ s.interrupting = runs[l].interrupting
        /\ s.caught = out /\ s.cause = error /\ s.seen = out
        /\ s.cut = runs[l].cut /\ s.again = runs[l].again
    BY AfterFields
  <2> HIDE DEF s
  <2>5. s \in RunRecords
    BY <2>2, <2>4, AfterRecord DEF RunRecords, Usual, Errors, s
  <2>6. Sound(s)
    BY <2>2, <2>4, <2>5 DEF Sound, Uncut, Usual, Return
  <2> QED
    BY <2>3, <2>4, <2>6 DEF RunStep, Return, Usual
<1> QED
  BY <1>1, <1>2 DEF Return

(* The signals that strike an execution.                                    *)
LEMMA RaisedType ==
    ASSUME NEW l \in Loops, pool \in Pools, NEW signal \in Signals
    PROVE  /\ Raised(l, signal) \in {"Interrupted", "soft", "exit", "timeout"}
           /\ runs[l].pc \in {"running", "unwinding"} => Raised(l, signal) # "soft"
    BY SignalsType DEF Raised

LEMMA CutInsideRun ==
    ASSUME NEW l \in Loops, Usual(l), CutInside(l)
    PROVE  \E s : RunStep(l, s) /\ s.pc = "failing" /\ s.task = runs[l].task
<1>1. PICK signal \in Signals :
          LET error == Raised(l, signal)
              out == Translate(runs[l], error)
          IN \/ Step(l, [pc |-> "failing", coroutine |-> "done", cut |-> TRUE,
                         seen |-> out, caught |-> out, cause |-> error])
             \/ Step(l, [pc |-> "failing", coroutine |-> "done", cut |-> TRUE, caught |-> error])
  BY DEF CutInside
<1>2. PICK error : error = Raised(l, signal)
  OBVIOUS
<1>3. PICK out : out = Translate(runs[l], error)
  OBVIOUS
<1>4. error \in {"Interrupted", "exit", "timeout"}
  BY <1>2, RaisedType DEF Usual, CutInside
<1>5. out \in Ends
  BY <1>3, <1>4, TranslateType DEF Usual, Errors
<1>6. cuts' \in 0..MaxCuts
  BY CutsType DEF CutInside, Usual
<1>7. runs[l].task \in Tasks
  BY DEF Usual, Sound, CutInside
<1>8. CASE Step(l, [pc |-> "failing", coroutine |-> "done", cut |-> TRUE, seen |-> out, caught |-> out, cause |-> error])
  <2> DEFINE s == After(runs[l], [pc |-> "failing", coroutine |-> "done", cut |-> TRUE,
                                  seen |-> out, caught |-> out, cause |-> error])
  <2>1. runs' = [runs EXCEPT ![l] = s]
    BY <1>8, StepIsAfter DEF Usual
  <2>2. /\ s.pc = "failing" /\ s.task = runs[l].task /\ s.coroutine = "done"
        /\ s.interruption = runs[l].interruption /\ s.interrupting = runs[l].interrupting
        /\ s.caught = out /\ s.cause = error /\ s.seen = out
        /\ s.cut = TRUE /\ s.again = runs[l].again
    BY AfterFields
  <2>3. \E f : s = After(runs[l], f)
    OBVIOUS
  <2> HIDE DEF s
  <2>4. s \in RunRecords
    <3>1. s.cut \in BOOLEAN
      BY <2>2
    <3>2. s.task \in Tasks \cup {Free} /\ s.again \in BOOLEAN
      BY <2>2 DEF Usual, RunRecords
    <3>3. s.interruption \in Ends \cup {"none"} /\ s.interrupting \in Errors
      BY <2>2 DEF Usual, RunRecords
    <3>4. s.caught \in Errors /\ s.cause \in Errors /\ s.seen \in Errors
      BY <2>2, <1>4, <1>5 DEF Usual, RunRecords, Errors, Ends
    <3> QED
      BY <2>3, <2>2, <3>1, <3>2, <3>3, <3>4, AfterIsRecord
  <2>5. Sound(s)
    BY <1>4, <1>5, <1>7, <2>2, <2>4 DEF Sound, Uncut, Usual, Ends
  <2> QED
    BY <1>6, <2>1, <2>2, <2>5 DEF RunStep, CutInside
<1>9. CASE Step(l, [pc |-> "failing", coroutine |-> "done", cut |-> TRUE, caught |-> error])
  <2> DEFINE s == After(runs[l], [pc |-> "failing", coroutine |-> "done", cut |-> TRUE, caught |-> error])
  <2>1. runs' = [runs EXCEPT ![l] = s]
    BY <1>9, StepIsAfter DEF Usual
  <2>2. /\ s.pc = "failing" /\ s.task = runs[l].task /\ s.coroutine = "done"
        /\ s.interruption = runs[l].interruption /\ s.interrupting = runs[l].interrupting
        /\ s.caught = error /\ s.cause = runs[l].cause /\ s.seen = runs[l].seen
        /\ s.cut = TRUE /\ s.again = runs[l].again
    BY AfterFields
  <2>3. \E f : s = After(runs[l], f)
    OBVIOUS
  <2> HIDE DEF s
  <2>4. s \in RunRecords
    <3>1. s.cut \in BOOLEAN
      BY <2>2
    <3>2. s.task \in Tasks \cup {Free} /\ s.again \in BOOLEAN
      BY <2>2 DEF Usual, RunRecords
    <3>3. s.interruption \in Ends \cup {"none"} /\ s.interrupting \in Errors
      BY <2>2 DEF Usual, RunRecords
    <3>4. s.caught \in Errors /\ s.cause \in Errors /\ s.seen \in Errors
      BY <2>2, <1>4 DEF Usual, RunRecords, Errors
    <3> QED
      BY <2>3, <2>2, <3>1, <3>2, <3>3, <3>4, AfterIsRecord
  <2>5. Sound(s)
    BY <1>4, <1>7, <2>2, <2>4 DEF Sound, Uncut, Usual
  <2> QED
    BY <1>6, <2>1, <2>2, <2>5 DEF RunStep, CutInside
<1> QED
  BY <1>1, <1>2, <1>3, <1>8, <1>9

LEMMA InterruptedFields ==
    ASSUME NEW r \in RunRecords, Uncut(r), NEW error \in {"Interrupted", "exit", "timeout"}
    PROVE  LET s == Interrupted(r, error)
           IN /\ s \in RunRecords /\ s.interruption \in Ends /\ s.interrupting = error
              /\ s.task = r.task /\ s.cause = r.cause /\ s.seen = r.seen /\ s.again = r.again
<1>1. PICK translated : translated = IF error = "exit" THEN error ELSE Translate(r, error)
  OBVIOUS
<1>2. translated \in Ends
  BY <1>1, TranslateType DEF Ends, Errors
<1>3. Interrupted(r, error) = [r EXCEPT !.interruption = translated, !.interrupting = error]
  BY <1>1, <1>2 DEF Interrupted, Ends
<1> QED
  BY <1>2, <1>3 DEF RunRecords, Errors

LEMMA CutSuspendedRun ==
    ASSUME NEW l \in Loops, Usual(l), CutSuspended(l)
    PROVE  \E s : RunStep(l, s) /\ s.pc = "unwinding" /\ s.task = runs[l].task
<1>1. PICK signal \in Signals :
          Step(l, [Interrupted(runs[l], Raised(l, signal)) EXCEPT
                       !.pc = "unwinding", !.coroutine = "cancelled", !.cut = TRUE, !.caught = Raised(l, signal)])
  BY DEF CutSuspended
<1>2. PICK error : error = Raised(l, signal)
  OBVIOUS
<1>3. error \in {"Interrupted", "exit", "timeout"}
  BY <1>2, RaisedType DEF Usual, CutSuspended
<1>4. PICK cut : cut = Interrupted(runs[l], error)
  OBVIOUS
<1>5. /\ cut \in RunRecords /\ cut.interruption \in Ends /\ cut.interrupting = error
      /\ cut.task = runs[l].task /\ cut.cause = runs[l].cause /\ cut.seen = runs[l].seen
      /\ cut.again = runs[l].again
  BY <1>3, <1>4, InterruptedFields DEF Usual, Sound, CutSuspended
<1>6. PICK fields : fields = [cut EXCEPT !.pc = "unwinding", !.coroutine = "cancelled", !.cut = TRUE, !.caught = error]
  OBVIOUS
<1>7. DOMAIN fields =
        {"pc", "task", "coroutine", "interruption", "interrupting", "caught", "cause", "seen", "cut", "again"}
  BY <1>5, <1>6 DEF RunRecords
<1>8. /\ fields.pc = "unwinding" /\ fields.coroutine = "cancelled" /\ fields.cut = TRUE /\ fields.caught = error
      /\ fields.task = cut.task /\ fields.interruption = cut.interruption /\ fields.interrupting = cut.interrupting
      /\ fields.cause = cut.cause /\ fields.seen = cut.seen /\ fields.again = cut.again
  BY <1>5, <1>6 DEF RunRecords
<1>9. PICK s : s = After(runs[l], fields)
  OBVIOUS
<1>10. runs' = [runs EXCEPT ![l] = s]
  BY <1>1, <1>2, <1>4, <1>6, <1>9, StepIsAfter DEF Usual
<1>11. /\ s.pc = "unwinding" /\ s.task = runs[l].task /\ s.coroutine = "cancelled"
       /\ s.interruption \in Ends /\ s.interrupting = error /\ s.caught = error /\ s.cause = runs[l].cause
       /\ s.seen = runs[l].seen /\ s.cut = TRUE /\ s.again = runs[l].again
  BY <1>5, <1>7, <1>8, <1>9, AfterFields
<1>12. s \in RunRecords
  <2>1. s.cut \in BOOLEAN
    BY <1>11
  <2>2. s.task \in Tasks \cup {Free} /\ s.again \in BOOLEAN /\ s.interruption \in Ends \cup {"none"}
    BY <1>11 DEF Usual, RunRecords
  <2>3. s.interrupting \in Errors /\ s.caught \in Errors /\ s.cause \in Errors /\ s.seen \in Errors
    BY <1>3, <1>11 DEF Usual, RunRecords, Errors
  <2> QED
    BY <1>9, <1>11, <2>1, <2>2, <2>3, AfterIsRecord
<1>13. runs[l].task \in Tasks /\ runs[l].seen \notin {"cancelled", "soft", "timeout", "celery"}
  BY DEF Usual, Sound, CutSuspended
<1>14. Sound(s)
  BY <1>3, <1>11, <1>12, <1>13 DEF Sound, Uncut, Ends
<1>15. cuts' \in 0..MaxCuts
  BY CutsType DEF CutSuspended, Usual
<1> QED
  BY <1>10, <1>11, <1>14, <1>15 DEF RunStep, CutSuspended

LEMMA UnwindRun ==
    ASSUME NEW l \in Loops, Usual(l), Unwind(l)
    PROVE  \E s : RunStep(l, s) /\ s.pc = "failing" /\ s.task = runs[l].task
<1>1. PICK seen : seen = Translate(runs[l], "cancelled")
  OBVIOUS
<1>2. seen \in {"none", "http", "error", "Failed", "Interrupted", "exit"}
  BY <1>1, TranslateType DEF Usual, Sound, Unwind, Errors
<1>3. PICK s : s = After(runs[l], [pc |-> "failing", coroutine |-> "done", seen |-> seen])
  OBVIOUS
<1>4. runs' = [runs EXCEPT ![l] = s]
  BY <1>1, <1>3, StepIsAfter DEF Usual, Unwind
<1>5. /\ s.pc = "failing" /\ s.task = runs[l].task /\ s.coroutine = "done"
      /\ s.interruption = runs[l].interruption /\ s.interrupting = runs[l].interrupting
      /\ s.caught = runs[l].caught /\ s.cause = runs[l].cause /\ s.seen = seen
      /\ s.cut = runs[l].cut /\ s.again = runs[l].again
  BY <1>3, AfterFields
<1>6. s \in RunRecords
  <2>1. s.seen \in Errors
    BY <1>2, <1>5 DEF Errors
  <2>2. /\ s.task \in Tasks \cup {Free} /\ s.interruption \in Ends \cup {"none"} /\ s.interrupting \in Errors
        /\ s.caught \in Errors /\ s.cause \in Errors /\ s.cut \in BOOLEAN /\ s.again \in BOOLEAN
    BY <1>5 DEF RunRecords, Usual
  <2> QED
    BY <1>3, <1>5, <2>1, <2>2, AfterIsRecord
<1>7. Sound(s)
  BY <1>2, <1>5, <1>6 DEF Sound, Uncut, Usual, Unwind
<1> QED
  BY <1>4, <1>5, <1>7 DEF RunStep, Unwind, Usual

LEMMA CutAgainRun ==
    ASSUME NEW l \in Loops, Usual(l), CutAgain(l)
    PROVE  \E s : RunStep(l, s) /\ s.pc = "failing" /\ s.task = runs[l].task
<1>1. PICK s : s = After(runs[l], [pc |-> "failing", coroutine |-> "left", again |-> TRUE])
  OBVIOUS
<1>2. runs' = [runs EXCEPT ![l] = s]
  BY <1>1, StepIsAfter DEF Usual, CutAgain
<1>3. /\ s.pc = "failing" /\ s.task = runs[l].task /\ s.coroutine = "left"
      /\ s.interruption = runs[l].interruption /\ s.interrupting = runs[l].interrupting
      /\ s.caught = runs[l].caught /\ s.cause = runs[l].cause /\ s.seen = runs[l].seen
      /\ s.cut = runs[l].cut /\ s.again = TRUE
  BY <1>1, AfterFields
<1>4. s \in RunRecords
  <2>1. /\ s.task \in Tasks \cup {Free} /\ s.interruption \in Ends \cup {"none"} /\ s.interrupting \in Errors
        /\ s.caught \in Errors /\ s.cause \in Errors /\ s.seen \in Errors
        /\ s.cut \in BOOLEAN /\ s.again \in BOOLEAN
    BY <1>3 DEF RunRecords, Usual
  <2> QED
    BY <1>1, <1>3, <2>1, AfterIsRecord
<1>5. Sound(s)
  BY <1>3, <1>4 DEF Sound, Uncut, Usual, CutAgain
<1>6. cuts' \in 0..MaxCuts
  BY CutsType DEF CutAgain, Usual
<1> QED
  BY <1>2, <1>3, <1>5, <1>6 DEF RunStep, CutAgain

------------------------------------------------------------------------------
(* The set-ups                                                              *)

LEMMA SetUpKept ==
    ASSUME SetUpInv, runs \in [Loops -> RunRecords], NEW l \in Loops, NEW s, s \in RunRecords,
           runs' = [runs EXCEPT ![l] = s], UNCHANGED <<startedPid, startedLoops, setUp>>,
           \/ startedLock' = startedLock
           \/ runs[l].pc = "starting" /\ startedLock' = Free,
           s.pc # "starting", s.pc \in {"running", "unwinding", "pushing"} => l \in setUp
    PROVE  SetUpInv'
<1>1. runs'[l] = s /\ \A m \in Loops : m # l => runs'[m] = runs[m]
  OBVIOUS
<1>2. startedLock' \in Loops \cup {Free}
  BY DEF SetUpInv
<1>3. ASSUME NEW m \in Loops, runs'[m].pc = "starting"
      PROVE  startedPid' = "child" /\ startedLock' = m
  BY <1>1, <1>3 DEF SetUpInv
<1>4. ASSUME NEW m \in Loops, runs'[m].pc \in {"running", "unwinding", "pushing"}
      PROVE  m \in setUp'
  BY <1>1, <1>4 DEF SetUpInv
<1> QED
  BY <1>2, <1>3, <1>4 DEF SetUpInv

LEMMA EnsureStartedKeepsSetUp ==
    ASSUME ExecutorInv, NEW l \in Loops, EnsureStarted(l)
    PROVE  SetUpInv'
<1>1. PICK s : /\ RunStep(l, s) /\ s.task = runs[l].task
               /\ s.pc = IF startedPid = "child" /\ l \in startedLoops THEN "running" ELSE "starting"
  BY EnsureStartedRun, UsualRun
<1>2. runs'[l] = s /\ \A m \in Loops : m # l => runs'[m] = runs[m]
  BY <1>1 DEF RunStep, ExecutorInv
<1>3. CASE startedPid = "child" /\ l \in startedLoops
  BY <1>1, <1>2, <1>3, SetUpKept DEF RunStep, EnsureStarted, ExecutorInv, Sound, SetUpInv
<1>4. CASE ~(startedPid = "child" /\ l \in startedLoops)
  <2>1. /\ startedLock = Free /\ startedLock' = l /\ startedPid' = "child" /\ setUp' = setUp
        /\ startedLoops' = IF startedPid # "child" THEN {} ELSE startedLoops
    BY <1>4 DEF EnsureStarted
  <2>2. ASSUME NEW m \in Loops, m # l
        PROVE  runs'[m].pc # "starting"
    BY <1>2, <2>1, <2>2, ExecutorAssumption DEF SetUpInv, ExecutorInv
  <2> QED
    BY <1>1, <1>2, <1>4, <2>1, <2>2 DEF SetUpInv, ExecutorInv
<1> QED
  BY <1>3, <1>4

LEMMA StartedKeepsSetUp ==
    ASSUME ExecutorInv, NEW l \in Loops, Started(l)
    PROVE  SetUpInv'
<1>1. PICK s : RunStep(l, s) /\ s.pc = "running" /\ s.task = runs[l].task
  BY StartedRun, UsualRun
<1>2. runs'[l] = s /\ \A m \in Loops : m # l => runs'[m] = runs[m]
  BY <1>1 DEF RunStep, ExecutorInv
<1>3. /\ startedLoops' = startedLoops \cup {l} /\ setUp' = setUp \cup {l} /\ startedLock' = Free
      /\ startedPid' = startedPid /\ runs[l].pc = "starting"
  BY DEF Started
<1>4. \A m \in Loops : m # l => runs[m].pc # "starting"
  BY <1>3 DEF SetUpInv, ExecutorInv
<1> QED
  BY <1>1, <1>2, <1>3, <1>4 DEF SetUpInv, ExecutorInv

(* A step of an execution that leaves the queues as they are keeps the      *)
(* invariant.                                                               *)
LEMMA ExecutionKeeps ==
    ASSUME ExecutorInv, NEW l \in Loops,
           \/ \E k \in Tasks : Receive(l, k)
           \/ EnsureStarted(l) \/ Started(l) \/ NotStarted(l) \/ Suspend(l) \/ Return(l) \/ CutInside(l)
           \/ CutSuspended(l) \/ Unwind(l) \/ CutAgain(l)
    PROVE  ExecutorInv'
<1>1. Usual(l)
  BY UsualRun
<1>2. ASSUME NEW k \in Tasks, Receive(l, k)
      PROVE  ExecutorInv'
  <2>1. PICK s : RunStep(l, s) /\ s.pc = "ensure" /\ s.task = k
    BY <1>1, <1>2, ReceiveRun
  <2>2. SetUpInv'
    BY <1>2, <2>1, SetUpKept DEF ExecutorInv, RunStep, Receive, Sound
  <2> QED
    BY <1>2, <2>1, <2>2, RunStepKeeps DEF Receive
<1>3. CASE EnsureStarted(l)
  BY <1>1, <1>3, EnsureStartedRun, EnsureStartedKeepsSetUp, RunStepKeeps
<1>4. CASE Started(l)
  BY <1>1, <1>4, StartedRun, StartedKeepsSetUp, RunStepKeeps
<1>5. CASE NotStarted(l)
  <2>1. PICK s : RunStep(l, s) /\ s.pc = "failing" /\ s.task = runs[l].task
    BY <1>1, <1>5, NotStartedRun
  <2>2. SetUpInv'
    BY <1>5, <2>1, SetUpKept DEF ExecutorInv, RunStep, NotStarted, Sound
  <2> QED
    BY <2>1, <2>2, RunStepKeeps
<1>6. CASE Suspend(l)
  <2>1. PICK s : RunStep(l, s) /\ s.pc = "running" /\ s.task = runs[l].task
    BY <1>1, <1>6, SuspendRun
  <2>2. l \in setUp
    BY <1>6 DEF Suspend, ExecutorInv, SetUpInv
  <2>3. SetUpInv'
    BY <1>6, <2>1, <2>2, SetUpKept DEF ExecutorInv, RunStep, Suspend, Sound
  <2> QED
    BY <2>1, <2>3, RunStepKeeps
<1>7. CASE Return(l)
  <2>1. PICK s : RunStep(l, s) /\ s.pc \in {"pushing", "failing"} /\ s.task = runs[l].task
    BY <1>1, <1>7, ReturnRun
  <2>2. l \in setUp
    BY <1>7 DEF Return, ExecutorInv, SetUpInv
  <2>3. SetUpInv'
    BY <1>7, <2>1, <2>2, SetUpKept DEF ExecutorInv, RunStep, Return, Sound
  <2> QED
    BY <2>1, <2>3, RunStepKeeps
<1>8. CASE CutInside(l)
  <2>1. PICK s : RunStep(l, s) /\ s.pc = "failing" /\ s.task = runs[l].task
    BY <1>1, <1>8, CutInsideRun
  <2>2. SetUpInv'
    BY <1>8, <2>1, SetUpKept DEF ExecutorInv, RunStep, CutInside, Sound
  <2> QED
    BY <2>1, <2>2, RunStepKeeps
<1>9. CASE CutSuspended(l)
  <2>1. PICK s : RunStep(l, s) /\ s.pc = "unwinding" /\ s.task = runs[l].task
    BY <1>1, <1>9, CutSuspendedRun
  <2>2. l \in setUp
    BY <1>9 DEF CutSuspended, ExecutorInv, SetUpInv
  <2>3. SetUpInv'
    BY <1>9, <2>1, <2>2, SetUpKept DEF ExecutorInv, RunStep, CutSuspended, Sound
  <2> QED
    BY <2>1, <2>3, RunStepKeeps
<1>10. CASE Unwind(l)
  <2>1. PICK s : RunStep(l, s) /\ s.pc = "failing" /\ s.task = runs[l].task
    BY <1>1, <1>10, UnwindRun
  <2>2. SetUpInv'
    BY <1>10, <2>1, SetUpKept DEF ExecutorInv, RunStep, Unwind, Sound
  <2> QED
    BY <2>1, <2>2, RunStepKeeps
<1>11. CASE CutAgain(l)
  <2>1. PICK s : RunStep(l, s) /\ s.pc = "failing" /\ s.task = runs[l].task
    BY <1>1, <1>11, CutAgainRun
  <2>2. SetUpInv'
    BY <1>11, <2>1, SetUpKept DEF ExecutorInv, RunStep, CutAgain, Sound
  <2> QED
    BY <2>1, <2>2, RunStepKeeps
<1> QED
  BY <1>2, <1>3, <1>4, <1>5, <1>6, <1>7, <1>8, <1>9, <1>10, <1>11

------------------------------------------------------------------------------
(* What is told of a call                                                   *)

LEMMA ToldAppended ==
    ASSUME NEW s \in Seq(Payloads), NEW p \in Payloads, NEW q
    PROVE  /\ Append(s, p) \in Seq(Payloads)
           /\ Told(Append(s, p), q) <=> Told(s, q) \/ p = q
<1>1. Append(s, p) \in Seq(Payloads)
  OBVIOUS
<1>2. DOMAIN Append(s, p) = 1..(Len(s) + 1) /\ DOMAIN s = 1..Len(s) /\ Len(s) \in Nat
  OBVIOUS
<1>3. Append(s, p)[Len(s) + 1] = p /\ \A i \in 1..Len(s) : Append(s, p)[i] = s[i]
  OBVIOUS
<1>4. (Len(s) + 1) \in 1..(Len(s) + 1) /\ \A i \in 1..(Len(s) + 1) : i = Len(s) + 1 \/ i \in 1..Len(s)
  BY <1>2
<1> QED
  BY <1>1, <1>2, <1>3, <1>4 DEF Told

(* A report is remembered, and only it.                                     *)
LEMMA RememberedType ==
    ASSUME reported \in Seq(Tasks), NEW k \in Tasks
    PROVE  /\ Remembered(k) \in Seq(Tasks)
           /\ \A i \in DOMAIN Remembered(k) : Remembered(k)[i] = k \/ IsReported(Remembered(k)[i])
<1>1. PICK all : all = Append(reported, k)
  OBVIOUS
<1>2. all \in Seq(Tasks) /\ Len(all) = Len(reported) + 1 /\ Len(reported) \in Nat
  BY <1>1
<1>3. \A i \in 1..Len(all) : all[i] = k \/ IsReported(all[i])
  <2>1. \A i \in 1..Len(all) : i = Len(reported) + 1 \/ i \in 1..Len(reported)
    BY <1>2
  <2>2. all[Len(reported) + 1] = k /\ \A i \in 1..Len(reported) : all[i] = reported[i]
    BY <1>1
  <2>3. \A i \in 1..Len(reported) : IsReported(reported[i])
    BY DEF IsReported
  <2> QED
    BY <2>1, <2>2, <2>3
<1>4. CASE Len(all) > ReportedKept
  <2>1. Remembered(k) = SubSeq(all, 2, Len(all))
    BY <1>1, <1>4 DEF Remembered
  <2>2. SubSeq(all, 2, Len(all)) \in Seq(Tasks) /\ Len(SubSeq(all, 2, Len(all))) = Len(all) - 1
    BY <1>2
  <2>3. \A i \in 1..(Len(all) - 1) : SubSeq(all, 2, Len(all))[i] = all[i + 1] /\ i + 1 \in 1..Len(all)
    BY <1>2
  <2> QED
    BY <1>2, <1>3, <2>1, <2>2, <2>3
<1>5. CASE ~(Len(all) > ReportedKept)
  <2>1. Remembered(k) = SubSeq(all, 1, Len(all))
    BY <1>1, <1>5 DEF Remembered
  <2>2. SubSeq(all, 1, Len(all)) = all
    BY <1>2
  <2> QED
    BY <1>2, <1>3, <2>1, <2>2
<1> QED
  BY <1>4, <1>5

(* A payload for call k, reported or not, leaves the others as they are.    *)
LEMMA PushKeeps ==
    ASSUME AnswersInv, NEW k \in Tasks, NEW p \in Payloads, PushPayload(k, p),
           reported \in Seq(Tasks),
           \/ reported' = reported
           \/ reported' = Remembered(k) /\ p \in {"Interrupted", "NotRun"}
    PROVE  /\ payloads' \in [Tasks -> Seq(Payloads)]
           /\ \A j \in Tasks : j # k => payloads'[j] = payloads[j]
           /\ \A q : Told(payloads'[k], q) <=> Told(payloads[k], q) \/ p = q
           /\ \A j \in Tasks : IsReported(j)' =>
                 Told(payloads'[j], "Interrupted") \/ Told(payloads'[j], "NotRun")
<1>1. payloads' = [payloads EXCEPT ![k] = Append(payloads[k], p)] /\ payloads \in [Tasks -> Seq(Payloads)]
  BY DEF PushPayload, AnswersInv
<1>2. payloads[k] \in Seq(Payloads)
  BY <1>1
<1>3. payloads'[k] = Append(payloads[k], p) /\ \A j \in Tasks : j # k => payloads'[j] = payloads[j]
  BY <1>1
<1>4. /\ Append(payloads[k], p) \in Seq(Payloads)
      /\ \A q : Told(Append(payloads[k], p), q) <=> Told(payloads[k], q) \/ p = q
  BY <1>2, ToldAppended
<1>5. payloads' \in [Tasks -> Seq(Payloads)]
  BY <1>1, <1>4
<1>6. ASSUME NEW j \in Tasks, IsReported(j)'
      PROVE  Told(payloads'[j], "Interrupted") \/ Told(payloads'[j], "NotRun")
  <2>1. CASE IsReported(j)
    BY <1>3, <1>4, <2>1 DEF AnswersInv
  <2>2. CASE ~IsReported(j)
    <3>1. reported' = Remembered(k) /\ p \in {"Interrupted", "NotRun"}
      BY <1>6, <2>2 DEF IsReported
    <3>2. j = k
      BY <1>6, <2>2, <3>1, RememberedType DEF IsReported
    <3> QED
      BY <1>3, <1>4, <3>1, <3>2
  <2> QED
    BY <2>1, <2>2
<1> QED
  BY <1>3, <1>4, <1>5, <1>6

(* What an execution pushes keeps the answers, when it ends cut off only if *)
(* it told so.                                                              *)
LEMMA RunPushes ==
    ASSUME AnswersInv, runs \in [Loops -> RunRecords], NEW l \in Loops, NEW s, s \in RunRecords,
           \A m \in Loops : runs[m].cut => runs[m].task \in Tasks,
           runs' = [runs EXCEPT ![l] = s], s.task = runs[l].task, runs[l].task \in Tasks,
           NEW p \in Payloads, p # "NotRun", PushPayload(runs[l].task, p), reported \in Seq(Tasks),
           \/ reported' = reported
           \/ reported' = Remembered(runs[l].task) /\ p = "Interrupted",
           s.pc = "idle" /\ s.cut => p = "Interrupted"
    PROVE  AnswersInv'
<1>1. PICK k \in Tasks : k = runs[l].task
  OBVIOUS
<1>2. /\ payloads' \in [Tasks -> Seq(Payloads)]
      /\ \A j \in Tasks : j # k => payloads'[j] = payloads[j]
      /\ \A q : Told(payloads'[k], q) <=> Told(payloads[k], q) \/ p = q
      /\ \A j \in Tasks : IsReported(j)' => Told(payloads'[j], "Interrupted") \/ Told(payloads'[j], "NotRun")
  BY <1>1, PushKeeps
<1>3. runs'[l] = s /\ \A m \in Loops : m # l => runs'[m] = runs[m]
  OBVIOUS
<1>4. ~Told(payloads'[k], "NotRun")
  BY <1>1, <1>2 DEF AnswersInv
<1>5. ASSUME NEW m \in Loops
      PROVE  /\ runs'[m].task \in Tasks => ~Told(payloads'[runs'[m].task], "NotRun")
             /\ runs'[m].pc = "idle" /\ runs'[m].cut => Told(payloads'[runs'[m].task], "Interrupted")
  <2>1. CASE m = l
    BY <1>1, <1>2, <1>3, <1>4, <2>1
  <2>2. CASE m # l /\ runs[m].task = k
    BY <1>1, <1>2, <1>3, <1>4, <2>2 DEF AnswersInv
  <2>3. CASE m # l /\ runs[m].task # k
    <3>1. runs[m].pc = "idle" /\ runs[m].cut => runs[m].task \in Tasks
      OBVIOUS
    <3> QED
      BY <1>2, <1>3, <2>3, <3>1 DEF AnswersInv
  <2> QED
    BY <2>1, <2>2, <2>3
<1> QED
  BY <1>2, <1>5 DEF AnswersInv

------------------------------------------------------------------------------
(* The end of an execution                                                  *)

LEMMA PushResultKeeps ==
    ASSUME ExecutorInv, NEW l \in Loops, PushResult(l)
    PROVE  ExecutorInv'
<1>1. /\ Usual(l) /\ runs[l].pc = "pushing" /\ runs[l].task \in Tasks /\ ~runs[l].cut
      /\ UNCHANGED <<pool, startedPid, startedLoops, setUp, startedLock, reported, transitions, process, drain, due>>
  BY UsualRun DEF PushResult, ExecutorInv, Sound, Uncut
<1>2. ReportsInv' /\ DrainInv'
  BY <1>1, ReportsKept DEF ExecutorInv
<1>3. ASSUME NEW caught \in {"Failed", "Interrupted", "soft", "exit", "timeout"},
             Step(l, [pc |-> "failing", caught |-> caught]), cuts' \in 0..MaxCuts,
             payloads' = payloads \/ PushPayload(runs[l].task, "result")
      PROVE  ExecutorInv'
  <2>1. PICK s : s = After(runs[l], [pc |-> "failing", caught |-> caught])
    OBVIOUS
  <2>2. runs' = [runs EXCEPT ![l] = s]
    BY <1>1, <1>3, <2>1, StepIsAfter DEF Usual
  <2>3. /\ s.pc = "failing" /\ s.task = runs[l].task /\ s.coroutine = runs[l].coroutine
        /\ s.interruption = runs[l].interruption /\ s.interrupting = runs[l].interrupting
        /\ s.caught = caught /\ s.cause = runs[l].cause /\ s.seen = runs[l].seen
        /\ s.cut = runs[l].cut /\ s.again = runs[l].again
    BY <2>1, AfterFields
  <2>4. s \in RunRecords
    <3>1. /\ s.task \in Tasks \cup {Free} /\ s.interruption \in Ends \cup {"none"} /\ s.interrupting \in Errors
          /\ s.caught \in Errors /\ s.cause \in Errors /\ s.seen \in Errors
          /\ s.cut \in BOOLEAN /\ s.again \in BOOLEAN
          /\ s.coroutine \in {"none", "running", "suspended", "cancelled", "done", "left"}
      BY <1>1, <1>3, <2>3 DEF RunRecords, Usual, Errors
    <3> QED
      BY <2>1, <2>3, <3>1, AfterIsRecord
  <2>5. Sound(s)
    BY <1>1, <2>3, <2>4 DEF Sound, Uncut, Usual
  <2>6. SetUpInv'
    BY <1>1, <2>2, <2>3, <2>4, SetUpKept DEF ExecutorInv
  <2>7. (runs \in [Loops -> RunRecords] /\ \A m \in Loops : Sound(runs[m]))'
    BY <2>2, <2>5, RunsKept DEF ExecutorInv
  <2>8. AnswersInv'
    <3>1. CASE payloads' = payloads
      BY <1>1, <2>2, <2>3, <3>1, AnswersKept DEF ExecutorInv
    <3>2. CASE PushPayload(runs[l].task, "result")
      <4>1. \A m \in Loops : runs[m].cut => runs[m].task \in Tasks
        BY DEF ExecutorInv, Sound
      <4>2. "result" \in Payloads
        BY DEF Payloads
      <4> QED
        BY <1>1, <2>2, <2>3, <2>4, <3>2, <4>1, <4>2, RunPushes DEF ExecutorInv, ReportsInv
    <3> QED
      BY <1>3, <3>1, <3>2
  <2> QED
    BY <1>1, <1>2, <1>3, <2>6, <2>7, <2>8 DEF ExecutorInv
<1>4. CASE PushPayload(runs[l].task, "result") /\ Step(l, [pc |-> "idle"]) /\ UNCHANGED cuts
  <2>1. PICK s : s = After(runs[l], [pc |-> "idle"])
    OBVIOUS
  <2>2. runs' = [runs EXCEPT ![l] = s]
    BY <1>1, <1>4, <2>1, StepIsAfter DEF Usual
  <2>3. /\ s.pc = "idle" /\ s.task = runs[l].task /\ s.coroutine = runs[l].coroutine
        /\ s.interruption = runs[l].interruption /\ s.interrupting = runs[l].interrupting
        /\ s.caught = runs[l].caught /\ s.cause = runs[l].cause /\ s.seen = runs[l].seen
        /\ s.cut = runs[l].cut /\ s.again = runs[l].again
    BY <2>1, AfterFields
  <2>4. s \in RunRecords
    <3>1. /\ s.task \in Tasks \cup {Free} /\ s.interruption \in Ends \cup {"none"} /\ s.interrupting \in Errors
          /\ s.caught \in Errors /\ s.cause \in Errors /\ s.seen \in Errors
          /\ s.cut \in BOOLEAN /\ s.again \in BOOLEAN
          /\ s.coroutine \in {"none", "running", "suspended", "cancelled", "done", "left"}
      BY <1>1, <2>3 DEF RunRecords, Usual
    <3> QED
      BY <2>1, <2>3, <3>1, AfterIsRecord
  <2>5. Sound(s)
    BY <1>1, <2>3, <2>4 DEF Sound, Uncut, Usual
  <2>6. SetUpInv'
    BY <1>1, <2>2, <2>3, <2>4, SetUpKept DEF ExecutorInv
  <2>7. (runs \in [Loops -> RunRecords] /\ \A m \in Loops : Sound(runs[m]))'
    BY <2>2, <2>5, RunsKept DEF ExecutorInv
  <2>8. \A m \in Loops : runs[m].cut => runs[m].task \in Tasks
    BY DEF ExecutorInv, Sound
  <2>9. "result" \in Payloads
    BY DEF Payloads
  <2>10. AnswersInv'
    BY <1>1, <1>4, <2>2, <2>3, <2>4, <2>8, <2>9, RunPushes DEF ExecutorInv, ReportsInv
  <2> QED
    BY <1>1, <1>2, <1>4, <2>6, <2>7, <2>10 DEF ExecutorInv
<1>5. CASE Cuts /\ Step(l, [pc |-> "failing", caught |-> "Failed"]) /\ UNCHANGED payloads
  BY <1>1, <1>3, <1>5, CutsType DEF Usual
<1>6. ASSUME NEW signal \in Signals, Cuts, PushPayload(runs[l].task, "result"),
             Step(l, [pc |-> "failing", caught |-> Raised(l, signal)])
      PROVE  ExecutorInv'
  <2>1. PICK caught : caught = Raised(l, signal)
    OBVIOUS
  <2>2. caught \in {"Interrupted", "soft", "exit", "timeout"}
    BY <1>1, <2>1, RaisedType DEF Usual
  <2>3. cuts' \in 0..MaxCuts
    BY <1>1, <1>6, CutsType DEF Usual
  <2> QED
    BY <1>3, <1>6, <2>1, <2>2, <2>3
<1> QED
  BY <1>4, <1>5, <1>6 DEF PushResult

(* A report of a call that was not reported is the last of the transitions. *)
LEMMA ReportsAppended ==
    ASSUME ReportsInv, NEW k \in Tasks, ~IsReported(k), reported' = Remembered(k),
           transitions' = Append(transitions, [task |-> k, state |-> "queued"])
    PROVE  ReportsInv'
<1>1. PICK n \in Nat : n = Len(reported)
  BY DEF ReportsInv
<1>2. PICK t \in Nat : t = Len(transitions)
  BY DEF ReportsInv
<1>3. PICK kept \in Nat \ {0} : kept = ReportedKept
  BY ExecutorAssumption
<1>4. n <= kept /\ n <= t /\ (n < kept => n = t)
  BY <1>1, <1>2, <1>3 DEF ReportsInv
<1>5. /\ transitions' \in Seq([task : Tasks, state : {"queued", "listened", "done"}])
      /\ Len(transitions') = t + 1 /\ transitions'[t + 1].task = k
      /\ \A i \in 1..t : transitions'[i] = transitions[i]
  <2>1. [task |-> k, state |-> "queued"] \in [task : Tasks, state : {"queued", "listened", "done"}]
    OBVIOUS
  <2>2. PICK last : last = [task |-> k, state |-> "queued"]
    OBVIOUS
  <2>3. last.task = k
    BY <2>2
  <2> QED
    BY <1>2, <2>1, <2>2, <2>3 DEF ReportsInv
<1>6. PICK all : all = Append(reported, k)
  OBVIOUS
<1>7. /\ all \in Seq(Tasks) /\ Len(all) = n + 1 /\ all[n + 1] = k
      /\ \A i \in 1..n : all[i] = reported[i]
  BY <1>1, <1>6 DEF ReportsInv
<1>8. \A i \in 1..(n + 1) : all[i] = transitions'[(t - n) + i].task
  <2>1. ASSUME NEW i \in 1..n
        PROVE  all[i] = transitions'[(t - n) + i].task
    <3>1. (t - n) + i \in 1..t
      BY <1>4
    <3>2. reported[i] = transitions[(t - n) + i].task
      BY <1>1, <1>2 DEF ReportsInv
    <3> QED
      BY <1>5, <1>7, <3>1, <3>2
  <2>2. all[n + 1] = transitions'[(t - n) + (n + 1)].task
    <3>1. (t - n) + (n + 1) = t + 1
      OBVIOUS
    <3> QED
      BY <1>5, <1>7, <3>1
  <2>3. \A i \in 1..(n + 1) : i \in 1..n \/ i = n + 1
    OBVIOUS
  <2> QED
    BY <2>1, <2>2, <2>3
<1>9. /\ reported' \in Seq(Tasks) /\ Len(reported') <= ReportedKept /\ Len(reported') <= Len(transitions')
      /\ Len(reported') < ReportedKept => Len(reported') = Len(transitions')
      /\ \A i \in 1..Len(reported') : reported'[i] = transitions'[(Len(transitions') - Len(reported')) + i].task
  <2>1. CASE n + 1 > kept
    <3>1. reported' = SubSeq(all, 2, n + 1)
      BY <1>3, <1>6, <1>7, <2>1 DEF Remembered
    <3>2. n = kept /\ n >= 1
      BY <1>3, <1>4, <2>1
    <3>3. /\ reported' \in Seq(Tasks) /\ Len(reported') = n
          /\ \A i \in 1..n : reported'[i] = all[i + 1] /\ i + 1 \in 1..(n + 1)
      BY <1>7, <3>1, <3>2
    <3>4. ASSUME NEW i \in 1..n
          PROVE  reported'[i] = transitions'[((t + 1) - n) + i].task
      <4>1. reported'[i] = transitions'[(t - n) + (i + 1)].task
        BY <1>8, <3>3
      <4>2. (t - n) + (i + 1) = ((t + 1) - n) + i
        OBVIOUS
      <4> QED
        BY <4>1, <4>2
    <3>5. \A i \in 1..Len(reported') : reported'[i] = transitions'[(Len(transitions') - Len(reported')) + i].task
      BY <1>5, <3>3, <3>4
    <3>6. Len(reported') <= ReportedKept /\ ~(Len(reported') < ReportedKept) /\ Len(reported') <= Len(transitions')
      BY <1>3, <1>4, <1>5, <3>2, <3>3
    <3> QED
      BY <3>3, <3>5, <3>6
  <2>2. CASE ~(n + 1 > kept)
    <3>1. reported' = all
      BY <1>3, <1>6, <1>7, <2>2 DEF Remembered
    <3>2. n = t
      BY <1>4, <2>2
    <3>3. (t + 1) - (n + 1) = t - n
      OBVIOUS
    <3>4. Len(reported') = n + 1 /\ Len(transitions') = t + 1
      BY <1>5, <1>7, <3>1
    <3>5. Len(transitions') - Len(reported') = t - n
      BY <3>3, <3>4
    <3>6. \A i \in 1..Len(reported') : reported'[i] = transitions'[(Len(transitions') - Len(reported')) + i].task
      BY <1>8, <3>1, <3>4, <3>5
    <3>7. Len(reported') <= ReportedKept /\ Len(reported') <= Len(transitions') /\ Len(reported') = Len(transitions')
      BY <1>3, <2>2, <3>2, <3>4
    <3>8. reported' \in Seq(Tasks)
      BY <1>7, <3>1
    <3> QED
      BY <3>6, <3>7, <3>8
  <2> QED
    BY <2>1, <2>2
<1>10. ReportedOnce'
  <2>1. ASSUME NEW i \in 1..t, transitions[i].task = k
        PROVE  (t + 1) - i > kept
    <3>1. CASE n = kept
      <4>1. SUFFICES ASSUME ~((t + 1) - i > kept)
                     PROVE  FALSE
        OBVIOUS
      <4>2. PICK j \in 1..n : j = i - (t - n)
        BY <1>4, <3>1, <4>1
      <4>3. (t - n) + j = i
        BY <4>2
      <4>4. reported[j] = k
        BY <1>1, <1>2, <2>1, <4>2, <4>3 DEF ReportsInv
      <4>5. j \in DOMAIN reported
        BY <1>1 DEF ReportsInv
      <4> QED
        BY <4>4, <4>5 DEF IsReported
    <3>2. CASE n < kept
      <4>1. n = t /\ (t - n) + i = i
        BY <1>4, <3>2
      <4>2. reported[i] = k
        BY <1>1, <1>2, <2>1, <4>1 DEF ReportsInv
      <4>3. i \in 1..n
        BY <4>1
      <4>4. DOMAIN reported = 1..n
        BY <1>1 DEF ReportsInv
      <4> QED
        BY <4>2, <4>3, <4>4 DEF IsReported
    <3> QED
      BY <1>4, <3>1, <3>2
  <2>2. ASSUME NEW i \in 1..(t + 1), NEW j \in 1..(t + 1), i < j, transitions'[i].task = transitions'[j].task
        PROVE  j - i > kept
    <3>1. CASE j = t + 1
      BY <1>5, <2>1, <2>2, <3>1
    <3>2. CASE j # t + 1
      <4>1. i \in 1..t /\ j \in 1..t
        BY <2>2, <3>2
      <4>2. DOMAIN transitions = 1..t
        BY <1>2 DEF ReportsInv
      <4> QED
        BY <1>3, <1>5, <2>2, <4>1, <4>2 DEF ReportsInv, ReportedOnce
    <3> QED
      BY <3>1, <3>2
  <2>3. DOMAIN transitions' = 1..(t + 1)
    BY <1>5
  <2> QED
    BY <1>3, <2>2, <2>3 DEF ReportedOnce
<1> QED
  BY <1>5, <1>9, <1>10 DEF ReportsInv

LEMMA DrainAppended ==
    ASSUME DrainInv, ReportsInv, NEW x, transitions' = Append(transitions, x), UNCHANGED <<process, drain, due>>
    PROVE  DrainInv'
<1>1. PICK t \in Nat : t = Len(transitions)
  BY DEF ReportsInv
<1>2. /\ DOMAIN transitions = 1..t /\ DOMAIN transitions' = 1..(t + 1) /\ Len(transitions') = t + 1
      /\ \A i \in 1..t : transitions'[i] = transitions[i]
  BY <1>1 DEF ReportsInv
<1>3. drain' \subseteq DOMAIN transitions' /\ due' \in 0..Len(transitions')
  BY <1>1, <1>2 DEF DrainInv
<1>4. process' = "draining" => \A i \in 1..due' : i \in drain' \/ transitions'[i].state = "done"
  BY <1>1, <1>2 DEF DrainInv
<1> QED
  BY <1>3, <1>4 DEF DrainInv

LEMMA FailKeeps ==
    ASSUME ExecutorInv, NEW l \in Loops, Fail(l)
    PROVE  ExecutorInv'
<1>1. /\ Usual(l) /\ runs[l].pc = "failing" /\ runs[l].task \in Tasks
      /\ UNCHANGED <<pool, startedPid, startedLoops, setUp, startedLock, process, drain, due, cuts>>
      /\ Step(l, [pc |-> "idle"])
  BY UsualRun DEF Fail, ExecutorInv, Sound
<1>2. PICK error : error = Translate(runs[l], runs[l].caught)
  OBVIOUS
<1>3. PICK pushed : pushed = IF error = "exit" THEN "Interrupted" ELSE IF error = "error" THEN "Failed" ELSE error
  OBVIOUS
<1>4. \/ Report(runs[l].task, "Interrupted")
      \/ error = "exit" /\ Report(runs[l].task, pushed)
      \/ PushPayload(runs[l].task, pushed) /\ UNCHANGED <<reported, transitions>>
  BY <1>2, <1>3 DEF Fail
<1>5. /\ runs[l].caught \in Errors /\ runs[l].caught # "cancelled" /\ runs[l].caught # "none"
      /\ runs[l].caught \in {"http", "error", "Failed", "Interrupted", "exit", "soft", "timeout"}
      /\ runs[l].cut => runs[l].caught \in {"Interrupted", "exit", "timeout"}
  BY <1>1 DEF Usual, Sound, Errors
<1>6. /\ error \in {"http", "error", "Failed", "Interrupted", "exit"}
      /\ runs[l].cut => error \in {"Interrupted", "exit"}
  BY <1>1, <1>2, <1>5, TranslateType DEF Usual, Ends
<1>7. /\ pushed \in Payloads /\ pushed # "NotRun"
      /\ runs[l].cut => pushed = "Interrupted"
      /\ error = "exit" => pushed = "Interrupted"
  BY <1>3, <1>6 DEF Payloads
<1>8. \/ Report(runs[l].task, "Interrupted")
      \/ PushPayload(runs[l].task, pushed) /\ UNCHANGED <<reported, transitions>>
  BY <1>4, <1>7
<1>9. PICK s : s = After(runs[l], [pc |-> "idle"])
  OBVIOUS
<1>10. runs' = [runs EXCEPT ![l] = s]
  BY <1>1, <1>9, StepIsAfter DEF Usual
<1>11. /\ s.pc = "idle" /\ s.task = runs[l].task /\ s.coroutine = runs[l].coroutine
       /\ s.interruption = runs[l].interruption /\ s.interrupting = runs[l].interrupting
       /\ s.caught = runs[l].caught /\ s.cause = runs[l].cause /\ s.seen = runs[l].seen
       /\ s.cut = runs[l].cut /\ s.again = runs[l].again
  BY <1>9, AfterFields
<1>12. s \in RunRecords
  <2>1. /\ s.task \in Tasks \cup {Free} /\ s.interruption \in Ends \cup {"none"} /\ s.interrupting \in Errors
        /\ s.caught \in Errors /\ s.cause \in Errors /\ s.seen \in Errors
        /\ s.cut \in BOOLEAN /\ s.again \in BOOLEAN
        /\ s.coroutine \in {"none", "running", "suspended", "cancelled", "done", "left"}
    BY <1>1, <1>11 DEF RunRecords, Usual
  <2> QED
    BY <1>9, <1>11, <2>1, AfterIsRecord
<1>13. Sound(s)
  BY <1>1, <1>11, <1>12 DEF Sound, Uncut, Usual
<1>14. SetUpInv'
  BY <1>1, <1>10, <1>11, <1>12, SetUpKept DEF ExecutorInv
<1>15. /\ (runs \in [Loops -> RunRecords] /\ \A m \in Loops : Sound(runs[m]))'
       /\ runs'[l] = s /\ \A m \in Loops : m # l => runs'[m] = runs[m]
  BY <1>10, <1>13, RunsKept DEF ExecutorInv
<1>16. \A m \in Loops : runs[m].cut => runs[m].task \in Tasks
  BY DEF ExecutorInv, Sound
<1>17. CASE PushPayload(runs[l].task, pushed) /\ UNCHANGED <<reported, transitions>>
  <2>1. AnswersInv'
    BY <1>1, <1>7, <1>10, <1>11, <1>12, <1>16, <1>17, RunPushes DEF ExecutorInv, ReportsInv
  <2>2. ReportsInv' /\ DrainInv'
    BY <1>1, <1>17, ReportsKept DEF ExecutorInv
  <2> QED
    BY <1>1, <1>14, <1>15, <2>1, <2>2 DEF ExecutorInv
<1>18. CASE Report(runs[l].task, "Interrupted") /\ ~IsReported(runs[l].task)
  <2>1. /\ reported' = Remembered(runs[l].task) /\ PushPayload(runs[l].task, "Interrupted")
        /\ transitions' = Append(transitions, [task |-> runs[l].task, state |-> "queued"])
    BY <1>18 DEF Report
  <2>2. "Interrupted" \in Payloads
    BY DEF Payloads
  <2>3. AnswersInv'
    BY <1>1, <1>10, <1>11, <1>12, <1>16, <2>1, <2>2, RunPushes DEF ExecutorInv, ReportsInv
  <2>4. ReportsInv'
    BY <1>1, <1>18, <2>1, ReportsAppended DEF ExecutorInv
  <2>5. DrainInv'
    BY <1>1, <2>1, DrainAppended DEF ExecutorInv
  <2> QED
    BY <1>1, <1>14, <1>15, <2>3, <2>4, <2>5 DEF ExecutorInv
<1>19. CASE Report(runs[l].task, "Interrupted") /\ IsReported(runs[l].task)
  <2>1. UNCHANGED <<reported, payloads, transitions>>
    BY <1>19 DEF Report
  <2>2. Told(payloads[runs[l].task], "Interrupted")
    BY <1>1, <1>19 DEF ExecutorInv, AnswersInv
  <2>4. AnswersInv'
    BY <1>1, <1>11, <1>15, <2>1, <2>2 DEF ExecutorInv, AnswersInv, IsReported
  <2>5. ReportsInv' /\ DrainInv'
    BY <1>1, <2>1, ReportsKept DEF ExecutorInv
  <2> QED
    BY <1>1, <1>14, <1>15, <2>4, <2>5 DEF ExecutorInv
<1> QED
  BY <1>8, <1>17, <1>18, <1>19

------------------------------------------------------------------------------
(* Reports without an execution, their listeners, the end of the process    *)

LEMMA SignalKeeps ==
    ASSUME ExecutorInv, NEW k \in Tasks, Signal(k)
    PROVE  ExecutorInv'
<1>1. /\ UNCHANGED <<pool, startedPid, startedLoops, setUp, startedLock, runs, process, drain, due>>
      /\ cuts' \in 0..MaxCuts
  BY CutsType, ExecutorAssumption DEF Signal, ExecutorInv
<1>2. SetUpInv'
  BY <1>1 DEF SetUpInv, ExecutorInv
<1>3. CASE IsReported(k)
  <2>1. UNCHANGED <<reported, payloads, transitions>>
    BY <1>3 DEF Signal, Report
  <2>2. AnswersInv'
    BY <1>1, <2>1 DEF ExecutorInv, AnswersInv, IsReported
  <2>3. ReportsInv' /\ DrainInv'
    BY <1>1, <2>1, ReportsKept DEF ExecutorInv
  <2> QED
    BY <1>1, <1>2, <2>2, <2>3 DEF ExecutorInv
<1>4. CASE ~IsReported(k)
  <2>1. PICK p : p = IF Taken(k) THEN "Interrupted" ELSE "NotRun"
    OBVIOUS
  <2>2. /\ reported' = Remembered(k) /\ PushPayload(k, p)
        /\ transitions' = Append(transitions, [task |-> k, state |-> "queued"])
    BY <1>4, <2>1 DEF Signal, Report
  <2>3. p \in Payloads /\ p \in {"Interrupted", "NotRun"}
    BY <2>1 DEF Payloads
  <2>4. /\ payloads' \in [Tasks -> Seq(Payloads)]
        /\ \A j \in Tasks : j # k => payloads'[j] = payloads[j]
        /\ \A q : Told(payloads'[k], q) <=> Told(payloads[k], q) \/ p = q
        /\ \A j \in Tasks : IsReported(j)' => Told(payloads'[j], "Interrupted") \/ Told(payloads'[j], "NotRun")
    BY <2>2, <2>3, PushKeeps DEF ExecutorInv, ReportsInv
  <2>5. ASSUME NEW l \in Loops
        PROVE  /\ runs'[l].task \in Tasks => ~Told(payloads'[runs'[l].task], "NotRun")
               /\ runs'[l].pc = "idle" /\ runs'[l].cut => Told(payloads'[runs'[l].task], "Interrupted")
    <3>1. runs[l].cut => runs[l].task \in Tasks
      BY DEF ExecutorInv, Sound
    <3>2. CASE runs[l].task = k
      <4>1. p = "Interrupted"
        BY <2>1, <3>2 DEF Taken
      <4> QED
        BY <1>1, <2>4, <3>2, <4>1 DEF ExecutorInv, AnswersInv
    <3>3. CASE runs[l].task # k
      BY <1>1, <2>4, <3>1, <3>3 DEF ExecutorInv, AnswersInv
    <3> QED
      BY <3>2, <3>3
  <2>6. AnswersInv'
    BY <2>4, <2>5 DEF AnswersInv
  <2>7. ReportsInv'
    BY <1>4, <2>2, ReportsAppended DEF ExecutorInv
  <2>8. DrainInv'
    BY <1>1, <2>2, DrainAppended DEF ExecutorInv
  <2> QED
    BY <1>1, <1>2, <2>6, <2>7, <2>8 DEF ExecutorInv
<1> QED
  BY <1>3, <1>4

LEMMA ServeKeeps ==
    ASSUME ExecutorInv, Serve
    PROVE  ExecutorInv'
<1>1. PICK i \in DOMAIN transitions :
        /\ transitions[i].state # "done"
        /\ transitions' = [transitions EXCEPT ![i].state = IF @ = "queued" THEN "listened" ELSE "done"]
  BY DEF Serve
<1>2. UNCHANGED <<pool, startedPid, startedLoops, setUp, startedLock, runs, reported, payloads, process, drain, due, cuts>>
  BY DEF Serve
<1>3. PICK state \in {"listened", "done"} : state = IF transitions[i].state = "queued" THEN "listened" ELSE "done"
  OBVIOUS
<1>4. PICK t \in Nat : t = Len(transitions)
  BY DEF ExecutorInv, ReportsInv
<1>5. /\ DOMAIN transitions = 1..t
      /\ \A j \in 1..t : transitions[j] \in [task : Tasks, state : {"queued", "listened", "done"}]
  <2>1. transitions \in Seq([task : Tasks, state : {"queued", "listened", "done"}])
    BY DEF ExecutorInv, ReportsInv
  <2>2. DOMAIN transitions = 1..t
    BY <1>4, <2>1
  <2>3. \A j \in 1..t : transitions[j] \in [task : Tasks, state : {"queued", "listened", "done"}]
    <3>1. \A S : \A s \in Seq(S) : \A j \in 1..Len(s) : s[j] \in S
      BY ElementOfSeq
    <3> QED
      BY <1>4, <2>1, <3>1, Zenon
  <2> QED
    BY <2>2, <2>3
<1>6. transitions' = [transitions EXCEPT ![i] = [task |-> transitions[i].task, state |-> state]]
  <2>1. PICK y : y = transitions[i]
    OBVIOUS
  <2>2. y \in [task : Tasks, state : {"queued", "listened", "done"}]
    BY <1>1, <1>5, <2>1
  <2>3. [y EXCEPT !.state = IF @ = "queued" THEN "listened" ELSE "done"] = [task |-> y.task, state |-> state]
    BY <1>3, <2>1, <2>2
  <2> QED
    BY <1>1, <2>1, <2>3
<1>7. PICK x : x = [task |-> transitions[i].task, state |-> state]
  OBVIOUS
<1>8. x \in [task : Tasks, state : {"queued", "listened", "done"}] /\ x.task = transitions[i].task
  BY <1>1, <1>5, <1>7
<1>9. /\ transitions' \in Seq([task : Tasks, state : {"queued", "listened", "done"}]) /\ Len(transitions') = t
      /\ DOMAIN transitions' = 1..t
      /\ \A j \in 1..t : transitions'[j] = IF j = i THEN x ELSE transitions[j]
  BY <1>4, <1>5, <1>6, <1>7, <1>8, ExceptSeq DEF ExecutorInv, ReportsInv
<1>10. /\ \A j \in 1..t : transitions'[j].task = transitions[j].task
       /\ \A j \in 1..t : transitions[j].state = "done" => transitions'[j].state = "done"
  BY <1>1, <1>8, <1>9
<1>11. ReportsInv'
  <2>1. ReportedOnce'
    BY <1>5, <1>9, <1>10 DEF ExecutorInv, ReportsInv, ReportedOnce
  <2>2. \A j \in 1..Len(reported) : (t - Len(reported)) + j \in 1..t
    BY <1>4 DEF ExecutorInv, ReportsInv
  <2>3. \A j \in 1..Len(reported) : reported[j] = transitions'[(t - Len(reported)) + j].task
    BY <1>4, <1>10, <2>2 DEF ExecutorInv, ReportsInv
  <2> QED
    BY <1>2, <1>4, <1>9, <2>1, <2>3 DEF ExecutorInv, ReportsInv
<1>12. DrainInv'
  BY <1>2, <1>4, <1>5, <1>9, <1>10 DEF ExecutorInv, DrainInv
<1>13. SetUpInv' /\ AnswersInv'
  BY <1>2 DEF ExecutorInv, SetUpInv, AnswersInv, IsReported
<1> QED
  BY <1>2, <1>11, <1>12, <1>13 DEF ExecutorInv

LEMMA ShutdownKeeps ==
    ASSUME ExecutorInv, Shutdown
    PROVE  ExecutorInv'
<1>1. UNCHANGED <<pool, startedPid, startedLoops, setUp, startedLock, runs, reported, transitions, payloads, cuts>>
  BY DEF Shutdown
<1>2. SetUpInv' /\ AnswersInv' /\ ReportsInv'
  BY <1>1 DEF ExecutorInv, SetUpInv, AnswersInv, IsReported, ReportsInv, ReportedOnce
<1>3. DOMAIN transitions = 1..Len(transitions) /\ Len(transitions) \in Nat
  BY DEF ExecutorInv, ReportsInv
<1>4. /\ process' = "draining" /\ due' = Len(transitions)
      /\ drain' = {i \in DOMAIN transitions : transitions[i].state # "done"}
  BY DEF Shutdown
<1>5. DrainInv'
  BY <1>1, <1>3, <1>4 DEF DrainInv
<1> QED
  BY <1>1, <1>2, <1>5 DEF ExecutorInv

LEMMA ExitKeeps ==
    ASSUME ExecutorInv, Exit
    PROVE  ExecutorInv'
<1>1. /\ UNCHANGED <<pool, startedPid, startedLoops, setUp, startedLock, runs, reported, transitions, payloads, due>>
      /\ process' = "down" /\ drain' \in {drain, {}} /\ cuts' \in 0..MaxCuts
  BY CutsType, ExecutorAssumption DEF Exit, ExecutorInv
<1>2. SetUpInv' /\ AnswersInv' /\ ReportsInv'
  BY <1>1 DEF ExecutorInv, SetUpInv, AnswersInv, IsReported, ReportsInv, ReportedOnce
<1>3. DrainInv'
  BY <1>1 DEF ExecutorInv, DrainInv
<1> QED
  BY <1>1, <1>2, <1>3 DEF ExecutorInv

LEMMA ExecutorStarts == ASSUME ExecutorInit PROVE ExecutorInv
<1>1. pool \in Pools /\ cuts \in 0..MaxCuts
  BY ExecutorAssumption DEF ExecutorInit
<1>2. NoRun \in RunRecords /\ NoRun.task = Free /\ NoRun.pc = "idle" /\ ~NoRun.cut /\ Sound(NoRun)
  BY DEF NoRun, RunRecords, Errors, Sound, Uncut
<1>3. runs \in [Loops -> RunRecords] /\ \A l \in Loops : runs[l] = NoRun
  BY <1>2 DEF ExecutorInit
<1>4. SetUpInv
  BY <1>2, <1>3 DEF ExecutorInit, SetUpInv
<1>5. reported = <<>> /\ transitions = <<>> /\ payloads = [k \in Tasks |-> <<>>]
  BY DEF ExecutorInit
<1>6. AnswersInv
  <2>1. payloads \in [Tasks -> Seq(Payloads)] /\ \A k \in Tasks : payloads[k] = <<>>
    BY <1>5
  <2>2. \A k \in Tasks : ~Told(payloads[k], "NotRun") /\ ~IsReported(k)
    BY <1>5, <2>1 DEF Told, IsReported
  <2> QED
    BY <1>2, <1>3, <2>1, <2>2 DEF AnswersInv
<1>7. ReportsInv
  BY <1>5, ExecutorAssumption DEF ReportsInv, ReportedOnce
<1>8. DrainInv
  BY <1>5 DEF ExecutorInit, DrainInv
<1> QED
  BY <1>1, <1>2, <1>3, <1>4, <1>6, <1>7, <1>8 DEF ExecutorInv

LEMMA ExecutorSteps == ASSUME ExecutorInv, [ExecutorNext]_executorVars PROVE ExecutorInv'
<1>1. ASSUME NEW l \in Loops, Executes(l)
      PROVE  ExecutorInv'
  BY <1>1, ExecutionKeeps, PushResultKeeps, FailKeeps DEF Executes
<1>2. CASE UNCHANGED executorVars
  BY <1>2 DEF executorVars, ExecutorInv, SetUpInv, AnswersInv, IsReported, ReportsInv, ReportedOnce, DrainInv
<1> QED
  BY <1>1, <1>2, SignalKeeps, ServeKeeps, ShutdownKeeps, ExitKeeps DEF ExecutorNext

------------------------------------------------------------------------------
(* What holds of every process that executes actions                        *)

(* The inductive invariant (server.py 160-661).                             *)
THEOREM ExecutorIsInvariant == ExecutorSpec => []ExecutorInv
<1>1. ExecutorInit => ExecutorInv
  BY ExecutorStarts
<1>2. ExecutorInv /\ [ExecutorNext]_executorVars => ExecutorInv'
  BY ExecutorSteps
<1> QED
  BY <1>1, <1>2, PTL DEF ExecutorSpec

(* The variables have their types, what is remembered its limit.            *)
THEOREM ExecutorIsTyped == ExecutorSpec => []ExecutorTypeOK
<1>1. ExecutorInv => ExecutorTypeOK
  <2> SUFFICES ASSUME ExecutorInv
               PROVE  ExecutorTypeOK
    OBVIOUS
  <2>1. ASSUME NEW l \in Loops
        PROVE  /\ DOMAIN runs[l] = DOMAIN NoRun
               /\ runs[l].pc \in {"idle", "ensure", "starting", "running", "unwinding", "pushing", "failing"}
               /\ runs[l].coroutine \in {"none", "running", "suspended", "cancelled", "done", "left"}
               /\ runs[l].task \in Tasks \cup {Free}
    <3>1. runs[l] \in RunRecords
      BY DEF ExecutorInv
    <3> QED
      BY <3>1 DEF RunRecords, NoRun
  <2> QED
    BY <2>1 DEF ExecutorInv, ExecutorTypeOK, SetUpInv, ReportsInv, DrainInv
<1> QED
  BY <1>1, ExecutorIsInvariant, PTL

(* An action executes on a loop that is set up, alone on it (server.py      *)
(* 232-246, 269-293).                                                       *)
THEOREM LoopsAreTheirOwn == ExecutorSpec => []LoopIsItsOwn
<1>1. ExecutorInv => LoopIsItsOwn
  BY DEF ExecutorInv, LoopIsItsOwn, SetUpBeforeUse, NothingRunsOn, SetUpInv, Sound
<1> QED
  BY <1>1, ExecutorIsInvariant, PTL

(* The middlewares and the caller see every interruption, translated        *)
(* (server.py 170-202, 612-661).                                            *)
THEOREM InterruptionsAreSeen == ExecutorSpec => []InterruptionIsSeen
<1>1. ExecutorInv => InterruptionIsSeen
  <2> SUFFICES ASSUME ExecutorInv
               PROVE  InterruptionIsSeen
    OBVIOUS
  <2>1. \A l \in Loops : runs[l].seen \notin {"cancelled", "soft", "timeout", "celery"}
    BY DEF ExecutorInv, Sound
  <2>2. ASSUME NEW l \in Loops, runs[l].pc = "idle", runs[l].cut
        PROVE  \E i \in DOMAIN payloads[runs[l].task] : payloads[runs[l].task][i] = "Interrupted"
    BY <2>2 DEF ExecutorInv, AnswersInv, Told
  <2>3. ASSUME NEW k \in Tasks, NEW i \in DOMAIN payloads[k]
        PROVE  payloads[k][i] \in {"result", "http", "Failed", "Interrupted", "NotRun"}
    BY DEF ExecutorInv, AnswersInv, Payloads
  <2> QED
    BY <2>1, <2>2, <2>3 DEF InterruptionIsSeen
<1> QED
  BY <1>1, ExecutorIsInvariant, PTL

(* A call is reported once while _REPORTED_KEPT remembers it (server.py     *)
(* 306-331).                                                                *)
THEOREM ReportsAreOnce == ExecutorSpec => []ReportedOnce
<1>1. ExecutorInv => ReportedOnce
  BY DEF ExecutorInv, ReportsInv
<1> QED
  BY <1>1, ExecutorIsInvariant, PTL

(* The process waits for what the listeners are due, or gives up (server.py *)
(* 399-411).                                                                *)
THEOREM ExitIsDrained == ExecutorSpec => DrainedBeforeExit
<1>1. ASSUME ExecutorInv, [ExecutorNext]_executorVars
      PROVE  [process' = "down" /\ process = "draining" /\ cuts' = cuts =>
                  \A i \in 1..due : transitions[i].state = "done"]_executorVars
  <2> SUFFICES ASSUME process' = "down", process = "draining", cuts' = cuts
               PROVE  \A i \in 1..due : transitions[i].state = "done"
    OBVIOUS
  <2>1. Exit
    <3>1. process' # process
      OBVIOUS
    <3> QED
      BY <1>1, <3>1 DEF ExecutorNext, Executes, executorVars, Receive, EnsureStarted, Started, NotStarted, Suspend,
         Return, CutInside, CutSuspended, Unwind, CutAgain, PushResult, Fail, Signal, Serve, Shutdown, Queues
  <2>2. ~Cuts
    BY <1>1 DEF Cuts, ExecutorInv
  <2>3. \A i \in drain : transitions[i].state = "done"
    BY <2>1, <2>2 DEF Exit
  <2> QED
    BY <1>1, <2>3 DEF ExecutorInv, DrainInv
<1> QED
  BY <1>1, ExecutorIsInvariant, PTL DEF ExecutorSpec, DrainedBeforeExit
===============================================================================
