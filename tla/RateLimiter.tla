----------------------------- MODULE RateLimiter ------------------------------
(* RateLimiter.depends: fixed windows of counted requests, in the memory of *)
(* each process, or in one Redis that the processes share. A window begins  *)
(* with the first request after the one before it; a configured limit goes  *)
(* with the action, so that requests of one key may have different limits.  *)
(* Redis is modelled from its use: INCR, PTTL and PEXPIRE are one step, and *)
(* a key of it may have been written before, without an expiry.             *)
EXTENDS Integers, Sequences, FiniteSets

CONSTANTS
    LimitKeys,   \* what key_func answers
    Limits,      \* the limits of the actions, the default one included
    Limiters,    \* the processes, each with a RateLimiter of its own
    Window,      \* window_seconds
    ForeignCount,\* what a key of Redis may hold beforehand
    MaxNow,      \* bounds the clock
    MaxHits      \* bounds the requests

ASSUME RateLimiterAssumption ==
    /\ Limits \subseteq Nat /\ ForeignCount \in Nat
    /\ "redis" \notin Limiters
    /\ Window \in Nat \ {0} /\ MaxNow \in Nat /\ MaxHits \in Nat

VARIABLES
    now,
    inRedis,     \* whether the limiters have a redis_client
    windows,     \* windows[place][key]: the count, and since (memory) or until (Redis) when
    nextPrune,   \* nextPrune[p]: when p next forgets its old windows
    hits         \* history: the requests that were counted, in order, each in its window

rateVars == <<now, inRedis, windows, nextPrune, hits>>

Places == Limiters \cup {"redis"}

NoWindow == [count |-> 0, at |-> 0 - 1]

Foreign == [count |-> ForeignCount, at |-> 0 - 1]

PlaceOfCounts(p) == IF inRedis THEN "redis" ELSE p

HitRecords ==
    [time : 0..MaxNow, key : LimitKeys, limit : Limits, place : Places, allowed : BOOLEAN,
     count : 1..(ForeignCount + MaxHits), since : 0..MaxNow]

(* `count` of the window that began at `since`.                             *)
Hit(p, key, limit, count, since) ==
    hits' = Append(hits, [time |-> now, key |-> key, limit |-> limit, place |-> PlaceOfCounts(p),
                          allowed |-> count <= limit, count |-> count, since |-> since])

------------------------------------------------------------------------------
(* Mutant of Old: a window ends as it begins.                               *)
OldAtOnce(window) == now >= window.at

(* _increment_in_memory: old windows are forgotten once per window.         *)
Old(window) == now - window.at >= Window

Pruned(p) ==
    IF now >= nextPrune[p]
    THEN [k \in LimitKeys |-> IF Old(windows[p][k]) THEN NoWindow ELSE windows[p][k]]
    ELSE windows[p]

CountInMemory(p, key, limit) ==
    LET found == Pruned(p)[key]
        open == IF found = NoWindow \/ Old(found) THEN [count |-> 0, at |-> now] ELSE found
    IN /\ ~inRedis
       /\ windows' = [windows EXCEPT ![p] =
                         [Pruned(p) EXCEPT ![key] = [count |-> open.count + 1, at |-> open.at]]]
       /\ nextPrune' = IF now >= nextPrune[p] THEN [nextPrune EXCEPT ![p] = now + Window] ELSE nextPrune
       /\ Hit(p, key, limit, open.count + 1, open.at)
       /\ UNCHANGED <<now, inRedis>>

(* _INCREMENT_SCRIPT: the key is gone at its expiry; one without an expiry  *)
(* is given one.                                                            *)
Expired(window) == window.at >= 0 /\ now >= window.at

CountInRedis(p, key, limit) ==
    LET found == IF Expired(windows["redis"][key]) THEN NoWindow ELSE windows["redis"][key]
        until == IF found.at < 0 THEN now + Window ELSE found.at
    IN /\ inRedis
       /\ windows' = [windows EXCEPT !["redis"][key] = [count |-> found.count + 1, at |-> until]]
       /\ Hit(p, key, limit, found.count + 1, until - Window)
       /\ UNCHANGED <<now, inRedis, nextPrune>>

TimePasses ==
    /\ now < MaxNow
    /\ now' = now + 1
    /\ UNCHANGED <<inRedis, windows, nextPrune, hits>>

RateInit ==
    /\ now = 0 /\ inRedis \in BOOLEAN /\ hits = <<>>
    /\ nextPrune = [p \in Limiters |-> 0]
    /\ \E redis \in [LimitKeys -> {NoWindow, Foreign}] :
          windows = [place \in Places |-> IF place = "redis" THEN redis ELSE [k \in LimitKeys |-> NoWindow]]

RateNext ==
    \/ /\ Len(hits) < MaxHits
       /\ \E p \in Limiters, key \in LimitKeys, limit \in Limits :
             CountInMemory(p, key, limit) \/ CountInRedis(p, key, limit)
    \/ TimePasses

RateSpec == RateInit /\ [][RateNext]_rateVars
------------------------------------------------------------------------------
RateTypeOK ==
    /\ now \in 0..MaxNow
    /\ inRedis \in BOOLEAN
    /\ windows \in [Places -> [LimitKeys -> [count : 0..(ForeignCount + MaxHits), at : (0 - 1)..(MaxNow + Window)]]]
    /\ nextPrune \in [Limiters -> 0..(MaxNow + Window)]
    /\ hits \in Seq(HitRecords) /\ Len(hits) <= MaxHits

(* The requests of a key at a place in the window-long interval from t on.  *)
During(place, key, t) ==
    {i \in DOMAIN hits : /\ hits[i].place = place /\ hits[i].key = key
                         /\ hits[i].time >= t /\ hits[i].time < t + Window}

(* No interval as long as a window admits more than twice the limit         *)
(* (docs/guide/rate-limiter.md, known limitations).                         *)
TwiceTheLimit ==
    \A place \in Places, key \in LimitKeys, t \in 0..now, limit \in Limits :
        Cardinality({i \in During(place, key, t) : hits[i].limit = limit /\ hits[i].allowed}) <= 2 * limit

(* A request is refused only after as many requests of its key as its limit *)
(* in the window that ends with it, where those that Redis had before count *)
(* as of the first one (rate_limiter.py 18-19: a key always expires).       *)
Before(i) == {j \in During(hits[i].place, hits[i].key, hits[i].time - Window + 1) : j < i}

FirstOfItsKey(i) == \A j \in DOMAIN hits : hits[j].key = hits[i].key /\ hits[j].place = hits[i].place => j >= i

RefusalsAreEarned ==
    \A i \in DOMAIN hits :
        ~hits[i].allowed =>
            Cardinality(Before(i))
            + (IF inRedis /\ \E j \in Before(i) \cup {i} : FirstOfItsKey(j) THEN ForeignCount ELSE 0)
            >= hits[i].limit

(* The limit is kept both ways: no more pass than the fixed windows allow,  *)
(* and nobody is refused before the limit is reached (rate_limiter.py       *)
(* 76-95).                                                                  *)
LimitIsKept == TwiceTheLimit /\ RefusalsAreEarned

(* A process forgets: what it holds when a request was just counted is less *)
(* than two windows old (rate_limiter.py 87-89).                            *)
WindowsAreForgotten ==
    \A i \in DOMAIN hits :
        i = Len(hits) /\ ~inRedis =>
            \A key \in LimitKeys :
                windows[hits[i].place][key] = NoWindow \/ hits[i].time - windows[hits[i].place][key].at < 2 * Window
=============================================================================
