---------------------------- MODULE Requests_proofs ----------------------------
(* Proofs about Requests for any viewsets and the routes made of them, any  *)
(* configuration, requests and calls.                                       *)
EXTENDS Requests, FiniteSetTheorems, SequenceTheorems, WellFoundedInduction, TLAPS

Pcs == {"idle", "gates", "load", "chain", "execute", "running", "asking", "waiting", "handed", "save", "answered",
        "collected"}

(* A call whose checks have admitted it, and one that has loaded its state. *)
Past == {"load", "chain", "execute", "running", "asking", "waiting", "handed", "save"}

Loaded == Past \ {"load"}

RoutedActions == UNION {{route.action : route \in Range(Classes[c].routes)} : c \in DOMAIN Classes}

CalledActions == {t.action : t \in Dispatched}

Actions == RoutedActions \cup CalledActions

DeferredIn(r) == r.action \in Classes[r.viewset].deferred /\ r.by = 0

UserNeeded(r) ==
    /\ \E i \in DOMAIN GlobalMiddleware : MiddlewareOf[GlobalMiddleware[i]] = "Session"
    /\ SessionRequired(Decides(r.viewset, r.action, "Session"))

ToTheCaller(r, events) ==
    \A i \in DOMAIN events :
        HasScope(r.viewset) =>
            events[i].scope = Classes[r.viewset].scope /\ events[i].key = r.caller /\ r.caller # Nobody

Typed(r) ==
    /\ DOMAIN r = DOMAIN NewCall
    /\ r.pc \in Pcs /\ r.caller \in Callers /\ r.by \in CallIds \cup {0} /\ r.ran \in Nat /\ r.state \subseteq CallIds
    /\ r.alone \in BOOLEAN /\ r.relayed \in BOOLEAN
    /\ r.user \in {r.caller, Nobody, "unread"} /\ r.key \in {r.caller, Nobody, "absent", "deferred"}
    /\ r.pc \in Past \cup {"gates"} \/ r.ran > 0 => r.viewset \in DOMAIN Classes /\ r.action \in Actions
    /\ r.parents \in Seq((DOMAIN Classes) \X Actions)

(* What a record says of its call.                                          *)
Sound(r) ==
    /\ Typed(r)
    /\ r.pc \in {"idle", "gates", "load", "chain", "execute", "handed"} => r.ran = 0
    /\ r.pc \in {"running", "asking", "waiting"} => r.ran > 0
    /\ r.ran > 0 => ~DeferredIn(r) /\ r.user # "unread"
    /\ r.pc = "gates" => r.user = "unread"
    /\ r.pc = "idle" => r.by = 0 /\ ~r.relayed
    /\ r.pc = "chain" => r.by = 0
    /\ r.by = 0 => r.parents = <<>>
    /\ r.pc \in {"idle", "gates"} => r.checked = "unread" /\ r.seen = "unread"
    /\ r.checked # "unread" => r.user = r.checked
    /\ r.seen # "unread" => r.user = r.seen
    /\ r.by = 0 /\ (r.pc \in Past \/ r.ran > 0) /\ UserNeeded(r) => r.checked \notin {Nobody, "unread"}
    /\ ToTheCaller(r, r.home) /\ ToTheCaller(r, r.published)

Checks(gates, k) == [j \in 1..k |-> <<gates[j].viewset, gates[j].action>>]

Asked(r) == [path |-> r.at, transport |-> r.transport, method |-> r.method]

(* The i-th place is the first that serves what the call asked for.         *)
ServedAt(a, i, r) ==
    /\ r.at \in Seq(Range(r.at)) /\ i \in DOMAIN a.places /\ a.places[i].viewset = r.viewset
    /\ \E route \in RoutesAt(a.places[i]) : route.action = r.action /\ Serves(a.places[i], route, Asked(r))
    /\ \A j \in DOMAIN a.places :
          (\E route \in RoutesAt(a.places[j]) : Serves(a.places[j], route, Asked(r))) => i <= j

(* The records of a viewset are listed at a topic.                          *)
AtHome(a, viewset, topic) ==
    \E j \in DOMAIN a.places : a.places[j].viewset = viewset /\ PathMatches(a.places[j].base, topic)

EventsAtHome(r, a, events) ==
    /\ events # <<>> /\ OneAtEachLevel(ActionConfiguration(r.viewset, r.action)) => Len(events) = 1
    /\ \A i \in DOMAIN events : ~HasScope(r.viewset) =>
          /\ events[i].scope = "none"
          /\ HasOnePath(r.viewset, r.action) => AtHome(a, r.viewset, events[i].topic)

(* Who follows f passes the checks of a place that lists its records.       *)
MayList(f, a) ==
    \E i \in DOMAIN a.roots : \E chain \in ChainsUnder(a.roots[i].viewset) :
        LET base == a.roots[i].base
            inner == Innermost(a.roots[i].viewset, chain)
            list == GateAction(inner)
        IN /\ Len(base) + Len(chain) = Len(f.topic) /\ LeadsTo(base, f.topic)
           /\ Len(f.users) = Len(chain)
           /\ \A k \in DOMAIN chain :
                 LET mount == MountOf(chain[k])
                 IN /\ mount.path = f.topic[Len(base) + k]
                    /\ AllAdmit(GateOf(chain[k][1], mount).config, mount.path, f.users[k])
           /\ list # "none" /\ AllAdmit(ActionConfiguration(inner, list), list, f.user)
           /\ f.scope = Classes[inner].scope
           /\ f.scope # "none" => f.user # Nobody /\ f.user = f.fresh

(* The first k gates admit the users that they have seen.                   *)
GatesAdmit(gates, k, users) ==
    /\ Len(users) = k
    /\ \A j \in 1..k : AllAdmit(gates[j].config, gates[j].action, users[j])

(* A verdict, or what is followed with it, that the i-th place admits.      *)
AdmittedAt(a, i, v) ==
    LET place == a.places[i]
    IN /\ GatesAdmit(place.gates, Len(place.gates), v.users)
       /\ DependsAdmit(place, v.user)
       /\ v.scope = Classes[place.viewset].scope
       /\ v.scope # "none" => v.user # Nobody /\ v.user = v.fresh

(* The topic under way: which gates are left, those before have admitted.   *)
UnderWay(q, a) ==
    /\ DOMAIN q = {"place", "topic", "left", "users"} /\ q.topic \in Topics
    /\ q.place \in DOMAIN a.places /\ q.place = MatchViewset(a.places, q.topic)
    /\ LET gates == a.places[q.place].gates
       IN \E k \in 0..Len(gates) :
             /\ q.left = SubSeq(gates, k + 1, Len(gates))
             /\ q.users \in Seq(Callers) /\ GatesAdmit(gates, k, q.users)

(* What a call carries, publishes and follows.                              *)
Homed(r, a) ==
    /\ r.parents = <<>> /\ r.topic # <<>> /\ HasOnePath(r.viewset, r.action) => AtHome(a, r.viewset, r.topic)
    /\ EventsAtHome(r, a, r.home) /\ EventsAtHome(r, a, r.published)
    /\ \A f \in r.follows : MayList(f, a)
    /\ \A v \in r.kept : v.admitted => AdmittedAt(a, v.key.place, v)
    /\ r.asking.place # 0 => UnderWay(r.asking, a)

(* A request that its checks have admitted.                                 *)
Admitted(r, a) ==
    /\ \E i \in DOMAIN a.places :
          /\ ServedAt(a, i, r)
          /\ r.passed = Append(Checks(a.places[i].gates, Len(a.places[i].gates)), <<r.viewset, r.action>>)
    /\ UserNeeded(r) => r.checked \notin {Nobody, "unread"}

(* The gates that a call has passed, and those before it, are its place's.  *)
Gated(r, a) ==
    /\ r.pc = "gates" =>
          \E i \in DOMAIN a.places :
              /\ ServedAt(a, i, r)
              /\ \E k \in 0..Len(a.places[i].gates) :
                    /\ r.gates = SubSeq(a.places[i].gates, k + 1, Len(a.places[i].gates))
                    /\ r.passed = Checks(a.places[i].gates, k)
    /\ r.by = 0 /\ (r.pc \in Past \/ r.ran > 0) =>
          \E i \in DOMAIN a.places :
              /\ ServedAt(a, i, r)
              /\ r.passed = Append(Checks(a.places[i].gates, Len(a.places[i].gates)), <<r.viewset, r.action>>)
    /\ r.pc = "asking" => r.asking.place # 0
    /\ Homed(r, a)

Related(c, e) ==
    \/ calls[e].relayed /\ calls[e].by = c
    \/ calls[c].relayed /\ calls[c].by = e

(* Calls that are alone, but for a call and its relay.                      *)
ApartInv ==
    \A c, e \in CallIds : c # e /\ Under(c) /\ Under(e) /\ calls[c].alone => Related(c, e)

(* A call that another one dispatched.                                      *)
DispatchedBy(d, by) ==
    /\ by.pc # "idle"
    /\ by.ran = 0 => by.pc \in {"handed", "save", "answered", "collected"}
    /\ d.relayed => DeferredIn(by)
    /\ d.parents = (IF by.ran > 0 THEN <<<<by.viewset, by.action>>>> ELSE <<>>) \o by.parents

ByInv == \A d \in CallIds : calls[d].by # 0 => DispatchedBy(calls[d], calls[calls[d].by])

(* What a call that another one dispatched shares with it: the user, if both*)
(* have read one, but for one of Django whose session is no longer alive.   *)
Linked(d, by, a, alive) ==
    /\ d.caller = by.caller
    /\ d.user = "unread" => by.user = "unread" \/ d.caller \in DjangoCallers
    /\ "unread" \in {d.user, by.user} \/ d.user = by.user \/ (d.caller \in DjangoCallers \ alive /\ d.user = Nobody)
    /\ d.relayed => Admitted(by, a)

(* Nobody was read for a call only when its caller had no session.          *)
NobodyIsGone(r, alive) == r.user = Nobody => r.caller \notin alive

LinkInv ==
    /\ Nobody \notin sessions /\ \A c \in CallIds : NobodyIsGone(calls[c], sessions)
    /\ \A d \in CallIds : calls[d].by # 0 => Linked(calls[d], calls[calls[d].by], app, sessions)

(* A call that is alone has what it changed in the state that is to be saved*)
(* for it, and once it has saved, whoever has loaded the state has it too.  *)
Keeps(c) == calls[c].ran > 0 /\ calls[c].alone /\ ~calls[c].relayed /\ Stateful(c)

HasChange(c, e) ==
    /\ c \in calls[e].state
    /\ Singleton(c) => c \in shared[Process(e)][calls[c].viewset]

SavedInv ==
    \A c \in CallIds : Keeps(c) =>
        /\ calls[c].pc = "save" => HasChange(c, c)
        /\ calls[c].pc \in {"answered", "collected"} =>
              /\ c \in stored[calls[c].viewset]
              /\ \A e \in CallIds : calls[e].pc \in Loaded /\ calls[e].viewset = calls[c].viewset => HasChange(c, e)

StatesTyped ==
    /\ stored \in [DOMAIN Classes -> SUBSET CallIds]
    /\ shared \in [{"web", "worker"} -> [DOMAIN Classes -> SUBSET CallIds]]

RequestsInv ==
    /\ app \in Apps /\ sessions \subseteq Callers /\ troubles \in 0..MaxTroubles /\ StatesTyped
    /\ DOMAIN calls = CallIds /\ \A c \in CallIds : Sound(calls[c]) /\ Gated(calls[c], app)
    /\ ApartInv /\ ByInv /\ SavedInv /\ LinkInv

------------------------------------------------------------------------------
(* Sequences, and the configuration in effect                               *)

LEMMA FirstInIs ==
    ASSUME NEW S \in SUBSET Nat, NEW i \in S, \A j \in S : i <= j
    PROVE  FirstIn(S) = i
<1>1. FirstIn(S) = CHOOSE m \in S : \A j \in S : m <= j
  BY DEF FirstIn
<1>2. PICK m : m = FirstIn(S)
  OBVIOUS
<1>3. m \in S /\ \A j \in S : m <= j
  BY <1>1, <1>2, Zenon
<1>4. m <= i /\ i <= m /\ m \in Nat /\ i \in Nat
  BY <1>3
<1> QED
  BY <1>2, <1>4

LEMMA LastExists ==
    ASSUME NEW S \in SUBSET Nat, IsFiniteSet(S), S # {}
    PROVE  \E i \in S : \A j \in S : j <= i
<1> DEFINE Above(i) == {j \in S : j > i}
           T == {Above(i) : i \in S}
<1>1. IsWellFoundedOn(StrictSubsetOrdering(S), SUBSET S)
  BY FS_StrictSubsetOrderingWellFounded, FS_FiniteSubsetsOfFinite
<1>2. T \subseteq SUBSET S /\ T # {}
  OBVIOUS
<1> HIDE DEF T
<1>3. PICK x \in T : \A y \in T : <<y, x>> \notin StrictSubsetOrdering(S)
  BY <1>1, <1>2, WFMin, Zenon
<1>4. PICK i \in S : x = Above(i)
  BY <1>3 DEF T
<1>5. ASSUME NEW j \in S PROVE j <= i
  <2>1. j \in Nat /\ i \in Nat
    OBVIOUS
  <2>2. SUFFICES ASSUME j > i PROVE FALSE
    BY <2>1
  <2>3. Above(j) \subseteq Above(i) /\ j \in Above(i) /\ j \notin Above(j)
    <3>1. ASSUME NEW m \in S, m > j PROVE m > i
      <4>1. m \in Nat
        OBVIOUS
      <4> QED
        BY <2>1, <2>2, <3>1, <4>1
    <3>2. ~(j > j)
      BY <2>1
    <3> QED
      BY <2>2, <3>1, <3>2
  <2>4. Above(j) \in T
    BY DEF T
  <2> HIDE DEF Above
  <2>5. Above(j) \in SUBSET S /\ Above(i) \in SUBSET S
    BY <1>2, <1>3, <1>4, <2>4
  <2> QED
    BY <1>3, <1>4, <2>3, <2>4, <2>5 DEF StrictSubsetOrdering
<1> QED
  BY <1>5

LEMMA FirstInExists ==
    ASSUME NEW S \in SUBSET Nat, S # {}
    PROVE  FirstIn(S) \in S /\ \A j \in S : FirstIn(S) <= j
<1>1. \E i \in S : \A j \in S : i <= j
  <2>1. PICK i \in S : \A j \in S : ~(<<j, i>> \in OpToRel(<, Nat))
    BY WFMin, NatLessThanWellFounded, Zenon
  <2>2. ASSUME NEW j \in S PROVE i <= j
    <3>1. ~(j < i)
      BY <2>1 DEF OpToRel
    <3>2. i \in Nat /\ j \in Nat
      OBVIOUS
    <3> QED
      BY <3>1, <3>2
  <2> QED
    BY <2>2
<1> QED
  BY <1>1 DEF FirstIn

(* The checks of the first k gates, and those of one more.                  *)
LEMMA OneCheckMore ==
    ASSUME NEW gates, NEW k \in Nat
    PROVE  Append(Checks(gates, k), <<gates[k + 1].viewset, gates[k + 1].action>>) = Checks(gates, k + 1)
<1> DEFINE S == {<<gates[j].viewset, gates[j].action>> : j \in 1..(k + 1)}
<1>1. Checks(gates, k) \in Seq(S) /\ Len(Checks(gates, k)) = k
  BY DEF Checks
<1>2. Checks(gates, k + 1) \in Seq(S) /\ Len(Checks(gates, k + 1)) = k + 1
  BY DEF Checks
<1>3. <<gates[k + 1].viewset, gates[k + 1].action>> \in S
  OBVIOUS
<1>4. \A j \in 1..(k + 1) : Append(Checks(gates, k), <<gates[k + 1].viewset, gates[k + 1].action>>)[j] = Checks(gates, k + 1)[j]
  BY <1>1, <1>3 DEF Checks
<1> HIDE DEF S
<1>5. /\ Append(Checks(gates, k), <<gates[k + 1].viewset, gates[k + 1].action>>) \in Seq(S)
      /\ Len(Append(Checks(gates, k), <<gates[k + 1].viewset, gates[k + 1].action>>)) = k + 1
  BY <1>1, <1>3
<1> QED
  BY <1>2, <1>4, <1>5, SeqEqual

LEMMA RestOfGates ==
    ASSUME NEW S, NEW gates \in Seq(S), NEW k \in 0..Len(gates),
           SubSeq(gates, k + 1, Len(gates)) # <<>>
    PROVE  /\ k + 1 \in 1..Len(gates)
           /\ Head(SubSeq(gates, k + 1, Len(gates))) = gates[k + 1]
           /\ Tail(SubSeq(gates, k + 1, Len(gates))) = SubSeq(gates, k + 2, Len(gates))
OBVIOUS

LEMMA NoGatesLeft ==
    ASSUME NEW S, NEW gates \in Seq(S), NEW k \in 0..Len(gates),
           SubSeq(gates, k + 1, Len(gates)) = <<>>
    PROVE  k = Len(gates)
<1>1. k \in Nat /\ Len(gates) \in Nat /\ k <= Len(gates)
  OBVIOUS
<1>2. k # Len(gates) => Len(SubSeq(gates, k + 1, Len(gates))) = Len(gates) - k
  BY <1>1
<1> QED
  BY <1>1, <1>2

(* The instances that a configuration injects come after the global ones.   *)
LEMMA InstancesInEffect ==
    ASSUME NEW config
    PROVE  \E own \in Seq(DOMAIN config \cap Instances) : EffectiveMiddlewares(config) = GlobalMiddleware \o own
<1> DEFINE injected == DOMAIN config \cap Instances
<1>1. IsFiniteSet(injected)
  BY RoutesAssumption, FS_Subset DEF Instances
<1>2. PICK n \in Nat : ExistsBijection(1..n, injected)
  BY <1>1, FS_NatBijection
<1>3. Cardinality(injected) = n
  BY <1>1, <1>2, FS_CountingElements
<1>4. PICK f : f \in Bijection(1..n, injected)
  BY <1>2 DEF ExistsBijection
<1>5. f \in [1..Cardinality(injected) -> injected] /\ IsInjective(f)
  BY <1>3, <1>4 DEF Bijection, Injection, IsInjective
<1>6. SetToSeq(injected) \in [1..Cardinality(injected) -> injected]
  BY <1>5 DEF SetToSeq
<1>7. SetToSeq(injected) \in [1..n -> injected]
  BY <1>3, <1>6
<1>8. EffectiveMiddlewares(config) = GlobalMiddleware \o SetToSeq(injected)
  BY DEF EffectiveMiddlewares, injected
<1> HIDE DEF injected
<1>9. SetToSeq(injected) \in Seq(injected)
  BY <1>7
<1> QED
  BY <1>8, <1>9 DEF injected

LEMMA GlobalInEffect ==
    ASSUME NEW config, NEW i \in DOMAIN GlobalMiddleware
    PROVE  i \in DOMAIN EffectiveMiddlewares(config) /\ EffectiveMiddlewares(config)[i] = GlobalMiddleware[i]
<1>1. PICK own \in Seq(DOMAIN config \cap Instances) : EffectiveMiddlewares(config) = GlobalMiddleware \o own
  BY InstancesInEffect
<1>2. GlobalMiddleware \in Seq(Instances)
  BY RoutesAssumption DEF Instances
<1> QED
  BY <1>1, <1>2

(* The place that decides is the most specific one that names the class.    *)
LEMMA ConfigurationDecides ==
    ASSUME NEW viewset, NEW action, NEW class
    PROVE  ConfigurationFor(ActionConfiguration(viewset, action), class, action) = Decides(viewset, action, class)
<1> DEFINE l1 == IF action \in DOMAIN PerformMethodOf THEN MethodConfiguration(viewset, PerformMethodOf[action]) ELSE <<>>
           l2 == MethodConfiguration(viewset, action)
           l3 == Classes[viewset].config
           l4 == DefaultConfiguration
           config == ActionConfiguration(viewset, action)
<1>1. /\ class \in DOMAIN config <=> \/ class \in DOMAIN l1
                                    \/ class \in DOMAIN l2
                                    \/ class \in DOMAIN l3
                                    \/ class \in DOMAIN l4
      /\ class \in DOMAIN config => config[class] = IF class \in DOMAIN l1 THEN l1[class]
                                    ELSE IF class \in DOMAIN l2 THEN l2[class]
                                    ELSE IF class \in DOMAIN l3 THEN l3[class] ELSE l4[class]
  <2> HIDE DEF l2, l3, l4
  <2> DEFINE o1 == Over(l4, l3)
             o2 == Over(o1, l2)
  <2>1. DOMAIN o1 = DOMAIN l4 \cup DOMAIN l3 /\ \A k \in DOMAIN o1 : o1[k] = IF k \in DOMAIN l3 THEN l3[k] ELSE l4[k]
    BY DEF Over
  <2>2. DOMAIN o2 = DOMAIN o1 \cup DOMAIN l2 /\ \A k \in DOMAIN o2 : o2[k] = IF k \in DOMAIN l2 THEN l2[k] ELSE o1[k]
    BY DEF Over
  <2> HIDE DEF o1, o2
  <2>3. CASE action \in DOMAIN PerformMethodOf
    <3>1. config = Over(o2, l1)
      BY <2>3 DEF ActionConfiguration, o1, o2, l2, l3, l4
    <3> HIDE DEF l1
    <3>2. DOMAIN config = DOMAIN o2 \cup DOMAIN l1
          /\ \A k \in DOMAIN config : config[k] = IF k \in DOMAIN l1 THEN l1[k] ELSE o2[k]
      BY <3>1 DEF Over
    <3> HIDE DEF config
    <3> QED
      BY <2>1, <2>2, <3>2
  <2>4. CASE action \notin DOMAIN PerformMethodOf
    <3>1. config = o2
      BY <2>4 DEF ActionConfiguration, o1, o2, l2, l3, l4
    <3>2. DOMAIN l1 = {}
      BY <2>4
    <3> HIDE DEF config, l1
    <3> QED
      BY <2>1, <2>2, <3>1, <3>2
  <2> QED
    BY <2>3, <2>4
<1> DEFINE naming == {i \in 1..4 : class \in DOMAIN Layers(viewset, action)[i]}
<1>2. DOMAIN Layers(viewset, action) = 1..4 /\ Layers(viewset, action)[1] = l1 /\ Layers(viewset, action)[2] = l2
      /\ Layers(viewset, action)[3] = l3 /\ Layers(viewset, action)[4] = l4
  BY DEF Layers
<1>3. Decides(viewset, action, class) =
          IF naming = {} THEN Unset ELSE ByAction(Layers(viewset, action)[FirstIn(naming)][class], action)
  BY <1>2 DEF Decides
<1> HIDE DEF l1, l2, l3, l4, config
<1>4. naming = {i \in 1..4 : \/ i = 1 /\ class \in DOMAIN l1
                             \/ i = 2 /\ class \in DOMAIN l2
                             \/ i = 3 /\ class \in DOMAIN l3
                             \/ i = 4 /\ class \in DOMAIN l4}
  BY <1>2
<1> HIDE DEF naming
<1>5. CASE class \in DOMAIN l1
  <2>1. FirstIn(naming) = 1
    BY <1>4, <1>5, FirstInIs
  <2> QED
    BY <1>1, <1>2, <1>3, <1>4, <1>5, <2>1 DEF ConfigurationFor, config
<1>6. CASE class \notin DOMAIN l1 /\ class \in DOMAIN l2
  <2>1. FirstIn(naming) = 2
    BY <1>4, <1>6, FirstInIs
  <2> QED
    BY <1>1, <1>2, <1>3, <1>4, <1>6, <2>1 DEF ConfigurationFor, config
<1>7. CASE class \notin DOMAIN l1 /\ class \notin DOMAIN l2 /\ class \in DOMAIN l3
  <2>1. FirstIn(naming) = 3
    BY <1>4, <1>7, FirstInIs
  <2> QED
    BY <1>1, <1>2, <1>3, <1>4, <1>7, <2>1 DEF ConfigurationFor, config
<1>8. CASE class \notin DOMAIN l1 /\ class \notin DOMAIN l2 /\ class \notin DOMAIN l3 /\ class \in DOMAIN l4
  <2>1. FirstIn(naming) = 4
    BY <1>4, <1>8, FirstInIs
  <2> QED
    BY <1>1, <1>2, <1>3, <1>4, <1>8, <2>1 DEF ConfigurationFor, config
<1>9. CASE class \notin DOMAIN l1 /\ class \notin DOMAIN l2 /\ class \notin DOMAIN l3 /\ class \notin DOMAIN l4
  <2>1. naming = {}
    BY <1>4, <1>9
  <2> QED
    BY <1>1, <1>3, <1>9, <2>1 DEF ConfigurationFor, config
<1> QED
  BY <1>5, <1>6, <1>7, <1>8, <1>9

(* A session check among the global ones lets nobody pass where the place   *)
(* that decides requires a user, and awaits the user of the context.        *)
LEMMA SessionChecks ==
    ASSUME NEW r, NEW user, UserNeeded(r)
    PROVE  LET config == ActionConfiguration(r.viewset, r.action)
           IN /\ AwaitsUser(config, r.action)
              /\ AllAdmit(config, r.action, user) => user # Nobody
<1> DEFINE config == ActionConfiguration(r.viewset, r.action)
<1>1. PICK i \in DOMAIN GlobalMiddleware : MiddlewareOf[GlobalMiddleware[i]] = "Session"
  BY DEF UserNeeded
<1>2. SessionRequired(ConfigurationFor(config, "Session", r.action))
  BY ConfigurationDecides DEF UserNeeded
<1> HIDE DEF config
<1>3. i \in DOMAIN EffectiveMiddlewares(config) /\ MiddlewareOf[EffectiveMiddlewares(config)[i]] = "Session"
  BY <1>1, GlobalInEffect
<1>4. AwaitsUser(config, r.action)
  BY <1>2, <1>3 DEF AwaitsUser
<1>5. AllAdmit(config, r.action, user) => user # Nobody
  BY <1>2, <1>3 DEF AllAdmit, Admits
<1> QED
  BY <1>4, <1>5 DEF config

------------------------------------------------------------------------------
(* Places                                                                   *)

LEMMA MountSound ==
    ASSUME NEW link \in Mounts
    PROVE  /\ link = <<link[1], link[2]>> /\ link[1] \in DOMAIN Classes
           /\ link[2] \in DOMAIN Classes[link[1]].mounts /\ link[2] \in Nat
           /\ MountOf(link) \in Range(Classes[link[1]].mounts) /\ MountOf(link).viewset \in DOMAIN Classes
<1>1. PICK c \in DOMAIN Classes : link \in {<<c, i>> : i \in DOMAIN Classes[c].mounts}
  BY DEF Mounts
<1>2. PICK i \in DOMAIN Classes[c].mounts : link = <<c, i>>
  BY <1>1
<1>3. Classes[c].mounts \in Seq(Range(Classes[c].mounts)) /\ Classes[c].mounts[i].viewset \in DOMAIN Classes
  BY RoutesAssumption
<1>4. i \in Nat /\ Classes[c].mounts[i] \in Range(Classes[c].mounts)
  BY <1>3 DEF Range
<1> QED
  BY <1>2, <1>3, <1>4 DEF MountOf

LEMMA ChainSound ==
    ASSUME NEW viewset, NEW chain \in ChainsUnder(viewset)
    PROVE  /\ chain \in Seq(Mounts) /\ chain \in Chains /\ Len(chain) \in Nat /\ DOMAIN chain = 1..Len(chain)
           /\ Len(chain) <= Cardinality(DOMAIN Classes)
           /\ \A k \in 1..Len(chain) : chain[k] \in Mounts
           /\ chain # <<>> => chain[1][1] = viewset
           /\ \A k \in 2..Len(chain) : chain[k][1] = MountOf(chain[k - 1]).viewset
<1>1. Cardinality(DOMAIN Classes) \in Nat
  BY RoutesAssumption, FS_CardinalityType
<1>2. chain \in BoundedSeq(Mounts, Cardinality(DOMAIN Classes))
  BY DEF ChainsUnder, Chains
<1>3. PICK n \in 0..Cardinality(DOMAIN Classes) : chain \in [1..n -> Mounts]
  BY <1>2 DEF BoundedSeq, SeqOf
<1>4. n \in Nat /\ n <= Cardinality(DOMAIN Classes)
  BY <1>1
<1>5. chain \in Seq(Mounts) /\ Len(chain) = n
  BY <1>3, <1>4
<1> QED
  BY <1>3, <1>4, <1>5 DEF ChainsUnder, Chains

(* The chain down to the viewset that holds the k-th link.                  *)
LEMMA ChainDownTo ==
    ASSUME NEW viewset, NEW chain \in ChainsUnder(viewset), NEW k \in 1..Len(chain)
    PROVE  /\ SubSeq(chain, 1, k - 1) \in ChainsUnder(viewset)
           /\ Innermost(viewset, SubSeq(chain, 1, k - 1)) = chain[k][1]
<1>1. PICK c : c = SubSeq(chain, 1, k - 1)
  OBVIOUS
<1>2. /\ chain \in Seq(Mounts) /\ Len(chain) \in Nat /\ Len(chain) <= Cardinality(DOMAIN Classes)
      /\ chain # <<>> => chain[1][1] = viewset
      /\ \A j \in 2..Len(chain) : chain[j][1] = MountOf(chain[j - 1]).viewset
  BY ChainSound
<1>3. k - 1 \in 0..Cardinality(DOMAIN Classes)
  BY <1>2, RoutesAssumption, FS_CardinalityType
<1>4. c \in [1..(k - 1) -> Mounts] /\ Len(c) = k - 1 /\ \A j \in 1..(k - 1) : c[j] = chain[j]
  <2>1. \A j \in 1..(k - 1) : chain[j] \in Mounts
    BY <1>2
  <2>2. c \in Seq(Mounts) /\ Len(c) = k - 1 /\ \A j \in 1..(k - 1) : c[j] = chain[j]
    BY <1>1, <2>1, SubSeqProperties
  <2> QED
    BY <2>2
<1>5. c \in BoundedSeq(Mounts, Cardinality(DOMAIN Classes))
  BY <1>3, <1>4 DEF BoundedSeq, SeqOf
<1>6. \A j \in 2..Len(c) : c[j][1] = MountOf(c[j - 1]).viewset
  <2> SUFFICES ASSUME NEW j \in 2..Len(c)
               PROVE  c[j][1] = MountOf(c[j - 1]).viewset
    OBVIOUS
  <2>1. c[j] = chain[j] /\ c[j - 1] = chain[j - 1] /\ j \in 2..Len(chain)
    BY <1>4
  <2> QED
    BY <1>2, <2>1
<1>7. c # <<>> => c[1][1] = viewset
  <2> SUFFICES ASSUME c # <<>> PROVE c[1][1] = viewset
    OBVIOUS
  <2>1. k - 1 > 0
    BY <1>4
  <2>2. c[1] = chain[1] /\ chain # <<>>
    BY <1>2, <1>4, <2>1
  <2> QED
    BY <1>2, <2>2
<1>8. c \in ChainsUnder(viewset)
  BY <1>5, <1>6, <1>7 DEF ChainsUnder, Chains
<1>9. Innermost(viewset, c) = chain[k][1]
  <2>1. CASE k = 1
    BY <1>2, <1>4, <2>1 DEF Innermost
  <2>2. CASE k # 1
    <3>1. c # <<>> /\ Len(c) = k - 1 /\ c[k - 1] = chain[k - 1] /\ k \in 2..Len(chain)
      BY <1>4, <2>2
    <3> QED
      BY <1>2, <3>1 DEF Innermost
  <2> QED
    BY <2>1, <2>2
<1> QED
  BY <1>1, <1>8, <1>9

(* A mount is told from the others of its viewset by the segment at which it*)
(* is, and that one is no parameter.                                        *)
LEMMA MountsApart ==
    ASSUME NEW viewset, Mountable(viewset), NEW chain \in ChainsUnder(viewset), NEW k \in 1..Len(chain)
    PROVE  /\ MountOf(chain[k]).path # "{pk}"
           /\ \A link \in Mounts :
                 link[1] = chain[k][1] /\ MountOf(link).path = MountOf(chain[k]).path => link = chain[k]
<1>1. PICK c : c = chain[k][1]
  OBVIOUS
<1>2. PICK mounts : mounts = Classes[c].mounts
  OBVIOUS
<1>3. /\ \A i, j \in DOMAIN mounts : i # j => mounts[i].path # mounts[j].path
      /\ \A i \in DOMAIN mounts : mounts[i].path \notin {"schema", "{pk}"}
  <2>1. PICK down : down = SubSeq(chain, 1, k - 1)
    OBVIOUS
  <2>2. down \in ChainsUnder(viewset) /\ Innermost(viewset, down) = c
    BY <1>1, <2>1, ChainDownTo
  <2>3. LET d == Innermost(viewset, down)
            m == Classes[d].mounts
        IN /\ \A i, j \in DOMAIN m : i # j => m[i].path # m[j].path
           /\ \A i \in DOMAIN m : m[i].path \notin {"schema", "{pk}"}
    BY <2>2, Zenon DEF Mountable
  <2> QED
    BY <1>2, <2>2, <2>3, ZenonT(30)
<1>4. chain[k] \in Mounts
  BY ChainSound
<1>5. chain[k] = <<c, chain[k][2]>> /\ chain[k][2] \in DOMAIN mounts
  BY <1>1, <1>2, <1>4, MountSound
<1>6. MountOf(chain[k]).path = mounts[chain[k][2]].path
  BY <1>1, <1>2 DEF MountOf
<1>7. ASSUME NEW link \in Mounts, link[1] = chain[k][1], MountOf(link).path = MountOf(chain[k]).path
      PROVE  link = chain[k]
  <2>1. link = <<c, link[2]>> /\ link[2] \in DOMAIN mounts
    BY <1>1, <1>2, <1>7, MountSound
  <2>2. MountOf(link).path = mounts[link[2]].path
    BY <1>1, <1>2, <1>7 DEF MountOf
  <2>3. link[2] = chain[k][2]
    BY <1>3, <1>5, <1>6, <1>7, <2>1, <2>2
  <2> QED
    BY <1>5, <2>1, <2>3
<1> QED
  BY <1>3, <1>5, <1>6, <1>7

LEMMA PlaceFields ==
    ASSUME NEW k, NEW root, NEW chain, NEW place, place = PlaceOf(k, root, chain)
    PROVE  /\ place.root = k /\ place.chain = chain /\ place.viewset = Innermost(root.viewset, chain)
           /\ place.base = root.base \o [j \in DOMAIN chain |-> MountOf(chain[j]).path]
           /\ place.gates = [j \in DOMAIN chain |-> GateOf(chain[j][1], MountOf(chain[j]))]
BY DEF PlaceOf

(* What an application has at its places.                                   *)
PlaceIs(a, i, k, chain) ==
    /\ k \in DOMAIN a.roots /\ Mountable(a.roots[k].viewset) /\ chain \in ChainsUnder(a.roots[k].viewset)
    /\ a.places[i] = PlaceOf(k, a.roots[k], chain)

LEMMA AppSound ==
    ASSUME NEW a \in Apps
    PROVE  /\ a.roots \in Routings /\ a.places \in SetToSeqs(PlacesOf(a.roots))
           /\ \A i \in DOMAIN a.roots : Mountable(a.roots[i].viewset)
           /\ \A i, j \in DOMAIN a.places : i < j => Precedes(a.places[i], a.places[j])
<1>1. PICK r \in Routings : /\ \A i \in DOMAIN r : Mountable(r[i].viewset)
                            /\ a \in {[roots |-> r, places |-> s] : s \in InOrder(PlacesOf(r))}
  BY DEF Apps, Applications
<1>2. PICK s \in InOrder(PlacesOf(r)) : a = [roots |-> r, places |-> s]
  BY <1>1
<1>3. a.roots = r /\ a.places = s
  BY <1>2
<1>4. s \in SetToSeqs(PlacesOf(r)) /\ \A i, j \in DOMAIN s : i < j => Precedes(s[i], s[j])
  BY <1>2 DEF InOrder
<1> QED
  BY <1>1, <1>3, <1>4

LEMMA PlaceSound ==
    ASSUME NEW a \in Apps, NEW i \in DOMAIN a.places
    PROVE  /\ i \in Nat \ {0}
           /\ \E k, chain : PlaceIs(a, i, k, chain)
<1>1. /\ a.places \in SetToSeqs(PlacesOf(a.roots))
      /\ \A n \in DOMAIN a.roots : Mountable(a.roots[n].viewset)
  BY AppSound
<1>2. PICK D : D = 1..Cardinality(PlacesOf(a.roots))
  OBVIOUS
<1>3. a.places \in [D -> PlacesOf(a.roots)]
  BY <1>1, <1>2 DEF SetToSeqs
<1>4. i \in D
  BY <1>3
<1>5. a.places[i] \in PlacesOf(a.roots)
  BY <1>3, <1>4
<1>6. PICK k \in DOMAIN a.roots : a.places[i] \in {PlaceOf(k, a.roots[k], chain) : chain \in ChainsUnder(a.roots[k].viewset)}
  BY <1>5 DEF PlacesOf
<1>7. PICK chain \in ChainsUnder(a.roots[k].viewset) : a.places[i] = PlaceOf(k, a.roots[k], chain)
  BY <1>6
<1>8. PlaceIs(a, i, k, chain)
  BY <1>1, <1>7 DEF PlaceIs
<1>9. i \in Int /\ 1 <= i
  BY <1>2, <1>4
<1> QED
  BY <1>8, <1>9

LEMMA ImageIsFinite ==
    ASSUME NEW f, IsFiniteSet(DOMAIN f)
    PROVE  IsFiniteSet({f[x] : x \in DOMAIN f})
<1> DEFINE T == {f[x] : x \in DOMAIN f}
           g == [x \in DOMAIN f |-> f[x]]
<1>1. g \in Surjection(DOMAIN f, T)
  BY DEF Surjection
<1> QED
  BY <1>1, FS_Surjection

LEMMA FunctionsAreFinite ==
    ASSUME NEW n \in Nat, NEW S, IsFiniteSet(S)
    PROVE  IsFiniteSet([1..n -> S])
<1> DEFINE F == [f \in [1..n -> S] |-> {<<i, f[i]>> : i \in 1..n}]
           T == SUBSET ((1..n) \X S)
<1>1. IsFiniteSet(T)
  <2>1. IsFiniteSet(1..n)
    BY FS_Interval
  <2>2. IsFiniteSet((1..n) \X S)
    BY <2>1, FS_Product, Zenon
  <2> QED
    BY <2>2, FS_SUBSET, Zenon
<1>2. F \in [[1..n -> S] -> T]
  OBVIOUS
<1>3. ASSUME NEW f \in [1..n -> S], NEW g \in [1..n -> S], F[f] = F[g]
      PROVE  f = g
  <2>1. ASSUME NEW i \in 1..n PROVE f[i] = g[i]
    <3>1. <<i, f[i]>> \in F[g]
      BY <1>3
    <3>2. PICK j \in 1..n : <<i, f[i]>> = <<j, g[j]>>
      BY <3>1
    <3> QED
      BY <3>2
  <2> QED
    BY <2>1
<1>4. F \in Injection([1..n -> S], T)
  BY <1>2, <1>3 DEF Injection, IsInjective
<1> QED
  BY <1>1, <1>4, FS_Injection

LEMMA PlacesAreFinite ==
    ASSUME NEW roots, IsFiniteSet(DOMAIN roots)
    PROVE  IsFiniteSet(PlacesOf(roots))
<1>1. IsFiniteSet(Mounts)
  <2> DEFINE f == [c \in DOMAIN Classes |-> {<<c, i>> : i \in DOMAIN Classes[c].mounts}]
  <2>1. ASSUME NEW c \in DOMAIN Classes PROVE IsFiniteSet(f[c])
    <3> DEFINE g == [i \in DOMAIN Classes[c].mounts |-> <<c, i>>]
    <3>1. Classes[c].mounts \in Seq(Range(Classes[c].mounts))
      BY RoutesAssumption
    <3>2. DOMAIN g = 1..Len(Classes[c].mounts) /\ Len(Classes[c].mounts) \in Nat
      BY <3>1
    <3>3. IsFiniteSet({g[i] : i \in DOMAIN g})
      <4>1. IsFiniteSet(1..Len(Classes[c].mounts))
        BY <3>2, FS_Interval
      <4>2. IsFiniteSet(DOMAIN g)
        BY <3>2, <4>1, Zenon
      <4> HIDE DEF g
      <4> QED
        BY <4>2, ImageIsFinite, Zenon
    <3>4. f[c] = {g[i] : i \in DOMAIN g}
      OBVIOUS
    <3> QED
      BY <3>3, <3>4
  <2>2. IsFiniteSet({f[c] : c \in DOMAIN f})
    BY RoutesAssumption, ImageIsFinite
  <2>3. Mounts = UNION {f[c] : c \in DOMAIN f}
    BY DEF Mounts
  <2> HIDE DEF f
  <2>4. DOMAIN f = DOMAIN Classes
    BY DEF f
  <2> QED
    BY <2>1, <2>2, <2>3, <2>4, FS_UNION
<1>2. IsFiniteSet(BoundedSeq(Mounts, Cardinality(DOMAIN Classes)))
  <2> DEFINE N == Cardinality(DOMAIN Classes)
             f == [m \in 0..N |-> [1..m -> Mounts]]
  <2>1. N \in Nat
    BY RoutesAssumption, FS_CardinalityType
  <2>2. \A m \in 0..N : IsFiniteSet(f[m])
    BY <1>1, <2>1, FunctionsAreFinite
  <2>3. IsFiniteSet({f[m] : m \in DOMAIN f})
    <3>1. IsFiniteSet(0..N)
      BY <2>1, FS_Interval
    <3>2. DOMAIN f = 0..N
      OBVIOUS
    <3> HIDE DEF f, N
    <3>3. IsFiniteSet(DOMAIN f)
      BY <3>1, <3>2, Zenon
    <3> QED
      BY <3>3, ImageIsFinite, Zenon
  <2>4. BoundedSeq(Mounts, N) = UNION {f[m] : m \in DOMAIN f}
    BY DEF BoundedSeq, SeqOf
  <2> HIDE DEF f
  <2>5. DOMAIN f = 0..N
    BY DEF f
  <2> QED
    BY <2>2, <2>3, <2>4, <2>5, FS_UNION
<1>3. \A viewset : IsFiniteSet(ChainsUnder(viewset))
  <2>1. \A viewset : ChainsUnder(viewset) \subseteq BoundedSeq(Mounts, Cardinality(DOMAIN Classes))
    BY DEF ChainsUnder, Chains
  <2> QED
    BY <1>2, <2>1, FS_Subset
<1> DEFINE f == [i \in DOMAIN roots |-> {PlaceOf(i, roots[i], chain) : chain \in ChainsUnder(roots[i].viewset)}]
<1>4. ASSUME NEW i \in DOMAIN roots PROVE IsFiniteSet(f[i])
  <2> DEFINE g == [chain \in ChainsUnder(roots[i].viewset) |-> PlaceOf(i, roots[i], chain)]
  <2>1. IsFiniteSet({g[chain] : chain \in DOMAIN g})
    BY <1>3, ImageIsFinite
  <2>2. f[i] = {g[chain] : chain \in DOMAIN g}
    OBVIOUS
  <2> QED
    BY <2>1, <2>2
<1>5. IsFiniteSet({f[i] : i \in DOMAIN f})
  BY ImageIsFinite
<1>6. PlacesOf(roots) = UNION {f[i] : i \in DOMAIN f}
  BY DEF PlacesOf
<1> HIDE DEF f
<1>7. DOMAIN f = DOMAIN roots
  BY DEF f
<1> QED
  BY <1>4, <1>5, <1>6, <1>7, FS_UNION

LEMMA AppIsFinite ==
    ASSUME NEW a \in Apps
    PROVE  IsFiniteSet(DOMAIN a.places) /\ DOMAIN a.places \subseteq Nat \ {0}
<1>1. a.roots \in Routings /\ a.places \in SetToSeqs(PlacesOf(a.roots))
  BY AppSound
<1>2. a.roots \in Seq(Range(a.roots))
  BY <1>1, RequestsAssumption
<1>3. IsFiniteSet(DOMAIN a.roots)
  <2>1. DOMAIN a.roots = 1..Len(a.roots) /\ Len(a.roots) \in Nat
    BY <1>2
  <2>2. Len(a.roots) \in Int /\ 1 \in Int
    BY <2>1
  <2>3. IsFiniteSet(1..Len(a.roots))
    BY <2>2, FS_Interval
  <2> QED
    BY <2>1, <2>3
<1>4. Cardinality(PlacesOf(a.roots)) \in Nat
  BY <1>3, PlacesAreFinite, FS_CardinalityType
<1>5. PICK n \in Nat : n = Cardinality(PlacesOf(a.roots))
  BY <1>4
<1>6. DOMAIN a.places = 1..n
  BY <1>1, <1>5 DEF SetToSeqs
<1>7. IsFiniteSet(1..n) /\ 1..n \subseteq Nat \ {0}
  BY FS_Interval
<1> QED
  BY <1>6, <1>7, Zenon

(* What a path is to lead to a place.                                       *)
LEMMA LeadsToPlace ==
    ASSUME NEW a \in Apps, NEW i \in DOMAIN a.places, NEW k, NEW chain, PlaceIs(a, i, k, chain),
           NEW A, NEW at \in Seq(A), LeadsTo(a.places[i].base, at)
    PROVE  LET base == a.roots[k].base
           IN /\ base \in Seq(Range(base)) /\ Len(base) \in Nat /\ Len(a.places[i].base) = Len(base) + Len(chain)
              /\ Len(base) + Len(chain) <= Len(at) /\ LeadsTo(base, at)
              /\ \A j \in 1..Len(chain) : MountOf(chain[j]).path = at[Len(base) + j]
<1>1. PICK base : base = a.roots[k].base
  OBVIOUS
<1>2. base \in Seq(Range(base))
  BY <1>1, AppSound, RequestsAssumption DEF PlaceIs
<1>3. chain \in ChainsUnder(a.roots[k].viewset) /\ Mountable(a.roots[k].viewset)
  BY DEF PlaceIs
<1>4. Len(chain) \in Nat /\ DOMAIN chain = 1..Len(chain)
  BY <1>3, ChainSound
<1>5. PICK down : down = [j \in DOMAIN chain |-> MountOf(chain[j]).path]
  OBVIOUS
<1>6. PICK S : S = Range(base) \cup {down[j] : j \in DOMAIN chain}
  OBVIOUS
<1>7. base \in Seq(S)
  BY <1>2, <1>6, SeqMonotonic
<1>8. down \in Seq(S) /\ Len(down) = Len(chain)
  <2>1. \A j \in DOMAIN chain : down[j] \in S
    BY <1>6
  <2>2. down \in [1..Len(chain) -> S]
    BY <1>4, <1>5, <2>1
  <2> QED
    BY <1>4, <2>2
<1>9. PICK whole : whole = base \o down
  OBVIOUS
<1>10. a.places[i].base = whole
  <2>1. a.places[i] = PlaceOf(k, a.roots[k], chain)
    BY DEF PlaceIs
  <2>2. a.places[i].base = a.roots[k].base \o [j \in DOMAIN chain |-> MountOf(chain[j]).path]
    BY <2>1, SMTT(30) DEF PlaceOf
  <2> QED
    BY <1>1, <1>5, <1>9, <2>2
<1>11. /\ Len(whole) = Len(base) + Len(chain) /\ Len(base) \in Nat
       /\ \A n \in 1..Len(base) : whole[n] = base[n]
       /\ \A j \in 1..Len(chain) : whole[Len(base) + j] = down[j]
  <2>1. Len(base) \in Nat
    BY <1>7
  <2>2. /\ Len(whole) = Len(base) + Len(down)
        /\ \A n \in 1..Len(base) + Len(down) : whole[n] = IF n <= Len(base) THEN base[n] ELSE down[n - Len(base)]
    BY <1>7, <1>8, <1>9, ConcatProperties, ZenonT(30)
  <2>3. ASSUME NEW j \in 1..Len(chain) PROVE whole[Len(base) + j] = down[j]
    <3>1. Len(base) + j \in 1..Len(base) + Len(down) /\ ~(Len(base) + j <= Len(base)) /\ (Len(base) + j) - Len(base) = j
      BY <1>4, <1>8, <2>1
    <3> QED
      BY <2>2, <3>1
  <2>4. \A n \in 1..Len(base) : whole[n] = base[n]
    BY <1>4, <1>8, <2>1, <2>2
  <2> QED
    BY <1>8, <2>1, <2>2, <2>3, <2>4
<1>12. Len(whole) <= Len(at) /\ PathMatches(whole, SubSeq(at, 1, Len(whole)))
  BY <1>10 DEF LeadsTo
<1>13. Len(whole) \in Nat /\ Len(at) \in Nat
  BY <1>4, <1>11
<1>14. \A n \in 1..Len(whole) : whole[n] = at[n] \/ whole[n] = "{pk}"
  <2>1. PICK led : led = SubSeq(at, 1, Len(whole))
    OBVIOUS
  <2>2. DOMAIN led = 1..Len(whole) /\ \A n \in 1..Len(whole) : led[n] = at[n]
    BY <1>12, <1>13, <2>1
  <2> QED
    BY <1>12, <2>1, <2>2 DEF PathMatches
<1>15. ASSUME NEW j \in 1..Len(chain) PROVE MountOf(chain[j]).path = at[Len(base) + j]
  <2>1. whole[Len(base) + j] = MountOf(chain[j]).path /\ Len(base) + j \in 1..Len(whole)
    BY <1>4, <1>5, <1>11
  <2>2. MountOf(chain[j]).path # "{pk}"
    BY <1>3, MountsApart
  <2> QED
    BY <1>14, <2>1, <2>2
<1>16. LeadsTo(base, at)
  <2>1. PICK led : led = SubSeq(at, 1, Len(base))
    OBVIOUS
  <2>2. Len(base) <= Len(at)
    BY <1>4, <1>11, <1>12, <1>13
  <2>3. DOMAIN led = 1..Len(base) /\ Len(led) = Len(base) /\ \A n \in 1..Len(base) : led[n] = at[n]
    BY <1>11, <1>13, <2>1, <2>2
  <2>4. ASSUME NEW n \in 1..Len(base) PROVE base[n] = led[n] \/ base[n] = "{pk}"
    <3>1. n \in 1..Len(whole)
      BY <1>4, <1>11
    <3> QED
      BY <1>11, <1>14, <2>3, <3>1
  <2> QED
    BY <2>1, <2>2, <2>3, <2>4 DEF LeadsTo, PathMatches
<1> QED
  BY <1>1, <1>2, <1>10, <1>11, <1>12, <1>15, <1>16

OnTheWay(base, chain, at) ==
    /\ Len(base) + Len(chain) <= Len(at) /\ LeadsTo(base, at)
    /\ \A j \in 1..Len(chain) : MountOf(chain[j]).path = at[Len(base) + j]

LEMMA LeadsAlong ==
    ASSUME NEW a \in Apps, NEW i \in DOMAIN a.places, NEW k, NEW chain, PlaceIs(a, i, k, chain),
           NEW at, at \in Seq(Range(at)), LeadsTo(a.places[i].base, at)
    PROVE  OnTheWay(a.roots[k].base, chain, at)
BY LeadsToPlace DEF OnTheWay

(* A path that one of its routes matches leads to the place.                *)
LEMMA MatchedLeadsTo ==
    ASSUME NEW B, NEW base \in Seq(B), NEW P, NEW path \in Seq(P), NEW A, NEW at \in Seq(A),
           PathMatches(base \o path, at)
    PROVE  LeadsTo(base, at) /\ Len(at) = Len(base) + Len(path)
<1>1. base \in Seq(B \cup P) /\ path \in Seq(B \cup P)
  BY SeqMonotonic
<1>2. PICK whole : whole = base \o path
  OBVIOUS
<1>3. /\ Len(whole) = Len(base) + Len(path) /\ Len(base) \in Nat /\ Len(path) \in Nat
      /\ \A n \in 1..Len(base) : whole[n] = base[n]
  BY <1>1, <1>2
<1>4. Len(whole) = Len(at) /\ DOMAIN at = 1..Len(at) /\ \A n \in 1..Len(at) : whole[n] = at[n] \/ whole[n] = "{pk}"
  <2>1. Len(whole) = Len(at) /\ \A n \in DOMAIN at : whole[n] = at[n] \/ whole[n] = "{pk}"
    BY <1>2, Zenon DEF PathMatches
  <2>2. DOMAIN at = 1..Len(at)
    OBVIOUS
  <2> QED
    BY <2>1, <2>2
<1>5. PICK led : led = SubSeq(at, 1, Len(base))
  OBVIOUS
<1>6. Len(base) <= Len(at) /\ Len(at) \in Nat
  <2>1. Len(at) = Len(base) + Len(path)
    BY <1>3, <1>4
  <2> QED
    BY <1>3, <2>1
<1>7. DOMAIN led = 1..Len(base) /\ Len(led) = Len(base) /\ \A n \in 1..Len(base) : led[n] = at[n]
  BY <1>3, <1>5, <1>6
<1>8. ASSUME NEW n \in 1..Len(base) PROVE base[n] = led[n] \/ base[n] = "{pk}"
  <2>1. n \in 1..Len(at)
    BY <1>3, <1>6
  <2> QED
    BY <1>3, <1>4, <1>7, <2>1
<1> QED
  BY <1>3, <1>4, <1>5, <1>6, <1>7, <1>8 DEF LeadsTo, PathMatches

LEMMA PlaceHolds ==
    ASSUME NEW a \in Apps, NEW i \in DOMAIN a.places
    PROVE  /\ a.places[i].viewset \in DOMAIN Classes
           /\ a.places[i].gates \in Seq(Range(a.places[i].gates))
           /\ a.places[i].base \in Seq(Range(a.places[i].base))
<1>1. PICK k, chain : PlaceIs(a, i, k, chain)
  BY PlaceSound
<1>2. /\ k \in DOMAIN a.roots /\ chain \in ChainsUnder(a.roots[k].viewset)
      /\ a.places[i] = PlaceOf(k, a.roots[k], chain)
  BY <1>1 DEF PlaceIs
<1>3. a.roots[k].viewset \in DOMAIN Classes /\ a.roots[k].base \in Seq(Range(a.roots[k].base))
  BY <1>2, AppSound, RequestsAssumption
<1>4. Len(chain) \in Nat /\ DOMAIN chain = 1..Len(chain) /\ \A j \in 1..Len(chain) : chain[j] \in Mounts
  BY <1>2, ChainSound
<1>5. PICK place : place = a.places[i]
  OBVIOUS
<1>6. /\ place.viewset = Innermost(a.roots[k].viewset, chain)
      /\ place.base = a.roots[k].base \o [j \in DOMAIN chain |-> MountOf(chain[j]).path]
      /\ place.gates = [j \in DOMAIN chain |-> GateOf(chain[j][1], MountOf(chain[j]))]
  BY <1>2, <1>5, SMTT(60) DEF PlaceOf
<1>7. place.viewset \in DOMAIN Classes
  <2>1. CASE chain = <<>>
    BY <1>3, <1>6, <2>1 DEF Innermost
  <2>2. CASE chain # <<>>
    <3>1. chain \in Seq(Mounts)
      BY <1>2, ChainSound
    <3>2. Len(chain) \in 1..Len(chain)
      BY <2>2, <3>1
    <3> QED
      BY <1>4, <1>6, <2>2, <3>2, MountSound DEF Innermost
  <2> QED
    BY <2>1, <2>2
<1>8. place.gates \in Seq(Range(place.gates))
  <2>1. PICK n \in Nat : n = Len(chain)
    BY <1>4
  <2>2. DOMAIN place.gates = 1..n /\ place.gates \in [1..n -> Range(place.gates)]
    BY <1>4, <1>6, <2>1 DEF Range
  <2> QED
    BY <2>2
<1>9. place.base \in Seq(Range(place.base))
  <2>1. PICK n \in Nat : n = Len(chain)
    BY <1>4
  <2>2. PICK down : down = [j \in DOMAIN chain |-> MountOf(chain[j]).path]
    OBVIOUS
  <2>3. PICK S : S = Range(a.roots[k].base) \cup {down[j] : j \in 1..n}
    OBVIOUS
  <2>4. a.roots[k].base \in Seq(S)
    BY <1>3, <2>3, SeqMonotonic
  <2>5. down \in [1..n -> S]
    BY <1>4, <2>1, <2>2, <2>3
  <2>6. place.base \in Seq(S)
    BY <1>6, <2>2, <2>4, <2>5
  <2>7. place.base \in [1..Len(place.base) -> Range(place.base)] /\ Len(place.base) \in Nat
    BY <2>6 DEF Range
  <2> QED
    BY <2>7
<1> QED
  BY <1>5, <1>7, <1>8, <1>9

LEMMA GatesSound ==
    ASSUME NEW a \in Apps, NEW i \in DOMAIN a.places
    PROVE  a.places[i].gates \in Seq(Range(a.places[i].gates))
BY PlaceHolds

LEMMA RouteSound ==
    ASSUME NEW c \in DOMAIN Classes, NEW route \in Range(Classes[c].routes)
    PROVE  route.action # "none" /\ route.path \in Seq(Range(route.path))
<1>1. PICK i \in DOMAIN Classes[c].routes : route = Classes[c].routes[i]
  BY DEF Range
<1> QED
  BY <1>1, RoutesAssumption

------------------------------------------------------------------------------
(* What serves a call                                                       *)

LEMMA ServedLeadsTo ==
    ASSUME NEW a \in Apps, NEW r, NEW i, ServedAt(a, i, r)
    PROVE  i \in DOMAIN a.places /\ r.at \in Seq(Range(r.at)) /\ LeadsTo(a.places[i].base, r.at)
<1>1. i \in DOMAIN a.places /\ r.at \in Seq(Range(r.at))
  BY DEF ServedAt
<1>2. PICK route \in RoutesAt(a.places[i]) : Serves(a.places[i], route, Asked(r))
  BY DEF ServedAt
<1>3. PICK base : base = a.places[i].base
  OBVIOUS
<1>4. PathMatches(base \o route.path, r.at)
  BY <1>2, <1>3 DEF Serves, Matches, Asked
<1>5. base \in Seq(Range(base)) /\ route.path \in Seq(Range(route.path))
  BY <1>1, <1>2, <1>3, PlaceHolds, RouteSound DEF RoutesAt
<1>6. LeadsTo(base, r.at)
  BY <1>1, <1>4, <1>5, MatchedLeadsTo
<1> QED
  BY <1>1, <1>3, <1>6

(* A place further down the path than the one that serves a call does not   *)
(* serve it: the router tries it first, and only one mount has its segment. *)
LEMMA NoneServesDeeper ==
    ASSUME NEW a \in Apps, NEW r, NEW i, ServedAt(a, i, r), NEW k, NEW chain, PlaceIs(a, i, k, chain),
           NEW j \in DOMAIN a.places, a.places[j].root = k, Len(a.places[j].chain) > Len(chain),
           LeadsTo(a.places[j].base, r.at), NEW route \in RoutesAt(a.places[j])
    PROVE  ~Serves(a.places[j], route, Asked(r))
<1> SUFFICES ASSUME Serves(a.places[j], route, Asked(r)) PROVE FALSE
  OBVIOUS
<1>1. i \in DOMAIN a.places /\ r.at \in Seq(Range(r.at)) /\ LeadsTo(a.places[i].base, r.at)
  BY ServedLeadsTo
<1>2. i <= j
  BY DEF ServedAt
<1>3. PICK l, longer : PlaceIs(a, j, l, longer)
  BY PlaceSound
<1>4. PICK p, q : p = a.places[i] /\ q = a.places[j]
  OBVIOUS
<1>5. p.root = k /\ p.chain = chain /\ q.root = l /\ q.chain = longer
  <2>1. p = PlaceOf(k, a.roots[k], chain) /\ q = PlaceOf(l, a.roots[l], longer)
    BY <1>3, <1>4 DEF PlaceIs
  <2> QED
    BY <2>1 DEF PlaceOf
<1>6. l = k /\ Len(longer) > Len(chain)
  BY <1>4, <1>5
<1>7. PICK viewset : viewset = a.roots[k].viewset
  OBVIOUS
<1>8. /\ Mountable(viewset) /\ chain \in ChainsUnder(viewset) /\ longer \in ChainsUnder(viewset)
      /\ k \in DOMAIN a.roots
  BY <1>3, <1>6, <1>7 DEF PlaceIs
<1>9. k \in Nat
  BY <1>8, AppSound, RequestsAssumption
<1>10. i \in Nat /\ j \in Nat /\ i # j
  BY <1>1, <1>4, <1>5, <1>6, <1>8, PlaceSound, ChainSound
<1>11. Precedes(p, q)
  BY <1>1, <1>2, <1>4, <1>10, AppSound
<1>12. /\ DOMAIN chain = 1..Len(chain) /\ DOMAIN longer = 1..Len(longer) /\ Len(chain) \in Nat /\ Len(longer) \in Nat
  BY <1>8, ChainSound
<1>13. PICK m \in DOMAIN chain : /\ \A n \in 1..(m - 1) : n \in DOMAIN longer /\ chain[n] = longer[n]
                                 /\ m \in DOMAIN longer => chain[m][2] < longer[m][2]
  <2>1. ~(p.root < q.root)
    BY <1>5, <1>6, <1>9
  <2> QED
    BY <1>5, <1>11, <2>1, Zenon DEF Precedes
<1>14. m \in 1..Len(chain) /\ m \in 1..Len(longer)
  BY <1>6, <1>12
<1>15. chain[m] \in Mounts /\ longer[m] \in Mounts
  BY <1>8, <1>14, ChainSound
<1>16. longer[m][1] = chain[m][1]
  <2>1. CASE m = 1
    <3>1. chain # <<>> /\ longer # <<>>
      BY <1>12, <1>14
    <3> QED
      BY <1>8, <2>1, <3>1, ChainSound
  <2>2. CASE m # 1
    <3>1. m - 1 \in 1..(m - 1) /\ m \in 2..Len(chain) /\ m \in 2..Len(longer)
      BY <1>12, <1>14, <2>2
    <3>2. chain[m - 1] = longer[m - 1]
      BY <1>13, <3>1
    <3>3. chain[m][1] = MountOf(chain[m - 1]).viewset /\ longer[m][1] = MountOf(longer[m - 1]).viewset
      BY <1>8, <3>1, ChainSound
    <3> QED
      BY <3>2, <3>3
  <2> QED
    BY <2>1, <2>2
<1>17. MountOf(chain[m]).path = r.at[Len(a.roots[k].base) + m]
  <2>1. OnTheWay(a.roots[k].base, chain, r.at)
    BY <1>1, LeadsAlong, Zenon
  <2> QED
    BY <1>14, <2>1 DEF OnTheWay
<1>18. MountOf(longer[m]).path = r.at[Len(a.roots[k].base) + m]
  <2>1. OnTheWay(a.roots[l].base, longer, r.at)
    BY <1>1, <1>3, LeadsAlong, Zenon
  <2> QED
    BY <1>6, <1>14, <2>1 DEF OnTheWay
<1>19. longer[m] = chain[m]
  <2>1. \A link \in Mounts : link[1] = chain[m][1] /\ MountOf(link).path = MountOf(chain[m]).path => link = chain[m]
    BY <1>8, <1>14, MountsApart, Zenon
  <2> QED
    BY <1>15, <1>16, <1>17, <1>18, <2>1, Zenon
<1>20. chain[m][2] \in Nat
  BY <1>15, MountSound
<1> QED
  BY <1>12, <1>13, <1>14, <1>19, <1>20

(* The checks that a call has passed name the way to its place.             *)
OnTheWayTo(r, passed, root, n) ==
    /\ Len(root.base) + n <= Len(r.at) /\ LeadsTo(root.base, r.at)
    /\ passed[1][1] = root.viewset /\ passed[n + 1] = <<r.viewset, r.action>>
    /\ \A j \in 1..n :
          \E mount \in Range(Classes[passed[j][1]].mounts) :
              /\ mount.path = r.at[Len(root.base) + j] /\ passed[j][2] = mount.path
              /\ passed[j + 1][1] = mount.viewset

(* What a call that has passed every check of a place has passed.            *)
PassedAllOf(place, r, passed) == passed = Append(Checks(place.gates, Len(place.gates)), <<r.viewset, r.action>>)

(* It is the way from the k-th root along the chain of the place.           *)
PassedAlong(a, k, chain, r, passed) ==
    k \in DOMAIN a.roots /\ Len(passed) = Len(chain) + 1 /\ OnTheWayTo(r, passed, a.roots[k], Len(chain))

LEMMA PassedOnTheWay ==
    ASSUME NEW a \in Apps, NEW r, NEW i, ServedAt(a, i, r), NEW k, NEW chain, PlaceIs(a, i, k, chain), NEW passed,
           PassedAllOf(a.places[i], r, passed)
    PROVE  PassedAlong(a, k, chain, r, passed)
<1>1. i \in DOMAIN a.places /\ r.at \in Seq(Range(r.at)) /\ LeadsTo(a.places[i].base, r.at)
  BY ServedLeadsTo
<1>2. PICK root : root = a.roots[k]
  OBVIOUS
<1>3. PICK place : place = a.places[i]
  OBVIOUS
<1>4. k \in DOMAIN a.roots /\ chain \in ChainsUnder(root.viewset) /\ place = PlaceOf(k, root, chain)
  BY <1>2, <1>3 DEF PlaceIs
<1>5. /\ DOMAIN chain = 1..Len(chain) /\ Len(chain) \in Nat
      /\ \A j \in 1..Len(chain) : chain[j] \in Mounts
      /\ chain # <<>> => chain[1][1] = root.viewset
      /\ \A j \in 2..Len(chain) : chain[j][1] = MountOf(chain[j - 1]).viewset
  BY <1>4, ChainSound
<1>6. PICK n \in Nat : n = Len(chain)
  BY <1>5
<1>7. PICK gates : gates = place.gates
  OBVIOUS
<1>8. gates = [j \in 1..n |-> GateOf(chain[j][1], MountOf(chain[j]))]
  BY <1>4, <1>5, <1>6, <1>7 DEF PlaceOf
<1>9. Len(gates) = n /\ \A j \in 1..n : gates[j].viewset = chain[j][1] /\ gates[j].action = MountOf(chain[j]).path
  BY <1>8 DEF GateOf
<1>10. PICK checks : checks = Checks(gates, n)
  OBVIOUS
<1>11. DOMAIN checks = 1..n /\ \A j \in 1..n : checks[j] = <<chain[j][1], MountOf(chain[j]).path>>
  BY <1>9, <1>10 DEF Checks
<1>12. passed = Append(checks, <<r.viewset, r.action>>)
  BY <1>3, <1>7, <1>9, <1>10 DEF PassedAllOf
<1>13. /\ Len(passed) = n + 1 /\ passed[n + 1] = <<r.viewset, r.action>> /\ passed[n + 1][1] = r.viewset
       /\ \A j \in 1..n : passed[j][1] = chain[j][1] /\ passed[j][2] = MountOf(chain[j]).path
  <2>1. PICK S : S = {checks[j] : j \in 1..n} \cup {<<r.viewset, r.action>>}
    OBVIOUS
  <2>2. checks = [j \in 1..n |-> checks[j]]
    BY <1>10, <1>11 DEF Checks
  <2>3. checks \in [1..n -> S]
    BY <2>1, <2>2
  <2>4. checks \in Seq(S) /\ Len(checks) = n
    BY <2>3
  <2>5. PICK last : last = <<r.viewset, r.action>>
    OBVIOUS
  <2>6. last \in S /\ passed = Append(checks, last)
    BY <1>12, <2>1, <2>5
  <2>7. Len(passed) = n + 1 /\ passed[n + 1] = last /\ \A j \in 1..n : passed[j] = checks[j]
    <3>1. /\ Len(Append(checks, last)) = Len(checks) + 1
          /\ \A j \in 1..Len(checks) : Append(checks, last)[j] = checks[j]
          /\ Append(checks, last)[Len(checks) + 1] = last
      <4>1. checks \in Seq(S) /\ last \in S
        BY <2>4, <2>6
      <4> QED
        BY <4>1, AppendProperties
    <3> QED
      BY <2>4, <2>6, <3>1, Zenon
  <2>8. \A j \in 1..n : checks[j][1] = chain[j][1] /\ checks[j][2] = MountOf(chain[j]).path
    BY <1>11
  <2>9. last[1] = r.viewset
    BY <2>5
  <2> QED
    BY <2>5, <2>7, <2>8, <2>9
<1>14. r.viewset = IF n = 0 THEN root.viewset ELSE MountOf(chain[n]).viewset
  <2>1. r.viewset = Innermost(root.viewset, chain)
    BY <1>3, <1>4 DEF ServedAt, PlaceOf
  <2>2. chain = <<>> <=> n = 0
    <3>1. chain \in Seq(Mounts)
      BY <1>4, ChainSound
    <3> QED
      BY <1>6, <3>1
  <2> QED
    BY <1>6, <2>1, <2>2 DEF Innermost
<1>15. passed[1][1] = root.viewset
  <2>1. CASE n = 0
    BY <1>13, <1>14, <2>1
  <2>2. CASE n # 0
    <3>1. chain # <<>> /\ 1 \in 1..n
      BY <1>6, <2>2
    <3>2. passed[1][1] = chain[1][1]
      BY <1>13, <3>1
    <3> QED
      BY <1>5, <3>1, <3>2
  <2> QED
    BY <2>1, <2>2
<1>16. PICK base : base = root.base
  OBVIOUS
<1>17. /\ Len(base) + n <= Len(r.at) /\ LeadsTo(base, r.at)
       /\ \A j \in 1..n : MountOf(chain[j]).path = r.at[Len(base) + j]
  <2>1. OnTheWay(a.roots[k].base, chain, r.at)
    BY <1>1, LeadsAlong, Zenon
  <2>2. OnTheWay(base, chain, r.at)
    BY <1>2, <1>16, <2>1
  <2> QED
    BY <1>6, <2>2 DEF OnTheWay
<1>18. ASSUME NEW j \in 1..n
       PROVE  \E mount \in Range(Classes[passed[j][1]].mounts) :
                  /\ mount.path = r.at[Len(base) + j] /\ passed[j][2] = mount.path
                  /\ passed[j + 1][1] = mount.viewset
  <2>1. MountOf(chain[j]) \in Range(Classes[chain[j][1]].mounts)
    BY <1>5, <1>6, MountSound
  <2>2. passed[j][1] = chain[j][1] /\ passed[j][2] = MountOf(chain[j]).path
    BY <1>13
  <2>3. passed[j + 1][1] = MountOf(chain[j]).viewset
    <3>1. CASE j = n
      <4>1. n # 0
        BY <3>1
      <4>2. passed[j + 1][1] = r.viewset
        BY <1>13, <3>1
      <4> QED
        BY <1>14, <3>1, <4>1, <4>2
    <3>2. CASE j # n
      <4>1. j + 1 \in 1..n /\ j + 1 \in 2..n /\ (j + 1) - 1 = j
        BY <3>2
      <4>2. passed[j + 1][1] = chain[j + 1][1]
        BY <1>13, <4>1
      <4>3. chain[j + 1][1] = MountOf(chain[(j + 1) - 1]).viewset
        BY <1>5, <1>6, <4>1
      <4> QED
        BY <4>1, <4>2, <4>3
    <3> QED
      BY <3>1, <3>2
  <2>4. MountOf(chain[j]).path = r.at[Len(base) + j]
    BY <1>17
  <2> QED
    BY <2>1, <2>2, <2>3, <2>4
<1>19. OnTheWayTo(r, passed, root, n)
  BY <1>13, <1>15, <1>16, <1>17, <1>18 DEF OnTheWayTo
<1> QED
  BY <1>2, <1>4, <1>6, <1>13, <1>19 DEF PassedAlong

------------------------------------------------------------------------------
(* A step of one call                                                       *)

After(r, fields) == [f \in DOMAIN NewCall |-> IF f \in DOMAIN fields THEN fields[f] ELSE r[f]]

LEMMA FieldsOfACall ==
    DOMAIN NewCall =
        {"pc", "viewset", "action", "transport", "method", "caller", "at", "gates", "user", "state", "parents", "answer",
         "streaming", "passed", "checked", "seen", "ran", "alone", "by", "relayed", "asked", "asking", "kept",
         "follows", "topic", "key", "home", "published"}
BY DEF NewCall

LEMMA AfterFields ==
    ASSUME NEW r, NEW fields
    PROVE  LET s == After(r, fields)
           IN /\ DOMAIN s = DOMAIN NewCall
              /\ s.pc = IF "pc" \in DOMAIN fields THEN fields.pc ELSE r.pc
              /\ s.viewset = IF "viewset" \in DOMAIN fields THEN fields.viewset ELSE r.viewset
              /\ s.action = IF "action" \in DOMAIN fields THEN fields.action ELSE r.action
              /\ s.transport = IF "transport" \in DOMAIN fields THEN fields.transport ELSE r.transport
              /\ s.method = IF "method" \in DOMAIN fields THEN fields.method ELSE r.method
              /\ s.caller = IF "caller" \in DOMAIN fields THEN fields.caller ELSE r.caller
              /\ s.at = IF "at" \in DOMAIN fields THEN fields.at ELSE r.at
              /\ s.gates = IF "gates" \in DOMAIN fields THEN fields.gates ELSE r.gates
              /\ s.user = IF "user" \in DOMAIN fields THEN fields.user ELSE r.user
              /\ s.state = IF "state" \in DOMAIN fields THEN fields.state ELSE r.state
              /\ s.parents = IF "parents" \in DOMAIN fields THEN fields.parents ELSE r.parents
              /\ s.passed = IF "passed" \in DOMAIN fields THEN fields.passed ELSE r.passed
              /\ s.checked = IF "checked" \in DOMAIN fields THEN fields.checked ELSE r.checked
              /\ s.seen = IF "seen" \in DOMAIN fields THEN fields.seen ELSE r.seen
              /\ s.ran = IF "ran" \in DOMAIN fields THEN fields.ran ELSE r.ran
              /\ s.alone = IF "alone" \in DOMAIN fields THEN fields.alone ELSE r.alone
              /\ s.by = IF "by" \in DOMAIN fields THEN fields.by ELSE r.by
              /\ s.relayed = IF "relayed" \in DOMAIN fields THEN fields.relayed ELSE r.relayed
              /\ s.topic = IF "topic" \in DOMAIN fields THEN fields.topic ELSE r.topic
              /\ s.asking = IF "asking" \in DOMAIN fields THEN fields.asking ELSE r.asking
              /\ s.kept = IF "kept" \in DOMAIN fields THEN fields.kept ELSE r.kept
              /\ s.follows = IF "follows" \in DOMAIN fields THEN fields.follows ELSE r.follows
              /\ s.key = IF "key" \in DOMAIN fields THEN fields.key ELSE r.key
              /\ s.home = IF "home" \in DOMAIN fields THEN fields.home ELSE r.home
              /\ s.published = IF "published" \in DOMAIN fields THEN fields.published ELSE r.published
BY FieldsOfACall DEF After

LEMMA WithIsAfter ==
    ASSUME NEW c \in CallIds, DOMAIN calls = CallIds, NEW fields
    PROVE  With(c, fields) = [calls EXCEPT ![c] = After(calls[c], fields)]
BY DEF With, After
(* What a call is, which no step of its own changes.                        *)
Fixed(r, s) ==
    /\ DOMAIN s = DOMAIN NewCall
    /\ s.viewset = r.viewset /\ s.action = r.action /\ s.transport = r.transport /\ s.caller = r.caller /\ s.at = r.at
    /\ s.method = r.method /\ s.by = r.by /\ s.relayed = r.relayed /\ s.alone = r.alone /\ s.parents = r.parents

LEMMA HomedStays ==
    ASSUME NEW r, NEW s, NEW a, Homed(r, a), s.viewset = r.viewset, s.action = r.action, s.parents = r.parents,
           s.topic = r.topic, s.follows = r.follows, s.asking = r.asking, s.kept = r.kept, s.home = r.home,
           s.published \in {<<>>, r.home, r.published}
    PROVE  Homed(s, a)
BY DEF Homed, EventsAtHome

(* The user of a call is read once, by its own checks or its action.        *)
ReadsOnce(r, s) ==
    \/ s.user = r.user
    \/ r.user = "unread" /\ r.pc \in {"gates", "execute"} /\ s.user = IF r.caller \in sessions THEN r.caller ELSE Nobody

(* A step of a call that is under way, as the calls it dispatched see it.   *)
Moves(r, s) ==
    /\ Fixed(r, s) /\ ReadsOnce(r, s)
    /\ r.pc # "gates" => s.passed = r.passed /\ s.checked = r.checked
    /\ r.pc \notin {"idle", "answered", "collected"} /\ s.pc \notin {"idle", "collected"}
    /\ s.ran = r.ran \/ (r.pc = "execute" /\ ~DeferredIn(r))
    /\ r.pc \in {"handed", "save"} => s.pc \in {"handed", "save", "answered"}

(* One that neither loads, changes nor saves a state.                       *)
Quiet(r, s) ==
    /\ s.state = r.state
    /\ s.pc \in Loaded => r.pc \in Loaded
    /\ s.pc = "save" => r.pc = "save" \/ s.ran = 0
    /\ s.pc = "answered" => s.ran = 0

ChangeTo(c, s) ==
    /\ calls' = [calls EXCEPT ![c] = s]
    /\ Moves(calls[c], s) /\ Sound(s) /\ Gated(s, app)

(* What a step of a call rests on.                                          *)
Usual(c) ==
    /\ c \in CallIds /\ DOMAIN calls = CallIds /\ app \in Apps /\ sessions \subseteq Callers /\ StatesTyped
    /\ Sound(calls[c]) /\ Gated(calls[c], app)

LEMMA Advances ==
    ASSUME NEW r, NEW s, NEW a, Sound(r), Gated(r, a), Fixed(r, s), r.pc \in Past,
           s.pc \in Past \cup {"answered"}, s.ran \in Nat, s.state \subseteq CallIds,
           s.pc \in {"load", "chain", "execute", "handed"} => s.ran = 0,
           s.pc \in {"running", "waiting"} => s.ran > 0,
           s.ran > 0 => ~DeferredIn(r), s.ran = r.ran \/ s.user # "unread",
           s.passed = r.passed, s.checked = r.checked, s.pc # "asking",
           s.user \in {r.caller, Nobody, "unread"}, r.user # "unread" => s.user = r.user, s.seen \in {r.seen, s.user},
           s.key \in {r.caller, Nobody, "absent", "deferred"},
           ToTheCaller(r, s.home), ToTheCaller(r, s.published), Homed(s, a), s.pc = "chain" => s.by = 0
    PROVE  Sound(s) /\ Gated(s, a)
<1>1. Typed(s)
  BY DEF Fixed, Sound, Typed, Past, Pcs
<1>2. ToTheCaller(s, s.home) /\ ToTheCaller(s, s.published)
  BY DEF Fixed, ToTheCaller
<1>3. UserNeeded(s) <=> UserNeeded(r)
  BY DEF Fixed, UserNeeded
<1>4. DeferredIn(s) <=> DeferredIn(r)
  BY DEF Fixed, DeferredIn
<1>5. Sound(s)
  BY <1>1, <1>2, <1>3, <1>4 DEF Sound, Fixed, Past
<1>6. \A i : ServedAt(a, i, s) <=> ServedAt(a, i, r)
  BY DEF Fixed, ServedAt, Asked
<1>7. Gated(s, a)
  BY <1>6 DEF Gated, Fixed, Past
<1> QED
  BY <1>5, <1>7

(* The end of a call that a check refuses.                                  *)
LEMMA Refused ==
    ASSUME NEW r, NEW s, NEW a, Sound(r), Fixed(r, s), r.pc = "gates", s.pc = "answered",
           s.ran = r.ran, s.state = r.state, s.user = r.user, s.checked = r.checked, s.seen = r.seen, s.key = r.key,
           s.home = r.home, s.published = r.published, Homed(s, a)
    PROVE  Sound(s) /\ Gated(s, a)
<1>1. Typed(s) /\ s.ran = 0
  BY DEF Fixed, Sound, Typed, Pcs
<1>2. ToTheCaller(s, s.home) /\ ToTheCaller(s, s.published)
  BY DEF Fixed, ToTheCaller, Sound
<1> QED
  BY <1>1, <1>2 DEF Sound, Gated, Fixed, Past

LEMMA UserResolves ==
    ASSUME NEW c \in CallIds, Usual(c)
    PROVE  ResolvedUser(c) \in {calls[c].caller, Nobody} /\ ResolvedUser(c) # "unread"
BY RequestsAssumption DEF Usual, Sound, Typed, ResolvedUser, Callers

LEMMA PassGateStep ==
    ASSUME NEW c \in CallIds, Usual(c), PassGate(c)
    PROVE  \E s : ChangeTo(c, s) /\ Quiet(calls[c], s)
<1> DEFINE r == calls[c]
           gate == Head(r.gates)
<1>1. r.pc = "gates" /\ r.gates # <<>>
  BY DEF PassGate
<1>2. CASE AllAdmit(gate.config, gate.action, ResolvedUser(c))
  <2>1. PICK fields : fields = [gates |-> Tail(r.gates), passed |-> Append(r.passed, <<gate.viewset, gate.action>>)]
    OBVIOUS
  <2>2. PICK s : s = After(r, fields)
    OBVIOUS
  <2>3. calls' = [calls EXCEPT ![c] = s]
    BY <1>2, <2>1, <2>2, WithIsAfter DEF PassGate, Usual
  <2>4. DOMAIN fields = {"gates", "passed"}
    BY <2>1
  <2>5. /\ Fixed(r, s) /\ s.topic = r.topic /\ s.follows = r.follows /\ s.asking = r.asking /\ s.kept = r.kept
        /\ s.pc = r.pc /\ s.ran = r.ran /\ s.state = r.state /\ s.user = r.user
        /\ s.checked = r.checked /\ s.seen = r.seen /\ s.key = r.key /\ s.home = r.home /\ s.published = r.published
    BY <2>2, <2>4, AfterFields DEF Fixed
  <2>6. s.gates = Tail(r.gates) /\ s.passed = Append(r.passed, <<gate.viewset, gate.action>>)
    <3>1. s.gates = fields.gates /\ s.passed = fields.passed
      BY <2>2, <2>4, AfterFields
    <3>2. fields.gates = Tail(r.gates) /\ fields.passed = Append(r.passed, <<gate.viewset, gate.action>>)
      BY <2>1
    <3> QED
      BY <3>1, <3>2, Zenon
  <2>7. Sound(s)
    <3>1. Typed(s)
      BY <2>5 DEF Fixed, Sound, Typed, Usual
    <3>2. ToTheCaller(s, s.home) /\ ToTheCaller(s, s.published)
      BY <2>5 DEF Fixed, ToTheCaller, Sound, Usual
    <3> QED
      BY <1>1, <2>5, <3>1, <3>2 DEF Sound, Fixed, Past, Usual
  <2>8. Gated(s, app)
    <3>0. Homed(s, app)
      BY <2>5, HomedStays DEF Usual, Gated, Fixed
    <3>1. PICK i \in DOMAIN app.places :
              /\ ServedAt(app, i, r)
              /\ \E k \in 0..Len(app.places[i].gates) :
                    /\ r.gates = SubSeq(app.places[i].gates, k + 1, Len(app.places[i].gates))
                    /\ r.passed = Checks(app.places[i].gates, k)
      BY <1>1 DEF Usual, Gated
    <3>2. PICK g : g = app.places[i].gates
      OBVIOUS
    <3>3. PICK k \in 0..Len(g) : r.gates = SubSeq(g, k + 1, Len(g)) /\ r.passed = Checks(g, k)
      BY <3>1, <3>2
    <3>4. g \in Seq(Range(g))
      BY <3>2, GatesSound DEF Usual
    <3>5. k + 1 \in 1..Len(g) /\ Head(r.gates) = g[k + 1] /\ Tail(r.gates) = SubSeq(g, k + 2, Len(g))
      BY <1>1, <3>3, <3>4, RestOfGates
    <3>6. s.passed = Checks(g, k + 1)
      <4>1. gate = g[k + 1] /\ k \in Nat
        BY <3>5
      <4>2. s.passed = Append(Checks(g, k), <<g[k + 1].viewset, g[k + 1].action>>)
        BY <2>6, <3>3, <4>1
      <4> QED
        BY <4>1, <4>2, OneCheckMore
    <3>7. s.gates = SubSeq(g, (k + 1) + 1, Len(g))
      BY <2>6, <3>3, <3>5
    <3>8. k + 1 \in 0..Len(g)
      BY <3>5
    <3>9. ServedAt(app, i, s)
      BY <2>5, <3>1 DEF ServedAt, Asked, Fixed
    <3>10. s.pc = "gates" /\ s.ran = 0
      BY <1>1, <2>5 DEF Usual, Sound
    <3>11. \E n \in 0..Len(g) : s.gates = SubSeq(g, n + 1, Len(g)) /\ s.passed = Checks(g, n)
      BY <3>6, <3>7, <3>8
    <3> QED
      BY <3>0, <3>2, <3>9, <3>10, <3>11 DEF Gated, Past
  <2>9. Moves(r, s) /\ Quiet(r, s)
    BY <1>1, <2>5 DEF Moves, ReadsOnce, Quiet, Loaded, Past
  <2> QED
    BY <2>3, <2>7, <2>8, <2>9 DEF ChangeTo
<1>3. CASE ~AllAdmit(gate.config, gate.action, ResolvedUser(c))
  <2>1. PICK fields : fields = Refusal(gate.config, gate.action)
    OBVIOUS
  <2>2. PICK s : s = After(r, fields)
    OBVIOUS
  <2>3. calls' = [calls EXCEPT ![c] = s]
    BY <1>3, <2>1, <2>2, WithIsAfter DEF PassGate, Usual
  <2>4. DOMAIN fields = {"pc", "answer"} /\ fields.pc = "answered"
    BY <2>1 DEF Refusal, Answered
  <2>5. /\ Fixed(r, s) /\ s.topic = r.topic /\ s.follows = r.follows /\ s.asking = r.asking /\ s.kept = r.kept
        /\ s.pc = "answered" /\ s.ran = r.ran /\ s.state = r.state /\ s.user = r.user
        /\ s.checked = r.checked /\ s.seen = r.seen /\ s.key = r.key /\ s.home = r.home /\ s.published = r.published
    BY <2>2, <2>4, AfterFields DEF Fixed
  <2>6. Sound(s) /\ Gated(s, app)
    <3>1. Homed(s, app)
      BY <2>5, HomedStays DEF Usual, Gated, Fixed
    <3> QED
      BY <1>1, <2>5, <3>1, Refused DEF Usual
  <2>7. Moves(r, s) /\ Quiet(r, s)
    BY <1>1, <2>5 DEF Moves, ReadsOnce, Quiet, Loaded, Past, Usual, Sound
  <2> QED
    BY <2>3, <2>6, <2>7 DEF ChangeTo
<1> QED
  BY <1>2, <1>3

LEMMA RunDependsStep ==
    ASSUME NEW c \in CallIds, Usual(c), RunDepends(c)
    PROVE  \E s : ChangeTo(c, s) /\ Quiet(calls[c], s)
<1> DEFINE r == calls[c]
           config == ActionConfiguration(r.viewset, r.action)
<1>1. r.pc = "gates" /\ r.gates = <<>>
  BY DEF RunDepends
<1>2. PICK user : user = IF AwaitsUser(config, r.action) THEN ResolvedUser(c) ELSE "unread"
  OBVIOUS
<1>3. CASE AllAdmit(config, r.action, user)
  <2>1. PICK fields : fields = [pc |-> "load", user |-> user, checked |-> user,
                                passed |-> Append(r.passed, <<r.viewset, r.action>>)]
    OBVIOUS
  <2>2. PICK s : s = After(r, fields)
    OBVIOUS
  <2>3. calls' = [calls EXCEPT ![c] = s]
    <3>1. calls' = With(c, fields)
      BY <1>2, <1>3, <2>1 DEF RunDepends
    <3> QED
      BY <2>2, <3>1, WithIsAfter DEF Usual
  <2>4. DOMAIN fields = {"pc", "user", "checked", "passed"}
    BY <2>1
  <2>5. /\ Fixed(r, s) /\ s.topic = r.topic /\ s.follows = r.follows /\ s.asking = r.asking /\ s.kept = r.kept
        /\ s.ran = r.ran /\ s.state = r.state
        /\ s.seen = r.seen /\ s.key = r.key /\ s.home = r.home /\ s.published = r.published
    BY <2>2, <2>4, AfterFields DEF Fixed
  <2>6. s.pc = "load" /\ s.user = user /\ s.checked = user /\ s.passed = Append(r.passed, <<r.viewset, r.action>>)
    BY <2>1, <2>2, <2>4, AfterFields, SMTT(60)
  <2>7. user \in {r.caller, Nobody, "unread"}
    BY <1>2, UserResolves
  <2>8. s.ran = 0 /\ s.seen = "unread"
    BY <1>1, <2>5 DEF Usual, Sound
  <2>9. UserNeeded(s) => user \notin {Nobody, "unread"}
    <3> SUFFICES ASSUME UserNeeded(s)
                 PROVE  user \notin {Nobody, "unread"}
      OBVIOUS
    <3>1. UserNeeded(r)
      BY <2>5 DEF Fixed, UserNeeded
    <3>2. AwaitsUser(config, r.action) /\ user # Nobody
      BY <1>3, <3>1, SessionChecks
    <3> QED
      BY <1>2, <3>2, UserResolves
  <2>10. Sound(s)
    <3>1. Typed(s)
      BY <1>1, <2>5, <2>6, <2>7 DEF Fixed, Sound, Typed, Usual, Pcs, Past
    <3>2. ToTheCaller(s, s.home) /\ ToTheCaller(s, s.published)
      BY <2>5 DEF Fixed, ToTheCaller, Sound, Usual
    <3>3. s.by = 0 => s.parents = <<>>
      BY <2>5 DEF Fixed, Sound, Usual
    <3> QED
      BY <2>6, <2>8, <2>9, <3>1, <3>2, <3>3 DEF Sound
  <2>11. Gated(s, app)
    <3>0. Homed(s, app)
      BY <2>5, HomedStays DEF Usual, Gated, Fixed
    <3>1. PICK i \in DOMAIN app.places :
              /\ ServedAt(app, i, r)
              /\ \E k \in 0..Len(app.places[i].gates) :
                    /\ r.gates = SubSeq(app.places[i].gates, k + 1, Len(app.places[i].gates))
                    /\ r.passed = Checks(app.places[i].gates, k)
      BY <1>1 DEF Usual, Gated
    <3>2. PICK g : g = app.places[i].gates
      OBVIOUS
    <3>3. PICK k \in 0..Len(g) : r.gates = SubSeq(g, k + 1, Len(g)) /\ r.passed = Checks(g, k)
      BY <3>1, <3>2
    <3>4. g \in Seq(Range(g))
      BY <3>2, GatesSound DEF Usual
    <3>5. k = Len(g)
      BY <1>1, <3>3, <3>4, NoGatesLeft
    <3>6. s.passed = Append(Checks(g, Len(g)), <<s.viewset, s.action>>)
      BY <2>5, <2>6, <3>3, <3>5 DEF Fixed
    <3>7. ServedAt(app, i, s)
      BY <2>5, <3>1 DEF ServedAt, Asked, Fixed
    <3> QED
      BY <2>6, <3>0, <3>2, <3>6, <3>7 DEF Gated
  <2>12. Moves(r, s) /\ Quiet(r, s)
    <3>1. ReadsOnce(r, s)
      BY <1>1, <1>2, <2>6 DEF ReadsOnce, ResolvedUser, Usual, Sound
    <3> QED
      BY <1>1, <2>5, <2>6, <3>1 DEF Moves, Quiet, Loaded
  <2> QED
    BY <2>3, <2>10, <2>11, <2>12 DEF ChangeTo
<1>4. CASE ~AllAdmit(config, r.action, user)
  <2>1. PICK fields : fields = Refusal(config, r.action)
    OBVIOUS
  <2>2. PICK s : s = After(r, fields)
    OBVIOUS
  <2>3. calls' = [calls EXCEPT ![c] = s]
    BY <1>2, <1>4, <2>1, <2>2, WithIsAfter DEF RunDepends, Usual
  <2>4. DOMAIN fields = {"pc", "answer"} /\ fields.pc = "answered"
    BY <2>1 DEF Refusal, Answered
  <2>5. /\ Fixed(r, s) /\ s.topic = r.topic /\ s.follows = r.follows /\ s.asking = r.asking /\ s.kept = r.kept
        /\ s.pc = "answered" /\ s.ran = r.ran /\ s.state = r.state /\ s.user = r.user
        /\ s.checked = r.checked /\ s.seen = r.seen /\ s.key = r.key /\ s.home = r.home /\ s.published = r.published
    BY <2>2, <2>4, AfterFields DEF Fixed
  <2>6. Sound(s) /\ Gated(s, app)
    <3>1. Homed(s, app)
      BY <2>5, HomedStays DEF Usual, Gated, Fixed
    <3> QED
      BY <1>1, <2>5, <3>1, Refused DEF Usual
  <2>7. Moves(r, s) /\ Quiet(r, s)
    BY <1>1, <2>5 DEF Moves, ReadsOnce, Quiet, Loaded, Past, Usual, Sound
  <2> QED
    BY <2>3, <2>6, <2>7 DEF ChangeTo
<1> QED
  BY <1>3, <1>4

LEMMA LoadStateStep ==
    ASSUME NEW c \in CallIds, Usual(c), LoadState(c)
    PROVE  \E s : /\ ChangeTo(c, s) /\ calls[c].pc = "load" /\ s.ran = 0
                  /\ s.pc \in Loaded =>
                        /\ s.state = IF Stateful(c) THEN stored[calls[c].viewset] ELSE {}
                        /\ shared' = IF Stateful(c) /\ Singleton(c)
                                     THEN [shared EXCEPT ![Process(c)][calls[c].viewset] = stored[calls[c].viewset]]
                                     ELSE shared
                  /\ s.pc \notin Loaded => s.pc = "answered" /\ shared' = shared
<1> DEFINE r == calls[c]
<1>1. r.pc = "load" /\ r.ran = 0 /\ r.viewset \in DOMAIN Classes
  BY DEF LoadState, Usual, Sound, Typed, Past
<1>2. ASSUME calls' = With(c, [pc |-> IF WorkerCall(c) THEN "execute" ELSE "chain",
                               state |-> IF Stateful(c) THEN stored[calls[c].viewset] ELSE {}])
      PROVE  \E s : /\ ChangeTo(c, s) /\ s.ran = 0 /\ s.pc \in Loaded
                    /\ s.state = IF Stateful(c) THEN stored[calls[c].viewset] ELSE {}
  <2>1. PICK pc : pc = IF WorkerCall(c) THEN "execute" ELSE "chain"
    OBVIOUS
  <2>2. PICK state : state = IF Stateful(c) THEN stored[calls[c].viewset] ELSE {}
    OBVIOUS
  <2>3. PICK fields : fields = [pc |-> pc, state |-> state]
    OBVIOUS
  <2>4. PICK s : s = After(r, fields)
    OBVIOUS
  <2>5. calls' = [calls EXCEPT ![c] = s]
    <3>1. calls' = With(c, fields)
      BY <1>2, <2>1, <2>2, <2>3
    <3> QED
      BY <2>4, <3>1, WithIsAfter DEF Usual
  <2>6. DOMAIN fields = {"pc", "state"}
    BY <2>3
  <2>7. /\ Fixed(r, s) /\ s.topic = r.topic /\ s.follows = r.follows /\ s.asking = r.asking /\ s.kept = r.kept
        /\ s.ran = r.ran /\ s.user = r.user /\ s.passed = r.passed
        /\ s.checked = r.checked /\ s.seen = r.seen /\ s.key = r.key /\ s.home = r.home /\ s.published = r.published
    BY <2>4, <2>6, AfterFields DEF Fixed
  <2>8. s.pc = pc /\ s.state = state
    BY <2>3, <2>4, <2>6, AfterFields
  <2>9. pc \in {"execute", "chain"} /\ state \subseteq CallIds
    BY <1>1, <2>1, <2>2 DEF Usual, StatesTyped
  <2>10. Sound(s) /\ Gated(s, app)
    <3>1. s.user \in {r.caller, Nobody, "unread"} /\ s.key \in {r.caller, Nobody, "absent", "deferred"}
      BY <2>7 DEF Usual, Sound, Typed
    <3>2. ToTheCaller(r, s.home) /\ ToTheCaller(r, s.published)
      BY <2>7 DEF Usual, Sound
    <3>3. s.ran = 0 /\ s.ran \in Nat /\ ~(s.ran > 0)
      BY <1>1, <2>7
    <3>4. r.pc \in Past /\ s.pc \in Past \cup {"answered"} /\ s.pc \notin {"running", "waiting"}
      BY <1>1, <2>8, <2>9 DEF Past
    <3>5. Homed(s, app)
      BY <2>7, HomedStays DEF Usual, Gated, Fixed
    <3>6. s.pc = "chain" => s.by = 0
      BY <2>1, <2>7, <2>8 DEF Fixed, WorkerCall
    <3> QED
      BY <2>7, <2>8, <2>9, <3>1, <3>2, <3>3, <3>4, <3>5, <3>6, Advances DEF Usual
  <2>11. Moves(r, s)
    BY <1>1, <2>7, <2>8, <2>9 DEF Moves, ReadsOnce
  <2> QED
    BY <1>1, <2>2, <2>5, <2>7, <2>8, <2>9, <2>10, <2>11 DEF ChangeTo, Loaded, Past
<1>3. ASSUME calls' = With(c, Answered(500))
      PROVE  \E s : ChangeTo(c, s) /\ s.ran = 0 /\ s.pc = "answered"
  <2>1. PICK fields : fields = Answered(500)
    OBVIOUS
  <2>2. PICK s : s = After(r, fields)
    OBVIOUS
  <2>3. calls' = [calls EXCEPT ![c] = s]
    BY <1>3, <2>1, <2>2, WithIsAfter DEF Usual
  <2>4. DOMAIN fields = {"pc", "answer"} /\ fields.pc = "answered"
    BY <2>1 DEF Answered
  <2>5. /\ Fixed(r, s) /\ s.topic = r.topic /\ s.follows = r.follows /\ s.asking = r.asking /\ s.kept = r.kept
        /\ s.pc = "answered" /\ s.ran = r.ran /\ s.state = r.state /\ s.user = r.user /\ s.passed = r.passed
        /\ s.checked = r.checked /\ s.seen = r.seen /\ s.key = r.key /\ s.home = r.home /\ s.published = r.published
    BY <2>2, <2>4, AfterFields DEF Fixed
  <2>6. Sound(s) /\ Gated(s, app)
    <3>1. s.user \in {r.caller, Nobody, "unread"} /\ s.key \in {r.caller, Nobody, "absent", "deferred"}
      BY <2>5 DEF Usual, Sound, Typed
    <3>2. ToTheCaller(r, s.home) /\ ToTheCaller(r, s.published) /\ s.state \subseteq CallIds
      BY <2>5 DEF Usual, Sound, Typed
    <3>3. s.ran = 0 /\ s.ran \in Nat /\ ~(s.ran > 0)
      BY <1>1, <2>5
    <3>4. r.pc \in Past /\ s.pc \in Past \cup {"answered"} /\ s.pc \notin {"running", "waiting"}
      BY <1>1, <2>5 DEF Past
    <3>5. Homed(s, app)
      BY <2>5, HomedStays DEF Usual, Gated, Fixed
    <3> QED
      BY <2>5, <3>1, <3>2, <3>3, <3>4, <3>5, Advances DEF Usual
  <2>7. Moves(r, s)
    BY <1>1, <2>5 DEF Moves, ReadsOnce
  <2> QED
    BY <1>1, <2>3, <2>5, <2>6, <2>7 DEF ChangeTo
<1>4. "answered" \notin Loaded
  BY DEF Loaded, Past
<1> QED
  BY <1>1, <1>2, <1>3, <1>4 DEF LoadState

(* The topic that the context carries is the path above that of the action. *)
LEMMA CarriedIsAtHome ==
    ASSUME NEW c \in CallIds, Usual(c), calls[c].pc = "chain", CarriedEvents(c).topic # <<>>,
           HasOnePath(calls[c].viewset, calls[c].action)
    PROVE  AtHome(app, calls[c].viewset, CarriedEvents(c).topic)
<1> DEFINE r == calls[c]
<1>1. PICK i : ServedAt(app, i, r)
  BY DEF Usual, Sound, Gated, Past
<1>2. i \in DOMAIN app.places /\ app.places[i].viewset = r.viewset /\ r.at \in Seq(Range(r.at))
  BY <1>1 DEF ServedAt
<1>3. PICK route \in RoutesAt(app.places[i]) : route.action = r.action /\ Serves(app.places[i], route, Asked(r))
  BY <1>1 DEF ServedAt
<1>4. PICK base : base = app.places[i].base
  OBVIOUS
<1>5. PathMatches(base \o route.path, r.at)
  BY <1>3, <1>4 DEF Serves, Matches, Asked
<1>6. r.viewset \in DOMAIN Classes /\ base \in Seq(Range(base)) /\ route \in Range(Classes[r.viewset].routes)
  BY <1>2, <1>3, <1>4, PlaceHolds DEF Usual, RoutesAt
<1>7. route.path \in Seq(Range(route.path))
  BY <1>6, RouteSound
<1>8. LeadsTo(base, r.at) /\ Len(r.at) = Len(base) + Len(route.path)
  BY <1>2, <1>5, <1>6, <1>7, MatchedLeadsTo
<1>9. PICK routes : routes = Classes[r.viewset].routes
  OBVIOUS
<1>10. PICK S : S = {n \in DOMAIN routes : routes[n].action = r.action}
  OBVIOUS
<1>11. routes \in Seq(Range(routes))
  BY <1>6, <1>9, RoutesAssumption
<1>12. S \in SUBSET Nat /\ S # {}
  <2>1. PICK n \in DOMAIN routes : route = routes[n]
    BY <1>6, <1>9 DEF Range
  <2>2. n \in S
    BY <1>3, <1>10, <2>1
  <2> QED
    BY <1>10, <1>11, <2>2
<1>13. PICK own : own = routes[FirstIn(S)]
  OBVIOUS
<1>14. own \in Range(routes) /\ own.action = r.action
  <2>1. FirstIn(S) \in S
    BY <1>12, FirstInExists
  <2> QED
    BY <1>10, <1>13, <2>1 DEF Range
<1>15. Len(own.path) = Len(route.path)
  BY <1>3, <1>6, <1>9, <1>14 DEF HasOnePath
<1>16. RoutedBasePath(c) = SubSeq(r.at, 1, Len(r.at) - Len(own.path))
  BY <1>9, <1>10, <1>13 DEF RoutedBasePath
<1>17. Len(base) \in Nat /\ Len(route.path) \in Nat
  BY <1>6, <1>7
<1>18. Len(r.at) - Len(own.path) = Len(base)
  BY <1>8, <1>15, <1>17
<1>19. CarriedEvents(c).topic = SubSeq(r.at, 1, Len(base))
  BY <1>16, <1>18 DEF CarriedEvents
<1>20. PathMatches(base, SubSeq(r.at, 1, Len(base)))
  BY <1>8 DEF LeadsTo
<1> QED
  BY <1>2, <1>4, <1>19, <1>20 DEF AtHome

LEMMA EnterChainStep ==
    ASSUME NEW c \in CallIds, Usual(c), EnterChain(c)
    PROVE  \E s : ChangeTo(c, s) /\ Quiet(calls[c], s)
<1> DEFINE r == calls[c]
<1>1. r.pc = "chain" /\ r.ran = 0
  BY DEF EnterChain, Usual, Sound
<1>2. ASSUME NEW fields, calls' = With(c, fields),
             \/ /\ DOMAIN fields = {"pc", "topic", "key"} /\ fields.pc = "execute"
                /\ fields.key \in {"absent", "deferred"} /\ fields.topic = CarriedEvents(c).topic
             \/ DOMAIN fields = {"pc", "answer"} /\ fields.pc = "save"
      PROVE  \E s : ChangeTo(c, s) /\ Quiet(calls[c], s)
  <2>1. PICK s : s = After(r, fields)
    OBVIOUS
  <2>2. calls' = [calls EXCEPT ![c] = s]
    BY <1>2, <2>1, WithIsAfter DEF Usual
  <2>3. /\ Fixed(r, s) /\ s.follows = r.follows /\ s.asking = r.asking /\ s.kept = r.kept
        /\ s.ran = r.ran /\ s.state = r.state /\ s.user = r.user /\ s.passed = r.passed
        /\ s.checked = r.checked /\ s.seen = r.seen /\ s.home = r.home /\ s.published = r.published
    BY <1>2, <2>1, AfterFields DEF Fixed
  <2>4. /\ s.pc \in {"execute", "save"} /\ s.key \in {"absent", "deferred", r.key}
        /\ s.topic \in {r.topic, CarriedEvents(c).topic}
    BY <1>2, <2>1, AfterFields
  <2>5. Sound(s) /\ Gated(s, app)
    <3>1. s.user \in {r.caller, Nobody, "unread"} /\ s.key \in {r.caller, Nobody, "absent", "deferred"}
      BY <2>3, <2>4 DEF Usual, Sound, Typed
    <3>2. ToTheCaller(r, s.home) /\ ToTheCaller(r, s.published) /\ s.state \subseteq CallIds
      BY <2>3 DEF Usual, Sound, Typed
    <3>3. s.ran = 0 /\ s.ran \in Nat /\ ~(s.ran > 0)
      BY <1>1, <2>3
    <3>4. r.pc \in Past /\ s.pc \in Past \cup {"answered"} /\ s.pc \notin {"running", "waiting"}
      BY <1>1, <2>4 DEF Past
    <3>5. s.pc # "chain"
      BY <2>4
    <3>6. Homed(s, app)
      <4>1. Homed(r, app) /\ s.viewset = r.viewset /\ s.action = r.action /\ s.parents = r.parents
        BY <2>3 DEF Usual, Gated, Fixed
      <4>2. s.topic # <<>> /\ s.topic = CarriedEvents(c).topic /\ HasOnePath(r.viewset, r.action)
                => AtHome(app, r.viewset, s.topic)
        BY <1>1, CarriedIsAtHome
      <4> QED
        BY <2>3, <2>4, <4>1, <4>2 DEF Homed, EventsAtHome
    <3> QED
      BY <2>3, <2>4, <3>1, <3>2, <3>3, <3>4, <3>5, <3>6, Advances DEF Usual
  <2>6. Moves(r, s) /\ Quiet(r, s)
    BY <1>1, <2>3, <2>4 DEF Moves, ReadsOnce, Quiet, Loaded, Past
  <2> QED
    BY <2>2, <2>5, <2>6 DEF ChangeTo
<1>3. CarriedEvents(c).key \in {"absent", "deferred"}
  BY DEF CarriedEvents
<1>4. \A topic, key : /\ DOMAIN [pc |-> "execute", topic |-> topic, key |-> key] = {"pc", "topic", "key"}
                      /\ [pc |-> "execute", topic |-> topic, key |-> key].pc = "execute"
                      /\ [pc |-> "execute", topic |-> topic, key |-> key].key = key
                      /\ [pc |-> "execute", topic |-> topic, key |-> key].topic = topic
  OBVIOUS
<1>5. \A status : /\ DOMAIN [pc |-> "save", answer |-> status] = {"pc", "answer"}
                  /\ [pc |-> "save", answer |-> status].pc = "save"
  OBVIOUS
<1>6. \/ \E topic, key : /\ key \in {"absent", "deferred"} /\ topic = CarriedEvents(c).topic
                          /\ calls' = With(c, [pc |-> "execute", topic |-> topic, key |-> key])
      \/ \E status : calls' = With(c, [pc |-> "save", answer |-> status])
  BY <1>3 DEF EnterChain
<1> QED
  BY <1>2, <1>4, <1>5, <1>6

(* The events that an execution is to publish are its caller's.             *)
LEMMA HomeIsTheCallers ==
    ASSUME NEW c \in CallIds, Usual(c), NEW user \in {calls[c].caller, Nobody}
    PROVE  ToTheCaller(calls[c], ResolveHome(c, user))
<1> SUFFICES ASSUME HasScope(calls[c].viewset), NEW i \in DOMAIN ResolveHome(c, user)
             PROVE  /\ ResolveHome(c, user)[i].scope = Classes[calls[c].viewset].scope
                    /\ ResolveHome(c, user)[i].key = calls[c].caller /\ calls[c].caller # Nobody
  BY DEF ToTheCaller
<1>1. ScopeKey(c, user) \in {calls[c].caller, Nobody}
  BY DEF ScopeKey, Usual, Sound, Typed
<1>2. PICK home : home = [scope |-> Classes[calls[c].viewset].scope, key |-> ScopeKey(c, user), topic |-> <<>>]
  OBVIOUS
<1>3. home.key # Nobody /\ ResolveHome(c, user)[i] = home
  BY <1>2 DEF ResolveHome
<1> QED
  BY <1>1, <1>2, <1>3

(* Where a viewset's events go that the context carries no topic for.       *)
LEMMA BasePathIsAtHome ==
    ASSUME app \in Apps, NEW viewset, PlacesFor(viewset) # {}
    PROVE  AtHome(app, viewset, BasePath(viewset))
<1>1. PlacesFor(viewset) \in SUBSET Nat /\ IsFiniteSet(PlacesFor(viewset))
  <2>1. PlacesFor(viewset) \subseteq DOMAIN app.places
    BY DEF PlacesFor
  <2>2. IsFiniteSet(DOMAIN app.places) /\ DOMAIN app.places \subseteq Nat \ {0}
    BY AppIsFinite
  <2> QED
    BY <2>1, <2>2, FS_Subset
<1>2. PICK last \in PlacesFor(viewset) : \A j \in PlacesFor(viewset) : j <= last
  BY <1>1, LastExists
<1>3. PICK i : i = CHOOSE k \in PlacesFor(viewset) : \A j \in PlacesFor(viewset) : j <= k
  OBVIOUS
<1>4. i \in PlacesFor(viewset)
  BY <1>2, <1>3
<1>5. BasePath(viewset) = app.places[i].base
  BY <1>3 DEF BasePath
<1>6. i \in DOMAIN app.places /\ app.places[i].viewset = viewset
  BY <1>4 DEF PlacesFor
<1>7. app.places[i].base \in Seq(Range(app.places[i].base))
  BY <1>6, PlaceHolds
<1>8. PathMatches(app.places[i].base, app.places[i].base)
  BY <1>7 DEF PathMatches
<1> QED
  BY <1>5, <1>6, <1>8 DEF AtHome

(* At most one instance publishes where there is one at each level.         *)
LEMMA OnePublishes ==
    ASSUME NEW config, NEW action
    PROVE  /\ IsFiniteSet(Publishers(config, action)) /\ Cardinality(Publishers(config, action)) \in Nat
           /\ OneAtEachLevel(config) => Cardinality(Publishers(config, action)) <= 1
<1> DEFINE P == Publishers(config, action)
           injected == DOMAIN config \cap EventMiddlewares(config)
           global == {m \in Range(GlobalMiddleware) : MiddlewareOf[m] = "ChangeEvents"}
<1>1. PICK own : own \in Seq(DOMAIN config \cap Instances) /\ EffectiveMiddlewares(config) = GlobalMiddleware \o own
  BY InstancesInEffect
<1>2. GlobalMiddleware \in Seq(Instances)
  BY RoutesAssumption DEF Instances
<1>3. EventMiddlewares(config) \subseteq global \cup injected
  <2> SUFFICES ASSUME NEW m \in EventMiddlewares(config), m \notin DOMAIN config
               PROVE  m \in global
    OBVIOUS
  <2>1. m \in Range(GlobalMiddleware \o own) /\ MiddlewareOf[m] = "ChangeEvents"
    BY <1>1 DEF EventMiddlewares
  <2>2. PICK j \in DOMAIN (GlobalMiddleware \o own) : m = (GlobalMiddleware \o own)[j]
    BY <2>1 DEF Range
  <2>3. own \in Seq(Instances) /\ \A n \in DOMAIN own : own[n] \in DOMAIN config
    BY <1>1
  <2>4. j \in 1..Len(GlobalMiddleware) + Len(own) /\ Len(GlobalMiddleware) \in Nat /\ Len(own) \in Nat
    BY <1>2, <2>2, <2>3
  <2>5. m = IF j <= Len(GlobalMiddleware) THEN GlobalMiddleware[j] ELSE own[j - Len(GlobalMiddleware)]
    BY <1>2, <2>2, <2>3, <2>4, ConcatProperties
  <2>6. j <= Len(GlobalMiddleware)
    <3> SUFFICES ASSUME ~(j <= Len(GlobalMiddleware)) PROVE FALSE
      OBVIOUS
    <3>1. j - Len(GlobalMiddleware) \in DOMAIN own
      BY <2>3, <2>4
    <3> QED
      BY <2>3, <2>5, <3>1
  <2>7. m \in Range(GlobalMiddleware)
    BY <1>2, <2>4, <2>5, <2>6 DEF Range
  <2> QED
    BY <2>1, <2>7
<1>4. IsFiniteSet(global) /\ IsFiniteSet(injected)
  <2>1. IsFiniteSet(Instances)
    BY RoutesAssumption DEF Instances
  <2>2. global \subseteq Instances
    BY <1>2 DEF Range
  <2>3. injected \subseteq Instances
    <3>1. Range(EffectiveMiddlewares(config)) \subseteq Instances
      <4>1. own \in Seq(Instances)
        BY <1>1
      <4>2. GlobalMiddleware \o own \in Seq(Instances)
        BY <1>2, <4>1
      <4> QED
        BY <1>1, <4>2 DEF Range
    <3> QED
      BY <3>1 DEF EventMiddlewares
  <2> QED
    BY <2>1, <2>2, <2>3, FS_Subset
<1>5. P \subseteq global \/ P \subseteq injected
  <2>1. CASE injected = {}
    BY <1>3, <2>1 DEF Publishers
  <2>2. CASE injected # {}
    BY <2>2 DEF Publishers, ReplacedFor
  <2> QED
    BY <2>1, <2>2
<1>6. OneAtEachLevel(config) => Cardinality(global) <= 1 /\ Cardinality(injected) <= 1
  BY DEF OneAtEachLevel
<1> HIDE DEF P, global, injected
<1>7. IsFiniteSet(P) /\ (Cardinality(P) <= Cardinality(global) \/ Cardinality(P) <= Cardinality(injected))
  BY <1>4, <1>5, FS_Subset
<1>8. Cardinality(P) \in Nat /\ Cardinality(global) \in Nat /\ Cardinality(injected) \in Nat
  BY <1>4, <1>7, FS_CardinalityType
<1>9. OneAtEachLevel(config) => Cardinality(P) <= 1
  BY <1>6, <1>7, <1>8
<1> QED
  BY <1>7, <1>8, <1>9 DEF P

LEMMA HomeIsAtHome ==
    ASSUME NEW c \in CallIds, Usual(c), ~NoTopic(c), NEW user
    PROVE  EventsAtHome(calls[c], app, ResolveHome(c, user))
<1> DEFINE r == calls[c]
<1>1. PICK n : n = Cardinality(PublishersOf(c))
  OBVIOUS
<1>2. /\ n \in Nat /\ (PublishersOf(c) = {} => n = 0)
      /\ OneAtEachLevel(ActionConfiguration(r.viewset, r.action)) => n <= 1
  BY <1>1, OnePublishes, FS_EmptySet DEF PublishersOf
<1>3. PICK home : ResolveHome(c, user) \in {<<>>, [i \in 1..n |-> home]}
                  /\ (~HasScope(r.viewset) => home.scope = "none" /\ home.topic = TopicFor(c))
  <2>1. CASE HasScope(r.viewset)
    <3>1. PICK home : home = [scope |-> Classes[r.viewset].scope, key |-> ScopeKey(c, user), topic |-> <<>>]
      OBVIOUS
    <3>2. ResolveHome(c, user) \in {<<>>, [i \in 1..n |-> home]}
      BY <1>1, <2>1, <3>1 DEF ResolveHome
    <3> QED
      BY <2>1, <3>2
  <2>2. CASE ~HasScope(r.viewset)
    <3>1. PICK home : home = [scope |-> Classes[r.viewset].scope, key |-> Nobody, topic |-> TopicFor(c)]
      OBVIOUS
    <3>2. ResolveHome(c, user) \in {<<>>, [i \in 1..n |-> home]}
      BY <1>1, <2>2, <3>1 DEF ResolveHome
    <3>3. home.scope = "none" /\ home.topic = TopicFor(c)
      BY <2>2, <3>1 DEF HasScope
    <3> QED
      BY <3>2, <3>3
  <2> QED
    BY <2>1, <2>2
<1>4. PICK events : events = ResolveHome(c, user)
  OBVIOUS
<1>5. events = <<>> \/ (DOMAIN events = 1..n /\ Len(events) = n /\ \A i \in 1..n : events[i] = home)
  BY <1>2, <1>3, <1>4
<1>6. events # <<>> => n > 0
  BY <1>2, <1>5
<1>7. events # <<>> /\ OneAtEachLevel(ActionConfiguration(r.viewset, r.action)) => Len(events) = 1
  <2>1. events # <<>> => Len(events) = n
    BY <1>5
  <2>2. n > 0 /\ n <= 1 => n = 1
    BY <1>2
  <2> QED
    BY <1>2, <1>6, <2>1, <2>2, Zenon
<1>8. ASSUME NEW i \in DOMAIN events, ~HasScope(r.viewset)
      PROVE  /\ events[i].scope = "none"
             /\ HasOnePath(r.viewset, r.action) => AtHome(app, r.viewset, events[i].topic)
  <2>1. events # <<>> /\ events[i] = home
    BY <1>5, <1>8
  <2>2. PublishersOf(c) # {}
    BY <1>2, <1>6, <2>1
  <2>3. HasTopic(c)
    BY <1>8, <2>2 DEF NoTopic
  <2>4. HasOnePath(r.viewset, r.action) => AtHome(app, r.viewset, TopicFor(c))
    <3>1. CASE r.parents = <<>> /\ r.topic # <<>>
      BY <3>1 DEF TopicFor, Usual, Gated, Homed
    <3>2. CASE ~(r.parents = <<>> /\ r.topic # <<>>)
      BY <2>3, <3>2, BasePathIsAtHome DEF TopicFor, HasTopic, Usual
    <3> QED
      BY <3>1, <3>2
  <2> QED
    BY <1>3, <1>8, <2>1, <2>4
<1> QED
  BY <1>4, <1>7, <1>8 DEF EventsAtHome

(* An action that has no topic to publish to does not run.                  *)
LEMMA RefusedStep ==
    ASSUME NEW c \in CallIds, Usual(c), calls[c].pc = "execute", calls' = With(c, [pc |-> "save", answer |-> 500])
    PROVE  \E s : ChangeTo(c, s) /\ Quiet(calls[c], s)
<1> DEFINE r == calls[c]
<1>1. r.pc = "execute" /\ r.ran = 0
  BY DEF Usual, Sound
<1>2. PICK fields : fields = [pc |-> "save", answer |-> 500]
  OBVIOUS
<1>3. PICK s : s = After(r, fields)
  OBVIOUS
<1>4. calls' = [calls EXCEPT ![c] = s]
  <2>1. calls' = With(c, fields)
    BY <1>2
  <2> QED
    BY <1>3, <2>1, WithIsAfter DEF Usual
<1>5. /\ Fixed(r, s) /\ s.topic = r.topic /\ s.follows = r.follows /\ s.asking = r.asking /\ s.kept = r.kept /\ s.pc = "save"
      /\ s.ran = r.ran /\ s.state = r.state /\ s.user = r.user /\ s.passed = r.passed
      /\ s.checked = r.checked /\ s.seen = r.seen /\ s.key = r.key /\ s.home = r.home /\ s.published = r.published
  BY <1>2, <1>3, AfterFields DEF Fixed
<1>6. Sound(s) /\ Gated(s, app)
  <2>1. s.user \in {r.caller, Nobody, "unread"} /\ s.key \in {r.caller, Nobody, "absent", "deferred"}
    BY <1>5 DEF Usual, Sound, Typed
  <2>2. ToTheCaller(r, s.home) /\ ToTheCaller(r, s.published) /\ s.state \subseteq CallIds
    BY <1>5 DEF Usual, Sound, Typed
  <2>3. s.ran \in Nat /\ ~(s.ran > 0)
    BY <1>1, <1>5
  <2>4. r.pc \in Past /\ s.pc \in Past \cup {"answered"}
    BY <1>1, <1>5 DEF Past
  <2>5. Homed(s, app)
    BY <1>5, HomedStays DEF Usual, Gated, Fixed
  <2> QED
    BY <1>5, <2>1, <2>2, <2>3, <2>4, <2>5, Advances DEF Usual
<1>7. Moves(r, s) /\ Quiet(r, s)
  BY <1>1, <1>5 DEF Moves, ReadsOnce, Quiet, Loaded, Past
<1> QED
  BY <1>4, <1>6, <1>7 DEF ChangeTo

LEMMA ExecuteStep ==
    ASSUME NEW c \in CallIds, Usual(c), Execute(c)
    PROVE  \E s : ChangeTo(c, s) /\ Quiet(calls[c], s)
<1> DEFINE r == calls[c]
<1>1. r.pc = "execute" /\ r.ran = 0 /\ ~Deferred(c)
  BY DEF Execute, Usual, Sound
<1>2. CASE NoTopic(c)
  <2>1. calls' = With(c, [pc |-> "save", answer |-> 500])
    BY <1>2 DEF Execute
  <2> QED
    BY <1>1, <2>1, RefusedStep
<1>3. CASE ~NoTopic(c)
  <2>1. PICK user : user = IF r.user = "unread" THEN ResolvedUser(c) ELSE r.user
    OBVIOUS
  <2>2. user \in {r.caller, Nobody} /\ user # "unread" /\ (r.user # "unread" => user = r.user)
    BY <2>1, UserResolves DEF Usual, Sound, Typed
  <2>3. PICK key : key = IF r.key = "deferred" THEN user ELSE r.key
    OBVIOUS
  <2>4. PICK home : home = ResolveHome(c, user)
    OBVIOUS
  <2>5. PICK ran : ran = r.ran + 1
    OBVIOUS
  <2>6. PICK fields : fields = [pc |-> "running", user |-> user, seen |-> user, ran |-> ran, key |-> key, home |-> home]
    OBVIOUS
  <2>7. PICK s : s = After(r, fields)
    OBVIOUS
  <2>8. calls' = [calls EXCEPT ![c] = s]
    <3>1. calls' = With(c, fields)
      BY <1>3, <2>1, <2>3, <2>4, <2>5, <2>6 DEF Execute
    <3> QED
      BY <2>7, <3>1, WithIsAfter DEF Usual
  <2>9. DOMAIN fields = {"pc", "user", "seen", "ran", "key", "home"}
    BY <2>6
  <2>10. /\ Fixed(r, s) /\ s.topic = r.topic /\ s.follows = r.follows /\ s.asking = r.asking /\ s.kept = r.kept
         /\ s.state = r.state /\ s.passed = r.passed /\ s.checked = r.checked /\ s.published = r.published
    BY <2>7, <2>9, AfterFields DEF Fixed
  <2>11. s.pc = "running" /\ s.user = user /\ s.seen = user /\ s.ran = ran /\ s.key = key /\ s.home = home
    BY <2>6, <2>7, <2>9, AfterFields
  <2>12. Sound(s) /\ Gated(s, app)
    <3>1. s.user \in {r.caller, Nobody, "unread"} /\ s.key \in {r.caller, Nobody, "absent", "deferred"}
      BY <2>2, <2>3, <2>11 DEF Usual, Sound, Typed
    <3>2. ToTheCaller(r, s.home)
      BY <2>2, <2>4, <2>11, HomeIsTheCallers
    <3>3. ToTheCaller(r, s.published) /\ s.state \subseteq CallIds
      BY <2>10 DEF Usual, Sound, Typed
    <3>4. s.ran \in Nat /\ s.ran > 0 /\ ~DeferredIn(r)
      BY <1>1, <2>5, <2>11 DEF Deferred, WorkerCall, DeferredIn
    <3>5. r.pc \in Past /\ s.pc \in Past \cup {"answered"} /\ s.pc \notin {"load", "chain", "execute", "handed"}
      BY <1>1, <2>11 DEF Past
    <3>6. Homed(s, app)
      <4>1. EventsAtHome(r, app, s.home)
        BY <1>3, <2>4, <2>11, HomeIsAtHome
      <4>2. Homed(r, app) /\ s.viewset = r.viewset /\ s.action = r.action /\ s.parents = r.parents
        BY <2>10 DEF Usual, Gated, Fixed
      <4> QED
        BY <2>10, <4>1, <4>2 DEF Homed, EventsAtHome
    <3> QED
      BY <2>2, <2>10, <2>11, <3>1, <3>2, <3>3, <3>4, <3>5, <3>6, Advances DEF Usual
  <2>13. Moves(r, s) /\ Quiet(r, s)
    <3>1. ReadsOnce(r, s)
      BY <1>1, <2>1, <2>11 DEF ReadsOnce, ResolvedUser
    <3> QED
      BY <1>1, <2>10, <2>11, <3>1 DEF Moves, Quiet, Loaded, Past, Deferred, WorkerCall, DeferredIn
  <2> QED
    BY <2>8, <2>12, <2>13 DEF ChangeTo
<1> QED
  BY <1>2, <1>3

(* A step that keeps everything but what no invariant is about.             *)
LEMMA Looks ==
    ASSUME NEW r, NEW s, NEW a, Sound(r), Gated(r, a), Fixed(r, s), r.pc \in Past \cup {"gates"},
           s.pc = r.pc \/ {r.pc, s.pc} \subseteq {"running", "asking"}, s.pc = "asking" => s.asking.place # 0,
           s.gates = r.gates, s.ran = r.ran, s.state = r.state, s.user = r.user, s.passed = r.passed,
           s.checked = r.checked, s.seen = r.seen, s.key = r.key, s.home = r.home, s.published = r.published,
           Homed(s, a)
    PROVE  Sound(s) /\ Gated(s, a) /\ Moves(r, s) /\ Quiet(r, s)
<1>1. Typed(s)
  BY DEF Fixed, Sound, Typed, Pcs, Past
<1>2. ToTheCaller(s, s.home) /\ ToTheCaller(s, s.published)
  BY DEF Fixed, ToTheCaller, Sound
<1>3. UserNeeded(s) <=> UserNeeded(r)
  BY DEF Fixed, UserNeeded
<1>4. DeferredIn(s) <=> DeferredIn(r)
  BY DEF Fixed, DeferredIn
<1>5. Sound(s)
  BY <1>1, <1>2, <1>3, <1>4 DEF Sound, Fixed
<1>6. \A i : ServedAt(a, i, s) <=> ServedAt(a, i, r)
  BY DEF Fixed, ServedAt, Asked
<1>7. Gated(s, a)
  BY <1>6 DEF Gated, Fixed
<1>8. Moves(r, s) /\ Quiet(r, s)
  BY DEF Moves, ReadsOnce, Quiet, Loaded, Past, Sound
<1> QED
  BY <1>5, <1>7, <1>8

(* The place that match_viewset finds has a route of its gate action.       *)
LEMMA MatchFinds ==
    ASSUME NEW a \in Apps, NEW topic, MatchViewset(a.places, topic) # 0
    PROVE  LET i == MatchViewset(a.places, topic)
           IN /\ i \in DOMAIN a.places /\ PathMatches(a.places[i].base, topic)
              /\ GateAction(a.places[i].viewset) # "none"
<1> DEFINE found == {i \in DOMAIN a.places :
                        /\ \E route \in RoutesAt(a.places[i]) :
                              route.action = GateAction(a.places[i].viewset) /\ Transports(route, a.places[i]) # {}
                        /\ PathMatches(a.places[i].base, topic)}
<1>1. found # {} /\ MatchViewset(a.places, topic) = FirstIn(found)
  BY DEF MatchViewset
<1>2. found \in SUBSET Nat
  BY PlaceSound
<1>3. FirstIn(found) \in found
  BY <1>1, <1>2, FirstInExists
<1>4. PICK i : i = MatchViewset(a.places, topic)
  OBVIOUS
<1>5. i \in found
  BY <1>1, <1>3, <1>4
<1>6. PICK route \in RoutesAt(a.places[i]) : route.action = GateAction(a.places[i].viewset)
  BY <1>5
<1>7. route.action # "none"
  BY <1>5, <1>6, PlaceHolds, RouteSound DEF RoutesAt
<1> QED
  BY <1>4, <1>5, <1>6, <1>7

(* Whom the place of a topic admits may list its records.                   *)
LEMMA AdmittedMayList ==
    ASSUME NEW a \in Apps, NEW topic \in Topics, NEW i, i = MatchViewset(a.places, topic), i # 0,
           NEW f, f.topic = topic, AdmittedAt(a, i, f)
    PROVE  MayList(f, a)
<1>1. PICK place : place = a.places[i]
  OBVIOUS
<1>2. i \in DOMAIN a.places /\ PathMatches(place.base, topic) /\ GateAction(place.viewset) # "none"
  BY <1>1, MatchFinds
<1>3. PICK k, chain : PlaceIs(a, i, k, chain)
  BY <1>2, PlaceSound
<1>4. PICK base : base = a.roots[k].base
  OBVIOUS
<1>5. topic \in Seq(Range(topic)) /\ place.base \in Seq(Range(place.base))
  BY <1>1, <1>2, RequestsAssumption, PlaceHolds
<1>6. LeadsTo(place.base, topic) /\ Len(place.base) = Len(topic)
  <2>1. Len(place.base) = Len(topic)
    BY <1>2, Zenon DEF PathMatches
  <2>2. Len(topic) \in Nat /\ SubSeq(topic, 1, Len(topic)) = topic
    BY <1>5
  <2>3. SubSeq(topic, 1, Len(place.base)) = topic /\ Len(place.base) <= Len(topic)
    BY <2>1, <2>2
  <2> QED
    BY <1>2, <2>1, <2>3, Zenon DEF LeadsTo
<1>7. /\ Len(base) + Len(chain) = Len(topic) /\ LeadsTo(base, topic)
      /\ \A j \in 1..Len(chain) : MountOf(chain[j]).path = topic[Len(base) + j]
  BY <1>1, <1>2, <1>3, <1>4, <1>5, <1>6, LeadsToPlace
<1>8. /\ k \in DOMAIN a.roots /\ chain \in ChainsUnder(a.roots[k].viewset)
      /\ place = PlaceOf(k, a.roots[k], chain)
  BY <1>1, <1>3 DEF PlaceIs
<1>9. /\ place.viewset = Innermost(a.roots[k].viewset, chain)
      /\ place.gates = [j \in DOMAIN chain |-> GateOf(chain[j][1], MountOf(chain[j]))]
  <2>1. PICK root : root = a.roots[k]
    OBVIOUS
  <2>2. place = PlaceOf(k, root, chain)
    BY <1>8, <2>1
  <2> QED
    BY <2>1, <2>2 DEF PlaceOf
<1>10. DOMAIN chain = 1..Len(chain) /\ Len(chain) \in Nat
  <2>1. a.roots[k].viewset \in DOMAIN Classes
    BY <1>8, AppSound, RequestsAssumption
  <2> QED
    BY <1>8, <2>1, ChainSound
<1>11. Len(place.gates) = Len(chain)
  BY <1>9, <1>10
<1>12. /\ GatesAdmit(place.gates, Len(chain), f.users) /\ DependsAdmit(place, f.user)
       /\ f.scope = Classes[place.viewset].scope
       /\ f.scope # "none" => f.user # Nobody /\ f.user = f.fresh
  BY <1>1, <1>11 DEF AdmittedAt
<1>13. ASSUME NEW j \in DOMAIN chain
       PROVE  LET mount == MountOf(chain[j])
              IN /\ mount.path = f.topic[Len(base) + j]
                 /\ AllAdmit(GateOf(chain[j][1], mount).config, mount.path, f.users[j])
  <2>1. AllAdmit(place.gates[j].config, place.gates[j].action, f.users[j])
    BY <1>10, <1>12 DEF GatesAdmit
  <2>2. place.gates[j] = GateOf(chain[j][1], MountOf(chain[j]))
    BY <1>9
  <2>3. place.gates[j].action = MountOf(chain[j]).path
    BY <2>2 DEF GateOf
  <2> QED
    BY <1>7, <1>10, <2>1, <2>2, <2>3
<1>14. PICK inner : inner = Innermost(a.roots[k].viewset, chain) /\ inner = place.viewset
  BY <1>9
<1>15. PICK list : list = GateAction(inner)
  OBVIOUS
<1>16. AllAdmit(ActionConfiguration(inner, list), list, f.user)
  BY <1>12, <1>14, <1>15 DEF DependsAdmit
<1>17. Len(f.users) = Len(chain)
  BY <1>12 DEF GatesAdmit
<1>18. /\ list # "none" /\ AllAdmit(ActionConfiguration(inner, list), list, f.user)
       /\ f.scope = Classes[inner].scope
       /\ f.scope # "none" => f.user # Nobody /\ f.user = f.fresh
  BY <1>2, <1>12, <1>14, <1>15, <1>16, Zenon
<1>19. Len(base) + Len(chain) = Len(f.topic) /\ LeadsTo(base, f.topic)
  BY <1>7
<1> QED
  BY <1>4, <1>8, <1>13, <1>14, <1>15, <1>17, <1>18, <1>19, ZenonT(30) DEF MayList

(* A step in which a call asks for a topic: what it keeps and follows are   *)
(* verdicts of the topics' places.                                          *)
LEMMA AsksStep ==
    ASSUME NEW c \in CallIds, Usual(c), calls[c].pc \in {"running", "asking"}, NEW fields,
           DOMAIN fields \subseteq {"pc", "asked", "asking", "kept", "follows"}, calls' = With(c, fields),
           NEW s, s = After(calls[c], fields),
           s.pc \in {"running", "asking"}, s.pc = "asking" => s.asking.place # 0,
           \A f \in s.follows : MayList(f, app),
           \A v \in s.kept : v.admitted => AdmittedAt(app, v.key.place, v),
           s.asking.place # 0 => UnderWay(s.asking, app)
    PROVE  \E t : ChangeTo(c, t) /\ Quiet(calls[c], t)
<1> DEFINE r == calls[c]
<1>1. calls' = [calls EXCEPT ![c] = s]
  BY WithIsAfter DEF Usual
<1>2. /\ Fixed(r, s) /\ s.topic = r.topic
      /\ s.gates = r.gates /\ s.ran = r.ran /\ s.state = r.state /\ s.user = r.user
      /\ s.passed = r.passed /\ s.checked = r.checked /\ s.seen = r.seen /\ s.key = r.key /\ s.home = r.home
      /\ s.published = r.published
  BY AfterFields DEF Fixed
<1>3. Homed(s, app)
  BY <1>2, SMTT(30) DEF Usual, Gated, Fixed, Homed, EventsAtHome
<1>4. r.pc \in Past \cup {"gates"} /\ {r.pc, s.pc} \subseteq {"running", "asking"}
  BY DEF Past
<1>5. Sound(s) /\ Gated(s, app) /\ Moves(r, s) /\ Quiet(r, s)
  BY <1>2, <1>3, <1>4, Looks DEF Usual
<1> QED
  BY <1>1, <1>5 DEF ChangeTo

(* What a call has asked for so far.                                        *)
LEMMA AsksSoFar ==
    ASSUME NEW c \in CallIds, Usual(c)
    PROVE  /\ \A f \in calls[c].follows : MayList(f, app)
           /\ \A v \in calls[c].kept : v.admitted => AdmittedAt(app, v.key.place, v)
           /\ calls[c].asking.place # 0 => UnderWay(calls[c].asking, app)
           /\ calls[c].pc = "asking" => calls[c].asking.place # 0
BY DEF Usual, Gated, Homed

LEMMA AskStep ==
    ASSUME NEW c \in CallIds, NEW topic \in Topics, Usual(c), Ask(c, topic)
    PROVE  \E s : ChangeTo(c, s) /\ Quiet(calls[c], s)
<1> DEFINE r == calls[c]
<1>1. PICK i : i = MatchViewset(app.places, topic)
  OBVIOUS
<1>2. PICK kept : kept = {v \in r.kept : v.key = VerdictKey(i, topic)}
  OBVIOUS
<1>3. r.pc = "running" /\ i # 0
  BY <1>1 DEF Ask, MayAsk
<1>4. PICK asked : asked = Append(r.asked, topic)
  OBVIOUS
<1>5. i \in DOMAIN app.places /\ app \in Apps
  BY <1>1, <1>3, MatchFinds DEF Usual
<1>6. CASE kept # {}
  <2>1. PICK follows : follows = r.follows \cup {ResolvedTopic(topic, v) : v \in {k \in kept : k.admitted}}
    OBVIOUS
  <2>2. PICK fields : fields = [asked |-> asked, follows |-> follows]
    OBVIOUS
  <2>3. calls' = With(c, fields)
    BY <1>1, <1>2, <1>4, <1>6, <2>1, <2>2 DEF Ask
  <2>4. PICK s : s = After(r, fields)
    OBVIOUS
  <2>5. DOMAIN fields = {"asked", "follows"}
    BY <2>2
  <2>6. s.pc = r.pc /\ s.asking = r.asking /\ s.kept = r.kept /\ s.follows = follows
    BY <2>2, <2>4, <2>5, AfterFields
  <2>7. ASSUME NEW f \in follows PROVE MayList(f, app)
    <3>1. CASE f \in r.follows
      BY <3>1, AsksSoFar
    <3>2. CASE f \notin r.follows
      <4>1. PICK v \in kept : v.admitted /\ f = ResolvedTopic(topic, v)
        BY <2>1, <3>2
      <4>2. v.key.place = i /\ v \in r.kept
        BY <1>2 DEF VerdictKey
      <4>3. AdmittedAt(app, i, v)
        BY <4>1, <4>2, AsksSoFar
      <4>4. f.topic = topic /\ AdmittedAt(app, i, f)
        BY <4>1, <4>3 DEF AdmittedAt, ResolvedTopic
      <4> QED
        BY <1>1, <1>3, <1>5, <4>4, AdmittedMayList
    <3> QED
      BY <3>1, <3>2
  <2> QED
    BY <1>3, <2>3, <2>4, <2>5, <2>6, <2>7, AsksSoFar, AsksStep
<1>7. CASE kept = {}
  <2>1. PICK q : q = [place |-> i, topic |-> topic, left |-> app.places[i].gates, users |-> <<>>]
    OBVIOUS
  <2>2. PICK fields : fields = [pc |-> "asking", asked |-> asked, asking |-> q]
    OBVIOUS
  <2>3. calls' = With(c, fields)
    BY <1>1, <1>2, <1>4, <1>7, <2>1, <2>2 DEF Ask
  <2>4. PICK s : s = After(r, fields)
    OBVIOUS
  <2>5. DOMAIN fields = {"pc", "asked", "asking"}
    BY <2>2
  <2>6. s.pc = "asking" /\ s.asking = q /\ s.kept = r.kept /\ s.follows = r.follows
    BY <2>2, <2>4, <2>5, AfterFields
  <2>7. UnderWay(q, app) /\ q.place # 0
    <3>1. PICK gates : gates = app.places[i].gates
      OBVIOUS
    <3>2. gates \in Seq(Range(gates))
      BY <1>5, <3>1, GatesSound
    <3>3. 0 \in 0..Len(gates) /\ gates = SubSeq(gates, 0 + 1, Len(gates))
      BY <3>2
    <3>4. q.left = gates /\ q.users = <<>> /\ q.place = i /\ q.topic = topic
          /\ DOMAIN q = {"place", "topic", "left", "users"}
      BY <2>1, <3>1
    <3>5. q.users \in Seq(Callers) /\ GatesAdmit(gates, 0, q.users)
      BY <3>4 DEF GatesAdmit
    <3>6. \E k \in 0..Len(gates) : /\ q.left = SubSeq(gates, k + 1, Len(gates))
                                   /\ q.users \in Seq(Callers) /\ GatesAdmit(gates, k, q.users)
      BY <3>3, <3>4, <3>5
    <3> QED
      BY <1>1, <1>3, <1>5, <3>1, <3>4, <3>6 DEF UnderWay
  <2> QED
    BY <1>3, <2>3, <2>4, <2>5, <2>6, <2>7, AsksSoFar, AsksStep
<1> QED
  BY <1>6, <1>7

(* The verdict of a topic is kept, and followed where it admits.            *)
LEMMA DecidedStep ==
    ASSUME NEW c \in CallIds, Usual(c), calls[c].pc = "asking", NEW admitted, NEW user,
           calls' = With(c, Decided(c, admitted, user)),
           admitted => /\ calls[c].asking.left = <<>>
                       /\ DependsAdmit(app.places[calls[c].asking.place], user)
                       /\ HasScope(app.places[calls[c].asking.place].viewset) => user # Nobody /\ user = ResolvedUser(c)
    PROVE  \E s : ChangeTo(c, s) /\ Quiet(calls[c], s)
<1> DEFINE r == calls[c]
<1>1. PICK q : q = r.asking
  OBVIOUS
<1>2. UnderWay(q, app) /\ q.place # 0
  BY <1>1, AsksSoFar
<1>3. PICK i : i = q.place
  OBVIOUS
<1>4. i \in DOMAIN app.places /\ i = MatchViewset(app.places, q.topic) /\ i # 0 /\ q.topic \in Topics /\ app \in Apps
  BY <1>2, <1>3 DEF UnderWay, Usual
<1>5. PICK place : place = app.places[i]
  OBVIOUS
<1>6. PICK v : v = [key |-> VerdictKey(i, q.topic), admitted |-> admitted, users |-> q.users,
                    fresh |-> ResolvedUser(c), user |-> user, scope |-> Classes[place.viewset].scope]
  OBVIOUS
<1>7. PICK kept : kept = r.kept \cup (IF HasScope(place.viewset) THEN {v} ELSE {})
  OBVIOUS
<1>8. PICK follows : follows = r.follows \cup (IF admitted THEN {ResolvedTopic(q.topic, v)} ELSE {})
  OBVIOUS
<1>9. PICK fields : fields = [pc |-> "running", asking |-> NotAsking, kept |-> kept, follows |-> follows]
  OBVIOUS
<1>10. calls' = With(c, fields)
  <2>1. Decided(c, admitted, user) = fields
    BY <1>1, <1>3, <1>5, <1>6, <1>7, <1>8, <1>9 DEF Decided
  <2> QED
    BY <2>1
<1>11. PICK s : s = After(r, fields)
  OBVIOUS
<1>12. DOMAIN fields = {"pc", "asking", "kept", "follows"}
  BY <1>9
<1>13. s.pc = "running" /\ s.asking = NotAsking /\ s.kept = kept /\ s.follows = follows
  BY <1>9, <1>11, <1>12, AfterFields
<1>14. NotAsking.place = 0
  BY DEF NotAsking
<1>15. ASSUME admitted PROVE AdmittedAt(app, i, v)
  <2>1. PICK gates : gates = place.gates
    OBVIOUS
  <2>2. gates \in Seq(Range(gates))
    BY <1>4, <1>5, <2>1, GatesSound
  <2>3. PICK k \in 0..Len(gates) : q.left = SubSeq(gates, k + 1, Len(gates)) /\ GatesAdmit(gates, k, q.users)
    BY <1>2, <1>3, <1>5, <2>1 DEF UnderWay
  <2>4. k = Len(gates)
    BY <1>1, <1>15, <2>2, <2>3, NoGatesLeft
  <2>5. v.users = q.users /\ v.user = user /\ v.fresh = ResolvedUser(c) /\ v.scope = Classes[place.viewset].scope
    BY <1>6
  <2>6. DependsAdmit(place, user) /\ (HasScope(place.viewset) => user # Nobody /\ user = ResolvedUser(c))
    BY <1>1, <1>3, <1>5, <1>15
  <2> QED
    BY <1>5, <2>1, <2>3, <2>4, <2>5, <2>6 DEF AdmittedAt, HasScope
<1>16. ASSUME NEW f \in follows PROVE MayList(f, app)
  <2>1. CASE f \in r.follows
    BY <2>1, AsksSoFar
  <2>2. CASE f \notin r.follows
    <3>1. admitted /\ f = ResolvedTopic(q.topic, v)
      BY <1>8, <2>2
    <3>2. f.topic = q.topic /\ AdmittedAt(app, i, f)
      BY <1>15, <3>1 DEF AdmittedAt, ResolvedTopic
    <3> QED
      BY <1>4, <3>2, AdmittedMayList
  <2> QED
    BY <2>1, <2>2
<1>17. ASSUME NEW w \in kept, w.admitted PROVE AdmittedAt(app, w.key.place, w)
  <2>1. CASE w \in r.kept
    BY <1>17, <2>1, AsksSoFar
  <2>2. CASE w \notin r.kept
    <3>1. w = v
      BY <1>7, <2>2
    <3>2. v.key.place = i /\ v.admitted = admitted
      BY <1>6 DEF VerdictKey
    <3> QED
      BY <1>15, <1>17, <3>1, <3>2
  <2> QED
    BY <2>1, <2>2
<1> QED
  BY <1>10, <1>11, <1>12, <1>13, <1>14, <1>16, <1>17, AsksStep

LEMMA AskGateStep ==
    ASSUME NEW c \in CallIds, Usual(c), AskGate(c)
    PROVE  \E s : ChangeTo(c, s) /\ Quiet(calls[c], s)
<1> DEFINE r == calls[c]
<1>1. PICK q : q = r.asking
  OBVIOUS
<1>2. r.pc = "asking" /\ q.left # <<>>
  BY <1>1 DEF AskGate
<1>3. UnderWay(q, app) /\ q.place # 0
  BY <1>1, <1>2, AsksSoFar
<1>4. PICK gate : gate = Head(q.left)
  OBVIOUS
<1>5. PICK user : user = ResolvedUser(c)
  OBVIOUS
<1>6. CASE AllAdmit(gate.config, gate.action, user)
  <2>1. PICK asking : asking = [q EXCEPT !.left = Tail(@), !.users = Append(@, user)]
    OBVIOUS
  <2>2. PICK fields : fields = [asking |-> asking]
    OBVIOUS
  <2>3. calls' = With(c, fields)
    BY <1>1, <1>4, <1>5, <1>6, <2>1, <2>2 DEF AskGate
  <2>4. PICK s : s = After(r, fields)
    OBVIOUS
  <2>5. DOMAIN fields = {"asking"}
    BY <2>2
  <2>6. s.pc = r.pc /\ s.asking = asking /\ s.kept = r.kept /\ s.follows = r.follows
    BY <2>2, <2>4, <2>5, AfterFields
  <2>7. UnderWay(asking, app) /\ asking.place # 0
    <3>1. /\ DOMAIN asking = {"place", "topic", "left", "users"} /\ asking.place = q.place /\ asking.topic = q.topic
          /\ asking.left = Tail(q.left) /\ asking.users = Append(q.users, user)
      BY <1>3, <2>1 DEF UnderWay
    <3>2. PICK gates : gates = app.places[q.place].gates
      OBVIOUS
    <3>3. PICK k \in 0..Len(gates) : /\ q.left = SubSeq(gates, k + 1, Len(gates))
                                     /\ q.users \in Seq(Callers) /\ GatesAdmit(gates, k, q.users)
      BY <1>3, <3>2 DEF UnderWay
    <3>4. gates \in Seq(Range(gates))
      BY <1>3, <3>2, GatesSound DEF UnderWay, Usual
    <3>5. k + 1 \in 1..Len(gates) /\ gate = gates[k + 1] /\ Tail(q.left) = SubSeq(gates, k + 2, Len(gates))
      BY <1>2, <1>4, <3>3, <3>4, RestOfGates
    <3>6. user \in Callers
      BY <1>5 DEF ResolvedUser, Usual, Callers
    <3>7. /\ Append(q.users, user) \in Seq(Callers) /\ Len(Append(q.users, user)) = k + 1
          /\ Append(q.users, user)[k + 1] = user
          /\ \A j \in 1..k : Append(q.users, user)[j] = q.users[j]
      BY <3>3, <3>6 DEF GatesAdmit
    <3>8. ASSUME NEW j \in 1..(k + 1)
          PROVE  AllAdmit(gates[j].config, gates[j].action, Append(q.users, user)[j])
      <4>1. CASE j \in 1..k
        BY <3>3, <3>7, <4>1 DEF GatesAdmit
      <4>2. CASE j = k + 1
        BY <1>6, <3>5, <3>7, <4>2
      <4>3. k \in Nat /\ j \in 1..(k + 1)
        OBVIOUS
      <4>4. j \in 1..k \/ j = k + 1
        BY <4>3
      <4> QED
        BY <4>1, <4>2, <4>4
    <3>9. GatesAdmit(gates, k + 1, asking.users) /\ asking.users \in Seq(Callers)
      BY <3>1, <3>7, <3>8 DEF GatesAdmit
    <3>10. k + 1 \in 0..Len(gates) /\ asking.left = SubSeq(gates, (k + 1) + 1, Len(gates))
      BY <3>1, <3>5
    <3>11. \E n \in 0..Len(gates) : /\ asking.left = SubSeq(gates, n + 1, Len(gates))
                                    /\ asking.users \in Seq(Callers) /\ GatesAdmit(gates, n, asking.users)
      BY <3>9, <3>10
    <3> QED
      BY <1>3, <3>1, <3>2, <3>11 DEF UnderWay
  <2> QED
    BY <1>2, <2>3, <2>4, <2>5, <2>6, <2>7, AsksSoFar, AsksStep
<1>7. CASE ~AllAdmit(gate.config, gate.action, user)
  <2>1. calls' = With(c, Decided(c, FALSE, user))
    BY <1>1, <1>4, <1>5, <1>7 DEF AskGate
  <2> QED
    BY <1>2, <2>1, DecidedStep
<1> QED
  BY <1>6, <1>7

LEMMA FollowStep ==
    ASSUME NEW c \in CallIds, Usual(c), Follow(c)
    PROVE  \E s : ChangeTo(c, s) /\ Quiet(calls[c], s)
<1>1. PICK place : place = app.places[calls[c].asking.place]
  OBVIOUS
<1>2. PICK user : user = IF HasScope(place.viewset) THEN ResolvedUser(c) ELSE calls[c].user
  OBVIOUS
<1>3. PICK admitted : admitted = (DependsAdmit(place, user) /\ (HasScope(place.viewset) => user # Nobody))
  OBVIOUS
<1>4. calls[c].pc = "asking" /\ calls[c].asking.left = <<>> /\ calls' = With(c, Decided(c, admitted, user))
  BY <1>1, <1>2, <1>3 DEF Follow
<1> QED
  BY <1>1, <1>2, <1>3, <1>4, DecidedStep

LEMMA StreamEndsStep ==
    ASSUME NEW c \in CallIds, Usual(c), StreamEnds(c)
    PROVE  \E s : ChangeTo(c, s) /\ Quiet(calls[c], s)
<1> DEFINE r == calls[c]
<1>1. r.pc \in Past \cup {"gates"}
  BY DEF StreamEnds, Under, Usual, Sound, Typed, Pcs, Past
<1>2. PICK s : s = After(r, [streaming |-> FALSE])
  OBVIOUS
<1>3. calls' = [calls EXCEPT ![c] = s]
  BY <1>2, WithIsAfter DEF Usual, StreamEnds
<1>4. /\ Fixed(r, s) /\ s.topic = r.topic /\ s.follows = r.follows /\ s.asking = r.asking /\ s.kept = r.kept
      /\ s.pc = r.pc /\ s.gates = r.gates /\ s.ran = r.ran /\ s.state = r.state /\ s.user = r.user
      /\ s.passed = r.passed /\ s.checked = r.checked /\ s.seen = r.seen /\ s.key = r.key /\ s.home = r.home
      /\ s.published = r.published
  BY <1>2, AfterFields DEF Fixed
<1>5. Sound(s) /\ Gated(s, app) /\ Moves(r, s) /\ Quiet(r, s)
  <2>1. Homed(s, app)
    BY <1>4, HomedStays DEF Usual, Gated, Fixed
  <2> QED
    BY <1>1, <1>4, <2>1, Looks DEF Usual, Gated
<1> QED
  BY <1>3, <1>5 DEF ChangeTo

LEMMA FinishStep ==
    ASSUME NEW c \in CallIds, Usual(c), Finish(c)
    PROVE  \E s : /\ ChangeTo(c, s) /\ s.pc = "save" /\ calls[c].pc = "running"
                  /\ s.state = calls[c].state \cup {c}
<1> DEFINE r == calls[c]
<1>1. r.pc = "running" /\ r.ran > 0
  BY DEF Finish, Usual, Sound
<1> DEFINE Returns(answer, published) ==
               calls' = With(c, [pc |-> "save", answer |-> answer, state |-> r.state \cup {c}, published |-> published])
<1>2. PICK answer, published : published \in {<<>>, r.home} /\ Returns(answer, published)
  <2>1. Returns(200, r.home) \/ \E published \in {<<>>, r.home} : Returns(500, published)
    BY DEF Finish
  <2> HIDE DEF Returns
  <2> QED
    BY <2>1
<1>3. PICK fields : fields = [pc |-> "save", answer |-> answer, state |-> r.state \cup {c}, published |-> published]
  OBVIOUS
<1>4. PICK s : s = After(r, fields)
  OBVIOUS
<1>5. calls' = [calls EXCEPT ![c] = s]
  BY <1>2, <1>3, <1>4, WithIsAfter DEF Usual
<1>6. DOMAIN fields = {"pc", "answer", "state", "published"}
  BY <1>3
<1>7. /\ Fixed(r, s) /\ s.topic = r.topic /\ s.follows = r.follows /\ s.asking = r.asking /\ s.kept = r.kept
      /\ s.ran = r.ran /\ s.user = r.user /\ s.passed = r.passed
      /\ s.checked = r.checked /\ s.seen = r.seen /\ s.key = r.key /\ s.home = r.home
  BY <1>4, <1>6, AfterFields DEF Fixed
<1>8. s.pc = "save" /\ s.state = r.state \cup {c} /\ s.published = published
  BY <1>3, <1>4, <1>6, AfterFields
<1>9. Sound(s) /\ Gated(s, app)
  <2>1. s.user \in {r.caller, Nobody, "unread"} /\ s.key \in {r.caller, Nobody, "absent", "deferred"}
    BY <1>7 DEF Usual, Sound, Typed
  <2>2. ToTheCaller(r, s.home) /\ ToTheCaller(r, s.published)
    BY <1>2, <1>7, <1>8 DEF Usual, Sound, ToTheCaller
  <2>3. s.state \subseteq CallIds
    BY <1>8 DEF Usual, Sound, Typed
  <2>4. s.ran \in Nat /\ s.ran > 0 /\ ~DeferredIn(r)
    BY <1>1, <1>7 DEF Usual, Sound, Typed
  <2>5. r.pc \in Past /\ s.pc \in Past \cup {"answered"} /\ s.pc \notin {"load", "chain", "execute", "handed"}
    BY <1>1, <1>8 DEF Past
  <2>6. Homed(s, app)
    <3>1. s.published \in {<<>>, r.home, r.published}
      BY <1>2, <1>8
    <3> QED
      BY <1>7, <3>1, HomedStays DEF Usual, Gated, Fixed
  <2> QED
    BY <1>7, <1>8, <2>1, <2>2, <2>3, <2>4, <2>5, <2>6, Advances DEF Usual
<1>10. Moves(r, s)
  BY <1>1, <1>7, <1>8 DEF Moves, ReadsOnce
<1> QED
  BY <1>1, <1>5, <1>8, <1>9, <1>10 DEF ChangeTo

LEMMA SaveStateStep ==
    ASSUME NEW c \in CallIds, Usual(c), SaveState(c)
    PROVE  \E s : /\ ChangeTo(c, s) /\ s.pc = "answered" /\ calls[c].pc = "save"
                  /\ s.state = calls[c].state /\ s.ran = calls[c].ran
<1> DEFINE r == calls[c]
<1>1. r.pc = "save"
  BY DEF SaveState
<1>2. PICK fields : fields = Answered(r.answer)
  OBVIOUS
<1>3. PICK s : s = After(r, fields)
  OBVIOUS
<1>4. calls' = [calls EXCEPT ![c] = s]
  BY <1>2, <1>3, WithIsAfter DEF Usual, SaveState
<1>5. DOMAIN fields = {"pc", "answer"} /\ fields.pc = "answered"
  BY <1>2 DEF Answered
<1>6. /\ Fixed(r, s) /\ s.topic = r.topic /\ s.follows = r.follows /\ s.asking = r.asking /\ s.kept = r.kept
      /\ s.pc = "answered" /\ s.ran = r.ran /\ s.state = r.state /\ s.user = r.user /\ s.passed = r.passed
      /\ s.checked = r.checked /\ s.seen = r.seen /\ s.key = r.key /\ s.home = r.home /\ s.published = r.published
  BY <1>3, <1>5, AfterFields DEF Fixed
<1>7. Sound(s) /\ Gated(s, app)
  <2>1. s.user \in {r.caller, Nobody, "unread"} /\ s.key \in {r.caller, Nobody, "absent", "deferred"}
    BY <1>6 DEF Usual, Sound, Typed
  <2>2. ToTheCaller(r, s.home) /\ ToTheCaller(r, s.published) /\ s.state \subseteq CallIds
    BY <1>6 DEF Usual, Sound, Typed
  <2>3. s.ran \in Nat /\ (s.ran > 0 => ~DeferredIn(r))
    BY <1>6 DEF Usual, Sound, Typed
  <2>4. r.pc \in Past /\ s.pc \in Past \cup {"answered"}
        /\ s.pc \notin {"load", "chain", "execute", "handed", "running", "waiting"}
    BY <1>1, <1>6 DEF Past
  <2>5. Homed(s, app)
    BY <1>6, HomedStays DEF Usual, Gated, Fixed
  <2> QED
    BY <1>6, <2>1, <2>2, <2>3, <2>4, <2>5, Advances DEF Usual
<1>8. Moves(r, s)
  BY <1>1, <1>6 DEF Moves, ReadsOnce
<1> QED
  BY <1>1, <1>4, <1>6, <1>7, <1>8 DEF ChangeTo

------------------------------------------------------------------------------
(* A step of one call, and the others                                       *)

LEMMA UsualCall == ASSUME RequestsInv, NEW c \in CallIds PROVE Usual(c)
BY DEF RequestsInv, Usual

LEMMA ChangedCalls ==
    ASSUME RequestsInv, NEW c \in CallIds, NEW s, ChangeTo(c, s), app' = app
    PROVE  /\ DOMAIN calls' = CallIds /\ calls'[c] = s /\ \A d \in CallIds \ {c} : calls'[d] = calls[d]
           /\ \A d \in CallIds : Fixed(calls[d], calls'[d])
           /\ \A d \in CallIds : Sound(calls'[d]) /\ Gated(calls'[d], app)
<1>1. /\ DOMAIN calls' = CallIds /\ calls'[c] = s /\ \A d \in CallIds \ {c} : calls'[d] = calls[d]
  BY DEF RequestsInv, ChangeTo
<1>2. \A d \in CallIds : Fixed(calls[d], calls'[d])
  BY <1>1 DEF ChangeTo, Moves, Fixed, RequestsInv, Sound, Typed
<1>3. \A d \in CallIds : Sound(calls'[d]) /\ Gated(calls'[d], app)
  BY <1>1 DEF ChangeTo, RequestsInv
<1> QED
  BY <1>1, <1>2, <1>3

LEMMA StepKeepsApart ==
    ASSUME RequestsInv, NEW c \in CallIds, NEW s, ChangeTo(c, s), app' = app
    PROVE  ApartInv'
<1> SUFFICES ASSUME NEW d \in CallIds, NEW e \in CallIds, d # e, Under(d)', Under(e)', calls'[d].alone
             PROVE  Related(d, e)'
  BY DEF ApartInv
<1>1. Under(d) /\ Under(e) /\ calls[d].alone
  BY ChangedCalls DEF Under, ChangeTo, Moves, Fixed
<1>2. Related(d, e)
  BY <1>1 DEF RequestsInv, ApartInv
<1> QED
  BY <1>2, ChangedCalls DEF Related, Fixed

LEMMA StepKeepsBy ==
    ASSUME RequestsInv, NEW c \in CallIds, NEW s, ChangeTo(c, s), app' = app
    PROVE  ByInv'
<1> SUFFICES ASSUME NEW d \in CallIds, calls'[d].by # 0
             PROVE  DispatchedBy(calls'[d], calls'[calls'[d].by])
  BY DEF ByInv
<1>1. PICK b : b = calls[d].by
  OBVIOUS
<1>2. calls'[d].by = b /\ b \in CallIds
  BY <1>1, ChangedCalls DEF Fixed, RequestsInv, Sound, Typed
<1>3. DispatchedBy(calls[d], calls[b])
  BY <1>1, <1>2 DEF RequestsInv, ByInv
<1>4. Fixed(calls[d], calls'[d]) /\ Fixed(calls[b], calls'[b])
  BY <1>2, ChangedCalls
<1>5. /\ calls'[b].pc # "idle"
      /\ calls'[b].ran > 0 <=> calls[b].ran > 0
      /\ calls'[b].ran = 0 => calls'[b].pc \in {"handed", "save", "answered", "collected"}
  <2>1. CASE b # c
    BY <1>2, <1>3, <2>1, ChangedCalls DEF DispatchedBy
  <2>2. CASE b = c
    <3>1. calls'[b] = s /\ Moves(calls[b], s)
      BY <2>2, ChangedCalls DEF ChangeTo
    <3>2. calls[b].ran \in Nat /\ (calls[b].pc = "execute" => calls[b].ran = 0)
      BY <1>2 DEF RequestsInv, Sound, Typed
    <3>3. s.ran = calls[b].ran
      BY <1>3, <3>1, <3>2 DEF Moves, DispatchedBy
    <3>4. s.pc # "idle" /\ (s.ran = 0 => s.pc \in {"handed", "save", "answered"})
      BY <1>3, <3>1, <3>3 DEF Moves, DispatchedBy
    <3> QED
      BY <3>1, <3>3, <3>4
  <2> QED
    BY <2>1, <2>2
<1>6. DeferredIn(calls[b]) => DeferredIn(calls'[b])
  BY <1>4 DEF DeferredIn, Fixed
<1>7. DispatchedBy(calls'[d], calls'[b])
  BY <1>3, <1>4, <1>5, <1>6 DEF DispatchedBy, Fixed
<1> QED
  BY <1>2, <1>7

(* What a call is, whether it is alone or not.                              *)
Same(r, s) ==
    /\ s.viewset = r.viewset /\ s.action = r.action /\ s.transport = r.transport /\ s.method = r.method
    /\ s.caller = r.caller /\ s.at = r.at /\ s.by = r.by /\ s.relayed = r.relayed

LEMMA AdmittedStays ==
    ASSUME NEW r, NEW s, NEW a, Admitted(r, a), Same(r, s), s.passed = r.passed, s.checked = r.checked
    PROVE  Admitted(s, a)
<1>1. \A i : ServedAt(a, i, r) => ServedAt(a, i, s)
  BY DEF Same, ServedAt, Asked
<1>2. UserNeeded(s) <=> UserNeeded(r)
  BY DEF Same, UserNeeded
<1> QED
  BY <1>1, <1>2 DEF Admitted, Same

(* The one that dispatched a call d reads its user no more; d reads the same*)
(* one or, of Django, nobody.                                               *)
LEMMA LinkedStays ==
    ASSUME NEW d, NEW x, NEW b, NEW y, NEW a, NEW alive, Linked(d, b, a, alive), Same(d, x), Same(b, y),
           y.user = b.user, y.passed = b.passed, y.checked = b.checked,
           x.user = d.user \/ (d.user = "unread" /\ x.user = IF d.caller \in alive THEN d.caller ELSE Nobody),
           NobodyIsGone(b, alive), b.user \in {b.caller, Nobody, "unread"}
    PROVE  Linked(x, y, a, alive)
<1>1. x.caller = d.caller /\ y.caller = b.caller /\ d.caller = b.caller /\ x.relayed = d.relayed
  BY DEF Linked, Same
<1>2. x.relayed => Admitted(y, a)
  BY <1>1, AdmittedStays DEF Linked
<1>3. CASE x.user = d.user
  BY <1>1, <1>2, <1>3 DEF Linked
<1>4. CASE d.user = "unread" /\ x.user = IF d.caller \in alive THEN d.caller ELSE Nobody
  <2>1. b.user = "unread" \/ d.caller \in DjangoCallers
    BY <1>4 DEF Linked
  <2>2. CASE d.caller \in alive
    BY <1>1, <1>2, <1>4, <2>1, <2>2 DEF Linked, NobodyIsGone
  <2>3. CASE d.caller \notin alive
    BY <1>1, <1>2, <1>4, <2>1, <2>3 DEF Linked
  <2> QED
    BY <2>2, <2>3
<1> QED
  BY <1>3, <1>4

LEMMA StepKeepsLink ==
    ASSUME RequestsInv, NEW c \in CallIds, NEW s, ChangeTo(c, s), app' = app, sessions' = sessions
    PROVE  LinkInv'
<1>1. \A e \in CallIds : e # c => calls'[e] = calls[e]
  BY ChangedCalls
<1>2. calls'[c] = s /\ Moves(calls[c], s)
  BY ChangedCalls DEF ChangeTo
<1>3. \A e \in CallIds : Fixed(calls[e], calls'[e]) /\ Sound(calls[e])
  BY ChangedCalls DEF RequestsInv
<1>4. ASSUME NEW e \in CallIds PROVE NobodyIsGone(calls'[e], sessions')
  <2>1. NobodyIsGone(calls[e], sessions) /\ Nobody \notin sessions
    BY DEF RequestsInv, LinkInv
  <2>2. CASE e # c
    BY <1>1, <2>1, <2>2
  <2>3. CASE e = c
    <3>1. s.caller = calls[c].caller /\ ReadsOnce(calls[c], s)
      BY <1>2 DEF Moves, Fixed
    <3> QED
      BY <1>2, <2>1, <2>3, <3>1 DEF NobodyIsGone, ReadsOnce
  <2> QED
    BY <2>2, <2>3
<1>5. ASSUME NEW d \in CallIds, calls'[d].by # 0
      PROVE  Linked(calls'[d], calls'[calls'[d].by], app', sessions')
  <2>1. PICK b : b = calls[d].by
    OBVIOUS
  <2>2. calls'[d].by = b /\ b \in CallIds /\ b # 0
    BY <1>3, <1>5, <2>1 DEF Fixed, Sound, Typed
  <2>3. DispatchedBy(calls[d], calls[b]) /\ Linked(calls[d], calls[b], app, sessions)
    BY <2>1, <2>2 DEF RequestsInv, ByInv, LinkInv
  <2>4. Same(calls[d], calls'[d]) /\ Same(calls[b], calls'[b])
    BY <1>3, <2>2 DEF Same, Fixed
  <2>5. calls[b].pc \notin {"gates", "execute"}
    <3>1. calls[b].pc \in {"gates", "execute"} => calls[b].ran = 0
      BY <1>3, <2>2 DEF Sound
    <3> QED
      BY <2>3, <3>1 DEF DispatchedBy
  <2>6. /\ calls'[b].user = calls[b].user /\ calls'[b].passed = calls[b].passed
        /\ calls'[b].checked = calls[b].checked
    BY <1>1, <1>2, <2>2, <2>5 DEF Moves, ReadsOnce
  <2>7. \/ calls'[d].user = calls[d].user
        \/ /\ calls[d].user = "unread"
           /\ calls'[d].user = IF calls[d].caller \in sessions THEN calls[d].caller ELSE Nobody
    BY <1>1, <1>2 DEF Moves, ReadsOnce
  <2>8. NobodyIsGone(calls[b], sessions) /\ calls[b].user \in {calls[b].caller, Nobody, "unread"}
    BY <1>3, <2>2 DEF RequestsInv, LinkInv, Sound, Typed
  <2>9. Linked(calls'[d], calls'[b], app, sessions)
    BY <2>3, <2>4, <2>6, <2>7, <2>8, LinkedStays
  <2> QED
    BY <2>2, <2>9
<1>6. Nobody \notin sessions'
  BY DEF RequestsInv, LinkInv
<1> QED
  BY <1>4, <1>5, <1>6 DEF LinkInv

(* The calls that overlap with one that is alone and not a relay are its    *)
(* own relay's, for which it does not run.                                  *)
LEMMA AloneUnderWay ==
    ASSUME RequestsInv, NEW c \in CallIds, NEW e \in CallIds, c # e, Keeps(c), Under(c), Under(e)
    PROVE  FALSE
<1>1. Related(c, e)
  BY DEF RequestsInv, ApartInv, Keeps
<1>2. calls[e].relayed /\ calls[e].by = c
  BY <1>1 DEF Related, Keeps
<1>3. DeferredIn(calls[c])
  <2>1. calls[e].by # 0
    BY <1>2, RequestsAssumption
  <2> QED
    BY <1>2, <2>1 DEF RequestsInv, ByInv, DispatchedBy
<1> QED
  BY <1>3 DEF RequestsInv, Sound, Keeps

LEMMA KeepsStays ==
    ASSUME NEW c \in CallIds, Fixed(calls[c], calls'[c])
    PROVE  /\ (Stateful(c)' <=> Stateful(c)) /\ (Singleton(c)' <=> Singleton(c)) /\ Process(c)' = Process(c)
           /\ calls'[c].ran = calls[c].ran => (Keeps(c)' <=> Keeps(c))
BY DEF Fixed, Stateful, Singleton, Process, WorkerCall, Keeps

(* Where nothing is loaded, changed or saved, everything stays saved.       *)
LEMMA QuietKeepsSaved ==
    ASSUME RequestsInv, NEW c \in CallIds, NEW s, ChangeTo(c, s), Quiet(calls[c], s), UNCHANGED <<app, stored, shared>>
    PROVE  SavedInv'
<1> SUFFICES ASSUME NEW d \in CallIds, Keeps(d)'
             PROVE  /\ calls'[d].pc = "save" => HasChange(d, d)'
                    /\ calls'[d].pc \in {"answered", "collected"} =>
                          /\ d \in stored'[calls'[d].viewset]
                          /\ \A e \in CallIds : calls'[e].pc \in Loaded /\ calls'[e].viewset = calls'[d].viewset
                                => HasChange(d, e)'
  BY DEF SavedInv
<1>1. \A e \in CallIds : Fixed(calls[e], calls'[e])
  BY ChangedCalls
<1>2. \A e \in CallIds : calls'[e].state = calls[e].state /\ (calls'[e].pc \in Loaded => calls[e].pc \in Loaded)
  BY ChangedCalls DEF Quiet
<1>3. \A e \in CallIds : HasChange(d, e) => HasChange(d, e)'
  BY <1>1, <1>2 DEF HasChange, Fixed, Singleton, Process, WorkerCall
<1>4. calls'[d].pc \in {"save", "answered", "collected"} =>
          /\ calls'[d].ran = calls[d].ran
          /\ calls'[d].pc = "save" => calls[d].pc = "save"
          /\ calls'[d].pc \in {"answered", "collected"} => calls[d].pc \in {"answered", "collected"}
  <2>1. CASE d # c
    BY <2>1, ChangedCalls
  <2>2. CASE d = c
    <3>1. calls'[d] = s /\ s.ran > 0
      BY <2>2, ChangedCalls DEF Keeps
    <3>2. calls[d].pc = "execute" => s.pc # "save"
      BY <2>2, <3>1 DEF Quiet
    <3>3. s.pc \notin {"answered", "collected"} /\ (s.pc = "save" => calls[d].pc = "save")
      BY <2>2, <3>1 DEF Quiet, ChangeTo, Moves
    <3> QED
      BY <2>2, <3>1, <3>2, <3>3 DEF ChangeTo, Moves
  <2> QED
    BY <2>1, <2>2
<1>5. CASE calls'[d].pc = "save"
  <2>1. Keeps(d) /\ calls[d].pc = "save"
    BY <1>1, <1>4, <1>5, KeepsStays
  <2> QED
    BY <1>3, <1>5, <2>1 DEF RequestsInv, SavedInv
<1>6. CASE calls'[d].pc \in {"answered", "collected"}
  <2>1. Keeps(d) /\ calls[d].pc \in {"answered", "collected"}
    BY <1>1, <1>4, <1>6, KeepsStays
  <2>2. d \in stored'[calls'[d].viewset]
    BY <1>1, <2>1 DEF RequestsInv, SavedInv, Fixed
  <2>3. \A e \in CallIds : calls'[e].pc \in Loaded /\ calls'[e].viewset = calls'[d].viewset => HasChange(d, e)
    BY <1>1, <1>2, <2>1 DEF RequestsInv, SavedInv, Fixed
  <2> QED
    BY <1>3, <1>6, <2>2, <2>3
<1> QED
  BY <1>5, <1>6

LEMMA LoadKeepsSaved ==
    ASSUME RequestsInv, NEW c \in CallIds, LoadState(c)
    PROVE  SavedInv'
<1>1. PICK s : /\ ChangeTo(c, s) /\ calls[c].pc = "load" /\ s.ran = 0
               /\ s.pc \in Loaded =>
                     /\ s.state = IF Stateful(c) THEN stored[calls[c].viewset] ELSE {}
                     /\ shared' = IF Stateful(c) /\ Singleton(c)
                                  THEN [shared EXCEPT ![Process(c)][calls[c].viewset] = stored[calls[c].viewset]]
                                  ELSE shared
               /\ s.pc \notin Loaded => s.pc = "answered" /\ shared' = shared
  BY UsualCall, LoadStateStep
<1>2. app' = app /\ stored' = stored
  BY DEF LoadState
<1>3. \A e \in CallIds : Fixed(calls[e], calls'[e])
  BY <1>1, <1>2, ChangedCalls
<1>4. calls'[c] = s /\ \A e \in CallIds \ {c} : calls'[e] = calls[e]
  BY <1>1, <1>2, ChangedCalls
<1> SUFFICES ASSUME NEW d \in CallIds, Keeps(d)'
             PROVE  /\ calls'[d].pc = "save" => HasChange(d, d)'
                    /\ calls'[d].pc \in {"answered", "collected"} =>
                          /\ d \in stored'[calls'[d].viewset]
                          /\ \A e \in CallIds : calls'[e].pc \in Loaded /\ calls'[e].viewset = calls'[d].viewset
                                => HasChange(d, e)'
  BY DEF SavedInv
<1>5. d # c
  BY <1>1, <1>4 DEF Keeps
<1>6. calls'[d] = calls[d] /\ Keeps(d)
  BY <1>3, <1>4, <1>5, KeepsStays
<1>7. StatesTyped /\ Process(c) \in {"web", "worker"} /\ calls[c].viewset \in DOMAIN Classes
  BY <1>1 DEF RequestsInv, Process, Sound, Typed, Past
<1>8. CASE calls'[d].pc = "save"
  <2>1. Under(d) /\ Under(c)
    BY <1>1, <1>6, <1>8 DEF Under
  <2> QED
    BY <1>5, <1>6, <2>1, AloneUnderWay
<1>9. CASE calls'[d].pc \in {"answered", "collected"}
  <2>1. d \in stored[calls[d].viewset]
    BY <1>6, <1>9 DEF RequestsInv, SavedInv
  <2>2. ASSUME NEW p \in {"web", "worker"}, d \in shared[p][calls[d].viewset]
        PROVE  d \in shared'[p][calls[d].viewset]
    <3>1. shared' \in {shared, [shared EXCEPT ![Process(c)][calls[c].viewset] = stored[calls[c].viewset]]}
      BY <1>1
    <3>2. calls[d].viewset \in DOMAIN Classes
      BY <1>6 DEF RequestsInv, Sound, Typed, Keeps
    <3> QED
      BY <1>7, <2>1, <2>2, <3>1, <3>2 DEF StatesTyped
  <2>3. ASSUME NEW e \in CallIds, calls'[e].pc \in Loaded, calls'[e].viewset = calls'[d].viewset
        PROVE  HasChange(d, e)'
    <3>1. CASE e # c
      <4>1. HasChange(d, e)
        BY <1>4, <1>6, <1>9, <2>3, <3>1 DEF RequestsInv, SavedInv
      <4>2. Process(e) \in {"web", "worker"} /\ Process(e)' = Process(e)
        BY <1>3 DEF Process, WorkerCall, Fixed
      <4> QED
        BY <1>3, <1>4, <1>6, <2>2, <3>1, <4>1, <4>2 DEF HasChange, Singleton
    <3>2. CASE e = c
      <4>1. calls[c].viewset = calls[d].viewset /\ s.pc \in Loaded
        BY <1>3, <1>4, <1>6, <2>3, <3>2 DEF Fixed
      <4>2. Stateful(c) /\ (Singleton(c) <=> Singleton(d))
        BY <1>6, <4>1 DEF Keeps, Stateful, Singleton
      <4>3. s.state = stored[calls[c].viewset] /\ Process(c)' = Process(c)
        BY <1>1, <1>3, <4>1, <4>2 DEF Process, WorkerCall, Fixed
      <4>4. Singleton(d) => d \in shared'[Process(c)][calls[d].viewset]
        BY <1>1, <1>7, <2>1, <4>1, <4>2 DEF StatesTyped
      <4>5. Singleton(d)' <=> Singleton(d)
        BY <1>6 DEF Singleton
      <4>6. calls'[d].viewset = calls[d].viewset /\ d \in calls'[c].state
        BY <1>4, <1>6, <2>1, <4>1, <4>3
      <4> QED
        BY <3>2, <4>3, <4>4, <4>5, <4>6 DEF HasChange
    <3> QED
      BY <3>1, <3>2
  <2> QED
    BY <1>2, <1>6, <1>9, <2>1, <2>3
<1> QED
  BY <1>8, <1>9

LEMMA FinishKeepsSaved ==
    ASSUME RequestsInv, NEW c \in CallIds, Finish(c)
    PROVE  SavedInv'
<1>1. PICK s : /\ ChangeTo(c, s) /\ s.pc = "save" /\ calls[c].pc = "running"
               /\ s.state = calls[c].state \cup {c}
  BY UsualCall, FinishStep
<1>2. /\ app' = app /\ stored' = stored
      /\ shared' = IF Singleton(c) THEN [shared EXCEPT ![Process(c)][calls[c].viewset] = @ \cup {c}] ELSE shared
  BY DEF Finish
<1>3. \A e \in CallIds : Fixed(calls[e], calls'[e])
  BY <1>1, <1>2, ChangedCalls
<1>4. calls'[c] = s /\ \A e \in CallIds \ {c} : calls'[e] = calls[e]
  BY <1>1, <1>2, ChangedCalls
<1>5. StatesTyped /\ Process(c) \in {"web", "worker"} /\ calls[c].viewset \in DOMAIN Classes
  BY <1>1 DEF RequestsInv, Process, Sound, Typed, Past
<1>6. \A p \in {"web", "worker"}, v \in DOMAIN Classes : shared[p][v] \subseteq shared'[p][v]
  BY <1>2, <1>5 DEF StatesTyped
<1> SUFFICES ASSUME NEW d \in CallIds, Keeps(d)'
             PROVE  /\ calls'[d].pc = "save" => HasChange(d, d)'
                    /\ calls'[d].pc \in {"answered", "collected"} =>
                          /\ d \in stored'[calls'[d].viewset]
                          /\ \A e \in CallIds : calls'[e].pc \in Loaded /\ calls'[e].viewset = calls'[d].viewset
                                => HasChange(d, e)'
  BY DEF SavedInv
<1>7. CASE d = c
  <2>1. calls'[d] = s /\ d \in s.state
    BY <1>1, <1>4, <1>7
  <2>2. Singleton(c)' => c \in shared'[Process(c)'][calls'[c].viewset]
    <3>1. /\ Singleton(c)' <=> Singleton(c)
          /\ Process(c)' = Process(c) /\ calls'[c].viewset = calls[c].viewset
      BY <1>3 DEF Singleton, Process, WorkerCall, Fixed
    <3> QED
      BY <1>2, <1>5, <3>1 DEF StatesTyped
  <2> QED
    BY <1>1, <1>7, <2>1, <2>2 DEF HasChange
<1>8. CASE d # c
  <2>1. calls'[d] = calls[d] /\ Keeps(d)
    BY <1>3, <1>4, <1>8, KeepsStays
  <2>2. calls[d].viewset \in DOMAIN Classes
    BY <2>1 DEF RequestsInv, Sound, Typed, Keeps
  <2>3. ASSUME NEW e \in CallIds, HasChange(d, e)
        PROVE  HasChange(d, e)'
    <3>1. calls[e].state \subseteq calls'[e].state
      BY <1>1, <1>4
    <3>2. Process(e) \in {"web", "worker"} /\ Process(e)' = Process(e) /\ (Singleton(d)' <=> Singleton(d))
      BY <1>3, <2>1 DEF Process, WorkerCall, Fixed, Singleton
    <3> QED
      BY <1>6, <2>1, <2>2, <2>3, <3>1, <3>2 DEF HasChange
  <2>4. ASSUME calls'[d].pc = "save" PROVE HasChange(d, d)'
    BY <2>1, <2>3, <2>4 DEF RequestsInv, SavedInv
  <2>5. ASSUME calls'[d].pc \in {"answered", "collected"}
        PROVE  /\ d \in stored'[calls'[d].viewset]
               /\ \A e \in CallIds : calls'[e].pc \in Loaded /\ calls'[e].viewset = calls'[d].viewset => HasChange(d, e)'
    <3>1. d \in stored[calls[d].viewset]
      BY <2>1, <2>5 DEF RequestsInv, SavedInv
    <3>2. ASSUME NEW e \in CallIds, calls'[e].pc \in Loaded, calls'[e].viewset = calls'[d].viewset
          PROVE  HasChange(d, e)'
      <4>1. calls[e].pc \in Loaded /\ calls[e].viewset = calls[d].viewset
        BY <1>1, <1>3, <1>4, <2>1, <3>2 DEF Loaded, Past, Fixed
      <4> QED
        BY <2>1, <2>3, <2>5, <4>1 DEF RequestsInv, SavedInv
    <3> QED
      BY <1>2, <2>1, <3>1, <3>2
  <2> QED
    BY <2>4, <2>5
<1> QED
  BY <1>7, <1>8

LEMMA SaveKeepsSaved ==
    ASSUME RequestsInv, NEW c \in CallIds, SaveState(c)
    PROVE  SavedInv'
<1>1. PICK s : /\ ChangeTo(c, s) /\ s.pc = "answered" /\ calls[c].pc = "save"
               /\ s.state = calls[c].state /\ s.ran = calls[c].ran
  BY UsualCall, SaveStateStep
<1>2. /\ app' = app /\ shared' = shared
      /\ stored' = IF Stateful(c)
                   THEN [stored EXCEPT ![calls[c].viewset] =
                            IF Singleton(c) THEN shared[Process(c)][calls[c].viewset] ELSE calls[c].state]
                   ELSE stored
  BY DEF SaveState
<1>3. \A e \in CallIds : Fixed(calls[e], calls'[e])
  BY <1>1, <1>2, ChangedCalls
<1>4. calls'[c] = s /\ \A e \in CallIds \ {c} : calls'[e] = calls[e]
  BY <1>1, <1>2, ChangedCalls
<1>5. StatesTyped /\ calls[c].viewset \in DOMAIN Classes
  BY <1>1 DEF RequestsInv, Sound, Typed, Past
<1>6. \A d, e \in CallIds : HasChange(d, e)' <=> HasChange(d, e)
  BY <1>1, <1>2, <1>3, <1>4 DEF HasChange, Singleton, Process, WorkerCall, Fixed
<1> SUFFICES ASSUME NEW d \in CallIds, Keeps(d)'
             PROVE  /\ calls'[d].pc = "save" => HasChange(d, d)'
                    /\ calls'[d].pc \in {"answered", "collected"} =>
                          /\ d \in stored'[calls'[d].viewset]
                          /\ \A e \in CallIds : calls'[e].pc \in Loaded /\ calls'[e].viewset = calls'[d].viewset
                                => HasChange(d, e)'
  BY DEF SavedInv
<1>7. Keeps(d)
  BY <1>1, <1>3, <1>4, KeepsStays
<1>8. CASE d = c
  <2>1. HasChange(c, c)
    BY <1>1, <1>7, <1>8 DEF RequestsInv, SavedInv
  <2>2. c \in stored'[calls[c].viewset]
    BY <1>2, <1>5, <1>7, <1>8, <2>1 DEF HasChange, Keeps, StatesTyped
  <2>3. ASSUME NEW e \in CallIds, calls'[e].pc \in Loaded PROVE FALSE
    <3>1. e # c
      BY <1>1, <1>4, <2>3 DEF Loaded, Past
    <3>2. Under(c) /\ Under(e)
      BY <1>1, <1>4, <2>3, <3>1 DEF Under, Loaded, Past
    <3> QED
      BY <1>7, <1>8, <3>1, <3>2, AloneUnderWay
  <2> QED
    BY <1>1, <1>3, <1>4, <1>8, <2>2, <2>3 DEF Fixed
<1>9. CASE d # c
  <2>1. calls'[d] = calls[d]
    BY <1>4, <1>9
  <2>2. ASSUME calls'[d].pc = "save" PROVE HasChange(d, d)'
    BY <1>6, <1>7, <2>1, <2>2 DEF RequestsInv, SavedInv
  <2>3. ASSUME calls'[d].pc \in {"answered", "collected"}
        PROVE  /\ d \in stored'[calls'[d].viewset]
               /\ \A e \in CallIds : calls'[e].pc \in Loaded /\ calls'[e].viewset = calls'[d].viewset => HasChange(d, e)'
    <3>1. d \in stored[calls[d].viewset]
      BY <1>7, <2>1, <2>3 DEF RequestsInv, SavedInv
    <3>2. ASSUME NEW e \in CallIds, calls'[e].pc \in Loaded, calls'[e].viewset = calls'[d].viewset
          PROVE  HasChange(d, e)'
      <4>1. calls[e].pc \in Loaded /\ calls[e].viewset = calls[d].viewset
        BY <1>1, <1>3, <1>4, <2>1, <3>2 DEF Loaded, Past, Fixed
      <4> QED
        BY <1>6, <1>7, <2>1, <2>3, <4>1 DEF RequestsInv, SavedInv
    <3>3. d \in stored'[calls[d].viewset]
      <4>1. CASE calls[c].viewset = calls[d].viewset
        <5>1. HasChange(d, c)
          BY <1>1, <1>7, <2>1, <2>3, <4>1 DEF RequestsInv, SavedInv, Loaded, Past
        <5>2. Stateful(c) /\ (Singleton(c) <=> Singleton(d))
          BY <1>7, <4>1 DEF Keeps, Stateful, Singleton
        <5> QED
          BY <1>2, <1>5, <4>1, <5>1, <5>2 DEF HasChange, StatesTyped
      <4>2. CASE calls[c].viewset # calls[d].viewset
        BY <1>2, <1>5, <3>1, <4>2 DEF StatesTyped
      <4> QED
        BY <4>1, <4>2
    <3> QED
      BY <2>1, <3>2, <3>3
  <2> QED
    BY <2>2, <2>3
<1> QED
  BY <1>8, <1>9

(* The answer of a dispatched call is taken: both records change.           *)
LEMMA ResultCalls ==
    ASSUME RequestsInv, NEW c \in CallIds, Result(c)
    PROVE  \E d \in CallIds : \E s, t :
               /\ d # c /\ calls' = [calls EXCEPT ![c] = s, ![d] = t]
               /\ Moves(calls[c], s) /\ Quiet(calls[c], s) /\ Sound(s) /\ Gated(s, app) /\ s.ran = calls[c].ran
               /\ Fixed(calls[d], t) /\ Sound(t) /\ Gated(t, app)
               /\ calls[d].pc = "answered" /\ t.pc = "collected"
               /\ t.ran = calls[d].ran /\ t.state = calls[d].state
               /\ t.user = calls[d].user /\ t.passed = calls[d].passed /\ t.checked = calls[d].checked
<1> DEFINE r == calls[c]
<1>1. r.pc \in {"waiting", "handed"}
  BY DEF Result
<1>2. PICK d \in CallIds :
          /\ calls[d].by = c /\ calls[d].pc = "answered"
          /\ calls' = [With(c, IF r.pc = "handed" THEN [pc |-> "save", answer |-> calls[d].answer]
                               ELSE [pc |-> "running"]) EXCEPT ![d].pc = "collected"]
  BY DEF Result
<1>3. d # c
  BY <1>1, <1>2
<1>4. PICK fields : fields = IF r.pc = "handed" THEN [pc |-> "save", answer |-> calls[d].answer] ELSE [pc |-> "running"]
  OBVIOUS
<1>5. /\ DOMAIN fields = IF r.pc = "handed" THEN {"pc", "answer"} ELSE {"pc"}
      /\ fields.pc = IF r.pc = "handed" THEN "save" ELSE "running"
  BY <1>4
<1>6. PICK s : s = After(r, fields)
  OBVIOUS
<1>7. PICK t : t = [calls[d] EXCEPT !.pc = "collected"]
  OBVIOUS
<1>8. Usual(c) /\ Usual(d)
  BY UsualCall
<1>9. calls' = [calls EXCEPT ![c] = s, ![d] = t]
  <2>1. With(c, fields) = [calls EXCEPT ![c] = s]
    BY <1>6, <1>8, WithIsAfter DEF Usual
  <2>2. calls' = [With(c, fields) EXCEPT ![d].pc = "collected"]
    BY <1>2, <1>4
  <2>3. PICK w : w = [calls EXCEPT ![c] = s]
    OBVIOUS
  <2>4. w[d] = calls[d] /\ calls' = [w EXCEPT ![d].pc = "collected"]
    BY <1>3, <1>8, <2>1, <2>2, <2>3 DEF Usual
  <2>5. calls' = [w EXCEPT ![d] = t]
    BY <1>7, <2>4
  <2> QED
    BY <2>3, <2>5
<1>10. /\ Fixed(r, s) /\ s.topic = r.topic /\ s.follows = r.follows /\ s.asking = r.asking /\ s.kept = r.kept
       /\ s.ran = r.ran /\ s.state = r.state /\ s.user = r.user /\ s.passed = r.passed
       /\ s.checked = r.checked /\ s.seen = r.seen /\ s.key = r.key /\ s.home = r.home /\ s.published = r.published
  BY <1>5, <1>6, AfterFields DEF Fixed
<1>11. s.pc = IF r.pc = "handed" THEN "save" ELSE "running"
  BY <1>5, <1>6, AfterFields
<1>12. Sound(s) /\ Gated(s, app)
  <2>1. s.user \in {r.caller, Nobody, "unread"} /\ s.key \in {r.caller, Nobody, "absent", "deferred"}
    BY <1>8, <1>10 DEF Usual, Sound, Typed
  <2>2. ToTheCaller(r, s.home) /\ ToTheCaller(r, s.published) /\ s.state \subseteq CallIds
    BY <1>8, <1>10 DEF Usual, Sound, Typed
  <2>3. s.ran \in Nat /\ (s.ran > 0 => ~DeferredIn(r)) /\ (s.pc = "running" => s.ran > 0)
    BY <1>1, <1>8, <1>10, <1>11 DEF Usual, Sound, Typed
  <2>4. r.pc \in Past /\ s.pc \in {"save", "running"}
    BY <1>1, <1>11 DEF Past
  <2>5. s.pc \in Past \cup {"answered"} /\ s.pc \notin {"load", "chain", "execute", "handed", "waiting"}
    BY <2>4 DEF Past
  <2>6. Homed(s, app)
    BY <1>8, <1>10, HomedStays DEF Usual, Gated, Fixed
  <2> QED
    BY <1>8, <1>10, <2>1, <2>2, <2>3, <2>4, <2>5, <2>6, Advances DEF Usual
<1>13. Moves(r, s) /\ Quiet(r, s)
  <2>1. r.pc = "handed" => s.ran = 0
    BY <1>8, <1>10 DEF Usual, Sound
  <2> QED
    BY <1>1, <1>10, <1>11, <2>1 DEF Moves, ReadsOnce, Quiet, Loaded, Past
<1>14. DOMAIN calls[d] = DOMAIN NewCall
  BY <1>8 DEF Usual, Sound, Typed
<1>15. /\ t.pc = "collected" /\ t.ran = calls[d].ran /\ t.state = calls[d].state /\ t.user = calls[d].user
       /\ t.passed = calls[d].passed /\ t.checked = calls[d].checked /\ t.seen = calls[d].seen /\ t.key = calls[d].key
       /\ t.home = calls[d].home /\ t.published = calls[d].published /\ t.gates = calls[d].gates
       /\ t.topic = calls[d].topic /\ t.follows = calls[d].follows
       /\ t.asking = calls[d].asking /\ t.kept = calls[d].kept
  BY <1>7, <1>14, FieldsOfACall
<1>16. Fixed(calls[d], t)
  BY <1>7, <1>14, FieldsOfACall DEF Fixed
<1>17. Sound(t) /\ Gated(t, app)
  <2>1. Typed(t)
    BY <1>2, <1>8, <1>15, <1>16 DEF Usual, Sound, Typed, Fixed, Pcs, Past
  <2>2. ToTheCaller(t, t.home) /\ ToTheCaller(t, t.published)
    BY <1>8, <1>15, <1>16 DEF Usual, Fixed, ToTheCaller, Sound
  <2>3. (UserNeeded(t) <=> UserNeeded(calls[d])) /\ (DeferredIn(t) <=> DeferredIn(calls[d]))
    BY <1>16 DEF Fixed, UserNeeded, DeferredIn
  <2>4. Sound(t)
    BY <1>2, <1>8, <1>15, <1>16, <2>1, <2>2, <2>3 DEF Usual, Sound, Fixed, Past
  <2>5. \A i : ServedAt(app, i, t) <=> ServedAt(app, i, calls[d])
    BY <1>16 DEF Fixed, ServedAt, Asked
  <2>6. Homed(t, app)
    BY <1>8, <1>15, <1>16, HomedStays DEF Usual, Gated, Fixed
  <2> QED
    BY <1>2, <1>8, <1>15, <1>16, <2>4, <2>5, <2>6 DEF Usual, Gated, Fixed, Past
<1>18. /\ d # c /\ calls' = [calls EXCEPT ![c] = s, ![d] = t]
       /\ Moves(calls[c], s) /\ Quiet(calls[c], s) /\ Sound(s) /\ Gated(s, app) /\ s.ran = calls[c].ran
       /\ Fixed(calls[d], t) /\ Sound(t) /\ Gated(t, app)
       /\ calls[d].pc = "answered" /\ t.pc = "collected"
       /\ t.ran = calls[d].ran /\ t.state = calls[d].state
       /\ t.user = calls[d].user /\ t.passed = calls[d].passed /\ t.checked = calls[d].checked
  BY <1>2, <1>3, <1>9, <1>10, <1>12, <1>13, <1>15, <1>16, <1>17
<1> QED
  BY <1>18, Zenon

LEMMA ResultKeeps ==
    ASSUME RequestsInv, NEW c \in CallIds, Result(c)
    PROVE  RequestsInv'
<1>0. PICK d \in CallIds : \E s, t :
               /\ d # c /\ calls' = [calls EXCEPT ![c] = s, ![d] = t]
               /\ Moves(calls[c], s) /\ Quiet(calls[c], s) /\ Sound(s) /\ Gated(s, app) /\ s.ran = calls[c].ran
               /\ Fixed(calls[d], t) /\ Sound(t) /\ Gated(t, app)
               /\ calls[d].pc = "answered" /\ t.pc = "collected"
               /\ t.ran = calls[d].ran /\ t.state = calls[d].state
               /\ t.user = calls[d].user /\ t.passed = calls[d].passed /\ t.checked = calls[d].checked
  BY ResultCalls, Zenon
<1>1. PICK s, t :
               /\ d # c /\ calls' = [calls EXCEPT ![c] = s, ![d] = t]
               /\ Moves(calls[c], s) /\ Quiet(calls[c], s) /\ Sound(s) /\ Gated(s, app) /\ s.ran = calls[c].ran
               /\ Fixed(calls[d], t) /\ Sound(t) /\ Gated(t, app)
               /\ calls[d].pc = "answered" /\ t.pc = "collected"
               /\ t.ran = calls[d].ran /\ t.state = calls[d].state
               /\ t.user = calls[d].user /\ t.passed = calls[d].passed /\ t.checked = calls[d].checked
  BY <1>0, Zenon
<1>2. UNCHANGED <<app, sessions, stored, shared, troubles>>
  BY DEF Result
<1>3. /\ DOMAIN calls' = CallIds /\ calls'[c] = s /\ calls'[d] = t
      /\ \A e \in CallIds \ {c, d} : calls'[e] = calls[e]
  BY <1>1 DEF RequestsInv
<1>4. \A e \in CallIds : Sound(calls'[e]) /\ Gated(calls'[e], app')
  BY <1>1, <1>2, <1>3 DEF RequestsInv
<1>5. \A e \in CallIds : Fixed(calls[e], calls'[e]) /\ calls'[e].ran = calls[e].ran /\ calls'[e].state = calls[e].state
  BY <1>1, <1>3 DEF RequestsInv, Sound, Typed, Fixed, Moves, Quiet
<1>6. ASSUME NEW e \in CallIds
      PROVE  /\ calls'[e].pc \notin {"idle", "answered", "collected"} => calls[e].pc \notin {"idle", "answered", "collected"}
             /\ calls[e].pc # "idle" => calls'[e].pc # "idle"
             /\ calls'[e].pc \in Loaded => calls[e].pc \in Loaded
             /\ calls'[e].pc = "save" => (calls[e].pc = "save" \/ calls'[e].ran = 0)
             /\ calls'[e].pc \in {"answered", "collected"} =>
                    (calls[e].pc \in {"answered", "collected"} \/ calls'[e].ran = 0)
  <2>1. CASE e = c
    BY <1>1, <1>3, <2>1 DEF Moves, Quiet
  <2>2. CASE e = d
    BY <1>1, <1>3, <2>2 DEF Loaded, Past
  <2>3. CASE e \notin {c, d}
    BY <1>3, <2>3
  <2> QED
    BY <2>1, <2>2, <2>3
<1>7. ApartInv'
  <2> SUFFICES ASSUME NEW x \in CallIds, NEW y \in CallIds, x # y, Under(x)', Under(y)', calls'[x].alone
               PROVE  Related(x, y)'
    BY DEF ApartInv
  <2>1. Related(x, y)
    <3>1. Under(x) /\ Under(y) /\ calls[x].alone
      BY <1>5, <1>6 DEF Under, Fixed
    <3> QED
      BY <3>1 DEF RequestsInv, ApartInv
  <2> QED
    BY <1>5, <2>1 DEF Related, Fixed
<1>8. ByInv'
  <2> SUFFICES ASSUME NEW x \in CallIds, calls'[x].by # 0
               PROVE  DispatchedBy(calls'[x], calls'[calls'[x].by])
    BY DEF ByInv
  <2>1. PICK b : b = calls[x].by
    OBVIOUS
  <2>2. calls'[x].by = b /\ b \in CallIds
    BY <1>5, <2>1 DEF Fixed, RequestsInv, Sound, Typed
  <2>3. DispatchedBy(calls[x], calls[b])
    BY <1>5, <2>1, <2>2 DEF RequestsInv, ByInv
  <2>4. Fixed(calls[x], calls'[x]) /\ Fixed(calls[b], calls'[b]) /\ calls'[b].ran = calls[b].ran
    BY <1>5, <2>2
  <2>5. calls[b].pc \in {"handed", "save", "answered", "collected"} => calls'[b].pc \in {"handed", "save", "answered", "collected"}
    BY <1>1, <1>3, <2>2 DEF Moves
  <2>6. calls'[b].pc # "idle"
    BY <1>6, <2>2, <2>3 DEF DispatchedBy
  <2>7. DeferredIn(calls[b]) => DeferredIn(calls'[b])
    BY <2>4 DEF DeferredIn, Fixed
  <2>8. DispatchedBy(calls'[x], calls'[b])
    BY <2>3, <2>4, <2>5, <2>6, <2>7 DEF DispatchedBy, Fixed
  <2> QED
    BY <2>2, <2>8
<1>9. SavedInv'
  <2> SUFFICES ASSUME NEW x \in CallIds, Keeps(x)'
               PROVE  /\ calls'[x].pc = "save" => HasChange(x, x)'
                      /\ calls'[x].pc \in {"answered", "collected"} =>
                            /\ x \in stored'[calls'[x].viewset]
                            /\ \A e \in CallIds : calls'[e].pc \in Loaded /\ calls'[e].viewset = calls'[x].viewset
                                  => HasChange(x, e)'
    BY DEF SavedInv
  <2>1. Keeps(x)
    BY <1>5, KeepsStays
  <2>2. \A e \in CallIds : HasChange(x, e) => HasChange(x, e)'
    BY <1>2, <1>5 DEF HasChange, Fixed, Singleton, Process, WorkerCall
  <2>3. calls'[x].ran # 0
    BY <2>1, <1>5 DEF Keeps
  <2>4. CASE calls'[x].pc = "save"
    BY <1>6, <2>1, <2>2, <2>3, <2>4 DEF RequestsInv, SavedInv
  <2>5. CASE calls'[x].pc \in {"answered", "collected"}
    <3>1. calls[x].pc \in {"answered", "collected"}
      BY <1>6, <2>3, <2>5
    <3>2. x \in stored'[calls'[x].viewset]
      BY <1>2, <1>5, <2>1, <3>1 DEF RequestsInv, SavedInv, Fixed
    <3>3. \A e \in CallIds : calls'[e].pc \in Loaded /\ calls'[e].viewset = calls'[x].viewset => HasChange(x, e)
      BY <1>5, <1>6, <2>1, <3>1 DEF RequestsInv, SavedInv, Fixed
    <3> QED
      BY <2>2, <2>5, <3>2, <3>3
  <2> QED
    BY <2>4, <2>5
<1>10. StatesTyped'
  BY <1>2 DEF RequestsInv, StatesTyped
<1>11. LinkInv'
  <2>1. ASSUME NEW e \in CallIds
        PROVE  /\ calls[e].pc \notin {"gates", "execute"} =>
                     /\ calls'[e].user = calls[e].user /\ calls'[e].passed = calls[e].passed
                     /\ calls'[e].checked = calls[e].checked
               /\ \/ calls'[e].user = calls[e].user
                  \/ /\ calls[e].user = "unread"
                     /\ calls'[e].user = IF calls[e].caller \in sessions THEN calls[e].caller ELSE Nobody
    <3>1. CASE e = c
      BY <1>1, <1>3, <3>1 DEF Moves, ReadsOnce
    <3>2. CASE e # c
      BY <1>1, <1>3, <3>2
    <3> QED
      BY <3>1, <3>2
  <2>2. ASSUME NEW e \in CallIds PROVE NobodyIsGone(calls'[e], sessions')
    <3>1. NobodyIsGone(calls[e], sessions) /\ Nobody \notin sessions /\ calls'[e].caller = calls[e].caller
      BY <1>5 DEF RequestsInv, LinkInv, Fixed
    <3> QED
      BY <1>2, <2>1, <3>1 DEF NobodyIsGone
  <2>3. ASSUME NEW x \in CallIds, calls'[x].by # 0
        PROVE  Linked(calls'[x], calls'[calls'[x].by], app', sessions')
    <3>1. PICK b : b = calls[x].by
      OBVIOUS
    <3>2. calls'[x].by = b /\ b \in CallIds /\ b # 0
      BY <1>5, <2>3, <3>1 DEF Fixed, RequestsInv, Sound, Typed
    <3>3. DispatchedBy(calls[x], calls[b]) /\ Linked(calls[x], calls[b], app, sessions)
      BY <3>1, <3>2 DEF RequestsInv, ByInv, LinkInv
    <3>4. Same(calls[x], calls'[x]) /\ Same(calls[b], calls'[b])
      BY <1>5, <3>2 DEF Same, Fixed
    <3>5. calls[b].pc \notin {"gates", "execute"}
      <4>1. calls[b].pc \in {"gates", "execute"} => calls[b].ran = 0
        BY <3>2 DEF RequestsInv, Sound
      <4> QED
        BY <3>3, <4>1 DEF DispatchedBy
    <3>6. NobodyIsGone(calls[b], sessions) /\ calls[b].user \in {calls[b].caller, Nobody, "unread"}
      BY <3>2 DEF RequestsInv, LinkInv, Sound, Typed
    <3>7. Linked(calls'[x], calls'[b], app, sessions)
      BY <2>1, <3>2, <3>3, <3>4, <3>5, <3>6, LinkedStays
    <3> QED
      BY <1>2, <3>2, <3>7
  <2> QED
    BY <1>2, <2>2, <2>3 DEF LinkInv, RequestsInv
<1> QED
  BY <1>2, <1>3, <1>4, <1>7, <1>8, <1>9, <1>10, <1>11 DEF RequestsInv

------------------------------------------------------------------------------
(* A call begins                                                            *)

(* Another call, as a call that begins leaves it.                           *)
Lasts(r, s) ==
    /\ DOMAIN s = DOMAIN NewCall
    /\ s.viewset = r.viewset /\ s.action = r.action /\ s.by = r.by /\ s.relayed = r.relayed /\ s.parents = r.parents
    /\ s.ran = r.ran /\ s.state = r.state
    /\ Same(r, s) /\ s.passed = r.passed /\ s.checked = r.checked
    /\ s.user = r.user \/ (r.pc = "execute" /\ r.by = 0)
    /\ s.alone => r.alone
    /\ s.pc = r.pc \/ (r.pc \in {"execute", "running"} /\ s.pc \in {"handed", "waiting"})

Apart(n, e) == ~Under(e) \/ (n.relayed /\ e = n.by)

(* n is the record of the call that begins, d.                              *)
Begins(d, n) ==
    /\ calls[d].pc = "idle" /\ DOMAIN calls' = CallIds /\ calls'[d] = n
    /\ Sound(n) /\ Gated(n, app) /\ n.ran = 0 /\ n.pc \in {"answered", "gates", "load"}
    /\ \A e \in CallIds \ {d} : Lasts(calls[e], calls'[e]) /\ Sound(calls'[e]) /\ Gated(calls'[e], app)
    /\ n.pc # "answered" =>
          /\ n.alone => \A e \in CallIds : Apart(n, e)
          /\ \A e \in CallIds \ {d} : calls'[e].alone => Apart(n, e)
    /\ n.by # 0 => n.by # d /\ DispatchedBy(n, calls'[n.by]) /\ Linked(n, calls'[n.by], app, sessions)
    /\ \A e \in CallIds : NobodyIsGone(calls'[e], sessions)

LEMMA BeginsKeepsApart ==
    ASSUME RequestsInv, NEW d \in CallIds, NEW n, Begins(d, n)
    PROVE  ApartInv'
<1> SUFFICES ASSUME NEW x \in CallIds, NEW y \in CallIds, x # y, Under(x)', Under(y)', calls'[x].alone
             PROVE  Related(x, y)'
  BY DEF ApartInv
<1>1. \A e \in CallIds \ {d} : Under(e)' => Under(e)
  BY DEF Begins, Lasts, Under
<1>2. CASE x = d
  <2>1. n.pc # "answered" /\ n.alone /\ Under(y)
    BY <1>1, <1>2 DEF Begins, Under
  <2>2. n.relayed /\ y = n.by
    BY <2>1 DEF Begins, Apart
  <2> QED
    BY <1>2, <2>2 DEF Begins, Related
<1>3. CASE y = d
  <2>1. n.pc # "answered" /\ Under(x)
    BY <1>1, <1>3 DEF Begins, Under
  <2>2. n.relayed /\ x = n.by
    BY <1>3, <2>1 DEF Begins, Apart
  <2> QED
    BY <1>3, <2>2 DEF Begins, Related
<1>4. CASE x # d /\ y # d
  <2>1. Under(x) /\ Under(y) /\ calls[x].alone
    BY <1>1, <1>4 DEF Begins, Lasts
  <2>2. Related(x, y)
    BY <2>1 DEF RequestsInv, ApartInv
  <2> QED
    BY <1>4, <2>2 DEF Related, Begins, Lasts
<1> QED
  BY <1>2, <1>3, <1>4

LEMMA BeginsKeepsBy ==
    ASSUME RequestsInv, NEW d \in CallIds, NEW n, Begins(d, n)
    PROVE  ByInv'
<1> SUFFICES ASSUME NEW x \in CallIds, calls'[x].by # 0
             PROVE  DispatchedBy(calls'[x], calls'[calls'[x].by])
  BY DEF ByInv
<1>1. CASE x = d
  BY <1>1 DEF Begins
<1>2. CASE x # d
  <2>1. PICK b : b = calls[x].by
    OBVIOUS
  <2>2. Lasts(calls[x], calls'[x])
    BY <1>2 DEF Begins
  <2>3. calls'[x].by = b /\ b \in CallIds
    BY <2>1, <2>2 DEF Lasts, RequestsInv, Sound, Typed
  <2>4. DispatchedBy(calls[x], calls[b])
    BY <2>1, <2>3 DEF RequestsInv, ByInv
  <2>5. b # d
    BY <2>4 DEF DispatchedBy, Begins
  <2>6. Lasts(calls[b], calls'[b])
    BY <2>3, <2>5 DEF Begins
  <2>7. calls'[b].pc # "idle" /\ (calls'[b].ran = 0 => calls'[b].pc \in {"handed", "save", "answered", "collected"})
    BY <2>4, <2>6 DEF Lasts, DispatchedBy
  <2>8. DeferredIn(calls[b]) => DeferredIn(calls'[b])
    BY <2>6 DEF DeferredIn, Lasts
  <2>9. DispatchedBy(calls'[x], calls'[b])
    BY <2>2, <2>4, <2>6, <2>7, <2>8 DEF DispatchedBy, Lasts
  <2> QED
    BY <2>3, <2>9
<1> QED
  BY <1>1, <1>2

LEMMA BeginsKeepsLink ==
    ASSUME RequestsInv, NEW d \in CallIds, NEW n, Begins(d, n), UNCHANGED <<app, sessions>>
    PROVE  LinkInv'
<1>1. ASSUME NEW x \in CallIds, calls'[x].by # 0
      PROVE  Linked(calls'[x], calls'[calls'[x].by], app, sessions)
  <2>1. CASE x = d
    BY <1>1, <2>1 DEF Begins
  <2>2. CASE x # d
    <3>1. PICK b : b = calls[x].by
      OBVIOUS
    <3>2. Lasts(calls[x], calls'[x])
      BY <2>2 DEF Begins
    <3>3. calls'[x].by = b /\ b \in CallIds /\ b # 0
      BY <1>1, <3>1, <3>2 DEF Lasts, RequestsInv, Sound, Typed
    <3>4. DispatchedBy(calls[x], calls[b]) /\ Linked(calls[x], calls[b], app, sessions)
      BY <3>1, <3>3 DEF RequestsInv, ByInv, LinkInv
    <3>5. b # d
      BY <3>4 DEF DispatchedBy, Begins
    <3>6. Lasts(calls[b], calls'[b])
      BY <3>3, <3>5 DEF Begins
    <3>7. calls[b].pc # "execute"
      <4>1. calls[b].pc = "execute" => calls[b].ran = 0
        BY <3>3 DEF RequestsInv, Sound
      <4> QED
        BY <3>4, <4>1 DEF DispatchedBy
    <3>8. calls'[b].user = calls[b].user /\ calls'[x].user = calls[x].user
      BY <3>1, <3>2, <3>3, <3>6, <3>7 DEF Lasts
    <3>9. NobodyIsGone(calls[b], sessions) /\ calls[b].user \in {calls[b].caller, Nobody, "unread"}
      BY <3>3 DEF RequestsInv, LinkInv, Sound, Typed
    <3>10. Linked(calls'[x], calls'[b], app, sessions)
      BY <3>2, <3>4, <3>6, <3>8, <3>9, LinkedStays DEF Lasts
    <3> QED
      BY <3>3, <3>10
  <2> QED
    BY <2>1, <2>2
<1>2. Nobody \notin sessions /\ \A e \in CallIds : NobodyIsGone(calls'[e], sessions)
  BY DEF RequestsInv, LinkInv, Begins
<1> QED
  BY <1>1, <1>2 DEF LinkInv

LEMMA BeginsKeepsSaved ==
    ASSUME RequestsInv, NEW d \in CallIds, NEW n, Begins(d, n), UNCHANGED <<app, stored, shared>>
    PROVE  SavedInv'
<1> SUFFICES ASSUME NEW x \in CallIds, Keeps(x)'
             PROVE  /\ calls'[x].pc = "save" => HasChange(x, x)'
                    /\ calls'[x].pc \in {"answered", "collected"} =>
                          /\ x \in stored'[calls'[x].viewset]
                          /\ \A e \in CallIds : calls'[e].pc \in Loaded /\ calls'[e].viewset = calls'[x].viewset
                                => HasChange(x, e)'
  BY DEF SavedInv
<1>1. x # d
  BY DEF Keeps, Begins
<1>2. Lasts(calls[x], calls'[x])
  BY <1>1 DEF Begins
<1>3. Keeps(x) /\ (Singleton(x)' <=> Singleton(x))
  BY <1>2 DEF Keeps, Lasts, Stateful, Singleton
<1>4. ASSUME NEW e \in CallIds, e # d, HasChange(x, e)
      PROVE  HasChange(x, e)'
  <2>1. Lasts(calls[e], calls'[e])
    BY <1>4 DEF Begins
  <2>2. Process(e)' = Process(e) /\ calls'[e].state = calls[e].state /\ calls'[x].viewset = calls[x].viewset
    BY <1>2, <2>1 DEF Process, WorkerCall, Lasts
  <2> QED
    BY <1>3, <1>4, <2>2 DEF HasChange
<1>5. CASE calls'[x].pc = "save"
  <2>1. HasChange(x, x)
    BY <1>2, <1>3, <1>5 DEF RequestsInv, SavedInv, Lasts
  <2> QED
    BY <1>1, <1>4, <1>5, <2>1
<1>6. CASE calls'[x].pc \in {"answered", "collected"}
  <2>1. calls[x].pc \in {"answered", "collected"} /\ calls'[x].viewset = calls[x].viewset
    BY <1>2, <1>6 DEF Lasts
  <2>2. x \in stored'[calls'[x].viewset]
    BY <1>3, <2>1 DEF RequestsInv, SavedInv
  <2>3. ASSUME NEW e \in CallIds, calls'[e].pc \in Loaded, calls'[e].viewset = calls'[x].viewset
        PROVE  HasChange(x, e)'
    <3>1. e # d
      BY <2>3 DEF Begins, Loaded, Past
    <3>2. Lasts(calls[e], calls'[e])
      BY <3>1 DEF Begins
    <3>3. calls[e].pc \in Loaded /\ calls[e].viewset = calls[x].viewset
      BY <2>1, <2>3, <3>2 DEF Lasts, Loaded, Past
    <3>4. HasChange(x, e)
      BY <1>3, <2>1, <3>3 DEF RequestsInv, SavedInv
    <3> QED
      BY <1>4, <3>1, <3>4
  <2> QED
    BY <1>6, <2>2, <2>3
<1> QED
  BY <1>5, <1>6

LEMMA BeginsKeeps ==
    ASSUME RequestsInv, NEW d \in CallIds, NEW n, Begins(d, n), UNCHANGED <<app, sessions, stored, shared, troubles>>
    PROVE  RequestsInv'
<1>1. StatesTyped'
  BY DEF RequestsInv, StatesTyped
<1>2. DOMAIN calls' = CallIds /\ \A e \in CallIds : Sound(calls'[e]) /\ Gated(calls'[e], app')
  BY DEF Begins
<1>3. ApartInv' /\ ByInv' /\ SavedInv' /\ LinkInv'
  BY BeginsKeepsApart, BeginsKeepsBy, BeginsKeepsSaved, BeginsKeepsLink
<1> QED
  BY <1>1, <1>2, <1>3 DEF RequestsInv

(* A call that is under way with others is no longer alone.                 *)
LEMMA NoLongerAlone ==
    ASSUME NEW r, NEW s, NEW a, NEW b \in BOOLEAN, Sound(r), Gated(r, a), s = [r EXCEPT !.alone = @ /\ b]
    PROVE  /\ Lasts(r, s) /\ Sound(s) /\ Gated(s, a) /\ (s.alone => b)
           /\ s.user = r.user /\ s.key = r.key /\ s.pc = r.pc /\ s.caller = r.caller
<1>1. DOMAIN r = DOMAIN NewCall /\ r.alone \in BOOLEAN
  BY DEF Sound, Typed
<1>2. /\ DOMAIN s = DOMAIN NewCall
      /\ s.pc = r.pc /\ s.viewset = r.viewset /\ s.action = r.action /\ s.transport = r.transport
      /\ s.caller = r.caller /\ s.at = r.at /\ s.gates = r.gates /\ s.user = r.user /\ s.state = r.state
      /\ s.parents = r.parents /\ s.passed = r.passed /\ s.checked = r.checked /\ s.seen = r.seen
      /\ s.ran = r.ran /\ s.by = r.by /\ s.relayed = r.relayed /\ s.key = r.key /\ s.home = r.home
      /\ s.published = r.published /\ s.method = r.method /\ s.topic = r.topic /\ s.follows = r.follows
      /\ s.asking = r.asking /\ s.kept = r.kept
  BY <1>1, FieldsOfACall
<1>3. s.alone = (r.alone /\ b)
  BY <1>1, FieldsOfACall
<1>4. s.alone \in BOOLEAN /\ (s.alone => r.alone) /\ (s.alone => b)
  BY <1>3
<1>5. Typed(s)
  BY <1>2, <1>4 DEF Sound, Typed
<1>6. ToTheCaller(s, s.home) /\ ToTheCaller(s, s.published)
  BY <1>2 DEF Sound, ToTheCaller
<1>7. (UserNeeded(s) <=> UserNeeded(r)) /\ (DeferredIn(s) <=> DeferredIn(r))
  BY <1>2 DEF UserNeeded, DeferredIn
<1>8. Sound(s)
  BY <1>2, <1>5, <1>6, <1>7 DEF Sound
<1>9. \A i : ServedAt(a, i, s) <=> ServedAt(a, i, r)
  BY <1>2 DEF ServedAt, Asked
<1>10. Gated(s, a)
  <2>1. Homed(s, a)
    <3>1. s.published \in {<<>>, r.home, r.published}
      BY <1>2
    <3>2. Homed(r, a)
      BY DEF Gated
    <3> QED
      BY <1>2, <3>1, <3>2, HomedStays
  <2> QED
    BY <1>2, <1>9, <2>1, SMTT(60) DEF Gated
<1> QED
  BY <1>2, <1>4, <1>8, <1>10 DEF Lasts, Same

LEMMA OverlappingCalls ==
    ASSUME NEW d \in CallIds, NEW started, NEW o, o = Overlapping(d, started)
    PROVE  /\ DOMAIN o = CallIds
           /\ o[d] = [started EXCEPT !.alone = \A e \in CallIds : Apart(started, e)]
           /\ \A e \in CallIds \ {d} : o[e] = [calls[e] EXCEPT !.alone = @ /\ Apart(started, e)]
BY Zenon DEF Overlapping, Apart

(* The calls that were under way, when another one has begun.               *)
LEMMA OthersLast ==
    ASSUME RequestsInv, NEW d \in CallIds, NEW started, NEW o, o = Overlapping(d, started), NEW e \in CallIds \ {d}
    PROVE  /\ Lasts(calls[e], o[e]) /\ Sound(o[e]) /\ Gated(o[e], app)
           /\ o[e].alone => Apart(started, e)
           /\ o[e].user = calls[e].user /\ o[e].key = calls[e].key /\ o[e].pc = calls[e].pc
           /\ o[e].caller = calls[e].caller
<1>1. PICK b : b = Apart(started, e)
  OBVIOUS
<1>2. b \in BOOLEAN
  BY <1>1 DEF Apart
<1>3. o[e] = [calls[e] EXCEPT !.alone = @ /\ b]
  <2>1. o[e] = [calls[e] EXCEPT !.alone = @ /\ Apart(started, e)]
    BY Zenon DEF Overlapping, Apart
  <2> QED
    BY <1>1, <2>1
<1>4. Sound(calls[e]) /\ Gated(calls[e], app)
  BY DEF RequestsInv
<1> QED
  BY <1>1, <1>2, <1>3, <1>4, NoLongerAlone

(* What the record of a call that begins has of a new one.                  *)
Fresh(n, a) ==
    /\ DOMAIN n = DOMAIN NewCall /\ n.pc \in {"answered", "gates", "load"}
    /\ n.caller \in Callers /\ n.by \in CallIds \cup {0} /\ n.ran = 0 /\ n.state = {}
    /\ n.alone \in BOOLEAN /\ n.relayed \in BOOLEAN
    /\ n.user \in {n.caller, Nobody, "unread"} /\ n.key \in {n.caller, Nobody, "absent", "deferred"}
    /\ n.checked = "unread" /\ n.seen = "unread" /\ n.home = <<>> /\ n.published = <<>>
    /\ n.pc # "answered" => n.viewset \in DOMAIN Classes /\ n.action \in Actions
    /\ n.pc = "load" => n.by # 0
    /\ n.parents \in Seq((DOMAIN Classes) \X Actions) /\ (n.by = 0 => n.parents = <<>>)
    /\ n.pc = "gates" =>
          \E i \in DOMAIN a.places :
              /\ ServedAt(a, i, n) /\ a.places[i].gates \in Seq(Range(a.places[i].gates))
              /\ n.gates = a.places[i].gates /\ n.passed = <<>>
    /\ n.parents = <<>> /\ n.topic # <<>> /\ HasOnePath(n.viewset, n.action) => AtHome(a, n.viewset, n.topic)
    /\ n.follows = {} /\ n.asking = NotAsking /\ n.kept = {} /\ (n.pc = "gates" => n.user = "unread")

LEMMA FreshIsSound ==
    ASSUME NEW n, NEW a, Fresh(n, a)
    PROVE  Sound(n) /\ Gated(n, a)
<1>1. Typed(n)
  BY DEF Fresh, Typed, Pcs, Past
<1>2. ToTheCaller(n, n.home) /\ ToTheCaller(n, n.published)
  BY DEF Fresh, ToTheCaller
<1>3. Sound(n)
  BY <1>1, <1>2 DEF Fresh, Sound, Past
<1>4. ASSUME n.pc = "gates"
      PROVE  \E i \in DOMAIN a.places :
                 /\ ServedAt(a, i, n)
                 /\ \E k \in 0..Len(a.places[i].gates) :
                       /\ n.gates = SubSeq(a.places[i].gates, k + 1, Len(a.places[i].gates))
                       /\ n.passed = Checks(a.places[i].gates, k)
  <2>1. PICK i \in DOMAIN a.places :
            /\ ServedAt(a, i, n) /\ a.places[i].gates \in Seq(Range(a.places[i].gates))
            /\ n.gates = a.places[i].gates /\ n.passed = <<>>
    BY <1>4 DEF Fresh
  <2>2. PICK g : g = a.places[i].gates
    OBVIOUS
  <2>3. g \in Seq(Range(g))
    BY <2>1, <2>2
  <2>4. g = SubSeq(g, 0 + 1, Len(g)) /\ 0 \in 0..Len(g)
    BY <2>3
  <2>5. Checks(g, 0) = <<>>
    BY DEF Checks
  <2>6. \E k \in 0..Len(g) : n.gates = SubSeq(g, k + 1, Len(g)) /\ n.passed = Checks(g, k)
    BY <2>1, <2>2, <2>4, <2>5
  <2> QED
    BY <2>1, <2>2, <2>6
<1>5. Gated(n, a)
  <2>1. Homed(n, a)
    BY DEF Fresh, Homed, EventsAtHome, NotAsking
  <2> QED
    BY <1>4, <2>1 DEF Fresh, Gated, Past
<1> QED
  BY <1>3, <1>5

(* What a request is served by, and with which route.                       *)
LEMMA ServedFinds ==
    ASSUME NEW a \in Apps, NEW request \in RequestKinds, Served(a.places, request) # 0
    PROVE  LET i == Served(a.places, request)
               route == RouteAt(a.places[i], request)
           IN /\ i \in DOMAIN a.places /\ route \in RoutesAt(a.places[i]) /\ Serves(a.places[i], route, request)
              /\ route.action \in Actions
              /\ \A j \in DOMAIN a.places :
                    (\E other \in RoutesAt(a.places[j]) : Serves(a.places[j], other, request)) => i <= j
<1>1. PICK full : full = {i \in DOMAIN a.places : \E route \in RoutesAt(a.places[i]) : Serves(a.places[i], route, request)}
  OBVIOUS
<1>2. full # {} /\ Served(a.places, request) = FirstIn(full)
  BY <1>1 DEF Served
<1>3. full \in SUBSET Nat
  BY <1>1, PlaceSound
<1>4. PICK i : i = Served(a.places, request)
  OBVIOUS
<1>5. i \in full /\ \A j \in full : i <= j
  BY <1>2, <1>3, <1>4, FirstInExists
<1>6. PICK place : place = a.places[i]
  OBVIOUS
<1>7. PICK routes : routes = Classes[place.viewset].routes
  OBVIOUS
<1>8. place.viewset \in DOMAIN Classes /\ routes \in Seq(Range(routes))
  BY <1>1, <1>5, <1>6, <1>7, PlaceHolds, RoutesAssumption
<1>9. PICK S : S = {j \in DOMAIN routes : Serves(place, routes[j], request)}
  OBVIOUS
<1>10. PICK k : k = FirstIn(S)
  OBVIOUS
<1>11. k \in S
  <2>1. PICK other \in Range(routes) : Serves(place, other, request)
    BY <1>1, <1>5, <1>6, <1>7 DEF RoutesAt
  <2>2. PICK n \in DOMAIN routes : other = routes[n]
    BY <2>1 DEF Range
  <2>3. S # {} /\ S \in SUBSET Nat
    BY <1>8, <1>9, <2>1, <2>2
  <2> QED
    BY <1>10, <2>3, FirstInExists
<1>12. PICK route : route = RouteAt(place, request) /\ route = routes[k]
  BY <1>7, <1>9, <1>10 DEF RouteAt
<1>13. route \in RoutesAt(place) /\ Serves(place, route, request)
  BY <1>7, <1>9, <1>11, <1>12 DEF RoutesAt, Range
<1>14. route.action \in Actions
  BY <1>7, <1>8, <1>13 DEF Actions, RoutedActions, RoutesAt
<1>15. \A j \in DOMAIN a.places : (\E other \in RoutesAt(a.places[j]) : Serves(a.places[j], other, request)) => i <= j
  BY <1>1, <1>5
<1> QED
  BY <1>1, <1>4, <1>5, <1>6, <1>12, <1>13, <1>14, <1>15

LEMMA UnreadIsNotNobody == "unread" # Nobody
BY RequestsAssumption DEF Callers

LEMMA ArriveBegins ==
    ASSUME RequestsInv, NEW d \in CallIds, NEW request \in RequestKinds, Arrive(d, request)
    PROVE  \E n : Begins(d, n)
<1> DEFINE arrived == [NewCall EXCEPT !.caller = request.caller, !.at = request.path, !.transport = request.transport,
                                      !.method = request.method]
<1>1. PICK i : i = Served(app.places, request)
  OBVIOUS
<1>2. calls[d].pc = "idle"
  BY DEF Arrive, NextCall
<1>3. PICK a : a = arrived
  OBVIOUS
<1>4. /\ DOMAIN a = DOMAIN NewCall /\ a.caller = request.caller /\ a.at = request.path /\ a.transport = request.transport
      /\ a.method = request.method /\ a.by = 0 /\ a.ran = 0 /\ a.state = {} /\ a.alone = TRUE /\ a.relayed = FALSE
      /\ a.user = "unread" /\ a.key = "absent" /\ a.checked = "unread" /\ a.seen = "unread" /\ a.home = <<>>
      /\ a.published = <<>> /\ a.parents = <<>> /\ a.passed = <<>> /\ a.topic = <<>> /\ a.follows = {}
      /\ a.asking = NotAsking /\ a.kept = {}
  BY <1>3 DEF NewCall
<1>5. request.caller \in Callers
  BY DEF Callers
<1>6. CASE i = 0
  <2>1. PICK n : n = [a EXCEPT !.pc = "answered", !.answer = Unserved(app.places, request)]
    OBVIOUS
  <2>2. calls' = [calls EXCEPT ![d] = n]
    BY <1>1, <1>3, <1>6, <2>1 DEF Arrive
  <2>3. /\ DOMAIN n = DOMAIN NewCall /\ n.pc = "answered" /\ n.caller = a.caller /\ n.by = 0 /\ n.ran = 0 /\ n.state = {}
        /\ n.alone = TRUE /\ n.relayed = FALSE /\ n.user = "unread" /\ n.key = "absent" /\ n.checked = "unread"
        /\ n.seen = "unread" /\ n.home = <<>> /\ n.published = <<>> /\ n.parents = <<>> /\ n.topic = <<>> /\ n.follows = {}
        /\ n.asking = NotAsking /\ n.kept = {}
    BY <1>4, <2>1, FieldsOfACall
  <2>4. n.parents \in Seq((DOMAIN Classes) \X Actions)
    BY <2>3
  <2>5. n.alone \in BOOLEAN /\ n.relayed \in BOOLEAN
    BY <2>3
  <2>6. n.caller \in Callers /\ n.by \in CallIds \cup {0}
    BY <1>4, <1>5, <2>3
  <2>7. Sound(n) /\ Gated(n, app)
    <3>1. n.user \in {n.caller, Nobody, "unread"} /\ n.key \in {n.caller, Nobody, "absent", "deferred"}
      BY <2>3
    <3>2. n.pc \in {"answered", "gates", "load"} /\ ~(n.pc # "answered") /\ n.pc # "load" /\ n.pc # "gates"
      BY <2>3
    <3>3. Fresh(n, app)
      BY <2>3, <2>4, <2>5, <2>6, <3>1, <3>2 DEF Fresh
    <3> QED
      BY <3>3, FreshIsSound
  <2>8. \A e \in CallIds \ {d} : calls'[e] = calls[e] /\ Lasts(calls[e], calls[e])
    BY <2>2 DEF RequestsInv, Sound, Typed, Lasts, Same
  <2>9. DOMAIN calls' = CallIds /\ calls'[d] = n
    BY <2>2 DEF RequestsInv
  <2>10. \A e \in CallIds : NobodyIsGone(calls'[e], sessions)
    BY <2>3, <2>8, <2>9, UnreadIsNotNobody DEF RequestsInv, LinkInv, NobodyIsGone
  <2>11. Begins(d, n)
    BY <1>2, <2>3, <2>7, <2>8, <2>9, <2>10 DEF Begins, RequestsInv
  <2> QED
    BY <2>11
<1>7. CASE i # 0
  <2> DEFINE route == RouteAt(app.places[i], request)
  <2>1. /\ i \in DOMAIN app.places /\ route \in RoutesAt(app.places[i]) /\ Serves(app.places[i], route, request)
        /\ route.action \in Actions
        /\ \A j \in DOMAIN app.places :
              (\E other \in RoutesAt(app.places[j]) : Serves(app.places[j], other, request)) => i <= j
    <3>1. app \in Apps /\ Served(app.places, request) # 0
      BY <1>1, <1>7 DEF RequestsInv
    <3> QED
      BY <1>1, <3>1, ServedFinds
  <2>2. PICK st : st = [a EXCEPT !.pc = "gates", !.gates = app.places[i].gates, !.viewset = app.places[i].viewset,
                               !.action = route.action]
    OBVIOUS
  <2>3. calls' = Overlapping(d, st)
    BY <1>1, <1>3, <1>7, <2>2 DEF Arrive
  <2> HIDE DEF route
  <2>4. PICK b : b = \A e \in CallIds : Apart(st, e)
    OBVIOUS
  <2>5. b \in BOOLEAN
    BY <2>4
  <2>6. PICK n : n = [st EXCEPT !.alone = b]
    OBVIOUS
  <2>7. DOMAIN calls' = CallIds /\ calls'[d] = n
    BY <2>3, <2>4, <2>6, OverlappingCalls
  <2>8. /\ DOMAIN n = DOMAIN NewCall /\ n.pc = "gates" /\ n.caller = a.caller /\ n.at = a.at /\ n.transport = a.transport
        /\ n.method = a.method /\ n.by = 0 /\ n.ran = 0 /\ n.state = {} /\ n.alone = b /\ n.relayed = FALSE
        /\ n.user = "unread" /\ n.key = "absent" /\ n.checked = "unread" /\ n.seen = "unread" /\ n.home = <<>>
        /\ n.published = <<>> /\ n.parents = <<>> /\ n.passed = <<>> /\ n.gates = app.places[i].gates
        /\ n.viewset = app.places[i].viewset /\ n.action = route.action /\ n.topic = <<>> /\ n.follows = {}
        /\ n.asking = NotAsking /\ n.kept = {}
    BY <1>4, <2>2, <2>6, FieldsOfACall
  <2>9. st.relayed = n.relayed /\ st.by = n.by
    BY <1>4, <2>2, <2>8, FieldsOfACall
  <2>10. \A e : Apart(st, e) <=> Apart(n, e)
    BY <2>9 DEF Apart
  <2>11. app.places[i].viewset \in DOMAIN Classes /\ app.places[i].gates \in Seq(Range(app.places[i].gates))
    BY <2>1, PlaceHolds DEF RequestsInv
  <2>12. ServedAt(app, i, n)
    <3>1. n.at \in Seq(Range(n.at))
      BY <1>4, <2>8, RequestsAssumption
    <3>2. \A place, other : Serves(place, other, Asked(n)) <=> Serves(place, other, request)
      BY <1>4, <2>8 DEF Serves, Matches, Asked
    <3> QED
      BY <2>1, <2>8, <3>1, <3>2 DEF ServedAt
  <2>13. n.alone \in BOOLEAN /\ n.relayed \in BOOLEAN /\ n.caller \in Callers /\ n.by \in CallIds \cup {0}
    BY <1>4, <1>5, <2>5, <2>8
  <2>14. Sound(n) /\ Gated(n, app)
    <3>1. n.pc = "gates" =>
               \E j \in DOMAIN app.places :
                   /\ ServedAt(app, j, n) /\ app.places[j].gates \in Seq(Range(app.places[j].gates))
                   /\ n.gates = app.places[j].gates /\ n.passed = <<>>
      BY <2>1, <2>8, <2>11, <2>12
    <3>2. n.viewset \in DOMAIN Classes /\ n.action \in Actions
      BY <2>1, <2>8, <2>11
    <3>3. n.user \in {n.caller, Nobody, "unread"} /\ n.key \in {n.caller, Nobody, "absent", "deferred"}
      BY <2>8
    <3>4. n.pc \in {"answered", "gates", "load"} /\ n.pc # "load"
      BY <2>8
    <3>5. n.parents \in Seq((DOMAIN Classes) \X Actions)
      BY <2>8
    <3>6. Fresh(n, app)
      BY <2>8, <2>13, <3>1, <3>2, <3>3, <3>4, <3>5 DEF Fresh
    <3> QED
      BY <3>6, FreshIsSound
  <2>15. \A e \in CallIds \ {d} : /\ Lasts(calls[e], calls'[e]) /\ Sound(calls'[e]) /\ Gated(calls'[e], app)
                                  /\ calls'[e].alone => Apart(n, e)
    BY <2>3, <2>10, OthersLast
  <2>16. n.alone => \A e \in CallIds : Apart(n, e)
    BY <2>4, <2>8, <2>10
  <2>17. ASSUME NEW e \in CallIds PROVE NobodyIsGone(calls'[e], sessions)
    <3>1. CASE e = d
      BY <2>7, <2>8, <3>1, UnreadIsNotNobody DEF NobodyIsGone
    <3>2. CASE e # d
      <4>1. calls'[e].user = calls[e].user /\ calls'[e].caller = calls[e].caller
        BY <2>3, <3>2, OthersLast
      <4> QED
        BY <4>1 DEF RequestsInv, LinkInv, NobodyIsGone
    <3> QED
      BY <3>1, <3>2
  <2>18. Begins(d, n)
    BY <1>2, <2>7, <2>8, <2>14, <2>15, <2>16, <2>17 DEF Begins
  <2> QED
    BY <2>18
<1> QED
  BY <1>6, <1>7

(* The call that a worker begins, with what it is handed.                   *)
Begun(viewset, action, caller, user, by, relayed, parents, topic, key, alone) ==
    [[NewCall EXCEPT !.pc = "load", !.viewset = viewset, !.action = action, !.caller = caller, !.user = user,
                     !.by = by, !.relayed = relayed, !.parents = parents, !.topic = topic, !.key = key]
        EXCEPT !.alone = alone]

LEMMA BegunFields ==
    ASSUME NEW viewset, NEW action, NEW caller, NEW user, NEW by, NEW relayed, NEW parents, NEW topic, NEW key,
           NEW alone, NEW n, n = Begun(viewset, action, caller, user, by, relayed, parents, topic, key, alone)
    PROVE  /\ DOMAIN n = DOMAIN NewCall /\ n.pc = "load" /\ n.caller = caller /\ n.by = by /\ n.ran = 0 /\ n.state = {}
           /\ n.alone = alone /\ n.relayed = relayed /\ n.user = user /\ n.key = key /\ n.checked = "unread"
           /\ n.seen = "unread" /\ n.home = <<>> /\ n.published = <<>> /\ n.parents = parents
           /\ n.viewset = viewset /\ n.action = action /\ n.topic = topic /\ n.follows = {}
           /\ n.asking = NotAsking /\ n.kept = {}
<1>1. /\ DOMAIN n = DOMAIN NewCall /\ n.pc = "load" /\ n.caller = caller /\ n.by = by /\ n.ran = 0 /\ n.state = {}
  BY Zenon DEF Begun, NewCall
<1>2. /\ n.alone = alone /\ n.relayed = relayed /\ n.user = user /\ n.key = key /\ n.checked = "unread"
  BY Zenon DEF Begun, NewCall
<1>3. /\ n.seen = "unread" /\ n.home = <<>> /\ n.published = <<>> /\ n.parents = parents
  BY Zenon DEF Begun, NewCall
<1>4. /\ n.viewset = viewset /\ n.action = action /\ n.topic = topic /\ n.follows = {}
  BY Zenon DEF Begun, NewCall
<1>5. /\ n.asking = NotAsking /\ n.kept = {}
  BY Zenon DEF Begun, NewCall
<1> QED
  BY <1>1, <1>2, <1>3, <1>4, <1>5, Zenon

(* A call that a call hands over, and the one that waits for it.            *)
LEMMA HandOverBegins ==
    ASSUME RequestsInv, NEW c \in CallIds, NEW d \in CallIds, NEW viewset \in DOMAIN Classes, NEW action \in Actions,
           HandOver(c, d, viewset, action),
           \/ calls[c].pc = "execute" /\ Deferred(c)
           \/ calls[c].pc = "running",
           calls[c].pc = "execute" => viewset = calls[c].viewset /\ action = calls[c].action
    PROVE  \E n : Begins(d, n)
<1> DEFINE r == calls[c]
           awaited == r.key = "deferred"
<1>1. PICK read : read = IF awaited /\ r.user = "unread" THEN ResolvedUser(c) ELSE r.user
  OBVIOUS
<1>2. PICK key : key = IF awaited THEN read ELSE r.key
  OBVIOUS
<1>3. PICK pc : pc = IF Deferred(c) THEN "handed" ELSE "waiting"
  OBVIOUS
<1>4. calls[d].pc = "idle" /\ d # c
  BY DEF HandOver, NextCall
<1> DEFINE Handed(user, u, k, p) ==
               calls' = [Overlapping(d, [NewCall EXCEPT !.pc = "load", !.viewset = viewset, !.action = action,
                                            !.caller = r.caller, !.user = user, !.by = c,
                                            !.relayed = Deferred(c), !.parents = ParentsOfDispatch(c),
                                            !.topic = r.topic, !.key = k])
                           EXCEPT ![c].pc = p, ![c].user = u, ![c].key = k]
           Read == IF awaited /\ r.user = "unread" THEN ResolvedUser(c) ELSE r.user
           Key == IF awaited THEN Read ELSE r.key
           Waits == IF Deferred(c) THEN "handed" ELSE "waiting"
<1>5. PICK user : user = Travels(r.caller, read) /\ Handed(user, read, key, pc)
  <2>1. Handed(Travels(r.caller, Read), Read, Key, Waits)
    BY Zenon DEF HandOver
  <2>2. read = Read /\ key = Key /\ pc = Waits
    BY <1>1, <1>2, <1>3
  <2> HIDE DEF Handed, Read, Key, Waits
  <2> QED
    BY <2>1, <2>2
<1>6. PICK parents : parents = ParentsOfDispatch(c)
  OBVIOUS
<1>7. PICK relayed : relayed = Deferred(c)
  OBVIOUS
<1>8. PICK st : st = [NewCall EXCEPT !.pc = "load", !.viewset = viewset, !.action = action,
                                     !.caller = r.caller, !.user = user, !.by = c,
                                     !.relayed = relayed, !.parents = parents,
                                     !.topic = r.topic, !.key = key]
  OBVIOUS
<1>9. PICK o : o = Overlapping(d, st)
  OBVIOUS
<1>10. calls' = [o EXCEPT ![c].pc = pc, ![c].user = read, ![c].key = key]
  BY <1>5, <1>6, <1>7, <1>8, <1>9
<1>11. Sound(r) /\ Gated(r, app) /\ Usual(c)
  BY UsualCall DEF Usual
<1>12. /\ Lasts(r, o[c]) /\ Sound(o[c]) /\ Gated(o[c], app) /\ (o[c].alone => Apart(st, c))
       /\ o[c].user = r.user /\ o[c].key = r.key /\ o[c].pc = r.pc /\ o[c].caller = r.caller
  BY <1>4, <1>9, OthersLast
<1>13. PICK b : b = \A e \in CallIds : Apart(st, e)
  OBVIOUS
<1>14. b \in BOOLEAN
  BY <1>13
<1>15. PICK n : n = [st EXCEPT !.alone = b]
  OBVIOUS
<1>16. DOMAIN o = CallIds /\ o[d] = n
  BY <1>9, <1>13, <1>15, OverlappingCalls
<1>17. PICK s : s = [o[c] EXCEPT !.pc = pc, !.user = read, !.key = key]
  OBVIOUS
<1>18. /\ DOMAIN calls' = CallIds /\ calls'[d] = n /\ calls'[c] = s
       /\ \A e \in CallIds \ {c, d} : calls'[e] = o[e]
  BY <1>4, <1>10, <1>16, <1>17
<1>19. /\ DOMAIN n = DOMAIN NewCall /\ n.pc = "load" /\ n.caller = r.caller /\ n.by = c /\ n.ran = 0 /\ n.state = {}
       /\ n.alone = b /\ n.relayed = relayed /\ n.user = user /\ n.key = key /\ n.checked = "unread"
       /\ n.seen = "unread" /\ n.home = <<>> /\ n.published = <<>> /\ n.parents = parents
       /\ n.viewset = viewset /\ n.action = action /\ n.topic = r.topic /\ n.follows = {}
       /\ n.asking = NotAsking /\ n.kept = {}
  <2>1. n = Begun(viewset, action, r.caller, user, c, relayed, parents, r.topic, key, b)
    BY <1>8, <1>15, Zenon DEF Begun
  <2> QED
    BY <2>1, BegunFields
<1>20. read \in {r.caller, Nobody, "unread"} /\ (r.user # "unread" => read = r.user) /\ (awaited => read \in {r.caller, Nobody})
  BY <1>1, <1>11, UserResolves DEF Sound, Typed
<1>21. key \in {r.caller, Nobody, "absent", "deferred"}
  BY <1>2, <1>11, <1>20 DEF Sound, Typed
<1>22. r.ran \in Nat /\ (r.pc = "execute" => r.ran = 0) /\ (r.pc = "running" => r.ran > 0) /\ (Deferred(c) <=> DeferredIn(r))
  BY <1>11 DEF Sound, Typed, Deferred, DeferredIn, WorkerCall
<1>23. r.pc = "running" => ~Deferred(c)
  BY <1>11, <1>22 DEF Sound
<1>24. r.pc \in {"execute", "running"} /\ pc \in {"handed", "waiting"} /\ (pc = "handed" => r.ran = 0) /\ (pc = "waiting" => r.ran > 0)
  BY <1>3, <1>22, <1>23
<1>25. /\ Fixed(o[c], s) /\ s.pc = pc /\ s.user = read /\ s.key = key /\ s.ran = o[c].ran /\ s.state = o[c].state
       /\ s.passed = o[c].passed /\ s.checked = o[c].checked /\ s.seen = o[c].seen /\ s.home = o[c].home
       /\ s.published = o[c].published /\ s.topic = o[c].topic /\ s.follows = o[c].follows
       /\ s.asking = o[c].asking /\ s.kept = o[c].kept
  BY <1>12, <1>17, FieldsOfACall DEF Lasts, Fixed
<1>26. Sound(s) /\ Gated(s, app)
  <2>1. o[c].ran = r.ran /\ (DeferredIn(o[c]) <=> DeferredIn(r)) /\ o[c].state \subseteq CallIds
    BY <1>12 DEF Lasts, DeferredIn, Sound, Typed
  <2>2. s.ran \in Nat /\ s.state \subseteq CallIds
    BY <1>22, <1>25, <2>1
  <2>3. s.ran > 0 => ~DeferredIn(o[c])
    BY <1>11, <1>25, <2>1 DEF Sound
  <2>4. ToTheCaller(o[c], s.home) /\ ToTheCaller(o[c], s.published)
    BY <1>12, <1>25 DEF Sound
  <2>5. s.user \in {o[c].caller, Nobody, "unread"} /\ s.key \in {o[c].caller, Nobody, "absent", "deferred"}
    BY <1>12, <1>20, <1>21, <1>25
  <2>6. o[c].user # "unread" => s.user = o[c].user
    BY <1>12, <1>20, <1>25
  <2>7. o[c].pc \in Past /\ s.pc \in Past \cup {"answered"}
    BY <1>12, <1>24, <1>25 DEF Past
  <2>8. s.pc \in {"load", "chain", "execute", "handed"} => s.ran = 0
    BY <1>24, <1>25, <2>1
  <2>9. s.pc \in {"running", "waiting"} => s.ran > 0
    BY <1>24, <1>25, <2>1
  <2>10. Homed(s, app) /\ s.pc \notin {"chain", "asking"}
    BY <1>12, <1>24, <1>25, HomedStays DEF Gated, Fixed
  <2> QED
    BY <1>12, <1>25, <2>2, <2>3, <2>4, <2>5, <2>6, <2>7, <2>8, <2>9, <2>10, Advances
<1>27. Lasts(r, s) /\ s.alone = o[c].alone
  <2>1. Same(r, s)
    BY <1>12, <1>25 DEF Lasts, Fixed, Same
  <2>2. s.user = r.user \/ (r.pc = "execute" /\ r.by = 0)
    <3>1. r.pc = "running" => r.user # "unread"
      BY <1>11, <1>22 DEF Sound
    <3>2. r.pc = "execute" => r.by = 0
      BY <1>22 DEF DeferredIn
    <3> QED
      BY <1>20, <1>24, <1>25, <3>1, <3>2
  <2> QED
    BY <1>12, <1>24, <1>25, <2>1, <2>2 DEF Lasts, Fixed
<1>28. Sound(n) /\ Gated(n, app)
  <2>1. parents \in Seq((DOMAIN Classes) \X Actions)
    <3> DEFINE S == (DOMAIN Classes) \X Actions
    <3>1. r.parents \in Seq(S) /\ <<r.viewset, r.action>> \in S
      BY <1>11, <1>24 DEF Sound, Typed, Past
    <3> HIDE DEF S
    <3>2. <<<<r.viewset, r.action>>>> \o r.parents \in Seq(S)
      BY <3>1
    <3>3. parents \in Seq(S)
      BY <1>6, <3>1, <3>2 DEF ParentsOfDispatch
    <3> QED
      BY <3>3 DEF S
  <2>2. relayed \in BOOLEAN
    BY <1>7 DEF Deferred
  <2>3. n.caller \in Callers /\ n.by \in CallIds \cup {0} /\ n.by # 0
    BY <1>11, <1>19, RequestsAssumption DEF Sound, Typed
  <2>4. n.user \in {n.caller, Nobody, "unread"} /\ n.key \in {n.caller, Nobody, "absent", "deferred"}
    BY <1>5, <1>19, <1>20, <1>21 DEF Travels
  <2>5. n.parents = <<>> /\ n.topic # <<>> /\ HasOnePath(n.viewset, n.action) => AtHome(app, n.viewset, n.topic)
    <3>1. CASE r.pc = "running"
      <4>1. parents = <<<<r.viewset, r.action>>>> \o r.parents
        BY <1>6, <3>1 DEF ParentsOfDispatch
      <4>2. r.parents \in Seq((DOMAIN Classes) \X Actions)
        BY <1>11 DEF Sound, Typed
      <4>3. parents # <<>>
        BY <4>1, <4>2
      <4> QED
        BY <1>19, <4>3
    <3>2. CASE r.pc = "execute"
      <4>1. parents = r.parents /\ viewset = r.viewset /\ action = r.action
        BY <1>6, <3>2 DEF ParentsOfDispatch
      <4> QED
        BY <1>11, <1>19, <4>1 DEF Gated, Homed
    <3> QED
      BY <1>24, <3>1, <3>2
  <2>6. Fresh(n, app)
    BY <1>14, <1>19, <2>1, <2>2, <2>3, <2>4, <2>5 DEF Fresh
  <2> QED
    BY <2>6, FreshIsSound
<1>29. st.relayed = n.relayed /\ st.by = n.by
  BY <1>8, <1>19 DEF NewCall
<1>30. \A e : Apart(st, e) <=> Apart(n, e)
  BY <1>29 DEF Apart
<1>31. \A e \in CallIds \ {d} : /\ Lasts(calls[e], calls'[e]) /\ Sound(calls'[e]) /\ Gated(calls'[e], app)
                                /\ calls'[e].alone => Apart(n, e)
  <2> SUFFICES ASSUME NEW e \in CallIds \ {d}
               PROVE  /\ Lasts(calls[e], calls'[e]) /\ Sound(calls'[e]) /\ Gated(calls'[e], app)
                      /\ calls'[e].alone => Apart(n, e)
    OBVIOUS
  <2>1. CASE e = c
    BY <1>12, <1>18, <1>26, <1>27, <1>30, <2>1
  <2>2. CASE e # c
    BY <1>9, <1>18, <1>30, <2>2, OthersLast
  <2> QED
    BY <2>1, <2>2
<1>32. n.alone => \A e \in CallIds : Apart(n, e)
  BY <1>13, <1>19, <1>30
<1>33. DispatchedBy(n, s)
  <2>1. s.ran = r.ran /\ s.viewset = r.viewset /\ s.action = r.action /\ s.parents = r.parents /\ s.by = r.by
    BY <1>27 DEF Lasts
  <2>2. s.pc # "idle" /\ (s.ran = 0 => s.pc \in {"handed", "save", "answered", "collected"})
    BY <1>24, <1>25, <2>1
  <2>3. n.relayed => DeferredIn(s)
    BY <1>7, <1>19, <1>22, <2>1 DEF DeferredIn
  <2>4. n.parents = (IF s.ran > 0 THEN <<<<s.viewset, s.action>>>> ELSE <<>>) \o s.parents
    <3>1. CASE r.pc = "running"
      BY <1>6, <1>19, <1>22, <2>1, <3>1 DEF ParentsOfDispatch
    <3>2. CASE r.pc = "execute"
      <4>1. n.parents = s.parents /\ ~(s.ran > 0)
        BY <1>6, <1>19, <1>22, <2>1, <3>2 DEF ParentsOfDispatch
      <4>2. s.parents \in Seq((DOMAIN Classes) \X Actions)
        BY <1>26 DEF Sound, Typed
      <4>3. <<>> \o s.parents = s.parents
        BY <4>2
      <4> QED
        BY <4>1, <4>3
    <3> QED
      BY <1>24, <3>1, <3>2
  <2> QED
    BY <2>2, <2>3, <2>4 DEF DispatchedBy
<1>34. NobodyIsGone(r, sessions) /\ Nobody \notin sessions
  BY DEF RequestsInv, LinkInv
<1>35. (read = Nobody => r.caller \notin sessions) /\ user \in {read, "unread"} /\ s.caller = r.caller
  <2>1. read \in {r.user, ResolvedUser(c)}
    BY <1>1
  <2>2. s.caller = r.caller
    BY <1>27 DEF Lasts, Same
  <2> QED
    BY <1>5, <1>34, <2>1, <2>2 DEF NobodyIsGone, ResolvedUser, Travels
<1>36. ASSUME NEW e \in CallIds PROVE NobodyIsGone(calls'[e], sessions)
  <2>1. CASE e = d
    BY <1>18, <1>19, <1>35, <2>1, UnreadIsNotNobody DEF NobodyIsGone
  <2>2. CASE e = c
    BY <1>18, <1>25, <1>35, <2>2 DEF NobodyIsGone
  <2>3. CASE e \notin {c, d}
    <3>1. calls'[e].user = calls[e].user /\ calls'[e].caller = calls[e].caller
      BY <1>9, <1>18, <2>3, OthersLast
    <3> QED
      BY <3>1 DEF RequestsInv, LinkInv, NobodyIsGone
  <2> QED
    BY <2>1, <2>2, <2>3
<1>37. Linked(n, s, app, sessions)
  <2>1. ASSUME n.relayed PROVE Admitted(s, app)
    <3>1. r.pc = "execute" /\ r.by = 0
      BY <1>7, <1>19, <1>22, <1>23, <1>24, <2>1 DEF DeferredIn
    <3>2. Admitted(r, app)
      BY <1>11, <3>1 DEF Sound, Gated, Past, Admitted
    <3> QED
      BY <1>27, <3>2, AdmittedStays DEF Lasts
  <2>2. n.user = "unread" => s.user = "unread" \/ n.caller \in DjangoCallers
    BY <1>5, <1>19, <1>25 DEF Travels
  <2>3. "unread" \in {n.user, s.user} \/ n.user = s.user
    BY <1>19, <1>25, <1>35
  <2> QED
    BY <1>19, <1>35, <2>1, <2>2, <2>3 DEF Linked
<1>38. Begins(d, n)
  BY <1>4, <1>18, <1>19, <1>28, <1>31, <1>32, <1>33, <1>36, <1>37 DEF Begins
<1> QED
  BY <1>38

------------------------------------------------------------------------------
(* Every step                                                               *)

LEMMA HandOnBegins ==
    ASSUME RequestsInv, NEW c \in CallIds, NEW d \in CallIds, HandOn(c, d)
    PROVE  \E n : Begins(d, n)
<1>1. calls[c].viewset \in DOMAIN Classes /\ calls[c].action \in Actions
  BY DEF RequestsInv, Sound, Typed, HandOn, Past
<1> QED
  BY <1>1, HandOverBegins DEF HandOn

LEMMA DispatchBegins ==
    ASSUME RequestsInv, NEW c \in CallIds, NEW d \in CallIds, Dispatch(c, d)
    PROVE  \E n : Begins(d, n)
<1>1. PICK to \in Dispatched : HandOver(c, d, to.viewset, to.action)
  BY DEF Dispatch
<1>2. to.viewset \in DOMAIN Classes
  BY RequestsAssumption
<1>3. to.action \in Actions
  <2>1. to.action \in CalledActions
    BY DEF CalledActions
  <2> QED
    BY <2>1 DEF Actions
<1>4. calls[c].pc = "running"
  BY DEF Dispatch
<1> QED
  BY <1>1, <1>2, <1>3, <1>4, HandOverBegins

(* A step of one call, with what it leaves of the states.                   *)
LEMMA StepKeeps ==
    ASSUME RequestsInv, NEW c \in CallIds, NEW s, ChangeTo(c, s), app' = app, sessions' = sessions,
           troubles' \in 0..MaxTroubles, StatesTyped', SavedInv'
    PROVE  RequestsInv'
<1>1. DOMAIN calls' = CallIds /\ \A e \in CallIds : Sound(calls'[e]) /\ Gated(calls'[e], app')
  BY ChangedCalls
<1>2. ApartInv' /\ ByInv' /\ LinkInv'
  BY StepKeepsApart, StepKeepsBy, StepKeepsLink
<1> QED
  BY <1>1, <1>2 DEF RequestsInv

LEMMA TroublesCount ==
    ASSUME RequestsInv, UNCHANGED troubles \/ Trouble
    PROVE  troubles' \in 0..MaxTroubles
BY RequestsAssumption DEF RequestsInv, Trouble

LEMMA QuietKeeps ==
    ASSUME RequestsInv, NEW c \in CallIds, \E s : ChangeTo(c, s) /\ Quiet(calls[c], s),
           UNCHANGED <<app, sessions, stored, shared>>, UNCHANGED troubles \/ Trouble
    PROVE  RequestsInv'
<1>1. PICK s : ChangeTo(c, s) /\ Quiet(calls[c], s)
  OBVIOUS
<1>2. StatesTyped'
  BY DEF RequestsInv, StatesTyped
<1>3. SavedInv' /\ troubles' \in 0..MaxTroubles
  BY <1>1, QuietKeepsSaved, TroublesCount
<1> QED
  BY <1>1, <1>2, <1>3, StepKeeps

LEMMA RunsKeeps ==
    ASSUME RequestsInv, NEW c \in CallIds, Runs(c)
    PROVE  RequestsInv'
<1>1. Usual(c)
  BY UsualCall
<1>2. ASSUME NEW request \in RequestKinds, Arrive(c, request) PROVE RequestsInv'
  BY <1>2, ArriveBegins, BeginsKeeps DEF Arrive
<1>3. CASE PassGate(c)
  BY <1>1, <1>3, PassGateStep, QuietKeeps DEF PassGate
<1>4. CASE RunDepends(c)
  BY <1>1, <1>4, RunDependsStep, QuietKeeps DEF RunDepends
<1>5. CASE LoadState(c)
  <2>1. PICK s : ChangeTo(c, s) /\ calls[c].pc = "load"
    BY <1>1, <1>5, LoadStateStep
  <2>2. StatesTyped'
    <3>1. StatesTyped /\ calls[c].viewset \in DOMAIN Classes
      BY <1>1, <2>1 DEF Usual, Sound, Typed, Past
    <3>2. stored' = stored
      BY <1>5 DEF LoadState
    <3>3. shared' \in {shared, [shared EXCEPT ![Process(c)][calls[c].viewset] = stored[calls[c].viewset]]}
      BY <1>5 DEF LoadState
    <3> QED
      BY <3>1, <3>2, <3>3 DEF StatesTyped
  <2>3. UNCHANGED troubles \/ Trouble
    BY <1>5 DEF LoadState
  <2> QED
    BY <1>5, <2>1, <2>2, <2>3, LoadKeepsSaved, TroublesCount, StepKeeps DEF LoadState
<1>6. CASE EnterChain(c)
  BY <1>1, <1>6, EnterChainStep, QuietKeeps DEF EnterChain
<1>7. CASE Execute(c)
  BY <1>1, <1>7, ExecuteStep, QuietKeeps DEF Execute
<1>8. ASSUME NEW d \in CallIds, HandOn(c, d) PROVE RequestsInv'
  BY <1>8, HandOnBegins, BeginsKeeps DEF HandOn, HandOver
<1>9. ASSUME NEW d \in CallIds, Dispatch(c, d) PROVE RequestsInv'
  BY <1>9, DispatchBegins, BeginsKeeps DEF Dispatch, HandOver
<1>10. ASSUME NEW topic \in Topics, Ask(c, topic) PROVE RequestsInv'
  BY <1>1, <1>10, AskStep, QuietKeeps DEF Ask
<1>15. CASE AskGate(c)
  BY <1>1, <1>15, AskGateStep, QuietKeeps DEF AskGate
<1>16. CASE Follow(c)
  BY <1>1, <1>16, FollowStep, QuietKeeps DEF Follow
<1>11. CASE Result(c)
  BY <1>11, ResultKeeps
<1>12. CASE Finish(c)
  <2>1. PICK s : ChangeTo(c, s) /\ calls[c].pc = "running"
    BY <1>1, <1>12, FinishStep
  <2>2. StatesTyped'
    <3>1. StatesTyped /\ calls[c].viewset \in DOMAIN Classes
      BY <1>1, <2>1 DEF Usual, Sound, Typed, Past
    <3>2. stored' = stored
      BY <1>12 DEF Finish
    <3>3. shared' \in {shared, [shared EXCEPT ![Process(c)][calls[c].viewset] = @ \cup {c}]}
      BY <1>12 DEF Finish
    <3>4. Process(c) \in {"web", "worker"}
      BY DEF Process
    <3> QED
      BY <3>1, <3>2, <3>3, <3>4 DEF StatesTyped
  <2>3. UNCHANGED troubles \/ Trouble
    BY <1>12 DEF Finish
  <2> QED
    BY <1>12, <2>1, <2>2, <2>3, FinishKeepsSaved, TroublesCount, StepKeeps DEF Finish
<1>13. CASE SaveState(c)
  <2>1. PICK s : ChangeTo(c, s) /\ calls[c].pc = "save"
    BY <1>1, <1>13, SaveStateStep
  <2>2. StatesTyped'
    <3>1. StatesTyped /\ calls[c].viewset \in DOMAIN Classes /\ calls[c].state \subseteq CallIds
      BY <1>1, <2>1 DEF Usual, Sound, Typed, Past
    <3>2. shared' = shared
      BY <1>13 DEF SaveState
    <3>3. stored' \in {stored, [stored EXCEPT ![calls[c].viewset] =
                                   IF Singleton(c) THEN shared[Process(c)][calls[c].viewset] ELSE calls[c].state]}
      BY <1>13 DEF SaveState
    <3>4. Process(c) \in {"web", "worker"}
      BY DEF Process
    <3>5. shared[Process(c)][calls[c].viewset] \subseteq CallIds
      BY <3>1, <3>4 DEF StatesTyped
    <3> QED
      BY <3>1, <3>2, <3>3, <3>5 DEF StatesTyped
  <2> QED
    BY <1>13, <2>1, <2>2, SaveKeepsSaved, TroublesCount, StepKeeps DEF SaveState
<1>14. CASE StreamEnds(c)
  BY <1>1, <1>14, StreamEndsStep, QuietKeeps DEF StreamEnds
<1> QED
  BY <1>2, <1>3, <1>4, <1>5, <1>6, <1>7, <1>8, <1>9, <1>10, <1>11, <1>12, <1>13, <1>14, <1>15, <1>16 DEF Runs

LEMMA RequestsStep ==
    ASSUME RequestsInv, [RequestsNext]_requestVars
    PROVE  RequestsInv'
<1>1. ASSUME NEW c \in CallIds, Runs(c) PROVE RequestsInv'
  BY <1>1, RunsKeeps
<1>2. CASE calls' = calls /\ app' = app /\ stored' = stored /\ shared' = shared /\ sessions' \subseteq sessions
           /\ troubles' \in 0..MaxTroubles
  <2>1. StatesTyped' /\ ApartInv' /\ ByInv'
    BY <1>2 DEF RequestsInv, StatesTyped, ApartInv, ByInv, Under, Related
  <2>2. SavedInv'
    BY <1>2 DEF RequestsInv, SavedInv, Keeps, HasChange, Stateful, Singleton, Process, WorkerCall
  <2>3. LinkInv'
    <3>1. \A d, by : Linked(d, by, app, sessions) => Linked(d, by, app, sessions')
      BY <1>2 DEF Linked
    <3>2. \A r : NobodyIsGone(r, sessions) => NobodyIsGone(r, sessions')
      BY <1>2 DEF NobodyIsGone
    <3> QED
      BY <1>2, <3>1, <3>2 DEF RequestsInv, LinkInv
  <2> QED
    BY <1>2, <2>1, <2>2, <2>3 DEF RequestsInv
<1>3. ASSUME NEW user \in sessions, SessionEnds(user) PROVE RequestsInv'
  <2>1. sessions' \subseteq sessions
    BY <1>3 DEF SessionEnds
  <2>2. troubles' \in 0..MaxTroubles
    BY <1>3, TroublesCount DEF SessionEnds
  <2> QED
    BY <1>2, <1>3, <2>1, <2>2 DEF SessionEnds
<1>4. CASE UNCHANGED requestVars
  BY <1>2, <1>4 DEF requestVars, RequestsInv
<1> QED
  BY <1>1, <1>3, <1>4 DEF RequestsNext

LEMMA RequestsStart == RequestsInit => RequestsInv
<1> SUFFICES ASSUME RequestsInit PROVE RequestsInv
  OBVIOUS
<1>1. app \in Apps /\ sessions \subseteq Callers /\ troubles \in 0..MaxTroubles /\ StatesTyped
  BY RequestsAssumption DEF RequestsInit, Callers, StatesTyped
<1>2. DOMAIN calls = CallIds /\ \A c \in CallIds : calls[c] = NewCall
  BY DEF RequestsInit
<1>3. /\ NewCall.pc = "idle" /\ NewCall.ran = 0 /\ NewCall.by = 0 /\ NewCall.parents = <<>> /\ NewCall.caller = Nobody
      /\ NewCall.alone = TRUE /\ NewCall.relayed = FALSE /\ NewCall.user = "unread" /\ NewCall.key = "absent"
      /\ NewCall.state = {} /\ NewCall.checked = "unread" /\ NewCall.seen = "unread" /\ NewCall.home = <<>>
      /\ NewCall.published = <<>> /\ NewCall.topic = <<>> /\ NewCall.follows = {}
      /\ NewCall.asking.place = 0 /\ NewCall.kept = {}
  BY DEF NewCall, NotAsking
<1>4. Sound(NewCall) /\ Gated(NewCall, app)
  <2>1. Nobody \in Callers
    BY DEF Callers
  <2>2. NewCall.parents \in Seq((DOMAIN Classes) \X Actions)
    BY <1>3
  <2>3. Typed(NewCall)
    <3>1. NewCall.alone \in BOOLEAN /\ NewCall.relayed \in BOOLEAN
      BY <1>3
    <3>2. NewCall.pc \in Pcs /\ NewCall.pc \notin Past \cup {"gates"} /\ ~(NewCall.ran > 0)
      BY <1>3 DEF Pcs, Past
    <3>3. /\ NewCall.user \in {NewCall.caller, Nobody, "unread"}
          /\ NewCall.key \in {NewCall.caller, Nobody, "absent", "deferred"}
          /\ NewCall.by \in CallIds \cup {0} /\ NewCall.ran \in Nat /\ NewCall.state \subseteq CallIds
          /\ NewCall.caller \in Callers
      BY <1>3, <2>1
    <3> QED
      BY <2>2, <3>1, <3>2, <3>3 DEF Typed
  <2>4. ToTheCaller(NewCall, NewCall.home) /\ ToTheCaller(NewCall, NewCall.published)
    BY <1>3 DEF ToTheCaller
  <2>5. Homed(NewCall, app)
    BY <1>3 DEF Homed, EventsAtHome
  <2> QED
    BY <1>3, <2>3, <2>4, <2>5 DEF Sound, Gated, Past
<1>5. ApartInv /\ ByInv /\ SavedInv /\ LinkInv
  <2>1. LinkInv
    BY <1>2, <1>3, UnreadIsNotNobody DEF LinkInv, NobodyIsGone, RequestsInit
  <2> QED
    BY <1>2, <1>3, <2>1 DEF ApartInv, ByInv, SavedInv, Under, Keeps
<1> QED
  BY <1>1, <1>2, <1>4, <1>5 DEF RequestsInv

(* Every step keeps the invariant, for any viewsets and routes, requests,   *)
(* calls and bounds.                                                        *)
THEOREM RequestsIsInvariant == RequestsSpec => []RequestsInv
<1>1. RequestsInit => RequestsInv
  BY RequestsStart
<1>2. RequestsInv /\ [RequestsNext]_requestVars => RequestsInv'
  BY RequestsStep
<1> QED
  BY <1>1, <1>2, PTL DEF RequestsSpec

(* The state of the server and of its calls is of its type.                 *)
THEOREM RequestsTypeCorrect == RequestsSpec => []RequestsTypeOK
<1>1. RequestsInv => RequestsTypeOK
  <2> SUFFICES ASSUME RequestsInv PROVE RequestsTypeOK
    OBVIOUS
  <2>1. app \in Apps /\ sessions \subseteq Callers /\ troubles \in 0..MaxTroubles
    BY DEF RequestsInv
  <2>2. /\ \A v \in DOMAIN Classes : stored[v] \subseteq CallIds
        /\ \A p \in {"web", "worker"}, v \in DOMAIN Classes : shared[p][v] \subseteq CallIds
    BY DEF RequestsInv, StatesTyped
  <2>3. ASSUME NEW c \in CallIds
        PROVE  /\ DOMAIN calls[c] = DOMAIN NewCall
               /\ calls[c].pc \in {"idle", "gates", "load", "chain", "execute", "running", "asking", "waiting",
                                   "handed", "save", "answered", "collected"}
               /\ calls[c].state \subseteq CallIds
               /\ calls[c].user \in {calls[c].caller, Nobody, "unread"}
               /\ calls[c].key \in {calls[c].caller, Nobody, "absent", "deferred"}
               /\ calls[c].by \in CallIds \cup {0}
    BY DEF RequestsInv, Sound, Typed, Pcs
  <2> QED
    BY <2>1, <2>2, <2>3 DEF RequestsTypeOK
<1> QED
  BY <1>1, RequestsIsInvariant, PTL

(* What was executed, here or by a worker, its checks had admitted.         *)
LEMMA ExecutedWasAdmitted ==
    ASSUME RequestsInv, NEW c \in CallIds, Executed(c)
    PROVE  Admitted(calls[c], app)
<1>1. calls[c].by = 0 /\ Sound(calls[c]) /\ Gated(calls[c], app)
  BY DEF RequestsInv, Executed, WorkerCall
<1>2. CASE calls[c].ran > 0
  BY <1>1, <1>2 DEF Sound, Gated, Admitted
<1>3. CASE \E d \in CallIds : calls[d].by = c /\ calls[d].relayed
  <2>1. PICK d \in CallIds : calls[d].by = c /\ calls[d].relayed
    BY <1>3
  <2>2. c # 0
    BY RequestsAssumption
  <2> QED
    BY <2>1, <2>2 DEF RequestsInv, LinkInv, Linked
<1> QED
  BY <1>2, <1>3 DEF Executed

(* No action runs ahead of a check, neither in the request's own call nor in*)
(* a worker: each viewset on the way to its own, from the outermost inwards,*)
(* has admitted the request, named by the segment of the path that leads to *)
(* the next, and then its own; none further down the path would have served *)
(* it; and where the most specific place that configures the session check  *)
(* requires a user, the caller has one.                                     *)
THEOREM ActionsAreChecked == RequestsSpec => []ChecksBeforeAction
<1>1. ASSUME RequestsInv PROVE GatesPassed
  <2> SUFFICES ASSUME NEW c \in CallIds, Executed(c)
               PROVE  LET passed == calls[c].passed
                          above == Len(passed) - 1
                      IN \E k \in DOMAIN app.roots :
                LET base == app.roots[k].base
                IN /\ Len(base) + above <= Len(calls[c].at) /\ LeadsTo(base, calls[c].at)
                   /\ passed[1][1] = app.roots[k].viewset
                   /\ \A n \in 1..above :
                         \E mount \in Range(Classes[passed[n][1]].mounts) :
                             /\ mount.path = calls[c].at[Len(base) + n] /\ passed[n][2] = mount.path
                             /\ passed[n + 1][1] = mount.viewset
                   /\ passed[above + 1] = <<calls[c].viewset, calls[c].action>>
                   /\ \A j \in DOMAIN app.places :
                         LET place == app.places[j]
                         IN place.root = k /\ Len(place.chain) > above /\ LeadsTo(place.base, calls[c].at)
                               => \A route \in RoutesAt(place) :
                                     ~Serves(place, route, [path |-> calls[c].at, transport |-> calls[c].transport,
                                                            method |-> calls[c].method])
    BY <1>1, Zenon DEF GatesPassed
  <2>1. PICK r : r = calls[c]
    OBVIOUS
  <2>2. app \in Apps /\ Admitted(r, app)
    BY <1>1, <2>1, ExecutedWasAdmitted DEF RequestsInv
  <2>3. PICK i \in DOMAIN app.places :
            /\ ServedAt(app, i, r)
            /\ r.passed = Append(Checks(app.places[i].gates, Len(app.places[i].gates)), <<r.viewset, r.action>>)
    BY <2>2 DEF Admitted
  <2>4. PICK k, chain : PlaceIs(app, i, k, chain)
    BY <2>2, PlaceSound
  <2>5. PICK passed : passed = r.passed
    OBVIOUS
  <2>6. PICK above : above = Len(passed) - 1
    OBVIOUS
  <2>7. k \in DOMAIN app.roots /\ Len(passed) = Len(chain) + 1 /\ OnTheWayTo(r, passed, app.roots[k], Len(chain))
    <3>1. app \in Apps /\ ServedAt(app, i, r)
      BY <2>2, <2>3
    <3>2. PassedAllOf(app.places[i], r, passed)
      BY <2>3, <2>5 DEF PassedAllOf
    <3>3. PassedAlong(app, k, chain, r, passed)
      BY <2>4, <3>1, <3>2, PassedOnTheWay, Zenon
    <3> QED
      BY <3>3 DEF PassedAlong
  <2>8. above = Len(chain)
    <3>1. Len(chain) \in Nat
      BY <2>4, ChainSound DEF PlaceIs
    <3> QED
      BY <2>6, <2>7, <3>1
  <2>9. \A j \in DOMAIN app.places :
           app.places[j].root = k /\ Len(app.places[j].chain) > above /\ LeadsTo(app.places[j].base, r.at)
              => \A route \in RoutesAt(app.places[j]) : ~Serves(app.places[j], route, Asked(r))
    BY <2>2, <2>3, <2>4, <2>8, NoneServesDeeper
  <2>10. OnTheWayTo(r, passed, app.roots[k], above)
    BY <2>7, <2>8
  <2> QED
    BY <2>1, <2>5, <2>6, <2>7, <2>9, <2>10, Zenon DEF Asked, OnTheWayTo
<1>2. ASSUME RequestsInv PROVE UserWhereRequired
  BY <1>2, ExecutedWasAdmitted DEF Admitted, UserNeeded, UserWhereRequired
<1>3. RequestsInv => ChecksBeforeAction
  BY <1>1, <1>2 DEF ChecksBeforeAction
<1> QED
  BY <1>3, RequestsIsInvariant, PTL

(* A topic is followed only by who passes, with the action that lists its   *)
(* records, the checks of its viewset and of every one on the way to it; and*)
(* a scope only under the key of that user, whoever asked before.           *)
THEOREM FollowersPassTheChecks == RequestsSpec => []FollowersMayList
<1>1. ASSUME RequestsInv PROVE FollowersMayList
  <2>1. \A c \in CallIds : \A f \in calls[c].follows : MayList(f, app)
    BY <1>1 DEF RequestsInv, Gated, Homed
  <2> QED
    BY <2>1, Zenon DEF FollowersMayList, MayList
<1> QED
  BY <1>1, RequestsIsInvariant, PTL

(* A request has one user: its checks, what they hand to a worker and the   *)
(* actions that execute for it, here and in the workers, read the same one, *)
(* also where the session ends in between. One of Django is read again in a *)
(* worker, and is then the same or, if its session has ended, nobody.       *)
THEOREM RequestsHaveOneUser == RequestsSpec => []OneUserPerRequest
<1>1. ASSUME RequestsInv, NEW c \in CallIds
      PROVE  /\ \A u, v \in UsersRead(c) : u = v
             /\ WorkerCall(c) =>
                   \A u \in UsersRead(calls[c].by), v \in UsersRead(c) :
                       v = u \/ (calls[c].caller \in DjangoCallers \ sessions /\ v = Nobody)
  <2>1. \A e \in CallIds : UsersRead(e) \subseteq {calls[e].user} \ {"unread"}
    BY <1>1 DEF RequestsInv, Sound, UsersRead
  <2>2. ASSUME WorkerCall(c)
        PROVE  calls[c].by \in CallIds /\ Linked(calls[c], calls[calls[c].by], app, sessions)
    BY <1>1, <2>2 DEF RequestsInv, LinkInv, WorkerCall, Sound, Typed
  <2>3. ASSUME WorkerCall(c), NEW u \in UsersRead(calls[c].by), NEW v \in UsersRead(c)
        PROVE  v = u \/ (calls[c].caller \in DjangoCallers \ sessions /\ v = Nobody)
    <3>1. u = calls[calls[c].by].user /\ u # "unread" /\ v = calls[c].user /\ v # "unread"
      BY <2>1, <2>2, <2>3
    <3> QED
      BY <2>2, <2>3, <3>1 DEF Linked
  <2> QED
    BY <2>1, <2>3
<1>2. RequestsInv => OneUserPerRequest
  BY <1>1 DEF OneUserPerRequest
<1> QED
  BY <1>2, RequestsIsInvariant, PTL

(* What a call that no other one overlaps changes of its viewset's state is *)
(* saved, also where it raises, and no later call loses it.                 *)
THEOREM AloneIsSaved == RequestsSpec => []AloneNothingIsLost
<1>1. RequestsInv => AloneNothingIsLost
  BY DEF RequestsInv, SavedInv, Keeps, AloneNothingIsLost, Kept
<1> QED
  BY <1>1, RequestsIsInvariant, PTL

(* A write publishes once, to the topic at which its own viewset's records  *)
(* are listed or, in a scope, under the key of the caller whose request     *)
(* wrote the record, wherever it executes and whatever it was dispatched in;*)
(* and its parents are the actions that were executing then.                *)
THEOREM WritesPublishHome == RequestsSpec => []EventsGoHome
<1>1. RequestsInv => ParentsAreExecutions
  BY DEF RequestsInv, ByInv, DispatchedBy, Sound, ParentsAreExecutions
<1>2. RequestsInv => ScopedEventsAreTheCallers
  BY DEF RequestsInv, Sound, ToTheCaller, ScopedEventsAreTheCallers
<1>3. ASSUME RequestsInv, NEW c \in CallIds
      PROVE  /\ calls[c].published # <<>> /\ OneAtEachLevel(ActionConfiguration(calls[c].viewset, calls[c].action))
                   => Len(calls[c].published) = 1
             /\ \A i \in DOMAIN calls[c].published :
                   ~HasScope(calls[c].viewset) /\ HasOnePath(calls[c].viewset, calls[c].action) =>
                       /\ calls[c].published[i].scope = "none"
                       /\ \E j \in PlacesFor(calls[c].viewset) :
                             PathMatches(app.places[j].base, calls[c].published[i].topic)
  <2>1. EventsAtHome(calls[c], app, calls[c].published)
    BY <1>3 DEF RequestsInv, Gated, Homed
  <2>2. \A topic : AtHome(app, calls[c].viewset, topic) =>
                       \E j \in PlacesFor(calls[c].viewset) : PathMatches(app.places[j].base, topic)
    BY DEF AtHome, PlacesFor
  <2> QED
    BY <2>1, <2>2, Zenon DEF EventsAtHome
<1>4. RequestsInv => EventsGoHome
  BY <1>1, <1>2, <1>3, Zenon DEF EventsGoHome
<1> QED
  BY <1>4, RequestsIsInvariant, PTL
=============================================================================
