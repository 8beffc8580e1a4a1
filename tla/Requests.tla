------------------------------- MODULE Requests -------------------------------
(* The way of a call through the server (lifecycle_runner): the route, the  *)
(* checks of the viewsets above and of its own, the state a viewset loads   *)
(* and saves around the call, the context with the user, the command chain, *)
(* the execution, and the answer, over HTTP or a muxws stream. A call of a  *)
(* deferred action is handed to a worker, where the same runner executes it *)
(* in a call of its own, with the context and the parents it is given. A    *)
(* write publishes its event where it executes (ChangeEvents), to the topic *)
(* and the scope that the context carries from the web process. A resolver  *)
(* of a scope answers the user, and no option names a topic. The sessions,  *)
(* the Redis key of a state and the application's viewsets are modelled     *)
(* from their use.                                                          *)
EXTENDS RouteTable

CONSTANTS
    Routings,      \* what applications route: sequences of viewsets, each with its base path and flags
    RequestKinds,  \* the requests of the clients: path, method, transport, caller
    CallIds,       \* numbers, in the order in which the calls begin
    Dispatched,    \* which deferred actions an executing action may call
    Topics,        \* the topics that a subscribe or a poll may name
    DjangoCallers, \* the callers with a session of Django, whose user travels as the session's key
    MaxCursors,    \* settings.viewsets_event_max_subscriptions: how many topics a poll may name
    MaxArrivals,   \* bounds the requests of the clients
    MaxTroubles    \* bounds what goes wrong

Callers == {k.caller : k \in RequestKinds} \cup {Nobody}

ASSUME RequestsAssumption ==
    /\ CallIds \subseteq Nat \ {0} /\ MaxArrivals \in Nat /\ MaxTroubles \in Nat /\ MaxCursors \in Nat
    /\ DjangoCallers \subseteq Callers
    /\ Callers \cap {"unread", "absent", "deferred"} = {}
    /\ \A roots \in Routings :
          /\ roots \in Seq(Range(roots))
          /\ \A i \in DOMAIN roots :
                roots[i].viewset \in DOMAIN Classes /\ roots[i].base \in Seq(Range(roots[i].base))
    /\ \A path \in {k.path : k \in RequestKinds} \cup Topics : path \in Seq(Range(path))
    /\ \A to \in Dispatched : to.viewset \in DOMAIN Classes

VARIABLES
    app,        \* the viewsets it routes, and the places made of them when it starts
    sessions,   \* the callers whose session is alive
    stored,     \* stored[c]: the saved state of class c, the calls that changed it
    shared,     \* shared[p][c]: the state of c's singleton instance in process p
    calls,
    troubles

requestVars == <<app, sessions, stored, shared, calls, troubles>>

Apps == Applications(Routings)

(* `user` is the context's user once awaited; `state` that of the call's    *)
(* own instance; `parents` what its executions report as their parent.      *)
(* History: `passed` are the checks that admitted it, `checked` the user    *)
(* they saw, `seen` the one the action saw, `alone` whether no other call   *)
(* overlapped it. `by` is the call that dispatched it, as its own `relayed` *)
(* or from its action. `topic` and `key` are what the context carries for   *)
(* its events, `home` where its write publishes, `published` what it did.   *)
(* `asked` are the topics that the action has named, `asking` the one under *)
(* way with the gates left to ask, `kept` the request's kept verdicts.      *)
NotAsking == [place |-> 0, topic |-> <<>>, left |-> <<>>, users |-> <<>>]

NewCall ==
    [pc |-> "idle", viewset |-> "", action |-> "", transport |-> "", method |-> "", caller |-> Nobody, at |-> <<>>,
     gates |-> <<>>, user |-> "unread", state |-> {}, parents |-> <<>>, answer |-> 0, streaming |-> TRUE,
     passed |-> <<>>, checked |-> "unread", seen |-> "unread", ran |-> 0, alone |-> TRUE,
     by |-> 0, relayed |-> FALSE, asked |-> <<>>, asking |-> NotAsking, kept |-> {}, follows |-> {},
     topic |-> <<>>, key |-> "absent", home |-> <<>>, published |-> <<>>]

Trouble == troubles < MaxTroubles /\ troubles' = troubles + 1

Under(c) == calls[c].pc \notin {"idle", "answered", "collected"}

With(c, fields) == [calls EXCEPT ![c] = [f \in DOMAIN NewCall |-> IF f \in DOMAIN fields THEN fields[f] ELSE @[f]]]

(* Calls are numbered as they begin.                                        *)
NextCall(c) == calls[c].pc = "idle" /\ \A d \in CallIds : d < c => calls[d].pc # "idle"

WorkerCall(c) == calls[c].by # 0

Process(c) == IF WorkerCall(c) THEN "worker" ELSE "web"

ResolvedUser(c) == IF calls[c].caller \in sessions THEN calls[c].caller ELSE Nobody

Deferred(c) == calls[c].action \in Classes[calls[c].viewset].deferred /\ ~WorkerCall(c)

Stateful(c) ==
    Classes[calls[c].viewset].state /\ Classes[calls[c].viewset].lifecycle \in {"singleton", "instance-key"}

Singleton(c) == Classes[calls[c].viewset].lifecycle = "singleton"

Answered(status) == [pc |-> "answered", answer |-> status]

(* Calls that are under way together overlap, but for a call and its relay. *)
Overlapping(c, started) ==
    LET apart(d) == ~Under(d) \/ (started.relayed /\ d = started.by)
    IN [d \in CallIds |->
           IF d = c THEN [started EXCEPT !.alone = \A e \in CallIds : apart(e)]
           ELSE [calls[d] EXCEPT !.alone = @ /\ apart(d)]]

------------------------------------------------------------------------------
(* An HTTP request, or a muxws command that process_command turns into one. *)
Arrive(c, request) ==
    LET i == Served(app.places, request)
        arrived == [NewCall EXCEPT !.caller = request.caller, !.at = request.path, !.transport = request.transport,
                                   !.method = request.method]
    IN /\ NextCall(c)
       /\ Cardinality({d \in CallIds : calls[d].pc # "idle" /\ ~WorkerCall(d)}) < MaxArrivals
       /\ calls' = IF i = 0
                   THEN [calls EXCEPT ![c] = [arrived EXCEPT !.pc = "answered", !.answer = Unserved(app.places, request)]]
                   ELSE Overlapping(c, [arrived EXCEPT !.pc = "gates", !.gates = app.places[i].gates,
                                            !.viewset = app.places[i].viewset,
                                            !.action = RouteAt(app.places[i], request).action])
       /\ UNCHANGED <<app, sessions, stored, shared, troubles>>

Refusal(config, action) ==
    Answered(IF Misconfigured(config) THEN 500
                ELSE IF \E i \in DOMAIN EffectiveMiddlewares(config) :
                           /\ MiddlewareOf[EffectiveMiddlewares(config)[i]] = "Session"
                           /\ ~Admits(EffectiveMiddlewares(config)[i], config, action, Nobody)
                THEN 401 ELSE 403)

(* A viewset above: its check has a context of its own.                     *)
PassGate(c) ==
    /\ calls[c].pc = "gates" /\ calls[c].gates # <<>>
    /\ LET gate == Head(calls[c].gates)
       IN calls' = With(c, IF AllAdmit(gate.config, gate.action, ResolvedUser(c))
                          THEN [gates |-> Tail(calls[c].gates),
                                passed |-> Append(calls[c].passed, <<gate.viewset, gate.action>>)]
                          ELSE Refusal(gate.config, gate.action))
    /\ UNCHANGED <<app, sessions, stored, shared, troubles>>

(* The call's own depends(): get_shared_context builds the context that the *)
(* chains and the action then use.                                          *)
RunDepends(c) ==
    /\ calls[c].pc = "gates" /\ calls[c].gates = <<>>
    /\ LET config == ActionConfiguration(calls[c].viewset, calls[c].action)
           user == IF AwaitsUser(config, calls[c].action) THEN ResolvedUser(c) ELSE "unread"
       IN calls' = With(c, IF AllAdmit(config, calls[c].action, user)
                          THEN [pc |-> "load", user |-> user, checked |-> user,
                                passed |-> Append(calls[c].passed, <<calls[c].viewset, calls[c].action>>)]
                          ELSE Refusal(config, calls[c].action))
    /\ UNCHANGED <<app, sessions, stored, shared, troubles>>

(* run_with_state: load_state before anything else of the call. One that    *)
(* raises ends the call, with nothing to save.                              *)
LoadState(c) ==
    /\ calls[c].pc = "load"
    /\ \/ /\ calls' = With(c, [pc |-> IF WorkerCall(c) THEN "execute" ELSE "chain",
                              state |-> IF Stateful(c) THEN stored[calls[c].viewset] ELSE {}])
          /\ shared' = IF Stateful(c) /\ Singleton(c)
                       THEN [shared EXCEPT ![Process(c)][calls[c].viewset] = stored[calls[c].viewset]] ELSE shared
          /\ UNCHANGED troubles
       \/ Stateful(c) /\ Trouble /\ calls' = With(c, Answered(500)) /\ UNCHANGED shared
    /\ UNCHANGED <<app, sessions, stored>>

(* ChangeEvents: the instances in the chain of a call; those configured as  *)
(* keys publish instead of the global ones, and a False turns one off.      *)
WriteActions ==
    {"create", "bulk_create", "update", "partial_update", "bulk_update", "bulk_partial_update", "destroy",
     "bulk_destroy"}

EventMiddlewares(config) == {m \in Range(EffectiveMiddlewares(config)) : MiddlewareOf[m] = "ChangeEvents"}

ReplacedFor(config, m) ==
    LET injected == DOMAIN config \cap EventMiddlewares(config) IN injected # {} /\ m \notin injected

EventConfig(config, m, action) ==
    LET own == ConfigurationFor(config, m, action)
    IN IF own # Unset THEN own ELSE ConfigurationFor(config, "ChangeEvents", action)

Enabled(config, m, action) ==
    LET value == EventConfig(config, m, action) IN value.kind = "flag" => value.on

Publishers(config, action) ==
    {m \in EventMiddlewares(config) :
        action \in WriteActions /\ Enabled(config, m, action) /\ ~ReplacedFor(config, m)}

CarriesScope(config, m, action) == action \in WriteActions => Enabled(config, m, action)

(* The path of the request without that of the action below its viewset.    *)
RoutedBasePath(c) ==
    LET routes == Classes[calls[c].viewset].routes
        own == routes[FirstIn({i \in DOMAIN routes : routes[i].action = calls[c].action})]
    IN SubSeq(calls[c].at, 1, Len(calls[c].at) - Len(own.path))

HasScope(viewset) == Classes[viewset].scope # "none"

CarriedEvents(c) ==
    LET config == ActionConfiguration(calls[c].viewset, calls[c].action)
    IN [topic |-> IF EventMiddlewares(config) # {} THEN RoutedBasePath(c) ELSE <<>>,
        key |-> IF HasScope(calls[c].viewset)
                   /\ \E m \in EventMiddlewares(config) : CarriesScope(config, m, calls[c].action)
                THEN "deferred" ELSE "absent"]

(* The command chain: ChangeEvents puts the topic and the deferred key into *)
(* the context; a middleware may answer without call_next, or raise.        *)
EnterChain(c) ==
    /\ calls[c].pc = "chain"
    /\ \/ LET carried == CarriedEvents(c)
          IN calls' = With(c, [pc |-> "execute", topic |-> carried.topic, key |-> carried.key]) /\ UNCHANGED troubles
       \/ /\ Trouble
          /\ \E status \in {200, 500} : calls' = With(c, [pc |-> "save", answer |-> status])
    /\ UNCHANGED <<app, sessions, stored, shared>>

(* __viewset_metadata__["base_path"]: of the place that was routed last.    *)
PlacesFor(viewset) == {i \in DOMAIN app.places : app.places[i].viewset = viewset}

BasePath(viewset) ==
    LET last == CHOOSE i \in PlacesFor(viewset) : \A j \in PlacesFor(viewset) : j <= i IN app.places[last].base

(* Mutant of TopicFor: a call from an action publishes to the topic of the  *)
(* request's viewset.                                                       *)
TopicCarried(c) == IF calls[c].topic # <<>> THEN calls[c].topic ELSE BasePath(calls[c].viewset)

(* What the context carries is for the viewset of the request: an execution *)
(* with a parent is of another one.                                         *)
TopicFor(c) ==
    IF calls[c].parents = <<>> /\ calls[c].topic # <<>> THEN calls[c].topic ELSE BasePath(calls[c].viewset)

(* topic_for raises for a viewset that no application routes.               *)
HasTopic(c) == (calls[c].parents = <<>> /\ calls[c].topic # <<>>) \/ PlacesFor(calls[c].viewset) # {}

ScopeKey(c, user) ==
    IF calls[c].parents = <<>> /\ calls[c].key \notin {"absent", "deferred"} THEN calls[c].key ELSE user

PublishersOf(c) == Publishers(ActionConfiguration(calls[c].viewset, calls[c].action), calls[c].action)

(* _resolve_topic: the store topic of each event, resolved before the action*)
(* runs; none where a scope has no key.                                     *)
ResolveHome(c, user) ==
    LET scope == Classes[calls[c].viewset].scope
        home == IF HasScope(calls[c].viewset) THEN [scope |-> scope, key |-> ScopeKey(c, user), topic |-> <<>>]
                ELSE [scope |-> scope, key |-> Nobody, topic |-> TopicFor(c)]
    IN IF HasScope(calls[c].viewset) /\ home.key = Nobody THEN <<>>
       ELSE [i \in 1..Cardinality(PublishersOf(c)) |-> home]

NoTopic(c) == ~HasScope(calls[c].viewset) /\ PublishersOf(c) # {} /\ ~HasTopic(c)

(* Mutant of Execute: the action's context is another than the checks'.     *)
ExecuteAnew(c) ==
    /\ calls[c].pc = "execute" /\ ~Deferred(c)
    /\ calls' = With(c, [pc |-> "running", user |-> ResolvedUser(c), seen |-> ResolvedUser(c),
                         ran |-> calls[c].ran + 1, home |-> ResolveHome(c, ResolvedUser(c))])
    /\ UNCHANGED <<app, sessions, stored, shared, troubles>>

(* call_bound: the execution chain and the method, which reads the user.    *)
Execute(c) ==
    /\ calls[c].pc = "execute" /\ ~Deferred(c)
    /\ LET user == IF calls[c].user = "unread" THEN ResolvedUser(c) ELSE calls[c].user
       IN calls' = With(c, IF NoTopic(c) THEN [pc |-> "save", answer |-> 500]
                          ELSE [pc |-> "running", user |-> user, seen |-> user, ran |-> calls[c].ran + 1,
                                key |-> IF calls[c].key = "deferred" THEN user ELSE calls[c].key,
                                home |-> ResolveHome(c, user)])
    /\ UNCHANGED <<app, sessions, stored, shared, troubles>>

(* current_call().parent_of_dispatch(): the execution under way, else what  *)
(* the call itself was given.                                               *)
ParentsOfDispatch(c) ==
    IF calls[c].pc = "running" THEN <<<<calls[c].viewset, calls[c].action>>>> \o calls[c].parents
    ELSE calls[c].parents

(* Mutant of Travels: every user travels as its recipe alone.               *)
TravelsAsRecipe(caller, user) == "unread"

(* The user travels with its recipe once it was read, and Django's as the   *)
(* key of the session alone: the worker reads it again.                     *)
Travels(caller, user) == IF caller \in DjangoCallers THEN "unread" ELSE user

(* A worker is handed the context, its deferred key awaited first.          *)
HandOver(c, d, viewset, action) ==
    LET awaited == calls[c].key = "deferred"
        read == IF awaited /\ calls[c].user = "unread" THEN ResolvedUser(c) ELSE calls[c].user
        key == IF awaited THEN read ELSE calls[c].key
    IN /\ NextCall(d)
       /\ calls' = [Overlapping(d, [NewCall EXCEPT !.pc = "load", !.viewset = viewset, !.action = action,
                                       !.caller = calls[c].caller, !.user = Travels(calls[c].caller, read),
                                       !.by = c, !.relayed = Deferred(c), !.parents = ParentsOfDispatch(c),
                                       !.topic = calls[c].topic, !.key = key])
                      EXCEPT ![c].pc = IF Deferred(c) THEN "handed" ELSE "waiting",
                             ![c].user = read, ![c].key = key]
       /\ UNCHANGED <<app, sessions, stored, shared, troubles>>

HandOn(c, d) ==
    calls[c].pc = "execute" /\ Deferred(c) /\ HandOver(c, d, calls[c].viewset, calls[c].action)

(* An executing action calls a deferred action, of its viewset or another.  *)
Dispatch(c, d) ==
    /\ calls[c].pc = "running"
    /\ \E to \in Dispatched : /\ to.by = <<calls[c].viewset, calls[c].action>>
                            /\ HandOver(c, d, to.viewset, to.action)

Result(c) ==
    /\ calls[c].pc \in {"waiting", "handed"}
    /\ \E d \in CallIds :
          /\ calls[d].by = c /\ calls[d].pc = "answered"
          /\ calls' = [With(c, IF calls[c].pc = "handed" THEN [pc |-> "save", answer |-> calls[d].answer]
                              ELSE [pc |-> "running"])
                          EXCEPT ![d].pc = "collected"]
    /\ UNCHANGED <<app, sessions, stored, shared, troubles>>

------------------------------------------------------------------------------
(* What an action follows. authorize_topic asks ViewsetTopics, with the     *)
(* route that lists the topic's records: the checks of the viewsets above   *)
(* it, each with a context of its own, and then its depends(). For a class  *)
(* with an event scope they are asked by a gate run, on a copy of the       *)
(* request without its context, which answers the key of the scope and is   *)
(* kept for the request; for another class depends() has the call's context.*)
DependsAdmit(place, user) ==
    LET list == GateAction(place.viewset) IN AllAdmit(ActionConfiguration(place.viewset, list), list, user)

(* The values that the topic has for the parameters of the path.            *)
ParametersOf(place, topic) == [k \in {k \in DOMAIN topic : place.base[k] = "{pk}"} |-> topic[k]]

(* Mutant of VerdictKey: a class is asked once, wherever it is routed.      *)
VerdictOfClass(i, topic) == [viewset |-> app.places[i].viewset]

(* A verdict is kept for the class, its action and the route (a place here) *)
(* and the parameters of its path.                                          *)
VerdictKey(i, topic) == [place |-> i, parameters |-> ParametersOf(app.places[i], topic)]

(* subscribe names one topic, a poll several.                               *)
MayAsk(c) ==
    /\ calls[c].pc = "running"
    /\ \/ calls[c].action = "subscribe" /\ calls[c].asked = <<>>
       \/ calls[c].action = "poll" /\ Len(calls[c].asked) < MaxCursors

(* Whom the checks of a topic saw, and under whose key it is followed.      *)
ResolvedTopic(topic, verdict) ==
    [topic |-> topic, users |-> verdict.users, fresh |-> verdict.fresh, user |-> verdict.user,
     scope |-> verdict.scope]

(* A path is named again where the topic spells a parameter differently and *)
(* the converted value is the same.                                         *)
Ask(c, topic) ==
    LET i == MatchViewset(app.places, topic)
        kept == {v \in calls[c].kept : v.key = VerdictKey(i, topic)}
    IN /\ MayAsk(c) /\ i # 0
       /\ topic \in Range(calls[c].asked) => "{pk}" \in Range(app.places[i].base)
       /\ calls' = With(c, IF kept # {}
                          THEN [asked |-> Append(calls[c].asked, topic),
                                follows |-> calls[c].follows
                                            \cup {ResolvedTopic(topic, v) : v \in {k \in kept : k.admitted}}]
                          ELSE [pc |-> "asking", asked |-> Append(calls[c].asked, topic),
                                asking |-> [place |-> i, topic |-> topic, left |-> app.places[i].gates,
                                            users |-> <<>>]])
       /\ UNCHANGED <<app, sessions, stored, shared, troubles>>

(* The topic under way is decided, and the verdict of a gate run kept.      *)
Decided(c, admitted, user) ==
    LET asking == calls[c].asking
        viewset == app.places[asking.place].viewset
        verdict == [key |-> VerdictKey(asking.place, asking.topic), admitted |-> admitted,
                    users |-> asking.users, fresh |-> ResolvedUser(c), user |-> user,
                    scope |-> Classes[viewset].scope]
    IN [pc |-> "running", asking |-> NotAsking,
        kept |-> calls[c].kept \cup (IF HasScope(viewset) THEN {verdict} ELSE {}),
        follows |-> calls[c].follows \cup (IF admitted THEN {ResolvedTopic(asking.topic, verdict)} ELSE {})]

(* A viewset above the topic's: a dependency of the route.                  *)
AskGate(c) ==
    LET asking == calls[c].asking
        gate == Head(asking.left)
        user == ResolvedUser(c)
    IN /\ calls[c].pc = "asking" /\ asking.left # <<>>
       /\ calls' = With(c, IF AllAdmit(gate.config, gate.action, user)
                          THEN [asking |-> [asking EXCEPT !.left = Tail(@), !.users = Append(@, user)]]
                          ELSE Decided(c, FALSE, user))
       /\ UNCHANGED <<app, sessions, stored, shared, troubles>>

(* Mutant of Follow: a scope is keyed by the user of the call's own checks. *)
FollowAsChecked(c) ==
    LET asking == calls[c].asking
        place == app.places[asking.place]
        user == calls[c].user
    IN /\ calls[c].pc = "asking" /\ asking.left = <<>>
       /\ calls' = With(c, Decided(c, DependsAdmit(place, user) /\ (HasScope(place.viewset) => user # Nobody), user))
       /\ UNCHANGED <<app, sessions, stored, shared, troubles>>

(* The topic's own viewset, and its scope: nobody has no key.               *)
Follow(c) ==
    LET asking == calls[c].asking
        place == app.places[asking.place]
        user == IF HasScope(place.viewset) THEN ResolvedUser(c) ELSE calls[c].user
    IN /\ calls[c].pc = "asking" /\ asking.left = <<>>
       /\ calls' = With(c, Decided(c, DependsAdmit(place, user) /\ (HasScope(place.viewset) => user # Nobody), user))
       /\ UNCHANGED <<app, sessions, stored, shared, troubles>>

------------------------------------------------------------------------------
(* The method returns, and the event is published; or it raises with what it*)
(* has changed so far, or the publishing does, which may have stored it.    *)
Finish(c) ==
    /\ calls[c].pc = "running"
    /\ \/ calls' = With(c, [pc |-> "save", answer |-> 200, state |-> calls[c].state \cup {c},
                            published |-> calls[c].home])
          /\ UNCHANGED troubles
       \/ /\ Trouble
          /\ \E published \in {<<>>, calls[c].home} :
                calls' = With(c, [pc |-> "save", answer |-> 500, state |-> calls[c].state \cup {c},
                                  published |-> published])
    /\ shared' = IF Singleton(c) THEN [shared EXCEPT ![Process(c)][calls[c].viewset] = @ \cup {c}] ELSE shared
    /\ UNCHANGED <<app, sessions, stored>>

(* Mutant of SaveState: a call that raised saves nothing.                   *)
SaveResult(c) ==
    /\ calls[c].pc = "save"
    /\ calls' = With(c, Answered(calls[c].answer))
    /\ stored' = IF Stateful(c) /\ calls[c].answer = 200
                 THEN [stored EXCEPT ![calls[c].viewset] =
                          IF Singleton(c) THEN shared[Process(c)][calls[c].viewset] ELSE calls[c].state]
                 ELSE stored
    /\ UNCHANGED <<app, sessions, shared, troubles>>

(* save_state in the finally block, then the answer.                        *)
SaveState(c) ==
    /\ calls[c].pc = "save"
    /\ calls' = With(c, Answered(calls[c].answer))
    /\ stored' = IF Stateful(c)
                 THEN [stored EXCEPT ![calls[c].viewset] =
                          IF Singleton(c) THEN shared[Process(c)][calls[c].viewset] ELSE calls[c].state]
                 ELSE stored
    /\ UNCHANGED <<app, sessions, shared, troubles>>

(* The stream of a command ends: the shielded request runs on, detached.    *)
StreamEnds(c) ==
    /\ Under(c) /\ calls[c].transport = "muxws" /\ calls[c].streaming
    /\ Trouble
    /\ calls' = With(c, [streaming |-> FALSE])
    /\ UNCHANGED <<app, sessions, stored, shared>>

SessionEnds(user) ==
    /\ user \in sessions /\ Trouble
    /\ sessions' = sessions \ {user}
    /\ UNCHANGED <<app, stored, shared, calls>>

------------------------------------------------------------------------------
RequestsInit ==
    /\ app \in Apps
    /\ sessions = {k.caller : k \in RequestKinds} \ {Nobody}
    /\ stored = [v \in DOMAIN Classes |-> {}]
    /\ shared = [p \in {"web", "worker"} |-> [v \in DOMAIN Classes |-> {}]]
    /\ calls = [c \in CallIds |-> NewCall]
    /\ troubles = 0

Runs(c) ==
    \/ \E request \in RequestKinds : Arrive(c, request)
    \/ PassGate(c) \/ RunDepends(c) \/ LoadState(c) \/ EnterChain(c) \/ Execute(c)
    \/ \E d \in CallIds : HandOn(c, d) \/ Dispatch(c, d)
    \/ \E topic \in Topics : Ask(c, topic)
    \/ AskGate(c) \/ Follow(c)
    \/ Result(c) \/ Finish(c) \/ SaveState(c) \/ StreamEnds(c)

RequestsNext ==
    \/ \E c \in CallIds : Runs(c)
    \/ \E user \in sessions : SessionEnds(user)

RequestsSpec == RequestsInit /\ [][RequestsNext]_requestVars
------------------------------------------------------------------------------
RequestsTypeOK ==
    /\ app \in Apps /\ sessions \subseteq Callers
    /\ \A v \in DOMAIN Classes : stored[v] \subseteq CallIds
    /\ \A p \in {"web", "worker"}, v \in DOMAIN Classes : shared[p][v] \subseteq CallIds
    /\ \A c \in CallIds :
          /\ DOMAIN calls[c] = DOMAIN NewCall
          /\ calls[c].pc \in {"idle", "gates", "load", "chain", "execute", "running", "asking", "waiting",
                              "handed", "save", "answered", "collected"}
          /\ calls[c].state \subseteq CallIds
          /\ calls[c].user \in {calls[c].caller, Nobody, "unread"}
          /\ calls[c].key \in {calls[c].caller, Nobody, "absent", "deferred"}
          /\ calls[c].by \in CallIds \cup {0}
    /\ troubles \in 0..MaxTroubles

(* The action of a request has been executed, by its call or by the one that*)
(* a worker executes for it.                                                *)
Executed(c) ==
    /\ ~WorkerCall(c)
    /\ calls[c].ran > 0 \/ \E d \in CallIds : calls[d].by = c /\ calls[d].relayed /\ calls[d].ran > 0

(* Of the gates: an action runs only for a request that passed the check of *)
(* every viewset above its own, from the outermost inwards, each named by   *)
(* the segment of the path that leads to the next, and then that of its own;*)
(* and no viewset mounted further down the path would have served it        *)
(* (route_viewset.py 414-444).                                              *)
LeadsTo(base, at) == Len(base) <= Len(at) /\ PathMatches(base, SubSeq(at, 1, Len(base)))

GatesPassed ==
    \A c \in CallIds :
        LET passed == calls[c].passed
            above == Len(passed) - 1
        IN Executed(c) =>
            \E i \in DOMAIN app.roots :
                LET base == app.roots[i].base
                IN /\ Len(base) + above <= Len(calls[c].at) /\ LeadsTo(base, calls[c].at)
                   /\ passed[1][1] = app.roots[i].viewset
                   /\ \A k \in 1..above :
                         \E mount \in Range(Classes[passed[k][1]].mounts) :
                             /\ mount.path = calls[c].at[Len(base) + k] /\ passed[k][2] = mount.path
                             /\ passed[k + 1][1] = mount.viewset
                   /\ passed[above + 1] = <<calls[c].viewset, calls[c].action>>
                   /\ \A j \in DOMAIN app.places :
                         LET place == app.places[j]
                         IN place.root = i /\ Len(place.chain) > above /\ LeadsTo(place.base, calls[c].at)
                               => \A route \in RoutesAt(place) :
                                     ~Serves(place, route, [path |-> calls[c].at, transport |-> calls[c].transport,
                                                            method |-> calls[c].method])

(* The most specific place that configures the session check decides: the   *)
(* perform method, then the action, the class and the defaults. Where it    *)
(* requires a user, an action runs only for a caller with one.              *)
Layers(viewset, action) ==
    <<IF action \in DOMAIN PerformMethodOf THEN MethodConfiguration(viewset, PerformMethodOf[action]) ELSE <<>>,
      MethodConfiguration(viewset, action), Classes[viewset].config, DefaultConfiguration>>

Decides(viewset, action, class) ==
    LET layers == Layers(viewset, action)
        naming == {i \in DOMAIN layers : class \in DOMAIN layers[i]}
    IN IF naming = {} THEN Unset ELSE ByAction(layers[FirstIn(naming)][class], action)

UserWhereRequired ==
    \A c \in CallIds :
        /\ Executed(c)
        /\ \E i \in DOMAIN GlobalMiddleware : MiddlewareOf[GlobalMiddleware[i]] = "Session"
        /\ SessionRequired(Decides(calls[c].viewset, calls[c].action, "Session"))
        => calls[c].checked \notin {Nobody, "unread"}

(* No action runs ahead of a check: neither of those of the viewsets above  *)
(* its own (sub_viewsets.py 1-6, route_viewset.py 424), nor of the session  *)
(* that the place which decides requires (action_configuration.py 62-75).   *)
ChecksBeforeAction == GatesPassed /\ UserWhereRequired

(* A request has one user: its own checks, what it hands to a worker and the*)
(* actions that it executes read the same one, in the web process and in the*)
(* workers, though the session may end in between (context/__init__.py      *)
(* 117-128, 361-364). A user of Django is read again in a worker: it is the *)
(* same there, or nobody when the session has ended (auth/django.py 51-52). *)
UsersRead(c) == {calls[c].checked, calls[c].seen, calls[c].user} \ {"unread"}

OneUserPerRequest ==
    \A c \in CallIds :
        /\ \A u, v \in UsersRead(c) : u = v
        /\ WorkerCall(c) =>
              \A u \in UsersRead(calls[c].by), v \in UsersRead(c) :
                  \/ v = u
                  \/ calls[c].caller \in DjangoCallers \ sessions /\ v = Nobody

(* What a call changes of the state that its viewset saves is saved, also   *)
(* where it raises, unless another call overlaps it (docs/guide/lifecycle.md*)
(* 36-52, "save_state is called even if the endpoint raises").              *)
Kept(c) ==
    calls[c].pc \in {"answered", "collected"} /\ calls[c].ran > 0 /\ calls[c].alone /\ Stateful(c)
        => c \in stored[calls[c].viewset]

AloneNothingIsLost == \A c \in CallIds : ~calls[c].relayed => Kept(c)

(* The same of a call that a worker executes for a deferred action.         *)
DeferredStateIsKept == \A c \in CallIds : calls[c].relayed => Kept(c)

(* The parents that an execution reports are the actions that were executing*)
(* when it was dispatched, the innermost first (middleware 102-108, 144).   *)
ParentsAreExecutions ==
    \A c \in CallIds :
        LET by == calls[c].by
        IN calls[c].parents =
              IF by = 0 THEN <<>>
              ELSE (IF calls[by].ran > 0 THEN <<<<calls[by].viewset, calls[by].action>>>> ELSE <<>>)
                   \o calls[by].parents

(* The events of a scope go to the caller whose request wrote the record.   *)
ScopedEventsAreTheCallers ==
    \A c \in CallIds : \A i \in DOMAIN calls[c].published :
        HasScope(calls[c].viewset) =>
            /\ calls[c].published[i].scope = Classes[calls[c].viewset].scope
            /\ calls[c].published[i].key = calls[c].caller /\ calls[c].caller # Nobody

OneAtEachLevel(config) ==
    /\ Cardinality(DOMAIN config \cap EventMiddlewares(config)) <= 1
    /\ Cardinality({m \in Range(GlobalMiddleware) : MiddlewareOf[m] = "ChangeEvents"}) <= 1

(* paths.setdefault: an event's topic is what the first path of its action  *)
(* leaves of the request's, so one with paths of several lengths has none.  *)
HasOnePath(viewset, action) ==
    \A p, q \in {r \in Range(Classes[viewset].routes) : r.action = action} : Len(p.path) = Len(q.path)

(* A write publishes to the topic that its own viewset's records are listed *)
(* at, or under the key of the caller whose request wrote it: never to the  *)
(* viewset or the scope of a call that it was dispatched in. What it was    *)
(* dispatched in is what its parents say. An instance that an action injects*)
(* replaces the global one, so each write has one event (changes.py 151-212,*)
(* scopes.py 254-286).                                                      *)
EventsGoHome ==
    /\ ParentsAreExecutions /\ ScopedEventsAreTheCallers
    /\ \A c \in CallIds :
           /\ calls[c].published # <<>> /\ OneAtEachLevel(ActionConfiguration(calls[c].viewset, calls[c].action))
                 => Len(calls[c].published) = 1
           /\ \A i \in DOMAIN calls[c].published :
                 ~HasScope(calls[c].viewset) /\ HasOnePath(calls[c].viewset, calls[c].action) =>
                     /\ calls[c].published[i].scope = "none"
                     /\ \E j \in PlacesFor(calls[c].viewset) :
                           PathMatches(app.places[j].base, calls[c].published[i].topic)

(* A topic is followed only by who passes, with the action that lists its   *)
(* records, the checks of its viewset and of every viewset above it, each   *)
(* asked for this topic's own place; and the store topic of a scope is that *)
(* of the user whom its check saw, whoever asked before and whatever the    *)
(* request keeps of earlier topics (authorizers.py 201-206, scopes.py       *)
(* 182-198, 241-244).                                                       *)
FollowersMayList ==
    \A c \in CallIds : \A f \in calls[c].follows :
        \E i \in DOMAIN app.roots : \E chain \in ChainsUnder(app.roots[i].viewset) :
            LET base == app.roots[i].base
                inner == Innermost(app.roots[i].viewset, chain)
                list == GateAction(inner)
            IN /\ Len(base) + Len(chain) = Len(f.topic) /\ LeadsTo(base, f.topic)
               /\ Len(f.users) = Len(chain)
               /\ \A k \in DOMAIN chain :
                     LET mount == MountOf(chain[k])
                     IN /\ mount.path = f.topic[Len(base) + k]
                        /\ AllAdmit(GateOf(chain[k][1], mount).config, mount.path, f.users[k])
               /\ list # "none" /\ AllAdmit(ActionConfiguration(inner, list), list, f.user)
               /\ f.scope = Classes[inner].scope
               /\ f.scope # "none" => f.user # Nobody /\ f.user = f.fresh
=============================================================================
