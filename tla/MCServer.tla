------------------------------ MODULE MCServer --------------------------------
(***************************************************************************)
(* The server without its events: six components that share no state in   *)
(* this model, each on its own in a part of the run while the others are   *)
(* at rest in one of their initial states.                                 *)
(***************************************************************************)
EXTENDS Lists, Records, Requests, RateLimiter, Contexts, Executor

------------------------------------------------------------------------------
(* Lists: orderings with ties and NULLs, filters for SQL and for memory     *)

Key(name, desc) == [name |-> name, desc |-> desc]

ByVal     == <<Key("val", FALSE)>>
ByValDown == <<Key("val", TRUE), Key("pk", TRUE)>>
ByTag     == <<Key("tag", FALSE), Key("val", TRUE)>>

Declared(lookup, field, value) ==
    [handmade |-> FALSE, lookup |-> lookup, field |-> field, value |-> value]

HandMade == [handmade |-> TRUE, lookup |-> "exact", field |-> "tag", value |-> 1]

Query(shape, sort, fltr, offset) ==
    [shape |-> shape, sort |-> sort, fltr |-> fltr, offset |-> offset, limit |-> 1]

ServerRows == {[pk |-> k, val |-> v, tag |-> k % 2] : k \in 1..3, v \in {null, 0, 1}}

ServerQueries ==
    {Query("cursor", ByValDown, null, 0),
     Query("cursor", ByTag, Declared("gte", "pk", 2), 0),
     Query("cursor", ByVal, Declared("overlaps", "tag", 1), 0),
     Query("cursor", ByVal, HandMade, 0),
     Query("paginated", ByValDown, Declared("lt", "val", 1), 1),
     Query("plain", ByVal, Declared("isnull", "val", 0), 0),
     Query("plain", ByVal, HandMade, 0),
     Query("lookup", ByTag, Declared("gte", "val", 1), 0)}

------------------------------------------------------------------------------
(* Records: two rows, updates that overlap and together break a rule over   *)
(* both columns, in opposite orders                                         *)

Row(a, b) == [c \in Columns |-> IF c = "a" THEN a ELSE b]

Setting(c, v) == [d \in {c} |-> v]

Updates(order, fields) ==
    [op |-> "updated", order |-> order, records |-> [k \in {order[i] : i \in DOMAIN order} |-> fields]]

ServerWrites ==
    {Updates(<<2, 1>>, Setting("a", 1)), Updates(<<1, 2>>, Setting("b", 1)),
     Updates(<<1>>, Row(0, 1)), Updates(<<2, 3>>, Setting("a", 1)),
     [op |-> "deleted", order |-> <<2, 1>>],
     [op |-> "created", order |-> <<None>>], [op |-> "created", order |-> <<2, None>>]}

BlankRow == Row(0, 0)

BothSet == {Row(1, 1)}

TwoRows == RecordsInit /\ rows = [k \in Keys |-> IF k = 3 THEN None ELSE BlankRow]

------------------------------------------------------------------------------
(* Requests: viewsets in viewsets, with checks at every level, state, a     *)
(* deferred action and an events viewset                                    *)

Flag(on)     == [kind |-> "flag", on |-> on]
Check(users) == [kind |-> "check", users |-> users]

Always(value) == [by |-> <<>>, default |-> value]

Varying(action, value, default) == [by |-> [a \in {action} |-> value], default |-> default]

Configured(class, value) == [k \in {class} |-> value]

Route(action, method, path, flag) ==
    [action |-> action, method |-> method, path |-> path, rest |-> flag, mux |-> flag]

ListRoute     == Route("list_items", "GET", <<>>, "none")
CreateRoute   == Route("create", "POST", <<>>, "none")
RetrieveRoute == Route("retrieve", "GET", <<"{pk}">>, "none")

Mount(path, mux, config) ==
    [path |-> path, viewset |-> path, rest |-> "none", mux |-> mux, config |-> config]

Class(routes, mounts, config, methods, lifecycle, state) ==
    [routes |-> routes, mounts |-> mounts, config |-> config, methods |-> methods,
     lifecycle |-> lifecycle, state |-> state, deferred |-> {}, scope |-> "none"]

Orgs ==
    [Class(<<ListRoute, RetrieveRoute>>,
           <<Mount("members", "no", Configured("Authorization", Always(Check({"ann", "dan"}))))>>,
           Configured("Session", Varying("retrieve", Flag(FALSE), Unset)), <<>>, "singleton", FALSE)
     EXCEPT !.scope = "orgs"]

Members ==
    [Class(<<ListRoute, CreateRoute, Route("bulk_create", "POST", <<"bulk">>, "none")>>,
           <<Mount("tags", "none", <<>>)>>,
           Configured("Session", Always(Flag(FALSE))),
           [perform_create |-> Configured("Session", Always(Flag(TRUE))),
            bulk_create |-> Configured("changes", Always(Unset))], "instance-key", TRUE)
     EXCEPT !.deferred = {"bulk_create"}]

Tags ==
    [Class(<<RetrieveRoute, Route("create", "POST", <<>>, "yes")>>, <<>>, <<>>,
           [create |-> Configured("guard", Always(Unset))], "singleton", TRUE)
     EXCEPT !.deferred = {"create"}, !.scope = "tags"]

EventsViewSet ==
    Class(<<[Route("subscribe", "POST", <<"subscribe">>, "yes") EXCEPT !.rest = "no"],
            Route("poll", "POST", <<"poll">>, "none")>>, <<>>,
          Configured("Session", Always(Flag(FALSE))), <<>>, "per-request", FALSE)

(* A mount that the router's own `schema` route would hide. *)
Hiding ==
    Class(<<ListRoute>>, <<[Mount("schema", "none", <<>>) EXCEPT !.viewset = "tags"]>>,
          <<>>, <<>>, "per-request", FALSE)

ServerClasses ==
    [orgs |-> Orgs, members |-> Members, tags |-> Tags, events |-> EventsViewSet, hiding |-> Hiding]

NoConfiguration == <<>>

ServerMiddleware ==
    [session |-> "Session", auth |-> "Authorization", events |-> "ChangeEvents", guard |-> "Session",
     changes |-> "ChangeEvents"]

GlobalInstances == <<"session", "auth", "events">>

Routing(viewset) == [viewset |-> viewset, base |-> <<viewset>>, rest |-> "none", mux |-> "none"]

(* `tags` is also routed on its own, where a topic names a parameter. *)
App == <<Routing("orgs"), [Routing("tags") EXCEPT !.base = <<"t", "{pk}">>], Routing("events")>>

ServerRoutings == {App, <<Routing("hiding")>>}

Request(method, path, transport, caller) ==
    [method |-> method, path |-> path, transport |-> transport, caller |-> caller]

ServerRequests ==
    {Request("GET", <<"orgs", "7">>, "muxws", Nobody),
     Request("POST", <<"orgs", "members">>, "rest", "ann"),
     Request("GET", <<"orgs", "members">>, "muxws", "ann"),
     Request("POST", <<"orgs", "members", "tags">>, "rest", "ann"),
     Request("POST", <<"orgs", "members", "tags">>, "rest", "dan"),
     Request("GET", <<"orgs", "members", "tags", "7">>, "rest", "ann"),
     Request("POST", <<"events", "subscribe">>, "muxws", "ann"),
     Request("POST", <<"events", "poll">>, "rest", "bob")}

ServerTopics == {<<"orgs", "members">>, <<"orgs", "members", "tags">>, <<"t", "7">>}

(* `hiding` is a viewset that the application does not route.               *)
Dispatches ==
    {[by |-> <<"members", "create">>, viewset |-> "tags", action |-> "create"],
     [by |-> <<"members", "create">>, viewset |-> "hiding", action |-> "create"],
     [by |-> <<"tags", "create">>, viewset |-> "members", action |-> "bulk_create"]}

------------------------------------------------------------------------------
(* The parts                                                                *)

VARIABLE part

serverVars == <<part, listVars, recordVars, requestVars, rateVars, contextVars, executorVars>>

ListsRest ==
    /\ site = [backend |-> "memory", nullsFirst |-> TRUE, nullable |-> {"val"}]
    /\ table = [k \in Pks |-> null] /\ query = null /\ page = NoPage
    /\ counted = null /\ walk = NoWalk /\ edits = 0

RecordsRest ==
    RecordsInit /\ backend = "memory" /\ rows = [k \in Keys |-> None] /\ watch.fetch = "rows"

RequestsRest ==
    /\ app \in Apps /\ sessions = {} /\ troubles = 0
    /\ stored = [v \in DOMAIN Classes |-> {}]
    /\ shared = [p \in {"web", "worker"} |-> stored]
    /\ calls = [c \in CallIds |-> NewCall]

RateRest == RateInit /\ ~inRedis /\ windows = [p \in Places |-> [k \in LimitKeys |-> NoWindow]]

ContextsRest == ContextsInit /\ kind = "recipe" /\ truth = CHOOSE a \in Answers : TRUE

ExecutorRest == ExecutorInit /\ pool = "solo"

ServerInit ==
    \/ part = "lists" /\ ListsInit /\ RecordsRest /\ RequestsRest /\ RateRest /\ ContextsRest /\ ExecutorRest
    \/ part = "records" /\ ListsRest /\ TwoRows /\ RequestsRest /\ RateRest /\ ContextsRest /\ ExecutorRest
    \/ part = "requests" /\ ListsRest /\ RecordsRest /\ RequestsInit /\ RateRest /\ ContextsRest /\ ExecutorRest
    \/ part = "rate" /\ ListsRest /\ RecordsRest /\ RequestsRest /\ RateInit /\ ContextsRest /\ ExecutorRest
    \/ part = "contexts" /\ ListsRest /\ RecordsRest /\ RequestsRest /\ RateRest /\ ContextsInit /\ ExecutorRest
    \/ part = "executor" /\ ListsRest /\ RecordsRest /\ RequestsRest /\ RateRest /\ ContextsRest /\ ExecutorInit

ListsStep ==
    part = "lists" /\ ListsNext /\ UNCHANGED <<part, recordVars, requestVars, rateVars, contextVars, executorVars>>

RecordsStep ==
    part = "records" /\ RecordsNext /\ UNCHANGED <<part, listVars, requestVars, rateVars, contextVars, executorVars>>

RequestsStep ==
    part = "requests" /\ RequestsNext /\ UNCHANGED <<part, listVars, recordVars, rateVars, contextVars, executorVars>>

RateStep ==
    part = "rate" /\ RateNext /\ UNCHANGED <<part, listVars, recordVars, requestVars, contextVars, executorVars>>

ContextsStep ==
    part = "contexts" /\ ContextsNext /\ UNCHANGED <<part, listVars, recordVars, requestVars, rateVars, executorVars>>

ExecutorStep ==
    part = "executor" /\ ExecutorNext /\ UNCHANGED <<part, listVars, recordVars, requestVars, rateVars, contextVars>>

ServerNext == ListsStep \/ RecordsStep \/ RequestsStep \/ RateStep \/ ContextsStep \/ ExecutorStep

ServerSpec == ServerInit /\ [][ServerNext]_serverVars

------------------------------------------------------------------------------
(* Every variable of the part under way has its type.                       *)
ServerTypeOK ==
    /\ part = "lists" => ListsTypeOK
    /\ part = "records" => RecordsTypeOK
    /\ part = "requests" => RequestsTypeOK
    /\ part = "rate" => RateTypeOK
    /\ part = "contexts" => ContextsTypeOK
    /\ part = "executor" => ExecutorTypeOK
=============================================================================
