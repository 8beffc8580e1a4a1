-------------------------------- MODULE Routes --------------------------------
(* The routes of an application and the checks they call for. A route of a  *)
(* mounted viewset carries the checks of every viewset above it (its gates),*)
(* the outermost first; each runs Middleware.depends() of the middlewares in*)
(* effect, under the configuration of its class and action. A path is a     *)
(* sequence of segments, and "{pk}" stands for any one segment. RouteTable  *)
(* places the viewsets.                                                     *)
EXTENDS Integers, Sequences, FiniteSets, SequencesExt

CONSTANTS
    Classes,         \* Classes[c]: routes, mounts, configuration, lifecycle, state, ... of class c
    MiddlewareOf,    \* MiddlewareOf[i]: the class of the middleware instance i
    GlobalMiddleware,\* settings.viewsets_command_middleware
    DefaultConfiguration,
    RegisterMuxws,   \* settings.viewsets_register_muxws
    Nobody           \* the user of an anonymous request

Flags == {"yes", "no", "none"}

ASSUME RoutesAssumption ==
    /\ IsFiniteSet(DOMAIN Classes)
    /\ \A c \in DOMAIN Classes :
          /\ \A i \in DOMAIN Classes[c].routes :
                /\ {Classes[c].routes[i].rest, Classes[c].routes[i].mux} \subseteq Flags
                /\ Classes[c].routes[i].action # "none"
          /\ \A i \in DOMAIN Classes[c].mounts : Classes[c].mounts[i].viewset \in DOMAIN Classes
          /\ Classes[c].routes \in Seq(Range(Classes[c].routes)) /\ Classes[c].mounts \in Seq(Range(Classes[c].mounts))
          /\ \A i \in DOMAIN Classes[c].routes : Classes[c].routes[i].path \in Seq(Range(Classes[c].routes[i].path))
          /\ Classes[c].lifecycle \in {"singleton", "per-request", "instance-key"}
    /\ IsFiniteSet(DOMAIN MiddlewareOf) /\ GlobalMiddleware \in Seq(DOMAIN MiddlewareOf)
    /\ RegisterMuxws \in {"yes", "no"}

------------------------------------------------------------------------------
(* Configuration. A key is a middleware class or an instance to inject; a   *)
(* value is plain (`by` is empty) or a ByAction.                            *)

Unset == [kind |-> "unset"]

ByAction(value, action) == IF action \in DOMAIN value.by THEN value.by[action] ELSE value.default

PerformMethodOf ==
    [create |-> "perform_create", bulk_create |-> "perform_bulk_create", list_items |-> "perform_list",
     retrieve |-> "perform_retrieve", update |-> "perform_update", partial_update |-> "perform_update",
     bulk_update |-> "perform_bulk_update", bulk_partial_update |-> "perform_bulk_update",
     destroy |-> "perform_destroy", bulk_destroy |-> "perform_bulk_destroy", lookup |-> "perform_lookup"]

Over(config, above) ==
    [k \in DOMAIN config \cup DOMAIN above |-> IF k \in DOMAIN above THEN above[k] ELSE config[k]]

MethodConfiguration(c, name) == IF name \in DOMAIN Classes[c].methods THEN Classes[c].methods[name] ELSE <<>>

(* The defaults, then the class's, the action's and its perform method's.   *)
ActionConfiguration(c, action) ==
    LET above == Over(Over(DefaultConfiguration, Classes[c].config), MethodConfiguration(c, action))
    IN IF action \in DOMAIN PerformMethodOf
       THEN Over(above, MethodConfiguration(c, PerformMethodOf[action])) ELSE above

ConfigurationFor(config, class, action) ==
    IF class \in DOMAIN config THEN ByAction(config[class], action) ELSE Unset

(* The instances among the keys join the global ones, in some order; a class*)
(* among them without a global instance is an error.                        *)
Instances == DOMAIN MiddlewareOf

EffectiveMiddlewares(config) == GlobalMiddleware \o SetToSeq(DOMAIN config \cap Instances)

Misconfigured(config) ==
    \E class \in DOMAIN config \ Instances :
        \A i \in DOMAIN GlobalMiddleware : MiddlewareOf[GlobalMiddleware[i]] # class

(* Session: a user is required unless the configuration says not.           *)
SessionRequired(value) == value.kind = "flag" => value.on

(* depends() of Session and of Authorization: a callable configuration is a *)
(* check of the user, any other value is left to the action.                *)
Admits(middleware, config, action, user) ==
    LET value == ConfigurationFor(config, MiddlewareOf[middleware], action)
    IN CASE MiddlewareOf[middleware] = "Session" -> SessionRequired(value) => user # Nobody
         [] MiddlewareOf[middleware] = "Authorization" -> value.kind = "check" => user \in value.users
         [] OTHER -> TRUE

(* Whether a depends() awaits context.user.                                 *)
AwaitsUser(config, action) ==
    \E i \in DOMAIN EffectiveMiddlewares(config) :
        LET class == MiddlewareOf[EffectiveMiddlewares(config)[i]]
            value == ConfigurationFor(config, class, action)
        IN \/ class = "Session" /\ SessionRequired(value)
           \/ class = "Authorization" /\ value.kind = "check"

AllAdmit(config, action, user) ==
    /\ ~Misconfigured(config)
    /\ \A i \in DOMAIN EffectiveMiddlewares(config) : Admits(EffectiveMiddlewares(config)[i], config, action, user)

------------------------------------------------------------------------------
(* Routing                                                                  *)

(* The first flag that does not abstain.                                    *)
FlagOf(flags) == LET i == CHOOSE i \in DOMAIN flags : flags[i] # "none" /\ \A j \in 1..(i - 1) : flags[j] = "none"
                 IN flags[i] = "yes"

(* What a route is served on: its own flags, then those of the mounts above *)
(* it, the innermost first, decide.                                         *)
Transports(route, place) ==
    {t \in {"rest", "muxws"} : IF t = "rest" THEN FlagOf(<<route.rest>> \o place.rest \o <<"yes">>)
                                             ELSE FlagOf(<<route.mux>> \o place.mux \o <<RegisterMuxws>>)}

(* The check a viewset makes of the requests to one mounted under it.       *)
GateOf(c, mount) ==
    [viewset |-> c, action |-> mount.path, config |-> Over(ActionConfiguration(c, mount.path), mount.config)]

PathMatches(path, at) ==
    /\ Len(path) = Len(at)
    /\ \A i \in DOMAIN at : path[i] = at[i] \/ path[i] = "{pk}"

FirstIn(S) == CHOOSE i \in S : \A j \in S : i <= j

------------------------------------------------------------------------------
(* Topics                                                                   *)

GateAction(c) ==
    LET has(action) == \E i \in DOMAIN Classes[c].routes : Classes[c].routes[i].action = action
    IN IF has("list_items") THEN "list_items" ELSE IF has("retrieve") THEN "retrieve" ELSE "none"
=============================================================================
