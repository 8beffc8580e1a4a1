------------------------------ MODULE RouteTable ------------------------------
(* route_viewset: an application routes viewsets, each of them with those   *)
(* mounted under it, theirs, and so on. A place is a viewset at the end of  *)
(* a chain of mounts: where it is routed, and the checks above it. The      *)
(* places are in the order in which the router tries their routes: those    *)
(* mounted under a viewset before its own.                                  *)
EXTENDS Routes

Mounts == UNION {{<<c, i>> : i \in DOMAIN Classes[c].mounts} : c \in DOMAIN Classes}

MountOf(link) == Classes[link[1]].mounts[link[2]]

(* The chains of mounts, each link a mount of the viewset that the one above*)
(* it mounts. One that is longer than there are viewsets meets one twice.   *)
Chains ==
    {chain \in BoundedSeq(Mounts, Cardinality(DOMAIN Classes)) :
        \A k \in 2..Len(chain) : chain[k][1] = MountOf(chain[k - 1]).viewset}

ChainsUnder(viewset) == {chain \in Chains : chain # <<>> => chain[1][1] = viewset}

Innermost(viewset, chain) == IF chain = <<>> THEN viewset ELSE MountOf(chain[Len(chain)]).viewset

(* Mutant of PlaceOf: only the viewset directly above checks.               *)
PlaceUnder(i, root, chain) ==
    [root |-> i, chain |-> chain, viewset |-> Innermost(root.viewset, chain),
     base |-> root.base \o [k \in DOMAIN chain |-> MountOf(chain[k]).path],
     rest |-> Reverse([k \in DOMAIN chain |-> MountOf(chain[k]).rest]) \o <<root.rest>>,
     mux |-> Reverse([k \in DOMAIN chain |-> MountOf(chain[k]).mux]) \o <<root.mux>>,
     gates |-> IF chain = <<>> THEN <<>> ELSE <<GateOf(chain[Len(chain)][1], MountOf(chain[Len(chain)]))>>]

(* What is routed at the end of `chain` under `root`, the i-th viewset that *)
(* the application routes.                                                  *)
PlaceOf(i, root, chain) ==
    [root |-> i, chain |-> chain, viewset |-> Innermost(root.viewset, chain),
     base |-> root.base \o [k \in DOMAIN chain |-> MountOf(chain[k]).path],
     rest |-> Reverse([k \in DOMAIN chain |-> MountOf(chain[k]).rest]) \o <<root.rest>>,
     mux |-> Reverse([k \in DOMAIN chain |-> MountOf(chain[k]).mux]) \o <<root.mux>>,
     gates |-> [k \in DOMAIN chain |-> GateOf(chain[k][1], MountOf(chain[k]))]]

PlacesOf(roots) ==
    UNION {{PlaceOf(i, roots[i], chain) : chain \in ChainsUnder(roots[i].viewset)} : i \in DOMAIN roots}

(* p is under q, or p's mount comes first where they part.                  *)
Precedes(p, q) ==
    \/ p.root < q.root
    \/ /\ p.root = q.root
       /\ \E k \in DOMAIN p.chain :
             /\ \A j \in 1..(k - 1) : j \in DOMAIN q.chain /\ p.chain[j] = q.chain[j]
             /\ k \in DOMAIN q.chain => p.chain[k][2] < q.chain[k][2]

(* sub_viewset and route_viewset refuse mounts that could not be reached.   *)
Mountable(viewset) ==
    \A chain \in ChainsUnder(viewset) :
        LET c == Innermost(viewset, chain)
            mounts == Classes[c].mounts
        IN /\ \A i, j \in DOMAIN mounts : i # j => mounts[i].path # mounts[j].path
           /\ \A i \in DOMAIN mounts :
                 /\ mounts[i].path \notin {"schema", "{pk}"}
                 /\ mounts[i].viewset \notin {viewset} \cup {MountOf(chain[k]).viewset : k \in DOMAIN chain}
                 /\ \A j \in DOMAIN Classes[c].routes :
                       Classes[c].routes[j].path = <<>> \/ Head(Classes[c].routes[j].path) # mounts[i].path

(* The applications that start: route_viewset accepts what they mount.      *)
InOrder(places) == {s \in SetToSeqs(places) : \A i, j \in DOMAIN s : i < j => Precedes(s[i], s[j])}

Applications(routings) ==
    UNION {{[roots |-> r, places |-> s] : s \in InOrder(PlacesOf(r))} :
              r \in {r \in routings : \A i \in DOMAIN r : Mountable(r[i].viewset)}}

------------------------------------------------------------------------------
(* A route is tried on its transports only; the first one that matches the  *)
(* path and the method serves the request.                                  *)
RoutesAt(place) == Range(Classes[place.viewset].routes)

Matches(place, route, request) ==
    /\ request.transport \in Transports(route, place)
    /\ PathMatches(place.base \o route.path, request.path)

Serves(place, route, request) == Matches(place, route, request) /\ route.method = request.method

(* The first place with a route that serves the request (0: none has).      *)
Served(places, request) ==
    LET full == {i \in DOMAIN places : \E route \in RoutesAt(places[i]) : Serves(places[i], route, request)}
    IN IF full = {} THEN 0 ELSE FirstIn(full)

RouteAt(place, request) ==
    LET routes == Classes[place.viewset].routes
    IN routes[FirstIn({j \in DOMAIN routes : Serves(place, routes[j], request)})]

(* The answer where none does: a path that another method has is a 405.     *)
Unserved(places, request) ==
    IF \E i \in DOMAIN places : \E route \in RoutesAt(places[i]) : Matches(places[i], route, request)
    THEN 405 ELSE 404

(* match_viewset: the first place with a route of its gate action whose base*)
(* path matches the topic (0: none has).                                    *)
MatchViewset(places, topic) ==
    LET found == {i \in DOMAIN places :
                     /\ \E route \in RoutesAt(places[i]) :
                           route.action = GateAction(places[i].viewset) /\ Transports(route, places[i]) # {}
                     /\ PathMatches(places[i].base, topic)}
    IN IF found = {} THEN 0 ELSE FirstIn(found)
=============================================================================
