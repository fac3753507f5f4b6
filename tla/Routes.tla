---------------------------------- MODULE Routes ----------------------------------
(***********************************************************************************)
(* The routes of a snapshot, defined without the search: every port-simple         *)
(* sequence of arcs from the source to the destination, what the constraints ask   *)
(* of one (README.md, "Evidence model" to "Search") and what evidence makes it     *)
(* certain.  Sums and intersections are taken over whole sections of a route, not  *)
(* accumulated arc by arc.                                                         *)
(***********************************************************************************)
EXTENDS Search

\* The port a route stands on after k arcs.
PortAt(r, route, k) == IF k = 0 THEN r.source ELSE Arc(route[k]).to

\* Where the section that holds arc k began: after the last arc with one of ops.
Since(route, k, ops) == Max({0} \cup {j \in 1 .. k : Arc(route[j]).op \in ops})

\* The channel starts a wavelength run still admits after arc k.
RunMask(r, route, k) ==
  LET b == Since(route, k, {"convert", "regenerate"})
      used == {Port(PortAt(r, route, j)) : j \in b .. k} \cup {Arc(route[j]) : j \in b + 1 .. k}
  IN {c \in 0 .. net.slots - r.width :
        \A x \in used : (c .. c + r.width - 1) \cap x.blocked = {}}

\* The published load of a transparent segment after arc k.
SectionLoad(route, k) ==
  LET spans == {j \in Since(route, k, {"regenerate"}) + 1 .. k : Arc(route[j]).op = "span"}
  IN [q \in Quantities |->
        MapThenSumSet(LAMBDA j : Arc(route[j]).adds[q],
                      {j \in spans : Arc(route[j]).adds[q] # Unknown})]

SectionProfile(r, route, k) == Port(PortAt(r, route, Since(route, k, {"regenerate"}))).transmit

RouteCost(r, route) ==
  LET s == Port(r.source)
  IN s.cost + net.node[s.node].cost
       + MapThenSumSet(LAMBDA k : LET a == Arc(route[k])
                                  IN a.cost + Port(a.to).cost + EntryCost(a.from, a.to),
                       DOMAIN route)

Regenerations(route) == Cardinality({k \in DOMAIN route : Arc(route[k]).op = "regenerate"})

\* The failure domains of what a route uses between its two endpoints.
RouteDomains(route) ==
  UNION {Arc(route[k]).domains : k \in DOMAIN route}
    \cup UNION {LET p == Port(Arc(route[k]).to) IN p.domains \cup net.node[p.node].domains :
                k \in 1 .. Len(route) - 1}

RouteNodes(r, route) == {Port(PortAt(r, route, k)).node : k \in 0 .. Len(route)}

RouteSpans(route) == {Arc(route[k]).id : k \in {j \in DOMAIN route : Arc(route[j]).op = "span"}}

(***********************************************************************************)
(* Every port-simple route of the request.                                         *)
(***********************************************************************************)
SimpleRoutes(r) ==
  LET Walks[n \in 0 .. r.max_hops] ==
        IF n = 0 THEN {<<>>}
        ELSE UNION {{Append(w, i) : i \in {i \in DOMAIN net.arc :
                       /\ Arc(i).from = PortAt(r, w, Len(w))
                       /\ Arc(i).from # r.destination
                       /\ \A k \in 0 .. Len(w) : Arc(i).to # PortAt(r, w, k)}} :
                     w \in Walks[n - 1]}
  IN {w \in UNION {Walks[n] : n \in 1 .. r.max_hops} : PortAt(r, w, Len(w)) = r.destination}

RouteMembers(r, route, d) ==
  Counts(d, Port(r.source).domains) + Counts(d, net.node[Port(r.source).node].domains)
    + Cardinality({k \in DOMAIN route : d \in Arc(route[k]).domains})
    + Cardinality({k \in DOMAIN route : d \in Port(Arc(route[k]).to).domains})
    + Cardinality({k \in DOMAIN route : /\ EntersNode(Arc(route[k]))
                                        /\ d \in net.node[Port(Arc(route[k]).to).node].domains})

\* No resource of the route is excluded.  An excluded failure domain reaches the
\* source port and the arcs, as in the code; Planner!DomainDisjoint is about the rest.
Avoids(r, route) ==
  /\ \A k \in 0 .. Len(route) : /\ PortAt(r, route, k) \notin r.excluded.ports
                                /\ Port(PortAt(r, route, k)).node \notin r.excluded.nodes
  /\ Port(r.source).domains \cap r.excluded.domains = {}
  /\ RouteSpans(route) \cap r.excluded.spans = {}
  /\ {Arc(route[k]).id : k \in {j \in DOMAIN route : Arc(route[j]).op # "span"}}
       \cap r.excluded.crosses = {}
  /\ \A k \in DOMAIN route : Arc(route[k]).domains \cap r.excluded.domains = {}

\* The route satisfies the request as far as the published evidence goes.
Admissible(r, route) ==
  /\ Avoids(r, route)
  /\ Len(route) <= r.max_hops
  /\ Regenerations(route) <= r.max_regenerations
  /\ \A k \in DOMAIN route : CASE Arc(route[k]).op = "convert" -> r.convert
                               [] Arc(route[k]).op = "regenerate" -> r.regenerate
                               [] OTHER -> TRUE
  /\ \A k \in 0 .. Len(route) : Port(PortAt(r, route, k)).state # "down"
  /\ \A k \in DOMAIN route : Arc(route[k]).state # "down"
  /\ \A k \in {0} \cup {j \in DOMAIN route : Arc(route[j]).op = "regenerate"} :
       Port(PortAt(r, route, k)).transmit # None
  /\ RouteCost(r, route) <= MaxU64
  /\ r.max_cost # Unknown => RouteCost(r, route) <= r.max_cost
  /\ \A d \in DOMAIN r.member_limit : RouteMembers(r, route, d) <= r.member_limit[d]
  /\ \A k \in 0 .. Len(route) : RunMask(r, route, k) # {}
  /\ \A k \in DOMAIN route :
       LET profile == SectionProfile(r, route, k)
       IN /\ Within(SectionLoad(route, k), r.ceiling)
          /\ profile # Unknown => Within(SectionLoad(route, k), net.profile[profile])

\* Nothing the route relies on is unpublished or in doubt.  Strict asks it of every
\* resource and reach-profile field; the search does not ask it of a cross-connect two
\* records disagree about, nor of the fields other than the minimum OSNR.
Certain(r, route, strict) ==
  /\ \A k \in 0 .. Len(route) : Port(PortAt(r, route, k)).state = "sure"
  /\ \A k \in DOMAIN route :
       Arc(route[k]).state \in IF strict THEN {"sure"} ELSE {"sure", "conflict"}
  /\ \A k \in {0} \cup {j \in DOMAIN route : Arc(route[j]).op = "regenerate"} :
       Port(PortAt(r, route, k)).transmit # Unknown
  /\ \A k \in {j \in DOMAIN route : Arc(route[j]).op = "span"} :
       /\ \A q \in Quantities : Arc(route[k]).adds[q] # Unknown
       /\ \A q \in IF strict THEN Quantities ELSE {"noise"} :
            net.profile[SectionProfile(r, route, k)][q] # Unknown

===================================================================================
