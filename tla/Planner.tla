---------------------------------- MODULE Planner ---------------------------------
(***********************************************************************************)
(* Planner::Plan (src/planner.cpp): the screening of the request, the passes over  *)
(* the label search, BuildPlan for the routes it returns, the exclusions between   *)
(* disjoint candidates, and the classification of the outcome.  The caller may     *)
(* cancel at the head of any iteration of the search.                              *)
(***********************************************************************************)
EXTENDS Routes

CONSTANT Bounds          \* the kMax* of include/opp/limits.hpp that requests are held to

VARIABLES pc,            \* where Plan stands
          given,         \* the caller's request
          pass,          \* passes begun
          accepted,      \* the candidates accepted so far
          taken,         \* resources of the accepted candidates: excluded_* of Plan
          stop,          \* "none", "gap" (knowledge) or "bound" (truncation)
          optimum,       \* first_pass_proved_optimum
          result         \* what Plan returns

vars == <<net, req, labels, frontier, retained, settled, expanded, loop,
          pc, given, pass, accepted, taken, stop, optimum, result>>

NoResult == [outcome |-> "none", candidates |-> <<>>, optimal |-> FALSE]

Outcome(o) == [NoResult EXCEPT !.outcome = o]

Init ==
  /\ net \in Snapshots /\ given \in Requests /\ req = given
  /\ labels = <<>> /\ frontier = {} /\ retained = {} /\ settled = <<>>
  /\ expanded = 0 /\ loop = "idle"
  /\ pc = "screen" /\ pass = 0 /\ accepted = <<>>
  /\ taken = [nodes |-> {}, spans |-> {}, domains |-> {}]
  /\ stop = "none" /\ optimum = FALSE /\ result = NoResult

(***********************************************************************************)
(* PlanningRequest::Validate and ConstraintSet::Validate.  Exclusions are sets;    *)
(* repeated says that one of the lists they come from names an entry twice.        *)
(***********************************************************************************)
ConstraintsValid(r) ==
  /\ ~r.repeated
  /\ \A kind \in DOMAIN r.excluded : Cardinality(r.excluded[kind]) <= Bounds.exclusions
  /\ Cardinality(DOMAIN r.member_limit) <= Bounds.members
  /\ \A d \in DOMAIN r.member_limit : r.member_limit[d] # 0
  /\ r.ceiling["spans"] # 0

RequestStatus(r) ==
  CASE r.version # "current" -> "unsupported"
    [] \/ r.source = r.destination
       \/ r.width \notin 1 .. Bounds.slots
       \/ r.max_candidates \notin 1 .. Bounds.candidates
       \/ r.max_regenerations > Bounds.regenerations
       \/ r.max_hops \notin 1 .. Bounds.hops
       \/ r.max_expansions \notin 1 .. Bounds.expansions
       \/ r.max_labels \notin 1 .. Bounds.labels
       \/ Cardinality(DOMAIN r.sources) > Bounds.sources
       \/ ~ConstraintsValid(r) -> "invalid"
    [] r.continuity \/ r.repeats -> "unsupported"
    [] OTHER -> "ok"

(***********************************************************************************)
(* Screening: structure, freshness, capability surface, endpoints.                 *)
(***********************************************************************************)
Stale ==
  \/ ~net.fresh /\ ~given.accept_restored
  \/ net.generation < given.min_generation
  \/ given.digest \notin {None, net.digest}
  \/ \E s \in DOMAIN given.sources :
       s \notin DOMAIN net.sources \/ net.sources[s] < given.sources[s]

Absent == {given.source, given.destination} \ DOMAIN net.port # {}

Verdict ==
  CASE RequestStatus(given) = "invalid" -> "REFUSED"
    [] RequestStatus(given) = "unsupported" -> "UNSUPPORTED"
    [] Stale -> "INDETERMINATE"
    [] net.grid = "fixed" /\ given.width # 1 -> "UNSUPPORTED"
    [] Absent -> IF net.complete THEN "INFEASIBLE" ELSE "INDETERMINATE"
    [] OTHER -> "none"

Screen ==
  /\ pc = "screen"
  /\ result' = Outcome(Verdict)
  /\ pc' = IF Verdict = "none" THEN "pass" ELSE "done"
  /\ UNCHANGED <<searchVars, given, pass, accepted, taken, stop, optimum>>

(***********************************************************************************)
(* Passes.                                                                         *)
(***********************************************************************************)
Iterative == given.disjoint # "none" /\ given.max_candidates > 1

Passes == IF Iterative THEN given.max_candidates ELSE 1

\* Mutant of Working: the resources of the accepted candidates are not excluded.
WorkingUnextended ==
  IF ~Iterative THEN given ELSE [given EXCEPT !.max_candidates = 1, !.disjoint = "none"]

\* The taken resources are appended to the request's own lists.
Working ==
  IF ~Iterative THEN given
  ELSE [given EXCEPT !.max_candidates = 1, !.disjoint = "none",
          !.excluded = [kind \in DOMAIN @ |->
                          @[kind] \cup IF kind \in DOMAIN taken THEN taken[kind] ELSE {}],
          !.repeated = \E kind \in DOMAIN taken : taken[kind] \cap given.excluded[kind] # {}]

\* working.Validate()
WorkingValid == Iterative => RequestStatus(Working) = "ok"

StartPass ==
  /\ pc = "pass"
  /\ IF pass < Passes /\ WorkingValid
     THEN Begin(Working) /\ pc' = "search" /\ pass' = pass + 1
     ELSE pc' = "classify" /\ UNCHANGED <<searchVars, pass>>
  /\ UNCHANGED <<given, accepted, taken, stop, optimum, result>>

SearchOn ==
  /\ pc = "search"
  /\ SearchStep
  /\ UNCHANGED <<pc, given, pass, accepted, taken, stop, optimum, result>>

Cancel ==
  /\ pc = "search" /\ loop = "run" /\ frontier # {}
  /\ pc' = "done" /\ result' = Outcome("CANCELLED")
  /\ UNCHANGED <<searchVars, given, pass, accepted, taken, stop, optimum>>

(***********************************************************************************)
(* BuildPlan: the route is walked again and the plan recomputed.                   *)
(***********************************************************************************)
MaskWalk(route) ==
  LET mask[k \in 0 .. Len(route)] ==
        IF k = 0 THEN Mask(Port(req.source), req) ELSE NextMask([mask |-> mask[k - 1]], Arc(route[k]))
  IN mask

\* An unpublished value, an empty channel set, or an end other than the destination
\* makes BuildPlan fail.  Not every cause of an "unsure" does; here all of them do.
Buildable(route) ==
  /\ Port(req.source).state = "sure" /\ Port(req.source).transmit \notin {None, Unknown}
  /\ \A k \in DOMAIN route :
       LET a == Arc(route[k])
       IN /\ a.state # "unsure" /\ Port(a.to).state = "sure"
          /\ a.op = "span" => \A q \in Quantities : a.adds[q] # Unknown
          /\ a.op = "regenerate" => Port(a.to).transmit \notin {None, Unknown}
          /\ a.op # "regenerate" => MaskWalk(route)[k] # {}
  /\ Arc(Last(route)).to = req.destination

SpanSteps(route) == SelectSeq([k \in DOMAIN route |-> k], LAMBDA k : Arc(route[k]).op = "span")

\* The channel of each span: the lowest slot of the running set at that span.
Channels(route) ==
  LET at == SpanSteps(route)
  IN [n \in DOMAIN at |-> [at |-> at[n], slot |-> Min(MaskWalk(route)[at[n]])]]

\* The nodes that a Node or Port step of the plan names.
PlanNodes(route) ==
  {Port(req.source).node, Port(req.destination).node}
    \cup {Port(Arc(route[k]).to).node :
            k \in {j \in DOMAIN route : LET a == Arc(route[j])
                     IN a.op \in {"convert", "regenerate"} \/ (a.op = "span" /\ EntersNode(a))}}

\* failure_domain_exposure: an express cross-connect does not note the node it enters.
Exposure(route) ==
  Port(req.source).domains \cup net.node[Port(req.source).node].domains
    \cup UNION {LET a == Arc(route[k])
                IN a.domains \cup Port(a.to).domains
                     \cup IF a.op # "express" /\ EntersNode(a)
                          THEN net.node[Port(a.to).node].domains ELSE {} :
                k \in DOMAIN route}

BuildPlan(route) ==
  [route |-> route, cost |-> RouteCost(req, route) % (MaxU64 + 1),
   regens |-> Regenerations(route), channels |-> Channels(route),
   nodes |-> PlanNodes(route), domains |-> Exposure(route)]

\* StripCycles: an arc back to a port the walk stands on drops everything since.
StripCycles(route) ==
  FoldLeft(LAMBDA out, i : LET met == {k \in 0 .. Len(out) : PortAt(req, out, k) = Arc(i).to}
                           IN IF met = {} THEN Append(out, i) ELSE SubSeq(out, 1, Min(met)),
           <<>>, route)

(***********************************************************************************)
(* What Plan does with the paths of a pass.                                        *)
(***********************************************************************************)
Budget == IF Iterative THEN 1
          ELSE IF given.disjoint = "none" THEN given.max_candidates
          ELSE Min({64, 8 * given.max_candidates})

\* The routes of the proven paths that are built, in the order the search settled them;
\* they differ, so seen_digests drops none.
Picked == LET proven == SelectSeq(Paths, LAMBDA l : l.proven)
          IN [k \in 1 .. Min({Len(proven), Budget}) |-> StripCycles(proven[k].route)]

\* The built plans in the order of PlanLess; ties are broken by resource names.
Sorted(plans) ==
  {[k \in DOMAIN plans |-> plans[f[k]]] :
     f \in {g \in [DOMAIN plans -> DOMAIN plans] :
              /\ IsInjective(g)
              /\ \A i, j \in DOMAIN plans : i < j => ~KeyLess(plans[g[j]], plans[g[i]])}}

Ends == pc = "search" /\ Over

NoteOptimum == optimum' = IF pass = 1 THEN ProvedOptimum ELSE optimum

NothingBuilt ==
  /\ Ends /\ Picked = <<>>
  /\ stop' = IF Paths # <<>> THEN "gap"
             ELSE IF ~Exhausted THEN "bound"
             ELSE IF ~net.complete THEN "gap" ELSE stop
  /\ pc' = "classify"
  /\ NoteOptimum
  /\ UNCHANGED <<searchVars, given, pass, accepted, taken, result>>

\* ExtendExclusions.
Extended(plan) ==
  CASE given.disjoint = "node" -> [taken EXCEPT !.nodes = @ \cup plan.nodes]
    [] given.disjoint = "span" -> [taken EXCEPT !.spans = @ \cup RouteSpans(plan.route)]
    [] given.disjoint = "domain" -> [taken EXCEPT !.domains = @ \cup plan.domains]

AcceptBuilt(routes) ==
  \E built \in {[k \in DOMAIN routes |-> BuildPlan(routes[k])]} : \E plans \in Sorted(built) :
    IF Iterative
    THEN /\ accepted' = Append(accepted, plans[1])
         /\ taken' = Extended(plans[1])
         /\ pc' = "pass"
    ELSE /\ accepted' = SubSeq(plans, 1, Min({Len(plans), given.max_candidates}))
         /\ pc' = "classify" /\ UNCHANGED taken

Built ==
  /\ Ends
  /\ \E routes \in {Picked} \ {<<>>} :
       IF \A k \in DOMAIN routes : Buildable(routes[k])
       THEN AcceptBuilt(routes) /\ UNCHANGED result
       ELSE /\ result' = Outcome("REFUSED") /\ pc' = "done"
            /\ UNCHANGED <<accepted, taken>>
  /\ NoteOptimum
  /\ UNCHANGED <<searchVars, given, pass, stop>>

Classify ==
  /\ pc = "classify"
  /\ result' = CASE accepted # <<>> -> [outcome |-> "FEASIBLE", candidates |-> accepted,
                                        optimal |-> optimum /\ net.complete]
                 [] accepted = <<>> /\ stop # "none" -> Outcome("INDETERMINATE")
                 [] OTHER -> Outcome("INFEASIBLE")
  /\ pc' = "done"
  /\ UNCHANGED <<searchVars, given, pass, accepted, taken, stop, optimum>>

Steps == Screen \/ StartPass \/ SearchOn \/ NothingBuilt \/ Built \/ Classify

Next == Steps \/ Cancel

Spec == Init /\ [][Next]_vars

-----------------------------------------------------------------------------------
(***********************************************************************************)
(* Properties.                                                                     *)
(***********************************************************************************)
\* What a label accumulates arc by arc is what its route adds up to: cost, load of the
\* open segment, channel starts of the open run, regenerations (src/search.cpp:689-830
\* and 878-1080).
LabelsExact ==
  \A i \in DOMAIN labels :
    LET l == labels[i]  n == Len(l.route)
    IN /\ l.port = PortAt(req, l.route, n)
       /\ l.cost = RouteCost(req, l.route)
       /\ l.load = SectionLoad(l.route, n)
       /\ l.mask = RunMask(req, l.route, n)
       /\ l.profile = SectionProfile(req, l.route, n)
       /\ l.regens = Regenerations(l.route)
       /\ l.proven => Certain(req, l.route, FALSE)

\* Two retained labels of one port and reach profile never dominate one another: the
\* bucket scan (src/search.cpp:586-616) keeps a Pareto set whatever order labels come in.
RetainedIsPareto ==
  \A i \in retained : \A j \in Bucket(i) \ {i} : ~Dominates(labels[j], labels[i])

Done(o) == pc = "done" /\ result.outcome = o

\* Every published candidate is a port-simple route that satisfies the request and rests
\* on published evidence; the cost and the channels BuildPlan records are the route's own
\* ("At least one proven candidate satisfies every declared constraint").
FeasibleSound ==
  Done("FEASIBLE") =>
    /\ ~Stale
    /\ \A k \in DOMAIN result.candidates :
         LET c == result.candidates[k]
         IN /\ c.route \in SimpleRoutes(given)
            /\ Admissible(given, c.route) /\ Certain(given, c.route, FALSE)
            /\ c.cost = RouteCost(given, c.route)
            /\ \A n \in DOMAIN c.channels :
                 c.channels[n].slot \in RunMask(given, c.route, c.channels[n].at)

\* Extending routes keeps their order: no bound on domain members, and no arc after which
\* the channel set or the load starts again.
Monotone ==
  /\ given.member_limit = << >>
  /\ \A i \in DOMAIN net.arc : Arc(i).op \in {"span", "express"}

NoRoute(r) == \A route \in SimpleRoutes(r) : ~Admissible(r, route)

\* INFEASIBLE is a proof: the search pruned, stopped and cut, and still no port-simple
\* route satisfies the request, not even one that rests on unpublished evidence.
InfeasibleSound == Done("INFEASIBLE") /\ ~Absent /\ Monotone => NoRoute(given)

\* optimality_proven is a proof: no certain route of the request has a lower key than the
\* first candidate (src/search.cpp:1125-1137, src/planner.cpp:348).
OptimalSound ==
  pc = "done" /\ result.optimal /\ Monotone =>
    \A route \in SimpleRoutes(given) :
      Admissible(given, route) /\ Certain(given, route, TRUE) =>
        ~KeyLess([cost |-> RouteCost(given, route), route |-> route,
                  regens |-> Regenerations(route)], result.candidates[1])

\* BuildPlan never fails on a path the search returned: Plan answers REFUSED only for a
\* request that failed validation (src/planner.cpp:298-303, src/search.hpp:68-70).
RebuildSucceeds == Done("REFUSED") => RequestStatus(given) = "invalid"

Shared(kind, c, d) ==
  CASE kind = "node" -> RouteNodes(given, c.route) \cap RouteNodes(given, d.route)
    [] kind = "span" -> RouteSpans(c.route) \cap RouteSpans(d.route)
    [] kind = "domain" -> RouteDomains(c.route) \cap RouteDomains(d.route)
    [] OTHER -> {}

Disjoint(kinds) ==
  given.disjoint \in kinds =>
    \A i, j \in DOMAIN accepted : i < j => Shared(given.disjoint, accepted[i], accepted[j]) = {}

\* Candidates of a request for node or span disjointness share no node, no span.
PairwiseDisjoint == Disjoint({"node", "span"})

\* Plan returns, whatever the snapshot.
PlanReturns == <>(pc = "done")

(***********************************************************************************)
(* Promises of the documentation that the code does not keep.                      *)
(***********************************************************************************)

\* "pruning never removes an optimum" (README.md:78, src/search.hpp:10-11): when Plan
\* answers INFEASIBLE no route satisfies the request, member limits and conversions
\* included.
PruningKeepsRoutes == Done("INFEASIBLE") /\ ~Absent => NoRoute(given)

\* "Within one wavelength run the channel must be constant" (README.md:61): two spans of
\* one run are given one channel.
ChannelConstant ==
  \A k \in DOMAIN accepted :
    LET c == accepted[k]  Run(n) == Since(c.route, c.channels[n].at, {"convert", "regenerate"})
    IN \A m, n \in DOMAIN c.channels :
         Run(m) = Run(n) => c.channels[m].slot = c.channels[n].slot

\* "No failure domain may be shared by two candidates" (include/opp/constraints.hpp:24),
\* asked only of what lies between the endpoints, which all candidates have in common.
DomainDisjoint == Disjoint({"domain"})

===================================================================================
