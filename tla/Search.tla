---------------------------------- MODULE Search ----------------------------------
(***********************************************************************************)
(* RunSearch (src/search.cpp): the best-first Pareto label search of one planning  *)
(* pass, one action per way an iteration of its loop can go.                       *)
(*                                                                                 *)
(* A snapshot is a record of                                                       *)
(*   slots   : slot_count of the spectrum model                                    *)
(*   port    : port -> [node, state, blocked, cost, domains, transmit]             *)
(*   node    : node -> [cost, domains]                                             *)
(*   profile : reach profile -> ceiling of each quantity, Unknown if unpublished   *)
(*   arc     : the arcs, each port's cross-connects before its spans and both in   *)
(*             identifier order; a mirrored span is two arcs with one id           *)
(*   complete: coverage_complete                                                   *)
(* and what the planner screens (Planner).  An arc is a record                     *)
(*   [id, op, from, to, cost, state, blocked, domains, adds]                       *)
(* with op "span", "express", "convert" or "regenerate".  The evidence about a     *)
(* resource is reduced to what the search does with it: "sure" (usable), "down" (a *)
(* proven cut), "unsure" (unpublished, conflicting, partial or unresolved: the     *)
(* label stays and is no longer proven) and, for a cross-connect two records       *)
(* disagree about, "conflict" (a witness, nothing else).  Blocked is the set of    *)
(* blocked slots, empty if unpublished.  Minimum OSNR is a ceiling on the sum of   *)
(* the spans' inverse OSNR, here "noise".                                          *)
(***********************************************************************************)
EXTENDS Integers, Sequences, FiniteSets, SequencesExt, FiniteSetsExt

CONSTANTS Snapshots,     \* the evidence a search may run on
          Requests,      \* the requests it may serve
          Unknown,       \* an unpublished value, or a bound that is not set
          None,          \* a port that publishes that it has no transmitter
          MaxU64         \* the greatest cost and distance the code can hold

VARIABLES net,           \* the snapshot
          req,           \* the request of this pass ("working" in Planner::Plan)
          labels,        \* the labels, in the order they were pushed
          frontier,      \* the labels that wait in the queue
          retained,      \* the labels whose retained flag is set
          settled,       \* destination_labels
          expanded,      \* statistics.labels_expanded
          loop           \* "idle", "run", or how the loop ended

searchVars == <<net, req, labels, frontier, retained, settled, expanded, loop>>

Quantities == {"spans", "distance", "loss", "noise"}

Port(p) == net.port[p]

Arc(i) == net.arc[i]

\* SlotMask::FirstSlotMask: the slots where a channel of that width can start.
FirstSlotMask(free, width) == {s \in free : \A o \in 1 .. width - 1 : s + o \in free}

\* base_mask of a resource, for the width the request asks.
Mask(x, r) == FirstSlotMask((0 .. net.slots - 1) \ x.blocked, r.width)

Zero == [q \in Quantities |-> 0]

\* The load respects every bound that is set.
Within(load, ceiling) == \A q \in Quantities : ceiling[q] = Unknown \/ load[q] <= ceiling[q]

(***********************************************************************************)
(* Labels.  The chain of parents of a label is kept as its route, the sequence of  *)
(* arcs from the source port.                                                      *)
(***********************************************************************************)
StartLabel(r) ==
  LET p == Port(r.source)
  IN [port |-> r.source, route |-> <<>>, profile |-> p.transmit, mask |-> Mask(p, r),
      cost |-> (p.cost + net.node[p.node].cost) % (MaxU64 + 1),
      load |-> Zero, regens |-> 0,
      proven |-> p.state = "sure" /\ p.transmit # Unknown]

\* The early returns before the first label is pushed.
StartCut(r) ==
  LET p == Port(r.source)
  IN \/ r.source \in r.excluded.ports \/ p.node \in r.excluded.nodes
     \/ p.domains \cap r.excluded.domains # {}
     \/ p.state = "down" \/ p.transmit = None \/ Mask(p, r) = {}

PortsOn(route) == {req.source} \cup {Arc(route[k]).to : k \in DOMAIN route}

\* transition_node_cost: a node is paid for when it is entered.
EntryCost(from, to) == IF Port(from).node = Port(to).node THEN 0 ELSE net.node[Port(to).node].cost

AddLoad(load, a) ==
  [q \in Quantities |-> load[q] + IF a.adds[q] = Unknown THEN 0 ELSE a.adds[q]]

\* Mutant of KeepsProof: an unpublished length, loss or OSNR keeps the label proven.
KeepsProofUnmeasured(l, a) ==
  /\ a.state # "unsure" /\ Port(a.to).state = "sure"
  /\ a.op = "regenerate" => Port(a.to).transmit # Unknown
  /\ a.op = "span" => l.profile # Unknown /\ net.profile[l.profile]["noise"] # Unknown

\* The evidence that keeps the extension of l by a proven.
KeepsProof(l, a) ==
  /\ a.state # "unsure" /\ Port(a.to).state = "sure"
  /\ a.op = "regenerate" => Port(a.to).transmit # Unknown
  /\ a.op = "span" => /\ \A q \in Quantities : a.adds[q] # Unknown
                      /\ l.profile # Unknown
                      /\ net.profile[l.profile]["noise"] # Unknown

NextMask(l, a) ==
  IF a.op \in {"convert", "regenerate"}
  THEN Mask(Port(a.to), req)
  ELSE l.mask \cap Mask(a, req) \cap Mask(Port(a.to), req)

\* Mutant of NextLoad: a regeneration does not reset the accumulation.
NextLoadKept(l, a) == IF a.op = "span" THEN AddLoad(l.load, a) ELSE l.load

NextLoad(l, a) == CASE a.op = "regenerate" -> Zero
                    [] a.op = "span" -> AddLoad(l.load, a)
                    [] OTHER -> l.load

Extend(l, i) ==
  LET a == Arc(i)
  IN [port |-> a.to, route |-> Append(l.route, i),
      profile |-> IF a.op = "regenerate" THEN Port(a.to).transmit ELSE l.profile,
      mask |-> NextMask(l, a),
      cost |-> l.cost + a.cost + Port(a.to).cost + EntryCost(a.from, a.to),
      load |-> NextLoad(l, a),
      regens |-> l.regens + IF a.op = "regenerate" THEN 1 ELSE 0,
      proven |-> l.proven /\ KeepsProof(l, a)]

(***********************************************************************************)
(* DomainCounter::Count: the members of a failure domain on a route.               *)
(***********************************************************************************)
Counts(d, domains) == IF d \in domains THEN 1 ELSE 0

EntersNode(a) == Port(a.from).node # Port(a.to).node

Members(route, d) ==
  LET s == Port(req.source)
      At(k) == LET a == Arc(route[k])
               IN Counts(d, a.domains) + Counts(d, Port(a.to).domains)
                    + IF EntersNode(a) THEN Counts(d, net.node[Port(a.to).node].domains) ELSE 0
  IN Counts(d, s.domains) + Counts(d, net.node[s.node].domains)
       + MapThenSumSet(At, DOMAIN route)

(***********************************************************************************)
(* What cuts an extension.                                                         *)
(***********************************************************************************)
Excluded(a) ==
  \/ a.id \in IF a.op = "span" THEN req.excluded.spans ELSE req.excluded.crosses
  \/ Port(a.to).node \in req.excluded.nodes
  \/ a.to \in req.excluded.ports
  \/ a.domains \cap req.excluded.domains # {}

OpAllowed(l, a) ==
  /\ a.op = "regenerate" => req.regenerate /\ l.regens < req.max_regenerations
  /\ a.op = "convert" => req.convert

Backtracks(l, a) ==
  /\ l.route # <<>> /\ a.op = "span"
  /\ LET b == Arc(Last(l.route)) IN b.op = "span" /\ b.id = a.id

Loops(l, a) == Backtracks(l, a) \/ a.to \in PortsOn(l.route)

CostFits(n) == n.cost <= MaxU64 /\ (req.max_cost = Unknown \/ n.cost <= req.max_cost)

MembersFit(route) == \A d \in DOMAIN req.member_limit : Members(route, d) <= req.member_limit[d]

\* Mutant of InReach: the reach profile is not applied.
InReachUnprofiled(n) == n.load["distance"] <= MaxU64 /\ Within(n.load, req.ceiling)

\* The reach profile and the request's own ceilings, tested when a span is added.
InReach(n) ==
  /\ n.load["distance"] <= MaxU64
  /\ n.profile # Unknown => Within(n.load, net.profile[n.profile])
  /\ Within(n.load, req.ceiling)

\* The extension n of label l is pushed.
Admits(l, n) ==
  LET a == Arc(Last(n.route))
  IN /\ a.from = l.port
     /\ ~Excluded(a)
     /\ a.state # "down" /\ Port(a.to).state # "down"
     /\ OpAllowed(l, a)
     /\ Len(n.route) <= req.max_hops
     /\ ~Loops(l, a)
     /\ CostFits(n)
     /\ MembersFit(n.route)
     /\ a.op = "regenerate" => Port(a.to).transmit # None
     /\ n.mask # {}
     /\ a.op = "span" => InReach(n)

\* The labels an expansion pushes, in the order of the arcs.
Extensions(l) ==
  SelectSeq([i \in DOMAIN net.arc |-> Extend(l, i)], LAMBDA n : Admits(l, n))

(***********************************************************************************)
(* The order of the queue and dominance.                                           *)
(***********************************************************************************)
KeyLess(l, m) ==
  \/ l.cost < m.cost
  \/ l.cost = m.cost /\ Len(l.route) < Len(m.route)
  \/ l.cost = m.cost /\ Len(l.route) = Len(m.route) /\ l.regens < m.regens

\* Mutant of IsTop: labels leave the queue in the order they were pushed.
IsTopFirstIn(i) == i \in frontier /\ \A j \in frontier : i <= j

\* The entry on top of the queue.
IsTop(i) ==
  /\ i \in frontier
  /\ \A j \in frontier \ {i} :
       KeyLess(labels[i], labels[j]) \/ (~KeyLess(labels[j], labels[i]) /\ i < j)

\* Mutant of Dominates: the channel sets are not compared.
DominatesMaskless(l, m) ==
  /\ m.proven => l.proven
  /\ l.cost <= m.cost
  /\ \A q \in Quantities : l.load[q] <= m.load[q]
  /\ Len(l.route) <= Len(m.route)
  /\ l.regens <= m.regens

Dominates(l, m) ==
  /\ m.proven => l.proven
  /\ l.cost <= m.cost
  /\ \A q \in Quantities : l.load[q] <= m.load[q]
  /\ Len(l.route) <= Len(m.route)
  /\ l.regens <= m.regens
  /\ m.mask \subseteq l.mask

\* The retained labels of the bucket label i belongs to.
Bucket(i) == {j \in retained : labels[j].port = labels[i].port /\ labels[j].profile = labels[i].profile}

IsDominated(i) == \E j \in Bucket(i) : Dominates(labels[j], labels[i])

\* Mutant of Displaced: a label that becomes dominated stays in its bucket.
DisplacedNever(i) == {}

Displaced(i) ==
  {j \in Bucket(i) : ~Dominates(labels[j], labels[i]) /\ Dominates(labels[i], labels[j])}

\* The stop rule: enough destination labels, and the queue is past the last of them.
PastLastKey(i) ==
  /\ settled # <<>> /\ Len(settled) >= req.max_candidates
  /\ KeyLess(labels[Last(settled)], labels[i])

(***********************************************************************************)
(* The loop.  A source that is cut at once leaves an empty queue.                  *)
(***********************************************************************************)
Begin(r) ==
  /\ req' = r /\ UNCHANGED net
  /\ labels' = IF StartCut(r) THEN <<>> ELSE <<StartLabel(r)>>
  /\ frontier' = IF StartCut(r) THEN {} ELSE {1}
  /\ retained' = {} /\ settled' = <<>> /\ expanded' = 0
  /\ loop' = "run"

\* The loop runs, its head lets it go on, and i is the label it takes.
Takes(i) == loop = "run" /\ expanded < req.max_expansions /\ IsTop(i)

Drained ==
  /\ loop = "run" /\ frontier = {}
  /\ loop' = "drained"
  /\ UNCHANGED <<net, req, labels, frontier, retained, settled, expanded>>

ExpansionLimit ==
  /\ loop = "run" /\ frontier # {} /\ expanded >= req.max_expansions
  /\ loop' = "truncated"
  /\ UNCHANGED <<net, req, labels, frontier, retained, settled, expanded>>

StopOnKey ==
  \E i \in frontier :
    /\ Takes(i) /\ PastLastKey(i)
    /\ frontier' = frontier \ {i}
    /\ loop' = "stopped"
    /\ UNCHANGED <<net, req, labels, retained, settled, expanded>>

\* Mutant of Discard: the dominated label is not taken from the queue.
DiscardKept ==
  \E i \in frontier :
    /\ Takes(i) /\ ~PastLastKey(i) /\ IsDominated(i)
    /\ retained' = retained \ Displaced(i)
    /\ UNCHANGED <<net, req, labels, frontier, settled, expanded, loop>>

Discard ==
  \E i \in frontier :
    /\ Takes(i) /\ ~PastLastKey(i) /\ IsDominated(i)
    /\ frontier' = frontier \ {i}
    /\ retained' = retained \ Displaced(i)
    /\ UNCHANGED <<net, req, labels, settled, expanded, loop>>

\* The label enters its bucket and is counted as expanded.
Retain(i) ==
  /\ Takes(i) /\ ~PastLastKey(i) /\ ~IsDominated(i)
  /\ retained' = (retained \ Displaced(i)) \cup {i}
  /\ expanded' = expanded + 1
  /\ UNCHANGED <<net, req>>

Arrive ==
  \E i \in frontier :
    /\ labels[i].port = req.destination
    /\ Retain(i)
    /\ frontier' = frontier \ {i}
    /\ settled' = Append(settled, i)
    /\ UNCHANGED <<labels, loop>>

\* Cross-connects, then spans; a push past the label limit ends the search.
Expand ==
  \E i \in frontier : \E new \in {Extensions(labels[i])} :
    LET room == req.max_labels - Len(labels)
        pushed == Min({Len(new), room})
    IN /\ labels[i].port # req.destination
       /\ Retain(i)
       /\ labels' = labels \o SubSeq(new, 1, pushed)
       /\ frontier' = (frontier \ {i}) \cup (Len(labels) + 1 .. Len(labels) + pushed)
       /\ loop' = IF Len(new) > room THEN "truncated" ELSE "run"
       /\ UNCHANGED settled

SearchStep == Drained \/ ExpansionLimit \/ StopOnKey \/ Discard \/ Arrive \/ Expand

(***********************************************************************************)
(* SearchOutcome.                                                                  *)
(***********************************************************************************)
Over == loop \in {"drained", "truncated", "stopped"}

Exhausted == frontier = {} /\ loop # "truncated"

\* The destination labels that are still retained, in the order they were settled.
Paths == LET kept == SelectSeq(settled, LAMBDA i : i \in retained)
         IN [k \in DOMAIN kept |-> labels[kept[k]]]

ProvedOptimum ==
  /\ labels # <<>>
  /\ loop = "stopped" \/ Exhausted
  /\ net.complete
  /\ Paths # <<>> => \E k \in DOMAIN Paths : Paths[k].proven

===================================================================================
