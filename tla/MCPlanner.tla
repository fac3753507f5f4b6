--------------------------------- MODULE MCPlanner --------------------------------
(* Small snapshots and requests for Planner.  Ports s and t are the endpoints, m and  *)
(* n two ports of one node between them:                                              *)
(*                                                                                    *)
(*        u, v (parallel spans)       cross-connect x           w                     *)
(*   s ========================== m ================= n ------------------ t          *)
(*   +--------------------------------- e ---------------------------------+          *)
(*                                                                                    *)
(* u is mirrored, and y is a cross-connect back from n to m.                          *)
EXTENDS Validation

Slots == {0, 1}

Loads(distance) == [spans |-> 1, distance |-> distance, loss |-> 0, noise |-> 1]

PortRecord(node, mask, transmit) ==
  [node |-> node, state |-> "sure", blocked |-> Slots \ mask, cost |-> 0, domains |-> {}, transmit |-> transmit]

Span(id, from, to, cost, mask, distance) ==
  [id |-> id, op |-> "span", from |-> from, to |-> to, cost |-> cost, state |-> "sure",
   blocked |-> Slots \ mask, domains |-> {}, adds |-> Loads(distance)]

Cross(id, op, from, to) ==
  [id |-> id, op |-> op, from |-> from, to |-> to, cost |-> 0, state |-> "sure",
   blocked |-> {}, domains |-> {}, adds |-> Zero]

\* Three nodes, the middle one costs 1 to enter.
Base ==
  [slots |-> 2, port |-> ("s" :> PortRecord("A", {0, 1}, "P") @@ "m" :> PortRecord("M", {0, 1}, None)
             @@ "n" :> PortRecord("M", {0, 1}, "Q") @@ "t" :> PortRecord("Z", {0, 1}, None)),
   node |-> [x \in {"A", "M", "Z"} |-> [cost |-> IF x = "M" THEN 1 ELSE 0, domains |-> {}, admin |-> "up"]],
   profile |-> [x \in {"P", "Q"} |->
                  [spans |-> 3, distance |-> IF x = "P" THEN 3 ELSE 2, loss |-> 0, noise |-> 3]],
   arc |-> << Cross("x", "express", "m", "n"), Cross("y", "express", "n", "m"),
              Span("e", "s", "t", 4, {1}, 3), Span("u", "s", "m", 1, {0}, 1),
              Span("u", "m", "s", 1, {0}, 1), Span("v", "s", "m", 1, {0, 1}, 2),
              Span("w", "n", "t", 1, {0, 1}, 1) >>,
   complete |-> TRUE, fresh |-> TRUE, generation |-> 1, digest |-> "h", grid |-> "flex",
   sources |-> ("g" :> 1)]

\* Spans whose cost, channels, length and evidence vary: routes that compete at m.
Plain ==
  {[Base EXCEPT !.arc = [@ EXCEPT ![3].state = se, ![4].cost = cu, ![4].state = su, ![5].state = su,
                                  ![6].blocked = Slots \ mv, ![6].adds["distance"] = dv, ![7].blocked = Slots \ mw],
                !.port["n"].state = sn, !.complete = whole] :
     se \in {"sure", "down"}, cu \in {1, 3}, su \in {"sure", "unsure"}, mv \in {{1}, {0, 1}},
     dv \in {1, 3, Unknown}, mw \in {{0}, {1}}, sn \in {"sure", "unsure"}, whole \in BOOLEAN}

\* Cross-connects that convert, regenerate or are in conflict, and reach profiles.
Switched ==
  {[Base EXCEPT !.arc = [@ EXCEPT ![1].op = op, ![1].state = sx, ![4].blocked = Slots \ mu, ![7].blocked = {0}, ![7].cost = cw],
                !.port["n"].transmit = tn, !.profile["P"]["noise"] = np, !.complete = sx = "sure"] :
     op \in {"express", "convert", "regenerate"}, sx \in {"sure", "conflict"}, mu \in {{0}, {0, 1}},
     cw \in {1, 5}, tn \in {"Q", None, Unknown}, np \in {1, 3, Unknown}}

\* Failure domains of arcs, ports and nodes.
Grouped ==
  {[Base EXCEPT !.arc = [@ EXCEPT ![3].domains = de, ![4].domains = du, ![7].domains = dw],
                !.port["n"].domains = dn, !.node["M"].domains = dm, !.node["A"].domains = da] :
     de \in {{}, {"d"}}, du \in {{}, {"d"}}, dw \in {{}, {"d"}}, dn \in {{}, {"d"}},
     dm \in {{}, {"d"}}, da \in {{}, {"c"}}}

\* u and v reach m alike, and u is in the failure domain of w.
Tied == [Base EXCEPT !.arc = [@ EXCEPT ![4].blocked = {}, ![4].domains = {"d"}, ![7].domains = {"d"}]]

\* The cheapest way to m goes through n and converts; the only route to t comes from s to
\* m by z, and then to n.
Crossed ==
  [Base EXCEPT
     !.port = @ @@ ("z" :> PortRecord("Z", {0, 1}, None)),
     !.arc = << Cross("x", "convert", "n", "m"), Cross("y", "express", "m", "n"),
                Span("a", "s", "n", 1, {0}, 0), Span("b", "s", "z", 2, {1}, 0),
                Span("c", "z", "m", 2, {1}, 0), Span("w", "n", "t", 1, {1}, 0) >>]

\* A reach profile whose maximum distance is not published.
Unmeasured == [Base EXCEPT !.profile["P"]["distance"] = Unknown]

\* Snapshots the planner does not search.
Unsearched == {[Base EXCEPT !.fresh = FALSE], [Base EXCEPT !.grid = "fixed"], [Base EXCEPT !.digest = "k"]}

MCSnapshots == Plain \cup Switched \cup Grouped \cup Unsearched \cup {Tied, Crossed, Unmeasured}

Pruned == {Tied, Crossed}

NoExclusion == [kind \in {"nodes", "ports", "spans", "crosses", "domains"} |-> {}]

Ask ==
  [source |-> "s", destination |-> "t", max_candidates |-> 1, max_hops |-> 4,
   max_regenerations |-> 1, max_cost |-> Unknown, ceiling |-> [q \in Quantities |-> Unknown],
   convert |-> TRUE, regenerate |-> TRUE, excluded |-> NoExclusion, member_limit |-> << >>,
   max_expansions |-> 20, max_labels |-> 20, disjoint |-> "none", version |-> "current",
   repeated |-> FALSE, continuity |-> FALSE, repeats |-> FALSE,
   accept_restored |-> FALSE, min_generation |-> 0, digest |-> None, sources |-> << >>, width |-> 1]

Screened ==
  {[Ask EXCEPT !.max_candidates = 4], [Ask EXCEPT !.max_hops = 0, !.continuity = TRUE],
   [Ask EXCEPT !.repeated = TRUE], [Ask EXCEPT !.member_limit = ("d" :> 0)],
   [Ask EXCEPT !.version = "later"], [Ask EXCEPT !.continuity = TRUE],
   [Ask EXCEPT !.min_generation = 2], [Ask EXCEPT !.sources = ("f" :> 1)],
   [Ask EXCEPT !.destination = "z"], [Ask EXCEPT !.digest = "h", !.width = 2, !.accept_restored = TRUE]}

Searched ==
  {Ask,
   [Ask EXCEPT !.max_candidates = 2],
   [Ask EXCEPT !.max_candidates = 2, !.disjoint = "span"],
   [Ask EXCEPT !.max_candidates = 2, !.disjoint = "node"],
   [Ask EXCEPT !.max_candidates = 2, !.disjoint = "domain"],
   [Ask EXCEPT !.max_candidates = 3, !.disjoint = "domain", !.excluded.domains = {"d"}],
   [Ask EXCEPT !.max_candidates = 2, !.width = 2, !.excluded.crosses = {"y"}],
   [Ask EXCEPT !.max_expansions = 3],
   [Ask EXCEPT !.max_labels = 4, !.disjoint = "span"],
   [Ask EXCEPT !.member_limit = ("d" :> 1), !.max_cost = 5, !.excluded.spans = {"e"}],
   [Ask EXCEPT !.regenerate = FALSE, !.convert = FALSE, !.ceiling["distance"] = 3],
   [Ask EXCEPT !.excluded.spans = {"e"}, !.max_hops = 3]}

MCBounds ==
  [candidates |-> 3, hops |-> 4, regenerations |-> 1, expansions |-> 20, labels |-> 20, slots |-> 2,
   exclusions |-> 2, sources |-> 1, members |-> 1]

\* What may become of the evidence a plan was made from; w is the last arc.
MCLater(n) ==
  IF n \notin Switched THEN {} ELSE
  {n, [n EXCEPT !.fresh = FALSE], [n EXCEPT !.sources = ("g" :> 2), !.generation = 2]}
    \cup {[n EXCEPT !.arc[7].state = x] : x \in {"down", "unsure"}}
    \cup {[n EXCEPT !.arc[7].blocked = {1}], [n EXCEPT !.arc[7].adds["distance"] = 2],
          [n EXCEPT !.node["Z"].admin = "down"], [n EXCEPT !.profile["P"]["spans"] = 1]}

Same(n) == {n}

MCRequests == Screened \cup Searched
===================================================================================
