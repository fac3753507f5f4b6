-------------------------------- MODULE Validation --------------------------------
(***********************************************************************************)
(* ValidatePlanBindings and RevalidatePlan (src/validate.cpp), run on the plans of *)
(* Planner once the evidence has moved on.  A plan is bound to the snapshot it was *)
(* made from, which is net; a later snapshot is one of Later(net).  The content    *)
(* digest of a snapshot stands for all of it but its freshness.                    *)
(***********************************************************************************)
EXTENDS Planner

CONSTANT Later(_)        \* the snapshots that may follow one, itself included

VARIABLE report          \* the last ValidationReport

NoReport ==
  [validity |-> "none", revalidated |-> FALSE, failures |-> {}, plan |-> 0, evidence |-> net]

Digest(n) == [n EXCEPT !.fresh = TRUE]

\* What VerifySeal and the revision test make of an artifact: sealed by this revision,
\* changed since it was sealed, or of another format or planning rule.
Seals == {"intact", "broken", "foreign"}

(***********************************************************************************)
(* The bindings.                                                                   *)
(***********************************************************************************)
SourcesMoved(n) ==
  \E s \in DOMAIN net.sources : s \notin DOMAIN n.sources \/ n.sources[s] # net.sources[s]

\* Mutant of Bindings: the snapshot digest is not compared.
BindingsUndigested(n, seal, policy) ==
  CASE seal = "foreign" -> "UNSUPPORTED"
    [] seal = "broken" -> "INTEGRITY_FAILURE"
    [] ~n.fresh /\ ~policy.accept -> "NOT_FRESH"
    [] SourcesMoved(n) -> "STALE"
    [] OTHER -> "VALID"

Bindings(n, seal, policy) ==
  CASE seal = "foreign" -> "UNSUPPORTED"
    [] seal = "broken" -> "INTEGRITY_FAILURE"
    [] ~n.fresh /\ ~policy.accept -> "NOT_FRESH"
    [] SourcesMoved(n) -> "STALE"
    [] Digest(n) # Digest(net) -> "CONTENT_MISMATCH"
    [] OTHER -> "VALID"

(***********************************************************************************)
(* The steps of a plan, looked up by identifier in the later snapshot.             *)
(***********************************************************************************)
StepPorts(route) ==
  {given.source, given.destination}
    \cup {Arc(route[k]).to : k \in {j \in DOMAIN route : Arc(route[j]).op \in {"convert", "regenerate"}}}

StepNodes(route) ==
  {Port(given.source).node}
    \cup {Port(Arc(route[k]).to).node :
            k \in {j \in DOMAIN route : Arc(route[j]).op # "express" /\ EntersNode(Arc(route[j]))}}

\* The records of n that have the identifier and kind of arc i.
Records(n, i) == {a \in Range(n.arc) : a.id = Arc(i).id /\ (a.op = "span") = (Arc(i).op = "span")}

Wanted(channel) == channel.slot .. channel.slot + given.width - 1

\* Resources whose administrative state is not Up, or which are gone.  An "unsure" one may
\* publish its state or not: it is among the doubtful.
DownSteps(n, route) ==
  {p \in StepPorts(route) : p \notin DOMAIN n.port \/ n.port[p].state = "down"}
    \cup {x \in StepNodes(route) : x \notin DOMAIN n.node \/ n.node[x].admin # "up"}
    \cup {Arc(i).id : i \in {j \in Range(route) : \A a \in Records(n, j) : a.state = "down"}}

DoubtfulSteps(n, route) ==
  {p \in StepPorts(route) \cap DOMAIN n.port : n.port[p].state = "unsure"}
    \cup {Arc(i).id : i \in {j \in Range(route) : \E a \in Records(n, j) : a.state = "unsure"}}

\* Spans whose recorded channel is blocked.
BlockedSpans(n, c) ==
  {Arc(c.route[ch.at]).id :
     ch \in {d \in Range(c.channels) : \E a \in Records(n, c.route[d.at]) :
                Wanted(d) \cap (a.blocked \cup {s \in Wanted(d) : s >= n.slots}) # {}}}

(***********************************************************************************)
(* The accounting of a segment, which is named by the arc that opened it.          *)
(***********************************************************************************)
SegmentStarts(route) == {0} \cup {k \in DOMAIN route : Arc(route[k]).op = "regenerate"}

SegmentSpans(route, s) ==
  {k \in DOMAIN route : Arc(route[k]).op = "span" /\ Since(route, k, {"regenerate"}) = s}

Accounting(n, route, s) ==
  [q \in Quantities |->
     MapThenSumSet(LAMBDA k : LET adds == (CHOOSE a \in Records(n, route[k]) : TRUE).adds[q]
                              IN IF adds = Unknown THEN 0 ELSE adds,
                   {k \in SegmentSpans(route, s) : Records(n, route[k]) # {}})]

\* Mutant of ChangedSegments: the accounting starts at the head of the route each time.
ChangedSegmentsCumulative(n, route) ==
  {SectionProfile(given, route, s) : s \in {s \in SegmentStarts(route) :
     [q \in Quantities |-> MapThenSumSet(LAMBDA t : Accounting(n, route, t)[q],
                                         {t \in SegmentStarts(route) : t <= s})]
       # Accounting(net, route, s)}}

\* The reach profiles of the segments whose accounting does not reproduce.
ChangedSegments(n, route) ==
  {SectionProfile(given, route, s) :
     s \in {t \in SegmentStarts(route) : Accounting(n, route, t) # Accounting(net, route, t)}}

(***********************************************************************************)
(* The two entry points.                                                           *)
(***********************************************************************************)
Report(v, deep, failures, k, n) ==
  [validity |-> IF deep /\ v = "VALID" /\ failures # {} THEN "MISSING_EVIDENCE" ELSE v,
   revalidated |-> deep, failures |-> failures, plan |-> k, evidence |-> n]

ValidatePlanBindings ==
  /\ Done("FEASIBLE") /\ report.validity = "none"
  /\ \E n \in Later(net), k \in DOMAIN result.candidates, accept \in BOOLEAN,
        seal \in Seals :
       report' = Report(Bindings(n, seal, [accept |-> accept]), FALSE, {}, k, n)
  /\ UNCHANGED vars

\* Without revalidate_on_mismatch a mismatch ends the check.
RevalidatePlan ==
  /\ Done("FEASIBLE") /\ report.validity = "none"
  /\ \E n \in Later(net), k \in DOMAIN result.candidates, accept, anyway \in BOOLEAN :
       LET c == result.candidates[k]
           v == Bindings(n, "intact", [accept |-> accept])
           found == DownSteps(n, c.route) \cup BlockedSpans(n, c) \cup ChangedSegments(n, c.route)
       IN IF v # "VALID" /\ ~anyway
          THEN report' = Report(v, FALSE, {}, k, n)
          ELSE \E more \in SUBSET DoubtfulSteps(n, c.route) :
                 report' = Report(v, TRUE, found \cup more, k, n)
  /\ UNCHANGED vars

VInit == Init /\ report = NoReport

VNext == (Next /\ UNCHANGED report) \/ ValidatePlanBindings \/ RevalidatePlan

\* The thread that runs Plan keeps running.
VSpec == VInit /\ [][VNext]_<<vars, report>> /\ WF_<<vars, report>>(Steps /\ UNCHANGED report)

-----------------------------------------------------------------------------------
\* The routes of the evidence the last report is about.
Now == INSTANCE Routes WITH net <- report.evidence

Route == result.candidates[report.plan].route

\* A plan that is checked against the evidence it was made from reproduces: BuildPlan and
\* RevalidatePlan, which do their accounting apart, agree (src/validate.cpp:295-322).  The
\* search does not look at the state of nodes, so they are up here.
PlanReproduces ==
  /\ report.revalidated /\ Digest(report.evidence) = Digest(net)
  /\ \A x \in DOMAIN net.node : net.node[x].admin = "up"
  => report.failures = {}

\* "may I still act on this plan?" (include/opp/validate.hpp:8): while the bindings are
\* VALID the route satisfies the request on the evidence at hand.
ValidIsCurrent ==
  report.validity = "VALID" =>
    Now!Admissible(given, Route) /\ Now!Certain(given, Route, FALSE)

\* "RevalidatePlan re-derives every eligibility decision of the plan against the current
\* snapshot" (include/opp/validate.hpp:10-11): when it reports no failure, the route
\* satisfies the request on that snapshot.
DecisionsRederived ==
  report.revalidated /\ report.failures = {} => Now!Admissible(given, Route)

===================================================================================
