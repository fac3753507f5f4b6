--------------------------------- MODULE Topology ---------------------------------
(***********************************************************************************)
(* SnapshotBuilder (src/topology.cpp): records are added in any order, Build sorts *)
(* them, collapses duplicates, notes conflicts and unresolved references, and      *)
(* lays out the adjacency a search runs on.                                        *)
(*                                                                                 *)
(* A record is [kind, id, ...]: a source and a node say whether their coverage is  *)
(* complete, a port names its node, a span and a cross-connect their two ports, a  *)
(* span whether it is bidirectional.  domains lists its failure domains, body      *)
(* stands for the other fields and sound for their being in range.  Identifiers    *)
(* are numbers, for their order; a port's identifier is its whole key.             *)
(***********************************************************************************)
EXTENDS Integers, Sequences, FiniteSets, SequencesExt, FiniteSetsExt

CONSTANTS Catalogue,     \* the records that may be added
          Options,       \* the SnapshotBuildOptions in use
          MaxPerKind,    \* kMaxNodes, kMaxPorts, ...
          MaxDomains,    \* kMaxDomainsPerResource
          MaxRecords     \* bound of the model: the records of one snapshot

VARIABLES options,       \* options_
          held,          \* sources_, nodes_, ... : kind -> the records added
          built,         \* built_
          snapshot,      \* what Build returned
          offered        \* the set of records the Add* calls accepted

vars == <<options, held, built, snapshot, offered>>

Kinds == {"source", "node", "port", "span", "cross", "profile"}

NoSnapshot == [status |-> "none"]

Init ==
  /\ options \in Options
  /\ held = [kind \in Kinds |-> <<>>]
  /\ built = FALSE /\ snapshot = NoSnapshot /\ offered = {}

Size == Len(held["source"]) + Len(held["node"]) + Len(held["port"])
          + Len(held["span"]) + Len(held["cross"]) + Len(held["profile"])

\* AddSource, AddNode, ...: refused once sealed or full.
Add(r) ==
  /\ ~built /\ Len(held[r.kind]) < MaxPerKind
  /\ held' = [held EXCEPT ![r.kind] = Append(@, r)]
  /\ offered' = offered \cup {r}
  /\ UNCHANGED <<options, built, snapshot>>

(***********************************************************************************)
(* SortAndDeduplicate.                                                             *)
(***********************************************************************************)
Before(r, q) ==
  IF r.kind \in {"span", "cross"}
  THEN \/ r.from < q.from
       \/ r.from = q.from /\ r.to < q.to
       \/ r.from = q.from /\ r.to = q.to /\ r.id < q.id
  ELSE r.id < q.id

\* NormaliseDomains: the domains of a record become a sorted list without repeats, a set.
NormaliseDomains(r) == [r EXCEPT !.domains = Range(@)]

\* std::sort: the records in any order that Before permits, made by inserting one at a time.
Sorts(list) ==
  FoldLeft(LAMBDA sorted, r :
             UNION {{InsertAt(s, i, r) :
                       i \in {k \in 1 .. Len(s) + 1 : /\ \A j \in 1 .. k - 1 : ~Before(r, s[j])
                                                      /\ \A j \in k .. Len(s) : ~Before(s[j], r)}} : s \in sorted},
           {<<>>}, list)

\* Mutant of Collapse: a record that disagrees with the retained one is dropped silently.
CollapseSilent(acc, r) ==
  IF acc.unique # <<>> /\ Last(acc.unique).id = r.id THEN acc
  ELSE [acc EXCEPT !.unique = Append(@, r)]

\* One record of the scan: it is compared with the last one kept.
Collapse(acc, r) ==
  IF acc.unique = <<>> \/ Last(acc.unique).id # r.id THEN [acc EXCEPT !.unique = Append(@, r)]
  ELSE IF Last(acc.unique) = r THEN acc
  ELSE [acc EXCEPT !.conflicted = @ \cup {<<r.kind, r.id>>}]

Deduplicate(s) == FoldLeft(Collapse, [unique |-> <<>>, conflicted |-> {}], s)

\* Mutant of Kept: duplicates are collapsed in the order the records came.
KeptUnsorted(list) == {Deduplicate([k \in DOMAIN list |-> NormaliseDomains(list[k])])}

\* What may be left of the records of one kind.
Kept(list) == {Deduplicate(s) : s \in Sorts([k \in DOMAIN list |-> NormaliseDomains(list[k])])}

(***********************************************************************************)
(* Adjacency.  n is the kept records of each kind.                                 *)
(***********************************************************************************)
Ids(s) == {r.id : r \in Range(s)}

Links(n) == Range(n["span"].unique) \cup Range(n["cross"].unique)

\* The arcs of the links that have a record for both of their ports.
Arcs(n) ==
  LET known == Ids(n["port"].unique)
      whole == {l \in Links(n) : {l.from, l.to} \subseteq known}
  IN {[link |-> l, reversed |-> FALSE, tail |-> l.from, head |-> l.to] : l \in whole}
       \cup {[link |-> l, reversed |-> TRUE, tail |-> l.to, head |-> l.from] :
               l \in {m \in whole : m.kind = "span" /\ m.mirrored}}

\* Cross-connects and spans have lists of their own, each in the order of identifiers.
ArcBefore(a, b) ==
  \/ a.link.kind = "cross" /\ b.link.kind = "span"
  \/ a.link.kind = b.link.kind /\ a.link.id < b.link.id
  \/ a.link = b.link /\ ~a.reversed /\ b.reversed

\* The arcs in any order that ArcBefore permits.
ArcSorts(arcs) ==
  FoldSet(LAMBDA a, sorted :
            UNION {{InsertAt(s, i, a) :
                      i \in {k \in 1 .. Len(s) + 1 : /\ \A j \in 1 .. k - 1 : ~ArcBefore(a, s[j])
                                                     /\ \A j \in k .. Len(s) : ~ArcBefore(s[j], a)}} : s \in sorted},
          {<<>>}, arcs)

\* Mutant of UnresolvedAt: only the port a link leaves is marked.
UnresolvedAtTail(n) ==
  {p.id : p \in {q \in Range(n["port"].unique) : q.node \notin Ids(n["node"].unique)}}
    \cup {x \in Ids(n["port"].unique) : \E l \in Links(n) :
            x = l.from /\ l.to \notin Ids(n["port"].unique)}

\* unresolved_at_port_: the ports whose node is missing, or from which an arc was dropped.
UnresolvedAt(n) ==
  {p.id : p \in {q \in Range(n["port"].unique) : q.node \notin Ids(n["node"].unique)}}
    \cup {x \in Ids(n["port"].unique) : \E l \in Links(n) :
            \/ x = l.from /\ l.to \notin Ids(n["port"].unique)
            \/ x = l.to /\ l.from \notin Ids(n["port"].unique)}

Unresolved(n) ==
  {<<"node", p.node>> : p \in {q \in Range(n["port"].unique) : q.node \notin Ids(n["node"].unique)}}
    \cup {<<"port", x>> : x \in UNION {{l.from, l.to} : l \in Links(n)} \ Ids(n["port"].unique)}

Conflicted(n) == UNION {n[kind].conflicted : kind \in Kinds}

\* Mutant of Covers: the coverage that nodes declare is not looked at.
CoversBySource(n) ==
  /\ Unresolved(n) = {} /\ Conflicted(n) = {}
  /\ \A r \in Range(n["source"].unique) : r.complete

Covers(n) ==
  /\ Unresolved(n) = {} /\ Conflicted(n) = {}
  /\ \A r \in Range(n["source"].unique) \cup Range(n["node"].unique) : r.complete

\* The conditions on which Build fails, for the lists h and the options o.
Rejected(h, o, n) ==
  \/ \E i, j \in DOMAIN h["source"] : i # j /\ h["source"][i].id = h["source"][j].id
  \/ \E kind \in Kinds : \E r \in Range(h[kind]) :
       ~r.sound \/ Cardinality(Range(r.domains)) > MaxDomains
  \/ o.reject_self_loops /\ \E l \in Links(n) : l.from = l.to
  \/ ~o.allow_unresolved /\ Unresolved(n) # {}

Snapshot(n, order) ==
  [status |-> "ok",
   records |-> [kind \in Kinds |-> n[kind].unique],
   adjacency |-> [x \in Ids(n["port"].unique) |-> SelectSeq(order, LAMBDA a : a.tail = x)],
   unresolved |-> Unresolved(n), unresolved_at |-> UnresolvedAt(n),
   conflicted |-> Conflicted(n), complete |-> Covers(n)]

\* Every outcome of Build: a snapshot for each order the sorts may leave, or a failure.
Outcomes(h, o) ==
  UNION {IF Rejected(h, o, n) THEN {[status |-> "failed"]}
         ELSE {Snapshot(n, order) : order \in ArcSorts(Arcs(n))} :
           n \in {[source |-> sources, node |-> nodes, port |-> ports,
                   span |-> spans, cross |-> crosses, profile |-> profiles] :
                     sources \in Kept(h["source"]), nodes \in Kept(h["node"]), ports \in Kept(h["port"]),
                     spans \in Kept(h["span"]), crosses \in Kept(h["cross"]), profiles \in Kept(h["profile"])}}

Build ==
  /\ ~built /\ built' = TRUE
  /\ snapshot' \in Outcomes(held, options)
  /\ held' = [kind \in Kinds |-> <<>>]      \* cleared; after a failure nothing reads them again
  /\ UNCHANGED <<options, offered>>

Next == Build \/ (Size < MaxRecords /\ ~built /\ \E r \in Catalogue : Add(r))

Spec == Init /\ [][Next]_vars

(***********************************************************************************)
(* Properties.                                                                     *)
(***********************************************************************************)
\* What was accepted, as Build sees it.
Accepted == {NormaliseDomains(r) : r \in offered}

Published == snapshot.status = "ok"

\* A link is a span or a cross-connect; two of them are one resource when they also agree
\* on their ports (SortAndDeduplicate compares neighbours of an order that starts there).
SameResource(r, q) ==
  /\ r.kind = q.kind /\ r.id = q.id
  /\ r.kind \in {"span", "cross"} => r.from = q.from /\ r.to = q.to

\* The arcs a link stands for, wherever the ports are.
Directions(l) ==
  {<<l.from, l.to>>} \cup (IF l.kind = "span" /\ l.mirrored THEN {<<l.to, l.from>>} ELSE {})

\* Two accepted records of one resource that disagree are never resolved silently: the
\* snapshot names the resource as conflicting, whichever record the sort put first.
ConflictsNamed ==
  Published =>
    \A r, q \in Accepted :
      SameResource(r, q) /\ r # q => <<r.kind, r.id>> \in snapshot.conflicted

\* coverage_complete is a claim about everything that was added: every source and node
\* declared itself complete, every port has its node, and every direction of every link is
\* an arc of the adjacency.  An INFEASIBLE verdict rests on it.
CompleteIsWhole ==
  Published /\ snapshot.complete =>
    \A r \in Accepted :
      /\ r.kind \in {"source", "node"} => r.complete
      /\ r.kind = "port" => \E q \in Accepted : q.kind = "node" /\ q.id = r.node
      /\ r.kind \in {"span", "cross"} =>
           \A d \in Directions(r) :
             /\ d[1] \in DOMAIN snapshot.adjacency
             /\ \E a \in Range(snapshot.adjacency[d[1]]) : a.link = r /\ a.head = d[2]

\* An arc that had to be dropped leaves a mark where the search meets the gap: a port that
\* has a record and lost an arc, or whose node has none, answers HasUnresolvedArcs.
FrontierMarked ==
  Published =>
    \A x \in DOMAIN snapshot.adjacency : \A r \in Accepted :
      \/ r.kind = "port" /\ r.id = x /\ r.node \notin {q.id : q \in {a \in Accepted : a.kind = "node"}}
      \/ /\ r.kind \in {"span", "cross"} /\ x \in {r.from, r.to}
         /\ {r.from, r.to} \ DOMAIN snapshot.adjacency # {}
         /\ <<r.kind, r.id>> \notin snapshot.conflicted
      => x \in snapshot.unresolved_at /\ ~snapshot.complete

\* Without conflicts the order of the Add calls, repeated records and the order in which a
\* record lists its failure domains leave no trace: the lists hold exactly the accepted
\* records, each strictly in canonical order, and so does each port's adjacency.
OrderLeavesNoTrace ==
  Published /\ snapshot.conflicted = {} =>
    /\ \A kind \in Kinds :
         /\ Range(snapshot.records[kind]) = {r \in Accepted : r.kind = kind}
         /\ \A i, j \in DOMAIN snapshot.records[kind] :
              i < j => Before(snapshot.records[kind][i], snapshot.records[kind][j])
    /\ \A x \in DOMAIN snapshot.adjacency : \A i, j \in DOMAIN snapshot.adjacency[x] :
         LET a == snapshot.adjacency[x][i]
             b == snapshot.adjacency[x][j]
         IN i < j /\ (a.link.id = b.link.id => a.link.kind # b.link.kind) => ArcBefore(a, b)
===================================================================================
