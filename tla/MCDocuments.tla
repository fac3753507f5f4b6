-------------------------------- MODULE MCDocuments --------------------------------
(***********************************************************************************)
(* Three ports on two nodes.  Each kind has a record, one that disagrees with it   *)
(* or repeats it, and one that refers to something that may have no record.  The   *)
(* samples have one of each record of their format, and the values that a text     *)
(* carries with difficulty: an empty text, an escaped one, a colon in a name.      *)
(* The slot masks of the records are a machine of their own, which runs while      *)
(* neither the builder nor a text is in use.                                       *)
(***********************************************************************************)
EXTENDS Documents, SlotMasks

A == <<"a">>
B == <<"b">>
C == <<"c", "c", "c", "c", "c">>    \* a token has no room for it beside another one

MCIdOrder == <<<<"0">>, <<"1">>, <<"2">>, A, B, <<"c">>, C, <<"second">>, <<"unknown">>>>
MCScraps == {<<"%", "?">>, <<"0">>, <<"1">>, <<"2">>, B, <<"second">>, <<"unknown">>}

One == Known(<<"1">>)
Up == Known(<<"first">>)
Own == [src |-> A, gen |-> 1]

SourceC(i, c) == [id |-> i, gen |-> 1, coverage |-> c]
ProfileC(i, n) == [id |-> i, dist |-> Unknown, spans |-> Known(FormatU64(n)), loss |-> One, osnr |-> Conflicting] @@ Own
NodeC(i, c, d) ==
  [id |-> i, kind |-> "first", coverage |-> c, admin |-> Up, cost |-> 0] @@ Own
    @@ IF d = <<>> THEN <<>> ELSE [domains |-> d]
PortC(n, p, tx, cost) ==
  [node |-> n, port |-> p, role |-> "first", admin |-> Up, tx |-> tx, slots |-> One, cost |-> cost] @@ Own
EndsC(i, f, t) == [id |-> i, fnode |-> f[1], fport |-> f[2], tnode |-> t[1], tport |-> t[2]]
SpanC(i, f, t, m) ==
  [direction |-> m, len |-> One, loss |-> One, osnr |-> One, slots |-> Unknown, admin |-> Up, cost |-> 1]
    @@ EndsC(i, f, t) @@ Own
CrossC(i, f, t, op, mask) == [op |-> op, slots |-> Known(mask), admin |-> Up, cost |-> 1] @@ EndsC(i, f, t) @@ Own

P1 == <<A, A>>
P2 == <<A, B>>
P3 == <<B, A>>
Dark == Known(<<"-">>)
Named == Known(<<"unknown">>)

MCScalars == ("id" :> <<Value(A)>>) @@ ("generation" :> <<Value(1)>>) @@ ("grid" :> <<Value("first")>>) @@ ("slots" :> <<Value(1)>>)

R(kind, c) == RecordOf(kind, c, 1)

MCCatalogue ==
  {R("source", SourceC(A, "first")), R("source", SourceC(B, "second")),
   R("node", NodeC(A, "first", <<A, B>>)), R("node", NodeC(A, "first", <<B, A>>)), R("node", NodeC(A, "second", <<A>>)),
   R("node", NodeC(B, "first", <<A, B, C>>)), R("node", NodeC(B, "first", <<A, C>>)),
   R("port", PortC(A, A, Dark, 0)), R("port", PortC(A, A, Dark, 1)), R("port", PortC(A, B, Named, 0)),
   R("port", PortC(B, A, Dark, 0)),
   R("span", SpanC(A, P1, P2, "first")), R("span", SpanC(A, P1, P2, "second")), R("span", SpanC(B, P1, P2, "first")),
   R("span", SpanC(A, P2, P1, "second")), R("span", SpanC(C, P1, P3, "first")),
   R("cross", CrossC(A, P2, P1, "first", <<"1">>)), R("cross", CrossC(A, P2, P1, "second", <<"1">>)),
   R("cross", CrossC(B, P1, P1, "first", <<"1">>)),
   R("profile", ProfileC(A, 0)), R("profile", ProfileC(A, 1)), R("profile", ProfileC(A, 2))}

MCOptions ==
  {[reject_self_loops |-> TRUE, allow_unresolved |-> TRUE],
   [reject_self_loops |-> FALSE, allow_unresolved |-> FALSE]}

Sum == <<"sum", "1">>
Lists(f, v) == v @@ Blank(f)

Request ==
  Lists("request",
    [kw \in {"id", "exclude-node", "exclude-span", "exclude-crossconnect", "exclude-domain"} |-> <<Value(A)>>]
      @@ [kw \in {"source", "destination", "exclude-port"} |-> <<[node |-> A, port |-> B]>>]
      @@ [kw \in {"cost", "snapshot-generation", "max-loss", "min-osnr", "max-spans"} |-> <<Value(1)>>]
      @@ ("snapshot-digest" :> <<Value(Sum)>>)
      @@ [kw \in {"srcgen", "domain-limit"} |-> <<[id |-> A, value |-> 1], [id |-> B, value |-> 0]>>])

Policy == [kw \in {"accept-restored-evidence", "revalidate-on-mismatch"} |-> <<Value("first")>>]

Res(x) == [kind |-> "port", text |-> x]
StepC(i, kind) == [index |-> i, kind |-> kind, seg |-> 0, reason |-> 1, cost |-> 2, res |-> Res(A)]
SegmentC(i) == [index |-> i, profile |-> A, runs |-> 1, distance |-> 1, loss |-> 0, osnr |-> 1, spans |-> 1, end |-> "first"]
SegSpanC(i, node) ==
  [index |-> i, id |-> A, from |-> [node |-> node, port |-> B], to |-> [node |-> A, port |-> A], rev |-> 0,
   len |-> 1, loss |-> 0, osnr |-> 1, cost |-> 1, slot |-> 0]

Plan(node) ==
  [rule |-> <<Value(1)>>, request |-> <<[id |-> A, digest |-> Sum]>>, snapshot |-> <<[id |-> A, gen |-> 1, digest |-> Sum]>>,
   binding |-> <<[source |-> A, gen |-> 1, contrib |-> Sum]>>,
   endpoints |-> <<[snode |-> A, sport |-> A, dnode |-> B, dport |-> B]>>, channel |-> <<[width |-> 2]>>,
   totals |-> <<[cost |-> 2, distance |-> 1, loss |-> 0, hops |-> 2, regen |-> 1]>>,
   step |-> <<StepC(0, "first"), StepC(1, "second")>>,
   segment |-> <<[SegmentC(0) EXCEPT !.end = "second"] @@ [xc |-> Res(B)], SegmentC(1)>>,
   segspan |-> <<SegSpanC(0, node) @@ [domains |-> <<A, B>>], SegSpanC(1, A)>>,
   reservation |-> <<[res |-> Res(A), first |-> 0, width |-> 2, seg |-> 0]>>,
   capability |-> <<[res |-> Res(A), field |-> <<"f">>, value |-> <<"%">>]>>,
   quality |-> <<[res |-> Res(A), field |-> <<"f">>, value |-> <<>>]>>,
   exposure |-> <<[domain |-> A, count |-> 1, limit |-> 0]>>]

Result(plans) ==
  Lists("result",
    [candidates |-> plans, outcome |-> <<Value("first")>>, status |-> <<[code |-> "first", detail |-> <<"a", " ">>]>>,
     limitations |-> <<Value(2)>>, cut |-> <<[reason |-> "second", count |-> 2]>>,
     witness |-> <<[reason |-> "first", res |-> Res(A), detail |-> <<>>]>>])

Snapshot1 ==
  MCScalars @@ [source |-> <<SourceC(A, "first")>>, profile |-> <<ProfileC(A, 1)>>, node |-> <<NodeC(A, "first", <<A, B>>)>>,
                port |-> <<PortC(A, A, Dark, 0), PortC(A, B, Known(A), 0)>>, span |-> <<SpanC(A, P1, P2, "first")>>,
                xc |-> <<CrossC(A, P2, P1, "first", <<"0">>)>>]

\* A node whose domains make its line unreadable.
Snapshot2 == [Snapshot1 EXCEPT !["node"] = <<NodeC(A, "first", <<A, C>>)>>]

MCSamples ==
  [request |-> {Request}, policy |-> {Policy}, plan |-> {Plan(A), Plan(<<"a", ":", "b">>)},
   result |-> {Result(<<>>), Result(<<Plan(A)>>)}, snapshot |-> {Snapshot1, Snapshot2}]

MCInit == DocsInit /\ MaskInit

Idle == ~built /\ Size = 0 /\ format = "none" /\ options = DefaultOptions

MCNext ==
  \/ words = None /\ UNCHANGED maskVars /\ DocsNext
  \/ Idle /\ MaskNext /\ UNCHANGED <<vars, docs>>

MCSpec == MCInit /\ [][MCNext]_<<vars, docs, maskVars>>
====================================================================================
