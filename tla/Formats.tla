---------------------------------- MODULE Formats ----------------------------------
(***********************************************************************************)
(* The text formats: requests and validation policies (src/request_io.cpp), plan   *)
(* artifacts (src/plan.cpp), planning results (src/result.cpp) and snapshots       *)
(* (src/snapshot_io.cpp).                                                          *)
(*                                                                                 *)
(* A value of a format maps each keyword to the sequence of its records, a record  *)
(* to its fields; an optional field that is absent is outside the domain.  Writes  *)
(* is what the printer puts on the lines, in its order; Reads is what the parser   *)
(* asks of a line of that keyword.  The two are written down separately, as the    *)
(* code does.                                                                      *)
(***********************************************************************************)
EXTENDS Lines

Magic(format) ==
  CASE format = "request" -> "OPP-REQUEST" [] format = "policy" -> "OPP-VALIDATION-POLICY"
    [] format = "plan" -> "OPP-PLAN" [] format = "result" -> "OPP-RESULT" [] format = "snapshot" -> "OPP-SNAPSHOT"

(***********************************************************************************)
(* Printers.  A row is <<keyword, positional fields, keyed fields>>.               *)
(***********************************************************************************)
Plain(kw, type) == <<kw, <<<<"value", type>>>>, <<>>>>
PortRow(kw) == <<kw, Of("id", <<"node", "port">>), <<>>>>

RequestToText ==
  <<Plain("id", "id"), PortRow("source"), PortRow("destination"), Plain("width", "number"),
    Plain("candidates", "number"), Plain("regenerations", "number"), Plain("hops", "number"), Plain("cost", "number"),
    Plain("disjointness", "name"), Plain("accept-restored-evidence", "bool"), Plain("search-expansions", "number"),
    Plain("search-labels", "number"), <<"srcgen", <<<<"id", "id">>, <<"value", "number">>>>, <<>>>>,
    Plain("snapshot-generation", "number"), Plain("snapshot-digest", "hex"), Plain("exclude-node", "id"),
    PortRow("exclude-port"), Plain("exclude-span", "id"), Plain("exclude-crossconnect", "id"),
    Plain("exclude-domain", "id"), <<"domain-limit", <<<<"id", "id">>, <<"value", "number">>>>, <<>>>>,
    Plain("max-distance", "number"), Plain("max-spans", "number"), Plain("max-loss", "number"),
    Plain("min-osnr", "number"), Plain("allow-regeneration", "bool"), Plain("allow-conversion", "bool"),
    Plain("require-spectrum-continuity-across-regeneration", "bool"), Plain("allow-repeated-resources", "bool")>>

ValidationPolicyToText == <<Plain("accept-restored-evidence", "bool"), Plain("revalidate-on-mismatch", "bool")>>

Assumption == Of("resource", <<"res">>) \o Of("text", <<"field", "value">>)

PlanToText ==
  <<Plain("rule", "number"),
    <<"request", <<<<"id", "id">>, <<"digest", "hex">>>>, <<>>>>,
    <<"snapshot", <<<<"id", "id">>, <<"gen", "number">>, <<"digest", "hex">>>>, <<>>>>,
    <<"binding", Of("id", <<"source">>), <<<<"gen", "number">>, <<"contrib", "hex">>>>>>,
    <<"endpoints", <<>>, Of("id", <<"snode", "sport", "dnode", "dport">>)>>,
    <<"channel", <<>>, Of("number", <<"width">>)>>,
    <<"totals", <<>>, Of("number", <<"cost", "distance", "loss", "hops", "regen">>)>>,
    <<"step", Of("number", <<"index">>),
      Of("name", <<"kind">>) \o Of("number", <<"seg", "reason", "cost">>) \o Of("resource", <<"res">>)>>,
    <<"segment", Of("number", <<"index">>),
      Of("id", <<"profile">>) \o Of("number", <<"runs", "distance", "loss", "osnr", "spans">>)
        \o Of("name", <<"end">>) \o Of("resource", <<"xc">>)>>,
    <<"segspan", Of("number", <<"index">>),
      Of("id", <<"id">>) \o Of("port", <<"from", "to">>) \o Of("bit", <<"rev">>)
        \o Of("number", <<"len", "loss", "osnr", "cost", "slot">>) \o Of("domains", <<"domains">>)>>,
    <<"reservation", <<>>, Of("resource", <<"res">>) \o Of("number", <<"first", "width", "seg">>)>>,
    <<"capability", <<>>, Assumption>>, <<"quality", <<>>, Assumption>>,
    <<"exposure", <<>>, Of("id", <<"domain">>) \o Of("number", <<"count", "limit">>)>>>>

Statistics ==
  <<"labels_created", "labels_expanded", "labels_dominated", "peak_frontier", "arcs_examined", "states_visited">>

\* The names after the mask of limitations are for a reader; they follow from the mask.
ResultToText ==
  <<Plain("outcome", "name"), <<"status", Of("name", <<"code">>), Of("text", <<"detail">>)>>,
    Plain("request-digest", "hex"), Plain("snapshot-digest", "hex"), Plain("limitations", "number"),
    Plain("optimality", "name"), <<"statistics", <<>>, Of("number", Statistics) \o Of("bit", <<"truncated">>)>>,
    <<"witness", Of("name", <<"reason">>), Of("resource", <<"res">>) \o Of("text", <<"detail">>)>>,
    <<"cut", <<<<"reason", "name">>, <<"count", "number">>>>, <<>>>>>>

Owner == Of("id", <<"src">>) \o Of("number", <<"gen">>)
Costed == Of("number", <<"cost">>) \o Owner \o Of("domains", <<"domains">>)
Ends == Of("id", <<"id", "fnode", "fport", "tnode", "tport">>)

SnapshotToText ==
  <<Plain("id", "id"), Plain("generation", "number"), Plain("grid", "name"), Plain("slots", "number"),
    <<"source", <<<<"id", "id">>, <<"gen", "number">>, <<"coverage", "name">>>>, <<>>>>,
    <<"profile", Of("id", <<"id">>), Of("level", <<"dist", "spans", "loss", "osnr">>) \o Owner>>,
    <<"node", Of("id", <<"id">>) \o Of("name", <<"kind", "coverage">>), Of("state", <<"admin">>) \o Costed>>,
    <<"port", Of("id", <<"node", "port">>) \o Of("name", <<"role">>),
      Of("state", <<"admin">>) \o Of("profile", <<"tx">>) \o Of("level", <<"slots">>) \o Costed>>,
    <<"span", Ends \o Of("name", <<"direction">>),
      Of("level", <<"len", "loss", "osnr", "slots">>) \o Of("state", <<"admin">>) \o Costed>>,
    <<"xc", Ends \o Of("name", <<"op">>), Of("level", <<"slots">>) \o Of("state", <<"admin">>) \o Costed>>>>

Writes(format) ==
  CASE format = "request" -> RequestToText [] format = "policy" -> ValidationPolicyToText
    [] format = "plan" -> PlanToText [] format = "result" -> ResultToText [] format = "snapshot" -> SnapshotToText

Header(format) == [kw |-> Magic(format), toks |-> <<Token("", FormatU64(1))>>]

Records(format, v) ==
  FlattenSeq([k \in DOMAIN Writes(format) |->
    LET row == Writes(format)[k]
    IN [j \in DOMAIN v[row[1]] |-> Assemble(row[1], row[2], row[3], v[row[1]][j])]])

\* A digest is the text it was computed from: collisions aside, equal for equal texts only.
DigestOf(lines) == <<"of", lines>>
Zero == <<"sum", "0">>

DigestLine(kw, d) == [kw |-> kw, toks |-> <<Token("", d)>>]

Candidate(plan) ==
  LET body == <<Header("plan")>> \o Records("plan", plan)
  IN <<DigestLine("candidate", DigestOf(body)), [kw |-> "candidate-plan-begin", toks |-> <<>>]>>
       \o body \o <<DigestLine("digest", DigestOf(body)), [kw |-> "candidate-plan-end", toks |-> <<>>]>>

\* What a digest of the value covers: DigestPayload of a plan, the canonical text of a result
\* with a zeroed digest line, the whole text of a request and of a snapshot.
Payload(format, v) ==
  <<Header(format)>> \o Records(format, v)
    \o IF format = "result"
       THEN FlattenSeq([k \in DOMAIN v["candidates"] |-> Candidate(v["candidates"][k])])
              \o <<DigestLine("digest", Zero)>>
       ELSE <<>>

\* CanonicalBytes: the sealed text.
Text(format, v) ==
  LET body == Payload(format, v)
  IN CASE format = "plan" -> Append(body, DigestLine("digest", DigestOf(body)))
       [] format = "result" -> Append(Front(body), DigestLine("digest", DigestOf(body)))
       [] OTHER -> body

\* Mutant of SourceContribution: the line that declares the source is not its own.
ContributionUndeclared(v, source) ==
  SelectSeq(Payload("snapshot", v),
            LAMBDA line : Splits(line) /\ FindKeyedField(line.toks, 1, "src") = {source})

\* SourceContributionDigest: the lines of one source; a line that cannot be split is skipped.
SourceContribution(v, source) ==
  SelectSeq(Payload("snapshot", v),
            LAMBDA line : /\ Splits(line)
                          /\ IF line.kw = "source" THEN line.toks[1].text = source
                             ELSE FindKeyedField(line.toks, 1, "src") = {source})

(***********************************************************************************)
(* Parsers.  exact: no further token is permitted.  Keyed fields are searched for  *)
(* from the token first on; an optional one that is missing or doubled is absent.  *)
(***********************************************************************************)
From(first, fields) == [k \in DOMAIN fields |-> <<fields[k][1], fields[k][2], first>>]

Row(args, exact, keys, optional) == [args |-> args, exact |-> exact, keys |-> keys, optional |-> optional]

\* The row of a keyword the parser does not know: no line satisfies it.
NoRow == Row(<<>>, TRUE, <<<<"none", "none", 1>>>>, <<>>)

\* The constraints in ParseRequestText.
ConstraintRow(kw) ==
  CASE kw \in {"exclude-node", "exclude-span", "exclude-crossconnect", "exclude-domain"} ->
         Row(<<<<"value", "id">>>>, FALSE, <<>>, <<>>)
    [] kw = "exclude-port" -> Row(Of("id", <<"node", "port">>), FALSE, <<>>, <<>>)
    [] kw = "domain-limit" -> Row(<<<<"id", "id">>, <<"value", "number">>>>, FALSE, <<>>, <<>>)
    [] kw \in {"max-loss", "min-osnr"} -> Row(<<<<"value", "number">>>>, FALSE, <<>>, <<>>)
    [] kw \in {"accept-restored-evidence", "allow-regeneration", "allow-conversion",
               "require-spectrum-continuity-across-regeneration", "allow-repeated-resources"} ->
         Row(<<<<"value", "bool">>>>, FALSE, <<>>, <<>>)
    [] OTHER -> NoRow

\* ParseRequestText: fields by place, and whatever follows them is passed over.
RequestRow(kw) ==
  CASE kw = "id" -> Row(<<<<"value", "id">>>>, FALSE, <<>>, <<>>)
    [] kw \in {"source", "destination"} -> Row(Of("id", <<"node", "port">>), FALSE, <<>>, <<>>)
    [] kw \in {"width", "candidates", "regenerations", "hops", "search-expansions", "search-labels", "max-distance",
               "max-spans", "cost", "snapshot-generation"} ->
         Row(<<<<"value", "number">>>>, FALSE, <<>>, <<>>)
    [] kw = "snapshot-digest" -> Row(<<<<"value", "hex">>>>, FALSE, <<>>, <<>>)
    [] kw = "disjointness" -> Row(<<<<"value", "name">>>>, FALSE, <<>>, <<>>)
    [] kw = "srcgen" -> Row(<<<<"id", "id">>, <<"value", "number">>>>, FALSE, <<>>, <<>>)
    [] OTHER -> ConstraintRow(kw)

\* ParseValidationPolicyText.
PolicyRow(kw) ==
  IF kw \in {"accept-restored-evidence", "revalidate-on-mismatch"}
  THEN Row(<<<<"value", "bool">>>>, FALSE, <<>>, <<>>) ELSE NoRow

\* The segments in ParsePlanArtifact.  One has a cross-connect exactly when it ends by regeneration.
SegmentRow(kw, toks) ==
  CASE kw = "segment" ->
         LET fields == Of("id", <<"profile">>) \o Of("number", <<"runs", "distance", "loss", "osnr", "spans">>)
                         \o Of("name", <<"end">>)
         IN Row(Of("number", <<"index">>), FALSE,
                From(2, IF FindKeyedField(toks, 2, "end") = {<<"second">>}
                        THEN fields \o Of("resource", <<"xc">>) ELSE fields), <<>>)
    [] kw = "segspan" ->
         Row(Of("number", <<"index">>), FALSE,
             From(2, Of("id", <<"id">>) \o Of("port", <<"from", "to">>) \o Of("bit", <<"rev">>)
                       \o Of("number", <<"len", "loss", "osnr", "cost", "slot">>)),
             From(2, Of("domains", <<"domains">>)))
    [] OTHER -> NoRow

\* What a plan would reserve and rests on.
GroundsRow(kw) ==
  CASE kw = "reservation" ->
         Row(<<>>, FALSE, From(1, Of("resource", <<"res">>) \o Of("number", <<"first", "width", "seg">>)), <<>>)
    [] kw \in {"capability", "quality"} ->
         Row(<<>>, FALSE, From(1, Of("resource", <<"res">>) \o Of("text", <<"field", "value">>)), <<>>)
    [] kw = "exposure" ->
         Row(<<>>, FALSE, From(1, Of("id", <<"domain">>) \o Of("number", <<"count", "limit">>)), <<>>)
    [] OTHER -> NoRow

\* ParsePlanArtifact.
PlanRow(kw, toks) ==
  CASE kw = "rule" -> Row(<<<<"value", "number">>>>, TRUE, <<>>, <<>>)
    [] kw = "request" -> Row(<<<<"id", "id">>, <<"digest", "hex">>>>, TRUE, <<>>, <<>>)
    [] kw = "snapshot" -> Row(<<<<"id", "id">>, <<"gen", "number">>, <<"digest", "hex">>>>, TRUE, <<>>, <<>>)
    [] kw = "binding" ->
         Row(Of("id", <<"source">>), FALSE, From(2, <<<<"gen", "number">>, <<"contrib", "hex">>>>), <<>>)
    [] kw = "endpoints" -> Row(<<>>, FALSE, From(1, Of("id", <<"snode", "sport", "dnode", "dport">>)), <<>>)
    [] kw = "channel" -> Row(<<>>, FALSE, From(1, Of("number", <<"width">>)), <<>>)
    [] kw = "totals" ->
         Row(<<>>, FALSE, From(1, Of("number", <<"cost", "distance", "loss", "hops", "regen">>)), <<>>)
    [] kw = "step" ->
         Row(Of("number", <<"index">>), FALSE,
             From(2, Of("name", <<"kind">>) \o Of("number", <<"seg", "reason", "cost">>) \o Of("resource", <<"res">>)),
             <<>>)
    [] kw \in {"segment", "segspan"} -> SegmentRow(kw, toks)
    [] OTHER -> GroundsRow(kw)

\* ParseResultText.
ResultRow(kw) ==
  CASE kw \in {"outcome", "optimality"} -> Row(<<<<"value", "name">>>>, TRUE, <<>>, <<>>)
    [] kw = "status" -> Row(Of("name", <<"code">>), FALSE, <<>>, From(2, Of("text", <<"detail">>)))
    [] kw \in {"request-digest", "snapshot-digest"} -> Row(<<<<"value", "hex">>>>, TRUE, <<>>, <<>>)
    [] kw = "limitations" -> Row(<<<<"value", "number">>>>, FALSE, <<>>, <<>>)
    [] kw = "statistics" ->
         Row(<<>>, FALSE, From(1, Of("number", Statistics) \o Of("flag", <<"truncated">>)), <<>>)
    [] kw = "witness" ->
         Row(Of("name", <<"reason">>), FALSE, From(2, Of("resource", <<"res">>)), From(2, Of("text", <<"detail">>)))
    [] kw = "cut" -> Row(<<<<"reason", "name">>, <<"count", "number">>>>, TRUE, <<>>, <<>>)
    [] OTHER -> NoRow

\* The fields that every resource of a snapshot has.
OwnerFrom(first) == From(first, Of("id", <<"src">>) \o Of("number", <<"gen">>))
CostedFrom(first) == From(first, Of("number", <<"cost">>)) \o OwnerFrom(first)
DomainsFrom(first) == From(first, Of("domains", <<"domains">>))

\* Spans and cross-connects in ParseSnapshotText.
LinkRow(kw) ==
  LET ends == Of("id", <<"id", "fnode", "fport", "tnode", "tport">>)
  IN CASE kw = "span" ->
            Row(ends \o Of("name", <<"direction">>), FALSE,
                From(7, Of("level", <<"len", "loss", "osnr", "slots">>) \o Of("state", <<"admin">>)) \o CostedFrom(7),
                DomainsFrom(7))
       [] kw = "xc" ->
            Row(ends \o Of("name", <<"op">>), FALSE,
                From(7, Of("level", <<"slots">>) \o Of("state", <<"admin">>)) \o CostedFrom(7), DomainsFrom(7))
       [] OTHER -> NoRow

\* Sources, profiles, nodes and ports.
ResourceRow(kw) ==
  CASE kw = "source" -> Row(<<<<"id", "id">>, <<"gen", "number">>, <<"coverage", "name">>>>, TRUE, <<>>, <<>>)
    [] kw = "profile" ->
         Row(Of("id", <<"id">>), FALSE, From(2, Of("level", <<"dist", "spans", "loss", "osnr">>)) \o OwnerFrom(2), <<>>)
    [] kw = "node" ->
         Row(Of("id", <<"id">>) \o Of("name", <<"kind", "coverage">>), FALSE,
             From(4, Of("state", <<"admin">>)) \o CostedFrom(5), DomainsFrom(5))
    [] kw = "port" ->
         Row(Of("id", <<"node", "port">>) \o Of("name", <<"role">>), FALSE,
             From(4, Of("state", <<"admin">>) \o Of("profile", <<"tx">>) \o Of("level", <<"slots">>)) \o CostedFrom(4),
             DomainsFrom(4))
    [] OTHER -> LinkRow(kw)

\* ParseSnapshotText.
SnapshotRow(kw) ==
  CASE kw = "id" -> Row(<<<<"value", "id">>>>, TRUE, <<>>, <<>>)
    [] kw \in {"generation", "slots"} -> Row(<<<<"value", "number">>>>, TRUE, <<>>, <<>>)
    [] kw = "grid" -> Row(<<<<"value", "name">>>>, TRUE, <<>>, <<>>)
    [] OTHER -> ResourceRow(kw)

Reads(format, kw, toks) ==
  CASE format = "request" -> RequestRow(kw) [] format = "policy" -> PolicyRow(kw) [] format = "plan" -> PlanRow(kw, toks)
    [] format = "result" -> ResultRow(kw) [] format = "snapshot" -> SnapshotRow(kw)

Keywords(format) == {row[1] : row \in Range(Writes(format))}
====================================================================================
