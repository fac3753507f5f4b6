--------------------------------- MODULE Documents ---------------------------------
(***********************************************************************************)
(* Texts on their way: a value is printed, the text is damaged on the way or not,  *)
(* and a parser reads it.  A snapshot comes from the builder of Topology and goes  *)
(* back through it (SaveSnapshotText, LoadSnapshotText); the other formats start   *)
(* from sample values.                                                             *)
(***********************************************************************************)
EXTENDS Topology, Formats, TLC

CONSTANTS IdOrder,     \* the identifiers of snapshots, in their order; fewer than ten
          Scalars,     \* id, generation, grid and slots given to the builder
          MaxSlots,    \* kMaxSpectrumSlots
          Samples,     \* format -> the values printed
          Scraps       \* the texts that damage may leave in the place of a token

VARIABLES format,      \* of the text, or "none"
          origin,      \* what was printed
          text,        \* the lines
          damaged,     \* whether the text is still as it was printed
          read,        \* whether the text has been read
          outcome      \* what it was read as: nothing when it was refused

docs == <<format, origin, text, damaged, read, outcome>>

(***********************************************************************************)
(* Records of a snapshot, between the fields of a line and the builder.            *)
(***********************************************************************************)
Rank(id) == CHOOSE i \in DOMAIN IdOrder : IdOrder[i] = id
Key(node, port) == 10 * Rank(node) + Rank(port)

Keyword(kind) == IF kind = "cross" THEN "xc" ELSE kind

\* The checks of Build on one record: masks within the spectrum, a span count above zero.
InRange(c, slots) ==
  /\ "slots" \in DOMAIN c /\ c.slots.state = "known" => c.slots.value \in {FormatU64(n) : n \in 0 .. 2^slots - 1}
  /\ "spans" \in DOMAIN c => c.spans # Known(FormatU64(0))

\* The record made of the fields c of a line.
RecordOf(kind, c, slots) ==
  [kind |-> kind, id |-> IF kind = "port" THEN Key(c.node, c.port) ELSE Rank(c.id),
   body |-> [f \in DOMAIN c \ {"domains"} |-> c[f]],
   domains |-> IF "domains" \in DOMAIN c THEN [k \in DOMAIN c.domains |-> Rank(c.domains[k])] ELSE <<>>,
   sound |-> InRange(c, slots)]
    @@ CASE kind \in {"source", "node"} -> [complete |-> c.coverage = "first"]
         [] kind = "port" -> [node |-> Rank(c.node)]
         [] kind = "span" -> [from |-> Key(c.fnode, c.fport), to |-> Key(c.tnode, c.tport),
                              mirrored |-> c.direction = "first"]
         [] kind = "cross" -> [from |-> Key(c.fnode, c.fport), to |-> Key(c.tnode, c.tport)]
         [] kind = "profile" -> <<>>

\* The fields of a record that was built: the domains are a sorted list, absent when empty.
ContentOf(r) ==
  IF r.domains = {} THEN r.body
  ELSE r.body @@ [domains |-> LET d == SetToSortSeq(r.domains, <) IN [k \in DOMAIN d |-> IdOrder[d[k]]]]

Single == {"id", "generation", "grid", "slots"}

ValueOf(scalars, s) ==
  [kw \in Single |-> scalars[kw]]
    @@ [kw \in {Keyword(kind) : kind \in Kinds} |->
          LET list == s.records[IF kw = "xc" THEN "cross" ELSE kw] IN [k \in DOMAIN list |-> ContentOf(list[k])]]

\* What a snapshot says besides its records, and which arcs a search finds at each port.
Claims(s) ==
  [unresolved |-> s.unresolved, unresolved_at |-> s.unresolved_at, conflicted |-> s.conflicted,
   complete |-> s.complete, arcs |-> [x \in DOMAIN s.adjacency |-> Range(s.adjacency[x])]]

DefaultOptions == [reject_self_loops |-> TRUE, allow_unresolved |-> TRUE]

\* The end of ParseSnapshotText: a builder with the default options is given every record.
Restored(v) ==
  LET slots == v["slots"][1].value
      lists == [kind \in Kinds |-> LET list == v[Keyword(kind)]
                                   IN [k \in DOMAIN list |-> RecordOf(kind, list[k], slots)]]
  IN IF slots \notin 1 .. MaxSlots \/ \E kind \in Kinds : Len(lists[kind]) > MaxPerKind THEN {}
     ELSE {[value |-> ValueOf(v, s), claims |-> Claims(s)] :
             s \in {o \in Outcomes(lists, DefaultOptions) : o.status = "ok"}}

Made(f, v) == IF f = "snapshot" THEN Restored(v) ELSE {[value |-> v, claims |-> "none"]}

(***********************************************************************************)
(* Reading.  st is the state of a parser between two lines.                        *)
(***********************************************************************************)
\* Records that a text may repeat; any other one overwrites what an earlier one said.
Repeated(f) ==
  CASE f = "request" -> {"srcgen", "exclude-node", "exclude-port", "exclude-span", "exclude-crossconnect",
                         "exclude-domain", "domain-limit"}
    [] f = "policy" -> {}
    [] f = "plan" -> {"binding", "step", "segment", "segspan", "reservation", "capability", "quality", "exposure"}
    [] f = "result" -> {"witness", "cut", "candidates"}
    [] f = "snapshot" -> {Keyword(kind) : kind \in Kinds}

Value(x) == [value |-> x]

\* The members of a default-constructed value that are not simply absent.
Defaults(f) ==
  CASE f = "request" ->
         [kw \in {"width", "candidates"} |-> Value(1)]
           @@ [kw \in {"regenerations", "hops", "search-expansions", "search-labels"} |-> Value(2)]
           @@ [kw \in {"disjointness", "allow-regeneration", "allow-conversion"} |-> Value("first")]
           @@ [kw \in {"accept-restored-evidence", "require-spectrum-continuity-across-regeneration",
                       "allow-repeated-resources"} |-> Value("second")]
    [] f = "policy" -> [kw \in {"accept-restored-evidence", "revalidate-on-mismatch"} |-> Value("second")]
    [] f = "plan" ->
         [rule |-> Value(1), request |-> [id |-> <<>>, digest |-> Zero],
          snapshot |-> [id |-> <<>>, gen |-> 0, digest |-> Zero],
          endpoints |-> [k \in {"snode", "sport", "dnode", "dport"} |-> <<>>],
          channel |-> [width |-> 1], totals |-> [k \in {"cost", "distance", "loss", "hops", "regen"} |-> 0]]
    [] f = "result" ->
         [kw \in {"outcome"} |-> Value("second")] @@ [kw \in {"status"} |-> [code |-> "first", detail |-> <<>>]]
           @@ [kw \in {"request-digest", "snapshot-digest"} |-> Value(Zero)] @@ [kw \in {"limitations"} |-> Value(0)]
           @@ [kw \in {"optimality"} |-> Value("second")]
           @@ [kw \in {"statistics"} |-> [k \in Range(Statistics) \cup {"truncated"} |-> 0]]
    [] f = "snapshot" -> [kw \in {"generation"} |-> Value(0)]

Blank(f) ==
  [kw \in Keywords(f) \cup (IF f = "result" THEN {"candidates"} ELSE {}) |->
     IF kw \in DOMAIN Defaults(f) THEN <<Defaults(f)[kw]>> ELSE <<>>]

Start(f) ==
  [headed |-> FALSE, value |-> Blank(f), seen |-> {}, sealed |-> <<>>,
   inside |-> FALSE, buffer |-> <<>>, expected |-> <<>>]

\* A text field that is optional keeps what it had: an earlier status, an empty witness.
WithDetail(v, kw, c) ==
  IF kw \notin {"status", "witness"} \/ "detail" \in DOMAIN c THEN c
  ELSE c @@ [detail |-> IF kw = "status" THEN v[kw][1].detail ELSE <<>>]

Put(f, v, kw, c) ==
  [v EXCEPT ![kw] =
     CASE kw \notin Repeated(f) -> <<WithDetail(v, kw, c)>>
       [] kw \in {"srcgen", "domain-limit"} ->     \* std::map: one entry for each identifier, in order
            SortSeq(Append(SelectSeq(@, LAMBDA e : e.id # c.id), c), LAMBDA a, b : Rank(a.id) < Rank(b.id))
       [] kw = "segspan" ->                        \* a list of its own in each segment
            SelectSeq(@, LAMBDA e : e.index <= c.index) \o <<c>> \o SelectSeq(@, LAMBDA e : e.index > c.index)
       [] OTHER -> Append(@, WithDetail(v, kw, c))]

\* The conditions on a record that are not about its spelling.
Permits(f, st, kw, c) ==
  /\ f = "plan" /\ kw = "rule" => c.value = 1
  /\ f = "plan" /\ kw = "segspan" => c.index < Len(st.value["segment"])
  /\ f = "snapshot" /\ kw \in Single => kw \notin st.seen
  /\ f = "snapshot" /\ "domains" \in DOMAIN c => Len(c.domains) <= MaxDomains

\* The header line; results and policies do not look at the revision.
IsHeader(f, line) ==
  /\ line.kw = Magic(f) /\ Len(line.toks) = 1
  /\ f \in {"result", "policy"} \/ Parse("number", line.toks[1].text) = {1}

\* One line of a text of format f.
Take(f, st, line) ==
  IF ~Splits(line) THEN {}
  ELSE IF ~st.headed THEN IF IsHeader(f, line) THEN {[st EXCEPT !.headed = TRUE]} ELSE {}
  ELSE IF st.sealed # <<>> THEN {}
  ELSE IF f \in {"plan", "result"} /\ line.kw = "digest"
  THEN IF Len(line.toks) = 1 THEN {[st EXCEPT !.sealed = <<d>>] : d \in Parse("hex", line.toks[1].text)} ELSE {}
  ELSE {[st EXCEPT !.value = Put(f, @, line.kw, c), !.seen = @ \cup {line.kw}] :
          c \in {x \in Disassemble(Reads(f, line.kw, line.toks), line.toks) : Permits(f, st, line.kw, x)}}

Dense(list) == list # <<>> /\ \A i \in DOMAIN list : list[i].index = i - 1

\* Mutant of Finish: a seal has to be there, and is not compared.
FinishUnverified(f, st) ==
  IF /\ st.headed /\ ~st.inside
     /\ f = "request" => {"id", "source", "destination"} \subseteq st.seen
     /\ f = "snapshot" => {"id", "grid", "slots"} \subseteq st.seen
     /\ f = "plan" => Dense(st.value["step"]) /\ Dense(st.value["segment"])
     /\ f \in {"plan", "result"} => st.sealed # <<>>
  THEN {st.value} ELSE {}

\* The checks at the end of a text: what it must have said, and its seal.
Finish(f, st) ==
  IF /\ st.headed /\ ~st.inside
     /\ f = "request" => {"id", "source", "destination"} \subseteq st.seen
     /\ f = "snapshot" => {"id", "grid", "slots"} \subseteq st.seen
     /\ f = "plan" => Dense(st.value["step"]) /\ Dense(st.value["segment"])
     /\ f \in {"plan", "result"} => st.sealed = <<DigestOf(Payload(f, st.value))>>
  THEN {st.value} ELSE {}

ParsePlanArtifact(lines) ==
  UNION {Finish("plan", st) :
           st \in FoldLeft(LAMBDA sts, line : UNION {Take("plan", x, line) : x \in sts}, {Start("plan")}, lines)}

\* A result holds whole plan texts, handed to the plan parser at the line that ends them.
TakeResult(st, line) ==
  LET open == ~st.inside /\ Splits(line) /\ st.headed /\ st.sealed = <<>>
  IN CASE st.inside /\ line = [kw |-> "candidate-plan-end", toks |-> <<>>] ->
            {[st EXCEPT !.value["candidates"] = Append(@, plan), !.buffer = <<>>, !.inside = FALSE] :
               plan \in {p \in ParsePlanArtifact(st.buffer) :
                           st.expected # <<>> => DigestOf(Payload("plan", p)) = Last(st.expected)}}
       [] st.inside /\ line # [kw |-> "candidate-plan-end", toks |-> <<>>] ->
            {[st EXCEPT !.buffer = Append(@, line)]}
       [] open /\ line.kw = "candidate-plan-begin" -> {[st EXCEPT !.inside = TRUE, !.buffer = <<>>]}
       [] open /\ line.kw = "candidate" ->
            IF Len(line.toks) # 1 THEN {}
            ELSE {[st EXCEPT !.expected = Append(@, d)] : d \in Parse("hex", line.toks[1].text)}
       [] OTHER -> Take("result", st, line)

ParseText(f, lines) ==
  CASE f = "plan" -> ParsePlanArtifact(lines)
    [] f = "result" ->
         UNION {Finish(f, st) :
           st \in FoldLeft(LAMBDA sts, line : UNION {TakeResult(x, line) : x \in sts}, {Start(f)}, lines)}
    [] OTHER ->
         UNION {Finish(f, st) :
           st \in FoldLeft(LAMBDA sts, line : UNION {Take(f, x, line) : x \in sts}, {Start(f)}, lines)}

(***********************************************************************************)
(* The state machine.                                                              *)
(***********************************************************************************)
DocsInit ==
  /\ Init
  /\ format = "none" /\ origin = "none" /\ text = <<>> /\ damaged = FALSE /\ read = FALSE /\ outcome = {}

\* The builder works while nothing is printed.
Builds == format = "none" /\ Next /\ UNCHANGED docs

Printed(f, o) ==
  /\ format' = f /\ origin' = o /\ text' = Text(f, o.value)
  /\ UNCHANGED <<vars, damaged, read, outcome>>

\* SaveSnapshotText of what the builder returned.
Save ==
  /\ format = "none" /\ Published
  /\ Printed("snapshot", [value |-> ValueOf(Scalars, snapshot), claims |-> Claims(snapshot)])

\* A value of any format is printed; builder not in use.
Write(f) ==
  /\ format = "none" /\ ~built /\ Size = 0 /\ options = DefaultOptions
  /\ \E v \in Samples[f] : \E o \in Made(f, v) : Printed(f, o)

Without(s, i) == SubSeq(s, 1, i - 1) \o SubSeq(s, i + 1, Len(s))
Again(s, i) == SubSeq(s, 1, i) \o SubSeq(s, i, Len(s))
Swapped(s, i) == [s EXCEPT ![i] = s[i + 1], ![i + 1] = s[i]]

\* What may become of a token: one of Scraps, of the same sort.
Scrapped(t) ==
  CASE t[1] \in {"sum", "of"} -> {<<"sum", "x">>, <<"%", "?">>}
    [] ":" \in Range(t) -> {<<"port", ":", "b">>, <<"%", "?">>}
    [] OTHER -> Scraps

DamagedLines(lines) ==
  UNION {{Without(lines, i), Again(lines, i), SubSeq(lines, 1, i - 1), [lines EXCEPT ![i].kw = "unheard"]} : i \in DOMAIN lines}
    \cup {Swapped(lines, i) : i \in 1 .. Len(lines) - 1}

DamagedTokens(toks) ==
  UNION {{Without(toks, j), Again(toks, j)} \cup {[toks EXCEPT ![j].text = t] : t \in Scrapped(toks[j].text)} :
           j \in DOMAIN toks}
    \cup {Swapped(toks, j) : j \in 1 .. Len(toks) - 1}

\* One damage on the way: to a line, or to a token of a line.
Damage ==
  /\ format # "none" /\ ~built /\ ~damaged /\ ~read
  /\ damaged' = TRUE
  /\ \/ text' \in DamagedLines(text)
     \/ \E i \in DOMAIN text : \E toks \in DamagedTokens(text[i].toks) : text' = [text EXCEPT ![i].toks = toks]
  /\ UNCHANGED <<vars, format, origin, read, outcome>>

Read ==
  /\ format # "none" /\ ~read /\ read' = TRUE
  /\ outcome' = UNION {Made(format, v) : v \in ParseText(format, text)}
  /\ UNCHANGED <<vars, format, origin, text, damaged>>

DocsNext == Builds \/ Save \/ (\E f \in {"request", "policy", "plan", "result", "snapshot"} : Write(f)) \/ Damage \/ Read

DocsSpec == DocsInit /\ [][DocsNext]_<<vars, docs>>

(***********************************************************************************)
(* Properties.                                                                     *)
(***********************************************************************************)
\* Some node of a span of the plan has a colon in its name: the port key is split at it.
Colons(plan) ==
  \E k \in DOMAIN plan["segspan"] : LET c == plan["segspan"][k] IN ":" \in Range(c.from.node) \cup Range(c.to.node)

\* A transmit profile that has the name of an evidence state.
Misnamed(v) ==
  \E k \in DOMAIN v["port"] : v["port"][k].tx.state = "known" /\ v["port"][k].tx.value \in EvidenceWords

Loops(v) ==
  \E kw \in {"span", "xc"} : \E k \in DOMAIN v[kw] :
    v[kw][k].fnode = v[kw][k].tnode /\ v[kw][k].fport = v[kw][k].tport

\* The values a text can carry: it says all there is to say of them, and can be read.
Carried(f, o) ==
  /\ \A line \in Range(Text(f, o.value)) : Splits(line)
  /\ f = "plan" => ~Colons(o.value)
  /\ f = "result" => \A k \in DOMAIN o.value["candidates"] : ~Colons(o.value["candidates"][k])
  /\ f = "snapshot" => ~Misnamed(o.value) /\ ~Loops(o.value) /\ o.claims.conflicted = {}

\* A text that arrives as it was printed reads back as the value it was printed from - a
\* snapshot with its arcs, gaps and coverage claim - exactly when it can carry that value.
\* The exceptions are the code's: conflicts are not printed, so a restored snapshot has lost
\* them (and may claim complete coverage); a self-loop that one builder admits the parser's
\* builder refuses; a list of domains may be longer than a token; a port key is split at the
\* first colon; a profile may be called unknown.
ReadsBack ==
  read /\ ~damaged => (outcome = {origin} <=> Carried(format, origin))

\* A sealed text, a plan or a result, that was damaged is refused or says the same: no line
\* lost, doubled, moved or altered yields another value.
SealHolds ==
  read /\ damaged /\ format \in {"plan", "result"} /\ Carried(format, origin) => outcome \subseteq {origin}

\* A digest tells values apart: what was read has the canonical text, and so the digest, of
\* what was printed only if it is the same value.  Bindings, seals and the store compare
\* digests where they mean values.
DigestTells ==
  read =>
    \A o \in outcome :
      Carried(format, o) /\ Carried(format, origin) =>
        (Payload(format, o.value) = Payload(format, origin.value) <=> o = origin)

\* The records of a snapshot that a source answers for, those whose line is too long aside.
Owned(v, source) ==
  [k \in DOMAIN SnapshotToText |->
     LET row == SnapshotToText[k]
     IN SelectSeq(v[row[1]], LAMBDA c : /\ Splits(Assemble(row[1], row[2], row[3], c))
                                        /\ IF row[1] = "source" THEN c.id = source
                                           ELSE "src" \in DOMAIN c /\ c.src = source)]

Sources(v) ==
  {v["source"][k].id : k \in DOMAIN v["source"]}
    \cup UNION {{v[Keyword(kind)][k].src : k \in DOMAIN v[Keyword(kind)]} : kind \in Kinds \ {"source"}}

\* The contribution of a source changes when, and only when, one of its records does: a plan
\* bound to contributions is current as long as what its sources said is.
ContributionCovers ==
  read /\ format = "snapshot" /\ ~Misnamed(origin.value) =>
    \A o \in outcome : \A source \in Sources(o.value) \cup Sources(origin.value) :
      SourceContribution(o.value, source) = SourceContribution(origin.value, source)
        <=> Owned(o.value, source) = Owned(origin.value, source)
====================================================================================
