----------------------------------- MODULE Lines -----------------------------------
(***********************************************************************************)
(* The line grammar of src/canonical.cpp, shared by every text the program writes. *)
(*                                                                                 *)
(* A text is a sequence of lines, a line a keyword and a sequence of tokens.  A    *)
(* token [key, text] is positional (key "") or spelled key=text; text is a         *)
(* sequence of symbols, a symbol a character or a word that never needs splitting. *)
(* A numeral is one symbol, a digest two: "sum" or "of", and what it identifies.   *)
(*                                                                                 *)
(* A parser yields the set of values it accepts: none or one.                      *)
(***********************************************************************************)
EXTENDS Naturals, Sequences, FiniteSets, SequencesExt

CONSTANTS MaxToken,    \* kMaxTokenBytes, in symbols
          MaxNumber    \* the largest number of a text

(***********************************************************************************)
(* Spellings.                                                                      *)
(***********************************************************************************)
FormatU64(n) == <<ToString(n)>>

ParseUnsigned(t) == {n \in 0 .. MaxNumber : t = FormatU64(n)}

\* Identifiers: no symbol that separates or escapes, and a letter or digit first.
IsValidIdText(t) ==
  /\ t # <<>> /\ t[1] \notin {":", "-"}
  /\ t[1] \in {"sum", "of"} \/ Range(t) \cap {",", " ", "%", "?"} = {}

\* IsRawTokenCharacter fails for these; their two hex digits.
Escapes == [s \in {",", " ", "%"} |-> CASE s = "," -> <<"2", "C">> [] s = " " -> <<"2", "0">> [] OTHER -> <<"2", "5">>]

EncodeToken(t) ==
  IF t = <<>> THEN <<"%">>
  ELSE FlattenSeq([i \in DOMAIN t |-> IF t[i] \in DOMAIN Escapes THEN <<"%">> \o Escapes[t[i]] ELSE <<t[i]>>])

\* Mutant of DecodeToken: the lone percent sign is an escape like any other.
DecodeTokenStrict(t) ==
  LET from[i \in 1 .. Len(t) + 1] ==
        IF i = Len(t) + 1 THEN {<<>>}
        ELSE IF t[i] # "%" THEN {<<t[i]>> \o rest : rest \in from[i + 1]}
        ELSE {<<s>> \o rest : s \in {x \in DOMAIN Escapes : i + 2 <= Len(t) /\ Escapes[x] = SubSeq(t, i + 1, i + 2)},
                              rest \in IF i + 2 <= Len(t) THEN from[i + 3] ELSE {}}
  IN IF t = <<>> THEN {} ELSE from[1]

DecodeToken(t) ==
  LET from[i \in 1 .. Len(t) + 1] ==
        IF i = Len(t) + 1 THEN {<<>>}
        ELSE IF t[i] # "%" THEN {<<t[i]>> \o rest : rest \in from[i + 1]}
        ELSE {<<s>> \o rest : s \in {x \in DOMAIN Escapes : i + 2 <= Len(t) /\ Escapes[x] = SubSeq(t, i + 1, i + 2)},
                              rest \in IF i + 2 <= Len(t) THEN from[i + 3] ELSE {}}
  IN IF t = <<>> THEN {} ELSE IF t = <<"%">> THEN {<<>>} ELSE from[1]

\* JoinDomains and ParseDomains.
JoinDomains(d) == FlattenSeq([i \in DOMAIN d |-> IF i = 1 THEN d[i] ELSE <<",">> \o d[i]])

ParseDomains(t) ==
  LET commas == SetToSortSeq({i \in DOMAIN t : t[i] = ","} \cup {0, Len(t) + 1}, <)
      pieces == [k \in 1 .. Len(commas) - 1 |-> SubSeq(t, commas[k] + 1, commas[k + 1] - 1)]
  IN IF t = <<>> THEN {<<>>} ELSE IF \A p \in Range(pieces) : IsValidIdText(p) THEN {pieces} ELSE {}

\* PortKey::CanonicalText, and the split at the first colon that undoes it.
PortText(p) == p.node \o <<":">> \o p.port

SplitPort(t) ==
  {[node |-> SubSeq(t, 1, i - 1), port |-> SubSeq(t, i + 1, Len(t))] :
     i \in {j \in DOMAIN t : /\ t[j] = ":" /\ \A k \in 1 .. j - 1 : t[k] # ":"
                             /\ IsValidIdText(SubSeq(t, 1, j - 1)) /\ IsValidIdText(SubSeq(t, j + 1, Len(t)))}}

ResourceKinds == {"node", "port", "span", "crossconnect", "domain", "profile", "channel", "source"}

\* ResourceKeyToString and ResourceKeyFromString.
ResourceText(r) == <<r.kind, ":">> \o r.text

ResourceKeyFromString(t) ==
  IF Len(t) > 2 /\ t[1] \in ResourceKinds /\ t[2] = ":" THEN {[kind |-> t[1], text |-> SubSeq(t, 3, Len(t))]} ELSE {}

(***********************************************************************************)
(* Evidence is known, with a value, or not: the words of snapshot_io.cpp.          *)
(***********************************************************************************)
Unknown == [state |-> "unknown"]
Conflicting == [state |-> "conflicting"]
Known(v) == [state |-> "known", value |-> v]

EvidenceWords == {<<"unknown">>, <<"conflicting">>}

\* Mutant of SpellEvidence: evidence without a value is spelled the same, whatever the reason.
SpellUnknown(e) == IF e.state = "known" THEN e.value ELSE <<"unknown">>

SpellEvidence(e) == IF e.state = "known" THEN e.value ELSE <<e.state>>

\* read is what the value parser makes of the token: only asked after the two words.
ParseEvidence(t, read) ==
  IF t \in EvidenceWords THEN {[state |-> t[1]]} ELSE {Known(v) : v \in read}

(***********************************************************************************)
(* The types of fields.  An enumeration is reduced to two names, first and second. *)
(***********************************************************************************)
Names == {"first", "second"}

\* true and false are the names of a bool; a digit is read too, and never printed.
ParseBoolToken(t) == {w \in Names : t \in {<<w>>, FormatU64(IF w = "first" THEN 1 ELSE 0)}}

Spell(type, v) ==
  CASE type \in {"number", "bit"}     -> FormatU64(v)
    [] type \in {"name", "bool"}      -> <<v>>
    [] type = "id"                    -> IF v = <<>> THEN <<"%">> ELSE v
    [] type = "hex"                   -> v
    [] type \in {"level", "state"}    -> SpellEvidence(v)
    [] type = "profile"               -> SpellEvidence(v)
    [] type = "domains"               -> JoinDomains(v)
    [] type = "port"                  -> EncodeToken(PortText(v))
    [] type = "resource"              -> EncodeToken(ResourceText(v))
    [] type = "text"                  -> EncodeToken(v)

Parse(type, t) ==
  CASE type = "number"           -> ParseUnsigned(t)
    [] type = "bit"              -> ParseUnsigned(t) \cap {0, 1}
    [] type = "flag"             -> {IF n = 0 THEN 0 ELSE 1 : n \in ParseUnsigned(t)}
    [] type = "name"             -> {w \in Names : t = <<w>>}
    [] type = "bool"             -> ParseBoolToken(t)
    [] type = "id"               -> IF IsValidIdText(t) THEN {t} ELSE {}
    [] type = "hex"              -> IF Len(t) = 2 /\ t[1] \in {"sum", "of"} THEN {t} ELSE {}
    [] type = "level"            -> ParseEvidence(t, IF ParseUnsigned(t) # {} THEN {t} ELSE {})
    [] type = "state"            -> ParseEvidence(t, IF \E w \in Names : t = <<w>> THEN {t} ELSE {})
    [] type = "profile"          -> ParseEvidence(t, IF t = <<"-">> \/ IsValidIdText(t) THEN {t} ELSE {})
    [] type = "domains"          -> ParseDomains(t)
    [] type = "port"             -> UNION {SplitPort(u) : u \in DecodeToken(t)}
    [] type = "resource"         -> UNION {ResourceKeyFromString(u) : u \in DecodeToken(t)}
    [] type = "text"             -> DecodeToken(t)

(***********************************************************************************)
(* Lines.  A field is <<name, type>>; a row names the fields of one record.        *)
(***********************************************************************************)
Of(type, names) == [k \in DOMAIN names |-> <<names[k], type>>]

Token(key, text) == [key |-> key, text |-> text]

\* LineAssembler: the positional fields, then the keyed ones the content has.
Assemble(kw, args, keys, c) ==
  [kw |-> kw,
   toks |-> [k \in DOMAIN args |-> Token("", Spell(args[k][2], c[args[k][1]]))]
              \o LET there == SelectSeq(keys, LAMBDA f : f[1] \in DOMAIN c)
                 IN [k \in DOMAIN there |-> Token(there[k][1], Spell(there[k][2], c[there[k][1]]))]]

\* SplitTokens refuses a token above the limit; a keyed one counts its key, as one symbol.
Splits(line) == \A t \in Range(line.toks) : Len(t.text) + (IF t.key = "" THEN 0 ELSE 1) <= MaxToken

\* FindKeyedField: the text of the one field of that key; none for no or several fields.
FindKeyedField(toks, first, key) ==
  LET at == {i \in first .. Len(toks) : toks[i].key = key}
  IN IF Cardinality(at) = 1 THEN {toks[i].text : i \in at} ELSE {}

\* What a record parser makes of a line: positional fields by place, required fields by key,
\* and those optional fields that are there exactly once; anything else is passed over.
Disassemble(row, toks) ==
  IF Len(toks) < Len(row.args) \/ (row.exact /\ Len(toks) # Len(row.args)) THEN {}
  ELSE
    LET placed == {row.args[k][1] : k \in DOMAIN row.args}
        wanted == {f[1] : f \in Range(row.keys)}
        spare == {f \in Range(row.optional) : FindKeyedField(toks, f[3], f[1]) # {}}
        read == [n \in placed \cup wanted \cup {f[1] : f \in spare} |->
                   IF n \in placed
                   THEN LET k == CHOOSE j \in DOMAIN row.args : row.args[j][1] = n
                        IN IF toks[k].key = "" THEN Parse(row.args[k][2], toks[k].text) ELSE {}
                   ELSE LET f == CHOOSE g \in Range(row.keys) \cup spare : g[1] = n
                        IN UNION {Parse(f[2], t) : t \in FindKeyedField(toks, f[3], n)}]
    IN IF \E n \in DOMAIN read : read[n] = {} THEN {}
       ELSE {[n \in DOMAIN read |-> CHOOSE v \in read[n] : TRUE]}
====================================================================================
