------------------------------ MODULE MibNames ------------------------------
(***************************************************************************)
(* MIB files and the names they define: the scan of a token stream          *)
(* (netsnmp/src/smi/parse.rs), the resolution of symbolic parents           *)
(* (smi/resolve.rs) and the registry that files are loaded into, one by one *)
(* or a directory at a time (mib.rs).                                       *)
(*                                                                         *)
(* A file is a sequence of declarations; TextOf is its text, as tokens      *)
(* <<kind, value>> of kind "id", "num", "str" or "sym". Descriptions, units *)
(* and the like are left out of what the parser keeps.                      *)
(***************************************************************************)
EXTENDS Integers, Sequences, SequencesExt, TLC

CONSTANTS
    MibFiles,    \* the files: sequences of declarations
    Known,       \* names a registry starts with: name -> OID
    MaxLoads,    \* bound on the loads
    MaxPooled    \* bound on the files of a directory

VARIABLES
    byName,      \* by_name: name -> OID
    byOid,       \* by_oid: OID -> name
    enums,       \* enums: OID -> sequence of <<number, label>>
    objectDefs,  \* object_defs: OID -> [name, syntax, enums, access, index]
    tcs,         \* tcs: name -> syntax
    loads,       \* history: the declarations of each load
    alive        \* the process has not run out of stack

namesVars == <<byName, byOid, enums, objectDefs, tcs, loads, alive>>

----------------------------------------------------------------------------
(* Tokens. *)

Id(word) == <<"id", word>>
Num(n) == <<"num", n>>
Str == <<"str", "text">>
Sym(s) == <<"sym", s>>
Ids(words) == [i \in DOMAIN words |-> Id(words[i])]

Tok(toks, i) == IF i \in DOMAIN toks THEN toks[i] ELSE <<"end", "">>
Word(toks, i) == IF Tok(toks, i)[1] = "id" THEN Tok(toks, i)[2] ELSE ""
IsSym(toks, i, s) == Tok(toks, i) = Sym(s)

----------------------------------------------------------------------------
(* Brace lists. A component of an OID value has a name, "" for a bare       *)
(* number, and a number, -1 for a bare name.                                *)

NoMatch == [ok |-> FALSE]
Match(v, next) == [ok |-> TRUE, v |-> v, next |-> next]

IsNamedNumber(toks, i) ==
    /\ Word(toks, i) # "" /\ IsSym(toks, i + 1, "(")
    /\ Tok(toks, i + 2)[1] = "num" /\ IsSym(toks, i + 3, ")")

RECURSIVE parse_oid_body(_, _, _)
parse_oid_body(toks, i, comps) ==
    LET go(name, n, next) == parse_oid_body(toks, next, Append(comps, [name |-> name, num |-> n]))
    IN  CASE IsSym(toks, i, "}") -> Match(comps, i + 1)
          [] Tok(toks, i)[1] = "num" -> go("", toks[i][2], i + 1)
          [] IsNamedNumber(toks, i) -> go(Word(toks, i), toks[i + 2][2], i + 4)
          [] Word(toks, i) # "" /\ ~ IsNamedNumber(toks, i) -> go(Word(toks, i), -1, i + 1)
          [] OTHER -> NoMatch

RECURSIVE parse_enum_body(_, _, _)
parse_enum_body(toks, i, pairs) ==
    LET all == Append(pairs, <<toks[i + 2][2], Word(toks, i)>>)
    IN  IF ~ IsNamedNumber(toks, i) THEN NoMatch
        ELSE IF IsSym(toks, i + 4, ",") THEN parse_enum_body(toks, i + 5, all)
        ELSE IF IsSym(toks, i + 4, "}") THEN Match(all, i + 5)
        ELSE NoMatch

----------------------------------------------------------------------------
(* The scan for names: `label KEYWORD ... ::= { oid }` and                  *)
(* `label OBJECT IDENTIFIER ::= { oid }`, without MACRO bodies.             *)

MACRO_KEYWORDS ==
    { "OBJECT-TYPE", "MODULE-IDENTITY", "OBJECT-IDENTITY", "NOTIFICATION-TYPE",
      "OBJECT-GROUP", "NOTIFICATION-GROUP", "MODULE-COMPLIANCE", "AGENT-CAPABILITIES" }

IsMacro(toks, i) == Word(toks, i) # "" /\ Word(toks, i + 1) = "MACRO"
AfterEnd(toks, i) ==
    LET ends == {j \in i..Len(toks) : Word(toks, j) = "END"}
    IN  IF ends = {} THEN Len(toks) + 1 ELSE 1 + CHOOSE j \in ends : \A k \in ends : j <= k

IsAssignment(toks, i) ==
    /\ Word(toks, i) # "" /\ Word(toks, i + 1) = "OBJECT" /\ Word(toks, i + 2) = "IDENTIFIER"
    /\ IsSym(toks, i + 3, "::=") /\ IsSym(toks, i + 4, "{")
    /\ parse_oid_body(toks, i + 5, <<>>).ok

(* label is "" when there is none; a definition is [name, spec, enums],     *)
(* where enums is <<>> if none was met between the label and the value.     *)
RECURSIVE ScanModule(_, _, _, _, _)
ScanModule(toks, i, label, met, defs) ==
    LET value == parse_oid_body(toks, i + 2, <<>>)
        whole == parse_oid_body(toks, i + 5, <<>>)
        list == parse_enum_body(toks, i + 1, <<>>)
        define(name, m, pairs) ==
            ScanModule(toks, m.next, "", <<>>, Append(defs, [name |-> name, spec |-> m.v, enums |-> pairs]))
    IN  CASE i > Len(toks) -> defs
          [] IsMacro(toks, i) -> ScanModule(toks, AfterEnd(toks, i + 2), "", <<>>, defs)
          [] Word(toks, i) # "" /\ Word(toks, i + 1) \in MACRO_KEYWORDS ->
               ScanModule(toks, i + 2, Word(toks, i), <<>>, defs)
          [] IsAssignment(toks, i) -> define(Word(toks, i), whole, <<>>)
          [] IsSym(toks, i, "{") /\ label # "" /\ met = <<>> /\ list.ok ->
               ScanModule(toks, list.next, label, list.v, defs)
          [] IsSym(toks, i, "::=") /\ IsSym(toks, i + 1, "{") ->
               IF label # "" /\ value.ok THEN define(label, value, met)
               ELSE ScanModule(toks, i + 1, "", <<>>, defs)
          [] OTHER -> ScanModule(toks, i + 1, label, met, defs)

parse_module(toks) == ScanModule(toks, 1, "", <<>>, <<>>)

(* The first definition of a name wins.                                     *)
name_map(defs) ==
    [n \in {defs[i].name : i \in DOMAIN defs} |->
       defs[CHOOSE i \in DOMAIN defs : defs[i].name = n /\ \A j \in 1..(i - 1) : defs[j].name # n].spec]

----------------------------------------------------------------------------
(* Resolution. Of the OIDs of names, `resolved`, the roots come first, then *)
(* what the registry knows, then what the text defines.                     *)

seed_roots ==
    ("iso" :> <<1>>) @@ ("ccitt" :> <<0>>) @@ ("itu" :> <<0>>) @@ ("itu-t" :> <<0>>)
      @@ ("joint-iso-ccitt" :> <<2>>) @@ ("joint-iso-itu-t" :> <<2>>)

(* Only the first component may be a name alone; a named number there is a  *)
(* number if the name is unknown. `base` is what the first name stands for. *)
Expand(spec, known, base) ==
    LET heads == spec # <<>> /\ spec[1].name # ""
        rest == [i \in 1..(Len(spec) - 1) |-> spec[i + 1].num]
        first == IF heads /\ known THEN base ELSE <<spec[1].num>>
    IN  IF \/ spec = <<>>
           \/ heads /\ ~ known /\ spec[1].num = -1
           \/ \E i \in 2..Len(spec) : spec[i].num = -1
        THEN NoMatch ELSE Match(first \o rest, 0)

resolve_one(spec, resolved) ==
    LET name == IF spec = <<>> THEN "" ELSE spec[1].name
    IN  IF name \in DOMAIN resolved THEN Expand(spec, TRUE, resolved[name]) ELSE Expand(spec, FALSE, <<>>)

(* One pass over the pending definitions; a name keeps its first OID.       *)
Pass1(state, def) ==
    LET r == resolve_one(def.spec, state.resolved)
    IN  IF r.ok THEN [state EXCEPT !.resolved = @ @@ (def.name :> r.v),
                                   !.objects = Append(@, [name |-> def.name, oid |-> r.v, enums |-> def.enums])]
        ELSE [state EXCEPT !.pending = Append(@, def)]
ResolvePass(state) == FoldLeft(Pass1, [state EXCEPT !.pending = <<>>], state.pending)

(* The slip of one pass over the definitions.                               *)
FixpointOnce(state) == ResolvePass(state)

(* Passes until nothing is pending or nothing was resolved.                 *)
RECURSIVE Fixpoint(_)
Fixpoint(state) ==
    LET next == ResolvePass(state)
    IN  IF next.pending = <<>> \/ Len(next.pending) = Len(state.pending) THEN next ELSE Fixpoint(next)

resolve_with_seeds(defs, seeds) ==
    Fixpoint([resolved |-> seed_roots @@ seeds, pending |-> defs, objects |-> <<>>]).objects

(* The second resolver, for object definitions: the text comes first, then  *)
(* the roots, then the registry. It follows the parents without end when    *)
(* they form a cycle.                                                       *)
RECURSIVE resolve_inline(_, _, _, _)
resolve_inline(spec, names, seeds, seen) ==
    LET name == IF spec = <<>> THEN "" ELSE spec[1].name
        own == IF name \in DOMAIN names /\ name \notin seen
               THEN resolve_inline(names[name], names, seeds, seen \cup {name}) ELSE NoMatch
        others == seed_roots @@ seeds
    IN  IF own.ok THEN Expand(spec, TRUE, own.v)
        ELSE IF name \in DOMAIN others THEN Expand(spec, TRUE, others[name])
        ELSE Expand(spec, FALSE, <<>>)

RECURSIVE Endless(_, _, _)
Endless(spec, names, seen) ==
    /\ spec # <<>> /\ spec[1].name \in DOMAIN names
    /\ spec[1].name \in seen \/ Endless(names[spec[1].name], names, seen \cup {spec[1].name})

----------------------------------------------------------------------------
(* The clauses of an OBJECT-TYPE. A syntax is its type, whether that is the *)
(* name of a textual convention, its enumeration and its constraint: pairs  *)
(* <<low, high>>, NoBound for MIN and MAX, of sizes or of values.           *)

NoBound == -1
Larger(a, b) == IF a > b THEN a ELSE b

match_base_type ==
    [w \in {"INTEGER", "Integer32"} |-> "Integer"] @@ ("OCTET" :> "OctetString") @@ ("OBJECT" :> "Oid")
      @@ ("IpAddress" :> "IpAddress") @@ ("Counter32" :> "Counter32")
      @@ [w \in {"Gauge32", "Gauge"} |-> "Gauge32"] @@ ("TimeTicks" :> "TimeTicks") @@ ("Opaque" :> "Opaque")
      @@ ("Counter64" :> "Counter64") @@ ("Unsigned32" :> "Unsigned32") @@ ("NULL" :> "Null")
      @@ ("NetworkAddress" :> "Oid")

SyntaxOf(type, tc) == [type |-> type, tc |-> tc, enums |-> <<>>, sizes |-> <<>>, ranges |-> <<>>]
DefaultSyntax == SyntaxOf("Integer", FALSE)

parse_range(toks, i) ==
    LET bound(j, open) == CASE Tok(toks, j)[1] = "num" -> Match(toks[j][2], j + 1)
                            [] Word(toks, j) = open -> Match(NoBound, j + 1)
                            [] OTHER -> NoMatch
        lo == bound(i, "MIN")
        hi == bound(i + 2, "MAX")
    IN  CASE Tok(toks, i)[1] = "num" /\ ~ IsSym(toks, i + 1, "..") -> Match(<<lo.v, lo.v>>, i + 1)
          [] lo.ok /\ IsSym(toks, i + 1, "..") /\ hi.ok -> Match(<<lo.v, hi.v>>, i + 3)
          [] OTHER -> NoMatch

RECURSIVE Subranges(_, _, _)
Subranges(toks, i, pairs) ==
    LET with(r) ==
            CASE r.ok /\ IsSym(toks, r.next, "|") -> Subranges(toks, r.next + 1, Append(pairs, r.v))
              [] r.ok /\ IsSym(toks, r.next, ")") -> Match(Append(pairs, r.v), r.next + 1)
              [] OTHER -> NoMatch
    IN  with(parse_range(toks, i))

(* After SIZE the outer parenthesis is left to the caller.                  *)
parse_constraint_tokens(toks, i) ==
    LET sized == Word(toks, i + 1) = "SIZE"
        low(p) == Larger(p[1], 0)
        size(p) == <<low(p), Larger(p[2], low(p))>>
        with(all) ==
            IF ~ all.ok THEN NoMatch
            ELSE Match(IF sized THEN [sizes |-> [k \in DOMAIN all.v |-> size(all.v[k])], ranges |-> <<>>]
                       ELSE [sizes |-> <<>>, ranges |-> all.v], all.next)
    IN  IF IsSym(toks, i, "(") /\ (sized => IsSym(toks, i + 2, "("))
        THEN with(Subranges(toks, IF sized THEN i + 3 ELSE i + 1, <<>>)) ELSE NoMatch

RECURSIVE AfterBraces(_, _, _)
AfterBraces(toks, i, depth) ==
    CASE depth = 0 \/ i > Len(toks) -> i
      [] IsSym(toks, i, "{") -> AfterBraces(toks, i + 1, depth + 1)
      [] IsSym(toks, i, "}") -> AfterBraces(toks, i + 1, depth - 1)
      [] OTHER -> AfterBraces(toks, i + 1, depth)

(* `SEQUENCE OF Row` is three tokens and four are passed over.              *)
parse_syntax(toks, i) ==
    LET word == Word(toks, i)
        two == <<word, Word(toks, i + 1)>> \in {<<"OCTET", "STRING">>, <<"OBJECT", "IDENTIFIER">>}
        tc == word \notin DOMAIN match_base_type
        j == IF two THEN i + 2 ELSE i + 1
        with(list, k, limits) ==
            Match([SyntaxOf(IF tc THEN word ELSE match_base_type[word], tc) EXCEPT
                     !.enums = IF list.ok THEN list.v ELSE <<>>,
                     !.sizes = IF limits.ok THEN limits.v.sizes ELSE <<>>,
                     !.ranges = IF limits.ok THEN limits.v.ranges ELSE <<>>],
                  IF limits.ok THEN limits.next ELSE k)
        limited(list, k) == with(list, k, parse_constraint_tokens(toks, k))
        listed(list) == limited(list, IF list.ok THEN list.next ELSE j)
    IN  CASE word = "SEQUENCE" /\ Word(toks, i + 1) = "OF" -> Match(SyntaxOf("Sequence", FALSE), i + 4)
          [] word = "SEQUENCE" /\ IsSym(toks, i + 1, "{") ->
               Match(SyntaxOf("Sequence", FALSE), AfterBraces(toks, i + 2, 1))
          [] word = "" -> NoMatch
          [] OTHER -> listed(IF IsSym(toks, j, "{") THEN parse_enum_body(toks, j + 1, <<>>) ELSE NoMatch)

parse_access(word) ==
    IF word \in {"accessible-for-notify", "read-only", "read-write", "read-create", "write-only"}
    THEN word ELSE "not-accessible"

(* The names of an index, [kind, names].                                    *)
RECURSIVE IndexNames(_, _, _, _)
IndexNames(toks, j, names, implied) ==
    LET word == Word(toks, j)
    IN  CASE word = "IMPLIED" /\ names = <<>> /\ ~ implied -> IndexNames(toks, j + 1, names, TRUE)
          [] word # "" /\ ~ (word = "IMPLIED" /\ names = <<>> /\ ~ implied) ->
               IndexNames(toks, j + 1, Append(names, word), implied)
          [] IsSym(toks, j, ",") -> IndexNames(toks, j + 1, names, implied)
          [] IsSym(toks, j, "}") ->
               Match(IF implied /\ names # <<>> THEN [kind |-> "implied", names |-> <<Last(names)>>]
                     ELSE [kind |-> "plain", names |-> names], j)
          [] OTHER -> NoMatch
parse_index(toks, i) == IF IsSym(toks, i, "{") THEN IndexNames(toks, i + 1, <<>>, FALSE) ELSE NoMatch
parse_augments(toks, i) ==
    IF IsSym(toks, i, "{") /\ Word(toks, i + 1) # "" /\ IsSym(toks, i + 2, "}")
    THEN Match([kind |-> "augments", names |-> <<Word(toks, i + 1)>>], i) ELSE NoMatch
NoIndex == [kind |-> "none", names |-> <<>>]

(* The first `::= { oid }` outside braces, which may be that of a later     *)
(* definition.                                                              *)
RECURSIVE find_oid_assignment(_, _, _)
find_oid_assignment(toks, i, depth) ==
    LET value == parse_oid_body(toks, i + 2, <<>>)
    IN  CASE i > Len(toks) -> NoMatch
          [] IsSym(toks, i, "::=") /\ depth = 0 /\ IsSym(toks, i + 1, "{") /\ value.ok -> value
          [] IsSym(toks, i, "{") -> find_oid_assignment(toks, i + 1, depth + 1)
          [] IsSym(toks, i, "}") -> find_oid_assignment(toks, i + 1, depth - 1)
          [] OTHER -> find_oid_assignment(toks, i + 1, depth)

(* Clauses up to the first `::=`. A clause that does not parse leaves its   *)
(* field alone and its words to be read as clauses. (Of UNITS, STATUS,      *)
(* DESCRIPTION, REFERENCE and DEFVAL nothing is kept.)                      *)
RECURSIVE Clauses(_, _, _)
Clauses(toks, i, def) ==
    LET with(word, syntax, index) ==
            CASE i > Len(toks) \/ IsSym(toks, i, "::=") -> def
              [] word = "SYNTAX" /\ syntax.ok ->
                   Clauses(toks, syntax.next, [def EXCEPT !.syntax = [syntax.v EXCEPT !.enums = <<>>],
                     !.enums = IF syntax.v.enums # <<>> THEN syntax.v.enums ELSE @])
              [] \/ word \in {"MAX-ACCESS", "ACCESS"} /\ Word(toks, i + 1) # ""
                 \/ word = "MIN-ACCESS" /\ def.access = "not-accessible" /\ Word(toks, i + 1) # "" ->
                   Clauses(toks, i + 2, [def EXCEPT !.access = parse_access(Word(toks, i + 1))])
              [] \/ word = "STATUS" /\ Word(toks, i + 1) # ""
                 \/ word \in {"UNITS", "DESCRIPTION", "REFERENCE"} /\ Tok(toks, i + 1)[1] = "str" ->
                   Clauses(toks, i + 2, def)
              [] word \in {"INDEX", "AUGMENTS"} /\ index.ok -> Clauses(toks, i + 1, [def EXCEPT !.index = index.v])
              [] OTHER -> Clauses(toks, i + 1, def)
    IN  with(Word(toks, i), parse_syntax(toks, i + 1),
             IF Word(toks, i) = "INDEX" THEN parse_index(toks, i + 1) ELSE parse_augments(toks, i + 1))

parse_one_object_def(toks, i, name) ==
    Clauses(toks, i, [name |-> name, syntax |-> DefaultSyntax, enums |-> <<>>,
                      access |-> "not-accessible", index |-> NoIndex])

(* [spec, def] of every object: its value is still to be resolved.          *)
RECURSIVE ScanObjects(_, _, _)
ScanObjects(toks, i, found) ==
    LET object(spec) == [spec |-> spec, def |-> parse_one_object_def(toks, i + 2, Word(toks, i))]
        with(value) ==
            IF value.ok THEN ScanObjects(toks, value.next, Append(found, object(value.v)))
            ELSE ScanObjects(toks, i + 2, found)
    IN  CASE i > Len(toks) -> found
          [] IsMacro(toks, i) -> ScanObjects(toks, AfterEnd(toks, i + 2), found)
          [] /\ Word(toks, i) # ""
             /\ Word(toks, i + 1) \in {"OBJECT-TYPE", "OBJECT-IDENTITY", "NOTIFICATION-TYPE"} ->
               with(find_oid_assignment(toks, i + 2, 0))
          [] OTHER -> ScanObjects(toks, i + 1, found)
parse_object_defs(toks) == ScanObjects(toks, 1, <<>>)

----------------------------------------------------------------------------
(* Textual conventions: the first SYNTAX after the keyword, wherever it is. *)

RECURSIVE parse_one_tc(_, _)
parse_one_tc(toks, i) ==
    LET with(syntax) ==
            IF Word(toks, i) = "SYNTAX" /\ syntax.ok THEN [syntax.v EXCEPT !.enums = <<>>]
            ELSE parse_one_tc(toks, i + 1)
    IN  IF i > Len(toks) THEN DefaultSyntax ELSE with(parse_syntax(toks, i + 1))

RECURSIVE skip_to_syntax_end(_, _)
skip_to_syntax_end(toks, i) ==
    LET with(syntax) ==
            CASE i > Len(toks) -> i
              [] Word(toks, i) = "SYNTAX" /\ syntax.ok -> syntax.next
              [] IsSym(toks, i, "::=") -> i + 1
              [] OTHER -> skip_to_syntax_end(toks, i + 1)
    IN  with(parse_syntax(toks, i + 1))

RECURSIVE ScanTcs(_, _, _)
ScanTcs(toks, i, found) ==
    LET body == CASE IsSym(toks, i + 1, "::=") /\ Word(toks, i + 2) = "TEXTUAL-CONVENTION" -> i + 3
                  [] Word(toks, i + 1) = "TEXTUAL-CONVENTION" -> i + 2
                  [] OTHER -> 0
    IN  IF i > Len(toks) THEN found
        ELSE IF Word(toks, i) # "" /\ body # 0
        THEN ScanTcs(toks, skip_to_syntax_end(toks, body),
                     Append(found, [name |-> Word(toks, i), syntax |-> parse_one_tc(toks, body)]))
        ELSE ScanTcs(toks, i + 1, found)
parse_textual_conventions(toks) == ScanTcs(toks, 1, <<>>)

----------------------------------------------------------------------------
(* The text of a declaration, as the MIB files of the repository write it.  *)
(* Its fields: kind, name, spec (components), words (an IMPORTS list or an  *)
(* index), syntax (tokens), means (what these say) and access.              *)

Between(open, toks, close) == <<Sym(open)>> \o toks \o <<Sym(close)>>
CommaList(words) == FlattenSeq([i \in DOMAIN words |-> IF i = 1 THEN <<Id(words[i])>> ELSE <<Sym(","), Id(words[i])>>])
CompText(c) ==
    CASE c.name = "" -> <<Num(c.num)>>
      [] c.name # "" /\ c.num = -1 -> <<Id(c.name)>>
      [] OTHER -> <<Id(c.name)>> \o Between("(", <<Num(c.num)>>, ")")
ValueText(spec) == <<Sym("::=")>> \o Between("{", FlattenSeq([i \in DOMAIN spec |-> CompText(spec[i])]), "}")
Prose == Ids(<<"STATUS", "current", "DESCRIPTION">>) \o <<Str>>

DeclText(d) ==
    CASE d.kind = "imports" -> <<Id("IMPORTS")>> \o CommaList(d.words) \o Ids(<<"FROM", d.name>>) \o <<Sym(";")>>
      [] d.kind = "macro" -> Ids(<<d.name, "MACRO">>) \o <<Sym("::=")>> \o Ids(<<"BEGIN", "SYNTAX", "END">>)
      [] d.kind = "row" -> <<Id(d.name), Sym("::="), Id("SEQUENCE")>> \o Between("{", d.syntax, "}")
      [] d.kind = "tc" -> <<Id(d.name), Sym("::="), Id("TEXTUAL-CONVENTION")>> \o Prose \o <<Id("SYNTAX")>> \o d.syntax
      [] d.kind = "oid" -> Ids(<<d.name, "OBJECT", "IDENTIFIER">>) \o ValueText(d.spec)
      [] d.kind = "object" ->
           Ids(<<d.name, "OBJECT-TYPE", "SYNTAX">>) \o d.syntax \o Ids(<<"MAX-ACCESS", d.access>>) \o Prose
             \o (IF d.words = <<>> THEN <<>> ELSE <<Id("INDEX")>> \o Between("{", CommaList(d.words), "}"))
             \o ValueText(d.spec)
TextOf(file) == FlattenSeq([i \in DOMAIN file |-> DeclText(file[i])])

----------------------------------------------------------------------------
(* Loading. Earlier names and definitions win, later enumerations do.       *)

add_objects(objs) ==
    /\ byName' = FoldLeft(LAMBDA f, o : f @@ (o.name :> o.oid), byName, objs)
    /\ byOid' = FoldLeft(LAMBDA f, o : f @@ (o.oid :> o.name), byOid, objs)
    /\ enums' = FoldLeft(LAMBDA f, o : IF o.enums = <<>> THEN f ELSE (o.oid :> o.enums) @@ f, enums, objs)

(* An object whose value does not resolve is left out.                      *)
ingest_semantic(toks, names, objs) ==
    LET value(o) == resolve_inline(o.spec, names, byName', {})
        add(f, o) == IF value(o).ok THEN f @@ (value(o).v :> o.def) ELSE f
    IN  /\ objectDefs' = FoldLeft(add, objectDefs, objs)
        /\ tcs' = FoldLeft(LAMBDA f, t : f @@ (t.name :> t.syntax), tcs, parse_textual_conventions(toks))

load_str(toks) ==
    LET with(defs, names, objs) ==
            IF \E i \in DOMAIN objs : Endless(objs[i].spec, names, {})
            THEN alive' = FALSE /\ UNCHANGED <<byName, byOid, enums, objectDefs, tcs>>
            ELSE /\ add_objects(resolve_with_seeds(defs, byName))
                 /\ ingest_semantic(toks, names, objs)
                 /\ UNCHANGED alive
    IN  with(parse_module(toks), name_map(parse_module(toks)), parse_object_defs(toks))

load_file(file) ==
    /\ alive /\ Len(loads) < MaxLoads
    /\ load_str(TextOf(file))
    /\ loads' = Append(loads, file)

(* The files of a directory, in the order of their names, are one text.     *)
load_dir(files) ==
    /\ alive /\ Len(loads) < MaxLoads
    /\ load_str(FlattenSeq([i \in DOMAIN files |-> TextOf(files[i])]))
    /\ loads' = Append(loads, FlattenSeq(files))

NamesInit ==
    /\ byName = Known
    /\ byOid = [oid \in {Known[n] : n \in DOMAIN Known} |-> CHOOSE n \in DOMAIN Known : Known[n] = oid]
    /\ enums = <<>> /\ objectDefs = <<>> /\ tcs = <<>> /\ loads = <<>> /\ alive = TRUE

NamesNext ==
    \/ \E file \in MibFiles : load_file(file)
    \/ \E n \in 2..MaxPooled : \E files \in [1..n -> MibFiles] : load_dir(files)

----------------------------------------------------------------------------
(* What the files say. A name is plain if one declaration gives it its      *)
(* value and so on for its parents, up to a name known before; its meaning, *)
(* as of load l, is its parent's followed by its numbers, and no OID at all *)
(* while the parent has none.                                               *)

Fixed == seed_roots @@ Known
DeclAt(d) == loads[d[1]][d[2]]
Places == UNION {{<<l, i>> : i \in DOMAIN loads[l]} : l \in DOMAIN loads}
Decls(kinds) == {d \in Places : DeclAt(d).kind \in kinds}
DeclsOf(name) == {d \in Decls({"oid", "object"}) : DeclAt(d).name = name}
HeadName(d) == DeclAt(d).spec[1].name

RECURSIVE Plain(_, _)
Plain(name, below) ==
    \/ DeclsOf(name) = {}
    \/ /\ name \notin DOMAIN Fixed /\ DeclsOf(name) # {}
       /\ \A d, e \in DeclsOf(name) : d = e
       /\ \A d \in DeclsOf(name) :
            /\ DeclAt(d).spec[1].num # -1 => DeclsOf(HeadName(d)) = {}
            /\ HeadName(d) \in below \cup {"", name} \/ Plain(HeadName(d), below \cup {name})

RECURSIVE Meaning(_, _, _)
Meaning(name, l, below) ==
    IF name \in DOMAIN Fixed THEN {Fixed[name]}
    ELSE UNION {LET spec == DeclAt(d).spec
                    above == Meaning(spec[1].name, d[1], below \cup {name})
                    heads == CASE spec[1].name \in DOMAIN Fixed \cup below \cup {name} \/ spec[1].num = -1 -> above
                               [] OTHER -> {<<spec[1].num>>}
                IN  {head \o [i \in 1..(Len(spec) - 1) |-> spec[i + 1].num] : head \in heads} :
                d \in {e \in DeclsOf(name) : e[1] <= l /\ name \notin below}}

(* An IMPORTS list that begins with the name of a macro is read as a        *)
(* definition.                                                              *)
Mistaken(l, words) ==
    \E i \in DOMAIN loads[l] : loads[l][i].kind = "imports" /\ loads[l][i].words[1] \in words

(* load_str, parse_module, resolve_with_seeds, ingest_semantic: whatever    *)
(* the files and the order of the declarations in a load, a name declared   *)
(* once has exactly the OID its chain of parents gives it, and none as long *)
(* as that chain is broken at the time of its load; the OID names it back,  *)
(* and carries the enumeration, the syntax, the access and the index that   *)
(* were declared for it; a textual convention has its declared syntax.      *)
NamesDenote ==
    alive =>
      /\ \A d \in Decls({"oid", "object"}) :
           LET decl == DeclAt(d)
               meant == Meaning(decl.name, d[1], {})
           IN  Plain(decl.name, {}) =>
                 /\ meant = {} => decl.name \notin DOMAIN byName
                 /\ \A oid \in meant :
                      /\ decl.name \in DOMAIN byName /\ byName[decl.name] = oid
                      /\ oid \in DOMAIN byOid /\ byName[byOid[oid]] = oid
                      /\ byOid[oid] = decl.name /\ decl.kind = "object" =>
                           /\ decl.means.enums # <<>> => enums[oid] = decl.means.enums
                           /\ Mistaken(d[1], {"OBJECT-TYPE", "OBJECT-IDENTITY", "NOTIFICATION-TYPE"})
                              \/ objectDefs[oid] =
                                   [name |-> decl.name, syntax |-> [decl.means EXCEPT !.enums = <<>>],
                                    enums |-> decl.means.enums, access |-> decl.access,
                                    index |-> IF decl.words = <<>> THEN NoIndex
                                              ELSE [kind |-> "plain", names |-> decl.words]]
      /\ \A d \in Decls({"tc"}) :
           \/ Mistaken(d[1], {"TEXTUAL-CONVENTION"})
           \/ \E e \in Decls({"tc"}) : e # d /\ DeclAt(e).name = DeclAt(d).name
           \/ tcs[DeclAt(d).name] = DeclAt(d).means
=============================================================================
