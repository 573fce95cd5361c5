----------------------------- MODULE MCFormats -----------------------------
(***************************************************************************)
(* The parts of the agent that convert: the tables of the MIB modules to    *)
(* the order of a walk, PDUs to octets and back for AgentX and for SMUX,    *)
(* the lines of a script to an answer, the text of an expression to its     *)
(* value, MIB files to names. They share no state: a behaviour picks one    *)
(* of them and leaves the others as they start.                             *)
(***************************************************************************)
EXTENDS MibWalk, AgentxCodec, SmuxCodec, Pass, Expression, MibNames

VARIABLE part   \* the part that runs

vars == <<part, walkVars, codecVars, berVars, passVars, exprVars, namesVars>>

----------------------------------------------------------------------------
(* Machines, from a bare one to one with entries in every table, and the    *)
(* programs: the daemon's order of registration and two others.             *)

nameA == <<97>>
nameB == <<98, 1>>
Base ==
    [mem |-> TRUE, swap |-> FALSE, cpus |-> 1, pids |-> {1, 300}, mounts |-> <<>>,
     networks |-> {"eth0", "lo"}, sysor |-> 1, block |-> {}, partitions |-> <<>>,
     exec |-> <<>>, procs |-> 0, files |-> 0, logs |-> 0,
     temperatures |-> 0, fans |-> 0, voltages |-> 0, tcp |-> <<>>, udp |-> <<>>,
     arp |-> <<>>, routes |-> <<>>, caches |-> {}, modules |-> 0, contexts |-> {<<>>},
     groups |-> {}, access |-> {}, views |-> {}, targets |-> {}, params |-> {},
     notifies |-> {}, smux |-> 0, netdev |-> <<"lo">>, logged |-> {},
     triggers |-> {}, events |-> {}, objects |-> {}, schedules |-> {}]
Full ==
    [Base EXCEPT !.swap = TRUE, !.mounts = <<"/", "/home", "/">>,
       !.block = {[name |-> <<3>>, virtual |-> FALSE], [name |-> <<3, 1>>, virtual |-> FALSE],
                  [name |-> <<9>>, virtual |-> TRUE]},
       !.partitions = <<[ok |-> TRUE, name |-> <<3>>], [ok |-> TRUE, name |-> <<3, 1>>],
                        [ok |-> FALSE, name |-> <<>>], [ok |-> TRUE, name |-> <<3, 1, 7>>],
                        [ok |-> TRUE, name |-> <<9, 1>>]>>,
       !.exec = <<nameA, nameB, nameA>>, !.procs = 1, !.files = 1, !.logs = 1,
       !.temperatures = 2, !.voltages = 1,
       !.tcp = <<[ok |-> TRUE, local |-> <<127, 0, 0, 1>>, lport |-> 25,
                  remote |-> <<0, 0, 0, 0>>, rport |-> 0],
                 [ok |-> FALSE, local |-> <<>>, lport |-> 0, remote |-> <<>>, rport |-> 0]>>,
       !.udp = <<[ok |-> TRUE, local |-> <<0, 0, 0, 0>>, lport |-> 161]>>,
       !.arp = <<[ok |-> TRUE, mac |-> 0, address |-> <<10, 0, 0, 9>>, device |-> "wlan0"],
                 [ok |-> TRUE, mac |-> 7, address |-> <<10, 0, 0, 1>>, device |-> "eth0"],
                 [ok |-> TRUE, mac |-> 8, address |-> <<10, 1, 0, 1>>, device |-> "wlan0"]>>,
       !.routes = <<[ok |-> TRUE, dest |-> <<0, 0, 0, 0>>], [ok |-> TRUE, dest |-> <<10, 0, 0, 0>>],
                    [ok |-> TRUE, dest |-> <<0, 0, 0, 0>>]>>,
       !.caches = {nameA, nameB}, !.modules = 2, !.contexts = {<<>>, nameA},
       !.groups = {[model |-> 2, name |-> nameA], [model |-> 3, name |-> nameB]},
       !.access = {[group |-> nameA, prefix |-> <<>>, model |-> 0, level |-> 1]},
       !.views = {[name |-> nameA, subtree |-> <<2, 1>>], [name |-> nameA, subtree |-> <<4>>]},
       !.targets = {nameA, nameB}, !.params = {nameA}, !.notifies = {nameB}, !.smux = 1,
       !.netdev = <<"lo", "ethernet">>, !.logged = {4, 5},
       !.triggers = {[owner |-> nameA, name |-> nameB], [owner |-> nameB, name |-> nameA]},
       !.events = {[owner |-> nameA, name |-> nameA]}, !.objects = {[owner |-> nameA, name |-> nameB, id |-> 1]},
       !.schedules = {[owner |-> nameA, name |-> nameA]}]
MCMachines == {Base, Full, [Full EXCEPT !.arp = <<>>, !.mounts = <<>>, !.logs = 0]}
MCPlans ==
    { <<"system">>,
      <<"system", "ucd", "host", "framework", "mib2", "netsnmp", "misc", "smux",
        "vacm", "notify", "notiflog", "disman">>,
      <<"netsnmp", "host", "ucd_with", "ucd", "mib2">> }
----------------------------------------------------------------------------
(* AgentX PDUs of every type, in both byte orders. *)

oidA == <<1, 3, 6, 1, 4, 1, 300>>
oidB == <<1, 3, 6, 1, 2>>
oidC == <<0, 0>>
binding(type, value) == [name |-> oidA, type |-> type, value |-> value]
allVbs == << binding("OctetString", <<1, 2, 3, 4, 5>>), binding("Null", <<>>), binding("Oid", oidB),
             binding("IpAddress", <<10, 0, 0, 1>>), binding("Counter64", 70000) >>
Bodies ==
    { [Blank("Open") EXCEPT !.timeout = 5, !.oid = oidA, !.text = <<65, 66>>],
      [Blank("Close") EXCEPT !.error = 5],
      [Blank("Register") EXCEPT !.priority = 127, !.oid = oidA],
      [Blank("Register") EXCEPT !.oid = <<1, 3, 6, 1, 0, 7>>],
      [Blank("Register") EXCEPT !.oid = <<1, 3, 6, 1>>],
      [Blank("Unregister") EXCEPT !.oid = oidA, !.rangeSubid = 2, !.bound = <<1, 9, 4>>],
      [Blank("Get") EXCEPT !.ranges = <<<<oidA, oidC>>, <<oidB, oidA>>>>],
      [Blank("GetNext") EXCEPT !.ranges = <<<<oidA, oidC>>>>],
      [Blank("GetBulk") EXCEPT !.nonRep = 1, !.maxRep = 300, !.ranges = <<<<oidA, oidC>>>>],
      [Blank("Set") EXCEPT !.varbinds = allVbs],
      [Blank("Set") EXCEPT !.context = <<99>>, !.varbinds = <<binding("Integer", 7)>>],
      [Blank("Undo") EXCEPT !.varbinds = <<binding("Opaque", <<>>)>>],
      Blank("Cleanup"), Blank("Ping"), [Blank("Ping") EXCEPT !.context = <<99, 111>>],
      [Blank("Notify") EXCEPT !.varbinds = <<binding("TimeTicks", 66000), binding("Gauge32", 1)>>],
      [Blank("IndexAllocate") EXCEPT !.varbinds = <<binding("Counter32", 0)>>],
      [Blank("IndexDeallocate") EXCEPT !.varbinds = <<binding("Integer", 2147483647)>>],
      [Blank("AddAgentCaps") EXCEPT !.oid = oidA, !.text = <<67>>],
      [Blank("RemoveAgentCaps") EXCEPT !.oid = oidC, !.text = <<>>],
      [Blank("Response") EXCEPT !.varbinds = <<binding("NoSuchInstance", <<>>)>>],
      [Blank("Response") EXCEPT !.sysUpTime = 9, !.error = 266, !.index = 1, !.varbinds = allVbs] }
MCPdus ==
    {[big |-> big, session |-> 1, transaction |-> 258, packet |-> IF big THEN 3 ELSE 70000, body |-> body] :
       big \in BOOLEAN, body \in Bodies}
----------------------------------------------------------------------------
(* SMUX PDUs with integers, arcs and lengths at the edges of their widths. *)

edges == {0, 127, 128, 256, 32767, 32768, 8388608, 2147483647}
arcs == {0, 127, 128, 16384, 2097152, 268435456, 2147483647}
company == <<1, 3, 6, 1, 4, 1, 8072>>
long(n) == [i \in 1..n |-> i % 256]
held(type, v) == [name |-> company, type |-> type, value |-> v]
response(vbs) ==
    [type |-> "Snmp", kind |-> "Response", id |-> 258, status |-> 0, index |-> 0, vbs |-> vbs]
MCSmuxPdus ==
    {[type |-> "Open", version |-> 0, identity |-> oid, description |-> d, password |-> <<120>>] :
       oid \in {company, <<2, 47, 3>>, <<2, 100, 3>>, <<1>>}, d \in {<<>>, long(120), long(300)}}
    \cup {[type |-> "Close", code |-> c] : c \in edges \cup {-1, -128, -129, -32769, -2147483647}}
    \cup {[type |-> t, code |-> c] : t \in {"RRsp", "Sout"}, c \in {-1, 0, 1}}
    \cup {[type |-> "Register", subtree |-> company, priority |-> a, operation |-> o] : a \in arcs, o \in {1, 2}}
    \cup {response(<<held(t, v)>>) : t \in {"Integer", "Counter32"}, v \in edges}
    \cup {response(<<held("Gauge32", 0), held("TimeTicks", v), held("Counter64", v)>>) : v \in {0, 128, 2147483647}}
    \cup {response(<<[name |-> company \o <<a>>, type |-> "Oid", value |-> <<0, 39, a>>],
                     held("Null", <<>>)>>) : a \in arcs}
    \cup {response(<<held("OctetString", long(130)), held("IpAddress", <<10, 0, 0, 255>>),
                     held("NoSuchInstance", <<>>), held("EndOfMibView", <<>>)>>),
          response(<<held("Opaque", <<>>), held("Oid", <<2, 100>>)>>),
          [response(<<>>) EXCEPT !.kind = "Set"],
          [response(<<held("Null", 0)>>) EXCEPT !.kind = "Get"],
          [response(<<held("Null", 0)>>) EXCEPT !.kind = "GetNext"]}
----------------------------------------------------------------------------
(* Scripts that keep in step (see InStep), persistent ones and a one-shot.  *)

script1 == [persist |-> TRUE, blank |-> TRUE, whole |-> TRUE, slow |-> FALSE]
MCScripts ==
    { script1, [script1 EXCEPT !.blank = FALSE, !.slow = TRUE],
      [script1 EXCEPT !.whole = FALSE, !.blank = FALSE],
      [script1 EXCEPT !.persist = FALSE, !.blank = FALSE] }
MCCommands == {<<"c", "space", "dq", "c", "space", "bs", "dq", "c", "dq">>, <<"c", "space", "sq", "c">>}

----------------------------------------------------------------------------
(* All texts of up to two tokens, and longer ones about precedence,         *)
(* associativity, grouping and division by zero.                            *)

Nums == {<<"num", 2>>, <<"num", 0>>, <<"num", 7>>, <<"ref", "a">>}
Ops == {<<"op", o>> : o \in {"+", "-", "*", "/"}}
Lp == <<"lp", "(">>
Rp == <<"rp", ")">>
Tokens == {<<"num", 2>>, <<"ref", "a">>, <<"ref", "none">>, Lp, Rp, <<"bad", "%">>} \cup Ops
Short == UNION {[1..n -> Tokens] : n \in 0..2}
Chains == {<<<<"num", 7>>, o, x, p, y>> : x \in Nums, y \in {<<"num", 2>>, <<"ref", "a">>}, o \in Ops, p \in Ops}
Grouped == {<<x, o, Lp, <<"num", 7>>, p, <<"num", 2>>, Rp>> : x \in Nums, o \in Ops, p \in Ops}
             \cup {<<<<"op", "-">>, Lp, x, o, <<"ref", "a">>, Rp, p, <<"num", 7>>>> : x \in Nums, o \in Ops, p \in Ops}
Again == {<<Lp, <<"ref", "a">>, Rp>>, <<<<"num", 2>>, Rp>>}
MCTables ==
    {<<[text |-> text, enabled |-> TRUE], NoExpr>> : text \in Short \cup Chains \cup Grouped}
      \cup {<<[text |-> text, enabled |-> TRUE], [text |-> <<<<"ref", "a">>>>, enabled |-> TRUE]>> :
             text \in UNION {[1..n -> Tokens] : n \in 0..1}}
MCTexts == <<Again, Again>>
MCValues == {[oid \in {"a"} |-> 3], [oid \in {"a"} |-> 0]}

----------------------------------------------------------------------------
(* MIB files: a module with a convention and an enumeration; a table that   *)
(* hangs below it, every parent after its child; numbers with names; a name *)
(* declared again; parents in a circle; imports read as definitions.        *)

comp(name, n) == [name |-> name, num |-> n]
under(parent, n) == <<comp(parent, -1), comp("", n)>>
decl(kind, name, spec) ==
    [kind |-> kind, name |-> name, spec |-> spec, words |-> <<>>, syntax |-> <<>>,
     means |-> DefaultSyntax, access |-> "not-accessible"]
scalar(name, spec, syntax, means, access) ==
    [decl("object", name, spec) EXCEPT !.syntax = syntax, !.means = means, !.access = access]
imports(words) == [decl("imports", "SNMPv2-SMI", <<>>) EXCEPT !.words = words]
labelText ==
    Ids(<<"OCTET", "STRING">>) \o
      <<Sym("("), Id("SIZE"), Sym("("), Num(0), Sym(".."), Num(32), Sym("|"), Num(64), Sym(")"), Sym(")")>>
labelSyntax == [SyntaxOf("OctetString", FALSE) EXCEPT !.sizes = <<<<0, 32>>, <<64, 64>>>>]
stateText ==
    <<Id("INTEGER"), Sym("{"), Id("up"), Sym("("), Num(1), Sym(")"), Sym(","), Id("down"),
      Sym("("), Num(2), Sym(")"), Sym("}")>>
stateSyntax == [SyntaxOf("Integer", FALSE) EXCEPT !.enums = <<<<1, "up">>, <<2, "down">>>>]
levelText == <<Id("Integer32"), Sym("("), Num(1), Sym(".."), Id("MAX"), Sym(")")>>
levelSyntax == [SyntaxOf("Integer", FALSE) EXCEPT !.ranges = <<<<1, NoBound>>>>]
label == [decl("tc", "Label", <<>>) EXCEPT !.syntax = labelText, !.means = labelSyntax]
MCMibFiles ==
    { << imports(<<"MODULE-IDENTITY", "OBJECT-TYPE">>), decl("oid", "acme", under("enterprises", 9)), label,
         scalar("gadget", under("acme", 1), stateText, stateSyntax, "read-write") >>,
      << decl("macro", "OBJECT-TYPE", <<>>),
         scalar("cell", under("row", 1), <<Id("Label")>>, SyntaxOf("Label", TRUE), "read-create"),
         [scalar("row", under("table", 1), <<Id("Row")>>, SyntaxOf("Row", TRUE), "not-accessible")
            EXCEPT !.words = <<"level", "cell">>],
         [decl("row", "Row", <<>>) EXCEPT !.syntax = <<Id("cell"), Id("Label"), Sym(","), Id("level"), Id("INTEGER")>>],
         scalar("table", under("acme", 2), Ids(<<"SEQUENCE", "OF", "Row">>),
                SyntaxOf("Sequence", FALSE), "not-accessible"),
         scalar("level", under("row", 2), levelText, levelSyntax, "read-only") >>,
      << decl("oid", "left", <<comp("iso", -1), comp("org", 3), comp("dod", 6), comp("", 5)>>),
         decl("oid", "right", <<comp("joint", 2), comp("", 4)>>),
         scalar("deep", <<comp("left", -1), comp("", 1), comp("", 2)>>, <<Id("Counter64")>>,
                SyntaxOf("Counter64", FALSE), "read-only") >>,
      << decl("oid", "acme", under("enterprises", 7)), decl("oid", "enterprises", under("right", 1)) >>,
      << imports(<<"TEXTUAL-CONVENTION">>), label,
         decl("oid", "one", under("two", 1)), decl("oid", "two", under("one", 1)) >>,
      << imports(<<"OBJECT-TYPE">>), scalar("first", under("enterprises", 3), levelText, levelSyntax, "read-only"),
         scalar("loop", under("one", 1), stateText, stateSyntax, "read-only") >> }
MCKnown == ("org" :> <<1, 3>>) @@ ("dod" :> <<1, 3, 6>>) @@ ("enterprises" :> <<1, 3, 6, 1, 4, 1>>)

----------------------------------------------------------------------------
WalkRests == machine = Base /\ todo = <<>> /\ pending = <<>> /\ handlers = <<>> /\ cursor = <<>>
PassRests ==
    /\ script = script1 /\ command = <<>> /\ child = NoChild /\ lock = NoCaller
    /\ passCalls = 0 /\ deaths = 0 /\ call = [c \in PassCallers |-> Idle]
ExprRests ==
    /\ exprs = <<NoExpr, NoExpr>> /\ objects = [oid \in {"a"} |-> 3]
    /\ reader = NoReader /\ writer = NoWriter /\ changes = 0

Init ==
    /\ part \in {"walk", "agentx", "smux", "pass", "expression", "names"}
    /\ CodecInit /\ BerInit /\ NamesInit
    /\ IF part = "walk" THEN WalkInit ELSE WalkRests
    /\ IF part = "pass" THEN PassInit ELSE PassRests
    /\ IF part = "expression" THEN ExprInit ELSE ExprRests

Next ==
    /\ UNCHANGED part
    /\ \/ part = "walk" /\ WalkNext /\ UNCHANGED <<codecVars, berVars, passVars, exprVars, namesVars>>
       \/ part = "agentx" /\ CodecNext /\ UNCHANGED <<walkVars, berVars, passVars, exprVars, namesVars>>
       \/ part = "smux" /\ BerNext /\ UNCHANGED <<walkVars, codecVars, passVars, exprVars, namesVars>>
       \/ part = "pass" /\ PassNext /\ UNCHANGED <<walkVars, codecVars, berVars, exprVars, namesVars>>
       \/ part = "expression" /\ ExprNext /\ UNCHANGED <<walkVars, codecVars, berVars, passVars, namesVars>>
       \/ part = "names" /\ NamesNext /\ UNCHANGED <<walkVars, codecVars, berVars, passVars, exprVars>>

Spec == Init /\ [][Next]_vars

----------------------------------------------------------------------------
(* Both wire formats: what one end writes with encode_pdu (agentx) or with  *)
(* the encoders of smux.rs is read by the other end, PDU by PDU off the     *)
(* stream, as it was written, where the format can express it.              *)
CodecsReadBack == ReadsWhatWasWritten /\ BerReadsBack
============================================================================
