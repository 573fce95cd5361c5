------------------------------ MODULE MCAgentX ------------------------------
(***************************************************************************)
(* Small AgentX systems: a subagent process and its restart, or two        *)
(* subagents whose subtrees nest, and two forwarders that ask for          *)
(* instances below them.                                                   *)
(***************************************************************************)
EXTENDS AgentX

Register(oid, prio) == [type |-> "register", subtree |-> oid, subid |-> 0, bound |-> 0,
                        priority |-> prio, packet |-> 2]
RegisterRange(oid, subid, bound) ==
    [type |-> "register", subtree |-> oid, subid |-> subid, bound |-> bound,
     priority |-> 5, packet |-> 2]
Unregister(oid) == [type |-> "unregister", subtree |-> oid, packet |-> 4]
Plain(type) == [type |-> type, packet |-> 3]

Ask1(kind, oid) == [kind |-> kind, oid |-> oid]

\* A subagent process that registers, notifies and takes the registration back, and
\* its restart, which says the PDUs the master does not answer.
Restarted == {<<"c1", "c2">>}
RestartCalls ==
    [c \in Conns |->
        IF c = "c1" THEN {Register(<<1>>, 5), Plain("notify"), Unregister(<<1>>)}
        ELSE {Plain("cleanup"), Plain("close")}]

\* Two subagents whose subtrees nest, one of them with a range.
NestedCalls ==
    [c \in Conns |-> IF c = "c1" THEN {Register(<<1>>, 5), RegisterRange(<<1, 1>>, 2, 3)}
                     ELSE {Register(<<1, 2>>, 1)}]

\* Two requests below the subtrees, and one nobody serves.
MCAsks ==
    [f \in Forwarders |-> IF f = "f1" THEN {Ask1("getNext", <<1, 1>>), Ask1("get", <<2>>)}
                          ELSE {Ask1("set", <<1, 2>>)}]
=============================================================================
