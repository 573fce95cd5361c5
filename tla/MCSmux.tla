------------------------------- MODULE MCSmux -------------------------------
(***************************************************************************)
(* Two peers with nested and equal subtrees and two agent threads.  The    *)
(* first peer's password covers only one of the subtrees it asks for.      *)
(***************************************************************************)
EXTENDS Smux

Wide   == <<1>>
Narrow == <<1, 2>>
Object == <<1, 2, 1>>

Passwords == [p \in Peers |-> p]
Lines     == {[password |-> "p1", subtree |-> Narrow], [password |-> "p2", subtree |-> Wide]}
Wanted    == [p \in Peers |-> IF p = "p1" THEN {Wide, Narrow} ELSE {Wide}]
Objects   == {Object}

Forwards == [t \in Threads |-> 1]
Sent     == [p \in Peers |-> IF p = "p1" THEN 2 ELSE 1]
=============================================================================
