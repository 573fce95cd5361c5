-------------------------- MODULE MCReadDispatch --------------------------
(* A cached table, a live scalar and a foreign subtree; one of the views    *)
(* hides the last instance of the table and the scalar.                     *)
EXTENDS ReadDispatch

MCHandlers ==
    << [root |-> <<1>>, kind |-> "cached", space |-> {<<1, 1>>, <<1, 2>>}],
       [root |-> <<2>>, kind |-> "live", space |-> {<<2, 0>>}],
       [root |-> <<3>>, kind |-> "foreign", space |-> {<<3, 1>>}] >>

Everything == {<<1, 1>>, <<1, 2>>, <<2, 0>>, <<2, 3>>, <<3, 1>>, <<9, 1>>}
MCViews == {Everything, Everything \ {<<1, 2>>, <<2, 0>>}}
MCForeignOids == {<<1, 2>>, <<3, 1>>}
MCWalkRoots == {<<>>, <<1>>}
MCPolls ==
    { [kind |-> "get", vars |-> <<<<1, 1>>, <<2, 0>>>>, nonRep |-> 0, reps |-> 0],
      [kind |-> "get", vars |-> <<<<9, 1>>, <<3, 1>>>>, nonRep |-> 0, reps |-> 0],
      [kind |-> "other", vars |-> <<<<1, 1>>>>, nonRep |-> 0, reps |-> 0],
      [kind |-> "next", vars |-> <<<<1, 1>>, <<1, 2>>>>, nonRep |-> 0, reps |-> 2],
      [kind |-> "next", vars |-> <<<<1>>, <<2>>>>, nonRep |-> 1, reps |-> 2] }

(* A handler with instances on both sides of the subtree of another: a pass *)
(* or proxy subtree that an administrator puts inside a built-in one.       *)
NestedHandlers ==
    << [root |-> <<1>>, kind |-> "live", space |-> {<<1, 1>>, <<1, 9>>}],
       [root |-> <<1, 5>>, kind |-> "live", space |-> {<<1, 5, 1>>}] >>
NestedViews == {{<<1, 1>>, <<1, 5, 1>>, <<1, 9>>}}
NestedRoots == {<<1>>}
============================================================================
