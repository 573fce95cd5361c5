----------------------------- MODULE MCSession -----------------------------
(***************************************************************************)
(* Two sessions of one process; the second one is idle on a socket of its  *)
(* own, where sessions do not meet.                                        *)
(***************************************************************************)
EXTENDS Session

CommunityVersions == [s \in Sessions |-> IF s = "a" THEN "v2c" ELSE "v1"]
SecureVersions    == [s \in Sessions |-> "v3"]

CommunityUses == [s \in Sessions |-> IF s = "a" THEN {"get"} ELSE {"inform", "getBulk", "trapV1"}]
SecureUses    == [s \in Sessions |-> {"get"}]

Calls == [k \in Kinds |-> IF k = "shared" THEN [s \in Sessions |-> IF s = "a" THEN 2 ELSE 1]
                          ELSE [s \in Sessions |-> IF s = "a" THEN 2 ELSE 0]]
OneEach == [k \in Kinds |-> [s \in Sessions |-> 1]]
=============================================================================
