-------------------------- MODULE MCSetTransaction --------------------------
(***************************************************************************)
(* A small MIB for SetTransaction: a writable and a read-only string        *)
(* scalar, one row of a table with a required and a read-only column, and   *)
(* the SETs that make every phase succeed and fail.                         *)
(***************************************************************************)
EXTENDS SetTransaction

MCScalars == {"sysName", "sysServices"}
MCReadOnlyScalars == {"sysServices"}
MCColumns == {"name", "count"}
MCRequired == {"name"}
MCReadOnlyColumns == {"count"}
MCValues == {"int", "str", "str2", "null"}
MCTypeOf == [v \in MCValues |-> CASE v = "int" -> "INTEGER"
                                  [] v = "null" -> NullType
                                  [] OTHER -> "OCTET STRING"]
MCInitScalar == [s \in MCScalars |-> "str"]
MCLocalPuts == {<<"count", "int">>, <<"name", "str">>}
RacingPuts == {<<"name", "str">>}

Name(v)    == [kind |-> "instance", id |-> "sysName", val |-> v]
Services   == [kind |-> "instance", id |-> "sysServices", val |-> "str2"]
Other      == [kind |-> "instance", id |-> NoInstance, val |-> "str"]
Status(v)  == [kind |-> "status", row |-> "r1", val |-> v]
Cell(c, v) == [kind |-> "cell", row |-> "r1", col |-> c, val |-> v]
Remote     == [kind |-> "proxied", val |-> "str"]
Reader     == [kind |-> "readOnly", val |-> "str"]
Nowhere    == [kind |-> "unregistered", val |-> "str"]
Secret     == [kind |-> "unregistered", val |-> "int"]

MCHidden == {Secret}

\* Each verb on its own, a value no verb has, every kind of refusal in the reserve
\* passes, failures of the commit pass, and requests over several objects.
AloneRequests ==
    {<<Status(v)>> : v \in Verbs \cup {BadStatus}}
    \cup {<<Cell("name", v)>> : v \in {"int", "str", "null"}}
    \cup {<<Name(v)>> : v \in {"str", "str2", "int", "null"}}
    \cup {<<Name("str2"), x>> : x \in {Services, Other, Nowhere, Secret, Remote, Reader,
                                       Cell("count", "int"), Status("active"),
                                       Status("createAndGo"), Status("destroy"),
                                       Status("notReady"), Cell("name", "str2")}}
    \cup {<<Remote, Name("str2")>>,
          <<Status("createAndGo"), Reader>>,
          <<Cell("name", "str"), Status("createAndGo")>>,
          <<Status("createAndWait"), Cell("name", "str"), Status("active")>>,
          <<Status("destroy"), Status("active"), Name("str2")>>,
          <<Status("notInService"), Status("destroy"), Status("notReady")>>}

\* Requests that race for the row and the scalar.
RacingRequests ==
    {<<Status(v)>> : v \in {"createAndGo", "createAndWait", "active", "notInService", "destroy"}}
    \cup {<<Cell("name", "int")>>, <<Cell("name", "str")>>,
          <<Name("str2"), Status("notReady")>>,
          <<Name("int")>>, <<Services>>,
          <<Status("destroy"), Name("str")>>}
=============================================================================
