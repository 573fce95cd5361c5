------------------------------- MODULE MCNotify -------------------------------
(* A small instance of Notify for TLC. *)
EXTENDS Notify

Directive(token, host, name) == [token |-> token, host |-> host, name |-> name]

MCConfig == <<Directive("trap2sink", "nowhere", "public"), Directive("trapsess2", "none", "public"),
              Directive("informsink", "h1", "public")>>
MCExtra == <<Directive("trapsink", "h1", "public"), Directive("trapsess3", "h2", "alice")>>
MCTraps == {<<5, 1>>}
MCForward == [h1 |-> "h2", h2 |-> "none"]

\* A GET that reached the trap port.
MCStrays == {[id |-> <<>>, attempt |-> 1, to |-> "h2", mp |-> 1, security |-> "public", type |-> "get", v1 |-> <<>>,
              varbinds |-> <<Payload>>]}

=============================================================================
