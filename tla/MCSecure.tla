------------------------------ MODULE MCSecure ------------------------------
(***************************************************************************)
(* One session and one restart.  The session's user is the agent's own, or *)
(* one with another password, one the agent does not know, or one asking   *)
(* for privacy with a key the agent's user lacks.                          *)
(***************************************************************************)
EXTENDS Secure

User(name, auth, priv) == [name |-> name, auth |-> auth, priv |-> priv]

Alice == User("alice", <<"sha", "a">>, "p")
Bob   == User("bob", <<"sha", "b">>, None)
Guest == User("guest", NoKey, None)

Users      == {Alice, Bob, Guest}
AllClients == {Alice, Guest, User("alice", <<"sha", "x">>, "p"), User("alice", <<"sha", "a">>, "x"),
               User("eve", NoKey, None), User("bob", <<"sha", "b">>, "p")}

\* What the theorem about undisturbed calls supposes of the accounts.
ASSUME AccountsAssumption == NamesIdentify
=============================================================================
