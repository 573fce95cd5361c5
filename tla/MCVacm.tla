------------------------------ MODULE MCVacm ------------------------------
(* Two communities, a USM user with a masked view, an empty file, and an    *)
(* embedding program that edits the rows of the user and of a wildcard.     *)
EXTENDS Vacm

Line(kind, name, oid) == [kind |-> kind, name |-> name, oid |-> oid]

UserView(typ, subtree, mask) ==
    [view |-> <<"v">>, subtree |-> subtree, mask |-> mask, typ |-> typ]

UserAccess(model, level, prefix) ==
    [group |-> <<"g">>, prefix |-> prefix, model |-> model, level |-> level,
     match |-> "exact",
     views |-> [read |-> <<"v">>, write |-> NoView, notify |-> <<"v">>]]

UserGroup(model) == [model |-> model, name |-> "user", group |-> <<"g">>]

MCConfigs ==
    { <<>>,
      <<Line("rocommunity", "public", <<1>>)>>,
      <<Line("rocommunity", "public", <<1, 2>>), Line("rocommunity", "public", <<1, 3>>)>>,
      <<Line("rwcommunity", "public", <<1, 2>>), Line("rocommunity", "public", <<1, 3>>),
        Line("rwcommunity", "private", <<1>>)>>,
      <<Line("rwcommunity", "public", <<1, 2>>), Line("rocommunity", "public", <<1, 3>>),
        Line("rwcommunity", "public", <<1, 4>>)>>,
      <<[kind |-> "group", row |-> UserGroup(3)],
        [kind |-> "view", row |-> UserView("included", <<1>>, <<>>)],
        [kind |-> "access", row |-> UserAccess(3, 1, <<>>)],
        [kind |-> "com2sec", name |-> "public", group |-> <<"g">>],
        [kind |-> "sysContact"]>> }

Ask(type, model, name, level, context, oid) ==
    [type |-> type, model |-> model, name |-> name, level |-> level,
     context |-> context, oid |-> oid]

MCRequests ==
    { Ask("read", 3, "user", 1, <<>>, <<1, 2, 5>>),
      Ask("write", 2, "public", 0, <<>>, <<1, 2, 5>>),
      Ask("read", 2, "public", 0, <<>>, <<1, 3, 1>>),
      Ask("read", 1, "public", 0, <<>>, <<1, 2, 5>>),
      Ask("read", 1, "private", 0, <<"x">>, <<1, 2, 5>>),
      Ask("notify", 2, "private", 0, <<>>, <<1, 2, 5>>) }

MCGroupRows == {UserGroup(3), UserGroup(0)}
MCAccessRows == {UserAccess(0, 0, <<>>)}
MCViewRows == {UserView("included", <<1, 2>>, <<1, 0>>), UserView("excluded", <<1, 2, 5>>, <<>>)}
MCContexts == {<<"x">>}
============================================================================
