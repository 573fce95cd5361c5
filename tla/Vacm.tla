------------------------------- MODULE Vacm -------------------------------
(***************************************************************************)
(* View-based access control (agent/vacm/mod.rs): four tables, each behind  *)
(* a reader-writer lock of its own, that the serve loops consult for every  *)
(* varbind while the embedding program edits, clears and reloads them.      *)
(*                                                                         *)
(* A check is not atomic: is_empty looks at three tables, holding the locks *)
(* it has taken; group_for then takes and releases the first one again; the *)
(* access entry is chosen and the view is matched under the lock of the     *)
(* access table. A step is what happens under one lock acquisition.         *)
(*                                                                         *)
(* Keyed tables are sets of rows with at most one row for a key. The access *)
(* table is a sequence, because the last of equally good rows is chosen.    *)
(***************************************************************************)
EXTENDS Oid, FiniteSets

CONSTANTS
    Checkers,     \* serve loops
    Admins,       \* threads of the embedding program that edit the tables
    Requests,     \* [type, model, name, level, context, oid]
    Configs,      \* configuration files: sequences of directives
    GroupRows, AccessRows, ViewRows, Contexts   \* rows added at run time

(* Group, view and context names are sequences; an empty view name is none. *)
NoView == <<>>

CommunityLine(d) == d.kind \in {"rocommunity", "rwcommunity"}

ASSUME VacmAssumption ==
    /\ \A q \in Requests : /\ q.type \in {"read", "write", "notify"} /\ q.level \in Nat
                           /\ q.context \in Seq(STRING) /\ q.oid \in Oids
    /\ \A c \in Configs : /\ c \in Seq(Range(c))
                          /\ \A i \in DOMAIN c : CommunityLine(c[i]) => c[i].oid \in Oids

Tables == {"groups", "access", "views", "contexts"}

VARIABLES
    groups,       \* set of [model, name, group]
    access,       \* sequence of [group, prefix, model, level, match, views]
    views,        \* set of [view, subtree, mask, typ]
    contexts,     \* set of context names
    check,        \* check[t]: the decision t is taking
    held,         \* held[t]: tables whose read lock t holds
    clearing,     \* clearing[a]: tables that the clear() of a has yet to empty
    mapped        \* history: groups the caller of t had since its check began

vacmVars == <<groups, access, views, contexts, check, held, clearing, mapped>>

----------------------------------------------------------------------------
(* The tables. *)

SameGroup(g, h) == g.model = h.model /\ g.name = h.name
SameAccess(a, b) ==
    /\ a.group = b.group /\ a.prefix = b.prefix
    /\ a.model = b.model /\ a.level = b.level
SameView(v, w) == v.view = w.view /\ v.subtree = w.subtree

AddGroup(gs, row) == {g \in gs : ~SameGroup(g, row)} \cup {row}

AddAccess(as, row) ==
    IF \E a \in Range(as) : SameAccess(a, row)
    THEN [i \in DOMAIN as |-> IF SameAccess(as[i], row) THEN row ELSE as[i]]
    ELSE Append(as, row)

AddViewAlone(vs, row) == {v \in vs : v.view # row.view} \cup {row}

AddView(vs, row) == {v \in vs : ~SameView(v, row)} \cup {row}

(* An exact security model wins over the wildcard 0.                        *)
GroupFor(gs, q) ==
    LET of(m) == {g.group : g \in {h \in gs : h.model = m /\ h.name = q.name}}
    IN  IF of(q.model) # {} THEN of(q.model) ELSE of(0)

ContextMatches(row, context) ==
    IF row.match = "exact" THEN row.prefix = context ELSE IsPrefix(row.prefix, context)

Applies(row, group, q) ==
    /\ row.group = group
    /\ row.model \in {q.model, 0}
    /\ q.level >= row.level
    /\ ContextMatches(row, q.context)

(* Longest context prefix, then an exact model; max_by keeps the last of    *)
(* equals, whatever their levels.                                           *)
SelectAccess(as, group, q) ==
    LET exact(a) == IF a.model = 0 THEN 0 ELSE 1
        below(a, b) == \/ Len(a.prefix) < Len(b.prefix)
                       \/ Len(a.prefix) = Len(b.prefix) /\ exact(a) < exact(b)
        matching == {i \in DOMAIN as : Applies(as[i], group, q)}
    IN  {as[i] : i \in {j \in matching :
           \A k \in matching : below(as[k], as[j]) \/ (~below(as[j], as[k]) /\ k <= j)}}

(* The mask's bits say which arcs must match; the first clear bit makes the *)
(* rest a wildcard, and an empty mask is all ones.                          *)
Matches(row, oid) ==
    LET clear == {i \in DOMAIN row.subtree : i \notin DOMAIN row.mask \/ row.mask[i] = 0}
        n == IF row.mask = <<>> \/ clear = {} THEN Len(row.subtree) ELSE Min(clear) - 1
    IN  IsPrefix(SubSeq(row.subtree, 1, n), oid)

(* One excluded row that matches overrides every included one.              *)
InView(vs, view, oid) ==
    LET hits == {row \in vs : row.view = view /\ Matches(row, oid)}
    IN  view # NoView /\ hits # {} /\ \A row \in hits : row.typ = "included"

(* All of is_view_accessible on tables at rest.                             *)
Accessible(T, q) ==
    \/ T.groups = {} /\ T.access = <<>> /\ T.views = {}
    \/ \E g \in GroupFor(T.groups, q) : \E row \in SelectAccess(T.access, g, q) :
         InView(T.views, row.views[q.type], q.oid)

----------------------------------------------------------------------------
(* snmpd.conf. Directives that are malformed or not VACM's change nothing.  *)

Grant(group, view, write) ==
    [group |-> group, prefix |-> <<>>, model |-> 0, level |-> 0, match |-> "prefix",
     views |-> [read |-> view, write |-> write, notify |-> NoView]]

AddCommunity(gs, name, group) ==
    AddGroup(AddGroup(gs, [model |-> 1, name |-> name, group |-> group]),
             [model |-> 2, name |-> name, group |-> group])

(* rocommunity and rwcommunity: a group and a view of the community's own,  *)
(* and an access row, which replaces the one an earlier line left.          *)
ApplyCommunity(T, d, view, write) ==
    [groups |-> AddCommunity(T.groups, d.name, <<"community", d.name>>),
     access |-> AddAccess(T.access, Grant(<<"community", d.name>>, view, write)),
     views |-> AddView(T.views, [view |-> view, subtree |-> d.oid, mask |-> <<>>,
                                 typ |-> "included"])]

Apply(T, d) ==
    CASE d.kind = "com2sec" ->
           [T EXCEPT !.groups = AddCommunity(@, d.name, d.group)]
      [] d.kind = "group" -> [T EXCEPT !.groups = AddGroup(@, d.row)]
      [] d.kind = "view" -> [T EXCEPT !.views = AddView(@, d.row)]
      [] d.kind = "access" -> [T EXCEPT !.access = AddAccess(@, d.row)]
      [] d.kind = "rocommunity" -> ApplyCommunity(T, d, <<"ro", d.name>>, NoView)
      [] d.kind = "rwcommunity" ->
           ApplyCommunity(T, d, <<"rw", d.name>>, <<"rw", d.name>>)
      [] OTHER -> T

Load(directives) ==
    FoldLeft(Apply, [groups |-> {}, access |-> <<>>, views |-> {}], directives)

----------------------------------------------------------------------------
(* A check. *)

NoCheck == [pc |-> "idle"]

Stage(pc, q) == [pc |-> pc, req |-> q]

AtStage(t, pc) == check[t].pc = pc
Go(t, c) == check' = [check EXCEPT ![t] = c]

Begin(t) ==
    /\ AtStage(t, "idle")
    /\ \E q \in Requests :
         /\ Go(t, Stage("groups", q))
         /\ mapped' = [mapped EXCEPT ![t] = GroupFor(groups, q)]
    /\ UNCHANGED <<groups, access, views, contexts, clearing, held>>

LookUnlocked(t, table, empty, onward) ==
    /\ AtStage(t, table)
    /\ Go(t, Stage(IF empty THEN onward ELSE "map", check[t].req))
    /\ UNCHANGED <<groups, access, views, contexts, clearing, held, mapped>>

(* is_empty: the next table is looked at only while the ones before it are  *)
(* empty and locked.                                                        *)
Look(t, table, empty, onward) ==
    /\ AtStage(t, table)
    /\ IF empty
       THEN /\ Go(t, Stage(onward, check[t].req))
            /\ held' = [held EXCEPT ![t] = IF onward = "open" THEN {} ELSE @ \cup {table}]
       ELSE /\ Go(t, Stage("map", check[t].req))
            /\ held' = [held EXCEPT ![t] = {}]
    /\ UNCHANGED <<groups, access, views, contexts, clearing, mapped>>

IsEmpty(t) ==
    \/ Look(t, "groups", groups = {}, "access")
    \/ Look(t, "access", access = <<>>, "views")
    \/ Look(t, "views", views = {}, "open")

(* group_for. *)
Map(t) ==
    LET group == GroupFor(groups, check[t].req)
    IN  /\ AtStage(t, "map")
        /\ Go(t, IF group = {} THEN Stage("denied", check[t].req)
                 ELSE [pc |-> "select", req |-> check[t].req, group |-> group])
        /\ UNCHANGED <<groups, access, views, contexts, clearing, held, mapped>>

SelectUnlocked(t) ==
    LET q == check[t].req
        rows == UNION {SelectAccess(access, g, q) : g \in check[t].group}
        view == {row.views[q.type] : row \in rows} \ {NoView}
    IN  /\ AtStage(t, "select")
        /\ Go(t, IF view = {} THEN Stage("denied", q)
                 ELSE [pc |-> "match", req |-> q, view |-> view])
        /\ UNCHANGED <<groups, access, views, contexts, clearing, held, mapped>>

(* The access row and the view name it gives; the lock stays taken.         *)
Select(t) ==
    LET q == check[t].req
        rows == UNION {SelectAccess(access, g, q) : g \in check[t].group}
        view == {row.views[q.type] : row \in rows} \ {NoView}
    IN  /\ AtStage(t, "select")
        /\ IF view = {}
           THEN Go(t, Stage("denied", q)) /\ UNCHANGED held
           ELSE /\ Go(t, [pc |-> "match", req |-> q, view |-> view])
                /\ held' = [held EXCEPT ![t] = {"access"}]
        /\ UNCHANGED <<groups, access, views, contexts, clearing, mapped>>

(* The view's family of subtrees. *)
Match(t) ==
    LET q == check[t].req
        granted == \E view \in check[t].view : InView(views, view, q.oid)
    IN  /\ AtStage(t, "match")
        /\ Go(t, Stage(IF granted THEN "granted" ELSE "denied", q))
        /\ held' = [held EXCEPT ![t] = {}]
        /\ UNCHANGED <<groups, access, views, contexts, clearing, mapped>>

Return(t) ==
    /\ check[t].pc \in {"open", "granted", "denied"}
    /\ Go(t, NoCheck)
    /\ mapped' = [mapped EXCEPT ![t] = {}]
    /\ UNCHANGED <<groups, access, views, contexts, clearing, held>>

----------------------------------------------------------------------------
(* The embedding program. *)

Lockable(table) == \A t \in Checkers : table \notin held[t]
Ready(a, table) == clearing[a] = <<>> /\ Lockable(table)

(* What a write to the groups means for the checks under way.               *)
Remap ==
    mapped' = [t \in Checkers |->
      IF AtStage(t, "idle") THEN {} ELSE mapped[t] \cup GroupFor(groups', check[t].req)]

WriteGroup(a) ==
    /\ Ready(a, "groups")
    /\ \E row \in GroupRows :
         groups' \in {AddGroup(groups, row), {g \in groups : ~SameGroup(g, row)}}
    /\ Remap
    /\ UNCHANGED <<access, views, contexts, check, held, clearing>>

WriteAccess(a) ==
    /\ Ready(a, "access")
    /\ \E row \in AccessRows :
         access' \in {AddAccess(access, row),
                      SelectSeq(access, LAMBDA r : ~SameAccess(r, row))}
    /\ UNCHANGED <<groups, views, contexts, check, held, clearing, mapped>>

WriteView(a) ==
    /\ Ready(a, "views")
    /\ \E row \in ViewRows :
         views' \in {AddView(views, row), {v \in views : ~SameView(v, row)}}
    /\ UNCHANGED <<groups, access, contexts, check, held, clearing, mapped>>

WriteContext(a) ==
    /\ Ready(a, "contexts")
    /\ \E c \in Contexts : contexts' \in {contexts \cup {c}, contexts \ {c}}
    /\ UNCHANGED <<groups, access, views, check, held, clearing, mapped>>

(* clear() empties one table after the other, each under its own lock.      *)
ClearOrder == <<"groups", "access", "views", "contexts">>

StartClear(a) ==
    /\ clearing[a] = <<>>
    /\ clearing' = [clearing EXCEPT ![a] = ClearOrder]
    /\ UNCHANGED <<groups, access, views, contexts, check, held, mapped>>

ClearNext(a) ==
    /\ clearing[a] # <<>>
    /\ LET table == Head(clearing[a])
       IN  /\ Lockable(table)
           /\ groups' = IF table = "groups" THEN {} ELSE groups
           /\ access' = IF table = "access" THEN <<>> ELSE access
           /\ views' = IF table = "views" THEN {} ELSE views
           /\ contexts' = IF table = "contexts" THEN {} ELSE contexts
    /\ Remap
    /\ clearing' = [clearing EXCEPT ![a] = Tail(@)]
    /\ UNCHANGED <<check, held>>

VacmInit ==
    /\ \E c \in Configs : /\ groups = Load(c).groups
                          /\ access = Load(c).access
                          /\ views = Load(c).views
    /\ contexts = {}
    /\ check = [t \in Checkers |-> NoCheck]
    /\ held = [t \in Checkers |-> {}]
    /\ clearing = [a \in Admins |-> <<>>]
    /\ mapped = [t \in Checkers |-> {}]

CheckStep(t) == IsEmpty(t) \/ Map(t) \/ Select(t) \/ Match(t) \/ Return(t)

VacmNext ==
    \/ \E t \in Checkers : Begin(t) \/ CheckStep(t)
    \/ \E a \in Admins : \/ WriteGroup(a) \/ WriteAccess(a) \/ WriteView(a)
                         \/ WriteContext(a) \/ StartClear(a) \/ ClearNext(a)

VacmSpec == VacmInit /\ [][VacmNext]_vacmVars

----------------------------------------------------------------------------
(* Properties. *)

(* The tables keep one row for a key, as add_group, add_access and add_view *)
(* promise, and a check is at one of its stages.                            *)
VacmTypeOK ==
    /\ \A g, h \in groups : SameGroup(g, h) => g = h
    /\ \A i, j \in DOMAIN access : SameAccess(access[i], access[j]) => i = j
    /\ \A v, w \in views : SameView(v, w) => v = w
    /\ \A t \in Checkers :
         /\ check[t].pc \in {"idle", "groups", "access", "views", "map", "select",
                             "match", "open", "granted", "denied"}
         /\ held[t] \subseteq Tables
    /\ \A a \in Admins : clearing[a] \in {ClearOrder, <<"access", "views", "contexts">>,
                                          <<"views", "contexts">>, <<"contexts">>, <<>>}

AllEmpty == groups = {} /\ access = <<>> /\ views = {}

(* An unconfigured VACM allows everything, and only an unconfigured one: a  *)
(* check that ends in is_empty ends at a moment when all three tables are   *)
(* empty, although it has looked at them one by one while the program was   *)
(* clearing and refilling them (the guards that Vacm::is_empty holds).      *)
OpenOnlyWhenEmpty ==
    [][\A t \in Checkers : AtStage(t, "views") /\ check'[t].pc = "open" => AllEmpty]_vacmVars

(* A grant is never put together from an access row and a view of different *)
(* times: when is_view_accessible grants, a row of the access table of that *)
(* moment gives a group the caller had during the check a view that, at     *)
(* that moment, contains the OID.                                           *)
GrantsAreCurrent ==
    [][\A t \in Checkers : AtStage(t, "match") /\ check'[t].pc = "granted" =>
         \E g \in mapped[t] : \E row \in SelectAccess(access, g, check[t].req) :
           InView(views, row.views[check[t].req.type], check[t].req.oid)]_vacmVars

Community(q) == q.model \in {1, 2} /\ q.level = 0

(* A line counts if it is of the same kind as the last one for its          *)
(* community, whose access row has taken the place of the others'.          *)
LineGrants(c, i, q) ==
    /\ c[i].name = q.name /\ IsPrefix(c[i].oid, q.oid)
    /\ \E l \in DOMAIN c : /\ c[l].name = c[i].name /\ c[l].kind = c[i].kind
                           /\ \A j \in l + 1 .. Len(c) : c[j].name # c[l].name

Loaded == [groups |-> groups, access |-> access, views |-> views]

(* With the tables as from_config_directives leaves them for a file of      *)
(* community lines, nobody may do more than the lines of its community say, *)
(* and no line gives a notify view. A community may do all of what its      *)
(* lines of one kind say, that of its last line: the other kind has a view  *)
(* of its own, which the access row of the last line no longer names, so    *)
(* those lines grant nothing (EveryLineGrants is what their documentation   *)
(* says).                                                                   *)
CommunitiesAsConfigured ==
    \A c \in Configs \ {<<>>} :
      (\A i \in DOMAIN c : CommunityLine(c[i])) /\ Loaded = Load(c) =>
        \A q \in Requests : Community(q) =>
          (Accessible(Loaded, q) <=>
             \E i \in DOMAIN c :
               /\ LineGrants(c, i, q)
               /\ \/ q.type = "read"
                  \/ q.type = "write" /\ c[i].kind = "rwcommunity")

(* vacm/mod.rs, documentation of apply_rocommunity: a line expands to rows  *)
(* that grant its community read access to its OID.                         *)
EveryLineGrants ==
    \A c \in Configs \ {<<>>} :
      (\A i \in DOMAIN c : CommunityLine(c[i])) /\ Loaded = Load(c) =>
        \A q \in Requests : \A i \in DOMAIN c :
          /\ Community(q) /\ q.type = "read"
          /\ c[i].name = q.name /\ IsPrefix(c[i].oid, q.oid)
          => Accessible(Loaded, q)
============================================================================
