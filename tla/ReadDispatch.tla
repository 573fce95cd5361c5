--------------------------- MODULE ReadDispatch ---------------------------
(***************************************************************************)
(* GET, GETNEXT and GETBULK (agent/registry.rs) over handlers whose         *)
(* instances come and go (agent/scalar.rs, agent/helpers), driven by the    *)
(* walks of the managers (apps/client.rs, lib/session).                     *)
(*                                                                         *)
(* A step is one handler call, which takes and releases that handler's      *)
(* lock: between two calls of one request the MIB and the caller's view     *)
(* may change. Each client is served by a serve loop of its own.            *)
(*                                                                         *)
(* A handler is "live" (it looks at the data in every call: ScalarHandler,  *)
(* MapHandler, TableDataSet, Watcher), "cached" (FnHandler, TableHandler,   *)
(* CacheHandler: a snapshot serves until its time to live is over) or       *)
(* "foreign" (PassHandler, ProxyForwarder, SmuxSubtreeHandler: another      *)
(* process answers, with anything or not at all).                           *)
(***************************************************************************)
EXTENDS Oid, FiniteSets

CONSTANTS
    Handlers,     \* the sequence of registered handlers: [root, kind, space]
    Clients,
    Views,        \* the read views the caller may be given, as sets of OIDs
    ForeignOids,  \* what a foreign handler may answer
    WalkRoots,    \* subtrees the clients walk
    MaxReps,      \* bound of the max-repetitions of a walk
    Polls         \* requests the clients send besides walking

H == DOMAIN Handlers
None == {<<>>}    \* no snapshot: no instance has an empty OID
Absent == <<>>    \* a handler's None

RootsSorted ==
    \A g, h \in H : g < h => OidLeq(Handlers[g].root, Handlers[h].root)

(* `register` keeps the handlers sorted by their roots, equal roots in the  *)
(* order they were registered in.                                           *)
ASSUME HandlersAssumption ==
    /\ Handlers \in Seq([root : Oids, kind : {"live", "cached", "foreign"},
                         space : SUBSET Oids])
    /\ Handlers # <<>> /\ RootsSorted
    /\ \A h \in H : \A o \in Handlers[h].space :
         IsPrefix(Handlers[h].root, o) /\ o # Absent
    /\ IsFiniteSet(UNION {Handlers[h].space : h \in H}) /\ IsFiniteSet(ForeignOids)
    /\ ForeignOids \subseteq Oids /\ Absent \notin ForeignOids

ASSUME InputsAssumption ==
    /\ Views # {} /\ Views \subseteq SUBSET Oids
    /\ WalkRoots \subseteq Oids /\ MaxReps \in Nat
    /\ Polls \subseteq [kind : {"get", "next", "other"}, vars : Seq(Oids),
                        nonRep : Nat, reps : Nat]

VARIABLES
    data,       \* data[h]: the instances there are under handler h
    snapshot,   \* snapshot[h]: the cells a cached handler holds, or None
    readable,   \* what the caller's read view holds
    walk,       \* walk[c]: the client's side of a walk
    serve,      \* serve[c]: the request the agent works on for c
    stable,     \* history: instances there for all of the current walk of c
    named,      \* history: OIDs readable at some time during the request of c
    quiet,      \* history: since the request of c came in, nothing changed
                \* and no foreign handler had an answer
    foul        \* history: a foreign handler misled the current walk of c

mib == <<data, snapshot, readable>>
vars == <<data, snapshot, readable, walk, serve, stable, named, quiet, foul>>

Kind(h) == Handlers[h].kind

(* Instances that a call to the handler finds now, and would still find if  *)
(* its snapshot expired.                                                    *)
Served(d, s, h) ==
    CASE Kind(h) = "foreign" -> {}
      [] Kind(h) = "cached" /\ s[h] # None -> d[h] \cap s[h]
      [] OTHER -> d[h]

Visible(d, s, r) == r \cap UNION {Served(d, s, h) : h \in H}

----------------------------------------------------------------------------
(* Requests. GETNEXT is the GETBULK all of whose variables are              *)
(* non-repeaters.                                                           *)

NextOf(oids) == [kind |-> "next", vars |-> oids, nonRep |-> Len(oids), reps |-> 0]
BulkOf(reps, oids) == [kind |-> "next", vars |-> oids, nonRep |-> 0, reps |-> reps]

NonRepeaters(q) == Min({q.nonRep, Len(q.vars)})
Repeaters(q) == Len(q.vars) - NonRepeaters(q)

VarBind(oid, value) == [oid |-> oid, value |-> value]
EndOfMibView(oid) == VarBind(oid, "endOfMibView")
IsEnd(vb) == vb.value = "endOfMibView"

(* The cursor the next varbind is searched from: the request's own OID, or  *)
(* the last answer in the same column.                                      *)
Cursor(q, out) ==
    LET k == Len(out) + 1
    IN  IF k <= Len(q.vars) THEN q.vars[k] ELSE out[k - Repeaters(q)].oid

ExhaustedAtFirstEnd(q, out) ==
    LET n == Len(out) - NonRepeaters(q)
        r == Repeaters(q)
    IN  /\ n >= 0
        /\ r # 0 => /\ n % r = 0
                    /\ \/ n \div r = q.reps
                       \/ n > 0 /\ \E i \in 1..r : IsEnd(out[Len(out) + 1 - i])

(* The loops of process_bulk are done: all repetitions made, or a whole     *)
(* repetition met the end.                                                  *)
Exhausted(q, out) ==
    LET n == Len(out) - NonRepeaters(q)
        r == Repeaters(q)
    IN  /\ n >= 0
        /\ r # 0 => /\ n % r = 0
                    /\ \/ n \div r = q.reps
                       \/ n > 0 /\ \A i \in 1..r : IsEnd(out[Len(out) + 1 - i])

(* A refused request is answered before all of its variables are looked at. *)
Done(s) ==
    \/ s.status # "noError"
    \/ s.kind = "get" /\ Len(s.out) = Len(s.vars)
    \/ s.kind = "next" /\ Exhausted(s, s.out)

(* Other kinds of PDU are answered with genErr at once.                     *)
Request(q) ==
    [kind |-> q.kind, vars |-> q.vars, nonRep |-> q.nonRep, reps |-> q.reps,
     status |-> IF q.kind = "other" THEN "genErr" ELSE "noError",
     out |-> <<>>, handler |-> 1, denied |-> Absent]

Idle == Request([kind |-> "get", vars |-> <<>>, nonRep |-> 0, reps |-> 0])
NoWalk == [state |-> "done", root |-> <<>>, reps |-> 0, current |-> <<>>, seen |-> {}]

Answered(s, vb) == [s EXCEPT !.out = Append(@, vb), !.handler = 1, !.denied = Absent]

(* do_get_next_accessible searches on from the last candidate it had to     *)
(* skip.                                                                    *)
At(s) == IF s.denied = Absent THEN Cursor(s, s.out) ELSE s.denied

----------------------------------------------------------------------------
(* The handlers. *)

Least(S) == CHOOSE o \in S : \A p \in S : OidLeq(o, p)

(* `snapshot`: the cells a call works on, and what the cache holds then.    *)
Cells(h) == IF Kind(h) = "cached" /\ snapshot[h] # None THEN snapshot[h] ELSE data[h]

Snapshot(h) ==
    snapshot' = IF Kind(h) = "cached" THEN [snapshot EXCEPT ![h] = Cells(h)] ELSE snapshot

GetNextPastRootOnly(h, oid) ==
    LET after == {o \in Cells(h) : OidLess(oid, o)}
    IN  IF Kind(h) = "foreign" THEN {Absent} \cup ForeignOids
        ELSE IF after = {} \/ OidLess(Handlers[h].root, oid) THEN {Absent} ELSE {Least(after)}

(* `get_next`: the first cell after the OID, wherever the OID lies.         *)
GetNext(h, oid) ==
    LET after == {o \in Cells(h) : OidLess(oid, o)}
    IN  IF Kind(h) = "foreign" THEN {Absent} \cup ForeignOids
        ELSE IF after = {} THEN {Absent} ELSE {Least(after)}

Get(h, oid) ==
    IF Kind(h) = "foreign" THEN {"value", "noSuchInstance"}
    ELSE {IF oid \in Cells(h) THEN "value" ELSE "noSuchInstance"}

(* Longest root; max_by_key keeps the last of equals.                       *)
HandlerFor(oid) ==
    LET matching == {h \in H : IsPrefix(Handlers[h].root, oid)}
        longer(g, h) == Len(Handlers[g].root) < Len(Handlers[h].root)
    IN  {h \in matching : \A g \in matching : longer(g, h) \/ (~longer(h, g) /\ g <= h)}

(* History of a change to data d, snapshots s and view r.                   *)
Observe(d, s, r) ==
    /\ stable' = [c \in Clients |-> stable[c] \cap Visible(d, s, r)]
    /\ named' = [c \in Clients |-> IF walk[c].state = "done" THEN {} ELSE named[c] \cup r]
    /\ quiet' = [c \in Clients |-> walk[c].state = "done"]

(* A foreign answer outside the handler's subtree, or not after the OID it  *)
(* was asked about.                                                         *)
Misleads(h, oid, answer) ==
    /\ Kind(h) = "foreign"
    /\ answer \notin {o \in Handlers[h].space : OidLess(oid, o)} \cup {Absent}

----------------------------------------------------------------------------
(* The agent. *)

AdvanceEndsAtDenied(s, h, answer) ==
    IF answer = Absent THEN
        IF h = Len(Handlers) THEN Answered(s, EndOfMibView(At(s)))
        ELSE [s EXCEPT !.handler = h + 1]
    ELSE IF answer \in readable THEN Answered(s, VarBind(answer, "value"))
    ELSE IF OidLeq(answer, At(s)) THEN Answered(s, EndOfMibView(At(s)))
    ELSE [s EXCEPT !.handler = 1, !.denied = answer]

(* One `get_next` call of do_get_next, on the next handler in root order,   *)
(* and what do_get_next_accessible makes of its answer.                     *)
Advance(s, h, answer) ==
    IF answer = Absent THEN
        IF h = Len(Handlers)
        THEN Answered(s, EndOfMibView(Cursor(s, s.out)))
        ELSE [s EXCEPT !.handler = h + 1]
    ELSE IF answer \in readable THEN Answered(s, VarBind(answer, "value"))
    ELSE IF OidLeq(answer, At(s)) THEN Answered(s, EndOfMibView(Cursor(s, s.out)))
    ELSE [s EXCEPT !.handler = 1, !.denied = answer]

SearchNext(c) ==
    LET s == serve[c]
        h == s.handler
    IN  /\ s.kind = "next" /\ ~Done(s)
        /\ \E answer \in GetNext(h, At(s)) :
             /\ serve' = [serve EXCEPT ![c] = Advance(s, h, answer)]
             /\ foul' = [foul EXCEPT ![c] = @ \/ Misleads(h, At(s), answer)]
             /\ quiet' = [quiet EXCEPT ![c] = @ /\ (Kind(h) = "foreign" => answer = Absent)]
        /\ Snapshot(h)
        /\ UNCHANGED <<data, readable, walk, stable, named>>

(* One variable of a GET: the view is checked before the handler is called, *)
(* and a refusal takes back what was read so far.                           *)
GetOne(c) ==
    LET s == serve[c]
        oid == s.vars[Len(s.out) + 1]
        answer(v) == serve' = [serve EXCEPT ![c] = Answered(s, VarBind(oid, v))]
    IN  /\ s.kind = "get" /\ ~Done(s)
        /\ \/ /\ oid \notin readable
              /\ serve' = [serve EXCEPT ![c].status = "noAccess", ![c].out = <<>>]
              /\ UNCHANGED <<snapshot, quiet>>
           \/ /\ oid \in readable
              /\ HandlerFor(oid) = {}
              /\ answer("noSuchObject")
              /\ UNCHANGED <<snapshot, quiet>>
           \/ /\ oid \in readable
              /\ \E h \in HandlerFor(oid) :
                   /\ \E v \in Get(h, oid) : answer(v)
                   /\ Snapshot(h)
                   /\ quiet' = [quiet EXCEPT ![c] = @ /\ Kind(h) # "foreign"]
        /\ UNCHANGED <<data, readable, walk, stable, named, foul>>

----------------------------------------------------------------------------
(* The clients: walk_each and bulk_walk_each, which differ in the request   *)
(* they repeat, and single requests.                                        *)

WalkRequest(w) ==
    IF w.reps = 0 THEN NextOf(<<w.current>>) ELSE BulkOf(w.reps, <<w.current>>)

Send(c, q) ==
    /\ serve' = [serve EXCEPT ![c] = Request(q)]
    /\ named' = [named EXCEPT ![c] = readable]
    /\ quiet' = [quiet EXCEPT ![c] = TRUE]

StartWalk(c) ==
    /\ walk[c].state = "done"
    /\ \E root \in WalkRoots, reps \in 0..MaxReps :
         LET w == [state |-> "walking", root |-> root, reps |-> reps,
                   current |-> root, seen |-> {}]
         IN  /\ walk' = [walk EXCEPT ![c] = w]
             /\ Send(c, WalkRequest(w))
             /\ stable' = [stable EXCEPT ![c] =
                   {o \in Visible(data, snapshot, readable) : IsPrefix(root, o) /\ o # root}]
    /\ UNCHANGED <<data, snapshot, readable, foul>>

Poll(c) ==
    /\ walk[c].state = "done"
    /\ \E q \in Polls : Send(c, q)
    /\ walk' = [walk EXCEPT ![c] = [NoWalk EXCEPT !.state = "polling"]]
    /\ UNCHANGED <<data, snapshot, readable, stable, foul>>

ProgressUnguarded(w, current, vb) == vb.value = "value" /\ IsPrefix(w.root, vb.oid)

(* A varbind the client goes on from: a value, in the subtree, and after    *)
(* where it stood.                                                          *)
Progress(w, current, vb) ==
    vb.value = "value" /\ IsPrefix(w.root, vb.oid) /\ OidLess(current, vb.oid)

(* The client takes the first n varbinds of the answer and no more.         *)
Takes(w, out, n) ==
    LET ok(i) == Progress(w, IF i = 1 THEN w.current ELSE out[i - 1].oid, out[i])
    IN  (\A i \in 1..n : ok(i)) /\ (n < Len(out) => ~ok(n + 1))

Finish(c) ==
    /\ serve' = [serve EXCEPT ![c] = Idle]
    /\ stable' = [stable EXCEPT ![c] = {}]
    /\ named' = [named EXCEPT ![c] = {}]
    /\ quiet' = [quiet EXCEPT ![c] = TRUE]
    /\ foul' = [foul EXCEPT ![c] = FALSE]

Reply(c) ==
    LET w == walk[c]
        out == serve[c].out
    IN  /\ w.state # "done" /\ Done(serve[c])
        /\ \/ /\ w.state = "polling"
              /\ walk' = [walk EXCEPT ![c] = NoWalk]
              /\ Finish(c)
           \/ /\ w.state = "walking"
              /\ \E n \in 0..Len(out) :
                   /\ Takes(w, out, n)
                   /\ LET seen == w.seen \cup {out[i].oid : i \in 1..n}
                          onward == [w EXCEPT !.seen = seen, !.current = out[n].oid]
                      IN  \/ /\ n < Len(out) \/ n = 0
                             /\ walk' = [walk EXCEPT ![c] = [NoWalk EXCEPT !.seen = seen]]
                             /\ Finish(c)
                          \/ /\ n = Len(out) /\ n > 0
                             /\ walk' = [walk EXCEPT ![c] = onward]
                             /\ Send(c, WalkRequest(onward))
                             /\ UNCHANGED <<stable, foul>>
        /\ UNCHANGED mib

----------------------------------------------------------------------------
(* Around the agent: instances come and go, snapshots outlive their time,   *)
(* and the access control tables change.                                    *)

Change(h) ==
    /\ Kind(h) # "foreign"
    /\ \E o \in Handlers[h].space :
         data' = [data EXCEPT ![h] = IF o \in @ THEN @ \ {o} ELSE @ \cup {o}]
    /\ Observe(data', snapshot, readable)
    /\ UNCHANGED <<snapshot, readable, walk, serve, foul>>

Expire(h) ==
    /\ snapshot[h] # None
    /\ snapshot' = [snapshot EXCEPT ![h] = None]
    /\ Observe(data, snapshot', readable)
    /\ UNCHANGED <<data, readable, walk, serve, foul>>

Reconfigure ==
    /\ readable' \in Views \ {readable}
    /\ Observe(data, snapshot, readable')
    /\ UNCHANGED <<data, snapshot, walk, serve, foul>>

Init ==
    /\ data = [h \in H |-> IF Kind(h) = "foreign" THEN {} ELSE Handlers[h].space]
    /\ snapshot = [h \in H |-> None]
    /\ readable \in Views
    /\ walk = [c \in Clients |-> NoWalk]
    /\ serve = [c \in Clients |-> Idle]
    /\ stable = [c \in Clients |-> {}]
    /\ named = [c \in Clients |-> {}]
    /\ quiet = [c \in Clients |-> TRUE]
    /\ foul = [c \in Clients |-> FALSE]

Next ==
    \/ \E c \in Clients : SearchNext(c) \/ GetOne(c) \/ StartWalk(c) \/ Poll(c) \/ Reply(c)
    \/ \E h \in H : Change(h) \/ Expire(h)
    \/ Reconfigure

(* Handler calls return, and a client takes up the answer it waits for.     *)
Fairness == \A c \in Clients : WF_vars(SearchNext(c) \/ GetOne(c) \/ Reply(c))

Spec == Init /\ [][Next]_vars /\ Fairness

----------------------------------------------------------------------------
(* Properties. *)

(* The types of the state, and that do_get_next stays within the handlers.  *)
TypeOK ==
    /\ \A h \in H : data[h] \subseteq Handlers[h].space
    /\ \A h \in H : \/ snapshot[h] = None
                    \/ Kind(h) = "cached" /\ snapshot[h] \subseteq Handlers[h].space
    /\ readable \in Views
    /\ \A c \in Clients :
         /\ walk[c].state \in {"done", "walking", "polling"}
         /\ serve[c].kind \in {"get", "next", "other"}
         /\ serve[c].handler \in 1..Len(Handlers)
         /\ serve[c].status \in {"noError", "noAccess", "genErr"}

(* A walk returns every instance of its subtree that was there, served and  *)
(* readable from its beginning to its end, whatever else appeared, vanished,*)
(* expired or was hidden meanwhile (Registry::do_get_next_accessible under  *)
(* walk_each and bulk_walk_each).                                           *)
StableVisited ==
    [][\A c \in Clients :
         walk[c].state = "walking" /\ walk'[c].state = "done" /\ ~foul[c]
           => stable[c] \subseteq walk'[c].seen]_vars

(* GETNEXT and GETBULK name only OIDs that the caller sent or could read    *)
(* while the request was served: not even the OID of an endOfMibView tells  *)
(* of a hidden instance (the contract of do_get_next_accessible).           *)
OnlyReadableNamed ==
    \A c \in Clients : \A i \in DOMAIN serve[c].out :
      serve[c].out[i].oid \in named[c] \cup Range(serve[c].vars)

(* What GETBULK owes: in column i of repetition r, the r-th readable        *)
(* instance after the OID of that column, and the end once there is none.   *)
Mib == UNION {Cells(h) : h \in H}

Ahead(S, oid) == {o \in S : OidLess(oid, o)}

NthNext(S, oid, r) ==
    LET after == Ahead(S, oid)
        size == Cardinality(after)
        nth(k) == CHOOSE o \in after : Cardinality({p \in after : OidLeq(p, o)}) = k
    IN  IF r <= size THEN VarBind(nth(r), "value")
        ELSE EndOfMibView(IF size = 0 THEN oid ELSE nth(size))

Bulk(q, S) ==
    LET n == NonRepeaters(q)
        r == Repeaters(q)
        rounds == Max({0} \cup {Cardinality(Ahead(S, q.vars[i])) + 1 : i \in n + 1 .. n + r})
        entry(k) == IF k <= n THEN NthNext(S, q.vars[k], 1)
                    ELSE NthNext(S, q.vars[n + 1 + ((k - n - 1) % r)], 1 + (k - n - 1) \div r)
    IN  [k \in 1 .. n + r * Min({q.reps, rounds}) |-> entry(k)]

Single(q) ==
    [k \in DOMAIN q.vars |->
       VarBind(q.vars[k], IF HandlerFor(q.vars[k]) = {} THEN "noSuchObject"
                          ELSE IF q.vars[k] \in Mib THEN "value" ELSE "noSuchInstance")]

(* A request that met no change and to which no foreign handler contributed *)
(* is answered with what the MIB and the view hold: process_with_access gives  *)
(* the rows and columns of GETBULK their order, length and end, and GET its *)
(* exceptions, or refuses it when one of its variables is hidden.           *)
AnswersMatchMib ==
    \A c \in Clients :
      LET s == serve[c]
      IN  Done(s) /\ quiet[c] /\ s.kind # "other" =>
            IF s.kind = "next" THEN s.out = Bulk(s, Mib \cap readable)
            ELSE IF Range(s.vars) \subseteq readable THEN s.out = Single(s)
            ELSE s.status = "noAccess" /\ s.out = <<>>

(* A walk and a single request end, even when a foreign handler keeps       *)
(* answering with the same or an earlier OID and instances keep coming and  *)
(* going: the guards against non-advancing successors, in the agent and in  *)
(* the client, suffice.                                                     *)
EveryRequestEnds ==
    \A c \in Clients : walk[c].state # "done" ~> walk[c].state = "done"
============================================================================
