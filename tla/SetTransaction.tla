--------------------------- MODULE SetTransaction ---------------------------
(***************************************************************************)
(* SET processing of the agent: Registry::process_set                      *)
(* (crates/netsnmp-agent/src/registry.rs) driving the writable handlers of *)
(* scalar.rs, helpers/table_dataset.rs and the single-step handlers        *)
(* (proxy.rs).  snmpd runs one serve loop per listening address over one   *)
(* shared Agent, so several SETs are processed at once: a worker is a      *)
(* serve loop, and one handler call (which takes and releases the          *)
(* handler's own lock) is one step.                                        *)
(***************************************************************************)
EXTENDS Naturals, Sequences, RowStatus

CONSTANTS
    Workers,          \* serve loops sharing the registry
    Scalars,          \* instances served by ScalarHandler / MapHandler
    ReadOnlyScalars,  \* those whose handler was not made writable()
    InitScalar,       \* the values they are registered with
    NoInstance,       \* an instance below a writable handler that it does not serve
    Rows,             \* indexes of a TableDataSet with a RowStatus column
    Columns,          \* its other columns
    Required,         \* with_required_columns
    ReadOnlyColumns,  \* columns whose ColumnMeta is not writable
    Values,           \* SET values
    TypeOf,           \* the SMI type of each value
    Unset,            \* a cell the row does not hold
    BadStatus,        \* a value RowStatus::from_value does not accept
    Hidden,           \* varbinds outside the requester's VACM write view
    Requests,         \* SET PDUs: sequences of varbinds
    LocalPuts,        \* <<column, value>> pairs the program stores with put()
    NoSnapshot        \* history: the request did not run alone

NullType == "null"

\* A varbind, by the handler its OID resolves to (Registry::handler_for).
VarBinds ==
    [kind : {"instance"}, id : Scalars \cup {NoInstance}, val : Values]
    \cup [kind : {"status"}, row : Rows, val : Verbs \cup {BadStatus}]
    \cup [kind : {"cell"}, row : Rows, col : Columns, val : Values]
    \cup [kind : {"proxied"}, val : Values]
    \cup [kind : {"readOnly"}, val : Values]
    \cup [kind : {"unregistered"}, val : Values]

ASSUME ConstantsAssumption ==
    /\ ReadOnlyScalars \subseteq Scalars
    /\ NoInstance \notin Scalars
    /\ InitScalar \in [Scalars -> Values]
    /\ Required \subseteq Columns
    /\ ReadOnlyColumns \subseteq Columns
    /\ Unset \notin Values
    /\ BadStatus \notin Verbs
    /\ Requests \subseteq Seq(VarBinds) \ {<<>>}
    /\ LocalPuts \subseteq Columns \X Values
    /\ DOMAIN TypeOf = Values

VARIABLES
    scalars,    \* value of every scalar instance
    rows,       \* the TableDataSet's rows
    phase,      \* where process_set stands in each worker
    pdu,        \* the request each worker is serving
    idx,        \* the varbind the current phase has come to
    committed,  \* indexes whose commit_set succeeded
    failure,    \* commit_failed: the first failed commit
    resp,       \* error-status and error-index of the answer
    before      \* history: the MIB when a request that runs alone came in

mib  == <<scalars, rows>>
vars == <<scalars, rows, phase, pdu, idx, committed, failure, resp, before>>

---------------------------------------------------------------------------
(* The table's rows.  A row is in the BTreeMap exactly when it holds a cell. *)

RowStates == [status : Stored \cup {NoStatus},
              cells  : [Columns -> Values \cup {Unset}]]

EmptyRow == [status |-> NoStatus, cells |-> [c \in Columns |-> Unset]]

RowExists(row) == row # EmptyRow

\* Seeded fault: an absent row counts as satisfied.
RequiredSatisfiedIfAbsent(row) ==
    RowExists(row) => \A c \in Required : row.cells[c] # Unset

\* required_satisfied: the RowStatus column does not count, and a row that is
\* not in the map never satisfies its requirements.
RequiredSatisfied(row) ==
    RowExists(row) /\ \A c \in Required : row.cells[c] # Unset

\* types_compatible: the same SMI type on both sides, NULL never acceptable.
TypesCompatible(current, new) ==
    TypeOf[current] = TypeOf[new] /\ TypeOf[new] # NullType

NextStatus(row, verb) == Transition(row.status, verb, RequiredSatisfied(row))

---------------------------------------------------------------------------
(* prepare_set of each handler: the error status, or "noError".            *)

\* Seeded fault: the reserve passes do not compare SMI types.
PrepareInstanceAnyType(vb) ==
    CASE vb.id \in ReadOnlyScalars -> "notWritable"
      [] vb.id \notin Scalars -> "noCreation"
      [] OTHER -> "noError"

PrepareInstance(vb) ==
    CASE vb.id \in ReadOnlyScalars -> "notWritable"
      [] vb.id \notin Scalars -> "noCreation"
      [] OTHER -> IF TypesCompatible(scalars[vb.id], vb.val)
                  THEN "noError" ELSE "wrongType"

\* Seeded fault: no dry run of the transition in the reserve passes.
PrepareStatusNoDryRun(vb) == IF vb.val = BadStatus THEN "wrongValue" ELSE "noError"

PrepareStatus(vb) ==
    IF vb.val = BadStatus THEN "wrongValue"
    ELSE LET next == NextStatus(rows[vb.row], vb.val)
         IN  IF next \in RowErrors THEN next ELSE "noError"

PrepareCell(vb) ==
    LET cell == rows[vb.row].cells[vb.col]
    IN  CASE vb.col \in ReadOnlyColumns -> "notWritable"
          [] cell # Unset /\ ~TypesCompatible(cell, vb.val) -> "wrongType"
          [] OTHER -> "noError"

\* A handler that overrides set only (a proxy), or nothing (FnHandler, TableHandler
\* and the other readers), keeps the default prepare_set, which accepts everything; a
\* varbind without a handler is not writable.
PrepareSet(vb) ==
    CASE vb.kind = "instance"     -> PrepareInstance(vb)
      [] vb.kind = "status"       -> PrepareStatus(vb)
      [] vb.kind = "cell"         -> PrepareCell(vb)
      [] vb.kind \in {"proxied", "readOnly"} -> "noError"
      [] OTHER                    -> "notWritable"

---------------------------------------------------------------------------
(* commit_set of each handler: the outcomes it can have, and what each      *)
(* leaves behind.  Only the RowStatus column validates again; a forwarded   *)
(* SET depends on the remote agent, and the default set of a reader, which  *)
(* the default commit_set calls, refuses.                                   *)

\* Seeded fault: the commit pass trusts the transition checked while reserving.
CommitTrustsReserve(vb) ==
    CASE vb.kind = "proxied" -> {"noError", "genErr"}
      [] vb.kind = "readOnly" -> {"notWritable"}
      [] OTHER -> {"noError"}

CommitOutcomes(vb) ==
    CASE vb.kind = "status" ->
            LET next == NextStatus(rows[vb.row], vb.val)
            IN  {IF next \in RowErrors THEN next ELSE "noError"}
      [] vb.kind = "proxied" -> {"noError", "genErr"}
      [] vb.kind = "readOnly" -> {"notWritable"}
      [] OTHER -> {"noError"}

\* apply_row_status on an accepted request.
ApplyRowStatus(row, verb) ==
    IF NextStatus(row, verb) = Destroyed THEN EmptyRow
    ELSE [row EXCEPT !.status = NextStatus(row, verb)]

WriteCell(row, col, val) == [row EXCEPT !.cells[col] = val]

\* The row a successful commit of vb leaves behind.
RowAfter(row, vb) ==
    IF vb.kind = "status" THEN ApplyRowStatus(row, vb.val)
    ELSE WriteCell(row, vb.col, vb.val)

CommitEffect(vb) ==
    \/ /\ vb.kind = "instance"
       /\ scalars' = [scalars EXCEPT ![vb.id] = vb.val]
       /\ UNCHANGED rows
    \/ /\ vb.kind \in {"status", "cell"}
       /\ rows' = [rows EXCEPT ![vb.row] = RowAfter(@, vb)]
       /\ UNCHANGED scalars
    \/ vb.kind = "proxied" /\ UNCHANGED mib

\* No handler of the agent overrides undo_set, whose default does nothing and
\* reports success.
UndoSet == UNCHANGED mib

---------------------------------------------------------------------------
NoError == [status |-> "noError", index |-> 0]

Phases == {"idle", "reserve1", "reserve2", "commit", "undo", "done"}

Busy(w) == phase[w] \notin {"idle", "done"}

Init ==
    /\ scalars = InitScalar
    /\ rows = [r \in Rows |-> EmptyRow]
    /\ phase = [w \in Workers |-> "idle"]
    /\ pdu = [w \in Workers |-> <<>>]
    /\ idx = [w \in Workers |-> 1]
    /\ committed = [w \in Workers |-> {}]
    /\ failure = [w \in Workers |-> NoError]
    /\ resp = [w \in Workers |-> NoError]
    /\ before = [w \in Workers |-> NoSnapshot]

\* process_with_access, SET branch: a datagram carrying p reaches worker w.  The
\* write view is checked for every varbind before any handler is called.
Receive(w, p) ==
    /\ ~Busy(w)
    /\ pdu' = [pdu EXCEPT ![w] = p]
    /\ idx' = [idx EXCEPT ![w] = 1]
    /\ committed' = [committed EXCEPT ![w] = {}]
    /\ failure' = [failure EXCEPT ![w] = NoError]
    /\ \/ /\ \A i \in DOMAIN p : p[i] \notin Hidden
          /\ phase' = [phase EXCEPT ![w] = "reserve1"]
          /\ resp' = [resp EXCEPT ![w] = NoError]
       \/ \E n \in DOMAIN p :
            /\ p[n] \in Hidden /\ \A i \in 1..(n - 1) : p[i] \notin Hidden
            /\ phase' = [phase EXCEPT ![w] = "done"]
            /\ resp' = [resp EXCEPT ![w] = [status |-> "noAccess", index |-> n]]
    /\ before' = [v \in Workers |->
                    IF v = w /\ \A u \in Workers : ~Busy(u)
                    THEN [scalars |-> scalars, rows |-> rows] ELSE NoSnapshot]
    /\ UNCHANGED mib

\* The phase that follows when `idx` has passed the last varbind.
Advance(w, next) ==
    IF idx[w] = Len(pdu[w])
    THEN /\ phase' = [phase EXCEPT ![w] = next]
         /\ idx' = [idx EXCEPT ![w] = 1]
    ELSE /\ idx' = [idx EXCEPT ![w] = idx[w] + 1]
         /\ UNCHANGED phase

\* One prepare_set call of a reserve pass; the first refusal answers the request.
Reserve(w, this, next) ==
    LET status == PrepareSet(pdu[w][idx[w]])
    IN  /\ phase[w] = this
        /\ \/ /\ status = "noError"
              /\ Advance(w, next)
              /\ UNCHANGED resp
           \/ /\ status # "noError"
              /\ resp' = [resp EXCEPT ![w] = [status |-> status, index |-> idx[w]]]
              /\ phase' = [phase EXCEPT ![w] = "done"]
              /\ UNCHANGED idx
        /\ UNCHANGED <<mib, pdu, committed, failure, before>>

Reserve1(w) == Reserve(w, "reserve1", "reserve2")

\* Seeded fault: a conflict found by the second pass starts the request over.
Reserve2Retries(w) ==
    /\ phase[w] = "reserve2"
    /\ IF PrepareSet(pdu[w][idx[w]]) = "noError" THEN Advance(w, "commit")
       ELSE /\ phase' = [phase EXCEPT ![w] = "reserve1"]
            /\ idx' = [idx EXCEPT ![w] = 1]
    /\ UNCHANGED <<mib, pdu, committed, failure, resp, before>>

Reserve2(w) == Reserve(w, "reserve2", "commit")

\* One commit_set call.  A failure is remembered and the remaining varbinds are
\* still attempted; after the last one the request is answered, or undone.
Commit(w) ==
    LET vb == pdu[w][idx[w]]
    IN  /\ phase[w] = "commit"
        /\ \E outcome \in CommitOutcomes(vb) :
             \/ /\ outcome = "noError"
                /\ CommitEffect(vb)
                /\ committed' = [committed EXCEPT ![w] = @ \cup {idx[w]}]
                /\ UNCHANGED failure
             \/ /\ outcome # "noError"
                /\ failure' = IF failure[w] # NoError THEN failure
                              ELSE [failure EXCEPT ![w] = [status |-> outcome, index |-> idx[w]]]
                /\ UNCHANGED <<mib, committed>>
        /\ Advance(w, IF failure'[w] = NoError THEN "done" ELSE "undo")
        /\ UNCHANGED <<pdu, resp, before>>

\* Best-effort undo of the committed varbinds, then the first failure is reported.
Undo(w) ==
    /\ phase[w] = "undo"
    /\ UndoSet
    /\ resp' = [resp EXCEPT ![w] = failure[w]]
    /\ phase' = [phase EXCEPT ![w] = "done"]
    /\ UNCHANGED <<pdu, idx, committed, failure, before>>

\* TableDataSet::put, called by the program the agent is embedded in.
Put(r, c, v) ==
    /\ rows' = [rows EXCEPT ![r] = WriteCell(@, c, v)]
    /\ before' = [w \in Workers |-> NoSnapshot]
    /\ UNCHANGED <<scalars, phase, pdu, idx, committed, failure, resp>>

\* TableDataSet::remove_row, called by the program the agent is embedded in.
RemoveRow(r) ==
    /\ rows' = [rows EXCEPT ![r] = EmptyRow]
    /\ before' = [w \in Workers |-> NoSnapshot]
    /\ UNCHANGED <<scalars, phase, pdu, idx, committed, failure, resp>>

Serve(w) == Reserve1(w) \/ Reserve2(w) \/ Commit(w) \/ Undo(w)

Next ==
    \/ \E w \in Workers : Serve(w) \/ \E p \in Requests : Receive(w, p)
    \/ \E r \in Rows : RemoveRow(r) \/ \E cv \in LocalPuts : Put(r, cv[1], cv[2])

\* A serve loop that has taken a datagram runs process_set to its end: handler
\* calls are synchronous and hold no lock across calls.
Fairness == \A w \in Workers : WF_vars(Serve(w))

Spec == Init /\ [][Next]_vars /\ Fairness

---------------------------------------------------------------------------
(* Properties.                                                             *)

\* Error statuses the SET path answers with.
Statuses == {"noError", "noAccess", "notWritable", "noCreation", "wrongType",
             "wrongValue", "genErr"} \cup RowErrors

Answers == [status : Statuses, index : Nat]

Snapshots == [scalars : [Scalars -> Values], rows : [Rows -> RowStates]]

\* Every variable has its type, and a worker inside a phase stands at a varbind of
\* the request it serves.
TypeOK ==
    /\ scalars \in [Scalars -> Values]
    /\ rows \in [Rows -> RowStates]
    /\ phase \in [Workers -> Phases]
    /\ pdu \in [Workers -> Requests \cup {<<>>}]
    /\ idx \in [Workers -> Nat]
    /\ committed \in [Workers -> SUBSET Nat]
    /\ failure \in [Workers -> Answers]
    /\ resp \in [Workers -> Answers]
    /\ before \in [Workers -> Snapshots \cup {NoSnapshot}]
    /\ \A w \in Workers : Busy(w) => pdu[w] \in Requests
    /\ \A w \in Workers : Busy(w) => idx[w] \in DOMAIN pdu[w]

\* table_dataset.rs / row.rs: however SETs of several serve loops interleave with
\* each other and with put/remove_row, an active row holds its required columns.
ActiveRowsComplete ==
    \A r \in Rows : rows[r].status = "active" =>
        \A c \in Required : rows[r].cells[c] # Unset

\* scalar.rs: commit_set does not look at the type again and the check was made
\* under an earlier lock; still no interleaving of SETs changes a scalar's SMI
\* type, and none changes a scalar that is not writable.
ScalarsGuarded ==
    \A s \in Scalars :
        /\ TypeOf[scalars[s]] = TypeOf[InitScalar[s]]
        /\ s \in ReadOnlyScalars => scalars[s] = InitScalar[s]

\* A commit by worker w of a create verb for row r succeeds in this step.
Creates(w, r) ==
    /\ phase[w] = "commit"
    /\ pdu[w][idx[w]].kind = "status"
    /\ pdu[w][idx[w]].row = r
    /\ pdu[w][idx[w]].val \in CreateVerbs
    /\ committed'[w] = committed[w] \cup {idx[w]}
    /\ idx[w] \notin committed[w]

\* table_dataset.rs: of two managers whose create requests for one row both passed
\* the reserve passes, only the first commits; a second success needs the row to
\* have been destroyed in between.
CreationIsExclusive ==
    [][\A w \in Workers, r \in Rows : Creates(w, r) =>
         rows[r].status = NoStatus /\ rows'[r].status # NoStatus]_vars

\* What the manager may read back after vb was accepted.
Honoured(vb) ==
    CASE vb.kind = "instance" -> scalars[vb.id] = vb.val
      [] vb.kind = "cell" -> rows[vb.row].cells[vb.col] = vb.val
      [] vb.kind = "status" ->
            CASE vb.val = "destroy" -> rows[vb.row] = EmptyRow
              [] vb.val = "createAndGo" -> rows[vb.row].status = "active"
              [] vb.val = "createAndWait" -> rows[vb.row].status \in {"notInService", "notReady"}
              [] OTHER -> rows[vb.row].status = vb.val
      [] OTHER -> FALSE

TouchesScalar(vb, s) == vb.kind = "instance" /\ vb.id = s

TouchesRow(vb, r) == vb.kind \in {"status", "cell"} /\ vb.row = r

\* No two varbinds of p address one scalar or one row, and every handler
\* involved validates in prepare_set.
SelfContained(p) ==
    /\ \A i \in DOMAIN p : p[i].kind \notin {"proxied", "readOnly"}
    /\ \A i, j \in DOMAIN p : i # j =>
         /\ \A s \in Scalars : ~(TouchesScalar(p[i], s) /\ TouchesScalar(p[j], s))
         /\ \A r \in Rows : ~(TouchesRow(p[i], r) /\ TouchesRow(p[j], r))

RanAlone(w) == phase[w] = "done" /\ before[w] # NoSnapshot

Unaltered(w) == scalars = before[w].scalars /\ rows = before[w].rows

\* registry.rs process_set: a SET that meets no concurrent change and whose
\* varbinds address different rows and scalars takes effect as a whole or not at
\* all: what the reserve passes accept, the commit pass cannot refuse.
AtomicWhenAlone ==
    \A w \in Workers : RanAlone(w) /\ SelfContained(pdu[w]) =>
        IF resp[w] = NoError
        THEN /\ \A i \in DOMAIN pdu[w] : Honoured(pdu[w][i])
             /\ \A s \in Scalars : (\A i \in DOMAIN pdu[w] : ~TouchesScalar(pdu[w][i], s))
                                   => scalars[s] = before[w].scalars[s]
             /\ \A r \in Rows : (\A i \in DOMAIN pdu[w] : ~TouchesRow(pdu[w][i], r))
                                => rows[r] = before[w].rows[r]
        ELSE Unaltered(w)

\* The rows as the abstract specification sees them.
RowStatuses == [r \in Rows |-> rows[r].status]

RowsComplete == [r \in Rows |-> RequiredSatisfied(rows[r])]

Lifecycle == INSTANCE RowLifecycle WITH status <- RowStatuses, complete <- RowsComplete

\* table_dataset.rs + registry.rs implement the conceptual-row life cycle: every
\* commit, put and remove_row is a step of it, every other step a stutter.
ImplementsLifecycle == Lifecycle!Spec

\* registry.rs / agent.rs: a SET taken from the socket is answered, whatever the
\* other serve loops and the embedding program do meanwhile.
EverySetAnswered ==
    \A w \in Workers : phase[w] = "reserve1" ~> phase[w] = "done"

\* docs/features.md, RowStatus tasks: createAndGo stores the row in Commit and Undo
\* removes it again, so a request answered with an error leaves no row behind that
\* it would have created.
FailedCreateUndone ==
    \A w \in Workers, r \in Rows :
        RanAlone(w) /\ resp[w] # NoError /\ before[w].rows[r].status = NoStatus
        => rows[r].status = NoStatus

\* table_dataset.rs prepare_set: cells of a new row are staged for the create verb
\* that follows them in the same SET, so a request that brings every required
\* column of an absent row and then createAndGo is accepted.
StagedCreateAccepted ==
    \A w \in Workers, r \in Rows :
        LET p == pdu[w]
            last == Len(p)
            Brings(c) == \E i \in 1..(last - 1) : p[i].kind = "cell" /\ p[i].col = c
        IN  /\ RanAlone(w)
            /\ before[w].rows[r] = EmptyRow
            /\ \A i \in DOMAIN p : TouchesRow(p[i], r) /\ p[i] \notin Hidden
            /\ p[last].kind = "status" /\ p[last].val = "createAndGo"
            /\ \A i \in 1..(last - 1) : p[i].kind = "cell" /\ p[i].col \notin ReadOnlyColumns
            /\ \A c \in Required : Brings(c)
            => resp[w] = NoError
=============================================================================
