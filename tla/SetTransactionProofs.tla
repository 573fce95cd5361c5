------------------------ MODULE SetTransactionProofs ------------------------
(***************************************************************************)
(* Proofs about SetTransaction for every set of serve loops, rows, columns, *)
(* scalars and requests.                                                    *)
(***************************************************************************)
EXTENDS SetTransaction, TLAPS

\* What a reserve pass establishes about a varbind and no other worker can take
\* back: it has a handler, its value is one the handler can store, and a scalar
\* it addresses is writable and of the value's type.
Reservable(vb) ==
    /\ vb.kind # "unregistered"
    /\ vb.kind = "instance" =>
         /\ vb.id \in Scalars \ ReadOnlyScalars
         /\ TypeOf[vb.val] = TypeOf[InitScalar[vb.id]]
    /\ vb.kind = "status" => vb.val \in Verbs

\* The varbinds of worker w's request that have passed a prepare_set.
Passed(w) ==
    IF phase[w] = "reserve1" THEN {i \in DOMAIN pdu[w] : i < idx[w]}
    ELSE IF Busy(w) THEN DOMAIN pdu[w] ELSE {}

ReservedOK == \A w \in Workers : \A i \in Passed(w) : Reservable(pdu[w][i])

\* The inductive invariant.
IInv == TypeOK /\ ReservedOK /\ ScalarsGuarded /\ ActiveRowsComplete

---------------------------------------------------------------------------
\* A varbind has the fields its kind needs, and no other kind exists.
LEMMA VarBindFields ==
    ASSUME NEW vb \in VarBinds
    PROVE  /\ vb.kind \in {"instance", "status", "cell", "proxied", "readOnly", "unregistered"}
           /\ vb.kind = "instance" => vb.id \in Scalars \cup {NoInstance} /\ vb.val \in Values
           /\ vb.kind = "status" => vb.row \in Rows /\ vb.val \in Verbs \cup {BadStatus}
           /\ vb.kind = "cell" => vb.row \in Rows /\ vb.col \in Columns /\ vb.val \in Values
BY DEF VarBinds

\* Every request varbind is a varbind.
LEMMA RequestVarBinds ==
    ASSUME NEW p \in Requests, NEW i \in DOMAIN p
    PROVE  /\ p[i] \in VarBinds
           /\ DOMAIN p = 1..Len(p)
           /\ Len(p) \in Nat \ {0}
BY ConstantsAssumption

\* row.rs transition: the result is a storable status, a destruction or an error,
\* and `active` is granted only to a row whose required columns are filled.
LEMMA TransitionResult ==
    ASSUME NEW current \in Stored \cup {NoStatus}, NEW verb \in Verbs, NEW satisfied \in BOOLEAN
    PROVE  /\ Transition(current, verb, satisfied) \in Stored \cup {Destroyed} \cup RowErrors
           /\ Transition(current, verb, satisfied) = "active" => satisfied
BY DEF Transition, CreateAndGo, CreateAndWait, Activate, TakeOutOfService, MarkNotReady,
       RefuseChange, Stored, Verbs, NoStatus, Destroyed, RowErrors

\* An empty row has the type of a row.
LEMMA EmptyRowType == EmptyRow \in RowStates
BY DEF EmptyRow, RowStates, NoStatus

\* Writing a cell keeps the row's type and status and fills that cell only.
LEMMA WriteCellResult ==
    ASSUME NEW row \in RowStates, NEW c \in Columns, NEW v \in Values
    PROVE  /\ WriteCell(row, c, v) \in RowStates
           /\ WriteCell(row, c, v).status = row.status
           /\ \A d \in Columns : row.cells[d] # Unset => WriteCell(row, c, v).cells[d] # Unset
           /\ WriteCell(row, c, v).cells[c] = v
BY ConstantsAssumption DEF WriteCell, RowStates

\* apply_row_status on an accepted verb: the row keeps its type, and is active
\* afterwards only if its required columns are filled.
LEMMA ApplyRowStatusResult ==
    ASSUME NEW row \in RowStates, NEW verb \in Verbs, NextStatus(row, verb) \notin RowErrors
    PROVE  /\ ApplyRowStatus(row, verb) \in RowStates
           /\ ApplyRowStatus(row, verb).status = "active" =>
                \A c \in Required : ApplyRowStatus(row, verb).cells[c] # Unset
<1>1. row.status \in Stored \cup {NoStatus} /\ RequiredSatisfied(row) \in BOOLEAN
  BY DEF RowStates, RequiredSatisfied
<1>2. /\ NextStatus(row, verb) \in Stored \cup {Destroyed}
      /\ NextStatus(row, verb) = "active" => RequiredSatisfied(row)
  BY <1>1, TransitionResult DEF NextStatus
<1>3. CASE NextStatus(row, verb) = Destroyed
  BY <1>3, EmptyRowType DEF ApplyRowStatus, EmptyRow, NoStatus
<1>4. CASE NextStatus(row, verb) # Destroyed
  <2>1. ApplyRowStatus(row, verb) = [row EXCEPT !.status = NextStatus(row, verb)]
    BY <1>4 DEF ApplyRowStatus
  <2>2. NextStatus(row, verb) \in Stored
    BY <1>2, <1>4
  <2>. QED  BY <1>2, <2>1, <2>2 DEF RowStates, RequiredSatisfied
<1>. QED  BY <1>3, <1>4

\* prepare_set answers with an error status of the SET path, and accepts only what
\* stays acceptable (given that scalars keep their types).
LEMMA PrepareSetResult ==
    ASSUME TypeOK, ScalarsGuarded, NEW vb \in VarBinds
    PROVE  /\ PrepareSet(vb) \in Statuses
           /\ PrepareSet(vb) = "noError" => Reservable(vb)
<1>. USE VarBindFields
<1>1. CASE vb.kind = "instance"
  <2>1. PrepareSet(vb) = PrepareInstance(vb)
    BY <1>1 DEF PrepareSet
  <2>. QED  BY <1>1, <2>1, ConstantsAssumption
            DEF PrepareInstance, Reservable, Statuses, TypesCompatible, ScalarsGuarded
<1>2. CASE vb.kind = "status"
  <2>1. PrepareSet(vb) = PrepareStatus(vb)
    BY <1>2 DEF PrepareSet
  <2>. QED  BY <1>2, <2>1 DEF PrepareStatus, Reservable, Statuses, RowErrors
<1>3. CASE vb.kind = "cell"
  <2>1. PrepareSet(vb) = PrepareCell(vb)
    BY <1>3 DEF PrepareSet
  <2>. QED  BY <1>3, <2>1 DEF PrepareCell, Reservable, Statuses
<1>4. CASE vb.kind \in {"proxied", "readOnly", "unregistered"}
  BY <1>4 DEF PrepareSet, Reservable, Statuses
<1>. QED  BY <1>1, <1>2, <1>3, <1>4

\* commit_set's outcomes are error statuses of the SET path.
LEMMA CommitOutcomesType ==
    ASSUME NEW vb \in VarBinds
    PROVE  CommitOutcomes(vb) \subseteq Statuses
BY DEF CommitOutcomes, Statuses, RowErrors

\* A successful commit of a reserved varbind keeps the MIB's types and its
\* two guarantees.
LEMMA CommitEffectResult ==
    ASSUME IInv, NEW vb \in VarBinds, Reservable(vb),
           "noError" \in CommitOutcomes(vb), CommitEffect(vb)
    PROVE  /\ scalars' \in [Scalars -> Values]
           /\ rows' \in [Rows -> RowStates]
           /\ ScalarsGuarded'
           /\ ActiveRowsComplete'
<1>. USE VarBindFields DEF IInv
<1>1. CASE vb.kind = "instance"
  <2>1. /\ vb.id \in Scalars \ ReadOnlyScalars /\ vb.val \in Values
        /\ TypeOf[vb.val] = TypeOf[InitScalar[vb.id]]
    BY <1>1 DEF Reservable
  <2>2. scalars' = [scalars EXCEPT ![vb.id] = vb.val] /\ rows' = rows
    BY <1>1 DEF CommitEffect
  <2>3. scalars' \in [Scalars -> Values] /\ rows' \in [Rows -> RowStates]
    BY <2>1, <2>2 DEF TypeOK
  <2>4. ScalarsGuarded'
    BY <2>1, <2>2 DEF ScalarsGuarded, TypeOK
  <2>5. ActiveRowsComplete'
    BY <2>2 DEF ActiveRowsComplete
  <2>. QED  BY <2>3, <2>4, <2>5
<1>2. CASE vb.kind \in {"status", "cell"}
  <2>1. /\ UNCHANGED scalars
        /\ vb.row \in Rows
        /\ rows' = [rows EXCEPT ![vb.row] = RowAfter(rows[vb.row], vb)]
        /\ rows[vb.row] \in RowStates
    BY <1>2 DEF CommitEffect, TypeOK
  <2>2. /\ RowAfter(rows[vb.row], vb) \in RowStates
        /\ RowAfter(rows[vb.row], vb).status = "active" =>
             \A c \in Required : RowAfter(rows[vb.row], vb).cells[c] # Unset
    <3>1. CASE vb.kind = "status"
      <4>1. NextStatus(rows[vb.row], vb.val) \notin RowErrors
        BY <3>1 DEF CommitOutcomes, RowErrors
      <4>2. vb.val \in Verbs
        BY <3>1 DEF Reservable
      <4>. QED  BY <2>1, <3>1, <4>1, <4>2, ApplyRowStatusResult DEF RowAfter
    <3>2. CASE vb.kind = "cell"
      <4>1. RowAfter(rows[vb.row], vb) = WriteCell(rows[vb.row], vb.col, vb.val)
        BY <3>2 DEF RowAfter
      <4>2. rows[vb.row].status = "active" => \A c \in Required : rows[vb.row].cells[c] # Unset
        BY <2>1 DEF ActiveRowsComplete
      <4>3. /\ WriteCell(rows[vb.row], vb.col, vb.val) \in RowStates
            /\ WriteCell(rows[vb.row], vb.col, vb.val).status = rows[vb.row].status
            /\ \A c \in Columns : rows[vb.row].cells[c] # Unset =>
                 WriteCell(rows[vb.row], vb.col, vb.val).cells[c] # Unset
        BY <2>1, <3>2, WriteCellResult
      <4>. QED  BY <4>1, <4>2, <4>3, ConstantsAssumption
    <3>. QED  BY <1>2, <3>1, <3>2
  <2>3. rows' \in [Rows -> RowStates]
    BY <2>1, <2>2 DEF TypeOK
  <2>4. ActiveRowsComplete'
    BY <2>1, <2>2 DEF ActiveRowsComplete, TypeOK
  <2>. QED  BY <2>1, <2>3, <2>4 DEF TypeOK, ScalarsGuarded
<1>3. CASE vb.kind = "proxied"
  BY <1>3 DEF CommitEffect, TypeOK, ScalarsGuarded, ActiveRowsComplete, mib
<1>. QED  BY <1>1, <1>2, <1>3 DEF CommitEffect

---------------------------------------------------------------------------
\* The initial states satisfy the inductive invariant.
LEMMA InitIInv == Init => IInv
<1>. SUFFICES ASSUME Init PROVE IInv
  OBVIOUS
<1>1. TypeOK
  BY ConstantsAssumption, EmptyRowType
     DEF Init, TypeOK, Phases, Answers, NoError, Statuses, Busy
<1>2. ReservedOK
  BY DEF Init, ReservedOK, Passed, Busy
<1>3. ScalarsGuarded
  BY DEF Init, ScalarsGuarded
<1>4. ActiveRowsComplete
  BY DEF Init, ActiveRowsComplete, EmptyRow, NoStatus
<1>. QED  BY <1>1, <1>2, <1>3, <1>4 DEF IInv

\* Moving to the next varbind or the next phase keeps a worker at a varbind of its
\* request and leaves the others where they are.
LEMMA AdvanceResult ==
    ASSUME TypeOK, NEW w \in Workers, Busy(w), NEW next \in Phases, Advance(w, next)
    PROVE  /\ phase' \in [Workers -> Phases]
           /\ idx' \in [Workers -> Nat]
           /\ \A v \in Workers \ {w} : phase'[v] = phase[v] /\ idx'[v] = idx[v]
           /\ idx'[w] \in DOMAIN pdu[w]
           /\ \/ idx[w] = Len(pdu[w]) /\ phase'[w] = next
              \/ idx[w] < Len(pdu[w]) /\ phase'[w] = phase[w] /\ idx'[w] = idx[w] + 1
<1>1. /\ pdu[w] \in Requests /\ idx[w] \in DOMAIN pdu[w]
      /\ DOMAIN pdu[w] = 1..Len(pdu[w]) /\ Len(pdu[w]) \in Nat \ {0}
  BY RequestVarBinds DEF TypeOK
<1>2. CASE idx[w] = Len(pdu[w])
  <2>1. phase' = [phase EXCEPT ![w] = next] /\ idx' = [idx EXCEPT ![w] = 1]
    BY <1>2 DEF Advance
  <2>. QED  BY <1>1, <1>2, <2>1 DEF TypeOK
<1>3. CASE idx[w] # Len(pdu[w])
  <2>1. idx' = [idx EXCEPT ![w] = idx[w] + 1] /\ phase' = phase
    BY <1>3 DEF Advance
  <2>2. idx[w] \in Nat /\ idx[w] < Len(pdu[w]) /\ idx[w] + 1 \in 1..Len(pdu[w])
    BY <1>1, <1>3
  <2>. QED  BY <1>1, <2>1, <2>2 DEF TypeOK
<1>. QED  BY <1>2, <1>3

\* Receiving a request keeps the invariant.
LEMMA ReceiveIInv ==
    ASSUME IInv, NEW w \in Workers, NEW p \in Requests, Receive(w, p)
    PROVE  IInv'
<1>. USE DEF IInv
<1>1. p \in Seq(VarBinds) /\ DOMAIN p = 1..Len(p) /\ Len(p) \in Nat \ {0}
  BY ConstantsAssumption
<1>2. /\ scalars' = scalars /\ rows' = rows
      /\ pdu' = [pdu EXCEPT ![w] = p] /\ idx' = [idx EXCEPT ![w] = 1]
      /\ phase'[w] \in {"reserve1", "done"}
      /\ phase' \in [Workers -> Phases]
      /\ \A v \in Workers \ {w} : phase'[v] = phase[v]
  BY DEF Receive, mib, TypeOK, Phases
<1>3. resp' \in [Workers -> Answers]
  <2>1. NoError \in Answers /\ \A n \in Nat : [status |-> "noAccess", index |-> n] \in Answers
    BY DEF Answers, NoError, Statuses
  <2>2. CASE resp' = [resp EXCEPT ![w] = NoError]
    BY <2>1, <2>2 DEF TypeOK
  <2>3. CASE \E n \in DOMAIN p :
               resp' = [resp EXCEPT ![w] = [status |-> "noAccess", index |-> n]]
    BY <1>1, <2>1, <2>3 DEF TypeOK
  <2>. QED  BY <2>2, <2>3 DEF Receive
<1>4. before' \in [Workers -> Snapshots \cup {NoSnapshot}]
  BY DEF Receive, TypeOK, Snapshots
<1>5. TypeOK'
  <2>1. /\ committed' \in [Workers -> SUBSET Nat] /\ failure' \in [Workers -> Answers]
    BY DEF Receive, TypeOK, Answers, NoError, Statuses
  <2>2. /\ pdu' \in [Workers -> Requests \cup {<<>>}] /\ idx' \in [Workers -> Nat]
    BY <1>2 DEF TypeOK
  <2>3. ASSUME NEW v \in Workers, Busy(v)'
        PROVE  pdu'[v] \in Requests /\ idx'[v] \in DOMAIN pdu'[v]
    BY <1>1, <1>2, <2>3 DEF TypeOK, Busy
  <2>. QED  BY <1>2, <1>3, <1>4, <2>1, <2>2, <2>3 DEF TypeOK
<1>6. ReservedOK'
  <2>. SUFFICES ASSUME NEW v \in Workers, NEW i \in Passed(v)' PROVE Reservable(pdu'[v][i])
    BY DEF ReservedOK, Reservable
  <2>1. CASE v = w
    BY <1>1, <1>2, <2>1 DEF Passed, Busy, TypeOK
  <2>2. CASE v # w
    BY <1>2, <2>2 DEF Passed, Busy, TypeOK, ReservedOK
  <2>. QED  BY <2>1, <2>2
<1>7. ScalarsGuarded' /\ ActiveRowsComplete'
  BY <1>2 DEF ScalarsGuarded, ActiveRowsComplete
<1>. QED  BY <1>5, <1>6, <1>7

\* A prepare_set call of either reserve pass keeps the invariant: it reads only,
\* and what it accepts joins the varbinds known to be reservable.
LEMMA ReserveIInv ==
    ASSUME IInv, NEW w \in Workers,
           NEW this \in {"reserve1", "reserve2"}, NEW next \in {"reserve2", "commit"},
           this = "reserve1" => next = "reserve2", Reserve(w, this, next)
    PROVE  IInv'
<1>. USE DEF IInv
<1>. DEFINE vb == pdu[w][idx[w]]
<1>1. /\ phase[w] = this /\ Busy(w)
      /\ scalars' = scalars /\ rows' = rows /\ pdu' = pdu /\ committed' = committed
      /\ failure' = failure /\ before' = before
  BY DEF Reserve, Busy, mib
<1>2. /\ pdu[w] \in Requests /\ idx[w] \in DOMAIN pdu[w] /\ vb \in VarBinds
      /\ DOMAIN pdu[w] = 1..Len(pdu[w]) /\ Len(pdu[w]) \in Nat \ {0}
  BY <1>1, RequestVarBinds DEF TypeOK
<1>3. ScalarsGuarded' /\ ActiveRowsComplete'
  BY <1>1 DEF ScalarsGuarded, ActiveRowsComplete
<1>4. CASE PrepareSet(vb) = "noError"
  <2>1. Reservable(vb)
    BY <1>2, <1>4, PrepareSetResult
  <2>2. Advance(w, next) /\ resp' = resp /\ next \in Phases
    BY <1>4 DEF Reserve, Phases
  <2>3. /\ phase' \in [Workers -> Phases] /\ idx' \in [Workers -> Nat]
        /\ \A v \in Workers \ {w} : phase'[v] = phase[v] /\ idx'[v] = idx[v]
        /\ idx'[w] \in DOMAIN pdu[w]
        /\ \/ idx[w] = Len(pdu[w]) /\ phase'[w] = next
           \/ idx[w] < Len(pdu[w]) /\ phase'[w] = phase[w] /\ idx'[w] = idx[w] + 1
    BY <1>1, <2>2, AdvanceResult
  <2>4. TypeOK'
    BY <1>1, <1>2, <2>2, <2>3 DEF TypeOK, Busy
  <2>5. ReservedOK'
    <3>. SUFFICES ASSUME NEW v \in Workers, NEW i \in Passed(v)' PROVE Reservable(pdu'[v][i])
      BY DEF ReservedOK, Reservable
    <3>1. CASE v # w
      BY <1>1, <2>3, <3>1 DEF Passed, Busy, ReservedOK
    <3>2. CASE v = w
      <4>1. i \in Passed(w) \/ i = idx[w]
        BY <1>1, <1>2, <2>3, <3>2 DEF Passed, Busy, TypeOK
      <4>. QED  BY <1>1, <2>1, <3>2, <4>1 DEF ReservedOK
    <3>. QED  BY <3>1, <3>2
  <2>. QED  BY <1>3, <2>4, <2>5
<1>5. CASE PrepareSet(vb) # "noError"
  <2>1. /\ resp' = [resp EXCEPT ![w] = [status |-> PrepareSet(vb), index |-> idx[w]]]
        /\ phase' = [phase EXCEPT ![w] = "done"] /\ idx' = idx
    BY <1>5 DEF Reserve
  <2>2. [status |-> PrepareSet(vb), index |-> idx[w]] \in Answers
    BY <1>2, PrepareSetResult DEF Answers, TypeOK
  <2>3. TypeOK'
    BY <1>1, <2>1, <2>2 DEF TypeOK, Busy, Phases
  <2>4. ReservedOK'
    BY <1>1, <2>1 DEF ReservedOK, Passed, Busy, TypeOK, Reservable
  <2>. QED  BY <1>3, <2>3, <2>4
<1>. QED  BY <1>4, <1>5

\* A commit_set call keeps the invariant, whether it succeeds or fails.
LEMMA CommitIInv ==
    ASSUME IInv, NEW w \in Workers, Commit(w)
    PROVE  IInv'
<1>. USE DEF IInv
<1>. DEFINE vb == pdu[w][idx[w]]
            next == IF failure'[w] = NoError THEN "done" ELSE "undo"
<1>1. /\ phase[w] = "commit" /\ Busy(w) /\ Advance(w, next) /\ next \in Phases
      /\ pdu' = pdu /\ resp' = resp /\ before' = before
  BY DEF Commit, Busy, Phases
<1>2. /\ pdu[w] \in Requests /\ idx[w] \in DOMAIN pdu[w] /\ idx[w] \in Nat
      /\ vb \in VarBinds /\ Reservable(vb)
      /\ DOMAIN pdu[w] = 1..Len(pdu[w]) /\ Len(pdu[w]) \in Nat \ {0}
  BY <1>1, RequestVarBinds DEF TypeOK, ReservedOK, Passed, Busy
<1>3. /\ scalars' \in [Scalars -> Values] /\ rows' \in [Rows -> RowStates]
      /\ ScalarsGuarded' /\ ActiveRowsComplete'
      /\ committed' \in [Workers -> SUBSET Nat]
      /\ failure' \in [Workers -> Answers]
  <2>1. PICK outcome \in CommitOutcomes(vb) :
             \/ /\ outcome = "noError"
                /\ CommitEffect(vb)
                /\ committed' = [committed EXCEPT ![w] = committed[w] \cup {idx[w]}]
                /\ UNCHANGED failure
             \/ /\ outcome # "noError"
                /\ failure' = IF failure[w] # NoError THEN failure
                              ELSE [failure EXCEPT ![w] = [status |-> outcome, index |-> idx[w]]]
                /\ UNCHANGED <<mib, committed>>
    BY DEF Commit
  <2>2. CASE outcome = "noError"
    <3>1. CommitEffect(vb) /\ UNCHANGED failure
          /\ committed' = [committed EXCEPT ![w] = committed[w] \cup {idx[w]}]
      BY <2>1, <2>2
    <3>2. /\ scalars' \in [Scalars -> Values] /\ rows' \in [Rows -> RowStates]
          /\ ScalarsGuarded' /\ ActiveRowsComplete'
      BY <1>2, <2>1, <2>2, <3>1, CommitEffectResult
    <3>. QED  BY <1>2, <3>1, <3>2 DEF TypeOK
  <2>3. CASE outcome # "noError"
    <3>1. outcome \in Statuses
      BY <1>2, CommitOutcomesType
    <3>2. [status |-> outcome, index |-> idx[w]] \in Answers
      BY <1>2, <3>1 DEF Answers
    <3>3. /\ scalars' = scalars /\ rows' = rows /\ committed' = committed
          /\ failure' = IF failure[w] # NoError THEN failure
                        ELSE [failure EXCEPT ![w] = [status |-> outcome, index |-> idx[w]]]
      BY <2>1, <2>3 DEF mib
    <3>. QED  BY <3>2, <3>3 DEF TypeOK, ScalarsGuarded, ActiveRowsComplete
  <2>. QED  BY <2>2, <2>3
<1>4. /\ phase' \in [Workers -> Phases] /\ idx' \in [Workers -> Nat]
      /\ \A v \in Workers \ {w} : phase'[v] = phase[v] /\ idx'[v] = idx[v]
      /\ idx'[w] \in DOMAIN pdu[w]
      /\ phase'[w] \in {next, "commit"}
  BY <1>1, AdvanceResult
<1>5. TypeOK'
  BY <1>1, <1>2, <1>3, <1>4 DEF TypeOK, Busy
<1>6. ReservedOK'
  <2>. SUFFICES ASSUME NEW v \in Workers, NEW i \in Passed(v)' PROVE Reservable(pdu'[v][i])
    BY DEF ReservedOK, Reservable
  <2>1. i \in Passed(v)
    <3>1. CASE v # w
      BY <1>1, <1>4, <3>1 DEF Passed, Busy
    <3>2. CASE v = w
      BY <1>1, <1>4, <3>2 DEF Passed, Busy
    <3>. QED  BY <3>1, <3>2
  <2>. QED  BY <1>1, <2>1 DEF ReservedOK
<1>. QED  BY <1>3, <1>5, <1>6

\* Undo keeps the invariant.
LEMMA UndoIInv ==
    ASSUME IInv, NEW w \in Workers, Undo(w)
    PROVE  IInv'
<1>. USE DEF IInv
<1>1. /\ scalars' = scalars /\ rows' = rows /\ pdu' = pdu /\ idx' = idx
      /\ committed' = committed /\ failure' = failure /\ before' = before
      /\ resp' = [resp EXCEPT ![w] = failure[w]]
      /\ phase' = [phase EXCEPT ![w] = "done"]
  BY DEF Undo, UndoSet, mib
<1>2. TypeOK'
  BY <1>1 DEF TypeOK, Busy, Phases
<1>3. ReservedOK'
  BY <1>1 DEF ReservedOK, Passed, Busy, TypeOK, Reservable
<1>4. ScalarsGuarded' /\ ActiveRowsComplete'
  BY <1>1 DEF ScalarsGuarded, ActiveRowsComplete
<1>. QED  BY <1>2, <1>3, <1>4

\* put and remove_row keep the invariant.
LEMMA LocalIInv ==
    ASSUME IInv, NEW r \in Rows,
           RemoveRow(r) \/ \E cv \in LocalPuts : Put(r, cv[1], cv[2])
    PROVE  IInv'
<1>. USE DEF IInv
<1>1. PICK new \in RowStates :
        /\ rows' = [rows EXCEPT ![r] = new]
        /\ new.status = "active" => \A c \in Required : new.cells[c] # Unset
  <2>1. CASE RemoveRow(r)
    BY <2>1, EmptyRowType DEF RemoveRow, EmptyRow, NoStatus
  <2>2. CASE \E cv \in LocalPuts : Put(r, cv[1], cv[2])
    <3>1. PICK cv \in LocalPuts : Put(r, cv[1], cv[2])
      BY <2>2
    <3>2. cv[1] \in Columns /\ cv[2] \in Values /\ rows[r] \in RowStates
      BY ConstantsAssumption DEF TypeOK
    <3>. DEFINE new == WriteCell(rows[r], cv[1], cv[2])
    <3>3. /\ new \in RowStates /\ new.status = rows[r].status
          /\ \A c \in Columns : rows[r].cells[c] # Unset => new.cells[c] # Unset
      BY <3>2, WriteCellResult
    <3>4. rows[r].status = "active" => \A c \in Required : rows[r].cells[c] # Unset
      BY DEF ActiveRowsComplete
    <3>5. rows' = [rows EXCEPT ![r] = new]
      BY <3>1 DEF Put
    <3>. HIDE DEF new
    <3>. QED  BY <3>3, <3>4, <3>5, ConstantsAssumption
  <2>. QED  BY <2>1, <2>2
<1>2. /\ scalars' = scalars /\ phase' = phase /\ pdu' = pdu /\ idx' = idx
      /\ committed' = committed /\ failure' = failure /\ resp' = resp
      /\ before' = [w \in Workers |-> NoSnapshot]
  BY DEF RemoveRow, Put
<1>3. TypeOK'
  BY <1>1, <1>2 DEF TypeOK, Busy
<1>4. ReservedOK'
  BY <1>2 DEF ReservedOK, Passed, Busy, Reservable
<1>5. ScalarsGuarded'
  BY <1>2 DEF ScalarsGuarded
<1>6. ActiveRowsComplete'
  BY <1>1 DEF ActiveRowsComplete, TypeOK
<1>. QED  BY <1>3, <1>4, <1>5, <1>6

\* Every step keeps the invariant.
LEMMA NextIInv == IInv /\ [Next]_vars => IInv'
<1>. SUFFICES ASSUME IInv, [Next]_vars PROVE IInv'
  OBVIOUS
<1>1. CASE \E w \in Workers : Reserve1(w) \/ Reserve2(w)
  BY <1>1, ReserveIInv DEF Reserve1, Reserve2
<1>2. CASE \E w \in Workers : Commit(w)
  BY <1>2, CommitIInv
<1>3. CASE \E w \in Workers : Undo(w)
  BY <1>3, UndoIInv
<1>4. CASE \E w \in Workers : \E p \in Requests : Receive(w, p)
  BY <1>4, ReceiveIInv
<1>5. CASE \E r \in Rows : RemoveRow(r) \/ \E cv \in LocalPuts : Put(r, cv[1], cv[2])
  BY <1>5, LocalIInv
<1>6. CASE UNCHANGED vars
  BY <1>6 DEF vars, IInv, TypeOK, ReservedOK, Passed, Busy, Reservable, ScalarsGuarded,
              ActiveRowsComplete
<1>. QED  BY <1>1, <1>2, <1>3, <1>4, <1>5, <1>6 DEF Next, Serve

\* The inductive invariant holds in every reachable state.
LEMMA Invariance == Spec => []IInv
BY InitIInv, NextIInv, PTL DEF Spec

\* registry.rs process_set is type correct: in particular commit_set is only ever
\* called for a varbind of the request being served, with a status that is stored.
THEOREM TypeCorrectness == Spec => []TypeOK
BY Invariance, PTL DEF IInv

\* table_dataset.rs: in every interleaving an active row holds its required columns.
THEOREM ActiveRowsStayComplete == Spec => []ActiveRowsComplete
BY Invariance, PTL DEF IInv

\* scalar.rs: in every interleaving scalars keep their SMI type, and read-only
\* scalars their value, although commit_set does not check either again.
THEOREM ScalarsStayGuarded == Spec => []ScalarsGuarded
BY Invariance, PTL DEF IInv

---------------------------------------------------------------------------
(* The table implements the abstract life cycle of a conceptual row.       *)

\* How one row may change between two states: as the abstract specification's
\* steps, seen on the row itself.
RowStep(old, new) ==
    \/ /\ new.status = old.status
       /\ RequiredSatisfied(old) => RequiredSatisfied(new)
    \/ new = EmptyRow
    \/ /\ old.status = NoStatus /\ new.status \in Stored
       /\ new.status = "notReady" \/ RequiredSatisfied(old)
       /\ RequiredSatisfied(old) => RequiredSatisfied(new)
    \/ /\ old.status # NoStatus
       /\ RequiredSatisfied(new) = RequiredSatisfied(old)
       /\ \/ new.status = "active" /\ RequiredSatisfied(old)
          \/ new.status = "notInService" /\ old.status = "active"
          \/ new.status = "notReady" /\ old.status = "notInService"

\* row.rs transition grants a storable status only along the life cycle's edges.
LEMMA TransitionEdges ==
    ASSUME NEW current \in Stored \cup {NoStatus}, NEW verb \in Verbs, NEW satisfied \in BOOLEAN,
           NEW new, new = Transition(current, verb, satisfied), new \in Stored
    PROVE  \/ new = current
           \/ current = NoStatus /\ (new = "notReady" \/ satisfied)
           \/ /\ current # NoStatus
              /\ \/ new = "active" /\ satisfied
                 \/ new = "notInService" /\ current = "active"
                 \/ new = "notReady" /\ current = "notInService"
BY DEF Transition, CreateAndGo, CreateAndWait, Activate, TakeOutOfService, MarkNotReady,
       RefuseChange, Stored, Verbs, NoStatus, Destroyed, RowErrors

\* Writing a cell is a life-cycle step of the row.
LEMMA WriteCellStep ==
    ASSUME NEW row \in RowStates, NEW c \in Columns, NEW v \in Values
    PROVE  RowStep(row, WriteCell(row, c, v))
<1>. DEFINE new == WriteCell(row, c, v)
<1>1. /\ new \in RowStates /\ new.status = row.status /\ new.cells[c] = v
      /\ \A d \in Columns : row.cells[d] # Unset => new.cells[d] # Unset
  BY WriteCellResult
<1>. HIDE DEF new
<1>2. RowExists(new)
  BY <1>1, ConstantsAssumption DEF RowExists, EmptyRow
<1>3. RequiredSatisfied(row) => RequiredSatisfied(new)
  BY <1>1, <1>2, ConstantsAssumption DEF RequiredSatisfied
<1>. QED  BY <1>1, <1>3 DEF RowStep, new

\* An accepted RowStatus verb is a life-cycle step of the row.
LEMMA ApplyRowStatusStep ==
    ASSUME NEW row \in RowStates, NEW verb \in Verbs, NextStatus(row, verb) \notin RowErrors
    PROVE  RowStep(row, ApplyRowStatus(row, verb))
<1>. DEFINE next == NextStatus(row, verb)
<1>1. row.status \in Stored \cup {NoStatus} /\ RequiredSatisfied(row) \in BOOLEAN
  BY DEF RowStates, RequiredSatisfied
<1>2. next \in Stored \cup {Destroyed}
  BY <1>1, TransitionResult DEF NextStatus
<1>3. CASE next = Destroyed
  BY <1>3 DEF ApplyRowStatus, RowStep
<1>4. CASE next # Destroyed
  <2>. DEFINE new == [row EXCEPT !.status = next]
  <2>1. next \in Stored /\ ApplyRowStatus(row, verb) = new
    BY <1>2, <1>4 DEF ApplyRowStatus
  <2>2. new.status = next /\ new.cells = row.cells /\ RowExists(new)
    BY <2>1 DEF RowStates, RowExists, EmptyRow, Stored, NoStatus
  <2>3. \/ next = row.status
        \/ row.status = NoStatus /\ (next = "notReady" \/ RequiredSatisfied(row))
        \/ /\ row.status # NoStatus
           /\ \/ next = "active" /\ RequiredSatisfied(row)
              \/ next = "notInService" /\ row.status = "active"
              \/ next = "notReady" /\ row.status = "notInService"
    BY <1>1, <2>1, TransitionEdges DEF NextStatus
  <2>4. RequiredSatisfied(row) => RequiredSatisfied(new)
    BY <2>2 DEF RequiredSatisfied
  <2>5. row.status # NoStatus => RequiredSatisfied(new) = RequiredSatisfied(row)
    BY <2>2 DEF RequiredSatisfied, RowExists, EmptyRow
  <2>. HIDE DEF new, next
  <2>. QED  BY <2>1, <2>2, <2>3, <2>4, <2>5 DEF RowStep
<1>. QED  BY <1>3, <1>4

\* A life-cycle step of one row is a step (or a stutter) of the abstract
\* specification.
LEMMA RowStepRefines ==
    ASSUME TypeOK, NEW r \in Rows, NEW new \in RowStates, RowStep(rows[r], new),
           rows' = [rows EXCEPT ![r] = new]
    PROVE  [Lifecycle!Next]_<<RowStatuses, RowsComplete>>
<1>1. /\ RowStatuses' = [RowStatuses EXCEPT ![r] = new.status]
      /\ RowStatuses[r] = rows[r].status
  BY DEF TypeOK, RowStatuses
<1>2. /\ RowsComplete' = [RowsComplete EXCEPT ![r] = RequiredSatisfied(new)]
      /\ RowsComplete[r] = RequiredSatisfied(rows[r])
  BY DEF TypeOK, RowsComplete, RequiredSatisfied, RowExists
<1>3. RequiredSatisfied(rows[r]) \in BOOLEAN /\ RequiredSatisfied(new) \in BOOLEAN
  BY DEF RequiredSatisfied
<1>4. /\ RowStatuses = [q \in Rows |-> RowStatuses[q]]
      /\ RowsComplete = [q \in Rows |-> RowsComplete[q]]
  BY DEF RowStatuses, RowsComplete
<1>5. Lifecycle!NoStatus = NoStatus /\ Lifecycle!Stored = Stored
  BY DEF Lifecycle!NoStatus, Lifecycle!Stored, NoStatus, Stored
<1>6. CASE /\ new.status = rows[r].status
           /\ RequiredSatisfied(rows[r]) => RequiredSatisfied(new)
  <2>1. RowStatuses' = RowStatuses
    BY <1>1, <1>4, <1>6
  <2>2. CASE RequiredSatisfied(new) = RequiredSatisfied(rows[r])
    <3>1. RowsComplete' = RowsComplete
      BY <1>2, <1>4, <2>2
    <3>. QED  BY <2>1, <3>1
  <2>3. CASE RequiredSatisfied(new) = TRUE
    <3>1. Lifecycle!Fill(r)
      BY <1>2, <2>1, <2>3 DEF Lifecycle!Fill
    <3>. QED  BY <3>1 DEF Lifecycle!Next
  <2>. QED  BY <1>3, <1>6, <2>2, <2>3
<1>7. CASE new = EmptyRow
  <2>1. new.status = NoStatus /\ RequiredSatisfied(new) = FALSE
    BY <1>7 DEF EmptyRow, RequiredSatisfied, RowExists
  <2>2. Lifecycle!Destroy(r)
    BY <1>1, <1>2, <1>5, <2>1 DEF Lifecycle!Destroy, Lifecycle!Moves
  <2>. QED  BY <2>2 DEF Lifecycle!Next
<1>8. CASE /\ rows[r].status = NoStatus /\ new.status \in Stored
           /\ new.status = "notReady" \/ RequiredSatisfied(rows[r])
           /\ RequiredSatisfied(rows[r]) => RequiredSatisfied(new)
  <2>1. RequiredSatisfied(new) \in {RowsComplete[r], TRUE}
    BY <1>2, <1>3, <1>8
  <2>2. Lifecycle!MayFill(r)
    BY <1>2, <2>1 DEF Lifecycle!MayFill
  <2>3. Lifecycle!Create(r, new.status)
    BY <1>1, <1>2, <1>5, <1>8, <2>2 DEF Lifecycle!Create, Lifecycle!Moves
  <2>. QED  BY <1>5, <1>8, <2>3 DEF Lifecycle!Next
<1>9. CASE /\ rows[r].status # NoStatus
           /\ RequiredSatisfied(new) = RequiredSatisfied(rows[r])
           /\ \/ new.status = "active" /\ RequiredSatisfied(rows[r])
              \/ new.status = "notInService" /\ rows[r].status = "active"
              \/ new.status = "notReady" /\ rows[r].status = "notInService"
  <2>1. RowsComplete' = RowsComplete
    BY <1>2, <1>4, <1>9
  <2>2. Lifecycle!Enable(r) \/ Lifecycle!Disable(r) \/ Lifecycle!Unready(r)
    BY <1>1, <1>2, <1>5, <1>9, <2>1 DEF Lifecycle!Enable, Lifecycle!Disable,
                                        Lifecycle!Unready, Lifecycle!Moves
  <2>. QED  BY <2>2 DEF Lifecycle!Next
<1>. QED  BY <1>6, <1>7, <1>8, <1>9 DEF RowStep

\* A step that leaves the table alone is a stutter of the abstract specification.
LEMMA StutterRefines ==
    ASSUME rows' = rows
    PROVE  [Lifecycle!Next]_<<RowStatuses, RowsComplete>>
<1>1. RowStatuses' = RowStatuses
  BY DEF RowStatuses
<1>2. RowsComplete' = RowsComplete
  BY DEF RowsComplete, RequiredSatisfied, RowExists
<1>. QED  BY <1>1, <1>2

\* A commit_set call is a step (or a stutter) of the abstract specification.
LEMMA CommitRefines ==
    ASSUME IInv, NEW w \in Workers, Commit(w)
    PROVE  [Lifecycle!Next]_<<RowStatuses, RowsComplete>>
<1>. USE DEF IInv
<1>. DEFINE vb == pdu[w][idx[w]]
<1>1. vb \in VarBinds /\ Reservable(vb)
  <2>1. phase[w] = "commit" /\ Busy(w)
    BY DEF Commit, Busy
  <2>. QED  BY <2>1, RequestVarBinds DEF TypeOK, ReservedOK, Passed
<1>2. \/ rows' = rows
      \/ "noError" \in CommitOutcomes(vb) /\ CommitEffect(vb)
  BY DEF Commit, mib
<1>. HIDE DEF vb
<1>3. CASE "noError" \in CommitOutcomes(vb) /\ CommitEffect(vb)
  <2>1. CASE vb.kind \in {"status", "cell"}
    <3>. DEFINE row == rows[vb.row]
                new == RowAfter(row, vb)
    <3>1. /\ vb.row \in Rows /\ row \in RowStates
          /\ rows' = [rows EXCEPT ![vb.row] = new]
      BY <1>1, <1>3, <2>1, VarBindFields DEF CommitEffect, TypeOK
    <3>2. new \in RowStates /\ RowStep(row, new)
      <4>1. CASE vb.kind = "status"
        <5>1. NextStatus(row, vb.val) \notin RowErrors /\ vb.val \in Verbs
          BY <1>1, <1>3, <4>1 DEF CommitOutcomes, RowErrors, Reservable
        <5>2. new = ApplyRowStatus(row, vb.val)
          BY <4>1 DEF RowAfter
        <5>3. ApplyRowStatus(row, vb.val) \in RowStates
          BY <3>1, <5>1, ApplyRowStatusResult
        <5>4. RowStep(row, ApplyRowStatus(row, vb.val))
          BY <3>1, <5>1, ApplyRowStatusStep
        <5>. QED  BY <5>2, <5>3, <5>4
      <4>2. CASE vb.kind = "cell"
        <5>1. new = WriteCell(row, vb.col, vb.val)
          BY <4>2 DEF RowAfter
        <5>2. vb.col \in Columns /\ vb.val \in Values
          BY <1>1, <4>2, VarBindFields
        <5>3. WriteCell(row, vb.col, vb.val) \in RowStates
          BY <3>1, <5>2, WriteCellResult
        <5>4. RowStep(row, WriteCell(row, vb.col, vb.val))
          BY <3>1, <5>2, WriteCellStep
        <5>. QED  BY <5>1, <5>3, <5>4
      <4>. QED  BY <2>1, <4>1, <4>2
    <3>. HIDE DEF new
    <3>. QED  BY <3>1, <3>2, RowStepRefines
  <2>2. CASE vb.kind \notin {"status", "cell"}
    <3>1. rows' = rows
      BY <1>3, <2>2 DEF CommitEffect, mib
    <3>. QED  BY <3>1, StutterRefines
  <2>. QED  BY <2>1, <2>2
<1>. QED  BY <1>2, <1>3, StutterRefines

\* put and remove_row are steps (or stutters) of the abstract specification.
LEMMA LocalRefines ==
    ASSUME IInv, NEW r \in Rows,
           RemoveRow(r) \/ \E cv \in LocalPuts : Put(r, cv[1], cv[2])
    PROVE  [Lifecycle!Next]_<<RowStatuses, RowsComplete>>
<1>. USE DEF IInv
<1>1. CASE RemoveRow(r)
  <2>1. rows' = [rows EXCEPT ![r] = EmptyRow] /\ RowStep(rows[r], EmptyRow)
    BY <1>1 DEF RemoveRow, RowStep
  <2>. QED  BY <2>1, EmptyRowType, RowStepRefines
<1>2. CASE \E cv \in LocalPuts : Put(r, cv[1], cv[2])
  <2>1. PICK cv \in LocalPuts : Put(r, cv[1], cv[2])
    BY <1>2
  <2>. DEFINE new == WriteCell(rows[r], cv[1], cv[2])
  <2>2. cv[1] \in Columns /\ cv[2] \in Values /\ rows[r] \in RowStates
    BY ConstantsAssumption DEF TypeOK
  <2>3. new \in RowStates /\ RowStep(rows[r], new)
    BY <2>2, WriteCellResult, WriteCellStep
  <2>4. rows' = [rows EXCEPT ![r] = new]
    BY <2>1 DEF Put
  <2>. HIDE DEF new
  <2>. QED  BY <2>3, <2>4, RowStepRefines
<1>. QED  BY <1>1, <1>2

\* Every step is a step (or a stutter) of the abstract specification.
LEMMA NextRefines ==
    IInv /\ [Next]_vars => [Lifecycle!Next]_<<RowStatuses, RowsComplete>>
<1>. SUFFICES ASSUME IInv, [Next]_vars
              PROVE  [Lifecycle!Next]_<<RowStatuses, RowsComplete>>
  OBVIOUS
<1>1. CASE \E w \in Workers : Commit(w)
  BY <1>1, CommitRefines
<1>2. CASE \E r \in Rows : RemoveRow(r) \/ \E cv \in LocalPuts : Put(r, cv[1], cv[2])
  BY <1>2, LocalRefines
<1>3. CASE rows' = rows
  BY <1>3, StutterRefines
<1>. QED  BY <1>1, <1>2, <1>3 DEF Next, Serve, Reserve1, Reserve2, Reserve, Undo, UndoSet,
                                  Receive, vars, mib

\* The empty table is an initial state of the abstract specification.
LEMMA InitRefines == Init => Lifecycle!Init
<1>. SUFFICES ASSUME Init PROVE Lifecycle!Init
  OBVIOUS
<1>1. \A r \in Rows : rows[r] = EmptyRow
  BY DEF Init
<1>2. \A r \in Rows : rows[r].status = NoStatus
  BY <1>1 DEF EmptyRow
<1>3. \A r \in Rows : RequiredSatisfied(rows[r]) = FALSE
  BY <1>1 DEF RequiredSatisfied, RowExists
<1>. QED  BY <1>2, <1>3 DEF Lifecycle!Init, RowStatuses, RowsComplete,
                            Lifecycle!NoStatus, NoStatus

\* table_dataset.rs + registry.rs: the table served to concurrent SETs, put and
\* remove_row implements the conceptual-row life cycle of RowLifecycle.
THEOREM TableImplementsLifecycle == Spec => ImplementsLifecycle
BY Invariance, InitRefines, NextRefines, PTL DEF Spec, ImplementsLifecycle, Lifecycle!Spec

---------------------------------------------------------------------------
(* Of several accepted create requests for one row, one succeeds.          *)

\* row.rs transition: a create verb is granted to a row without a status only.
LEMMA CreateNeedsNoStatus ==
    ASSUME NEW current \in Stored \cup {NoStatus}, NEW verb \in CreateVerbs, NEW satisfied \in BOOLEAN,
           Transition(current, verb, satisfied) \notin RowErrors
    PROVE  current = NoStatus /\ Transition(current, verb, satisfied) \in Stored
BY DEF Transition, CreateAndGo, CreateAndWait, CreateVerbs, RowErrors, Stored, NoStatus

\* Only a successful commit_set of the worker itself extends its committed set.
LEMMA CreatesIsCommit ==
    ASSUME IInv, [Next]_vars, NEW w \in Workers, NEW r \in Rows, Creates(w, r)
    PROVE  /\ "noError" \in CommitOutcomes(pdu[w][idx[w]])
           /\ CommitEffect(pdu[w][idx[w]])
<1>1. committed'[w] # committed[w] /\ phase[w] = "commit"
  BY DEF Creates
<1>2. committed \in [Workers -> SUBSET Nat]
  BY DEF IInv, TypeOK
<1>3. Commit(w)
  <2>1. ASSUME NEW v \in Workers, Commit(v) PROVE v = w
    <3>1. \E S : committed' = [committed EXCEPT ![v] = S] \/ committed' = committed
      BY <2>1 DEF Commit
    <3>. QED  BY <1>1, <1>2, <3>1
  <2>2. ASSUME NEW v \in Workers, NEW p \in Requests, Receive(v, p) PROVE FALSE
    <3>1. committed' = [committed EXCEPT ![v] = {}] /\ ~Busy(v)
      BY <2>2 DEF Receive
    <3>. QED  BY <1>1, <1>2, <3>1 DEF Busy
  <2>3. committed' # committed
    BY <1>1
  <2>. QED  BY <2>1, <2>2, <2>3 DEF Next, Serve, Reserve1, Reserve2, Reserve, Undo,
                                    RemoveRow, Put, vars
<1>. QED  BY <1>1, <1>3 DEF Commit

\* A successful create finds the row without a status and leaves it with one.
LEMMA CreateFindsNoRow ==
    ASSUME IInv, [Next]_vars, NEW w \in Workers, NEW r \in Rows, Creates(w, r)
    PROVE  rows[r].status = NoStatus /\ rows'[r].status # NoStatus
<1>. DEFINE vb == pdu[w][idx[w]]
            next == NextStatus(rows[r], vb.val)
<1>1. vb.kind = "status" /\ vb.row = r /\ vb.val \in CreateVerbs
  BY DEF Creates
<1>2. "noError" \in CommitOutcomes(vb) /\ CommitEffect(vb)
  BY CreatesIsCommit
<1>3. rows[r] \in RowStates /\ rows \in [Rows -> RowStates]
  BY DEF IInv, TypeOK
<1>4. rows[r].status \in Stored \cup {NoStatus} /\ RequiredSatisfied(rows[r]) \in BOOLEAN
  BY <1>3 DEF RowStates, RequiredSatisfied
<1>5. /\ next \notin RowErrors
      /\ rows' = [rows EXCEPT ![r] = ApplyRowStatus(rows[r], vb.val)]
  <2>. HIDE DEF vb
  <2>1. CommitOutcomes(vb) = {IF next \in RowErrors THEN next ELSE "noError"}
    BY <1>1 DEF CommitOutcomes
  <2>2. next \notin RowErrors
    BY <1>2, <2>1 DEF RowErrors
  <2>3. rows' = [rows EXCEPT ![r] = RowAfter(rows[r], vb)]
    BY <1>1, <1>2 DEF CommitEffect
  <2>. QED  BY <1>1, <2>2, <2>3 DEF RowAfter
<1>. HIDE DEF vb
<1>6. rows[r].status = NoStatus /\ next \in Stored
  BY <1>1, <1>4, <1>5, CreateNeedsNoStatus DEF NextStatus
<1>7. ApplyRowStatus(rows[r], vb.val) = [rows[r] EXCEPT !.status = next]
  BY <1>6 DEF ApplyRowStatus, Stored, Destroyed
<1>. HIDE DEF next
<1>8. rows'[r].status = next
  BY <1>3, <1>5, <1>7 DEF RowStates
<1>. QED  BY <1>6, <1>8 DEF Stored, NoStatus

\* table_dataset.rs: a create verb succeeds only on a row without a status, so of
\* several create requests accepted by the reserve passes one commits.
THEOREM CreationStaysExclusive == Spec => CreationIsExclusive
<1>1. IInv /\ [Next]_vars =>
        [\A w \in Workers, r \in Rows : Creates(w, r) =>
            rows[r].status = NoStatus /\ rows'[r].status # NoStatus]_vars
  BY CreateFindsNoRow
<1>. QED  BY <1>1, Invariance, PTL DEF Spec, CreationIsExclusive

---------------------------------------------------------------------------
(* A SET that runs alone is atomic.                                        *)

\* What the commit pass of worker w has done to the MIB so far: the committed
\* varbinds are honoured, and what they do not touch is as it was on arrival.
CommittedSoFar(w) ==
    /\ \A i \in committed[w] : Honoured(pdu[w][i])
    /\ \A s \in Scalars : (\A i \in committed[w] : ~TouchesScalar(pdu[w][i], s))
                          => scalars[s] = before[w].scalars[s]
    /\ \A r \in Rows : (\A i \in committed[w] : ~TouchesRow(pdu[w][i], r))
                       => rows[r] = before[w].rows[r]

\* The varbinds of worker w's request that have passed the second reserve pass and
\* are still to be committed.
Granted(w) ==
    CASE phase[w] = "reserve2" -> {i \in DOMAIN pdu[w] : i < idx[w]}
      [] phase[w] = "commit" -> {i \in DOMAIN pdu[w] : i >= idx[w]}
      [] OTHER -> {}

\* The varbinds that must have been committed where worker w stands.
Due(w) ==
    CASE phase[w] = "commit" -> {i \in DOMAIN pdu[w] : i < idx[w]}
      [] phase[w] = "done" /\ resp[w] = NoError -> DOMAIN pdu[w]
      [] OTHER -> {}

\* A self-contained request that runs alone never fails in the commit pass: what is
\* still to be committed would be accepted again.
Orderly(w) ==
    /\ committed[w] = Due(w)
    /\ CommittedSoFar(w)
    /\ Busy(w) => resp[w] = NoError /\ failure[w] = NoError
    /\ phase[w] # "undo"
    /\ \A i \in Granted(w) : PrepareSet(pdu[w][i]) = "noError"

AloneInv ==
    \A w \in Workers : before[w] # NoSnapshot =>
        /\ \A v \in Workers \ {w} : ~Busy(v)
        /\ SelfContained(pdu[w]) => Orderly(w)

\* row.rs transition: an accepted verb leaves the row as the manager may read it back.
LEMMA TransitionHonours ==
    ASSUME NEW current \in Stored \cup {NoStatus}, NEW verb \in Verbs, NEW satisfied \in BOOLEAN,
           NEW new, new = Transition(current, verb, satisfied), new \notin RowErrors
    PROVE  /\ verb = "destroy" <=> new = Destroyed
           /\ verb = "createAndGo" => new = "active"
           /\ verb = "createAndWait" => new \in {"notInService", "notReady"}
           /\ verb \in Stored => new = verb
BY DEF Transition, CreateAndGo, CreateAndWait, Activate, TakeOutOfService, MarkNotReady,
       RefuseChange, Stored, Verbs, NoStatus, Destroyed, RowErrors

\* A varbind's checks and its effect depend on the scalar or row it addresses only.
LEMMA OnlyTouched ==
    ASSUME NEW vb \in VarBinds, Reservable(vb),
           \A s \in Scalars : TouchesScalar(vb, s) => scalars'[s] = scalars[s],
           \A r \in Rows : TouchesRow(vb, r) => rows'[r] = rows[r]
    PROVE  /\ PrepareSet(vb)' = PrepareSet(vb)
           /\ Honoured(vb) => Honoured(vb)'
<1>1. CASE vb.kind = "instance"
  <2>1. vb.id \in Scalars
    BY <1>1 DEF Reservable
  <2>2. scalars'[vb.id] = scalars[vb.id]
    BY <1>1, <2>1 DEF TouchesScalar
  <2>3. PrepareInstance(vb)' = PrepareInstance(vb)
    BY <2>2 DEF PrepareInstance, TypesCompatible
  <2>. QED  BY <1>1, <2>2, <2>3 DEF PrepareSet, Honoured
<1>2. CASE vb.kind \in {"status", "cell"}
  <2>1. vb.row \in Rows
    BY <1>2, VarBindFields
  <2>2. rows'[vb.row] = rows[vb.row]
    BY <1>2, <2>1 DEF TouchesRow
  <2>3. PrepareStatus(vb)' = PrepareStatus(vb)
    BY <2>2 DEF PrepareStatus, NextStatus, RequiredSatisfied, RowExists
  <2>4. PrepareCell(vb)' = PrepareCell(vb)
    BY <2>2 DEF PrepareCell, TypesCompatible
  <2>5. PrepareSet(vb)' = PrepareSet(vb)
    BY <1>2, <2>3, <2>4 DEF PrepareSet
  <2>6. Honoured(vb) => Honoured(vb)'
    BY <1>2, <2>2 DEF Honoured
  <2>. QED  BY <2>5, <2>6
<1>3. CASE vb.kind \in {"proxied", "readOnly"}
  BY <1>3 DEF PrepareSet, Honoured
<1>. QED  BY <1>1, <1>2, <1>3, VarBindFields DEF Reservable

\* commit_set succeeds where prepare_set, asked now, would accept.
LEMMA AcceptedCommits ==
    ASSUME TypeOK, NEW vb \in VarBinds, PrepareSet(vb) = "noError",
           vb.kind \notin {"proxied", "readOnly"}
    PROVE  CommitOutcomes(vb) = {"noError"} /\ vb.kind \in {"instance", "status", "cell"}
<1>1. vb.kind \in {"instance", "status", "cell"}
  BY VarBindFields DEF PrepareSet
<1>2. CASE vb.kind = "status"
  <2>1. PrepareStatus(vb) = "noError"
    BY <1>2 DEF PrepareSet
  <2>2. NextStatus(rows[vb.row], vb.val) \notin RowErrors
    BY <2>1 DEF PrepareStatus, RowErrors
  <2>. QED  BY <1>2, <2>2 DEF CommitOutcomes
<1>. QED  BY <1>1, <1>2 DEF CommitOutcomes

\* A successful commit_set is honoured and changes what its varbind addresses only.
LEMMA CommitHonours ==
    ASSUME IInv, NEW vb \in VarBinds, Reservable(vb), vb.kind \in {"instance", "status", "cell"},
           "noError" \in CommitOutcomes(vb), CommitEffect(vb)
    PROVE  /\ Honoured(vb)'
           /\ \A s \in Scalars : ~TouchesScalar(vb, s) => scalars'[s] = scalars[s]
           /\ \A r \in Rows : ~TouchesRow(vb, r) => rows'[r] = rows[r]
<1>0. scalars \in [Scalars -> Values] /\ rows \in [Rows -> RowStates]
  BY DEF IInv, TypeOK
<1>1. CASE vb.kind = "instance"
  <2>1. scalars' = [scalars EXCEPT ![vb.id] = vb.val] /\ rows' = rows /\ vb.id \in Scalars
    BY <1>1 DEF CommitEffect, Reservable
  <2>. QED  BY <1>0, <1>1, <2>1 DEF Honoured, TouchesScalar
<1>2. CASE vb.kind \in {"status", "cell"}
  <2>. DEFINE new == RowAfter(rows[vb.row], vb)
  <2>1. /\ rows' = [rows EXCEPT ![vb.row] = new] /\ scalars' = scalars
        /\ vb.row \in Rows /\ rows[vb.row] \in RowStates
    BY <1>0, <1>2, VarBindFields DEF CommitEffect
  <2>. HIDE DEF new
  <2>2. rows'[vb.row] = new /\ \A r \in Rows : r # vb.row => rows'[r] = rows[r]
    BY <1>0, <2>1
  <2>3. CASE vb.kind = "cell"
    <3>1. vb.col \in Columns /\ vb.val \in Values
      BY <2>3, VarBindFields
    <3>2. new = WriteCell(rows[vb.row], vb.col, vb.val)
      BY <2>3 DEF new, RowAfter
    <3>3. new.cells[vb.col] = vb.val
      BY <2>1, <3>1, <3>2, WriteCellResult
    <3>. QED  BY <2>1, <2>2, <2>3, <3>3 DEF Honoured, TouchesRow
  <2>4. CASE vb.kind = "status"
    <3>. DEFINE next == NextStatus(rows[vb.row], vb.val)
    <3>1. vb.val \in Verbs /\ next \notin RowErrors
      BY <2>4 DEF Reservable, CommitOutcomes, RowErrors
    <3>2. rows[vb.row].status \in Stored \cup {NoStatus} /\ RequiredSatisfied(rows[vb.row]) \in BOOLEAN
      BY <2>1 DEF RowStates, RequiredSatisfied
    <3>3. /\ vb.val = "destroy" <=> next = Destroyed
          /\ vb.val = "createAndGo" => next = "active"
          /\ vb.val = "createAndWait" => next \in {"notInService", "notReady"}
          /\ vb.val \in Stored => next = vb.val
      BY <3>1, <3>2, TransitionHonours DEF NextStatus
    <3>4. new = IF next = Destroyed THEN EmptyRow ELSE [rows[vb.row] EXCEPT !.status = next]
      BY <2>4 DEF new, RowAfter, ApplyRowStatus
    <3>. HIDE DEF next
    <3>5. CASE vb.val = "destroy"
      BY <2>1, <2>2, <2>4, <3>3, <3>4, <3>5 DEF Honoured, TouchesRow
    <3>6. CASE vb.val # "destroy"
      <4>1. new.status = next
        BY <2>1, <3>3, <3>4, <3>6 DEF RowStates
      <4>2. vb.val \in Stored \cup {"createAndGo", "createAndWait"}
        BY <3>1, <3>6 DEF Verbs
      <4>3. Honoured(vb)'
        BY <2>2, <2>4, <3>3, <3>6, <4>1, <4>2 DEF Honoured, Stored
      <4>. QED  BY <2>1, <2>2, <2>4, <4>3 DEF TouchesRow
    <3>. QED  BY <3>5, <3>6
  <2>. QED  BY <1>2, <2>3, <2>4
<1>. QED  BY <1>1, <1>2

\* Nobody runs alone beside a worker that is inside a request, so a step of worker w
\* that leaves the other workers and the snapshots alone need only keep w orderly.
LEMMA AloneStep ==
    ASSUME AloneInv, NEW w \in Workers, Busy(w), UNCHANGED <<before, pdu>>,
           \A v \in Workers \ {w} : phase'[v] = phase[v],
           before[w] # NoSnapshot /\ SelfContained(pdu[w]) => Orderly(w)'
    PROVE  AloneInv'
<1>. SUFFICES ASSUME NEW u \in Workers, before'[u] # NoSnapshot
              PROVE  /\ \A v \in Workers \ {u} : ~Busy(v)'
                     /\ SelfContained(pdu'[u]) => Orderly(u)'
  BY DEF AloneInv, SelfContained, TouchesScalar, TouchesRow
<1>1. u = w
  BY DEF AloneInv
<1>2. \A v \in Workers \ {w} : ~Busy(v)'
  BY <1>1 DEF AloneInv, Busy
<1>. QED  BY <1>1, <1>2

\* The initial states, where no request has come in.
LEMMA InitAlone == Init => AloneInv
BY DEF Init, AloneInv

\* A request that comes in takes its snapshot only when nobody is busy, and ends
\* every other worker's.
LEMMA ReceiveAlone ==
    ASSUME IInv, AloneInv, NEW w \in Workers, NEW p \in Requests, Receive(w, p)
    PROVE  AloneInv'
<1>. SUFFICES ASSUME NEW u \in Workers, before'[u] # NoSnapshot
              PROVE  /\ \A v \in Workers \ {u} : ~Busy(v)'
                     /\ Orderly(u)'
  BY DEF AloneInv
<1>1. /\ u = w /\ \A v \in Workers : ~Busy(v)
      /\ before'[w] = [scalars |-> scalars, rows |-> rows]
  BY DEF Receive
<1>2. /\ scalars' = scalars /\ rows' = rows
      /\ pdu'[w] = p /\ idx'[w] = 1 /\ committed'[w] = {} /\ failure'[w] = NoError
  BY DEF Receive, mib, IInv, TypeOK
<1>3. /\ \A v \in Workers \ {w} : phase'[v] = phase[v]
      /\ \/ phase'[w] = "reserve1" /\ resp'[w] = NoError
         \/ phase'[w] = "done" /\ resp'[w] # NoError
  <2>1. phase \in [Workers -> Phases] /\ resp \in [Workers -> Answers]
    BY DEF IInv, TypeOK
  <2>. QED  BY <2>1 DEF Receive, NoError
<1>4. \A v \in Workers \ {w} : ~Busy(v)'
  BY <1>1, <1>3 DEF Busy
<1>5. Due(w)' = {} /\ Granted(w)' = {}
  BY <1>3 DEF Due, Granted
<1>6. CommittedSoFar(w)'
  BY <1>1, <1>2 DEF CommittedSoFar
<1>7. Orderly(w)'
  BY <1>2, <1>3, <1>5, <1>6 DEF Orderly, Busy
<1>. QED  BY <1>1, <1>4, <1>7

\* A reserve pass changes nothing; the varbind it accepts is granted.
LEMMA ReserveAlone ==
    ASSUME IInv, AloneInv, NEW w \in Workers,
           NEW this \in {"reserve1", "reserve2"}, NEW next \in {"reserve2", "commit"},
           this = "reserve1" <=> next = "reserve2", Reserve(w, this, next)
    PROVE  AloneInv'
<1>. DEFINE vb == pdu[w][idx[w]]
<1>1. /\ phase[w] = this /\ Busy(w)
      /\ scalars' = scalars /\ rows' = rows /\ pdu' = pdu /\ committed' = committed
      /\ failure' = failure /\ before' = before
  BY DEF Reserve, Busy, mib
<1>2. /\ pdu[w] \in Requests /\ idx[w] \in DOMAIN pdu[w] /\ idx[w] \in Nat
      /\ DOMAIN pdu[w] = 1..Len(pdu[w]) /\ Len(pdu[w]) \in Nat \ {0}
      /\ phase \in [Workers -> Phases] /\ resp \in [Workers -> Answers]
      /\ idx \in [Workers -> Nat]
  BY <1>1, RequestVarBinds DEF IInv, TypeOK
<1>3. \/ /\ PrepareSet(vb) = "noError" /\ resp' = resp
         /\ \/ phase'[w] = next /\ idx'[w] = 1 /\ idx[w] = Len(pdu[w])
            \/ phase'[w] = this /\ idx'[w] = idx[w] + 1
      \/ /\ phase'[w] = "done" /\ resp'[w] # NoError
  BY <1>1, <1>2 DEF Reserve, Advance, NoError
<1>4. \A v \in Workers \ {w} : phase'[v] = phase[v]
  BY <1>1, <1>2 DEF Reserve, Advance
<1>5. ASSUME Orderly(w) PROVE Orderly(w)'
  <2>1. committed[w] = {} /\ resp[w] = NoError /\ failure[w] = NoError
    BY <1>1, <1>5 DEF Orderly, Due
  <2>2. CommittedSoFar(w)'
    BY <1>1, <2>1, <1>5 DEF Orderly, CommittedSoFar
  <2>3. Due(w)' = {}
    BY <1>1, <1>2, <1>3 DEF Due
  <2>4. \A i \in Granted(w)' : PrepareSet(pdu[w][i]) = "noError"
    BY <1>1, <1>2, <1>3, <1>5 DEF Orderly, Granted
  <2>5. ASSUME NEW i \in Granted(w)' PROVE PrepareSet(pdu[w][i])' = "noError"
    <3>1. PICK b : b = pdu[w][i]
      OBVIOUS
    <3>2. PrepareSet(b)' = PrepareSet(b)
      BY <1>1 DEF PrepareSet, PrepareInstance, PrepareStatus, PrepareCell, TypesCompatible,
                  NextStatus, RequiredSatisfied, RowExists
    <3>. QED  BY <1>1, <2>4, <2>5, <3>1, <3>2
  <2>6. /\ Busy(w)' => resp'[w] = NoError /\ failure'[w] = NoError
        /\ phase'[w] # "undo"
    BY <1>1, <1>3, <2>1 DEF Busy
  <2>. QED  BY <1>1, <2>1, <2>2, <2>3, <2>5, <2>6 DEF Orderly
<1>. QED  BY <1>1, <1>4, <1>5, AloneStep DEF AloneInv

\* The commit pass of a self-contained request that runs alone does not fail: each
\* commit honours its varbind and leaves the others' scalars and rows alone.
LEMMA CommitAlone ==
    ASSUME IInv, AloneInv, NEW w \in Workers, Commit(w)
    PROVE  AloneInv'
<1>1. /\ phase[w] = "commit" /\ Busy(w)
      /\ pdu' = pdu /\ resp' = resp /\ before' = before
  BY DEF Commit, Busy
<1>2. /\ pdu[w] \in Requests /\ idx[w] \in DOMAIN pdu[w] /\ idx[w] \in Nat
      /\ DOMAIN pdu[w] = 1..Len(pdu[w]) /\ Len(pdu[w]) \in Nat \ {0}
      /\ \A i \in DOMAIN pdu[w] : pdu[w][i] \in VarBinds /\ Reservable(pdu[w][i])
      /\ phase \in [Workers -> Phases] /\ committed \in [Workers -> SUBSET Nat]
      /\ idx \in [Workers -> Nat]
  BY <1>1, RequestVarBinds DEF IInv, TypeOK, ReservedOK, Passed
<1>3. Advance(w, IF failure'[w] = NoError THEN "done" ELSE "undo")
  BY DEF Commit
<1>4. \A v \in Workers \ {w} : phase'[v] = phase[v]
  BY <1>2, <1>3 DEF Advance
<1>5. ASSUME SelfContained(pdu[w]), Orderly(w) PROVE Orderly(w)'
  <2>1. /\ committed[w] = {i \in DOMAIN pdu[w] : i < idx[w]}
        /\ resp[w] = NoError /\ failure[w] = NoError
        /\ CommittedSoFar(w)
        /\ \A i \in DOMAIN pdu[w] : i >= idx[w] => PrepareSet(pdu[w][i]) = "noError"
    BY <1>1, <1>5 DEF Orderly, Due, Granted
  <2>2. PICK vb : vb = pdu[w][idx[w]]
    OBVIOUS
  <2>3. /\ vb \in VarBinds /\ Reservable(vb) /\ PrepareSet(vb) = "noError"
        /\ vb.kind \notin {"proxied", "readOnly"}
    BY <1>2, <1>5, <2>1, <2>2 DEF SelfContained
  <2>4. CommitOutcomes(vb) = {"noError"} /\ vb.kind \in {"instance", "status", "cell"}
    BY <2>3, AcceptedCommits DEF IInv
  <2>5. /\ CommitEffect(vb) /\ failure' = failure
        /\ committed' = [committed EXCEPT ![w] = committed[w] \cup {idx[w]}]
    BY <2>2, <2>4 DEF Commit
  <2>6. /\ Honoured(vb)'
        /\ \A s \in Scalars : ~TouchesScalar(vb, s) => scalars'[s] = scalars[s]
        /\ \A r \in Rows : ~TouchesRow(vb, r) => rows'[r] = rows[r]
    BY <2>3, <2>4, <2>5, CommitHonours
  <2>7. ASSUME NEW i \in DOMAIN pdu[w], i # idx[w]
        PROVE  /\ PrepareSet(pdu[w][i])' = PrepareSet(pdu[w][i])
               /\ Honoured(pdu[w][i]) => Honoured(pdu[w][i])'
    <3>1. PICK b : b = pdu[w][i]
      OBVIOUS
    <3>2. b \in VarBinds /\ Reservable(b)
      BY <1>2, <3>1
    <3>3. /\ \A s \in Scalars : TouchesScalar(b, s) => ~TouchesScalar(vb, s)
          /\ \A r \in Rows : TouchesRow(b, r) => ~TouchesRow(vb, r)
      BY <1>2, <1>5, <2>2, <2>7, <3>1 DEF SelfContained
    <3>4. PrepareSet(b)' = PrepareSet(b) /\ (Honoured(b) => Honoured(b)')
      BY <2>6, <3>2, <3>3, OnlyTouched
    <3>5. pdu'[w][i] = b
      BY <1>1, <3>1
    <3>. QED  BY <3>1, <3>4, <3>5
  <2>8. committed'[w] = {i \in DOMAIN pdu[w] : i <= idx[w]}
    BY <1>2, <2>1, <2>5
  <2>9. CommittedSoFar(w)'
    <3>1. ASSUME NEW i \in committed'[w] PROVE Honoured(pdu[w][i])'
      <4>1. CASE i = idx[w]
        <5>1. pdu'[w][i] = vb
          BY <1>1, <2>2, <4>1
        <5>. QED  BY <2>6, <5>1
      <4>2. CASE i # idx[w]
        <5>1. i \in DOMAIN pdu[w] /\ i \in committed[w]
          BY <1>2, <2>1, <2>8, <3>1, <4>2
        <5>. QED  BY <2>1, <2>7, <4>2, <5>1 DEF CommittedSoFar
      <4>. QED  BY <4>1, <4>2
    <3>2. idx[w] \in committed'[w] /\ committed[w] \subseteq committed'[w]
      BY <1>2, <2>1, <2>8
    <3>3. ASSUME NEW s \in Scalars, \A i \in committed'[w] : ~TouchesScalar(pdu[w][i], s)
          PROVE  scalars'[s] = before[w].scalars[s]
      <4>1. scalars'[s] = scalars[s]
        BY <2>2, <2>6, <3>2, <3>3
      <4>2. scalars[s] = before[w].scalars[s]
        BY <2>1, <3>2, <3>3 DEF CommittedSoFar
      <4>. QED  BY <4>1, <4>2
    <3>4. ASSUME NEW r \in Rows, \A i \in committed'[w] : ~TouchesRow(pdu[w][i], r)
          PROVE  rows'[r] = before[w].rows[r]
      <4>1. rows'[r] = rows[r]
        BY <2>2, <2>6, <3>2, <3>4
      <4>2. rows[r] = before[w].rows[r]
        BY <2>1, <3>2, <3>4 DEF CommittedSoFar
      <4>. QED  BY <4>1, <4>2
    <3>. QED  BY <1>1, <3>1, <3>3, <3>4 DEF CommittedSoFar, TouchesScalar, TouchesRow
  <2>10. \/ phase'[w] = "done" /\ idx[w] = Len(pdu[w])
         \/ phase'[w] = "commit" /\ idx'[w] = idx[w] + 1
    BY <1>1, <1>2, <1>3, <2>1, <2>5 DEF Advance
  <2>11. committed'[w] = Due(w)'
    BY <1>1, <1>2, <2>1, <2>8, <2>10 DEF Due
  <2>12. \A i \in Granted(w)' : PrepareSet(pdu[w][i])' = "noError"
    <3>1. ASSUME NEW i \in Granted(w)' PROVE i \in DOMAIN pdu[w] /\ i > idx[w]
      BY <1>1, <1>2, <2>10, <3>1 DEF Granted
    <3>. QED  BY <1>2, <2>1, <2>7, <3>1
  <2>. QED  BY <1>1, <2>1, <2>5, <2>9, <2>10, <2>11, <2>12 DEF Orderly, Busy
<1>. QED  BY <1>1, <1>4, <1>5, AloneStep DEF AloneInv

\* A request that runs alone is not undone.
LEMMA UndoAlone ==
    ASSUME IInv, AloneInv, NEW w \in Workers, Undo(w)
    PROVE  AloneInv'
<1>1. /\ phase[w] = "undo" /\ Busy(w) /\ pdu' = pdu /\ before' = before
      /\ phase' = [phase EXCEPT ![w] = "done"] /\ phase \in [Workers -> Phases]
  BY DEF Undo, Busy, IInv, TypeOK
<1>2. ~(before[w] # NoSnapshot /\ SelfContained(pdu[w]))
  BY <1>1 DEF AloneInv, Orderly
<1>. QED  BY <1>1, <1>2, AloneStep

\* put and remove_row end every snapshot.
LEMMA LocalAlone ==
    ASSUME NEW r \in Rows, RemoveRow(r) \/ \E cv \in LocalPuts : Put(r, cv[1], cv[2])
    PROVE  AloneInv'
BY DEF RemoveRow, Put, AloneInv

\* A stuttering step.
LEMMA StutterAlone ==
    ASSUME AloneInv, UNCHANGED vars
    PROVE  AloneInv'
<1>1. /\ scalars' = scalars /\ rows' = rows /\ phase' = phase /\ pdu' = pdu /\ idx' = idx
      /\ committed' = committed /\ failure' = failure /\ resp' = resp /\ before' = before
  BY DEF vars
<1>2. ASSUME NEW b PROVE PrepareSet(b)' = PrepareSet(b) /\ (Honoured(b) => Honoured(b)')
  <2>1. PrepareSet(b)' = PrepareSet(b)
    BY <1>1 DEF PrepareSet, PrepareInstance, PrepareStatus, PrepareCell, TypesCompatible,
                NextStatus, RequiredSatisfied, RowExists
  <2>2. Honoured(b) => Honoured(b)'
    BY <1>1 DEF Honoured
  <2>. QED  BY <2>1, <2>2
<1>3. ASSUME NEW w \in Workers, Orderly(w) PROVE Orderly(w)'
  <2>1. Due(w)' = Due(w) /\ Granted(w)' = Granted(w) /\ Busy(w)' = Busy(w)
    BY <1>1 DEF Due, Granted, Busy
  <2>2. ASSUME NEW i
        PROVE  /\ PrepareSet(pdu[w][i])' = PrepareSet(pdu[w][i])
               /\ Honoured(pdu[w][i]) => Honoured(pdu[w][i])'
    <3>1. PICK b : b = pdu[w][i]
      OBVIOUS
    <3>2. pdu'[w][i] = b
      BY <1>1, <3>1
    <3>. QED  BY <1>2, <3>1, <3>2
  <2>3. CommittedSoFar(w)'
    BY <1>1, <1>3, <2>2 DEF Orderly, CommittedSoFar, TouchesScalar, TouchesRow
  <2>. QED  BY <1>1, <1>3, <2>1, <2>2, <2>3 DEF Orderly
<1>4. ASSUME NEW w \in Workers PROVE SelfContained(pdu[w])' => SelfContained(pdu[w])
  BY <1>1 DEF SelfContained, TouchesScalar, TouchesRow
<1>. QED  BY <1>1, <1>3, <1>4 DEF AloneInv, Busy

\* Every step keeps it.
LEMMA NextAlone == IInv /\ AloneInv /\ [Next]_vars => AloneInv'
<1>. SUFFICES ASSUME IInv, AloneInv, [Next]_vars PROVE AloneInv'
  OBVIOUS
<1>1. ASSUME NEW w \in Workers, Serve(w) PROVE AloneInv'
  <2>1. CASE Reserve1(w)
    BY <2>1, ReserveAlone DEF Reserve1
  <2>2. CASE Reserve2(w)
    BY <2>2, ReserveAlone DEF Reserve2
  <2>. QED  BY <1>1, <2>1, <2>2, CommitAlone, UndoAlone DEF Serve
<1>. QED  BY <1>1, ReceiveAlone, LocalAlone, StutterAlone DEF Next

\* What the invariant says of an answered request.
LEMMA AloneIsAtomic == IInv /\ AloneInv => AtomicWhenAlone
<1>. SUFFICES ASSUME IInv, AloneInv, NEW w \in Workers, RanAlone(w), SelfContained(pdu[w])
              PROVE  IF resp[w] = NoError
                     THEN /\ \A i \in DOMAIN pdu[w] : Honoured(pdu[w][i])
                          /\ \A s \in Scalars :
                               (\A i \in DOMAIN pdu[w] : ~TouchesScalar(pdu[w][i], s))
                               => scalars[s] = before[w].scalars[s]
                          /\ \A r \in Rows :
                               (\A i \in DOMAIN pdu[w] : ~TouchesRow(pdu[w][i], r))
                               => rows[r] = before[w].rows[r]
                     ELSE Unaltered(w)
  BY DEF AtomicWhenAlone
<1>1. phase[w] = "done" /\ before[w] # NoSnapshot /\ committed[w] = Due(w) /\ CommittedSoFar(w)
  BY DEF RanAlone, AloneInv, Orderly
<1>2. CASE resp[w] = NoError
  <2>1. committed[w] = DOMAIN pdu[w]
    BY <1>1, <1>2 DEF Due
  <2>. QED  BY <1>1, <1>2, <2>1 DEF CommittedSoFar
<1>3. CASE resp[w] # NoError
  <2>1. committed[w] = {}
    BY <1>1, <1>3 DEF Due
  <2>2. /\ \A s \in Scalars : scalars[s] = before[w].scalars[s]
        /\ \A r \in Rows : rows[r] = before[w].rows[r]
    BY <1>1, <2>1 DEF CommittedSoFar
  <2>3. /\ scalars \in [Scalars -> Values] /\ rows \in [Rows -> RowStates]
        /\ before[w].scalars \in [Scalars -> Values] /\ before[w].rows \in [Rows -> RowStates]
    <3>1. before[w] \in Snapshots
      BY <1>1 DEF IInv, TypeOK
    <3>. QED  BY <3>1 DEF IInv, TypeOK, Snapshots
  <2>. QED  BY <1>3, <2>2, <2>3 DEF Unaltered
<1>. QED  BY <1>2, <1>3

\* registry.rs process_set: for any serve loops and requests, a SET that meets no
\* concurrent change, whose varbinds address different scalars and rows and whose
\* handlers validate in prepare_set, takes effect as a whole or not at all.
THEOREM AloneStaysAtomic == Spec => []AtomicWhenAlone
<1>1. Init => AloneInv
  BY InitAlone
<1>2. IInv /\ AloneInv /\ [Next]_vars => AloneInv'
  BY NextAlone
<1>3. IInv /\ AloneInv => AtomicWhenAlone
  BY AloneIsAtomic
<1>. QED  BY <1>1, <1>2, <1>3, Invariance, PTL DEF Spec
=============================================================================
