----------------------------- MODULE RowStatus -----------------------------
(***************************************************************************)
(* The RowStatus textual convention as the agent implements it             *)
(* (crates/netsnmp-agent/src/row.rs).  A stored RowStatus is one of three  *)
(* statuses; a manager may additionally request the verbs createAndGo,     *)
(* createAndWait and destroy, which are never stored.                      *)
(***************************************************************************)

\* Option::None for the current status: the row holds no RowStatus cell.
NoStatus == "noStatus"

Stored == {"active", "notInService", "notReady"}

Verbs == Stored \cup {"createAndGo", "createAndWait", "destroy"}

CreateVerbs == {"createAndGo", "createAndWait"}

\* Ok(None) of `transition`: the row is to be destroyed.
Destroyed == "destroyed"

RowErrors == {"inconsistentName", "inconsistentValue"}

\* What a verb that needs an existing row answers when it cannot be honoured.
RefuseChange(current) ==
    IF current = NoStatus THEN "inconsistentName" ELSE "inconsistentValue"

CreateAndGo(current, satisfied) ==
    IF current # NoStatus THEN "inconsistentValue"
    ELSE IF satisfied THEN "active" ELSE "inconsistentName"

CreateAndWait(current, satisfied) ==
    IF current # NoStatus THEN "inconsistentValue"
    ELSE IF satisfied THEN "notInService" ELSE "notReady"

Activate(current, satisfied) ==
    IF current # NoStatus /\ satisfied THEN "active" ELSE RefuseChange(current)

TakeOutOfService(current) ==
    IF current \in {"active", "notInService"} THEN "notInService"
    ELSE RefuseChange(current)

\* Seeded fault: any existing row may be marked.
MarkAnyNotReady(current) ==
    IF current # NoStatus THEN "notReady" ELSE RefuseChange(current)

MarkNotReady(current) ==
    IF current \in {"notInService", "notReady"} THEN "notReady"
    ELSE RefuseChange(current)

\* `transition`: the status a requested verb leaves the row in, Destroyed, or
\* the error status the request is refused with.
Transition(current, requested, satisfied) ==
    CASE requested = "createAndGo"   -> CreateAndGo(current, satisfied)
      [] requested = "createAndWait" -> CreateAndWait(current, satisfied)
      [] requested = "destroy"       -> Destroyed
      [] requested = "active"        -> Activate(current, satisfied)
      [] requested = "notInService"  -> TakeOutOfService(current)
      [] requested = "notReady"      -> MarkNotReady(current)
=============================================================================
