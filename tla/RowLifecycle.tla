---------------------------- MODULE RowLifecycle ----------------------------
(***************************************************************************)
(* What a RowStatus-driven table promises of each conceptual row, whatever *)
(* requests are in flight: a row comes into being at most once between two *)
(* destructions, becomes active or ready for service only when its         *)
(* required columns are filled, loses them only by being destroyed, and    *)
(* moves between its statuses only along the edges of RFC 2579 that row.rs *)
(* grants.                                                                 *)
(***************************************************************************)
EXTENDS RowStatus

CONSTANT Rows

VARIABLES
    status,    \* the stored RowStatus of each row, or NoStatus
    complete   \* whether each row holds its required columns

TypeOK ==
    /\ status \in [Rows -> Stored \cup {NoStatus}]
    /\ complete \in [Rows -> BOOLEAN]

Init ==
    /\ status = [r \in Rows |-> NoStatus]
    /\ complete = [r \in Rows |-> FALSE]

Moves(r, new) == status' = [status EXCEPT ![r] = new]

\* The row keeps what it has and may gain its last required column.
MayFill(r) ==
    \E full \in {complete[r], TRUE} : complete' = [complete EXCEPT ![r] = full]

Create(r, new) ==
    /\ status[r] = NoStatus
    /\ new = "notReady" \/ complete[r]
    /\ Moves(r, new)
    /\ MayFill(r)

Enable(r) ==
    /\ status[r] # NoStatus /\ complete[r]
    /\ Moves(r, "active")
    /\ UNCHANGED complete

Disable(r) ==
    /\ status[r] = "active"
    /\ Moves(r, "notInService")
    /\ UNCHANGED complete

Unready(r) ==
    /\ status[r] = "notInService"
    /\ Moves(r, "notReady")
    /\ UNCHANGED complete

Destroy(r) ==
    /\ Moves(r, NoStatus)
    /\ complete' = [complete EXCEPT ![r] = FALSE]

Fill(r) ==
    /\ complete' = [complete EXCEPT ![r] = TRUE]
    /\ UNCHANGED status

Next ==
    \E r \in Rows :
        \/ \E new \in Stored : Create(r, new)
        \/ Enable(r) \/ Disable(r) \/ Unready(r) \/ Destroy(r) \/ Fill(r)

Spec == Init /\ [][Next]_<<status, complete>>
=============================================================================
