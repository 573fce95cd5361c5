-------------------------------- MODULE Oid --------------------------------
(***************************************************************************)
(* Object identifiers (crates/netsnmp/src/oid.rs): sequences of arcs with   *)
(* the order that Vec<u32> derives, on which every GETNEXT rests.           *)
(***************************************************************************)
EXTENDS Naturals, Sequences, SequencesExt

Oids == Seq(Nat)

(* A proper prefix comes first; else the first differing arc decides.       *)
OidLess(a, b) ==
    \E i \in 1..Len(b) :
      /\ i <= Len(a) + 1
      /\ \A j \in 1..(i - 1) : a[j] = b[j]
      /\ i <= Len(a) => a[i] < b[i]

OidLeq(a, b) == a = b \/ OidLess(a, b)
=============================================================================
