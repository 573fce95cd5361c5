------------------------------ MODULE Decoding ------------------------------
(***************************************************************************)
(* What the decoders of both wire formats share: a decoder takes octets and *)
(* returns a value with the octets behind it, or an error.                  *)
(***************************************************************************)
EXTENDS Integers, Sequences

Err == [ok |-> FALSE]
Ok(v, rest) == [ok |-> TRUE, v |-> v, rest |-> rest]
Then(r, F(_, _)) == IF r.ok THEN F(r.v, r.rest) ELSE Err

Take(n, bytes) ==
    IF Len(bytes) < n THEN Err
    ELSE Ok(SubSeq(bytes, 1, n), SubSeq(bytes, n + 1, Len(bytes)))
============================================================================
