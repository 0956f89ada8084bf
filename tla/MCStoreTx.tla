----------------------------- MODULE MCStoreTx -----------------------------
(* Small instances of StoreTx for TLC. *)
EXTENDS StoreTx, TLC

\* Calls and writes are interchangeable.
Interchangeable == Permutations(Calls) \union Permutations(Writes)
=============================================================================
