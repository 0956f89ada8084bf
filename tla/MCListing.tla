----------------------------- MODULE MCListing -----------------------------
(* Small instances of Listing for TLC. *)
EXTENDS Listing, TLC

\* Below zero, zero, the honoured limits, one above, and one that is no int32.
Parameters == {Junk, -1, 0, 1, 2, 3, 9}

FewTimes == 1 .. 4
Interchangeable == Permutations(Ids)
=============================================================================
