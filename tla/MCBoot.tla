------------------------------- MODULE MCBoot -------------------------------
(* Small instances of Boot for TLC. *)
EXTENDS Boot

\* A developer's process migrates and may generate keys; production does neither.
DevAndProduction == {[dev |-> TRUE, auto |-> TRUE], [dev |-> FALSE, auto |-> FALSE]}

DevOnly == {[dev |-> TRUE, auto |-> FALSE]}
=============================================================================
