------------------------------- MODULE MCGate -------------------------------
(* A small instance of Gate for TLC. *)
EXTENDS Gate, TLC

\* Requests, user ids, emails and jtis are interchangeable.
Interchangeable ==
    Permutations(Requests) \union Permutations(Ids) \union Permutations(Emails)
        \union Permutations(Jtis)
=============================================================================
