----------------------------- MODULE MCSessions -----------------------------
(* Small instances of Sessions for TLC. *)
EXTENDS Sessions, TLC

\* Requests, user ids, emails and jtis are interchangeable.
Interchangeable ==
    Permutations(Requests) \union Permutations(Ids) \union Permutations(Emails)
        \union Permutations(Jtis)
=============================================================================
