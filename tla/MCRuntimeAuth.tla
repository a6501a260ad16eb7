--------------------------- MODULE MCRuntimeAuth ---------------------------
(* Identifiers of each kind are interchangeable.                             *)
EXTENDS RuntimeAuth, TLC

Symmetry ==
    Permutations(Ops) \cup Permutations(Sources) \cup Permutations(Runtimes)
        \cup Permutations(Tickets) \cup Permutations(Sessions)
=============================================================================
