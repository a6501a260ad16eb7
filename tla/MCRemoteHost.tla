---------------------------- MODULE MCRemoteHost ----------------------------
(* RemoteHost for TLC.  Sources, ids, keys and bodies are interchangeable      *)
(* model values; the ledger's ids are never compared with anything else.       *)
EXTENDS RemoteHost, TLC

Symmetry ==
    Permutations(Sources) \cup Permutations(OpIds)
        \cup Permutations(Keys) \cup Permutations(Bodies)
=============================================================================
