---------------------------- MODULE MCStateLock ----------------------------
(* Processes are interchangeable. *)
EXTENDS StateLock, TLC

Symmetry == Permutations(Procs)
=============================================================================
