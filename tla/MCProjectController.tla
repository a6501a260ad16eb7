------------------------ MODULE MCProjectController ------------------------
(* Names are interchangeable, each as an id and as a target, and so are      *)
(* calls and the values of a profile.                                        *)
EXTENDS ProjectController, TLC

Symmetry == Permutations(Calls) \cup Permutations(Hosts \cup Targets) \cup Permutations(Roots)
=============================================================================
