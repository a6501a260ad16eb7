---------------------------- MODULE MCHostSetup ----------------------------
(* Releases are interchangeable until the first setup installs one: it is v1. *)
EXTENDS HostSetup

CONSTANTS v1, v2

AnyAfterFirst == [s \in 1..MaxSetups |-> IF s = 1 THEN {v1} ELSE {v1, v2}]
=============================================================================
