----------------------------- MODULE MCHostFiles ----------------------------
(* HostFiles on small instances; no definition tells processes, extensions *)
(* or brokers apart.                                                       *)
EXTENDS HostFiles, TLC

Symmetry ==
    Permutations(Processes) \cup Permutations(Extensions) \cup Permutations(Brokers)
=============================================================================
