---------------------------- MODULE MCRemoteRefs ----------------------------
(* Instances of RemoteRefs for TLC.                                        *)
EXTENDS RemoteRefs, TLC

\* Holders, values and nodes are interchangeable.
Symmetry ==
  Permutations(Holders) \cup Permutations(Strongs)
    \cup Permutations(Weaks) \cup Permutations(Nodes)
=============================================================================
