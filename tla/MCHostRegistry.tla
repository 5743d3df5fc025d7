---------------------------- MODULE MCHostRegistry ----------------------------
(* Small instances of HostRegistry for TLC.  *)
EXTENDS HostRegistry, TLC

\* Hosts, settings and inodes are interchangeable: sound for invariants.
Symmetric == Permutations(Hosts) \cup Permutations(Values) \cup Permutations(Inodes)
=============================================================================
