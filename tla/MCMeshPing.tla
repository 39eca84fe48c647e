---------------------------- MODULE MCMeshPing ----------------------------
(* Small instances of MeshPing. *)
EXTENDS MeshPing, TLC

\* Devices and addresses are interchangeable: nothing compares or orders them.
Symmetry == Permutations(Nodes) \cup Permutations(Addresses)
===========================================================================
