---------------------------- MODULE MCPermissions ----------------------------
(* Model-checking instance of Permissions: projects are interchangeable. *)
EXTENDS Permissions, TLC

Symmetry == Permutations(Project)

=============================================================================
