---------------------------- MODULE MCInvitations ----------------------------
(***************************************************************************)
(* Small instances of Invitations for TLC.                                  *)
(***************************************************************************)
EXTENDS Invitations, TLC

\* Invitation rows are interchangeable.
Symmetry == Permutations(Invitation)

=============================================================================
