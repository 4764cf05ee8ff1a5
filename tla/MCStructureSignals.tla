------------------------- MODULE MCStructureSignals -------------------------
(***************************************************************************)
(* Small instances of StructureSignals for TLC.                             *)
(***************************************************************************)
EXTENDS StructureSignals, TLC

\* Projects are interchangeable; customers are not (shared services are
\* named after them).
Symmetry == Permutations(Project)

=============================================================================
