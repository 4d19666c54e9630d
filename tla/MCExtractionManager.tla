------------------------ MODULE MCExtractionManager ------------------------
(* Small instances of ExtractionManager for TLC. *)
EXTENDS ExtractionManager, TLC

Symmetry == Permutations(Jobs)
=============================================================================
