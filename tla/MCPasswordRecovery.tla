------------------------- MODULE MCPasswordRecovery -------------------------
(* Small instances of PasswordRecovery for TLC. *)
EXTENDS PasswordRecovery, TLC

Symmetry == Permutations(Users) \cup Permutations(Requests) \cup Permutations(Sessions)
=============================================================================
