--------------------------- MODULE MCErrorsLifecycle ---------------------------
(* ErrorsLifecycle with the constants TLC needs. *)
EXTENDS ErrorsLifecycle, TLC

CONSTANTS i1, g1, c1, c2, unset, a, b

MCConfigs == {a, b}
MCClosers == {c1, c2}
MCSymmetry == Permutations(MCConfigs) \cup Permutations(MCClosers)
=============================================================================
