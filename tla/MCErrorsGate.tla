----------------------------- MODULE MCErrorsGate -----------------------------
(* ErrorsGate with the constants TLC needs: four fingerprints, interchangeable. *)
EXTENDS ErrorsGate, TLC

CONSTANTS k1, k2, k3, k4

MCKeys == {k1, k2, k3, k4}
MCSymmetry == Permutations(MCKeys)
=============================================================================
