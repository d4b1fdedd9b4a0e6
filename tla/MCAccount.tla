----------------------------- MODULE MCAccount -----------------------------
EXTENDS Account, TLC

ReleaseSymmetry == Permutations(Releases)
=============================================================================
