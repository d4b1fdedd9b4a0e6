----------------------------- MODULE MCConsole -----------------------------
EXTENDS Console, TLC

ConsoleSymmetry == Permutations(Workers) \cup Permutations(Hosts) \cup Permutations(Contents)
=============================================================================
