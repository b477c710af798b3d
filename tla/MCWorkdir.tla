----------------------------- MODULE MCWorkdir -----------------------------
EXTENDS Workdir, TLC

CONSTANTS a, b

Symmetry == Permutations(Process)
=============================================================================
