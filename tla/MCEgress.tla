----------------------------- MODULE MCEgress -----------------------------
EXTENDS Egress, TLC

CONSTANTS a, b, c, x, y

Places == Permutations(Dest)
=============================================================================
