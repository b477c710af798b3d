----------------------------- MODULE MCAffinity -----------------------------
(* Two posts, or three, and one thread with a reply and a reaction.        *)
EXTENDS Affinity

CONSTANTS p1, p2, p3, r1, x1

MCRootOf == [e \in Reply \cup Reaction |-> p2]
=============================================================================
