----------------------------- MODULE MCIngress -----------------------------
EXTENDS Ingress

CONSTANTS mention, echo, ann, bot

MCAuthorOf == [x \in Post |-> IF x = echo THEN bot ELSE ann]
=============================================================================
