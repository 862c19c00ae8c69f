------------------------- MODULE MCThreadedAcceptor -------------------------
EXTENDS ThreadedAcceptor

CONSTANTS c1, a1, a2

\* The first client comes from an address of its own, the others from one.
MCRemotePair == [c \in Clients |-> IF c = c1 THEN a2 ELSE a1]
=============================================================================
