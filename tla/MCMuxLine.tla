----------------------------- MODULE MCMuxLine -----------------------------
EXTENDS MuxLine

CONSTANTS
    OneWay,     \* the bytes of L when R sends nothing
    BothWays    \* the bytes of each end when both send

MCInputs == {[e \in Ends |-> IF e = L THEN OneWay ELSE 0],
             [e \in Ends |-> BothWays]}
=============================================================================
