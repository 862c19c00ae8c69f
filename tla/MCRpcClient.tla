---------------------------- MODULE MCRpcClient ----------------------------
EXTENDS RpcClient

CONSTANTS s1, a1, l1, l2

MCTogether == {{s1, a1}, {l1, l2}, {a1, l1}}
=============================================================================
