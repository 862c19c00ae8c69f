----------------------------- MODULE MCAuthFiles -----------------------------
(* An instance for TLC: one name of each kind, one byte long. The account's name is encoded *)
(* as three bytes ("-"). Passwords do not expire. *)
EXTENDS AuthFiles

MCDomains == {<<68>>}
MCAccountNames == {<<45>>}
MCGroupNames == {<<71>>}
MCAttribNames == {<<88>>}
MCNever == 2 * UintLimit - 1
MCGiven == {genPassword("p", "SSHA256", FALSE, MCNever, 0)}
=============================================================================
