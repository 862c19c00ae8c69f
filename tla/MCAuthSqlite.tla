---------------------------- MODULE MCAuthSqlite ----------------------------
(* An instance for TLC: names are sequences of letters, here of one letter each; one password  *)
(* is in use and one must be changed.                                                          *)
EXTENDS AuthSqlite, TLC

MCDomains == {<<"d">>}
MCAccountNames == {<<"a">>}
MCGroupNames == {<<"g">>}
MCAttribNames == {<<"x">>}
MCGiven == {genPassword("p", "SSHA256", FALSE, Never, 0), genPassword("q", "PLAIN", TRUE, Never, 0)}

Symmetry == Permutations(Threads)
=============================================================================
