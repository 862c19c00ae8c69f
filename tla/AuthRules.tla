------------------------------ MODULE AuthRules ------------------------------
(***************************************************************************)
(* What every authenticator of cxAuth shares (IAuth and its validation     *)
(* base class): how a password is kept and compared, and in which order    *)
(* the conditions of a login are tested. AuthSqlite and AuthFiles use them.*)
(*                                                                         *)
(* A hash function is one-to-one: a digest is the tuple of what it was     *)
(* computed from.                                                          *)
(***************************************************************************)
EXTENDS Integers, Sequences, FiniteSets

PassModes == {"NOTFOUND", "PLAIN", "SHA256", "SHA512", "SSHA256", "SSHA512", "GAUTHTIME"}

Salted == {"SSHA256", "SSHA512"}

AuthReasons == {"AUTHENTICATED", "INTERNAL_ERROR", "NOT_IMPLEMENTED", "EXPIRED_PASSWORD",
                "EXPIRED_ACCOUNT", "DISABLED_ACCOUNT", "UNCONFIRMED_ACCOUNT", "BAD_ACCOUNT",
                "BAD_PASSWORD", "EXPIRED", "UNAUTHENTICATED"}

\* calcSHA256, calcSHA512, calcSSHA256, calcSSHA512
Digest(mode, password, salt) ==
    CASE mode \in {"PLAIN", "GAUTHTIME"} -> <<password>>
      [] mode \in {"SHA256", "SHA512"}   -> <<mode, password>>
      [] mode \in Salted                 -> <<mode, password, salt>>
      [] OTHER                           -> <<>>

\* genPassword: the salt is random, the caller of this operator chooses it
genPassword(password, mode, forceExpiration, expiration, salt) ==
    [mode |-> mode, hash |-> Digest(mode, password, salt), salt |-> salt,
     expiration |-> expiration, force |-> forceExpiration]

MutIsPasswordExpired(p, now) == p.expiration < now

isPasswordExpired(p, now) == p.expiration < now \/ p.force

\* validatePassword: an expired password is refused before it is compared
validatePassword(p, password, authMode, now) ==
    IF isPasswordExpired(p, now) THEN "EXPIRED_PASSWORD"
    ELSE CASE p.mode = "NOTFOUND"  -> "INTERNAL_ERROR"
           [] p.mode = "GAUTHTIME" -> "NOT_IMPLEMENTED"
           [] OTHER -> CASE authMode = "CRAM" /\ p.mode \in Salted    -> "INTERNAL_ERROR"
                         [] authMode = "CRAM" /\ p.mode \notin Salted -> "NOT_IMPLEMENTED"
                         [] authMode = "PLAIN" ->
                              IF p.hash = Digest(p.mode, password, p.salt)
                              THEN "AUTHENTICATED" ELSE "BAD_PASSWORD"

\* isAccountExpired: an expiration date of zero is none
isAccountExpired(expirationDate, now) == expirationDate # 0 /\ expirationDate < now
=============================================================================
