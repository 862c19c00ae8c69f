--------------------------- MODULE AuthFilesProofs ---------------------------
(***************************************************************************)
(* What IAuth_FS keeps of accounts and associations, for any names of      *)
(* seven-bit characters, any passwords and dates, and any crashes.         *)
(*                                                                         *)
(* Whatever function is in progress, the calls it has still to make say    *)
(* which files there will be when it is done (WillExist) and what they     *)
(* will hold (WillHold); no call changes that, it only makes it true. So   *)
(* the invariant speaks twice of the same files: as they will be, of what  *)
(* the function promises (doing), and as they are, of what it and the ones *)
(* before it promise (made and doing), which is what a crash leaves.       *)
(***************************************************************************)
EXTENDS AuthFiles, SequenceTheorems, TLAPS

\* Names that toURLEncoded tells apart and fromURLEncoded gives back: of two bytes above 127 it
\* may make the same three characters
PlainNames == Domains \cup AccountNames \cup GroupNames \cup AttribNames \subseteq Seq(0 .. 127)

\* attribRemove takes the domain for an account and the account for a domain
DomainsApart == Domains \cap (AccountNames \cup GroupNames) = {}

-----------------------------------------------------------------------------
IsASequence(s) == \E S : s \in Seq(S)
Parent(p) == [i \in 1 .. Len(p) - 1 |-> p[i]]
Rooted(p) == IsASequence(p) /\ Len(p) \in 1 .. 5 /\ \E d \in Domains : p[1] = Encoded(d)

Creating(s) == s.call \in {"mkdir", "touch", "open", "close"}
Removing(s) == s.call \in {"dissociate", "remove_all"}

\* What removals of associations are asked to end: associations, or with other names in their
\* places
Names == Domains \cup AccountNames \cup GroupNames \cup AttribNames
Ties == {"attrib-account", "attrib-group", "group-account"} \X Names \X Names \X Names

\* The calls still to be made create something or remove something, and say so about a path
IsMade(p) == \E k \in DOMAIN todo : Creating(todo[k]) /\ todo[k].path = p
Ended(s, p) == p \in s.second \/ \E as \in s.of : p = SideFile(as, 1) \/ p = SideFile(as, 2)
RemovedBy(s, p) ==
    \/ s.call = "dissociate" /\ Ended(s, p)
    \/ s.call = "remove_all" /\ IsPrefix(s.path, p)
IsRemoved(p) == \E k \in DOMAIN todo : RemovedBy(todo[k], p)

\* The file as it is and as it will be
Holds(p, v) == Exists(p) /\ fs[p] = Json(v)
WillExist(p) == (Exists(p) \/ IsMade(p)) /\ ~IsRemoved(p)
WillHold(p, v) ==
    /\ ~IsRemoved(p)
    /\ \/ \E k \in DOMAIN todo : todo[k].call \in {"open", "close"} /\ todo[k].path = p /\ todo[k].value = v
       \/ ~IsMade(p) /\ Holds(p, v)

-----------------------------------------------------------------------------
\* Every file is in a directory
Tree ==
    /\ \A p \in DOMAIN fs : /\ Rooted(p)
                            /\ fs[p] \in {Dir, Touched, Truncated} \/ \E v : fs[p] = Json(v)
    /\ \A p \in DOMAIN fs : Len(p) # 1 => Parent(p) \in DOMAIN fs

\* A function only creates or only removes, a path is created once, and its directory before it
CallShape(s) ==
    /\ s.call \in {"open", "close"} => s = [call |-> s.call, path |-> s.path, value |-> s.value]
    /\ s.call = "dissociate" => /\ s = [call |-> "dissociate", of |-> s.of, second |-> s.second]
                                /\ s.of \subseteq Ties
                                /\ \A p \in s.second : \E as \in Ties : s.second = {p} /\ p = SideFile(as, 2)
    /\ s.call # "dissociate" => Rooted(s.path)
CallShapes ==
    /\ IsASequence(todo)
    /\ (\A k \in DOMAIN todo : Creating(todo[k])) \/ (\A k \in DOMAIN todo : Removing(todo[k]))
    /\ \A k \in DOMAIN todo : CallShape(todo[k])
Order ==
    /\ \A k \in DOMAIN todo : Creating(todo[k]) /\ Len(todo[k].path) # 1 =>
         \/ Exists(Parent(todo[k].path))
         \/ \E j \in DOMAIN todo : j < k /\ todo[j].path = Parent(todo[k].path)
    /\ \A j, k \in DOMAIN todo : Creating(todo[j]) /\ Creating(todo[k]) /\ todo[j].path = todo[k].path => j = k

\* Associations: what will be there of those the function promises, and what is there of those
\* it does not change
WillBeLinked(as) ==
    /\ as \in doing.links => WillExist(SideFile(as, 1)) /\ WillExist(SideFile(as, 2))
    /\ as \notin doing.links =>
         ~WillExist(SideFile(as, 1)) /\ (as[1] = "group-account" => ~WillExist(SideFile(as, 2)))
IsLinked(as) ==
    /\ as \in made.links /\ as \in doing.links => Exists(SideFile(as, 1)) /\ Exists(SideFile(as, 2))
    /\ as \notin made.links /\ as \notin doing.links =>
         ~Exists(SideFile(as, 1)) /\ (as[1] = "group-account" => ~Exists(SideFile(as, 2)))
Linked == \A as \in Associations \ doubt : WillBeLinked(as) /\ IsLinked(as)

\* An account's directory and files
Home(acct) == AccountDir(acct[1], acct[2])
Act(acct) == ActivationFile(acct[1], acct[2])
Pass(acct, i) == PassFile(acct[1], acct[2], i)

\* A version of an account that has what two of its files hold
Fits(v, x, i, y) == v.activation = x /\ i \in DOMAIN v.passwords /\ v.passwords[i] = y

WillBeAccount(acct) ==
    LET versions == doing.accounts[acct] IN
    /\ versions = {} => ~WillExist(Home(acct))
    /\ \A x : WillHold(Act(acct), x) => \E v \in versions : v.activation = x
    /\ \A x, i, y : WillHold(Act(acct), x) /\ WillHold(Pass(acct, i), y) => \E v \in versions : Fits(v, x, i, y)
    /\ acct \notin doubt /\ versions # {} => \E v \in versions :
         /\ versions = {v} /\ WillHold(Act(acct), v.activation)
         /\ \A i \in DOMAIN v.passwords : WillHold(Pass(acct, i), v.passwords[i])

IsAccount(acct) ==
    LET versions == made.accounts[acct] \cup doing.accounts[acct] IN
    /\ versions = {} => ~Exists(Home(acct))
    /\ \A x : Holds(Act(acct), x) => \E v \in versions : v.activation = x
    /\ \A x, i, y : Holds(Act(acct), x) /\ Holds(Pass(acct, i), y) => \E v \in versions : Fits(v, x, i, y)

\* A new account gets its activation before its passwords
ActivationFirst(acct) ==
    \A k \in DOMAIN todo : \A i :
        Creating(todo[k]) /\ todo[k].path = Pass(acct, i) /\ IsMade(Act(acct)) =>
            ~Exists(Pass(acct, i)) /\ \E j \in DOMAIN todo : j < k /\ todo[j].path = Act(acct)

Accounted == \A acct \in Accounts : WillBeAccount(acct) /\ IsAccount(acct) /\ ActivationFirst(acct)

\* What is promised: a version of an account is an activation and passwords
Kept == {PasswordJson(p) : p \in Given}
Activations == [enabled : BOOLEAN, confirmed : BOOLEAN, expiration : Nat]
IsVersion(v) ==
    /\ v = [activation |-> v.activation, passwords |-> v.passwords]
    /\ v.activation \in Activations
    /\ v.passwords = [i \in DOMAIN v.passwords |-> v.passwords[i]]
    /\ \A i \in DOMAIN v.passwords : v.passwords[i] \in Kept
Promises ==
    /\ \A m \in {made, doing} :
         /\ m = [links |-> m.links, accounts |-> m.accounts]
         /\ m.accounts = [acct \in Accounts |-> m.accounts[acct]]
         /\ \A acct \in Accounts : \A v \in m.accounts[acct] : IsVersion(v)

IInv == TypeOK /\ Tree /\ CallShapes /\ Order /\ Promises /\ Linked /\ Accounted
AInv == TypeOK /\ Tree /\ CallShapes /\ Order /\ Promises /\ Accounted

-----------------------------------------------------------------------------
(* Names and paths *)

\* What toURLEncoded makes of a name of seven-bit characters, fromURLEncoded takes apart again.
LEMMA EncodedByteDecoded ==
    ASSUME NEW b \in 0 .. 127
    PROVE  (IF Len(EncodedByte(b)) = 1 THEN EncodedByte(b)[1]
            ELSE 16 * EncodedByte(b)[2] + EncodedByte(b)[3]) = b
<1>1. CASE b \in Alnum
    BY <1>1 DEF EncodedByte
<1>2. CASE b \notin Alnum
  <2>1. PICK h, r : h = b \div 16 /\ r = b % 16
      OBVIOUS
  <2>2. 16 * h + r = b
      BY <2>1
  <2>3. EncodedByte(b) = <<37, h, r>>
      BY <1>2, <2>1 DEF EncodedByte
  <2> QED
      BY <2>2, <2>3
<1> QED
    BY <1>1, <1>2

\* What toURLEncoded makes of a plain name, fromURLEncoded gives back.
LEMMA DecodedEncoded ==
    ASSUME PlainNames, NEW n \in Names
    PROVE  Decoded(Encoded(n)) = n
<1>1. n \in Seq(0 .. 127)
    BY DEF PlainNames, Names
<1>2. n = [i \in DOMAIN n |-> n[i]]
    BY <1>1
<1>8. \A S : n \in Seq(S) => \A i \in DOMAIN n : n[i] \in S
    OBVIOUS
<1>9. \A i \in DOMAIN n : n[i] \in 0 .. 127
    BY <1>1, <1>8
<1>3. DOMAIN Encoded(n) = DOMAIN n /\ \A i \in DOMAIN n : Encoded(n)[i] = EncodedByte(n[i])
    BY DEF Encoded
<1>4. Decoded(Encoded(n)) = [i \in DOMAIN n |-> IF Len(EncodedByte(n[i])) = 1 THEN EncodedByte(n[i])[1]
                                              ELSE 16 * EncodedByte(n[i])[2] + EncodedByte(n[i])[3]]
    BY <1>3 DEF Decoded
<1>5. \A i \in DOMAIN n : (IF Len(EncodedByte(n[i])) = 1 THEN EncodedByte(n[i])[1]
                           ELSE 16 * EncodedByte(n[i])[2] + EncodedByte(n[i])[3]) = n[i]
    BY <1>9, EncodedByteDecoded
<1>6. Decoded(Encoded(n)) = [i \in DOMAIN n |-> n[i]]
    BY <1>4, <1>5
<1> QED
    BY <1>2, <1>6

\* Two plain names never share a file name.
LEMMA EncodedApart ==
    ASSUME PlainNames, NEW m \in Names, NEW n \in Names, Encoded(m) = Encoded(n)
    PROVE  m = n
    BY DecodedEncoded

\* A tuple is a sequence, and a path is rooted when its first component is a domain's name.
LEMMA Tuples ==
    ASSUME NEW a, NEW b, NEW c, NEW d, NEW e
    PROVE  /\ IsASequence(<<a>>) /\ IsASequence(<<a, b>>) /\ IsASequence(<<a, b, c>>)
           /\ IsASequence(<<a, b, c, d>>) /\ IsASequence(<<a, b, c, d, e>>)
<1>1. <<a>> \in Seq({a}) /\ <<a, b>> \in Seq({a, b}) /\ <<a, b, c>> \in Seq({a, b, c})
    OBVIOUS
<1>2. <<a, b, c, d>> \in Seq({a, b, c, d}) /\ <<a, b, c, d, e>> \in Seq({a, b, c, d, e})
    OBVIOUS
<1> QED
    BY <1>1, <1>2 DEF IsASequence

\* The paths of the store, by their components: each begins at a domain's directory.
LEMMA RootedTuples ==
    ASSUME NEW d \in Domains, NEW b, NEW c, NEW e, NEW f
    PROVE  /\ Rooted(<<Encoded(d)>>) /\ Rooted(<<Encoded(d), b>>) /\ Rooted(<<Encoded(d), b, c>>)
           /\ Rooted(<<Encoded(d), b, c, e>>) /\ Rooted(<<Encoded(d), b, c, e, f>>)
    BY Tuples DEF Rooted

\* A function over 1 .. n is a sequence.
LEMMA Listing ==
    ASSUME NEW f, NEW n \in Nat, f = [i \in 1 .. n |-> f[i]]
    PROVE  IsASequence(f)
<1>1. PICK S : S = {f[i] : i \in 1 .. n}
    OBVIOUS
<1>2. f \in [1 .. n -> S]
    BY <1>1
<1>3. f \in Seq(S)
    BY <1>2
<1> QED
    BY <1>3 DEF IsASequence

\* Short tuples are sequences of their length, and what is left of them without their last.
LEMMA Tuple1 == ASSUME NEW a PROVE IsASequence(<<a>>) /\ Len(<<a>>) = 1
    BY Tuples

\* The same for three components.
LEMMA Tuple3 == ASSUME NEW a, NEW b, NEW c PROVE IsASequence(<<a, b, c>>) /\ Len(<<a, b, c>>) = 3
    BY Tuples

\* The same for four components.
LEMMA Tuple4 ==
    ASSUME NEW a, NEW b, NEW c, NEW d
    PROVE  /\ IsASequence(<<a, b, c, d>>) /\ Len(<<a, b, c, d>>) = 4
           /\ Parent(<<a, b, c, d>>) = <<a, b, c>>
<1>1. IsASequence(<<a, b, c, d>>) /\ Len(<<a, b, c, d>>) = 4
    BY Tuples
<1>2. Parent(<<a, b, c, d>>) = <<a, b, c>>
    BY DEF Parent
<1> QED
    BY <1>1, <1>2

\* The same for five components.
LEMMA Tuple5 ==
    ASSUME NEW a, NEW b, NEW c, NEW d, NEW e
    PROVE  /\ IsASequence(<<a, b, c, d, e>>) /\ Len(<<a, b, c, d, e>>) = 5
           /\ Parent(<<a, b, c, d, e>>) = <<a, b, c, d>>
<1>1. IsASequence(<<a, b, c, d, e>>) /\ Len(<<a, b, c, d, e>>) = 5
    BY Tuples
<1>2. Parent(<<a, b, c, d, e>>) = <<a, b, c, d>>
    BY DEF Parent
<1> QED
    BY <1>1, <1>2

\* The parents of the shortest paths.
LEMMA Tuple23 ==
    ASSUME NEW a, NEW b, NEW c
    PROVE  Parent(<<a, b>>) = <<a>> /\ Parent(<<a, b, c>>) = <<a, b>> /\ Len(<<a, b>>) = 2
    BY DEF Parent

\* A sequence is a prefix of another when it agrees with it as far as it goes.
LEMMA Cut ==
    ASSUME NEW p, IsASequence(p), NEW n \in 1 .. Len(p)
    PROVE  /\ IsASequence(SubSeq(p, 1, n)) /\ Len(SubSeq(p, 1, n)) = n
           /\ \A i \in 1 .. n : SubSeq(p, 1, n)[i] = p[i]
<1>1. PICK S : p \in Seq(S)
    BY DEF IsASequence
<1>2. SubSeq(p, 1, n) \in Seq(S) /\ Len(SubSeq(p, 1, n)) = n
    BY <1>1, SubSeqProperties
<1>3. \A i \in 1 .. n : SubSeq(p, 1, n)[i] = p[i]
    BY <1>1, SubSeqProperties
<1> QED
    BY <1>2, <1>3 DEF IsASequence

\* Sequences that agree everywhere are one.
LEMMA Same ==
    ASSUME NEW p, NEW q, IsASequence(p), IsASequence(q), Len(p) = Len(q),
           \A i \in 1 .. Len(p) : p[i] = q[i]
    PROVE  p = q
<1>1. PICK S : p \in Seq(S)
    BY DEF IsASequence
<1>2. PICK T : q \in Seq(T)
    BY DEF IsASequence
<1>3. p = [i \in 1 .. Len(p) |-> p[i]] /\ q = [i \in 1 .. Len(q) |-> q[i]]
    BY <1>1, <1>2
<1> QED
    BY <1>3

\* A component appended to a path of one.
LEMMA Append1 ==
    ASSUME NEW a, NEW b
    PROVE  Append(<<a>>, b) = <<a, b>>
<1>1. <<a>> \in Seq({a, b})
    OBVIOUS
<1>2. /\ Append(<<a>>, b) \in Seq({a, b}) /\ Len(Append(<<a>>, b)) = 2
      /\ Append(<<a>>, b)[1] = a /\ Append(<<a>>, b)[2] = b
    BY <1>1, AppendProperties
<1>3. Len(<<a, b>>) = 2 /\ \A i \in 1 .. 2 : Append(<<a>>, b)[i] = <<a, b>>[i]
    BY <1>2
<1>4. IsASequence(Append(<<a>>, b)) /\ IsASequence(<<a, b>>)
    BY <1>2, Tuples DEF IsASequence
<1> QED
    BY <1>2, <1>3, <1>4, Same

\* A component appended to a path of three.
LEMMA Append3 ==
    ASSUME NEW a, NEW b, NEW c, NEW d
    PROVE  Append(<<a, b, c>>, d) = <<a, b, c, d>>
<1> DEFINE s == <<a, b, c>>
<1>1. s \in Seq({a, b, c, d})
    OBVIOUS
<1>2. /\ Append(s, d) \in Seq({a, b, c, d}) /\ Len(Append(s, d)) = 4
      /\ Append(s, d)[1] = a /\ Append(s, d)[2] = b /\ Append(s, d)[3] = c /\ Append(s, d)[4] = d
    BY <1>1, AppendProperties
<1>3. Len(<<a, b, c, d>>) = 4 /\ \A i \in 1 .. 4 : Append(s, d)[i] = <<a, b, c, d>>[i]
    BY <1>2
<1>4. IsASequence(Append(s, d)) /\ IsASequence(<<a, b, c, d>>)
    BY <1>2, Tuples DEF IsASequence
<1> QED
    BY <1>2, <1>3, <1>4, Same

\* A component appended to a path of four.
LEMMA Append4 ==
    ASSUME NEW a, NEW b, NEW c, NEW d, NEW e
    PROVE  Append(<<a, b, c, d>>, e) = <<a, b, c, d, e>>
<1> DEFINE s == <<a, b, c, d>>
<1>1. s \in Seq({a, b, c, d, e})
    OBVIOUS
<1>2. /\ Append(s, e) \in Seq({a, b, c, d, e}) /\ Len(Append(s, e)) = 5
      /\ Append(s, e)[1] = a /\ Append(s, e)[2] = b /\ Append(s, e)[3] = c
      /\ Append(s, e)[4] = d /\ Append(s, e)[5] = e
    BY <1>1, AppendProperties
<1>3. Len(<<a, b, c, d, e>>) = 5 /\ \A i \in 1 .. 5 : Append(s, e)[i] = <<a, b, c, d, e>>[i]
    BY <1>2
<1>4. IsASequence(Append(s, e)) /\ IsASequence(<<a, b, c, d, e>>)
    BY <1>2, Tuples DEF IsASequence
<1> QED
    BY <1>2, <1>3, <1>4, Same

\* Paths, component by component.
LEMMA ObjectPaths ==
    ASSUME NEW n, NEW d
    PROVE  /\ AccountDir(n, d) = ObjectDir("accounts", n, d)
           /\ GroupDir(n, d) = ObjectDir("groups", n, d)
           /\ AttribDir(n, d) = ObjectDir("attribs", n, d)
    BY DEF AccountDir, GroupDir, AttribDir

\* A domain's directory and what is in it, component by component.
LEMMA DomainPaths ==
    ASSUME NEW d, NEW w
    PROVE  /\ DomainDir(d) = <<Encoded(d)>>
           /\ Entry(DomainDir(d), w) = <<Encoded(d), <<w>>>>
    BY Append1 DEF DomainDir, Entry

\* An object's directory, its entries and theirs, component by component.
LEMMA EntryPaths ==
    ASSUME NEW k, NEW n, NEW d, NEW w, NEW m
    PROVE  /\ ObjectDir(k, n, d) = <<Encoded(d), <<k>>, Encoded(n)>>
           /\ Entry(ObjectDir(k, n, d), w) = <<Encoded(d), <<k>>, Encoded(n), <<w>>>>
           /\ EntryOf(ObjectDir(k, n, d), w, m) = <<Encoded(d), <<k>>, Encoded(n), <<w>>, Encoded(m)>>
<1>1. ObjectDir(k, n, d) = <<Encoded(d), <<k>>, Encoded(n)>>
    BY DEF ObjectDir
<1>2. Entry(ObjectDir(k, n, d), w) = <<Encoded(d), <<k>>, Encoded(n), <<w>>>>
    BY <1>1, Append3, Zenon DEF Entry
<1> QED
    BY <1>1, <1>2, Append4, Zenon DEF EntryOf

\* The files of an account, component by component.
LEMMA AccountPaths ==
    ASSUME NEW a, NEW d, NEW i
    PROVE  /\ ActivationFile(a, d) = Entry(ObjectDir("accounts", a, d), "acct.activation")
           /\ ActivationFile(a, d) = <<Encoded(d), <<"accounts">>, Encoded(a), <<"acct.activation">>>>
           /\ PassFile(a, d, i) = <<Encoded(d), <<"accounts">>, Encoded(a), <<"acct.passwd", i>>>>
<1>1. PassFile(a, d, i) = Append(<<Encoded(d), <<"accounts">>, Encoded(a)>>, <<"acct.passwd", i>>)
    BY DEF PassFile, AccountDir, ObjectDir
<1>2. PassFile(a, d, i) = <<Encoded(d), <<"accounts">>, Encoded(a), <<"acct.passwd", i>>>>
    BY <1>1, Append3, Zenon
<1>3. ActivationFile(a, d) = Entry(ObjectDir("accounts", a, d), "acct.activation")
    BY ObjectPaths DEF ActivationFile
<1> QED
    BY <1>2, <1>3, EntryPaths

\* A path is above another one when they agree as far as the first goes.
LEMMA PrefixAgrees ==
    ASSUME NEW p, NEW q, IsASequence(p), IsASequence(q), Len(p) >= 1
    PROVE  IsPrefix(p, q) <=> Len(p) <= Len(q) /\ \A i \in 1 .. Len(p) : p[i] = q[i]
<1>1. Len(p) \in Nat /\ Len(q) \in Nat
    BY DEF IsASequence
<1>2. ASSUME Len(p) <= Len(q)
      PROVE  SubSeq(p, 1, Len(p)) = SubSeq(q, 1, Len(p)) <=> \A i \in 1 .. Len(p) : p[i] = q[i]
  <2>1. /\ IsASequence(SubSeq(p, 1, Len(p))) /\ Len(SubSeq(p, 1, Len(p))) = Len(p)
        /\ \A i \in 1 .. Len(p) : SubSeq(p, 1, Len(p))[i] = p[i]
      BY <1>1, Cut
  <2>2. /\ IsASequence(SubSeq(q, 1, Len(p))) /\ Len(SubSeq(q, 1, Len(p))) = Len(p)
        /\ \A i \in 1 .. Len(p) : SubSeq(q, 1, Len(p))[i] = q[i]
      BY <1>1, <1>2, Cut
  <2>3. ASSUME \A i \in 1 .. Len(p) : p[i] = q[i]
        PROVE  SubSeq(p, 1, Len(p)) = SubSeq(q, 1, Len(p))
      BY <2>1, <2>2, <2>3, Same
  <2> QED
      BY <2>1, <2>2, <2>3
<1>3. IsPrefix(p, q) <=> Len(p) <= Len(q) /\ SubSeq(p, 1, Len(p)) = SubSeq(q, 1, Len(p))
    BY DEF IsPrefix
<1>4. IsPrefix(p, q) => Len(p) <= Len(q) /\ \A i \in 1 .. Len(p) : p[i] = q[i]
    BY <1>2, <1>3
<1>5. Len(p) <= Len(q) /\ (\A i \in 1 .. Len(p) : p[i] = q[i]) => IsPrefix(p, q)
    BY <1>2, <1>3
<1> QED
    BY <1>4, <1>5

\* The directory of a path is the path without its last component.
LEMMA Parents ==
    ASSUME NEW p, IsASequence(p), Len(p) \in 2 .. 5
    PROVE  /\ IsASequence(Parent(p)) /\ Len(Parent(p)) = Len(p) - 1
           /\ \A i \in 1 .. Len(p) - 1 : Parent(p)[i] = p[i]
<1>1. PICK S : p \in Seq(S)
    BY DEF IsASequence
<1>2. Parent(p) \in Seq(S) /\ Len(Parent(p)) = Len(p) - 1
    BY <1>1 DEF Parent
<1> QED
    BY <1>2 DEF Parent, IsASequence

\* The two sides of an association: an object's directory, and in it the name of the other object.
Holder(kind, i) ==
    CASE kind = "attrib-account" -> IF i = 1 THEN "attribs" ELSE "accounts"
      [] kind = "attrib-group"   -> IF i = 1 THEN "attribs" ELSE "groups"
      [] kind = "group-account"  -> IF i = 1 THEN "groups" ELSE "accounts"

\* The four parts of what an association's removal is asked to end.
LEMMA TiesAre ==
    ASSUME NEW as \in Ties
    PROVE  /\ as = <<as[1], as[2], as[3], as[4]>>
           /\ as[1] \in {"attrib-account", "attrib-group", "group-account"}
           /\ as[2] \in Names /\ as[3] \in Names /\ as[4] \in Names
<1>1. as \in {"attrib-account", "attrib-group", "group-account"} \X Names \X Names \X Names
    BY DEF Ties
<1>2. as = <<as[1], as[2], as[3], as[4]>>
  <2>1. \A S, T, U, V : \A x \in S \X T \X U \X V : x = <<x[1], x[2], x[3], x[4]>>
      BY SMTT(30)
  <2> QED
      BY <1>1, <2>1, Zenon
<1>3. as[1] \in {"attrib-account", "attrib-group", "group-account"}
    BY <1>1
<1>4. as[2] \in Names /\ as[3] \in Names /\ as[4] \in Names
    BY <1>1
<1> QED
    BY <1>2, <1>3, <1>4

\* The two files of an association and their directories, component by component (Holder is the
\* kind of the object whose directory a side is in).
LEMMA SidePaths ==
    ASSUME NEW as \in Ties, NEW i \in {1, 2}
    PROVE  /\ SideDir(as, i) = <<Encoded(as[4]), <<Holder(as[1], i)>>, Encoded(as[1 + i]), <<Holder(as[1], 3 - i)>>>>
           /\ SideFile(as, i) = <<Encoded(as[4]), <<Holder(as[1], i)>>, Encoded(as[1 + i]),
                                  <<Holder(as[1], 3 - i)>>, Encoded(as[4 - i])>>
<1>1. as[1] \in {"attrib-account", "attrib-group", "group-account"}
    BY DEF Ties
<1>2. /\ Sides(as)[i][1] = ObjectDir(Holder(as[1], i), as[1 + i], as[4])
      /\ Sides(as)[i][2] = Holder(as[1], 3 - i)
      /\ Sides(as)[i][3] = as[4 - i]
  <2>1. CASE as[1] = "attrib-account"
    <3>1. /\ Sides(as)[1] = <<ObjectDir("attribs", as[2], as[4]), "accounts", as[3]>>
          /\ Sides(as)[2] = <<ObjectDir("accounts", as[3], as[4]), "attribs", as[2]>>
        BY <2>1, ObjectPaths DEF Sides
    <3>2. Holder(as[1], 1) = "attribs" /\ Holder(as[1], 2) = "accounts"
        BY <2>1 DEF Holder
    <3>3. CASE i = 1
      <4>1. 1 + i = 2 /\ 3 - i = 2 /\ 4 - i = 3
          BY <3>3
      <4>2. Sides(as)[i] = <<ObjectDir(Holder(as[1], i), as[1 + i], as[4]), Holder(as[1], 3 - i), as[4 - i]>>
          BY <3>1, <3>2, <3>3, <4>1
      <4> QED
          BY <4>2
    <3>4. CASE i = 2
      <4>1. 1 + i = 3 /\ 3 - i = 1 /\ 4 - i = 2
          BY <3>4
      <4>2. Sides(as)[i] = <<ObjectDir(Holder(as[1], i), as[1 + i], as[4]), Holder(as[1], 3 - i), as[4 - i]>>
          BY <3>1, <3>2, <3>4, <4>1
      <4> QED
          BY <4>2
    <3> QED
        BY <3>3, <3>4
  <2>2. CASE as[1] = "attrib-group"
    <3>1. /\ Sides(as)[1] = <<ObjectDir("attribs", as[2], as[4]), "groups", as[3]>>
          /\ Sides(as)[2] = <<ObjectDir("groups", as[3], as[4]), "attribs", as[2]>>
        BY <2>2, ObjectPaths DEF Sides
    <3>2. Holder(as[1], 1) = "attribs" /\ Holder(as[1], 2) = "groups"
        BY <2>2 DEF Holder
    <3>3. CASE i = 1
      <4>1. 1 + i = 2 /\ 3 - i = 2 /\ 4 - i = 3
          BY <3>3
      <4>2. Sides(as)[i] = <<ObjectDir(Holder(as[1], i), as[1 + i], as[4]), Holder(as[1], 3 - i), as[4 - i]>>
          BY <3>1, <3>2, <3>3, <4>1
      <4> QED
          BY <4>2
    <3>4. CASE i = 2
      <4>1. 1 + i = 3 /\ 3 - i = 1 /\ 4 - i = 2
          BY <3>4
      <4>2. Sides(as)[i] = <<ObjectDir(Holder(as[1], i), as[1 + i], as[4]), Holder(as[1], 3 - i), as[4 - i]>>
          BY <3>1, <3>2, <3>4, <4>1
      <4> QED
          BY <4>2
    <3> QED
        BY <3>3, <3>4
  <2>3. CASE as[1] = "group-account"
    <3>1. /\ Sides(as)[1] = <<ObjectDir("groups", as[2], as[4]), "accounts", as[3]>>
          /\ Sides(as)[2] = <<ObjectDir("accounts", as[3], as[4]), "groups", as[2]>>
        BY <2>3, ObjectPaths DEF Sides
    <3>2. Holder(as[1], 1) = "groups" /\ Holder(as[1], 2) = "accounts"
        BY <2>3 DEF Holder
    <3>3. CASE i = 1
      <4>1. 1 + i = 2 /\ 3 - i = 2 /\ 4 - i = 3
          BY <3>3
      <4>2. Sides(as)[i] = <<ObjectDir(Holder(as[1], i), as[1 + i], as[4]), Holder(as[1], 3 - i), as[4 - i]>>
          BY <3>1, <3>2, <3>3, <4>1
      <4> QED
          BY <4>2
    <3>4. CASE i = 2
      <4>1. 1 + i = 3 /\ 3 - i = 1 /\ 4 - i = 2
          BY <3>4
      <4>2. Sides(as)[i] = <<ObjectDir(Holder(as[1], i), as[1 + i], as[4]), Holder(as[1], 3 - i), as[4 - i]>>
          BY <3>1, <3>2, <3>4, <4>1
      <4> QED
          BY <4>2
    <3> QED
        BY <3>3, <3>4
  <2> QED
      BY <1>1, <2>1, <2>2, <2>3
<1>3. /\ SideDir(as, i) = Entry(ObjectDir(Holder(as[1], i), as[1 + i], as[4]), Holder(as[1], 3 - i))
      /\ SideFile(as, i) = EntryOf(ObjectDir(Holder(as[1], i), as[1 + i], as[4]), Holder(as[1], 3 - i), as[4 - i])
    BY <1>2, Zenon DEF SideDir, SideFile
<1> QED
    BY <1>3, EntryPaths, Zenon

\* A side of an association is a file of its directory.
LEMMA SideShapes ==
    ASSUME NEW as \in Ties, NEW i \in {1, 2}
    PROVE  /\ IsASequence(SideFile(as, i)) /\ Len(SideFile(as, i)) = 5
           /\ SideDir(as, i) = Parent(SideFile(as, i))
<1>1. PICK a, b, c, d, e : SideFile(as, i) = <<a, b, c, d, e>> /\ SideDir(as, i) = <<a, b, c, d>>
    BY SidePaths
<1> QED
    BY <1>1, Tuple5

\* No two associations have a file in common, nor the two sides of one.
LEMMA SidesApart ==
    ASSUME PlainNames, NEW as \in Ties, NEW bs \in Ties, NEW i \in {1, 2}, NEW j \in {1, 2},
           SideFile(as, i) = SideFile(bs, j)
    PROVE  as = bs /\ i = j
<1>1. /\ Encoded(as[4]) = Encoded(bs[4])
      /\ Holder(as[1], i) = Holder(bs[1], j) /\ Holder(as[1], 3 - i) = Holder(bs[1], 3 - j)
      /\ Encoded(as[1 + i]) = Encoded(bs[1 + j]) /\ Encoded(as[4 - i]) = Encoded(bs[4 - j])
  <2>1. <<Encoded(as[4]), <<Holder(as[1], i)>>, Encoded(as[1 + i]), <<Holder(as[1], 3 - i)>>, Encoded(as[4 - i])>>
      = <<Encoded(bs[4]), <<Holder(bs[1], j)>>, Encoded(bs[1 + j]), <<Holder(bs[1], 3 - j)>>, Encoded(bs[4 - j])>>
      BY SidePaths
  <2> QED
      BY <2>1
<1>2. as[1] = bs[1] /\ i = j
  <2>1. as[1] \in {"attrib-account", "attrib-group", "group-account"}
      BY DEF Ties
  <2>2. bs[1] \in {"attrib-account", "attrib-group", "group-account"}
      BY DEF Ties
  <2>3. CASE as[1] = "attrib-account"
      BY <1>1, <2>2, <2>3 DEF Holder
  <2>4. CASE as[1] = "attrib-group"
      BY <1>1, <2>2, <2>4 DEF Holder
  <2>5. CASE as[1] = "group-account"
      BY <1>1, <2>2, <2>5 DEF Holder
  <2> QED
      BY <2>1, <2>3, <2>4, <2>5
<1>3. as = <<as[1], as[2], as[3], as[4]>> /\ as[2] \in Names /\ as[3] \in Names /\ as[4] \in Names
    BY TiesAre
<1>4. bs = <<bs[1], bs[2], bs[3], bs[4]>> /\ bs[2] \in Names /\ bs[3] \in Names /\ bs[4] \in Names
    BY TiesAre
<1>5. as[4] = bs[4]
    BY <1>1, <1>3, <1>4, EncodedApart
<1>6. as[2] = bs[2] /\ as[3] = bs[3]
  <2>1. CASE i = 1
    <3>1. 1 + i = 2 /\ 4 - i = 3 /\ i = j
        BY <1>2, <2>1
    <3>2. Encoded(as[2]) = Encoded(bs[2]) /\ Encoded(as[3]) = Encoded(bs[3])
        BY <1>1, <3>1
    <3> QED
        BY <1>3, <1>4, <3>2, EncodedApart
  <2>2. CASE i = 2
    <3>1. 1 + i = 3 /\ 4 - i = 2 /\ i = j
        BY <1>2, <2>2
    <3>2. Encoded(as[2]) = Encoded(bs[2]) /\ Encoded(as[3]) = Encoded(bs[3])
        BY <1>1, <3>1
    <3> QED
        BY <1>3, <1>4, <3>2, EncodedApart
  <2> QED
      BY <2>1, <2>2
<1> QED
    BY <1>2, <1>3, <1>4, <1>5, <1>6

\* Every association is one that removals may be asked to end.
LEMMA AssociationsAreTies == Associations \subseteq Ties
    BY DEF Associations, Ties, Names

\* The directory and the files of an account.
LEMMA AccountFiles ==
    ASSUME NEW acct, NEW i
    PROVE  /\ Home(acct) = <<Encoded(acct[2]), <<"accounts">>, Encoded(acct[1])>>
           /\ Act(acct) = <<Encoded(acct[2]), <<"accounts">>, Encoded(acct[1]), <<"acct.activation">>>>
           /\ Pass(acct, i) = <<Encoded(acct[2]), <<"accounts">>, Encoded(acct[1]), <<"acct.passwd", i>>>>
           /\ Parent(Act(acct)) = Home(acct) /\ Parent(Pass(acct, i)) = Home(acct)
           /\ IsASequence(Home(acct)) /\ IsASequence(Act(acct)) /\ IsASequence(Pass(acct, i))
           /\ Len(Home(acct)) = 3 /\ Len(Act(acct)) = 4 /\ Len(Pass(acct, i)) = 4
<1>1. Home(acct) = <<Encoded(acct[2]), <<"accounts">>, Encoded(acct[1])>>
    BY DEF Home, AccountDir, ObjectDir
<1>2. /\ Act(acct) = <<Encoded(acct[2]), <<"accounts">>, Encoded(acct[1]), <<"acct.activation">>>>
      /\ Pass(acct, i) = <<Encoded(acct[2]), <<"accounts">>, Encoded(acct[1]), <<"acct.passwd", i>>>>
    BY AccountPaths, Zenon DEF Act, Pass
<1>3. IsASequence(Home(acct)) /\ Len(Home(acct)) = 3
    BY <1>1, Tuple3
<1>4. Parent(Act(acct)) = Home(acct) /\ IsASequence(Act(acct)) /\ Len(Act(acct)) = 4
    BY <1>1, <1>2, Tuple4
<1>5. Parent(Pass(acct, i)) = Home(acct) /\ IsASequence(Pass(acct, i)) /\ Len(Pass(acct, i)) = 4
    BY <1>1, <1>2, Tuple4
<1> QED
    BY <1>1, <1>2, <1>3, <1>4, <1>5

\* The two parts of an account.
LEMMA AccountsAre ==
    ASSUME NEW acct \in Accounts
    PROVE  acct = <<acct[1], acct[2]>> /\ acct[1] \in Names /\ acct[2] \in Names
           /\ acct[1] \in AccountNames /\ acct[2] \in Domains
    BY DEF Accounts, Names

\* No two accounts have a directory or a file in common, nor two passwords.
LEMMA AccountsApart ==
    ASSUME PlainNames, NEW acct \in Accounts, NEW bcct \in Accounts, NEW i, NEW j
    PROVE  /\ Home(acct) = Home(bcct) => acct = bcct
           /\ Act(acct) = Act(bcct) => acct = bcct
           /\ Pass(acct, i) = Pass(bcct, j) => acct = bcct /\ i = j
           /\ Act(acct) # Pass(bcct, i)
<1> DEFINE a == Encoded(acct[1])
           b == Encoded(bcct[1])
           d == Encoded(acct[2])
           e == Encoded(bcct[2])
<1>1. a = b /\ d = e => acct = bcct
    BY AccountsAre, EncodedApart
<1>2. <<d, <<"accounts">>, a>> = <<e, <<"accounts">>, b>> => a = b /\ d = e
    OBVIOUS
<1>3. \A x, y : <<d, <<"accounts">>, a, x>> = <<e, <<"accounts">>, b, y>> => a = b /\ d = e /\ x = y
    OBVIOUS
<1>4. <<"acct.activation">> # <<"acct.passwd", i>> /\ (<<"acct.passwd", i>> = <<"acct.passwd", j>> => i = j)
    OBVIOUS
<1>5. /\ Home(acct) = <<d, <<"accounts">>, a>> /\ Home(bcct) = <<e, <<"accounts">>, b>>
      /\ Act(acct) = <<d, <<"accounts">>, a, <<"acct.activation">>>>
      /\ Act(bcct) = <<e, <<"accounts">>, b, <<"acct.activation">>>>
      /\ Pass(acct, i) = <<d, <<"accounts">>, a, <<"acct.passwd", i>>>>
      /\ Pass(bcct, j) = <<e, <<"accounts">>, b, <<"acct.passwd", j>>>>
      /\ Pass(bcct, i) = <<e, <<"accounts">>, b, <<"acct.passwd", i>>>>
    BY AccountFiles
<1> HIDE DEF a, b, d, e
<1>6. Home(acct) = Home(bcct) => acct = bcct
    BY <1>1, <1>2, <1>5
<1>7. Act(acct) = Act(bcct) => acct = bcct
    BY <1>1, <1>3, <1>5
<1>8. Pass(acct, i) = Pass(bcct, j) => acct = bcct /\ i = j
    BY <1>1, <1>3, <1>4, <1>5
<1>9. Act(acct) # Pass(bcct, i)
    BY <1>3, <1>4, <1>5
<1> QED
    BY <1>6, <1>7, <1>8, <1>9

\* What is under a domain's directory, and under an object's.
LEMMA UnderDomain ==
    ASSUME NEW d, NEW q, IsASequence(q), Len(q) >= 1
    PROVE  IsPrefix(DomainDir(d), q) <=> q[1] = Encoded(d)
<1>1. IsASequence(DomainDir(d)) /\ Len(DomainDir(d)) = 1 /\ Len(DomainDir(d)) >= 1 /\ DomainDir(d)[1] = Encoded(d)
    BY DomainPaths, Tuple1
<1>2. IsPrefix(DomainDir(d), q) <=> Len(DomainDir(d)) <= Len(q) /\ \A i \in 1 .. Len(DomainDir(d)) : DomainDir(d)[i] = q[i]
    BY <1>1, PrefixAgrees, Zenon
<1> QED
    BY <1>1, <1>2

\* The paths beneath an object's directory are those with its first three components.
LEMMA UnderObject ==
    ASSUME NEW k, NEW n, NEW d, NEW q, IsASequence(q)
    PROVE  IsPrefix(ObjectDir(k, n, d), q)
               <=> Len(q) >= 3 /\ q[1] = Encoded(d) /\ q[2] = <<k>> /\ q[3] = Encoded(n)
<1> DEFINE p == ObjectDir(k, n, d)
<1>1. IsASequence(p) /\ Len(p) = 3 /\ Len(p) >= 1 /\ p[1] = Encoded(d) /\ p[2] = <<k>> /\ p[3] = Encoded(n)
    BY EntryPaths, Tuple3
<1> HIDE DEF p
<1>2. IsPrefix(p, q) <=> Len(p) <= Len(q) /\ \A i \in 1 .. Len(p) : p[i] = q[i]
    BY <1>1, PrefixAgrees, Zenon
<1>3. Len(q) \in Nat
    BY DEF IsASequence
<1>4. (\A i \in 1 .. 3 : p[i] = q[i]) <=> p[1] = q[1] /\ p[2] = q[2] /\ p[3] = q[3]
    OBVIOUS
<1>5. IsPrefix(p, q) <=> Len(q) >= 3 /\ q[1] = Encoded(d) /\ q[2] = <<k>> /\ q[3] = Encoded(n)
    BY <1>1, <1>2, <1>3, <1>4
<1> QED
    BY <1>5 DEF p

-----------------------------------------------------------------------------
(* The calls of a function *)

\* Once a function is done, what will be there is what is there.
LEMMA AtRest ==
    ASSUME todo = <<>>
    PROVE  /\ \A p : ~IsMade(p) /\ ~IsRemoved(p)
           /\ \A p : WillExist(p) <=> Exists(p)
           /\ \A p, v : WillHold(p, v) <=> Holds(p, v)
    BY DEF IsMade, IsRemoved, WillExist, WillHold

\* With no calls left, what is there is what will be.
LEMMA AtRestNext ==
    ASSUME todo' = <<>>
    PROVE  /\ \A p : ~IsMade(p)' /\ ~IsRemoved(p)'
           /\ \A p : WillExist(p)' <=> Exists(p)'
           /\ \A p, v : WillHold(p, v)' <=> Holds(p, v)'
    BY DEF IsMade, IsRemoved, WillExist, WillHold

\* A file with text is neither a directory nor an empty file.
LEMMA JsonIs ==
    ASSUME NEW v
    PROVE  Json(v) # Dir /\ Json(v) # Touched /\ Json(v) # Truncated
<1>1. Json(v).type = "json"
    BY DEF Json
<1>2. Dir.type = "dir" /\ Touched.type = "file" /\ Truncated.type = "truncated"
    BY DEF Dir, Touched, Truncated
<1> QED
    BY <1>1, <1>2

\* Two files with the same text hold the same value.
LEMMA JsonSame ==
    ASSUME NEW v, NEW w, Json(v) = Json(w)
    PROVE  v = w
<1>1. Json(v).value = v /\ Json(w).value = w
    BY DEF Json
<1> QED
    BY <1>1

\* The first call and the others.
LEMMA HeadTail ==
    ASSUME IsASequence(todo), todo # <<>>
    PROVE  /\ Head(todo) = todo[1] /\ DOMAIN todo = 1 .. Len(todo) /\ Len(todo) \in Nat \ {0}
           /\ IsASequence(Tail(todo)) /\ DOMAIN Tail(todo) = 1 .. Len(todo) - 1
           /\ \A k \in DOMAIN Tail(todo) : k + 1 \in DOMAIN todo /\ k + 1 # 1 /\ Tail(todo)[k] = todo[k + 1]
           /\ \A k \in DOMAIN todo : k # 1 => k - 1 \in DOMAIN Tail(todo) /\ Tail(todo)[k - 1] = todo[k]
<1>1. PICK S : todo \in Seq(S)
    BY DEF IsASequence
<1>2. Head(todo) = todo[1] /\ DOMAIN todo = 1 .. Len(todo) /\ Len(todo) \in Nat \ {0}
    BY <1>1
<1>3. Tail(todo) \in Seq(S) /\ Len(Tail(todo)) = Len(todo) - 1
    BY <1>1, HeadTailProperties
<1>4. DOMAIN Tail(todo) = 1 .. Len(todo) - 1
    BY <1>3
<1>5. \A k \in DOMAIN Tail(todo) : k + 1 \in DOMAIN todo /\ k + 1 # 1 /\ Tail(todo)[k] = todo[k + 1]
    BY <1>1, <1>2, <1>4, HeadTailProperties
<1>6. ASSUME NEW k \in DOMAIN todo, k # 1
      PROVE  k - 1 \in DOMAIN Tail(todo) /\ Tail(todo)[k - 1] = todo[k]
  <2>1. k \in 2 .. Len(todo) /\ (k - 1) + 1 = k
      BY <1>2, <1>6
  <2>2. k - 1 \in DOMAIN Tail(todo)
      BY <1>2, <1>4, <2>1
  <2> QED
      BY <1>5, <2>1, <2>2
<1> QED
    BY <1>2, <1>3, <1>4, <1>5, <1>6 DEF IsASequence

\* A step of a function that creates: one call, to be closed if it was opened.
LEMMA CreatingStep ==
    ASSUME CallShapes, Step, Creating(todo[1])
    PROVE  /\ \A k \in DOMAIN todo : Creating(todo[k])
           /\ DOMAIN fs' = DOMAIN fs \cup {todo[1].path}
           /\ \A p \in DOMAIN fs : p # todo[1].path => fs'[p] = fs[p]
           /\ \/ /\ todo[1].call \in {"mkdir", "touch"} /\ todo' = Tail(todo)
                 /\ fs'[todo[1].path] \in {Dir, Touched}
              \/ /\ todo[1].call = "open" /\ todo' = [todo EXCEPT ![1].call = "close"]
                 /\ fs'[todo[1].path] = Truncated
              \/ /\ todo[1].call = "close" /\ todo' = Tail(todo)
                 /\ fs'[todo[1].path] = Json(todo[1].value)
<1> DEFINE s == todo[1]
<1>1. todo # <<>> /\ IsASequence(todo)
    BY DEF Step, CallShapes
<1>2. s = Head(todo) /\ 1 \in DOMAIN todo
    BY <1>1, HeadTail
<1>3. \A k \in DOMAIN todo : Creating(todo[k])
    BY <1>2 DEF CallShapes, Creating, Removing
<1>4. Creates(s)
    BY <1>2 DEF Step, Dissociates, Removes, Creating
<1>5. fs' = Put(fs, s.path, CASE s.call = "mkdir" -> Dir
                              [] s.call = "touch" -> Touched
                              [] s.call = "open"  -> Truncated
                              [] s.call = "close" -> Json(s.value))
    BY <1>4 DEF Creates
<1>6. /\ DOMAIN fs' = DOMAIN fs \cup {s.path}
      /\ \A p \in DOMAIN fs : p # s.path => fs'[p] = fs[p]
      /\ fs'[s.path] = CASE s.call = "mkdir" -> Dir
                         [] s.call = "touch" -> Touched
                         [] s.call = "open"  -> Truncated
                         [] s.call = "close" -> Json(s.value)
    BY <1>5 DEF Put
<1>7. s.call \in {"mkdir", "touch", "open", "close"}
      /\ todo' = IF s.call = "open" THEN [todo EXCEPT ![1].call = "close"] ELSE Tail(todo)
    BY <1>4 DEF Creates
<1> QED
    BY <1>3, <1>6, <1>7

\* What is still to be created after it.
LEMMA CreatingCalls ==
    ASSUME CallShapes, Order, Step, Creating(todo[1])
    PROVE  /\ IsASequence(todo')
           /\ \/ /\ todo[1].call # "open" /\ todo' = Tail(todo)
              \/ /\ todo[1].call = "open" /\ DOMAIN todo' = DOMAIN todo
                 /\ todo'[1] = [call |-> "close", path |-> todo[1].path, value |-> todo[1].value]
                 /\ \A k \in DOMAIN todo : k # 1 => todo'[k] = todo[k]
           /\ \A k \in DOMAIN todo' : Creating(todo'[k])
<1> DEFINE s == todo[1]
<1>1. IsASequence(todo) /\ todo # <<>>
    BY DEF CallShapes, Step
<1>2. \A k \in DOMAIN todo : Creating(todo[k])
    BY CreatingStep
<1>3. CASE s.call # "open"
  <2>1. todo' = Tail(todo)
      BY <1>3, CreatingStep
  <2> QED
      BY <1>1, <1>2, <1>3, <2>1, HeadTail
<1>4. CASE s.call = "open"
  <2>1. todo' = [todo EXCEPT ![1].call = "close"]
      BY <1>4, CreatingStep
  <2>2. 1 \in DOMAIN todo
      BY <1>1, HeadTail
  <2>3. s = [call |-> "open", path |-> s.path, value |-> s.value]
      BY <1>4, <2>2 DEF CallShapes, CallShape
  <2>4. DOMAIN todo' = DOMAIN todo /\ \A k \in DOMAIN todo : k # 1 => todo'[k] = todo[k]
      BY <2>1
  <2>5. todo'[1] = [s EXCEPT !.call = "close"]
      BY <2>1, <2>2
  <2>6. todo'[1] = [call |-> "close", path |-> s.path, value |-> s.value]
    <3> HIDE DEF s
    <3>1. [s EXCEPT !.call = "close"] = [call |-> "close", path |-> s.path, value |-> s.value]
        BY <2>3
    <3> QED
        BY <2>5, <3>1 DEF s
  <2>7. IsASequence(todo')
    <3>1. PICK S : todo \in Seq(S)
        BY <1>1 DEF IsASequence
    <3>2. todo' = [k \in 1 .. Len(todo) |-> todo'[k]]
        BY <1>1, <2>1, HeadTail
    <3>3. todo' \in Seq({todo'[k] : k \in 1 .. Len(todo)})
        BY <1>1, <3>2, HeadTail
    <3> QED
        BY <3>3 DEF IsASequence
  <2>8. \A k \in DOMAIN todo' : Creating(todo'[k])
      BY <1>2, <2>4, <2>6 DEF Creating
  <2> QED
      BY <1>4, <2>4, <2>6, <2>7, <2>8
<1> QED
    BY <1>3, <1>4

\* It makes true what the calls said, and changes nothing of what they say.
LEMMA CreatingMade ==
    ASSUME CallShapes, Order, Step, Creating(todo[1])
    PROVE  /\ \A p : ~IsRemoved(p) /\ ~IsRemoved(p)'
           /\ \A p : IsMade(p)' => IsMade(p)
           /\ \A p : IsMade(p) => IsMade(p)' \/ p = todo[1].path
           /\ IsMade(todo[1].path)
           /\ todo[1].call # "open" => \A p : p = todo[1].path => ~IsMade(p)'
<1> DEFINE s == todo[1]
<1>1. IsASequence(todo) /\ todo # <<>> /\ 1 \in DOMAIN todo
    BY HeadTail DEF CallShapes, Step
<1>2. \A k \in DOMAIN todo : Creating(todo[k])
    BY CreatingStep
<1>3. \A k \in DOMAIN todo' : Creating(todo'[k])
    BY CreatingCalls
<1>4. \A p : ~IsRemoved(p)
    BY <1>2 DEF IsRemoved, RemovedBy, Creating
<1>5. \A p : ~IsRemoved(p)'
    BY <1>3 DEF IsRemoved, RemovedBy, Creating
<1>6. IsMade(s.path)
    BY <1>1, <1>2 DEF IsMade
<1>7. CASE s.call # "open"
  <2>1. todo' = Tail(todo)
      BY <1>7, CreatingCalls
  <2>2. \A p : IsMade(p)' => IsMade(p)
      BY <1>1, <1>2, <2>1, HeadTail DEF IsMade
  <2>3. \A p : IsMade(p) => IsMade(p)' \/ p = s.path
    <3>1. ASSUME NEW p, NEW k \in DOMAIN todo, todo[k].path = p, p # s.path
          PROVE  IsMade(p)'
      <4>1. k # 1
          BY <3>1
      <4>2. k - 1 \in DOMAIN todo' /\ todo'[k - 1] = todo[k]
          BY <1>1, <2>1, <3>1, <4>1, HeadTail
      <4> QED
          BY <1>3, <3>1, <4>2 DEF IsMade
    <3> QED
        BY <3>1 DEF IsMade
  <2>4. ASSUME NEW p, p = s.path
        PROVE  ~IsMade(p)'
    <3>1. SUFFICES ASSUME NEW k \in DOMAIN todo', todo'[k].path = p
                   PROVE  FALSE
        BY DEF IsMade
    <3>2. k + 1 \in DOMAIN todo /\ k + 1 # 1 /\ todo[k + 1].path = s.path
        BY <1>1, <2>1, <2>4, <3>1, HeadTail
    <3> QED
        BY <1>1, <1>2, <3>2 DEF Order
  <2> QED
      BY <1>4, <1>5, <1>6, <2>2, <2>3, <2>4
<1>8. CASE s.call = "open"
  <2>1. /\ DOMAIN todo' = DOMAIN todo
        /\ todo'[1] = [call |-> "close", path |-> s.path, value |-> s.value]
        /\ \A k \in DOMAIN todo : k # 1 => todo'[k] = todo[k]
      BY <1>8, CreatingCalls
  <2>2. \A k \in DOMAIN todo : todo'[k].path = todo[k].path
      BY <2>1
  <2>3. \A p : IsMade(p)' <=> IsMade(p)
      BY <1>2, <1>3, <2>1, <2>2 DEF IsMade
  <2> QED
      BY <1>4, <1>5, <1>6, <1>8, <2>3
<1> QED
    BY <1>7, <1>8

\* A call that creates changes nothing of what will be there, and makes only what will be.
LEMMA CreatingWill ==
    ASSUME CallShapes, Order, Step, Creating(todo[1])
    PROVE  /\ \A p : WillExist(p)' <=> WillExist(p)
           /\ \A p : Exists(p) => Exists(p)'
           /\ \A p : Exists(p)' => WillExist(p)
<1>1. \A p : Exists(p)' <=> Exists(p) \/ p = todo[1].path
    BY CreatingStep DEF Exists
<1>2. \A p : IsMade(p)' => IsMade(p)
    BY CreatingMade
<1>3. \A p : IsMade(p) => IsMade(p)' \/ p = todo[1].path
    BY CreatingMade
<1>4. IsMade(todo[1].path) /\ \A p : ~IsRemoved(p) /\ ~IsRemoved(p)'
    BY CreatingMade
<1>5. \A p : WillExist(p) <=> Exists(p) \/ IsMade(p)
    BY <1>4 DEF WillExist
<1>6. \A p : WillExist(p)' <=> Exists(p)' \/ IsMade(p)'
    BY <1>4 DEF WillExist
<1> QED
    BY <1>1, <1>2, <1>3, <1>4, <1>5, <1>6

\* Nor of what the files will hold, and it writes only what they will hold.
LEMMA CreatingHold ==
    ASSUME CallShapes, Order, Step, Creating(todo[1])
    PROVE  /\ \A p, v : WillHold(p, v)' <=> WillHold(p, v)
           /\ \A p, v : Holds(p, v)' =>
                 \/ p # todo[1].path /\ Holds(p, v)
                 \/ p = todo[1].path /\ WillHold(p, v)
<1> DEFINE s == todo[1]
           Closes(p, v) == \E k \in DOMAIN todo :
                              todo[k].call \in {"open", "close"} /\ todo[k].path = p /\ todo[k].value = v
           ClosesNext(p, v) == \E k \in DOMAIN todo' :
                              todo'[k].call \in {"open", "close"} /\ todo'[k].path = p /\ todo'[k].value = v
<1>1. IsASequence(todo) /\ todo # <<>> /\ 1 \in DOMAIN todo
    BY HeadTail DEF CallShapes, Step
<1>2. \A p, v : WillHold(p, v) <=> Closes(p, v) \/ (~IsMade(p) /\ Holds(p, v))
    BY CreatingMade DEF WillHold
<1>3. \A p, v : WillHold(p, v)' <=> ClosesNext(p, v) \/ (~IsMade(p)' /\ Holds(p, v)')
    BY CreatingMade DEF WillHold
<1>4. \A p, v : p # s.path => (Holds(p, v)' <=> Holds(p, v))
    BY CreatingStep DEF Holds, Exists
<1>5. \A k \in DOMAIN todo : todo[k].path = s.path => k = 1
    BY <1>1, CreatingStep DEF Order
<1>6. \A p : p # s.path => (IsMade(p)' <=> IsMade(p))
    BY CreatingMade
<1>7. ASSUME NEW p, NEW v, p # s.path
      PROVE  ClosesNext(p, v) <=> Closes(p, v)
  <2>1. CASE s.call # "open"
    <3>1. todo' = Tail(todo)
        BY <2>1, CreatingCalls
    <3>2. ClosesNext(p, v) => Closes(p, v)
        BY <1>1, <3>1, HeadTail
    <3>3. ASSUME NEW k \in DOMAIN todo, todo[k].call \in {"open", "close"}, todo[k].path = p, todo[k].value = v
          PROVE  ClosesNext(p, v)
      <4>1. k # 1
          BY <1>7, <3>3
      <4>2. k - 1 \in DOMAIN todo' /\ todo'[k - 1] = todo[k]
          BY <1>1, <3>1, <4>1, HeadTail
      <4> QED
          BY <3>3, <4>2
    <3> QED
        BY <3>2, <3>3
  <2>2. CASE s.call = "open"
    <3>1. /\ DOMAIN todo' = DOMAIN todo
          /\ todo'[1] = [call |-> "close", path |-> s.path, value |-> s.value]
          /\ \A k \in DOMAIN todo : k # 1 => todo'[k] = todo[k]
        BY <2>2, CreatingCalls
    <3>2. todo'[1].path = s.path
        BY <3>1
    <3> QED
        BY <1>7, <3>1, <3>2
  <2> QED
      BY <2>1, <2>2
<1>12. PICK q : q = s.path
    OBVIOUS
<1>8. \A v : Closes(q, v) <=> s.call \in {"open", "close"} /\ s.value = v
    BY <1>1, <1>5, <1>12
<1>9. \A v : WillHold(q, v) <=> s.call \in {"open", "close"} /\ s.value = v
  <2>1. IsMade(q)
      BY <1>12, CreatingMade
  <2> QED
      BY <1>2, <1>8, <2>1
<1>13. ASSUME s.call \in {"mkdir", "touch"}
      PROVE  \A v : (WillHold(q, v)' <=> WillHold(q, v)) /\ (Holds(q, v)' => WillHold(q, v))
  <2>1. fs'[q] \in {Dir, Touched}
      BY <1>12, <1>13, CreatingStep
  <2>2. \A v : ~Holds(q, v)'
      BY <2>1, JsonIs DEF Holds
  <2>3. ~IsMade(q)'
      BY <1>12, <1>13, CreatingMade
  <2>4. \A v : ~ClosesNext(q, v)
      BY <2>3, CreatingCalls DEF IsMade
  <2>5. \A v : ~WillHold(q, v)'
      BY <1>3, <2>2, <2>4
  <2> QED
      BY <1>9, <1>13, <2>2, <2>5
<1>14. ASSUME s.call = "close"
      PROVE  \A v : (WillHold(q, v)' <=> WillHold(q, v)) /\ (Holds(q, v)' => WillHold(q, v))
  <2>1. q \in DOMAIN fs' /\ fs'[q] = Json(s.value)
      BY <1>12, <1>14, CreatingStep
  <2>2. \A v : Holds(q, v)' <=> s.value = v
      BY <2>1, JsonSame DEF Holds, Exists
  <2>3. ~IsMade(q)'
      BY <1>12, <1>14, CreatingMade
  <2>4. \A v : ~ClosesNext(q, v)
      BY <2>3, CreatingCalls DEF IsMade
  <2>5. \A v : WillHold(q, v)' <=> s.value = v
      BY <1>3, <2>2, <2>3, <2>4
  <2> QED
      BY <1>9, <1>14, <2>2, <2>5
<1>15. ASSUME s.call = "open"
      PROVE  \A v : (WillHold(q, v)' <=> WillHold(q, v)) /\ (Holds(q, v)' => WillHold(q, v))
  <2>1. fs'[q] = Truncated
      BY <1>12, <1>15, CreatingStep
  <2>2. \A v : ~Holds(q, v)'
      BY <2>1, JsonIs DEF Holds
  <2>3. /\ DOMAIN todo' = DOMAIN todo
        /\ todo'[1] = [call |-> "close", path |-> s.path, value |-> s.value]
        /\ \A k \in DOMAIN todo : k # 1 => todo'[k] = todo[k]
      BY <1>15, CreatingCalls
  <2>4. todo'[1].path = q /\ todo'[1].call = "close" /\ todo'[1].value = s.value
      BY <1>12, <2>3
  <2>5. \A v : ClosesNext(q, v) <=> s.value = v
      BY <1>1, <1>5, <1>12, <2>3, <2>4
  <2>6. \A v : WillHold(q, v)' <=> s.value = v
      BY <1>3, <2>2, <2>5
  <2> QED
      BY <1>9, <1>15, <2>2, <2>6
<1>16. \A v : (WillHold(q, v)' <=> WillHold(q, v)) /\ (Holds(q, v)' => WillHold(q, v))
    BY <1>13, <1>14, <1>15, CreatingStep
<1>11. \A p, v : p # q => (WillHold(p, v)' <=> WillHold(p, v))
    BY <1>2, <1>3, <1>4, <1>6, <1>7, <1>12
<1> HIDE DEF Closes, ClosesNext
<1>17. \A p, v : WillHold(p, v)' <=> WillHold(p, v)
    BY <1>11, <1>16
<1>18. \A p, v : Holds(p, v)' => \/ p # s.path /\ Holds(p, v)
                                 \/ p = s.path /\ WillHold(p, v)
    BY <1>4, <1>12, <1>16
<1> QED
    BY <1>17, <1>18

\* What is left of the calls once the first is done, or done in part.
LEMMA TailShapes ==
    ASSUME CallShapes, todo # <<>>, todo' = Tail(todo)
    PROVE  /\ CallShapes'
           /\ \A p : IsRemoved(p)' <=> \E k \in DOMAIN todo : k # 1 /\ RemovedBy(todo[k], p)
<1>1. IsASequence(todo)
    BY DEF CallShapes
<1>2. /\ IsASequence(todo')
      /\ \A k \in DOMAIN todo' : k + 1 \in DOMAIN todo /\ k + 1 # 1 /\ todo'[k] = todo[k + 1]
      /\ \A k \in DOMAIN todo : k # 1 => k - 1 \in DOMAIN todo' /\ todo'[k - 1] = todo[k]
    BY <1>1, HeadTail
<1>3. (\A k \in DOMAIN todo' : Creating(todo'[k])) \/ (\A k \in DOMAIN todo' : Removing(todo'[k]))
  <2>1. CASE \A k \in DOMAIN todo : Creating(todo[k])
      BY <1>2, <2>1
  <2>2. CASE \A k \in DOMAIN todo : Removing(todo[k])
      BY <1>2, <2>2
  <2> QED
      BY <2>1, <2>2 DEF CallShapes
<1>4. \A k \in DOMAIN todo' : CallShape(todo'[k])
    BY <1>2 DEF CallShapes
<1>5. ASSUME NEW p
      PROVE  IsRemoved(p)' <=> \E k \in DOMAIN todo : k # 1 /\ RemovedBy(todo[k], p)
  <2>1. ASSUME NEW k \in DOMAIN todo', RemovedBy(todo'[k], p)
        PROVE  \E j \in DOMAIN todo : j # 1 /\ RemovedBy(todo[j], p)
      BY <1>2, <2>1
  <2>2. ASSUME NEW k \in DOMAIN todo, k # 1, RemovedBy(todo[k], p)
        PROVE  \E j \in DOMAIN todo' : RemovedBy(todo'[j], p)
      BY <1>2, <2>2
  <2> QED
      BY <2>1, <2>2 DEF IsRemoved
<1> QED
    BY <1>2, <1>3, <1>4, <1>5 DEF CallShapes

\* The first call is left with less to do: the calls keep their shape, and remove what is left.
LEMMA FirstShapes ==
    ASSUME CallShapes, todo # <<>>, NEW left, todo' = [todo EXCEPT ![1] = left], CallShape(left),
           Creating(todo[1]) => Creating(left), Removing(todo[1]) => Removing(left)
    PROVE  /\ CallShapes'
           /\ \A p : IsRemoved(p)' <=> \/ RemovedBy(left, p)
                                       \/ \E k \in DOMAIN todo : k # 1 /\ RemovedBy(todo[k], p)
<1>1. IsASequence(todo)
    BY DEF CallShapes
<1>2. 1 \in DOMAIN todo /\ DOMAIN todo = 1 .. Len(todo) /\ Len(todo) \in Nat
    BY <1>1, HeadTail
<1>3. DOMAIN todo' = DOMAIN todo /\ todo'[1] = left /\ \A k \in DOMAIN todo : k # 1 => todo'[k] = todo[k]
    BY <1>2
<1>4. IsASequence(todo')
  <2>1. todo' = [k \in 1 .. Len(todo) |-> todo'[k]]
      BY <1>2
  <2> QED
      BY <1>2, <2>1, Listing
<1>5. (\A k \in DOMAIN todo' : Creating(todo'[k])) \/ (\A k \in DOMAIN todo' : Removing(todo'[k]))
  <2>1. CASE \A k \in DOMAIN todo : Creating(todo[k])
      BY <1>2, <1>3, <2>1
  <2>2. CASE \A k \in DOMAIN todo : Removing(todo[k])
      BY <1>2, <1>3, <2>2
  <2> QED
      BY <2>1, <2>2 DEF CallShapes
<1>6. \A k \in DOMAIN todo' : CallShape(todo'[k])
    BY <1>3 DEF CallShapes
<1>7. \A p : IsRemoved(p)' <=> \/ RemovedBy(left, p)
                               \/ \E k \in DOMAIN todo : k # 1 /\ RemovedBy(todo[k], p)
    BY <1>2, <1>3 DEF IsRemoved
<1> QED
    BY <1>4, <1>5, <1>6, <1>7 DEF CallShapes

\* What the calls remove is what the first removes and what the others do.
LEMMA IsRemovedSplit ==
    ASSUME CallShapes, todo # <<>>, NEW p
    PROVE  IsRemoved(p) <=> \/ RemovedBy(todo[1], p)
                            \/ \E k \in DOMAIN todo : k # 1 /\ RemovedBy(todo[k], p)
<1>1. 1 \in DOMAIN todo
    BY HeadTail DEF CallShapes
<1> QED
    BY <1>1 DEF IsRemoved

\* An entry of a directory that is removed: it is under it, and so is what is under the entry.
LEMMA Entries ==
    ASSUME NEW p, NEW q, Rooted(p), Rooted(q), IsPrefix(p, q), q # p
    PROVE  LET e == SubSeq(q, 1, Len(p) + 1)
           IN  /\ IsASequence(e) /\ Len(e) = Len(p) + 1 /\ IsPrefix(p, e) /\ IsPrefix(e, q)
<1> DEFINE e == SubSeq(q, 1, Len(p) + 1)
<1>1. IsASequence(p) /\ IsASequence(q) /\ Len(p) \in 1 .. 5 /\ Len(q) \in 1 .. 5
    BY DEF Rooted
<1>2. Len(p) <= Len(q) /\ \A i \in 1 .. Len(p) : p[i] = q[i]
    BY <1>1, PrefixAgrees
<1>3. Len(p) < Len(q)
    BY <1>1, <1>2, Same
<1>4. /\ IsASequence(e) /\ Len(e) = Len(p) + 1
      /\ \A i \in 1 .. Len(p) + 1 : e[i] = q[i]
    BY <1>1, <1>3, Cut
<1> HIDE DEF e
<1>5. IsPrefix(p, e)
    BY <1>1, <1>2, <1>4, PrefixAgrees
<1>6. IsPrefix(e, q)
    BY <1>1, <1>3, <1>4, PrefixAgrees
<1> QED
    BY <1>4, <1>5, <1>6 DEF e

\* Being beneath a path is transitive.
LEMMA PrefixChain ==
    ASSUME NEW p, NEW e, NEW q, IsASequence(p), IsASequence(e), IsASequence(q), Len(p) >= 1,
           IsPrefix(p, e), IsPrefix(e, q)
    PROVE  IsPrefix(p, q)
<1>1. Len(p) \in Nat /\ Len(e) \in Nat /\ Len(q) \in Nat
    BY DEF IsASequence
<1>2. Len(p) <= Len(e) /\ \A i \in 1 .. Len(p) : p[i] = e[i]
    BY PrefixAgrees
<1>3. Len(e) <= Len(q) /\ \A i \in 1 .. Len(e) : e[i] = q[i]
    BY <1>1, <1>2, PrefixAgrees
<1> QED
    BY <1>1, <1>2, <1>3, PrefixAgrees

\* What drops with a directory all that is in it leaves a tree.
LEMMA TreeDrop ==
    ASSUME Tree, NEW G, fs' = Drop(G),
           \A p \in DOMAIN fs : Len(p) # 1 /\ Parent(p) \in G => p \in G
    PROVE  /\ Tree'
           /\ DOMAIN fs' = DOMAIN fs \ G
           /\ \A p \in DOMAIN fs' : fs'[p] = fs[p]
<1>1. DOMAIN fs' = DOMAIN fs \ G /\ \A p \in DOMAIN fs' : fs'[p] = fs[p]
    BY DEF Drop
<1>2. \A p \in DOMAIN fs' : Rooted(p) /\ (fs'[p] \in {Dir, Touched, Truncated} \/ \E v : fs'[p] = Json(v))
    BY <1>1 DEF Tree
<1>3. \A p \in DOMAIN fs' : Len(p) # 1 => Parent(p) \in DOMAIN fs'
    BY <1>1 DEF Tree
<1> QED
    BY <1>1, <1>2, <1>3 DEF Tree

\* What is left of a dissociation when some of it is done.
LEMMA LeftOver ==
    ASSUME NEW s, NEW S, NEW T, s = [call |-> "dissociate", of |-> s.of, second |-> s.second]
    PROVE  [s EXCEPT !.of = S, !.second = T] = [call |-> "dissociate", of |-> S, second |-> T]
<1>1. DOMAIN s = {"call", "of", "second"} /\ s.call = "dissociate"
    OBVIOUS
<1>2. [s EXCEPT !.of = S, !.second = T]
          = [k \in {"call", "of", "second"} |-> IF k = "second" THEN T ELSE IF k = "of" THEN S ELSE s[k]]
    BY <1>1
<1> QED
    BY <1>1, <1>2

\* A step of a function that removes: of the files only what the calls remove goes, and with a
\* directory all that is in it; and what is no longer called for is gone.
LEMMA RemovingStep ==
    ASSUME Tree, CallShapes, Step, Removing(todo[1])
    PROVE  /\ Tree' /\ CallShapes'
           /\ \A k \in DOMAIN todo : Removing(todo[k])
           /\ \A k \in DOMAIN todo' : Removing(todo'[k])
           /\ DOMAIN fs' \subseteq DOMAIN fs /\ \A p \in DOMAIN fs' : fs'[p] = fs[p]
           /\ \A p : IsRemoved(p)' => IsRemoved(p)
           /\ \A p : IsRemoved(p) => IsRemoved(p)' \/ p \notin DOMAIN fs'
           /\ \A p \in DOMAIN fs : p \in DOMAIN fs' \/ IsRemoved(p)
<1> DEFINE s == todo[1]
<1>1. todo # <<>> /\ IsASequence(todo)
    BY DEF Step, CallShapes
<1>2. s = Head(todo) /\ 1 \in DOMAIN todo
    BY <1>1, HeadTail
<1>3. \A k \in DOMAIN todo : Removing(todo[k])
    BY <1>2 DEF CallShapes, Creating, Removing
<1>4. Dissociates(s) \/ Removes(s)
    BY <1>2 DEF Step, Creates, Removing
<1>5. CallShape(s)
    BY <1>2 DEF CallShapes
<1>6. \A p : IsRemoved(p) <=> \/ RemovedBy(s, p)
                              \/ \E k \in DOMAIN todo : k # 1 /\ RemovedBy(todo[k], p)
    BY <1>1, IsRemovedSplit
<1> DEFINE Done ==
               /\ Tree' /\ CallShapes'
               /\ \A k \in DOMAIN todo' : Removing(todo'[k])
               /\ DOMAIN fs' \subseteq DOMAIN fs /\ \A p \in DOMAIN fs' : fs'[p] = fs[p]
               /\ \A p : IsRemoved(p)' => IsRemoved(p)
               /\ \A p : IsRemoved(p) => IsRemoved(p)' \/ p \notin DOMAIN fs'
               /\ \A p \in DOMAIN fs : p \in DOMAIN fs' \/ IsRemoved(p)
<1>7. SUFFICES Done
    BY <1>3
<1>8. \A p \in DOMAIN fs : IsASequence(p) /\ Rooted(p) /\ Len(p) \in 1 .. 5
    BY DEF Tree, Rooted
\* one association's file
<1>9. ASSUME NEW q, IsASequence(q), Len(q) = 5
      PROVE  \A p \in DOMAIN fs : Len(p) # 1 /\ Parent(p) \in {q} => p \in {q}
  <2>1. ASSUME NEW p \in DOMAIN fs, Len(p) # 1, Parent(p) = q
        PROVE  FALSE
    <3>1. IsASequence(p) /\ Len(p) \in 1 .. 5
        BY <1>8
    <3>3. Len(p) \in 2 .. 5 /\ Len(p) - 1 # 5
        BY <2>1, <3>1
    <3>2. Len(Parent(p)) = Len(p) - 1
        BY <3>1, <3>3, Parents
    <3> QED
        BY <1>9, <2>1, <3>2, <3>3
  <2> QED
      BY <2>1
<1>10. ASSUME NEW left, todo' = IF left.of = {} /\ left.second = {} THEN Tail(todo) ELSE [todo EXCEPT ![1] = left],
              CallShape(left), left.call = "dissociate"
       PROVE  /\ CallShapes' /\ \A k \in DOMAIN todo' : Removing(todo'[k])
              /\ \A p : IsRemoved(p)' <=> \/ Ended(left, p)
                                          \/ \E k \in DOMAIN todo : k # 1 /\ RemovedBy(todo[k], p)
  <2>1. CASE left.of = {} /\ left.second = {}
    <3>1. todo' = Tail(todo)
        BY <1>10, <2>1
    <3>2. \A p : ~Ended(left, p)
        BY <2>1 DEF Ended
    <3>3. \A k \in DOMAIN todo' : Removing(todo'[k])
        BY <1>1, <1>3, <3>1, HeadTail
    <3> QED
        BY <1>1, <3>1, <3>2, <3>3, TailShapes
  <2>2. CASE ~(left.of = {} /\ left.second = {})
    <3>1. todo' = [todo EXCEPT ![1] = left]
        BY <1>10, <2>2
    <3>2. Removing(left)
        BY <1>10 DEF Removing
    <3>3. ~Creating(s)
        BY DEF Creating, Removing
    <3>4. \A k \in DOMAIN todo' : Removing(todo'[k])
        BY <1>3, <3>1, <3>2
    <3>5. \A p : RemovedBy(left, p) <=> Ended(left, p)
        BY <1>10 DEF RemovedBy
    <3> QED
        BY <1>1, <1>10, <3>1, <3>2, <3>3, <3>4, <3>5, FirstShapes
  <2> QED
      BY <2>1, <2>2
<1>11. CASE Dissociates(s)
  <2>1. s.call = "dissociate" /\ \A p : RemovedBy(s, p) <=> Ended(s, p)
      BY <1>11 DEF Dissociates, RemovedBy
  <2>2. /\ s = [call |-> "dissociate", of |-> s.of, second |-> s.second]
        /\ s.of \subseteq Ties
        /\ \A p \in s.second : \E as \in Ties : s.second = {p} /\ p = SideFile(as, 2)
      BY <1>5, <2>1 DEF CallShape
  <2>3. ASSUME NEW q \in s.second, fs' = Drop({q}), NEW left, left = [s EXCEPT !.second = {}],
               todo' = IF left.of = {} /\ left.second = {} THEN Tail(todo) ELSE [todo EXCEPT ![1] = left]
        PROVE  Done
    <3>1. IsASequence(q) /\ Len(q) = 5 /\ s.second = {q}
        BY <2>2, SideShapes
    <3>2. left = [call |-> "dissociate", of |-> s.of, second |-> {}]
      <4> HIDE DEF s
      <4> QED
          BY <2>2, <2>3
    <3>3. left.call = "dissociate" /\ left.of = s.of /\ left.second = {}
        BY <3>2
    <3>4. CallShape(left)
        BY <2>2, <3>2, <3>3 DEF CallShape
    <3>5. /\ Tree' /\ DOMAIN fs' = DOMAIN fs \ {q} /\ \A p \in DOMAIN fs' : fs'[p] = fs[p]
        BY <1>9, <2>3, <3>1, TreeDrop
    <3>6. /\ CallShapes' /\ \A k \in DOMAIN todo' : Removing(todo'[k])
          /\ \A p : IsRemoved(p)' <=> \/ Ended(left, p)
                                      \/ \E k \in DOMAIN todo : k # 1 /\ RemovedBy(todo[k], p)
        BY <1>10, <2>3, <3>3, <3>4
    <3>7. \A p : Ended(s, p) <=> Ended(left, p) \/ p = q
        BY <3>1, <3>3 DEF Ended
    <3> QED
        BY <1>6, <2>1, <3>5, <3>6, <3>7
  <2>4. ASSUME NEW as \in s.of, s.second = {}, fs' = Drop({SideFile(as, 1)}), NEW left,
               left = [s EXCEPT !.of = @ \ {as}, !.second = {SideFile(as, 2)} \cap DOMAIN fs],
               todo' = IF left.of = {} /\ left.second = {} THEN Tail(todo) ELSE [todo EXCEPT ![1] = left]
        PROVE  Done
    <3>1. /\ as \in Ties /\ IsASequence(SideFile(as, 1)) /\ Len(SideFile(as, 1)) = 5
        BY <2>2, <2>4, SideShapes
    <3>2. left = [call |-> "dissociate", of |-> s.of \ {as}, second |-> {SideFile(as, 2)} \cap DOMAIN fs]
      <4> HIDE DEF s
      <4> QED
          BY <2>2, <2>4, LeftOver
    <3>3. left.call = "dissociate" /\ left.of = s.of \ {as} /\ left.second = {SideFile(as, 2)} \cap DOMAIN fs
        BY <3>2
    <3>4. CallShape(left)
      <4>1. \A p \in left.second : left.second = {p} /\ p = SideFile(as, 2)
          BY <3>3
      <4> QED
          BY <2>2, <3>1, <3>2, <3>3, <4>1 DEF CallShape
    <3>5. /\ Tree' /\ DOMAIN fs' = DOMAIN fs \ {SideFile(as, 1)} /\ \A p \in DOMAIN fs' : fs'[p] = fs[p]
      <4>1. \A p \in DOMAIN fs : Len(p) # 1 /\ Parent(p) \in {SideFile(as, 1)} => p \in {SideFile(as, 1)}
          BY <1>9, <3>1
      <4> QED
          BY <2>4, <4>1, TreeDrop
    <3>6. /\ CallShapes' /\ \A k \in DOMAIN todo' : Removing(todo'[k])
          /\ \A p : IsRemoved(p)' <=> \/ Ended(left, p)
                                      \/ \E k \in DOMAIN todo : k # 1 /\ RemovedBy(todo[k], p)
        BY <1>10, <2>4, <3>3, <3>4
    <3>7. \A p : Ended(left, p) => Ended(s, p)
        BY <2>4, <3>3 DEF Ended
    <3>8. \A p : Ended(s, p) => \/ Ended(left, p) \/ p = SideFile(as, 1)
                                \/ p = SideFile(as, 2) /\ p \notin DOMAIN fs
        BY <2>4, <3>3 DEF Ended
    <3>9. Ended(s, SideFile(as, 1))
        BY DEF Ended
    <3> QED
        BY <1>6, <2>1, <3>5, <3>6, <3>7, <3>8, <3>9
  <2> QED
      BY <1>11, <2>3, <2>4 DEF Dissociates
<1>12. CASE Removes(s)
  <2>1. s.call = "remove_all" /\ \A p : RemovedBy(s, p) <=> IsPrefix(s.path, p)
      BY <1>12 DEF Removes, RemovedBy
  <2>2. Rooted(s.path) /\ IsASequence(s.path) /\ Len(s.path) \in 1 .. 5
      BY <1>5, <2>1 DEF CallShape, Rooted
  <2>3. ASSUME \A q \in Under(s.path) : q = s.path, fs' = Drop({s.path}), todo' = Tail(todo)
        PROVE  Done
    <3>1. /\ CallShapes'
          /\ \A p : IsRemoved(p)' <=> \E k \in DOMAIN todo : k # 1 /\ RemovedBy(todo[k], p)
        BY <1>1, <2>3, TailShapes
    <3>2. \A k \in DOMAIN todo' : Removing(todo'[k])
        BY <1>1, <1>3, <2>3, HeadTail
    <3>3. ASSUME NEW p \in DOMAIN fs, Len(p) # 1, Parent(p) = s.path
          PROVE  p = s.path
      <4>0. IsASequence(p) /\ Len(p) \in 1 .. 5
          BY <1>8
      <4>1. IsASequence(p) /\ Len(p) \in 2 .. 5
          BY <3>3, <4>0
      <4>2. IsPrefix(s.path, p)
        <5>1. Len(s.path) = Len(p) - 1 /\ \A i \in 1 .. Len(p) - 1 : s.path[i] = p[i]
            BY <3>3, <4>1, Parents
        <5>3. Len(s.path) >= 1 /\ Len(s.path) <= Len(p) /\ Len(p) - 1 = Len(s.path)
          <6>1. \A m, n \in 1 .. 5 : m = n - 1 => m >= 1 /\ m <= n /\ n - 1 = m
              OBVIOUS
          <6> QED
              BY <2>2, <4>0, <5>1, <6>1
        <5>2. Len(s.path) >= 1 /\ Len(s.path) <= Len(p) /\ \A i \in 1 .. Len(s.path) : s.path[i] = p[i]
            BY <5>1, <5>3
        <5> QED
            BY <2>2, <4>1, <5>2, PrefixAgrees
      <4> QED
          BY <2>3, <4>2 DEF Under
    <3>4. Tree' /\ DOMAIN fs' = DOMAIN fs \ {s.path} /\ \A p \in DOMAIN fs' : fs'[p] = fs[p]
        BY <2>3, <3>3, TreeDrop
    <3>5. \A p \in DOMAIN fs : IsPrefix(s.path, p) => p = s.path
        BY <2>3 DEF Under
    <3>6. IsPrefix(s.path, s.path)
        BY <2>2, PrefixAgrees
    <3> QED
        BY <1>6, <2>1, <3>1, <3>2, <3>4, <3>5, <3>6
  <2>4. ASSUME NEW q \in Under(s.path), q # s.path, fs' = Drop(Under(SubSeq(q, 1, Len(s.path) + 1))),
               todo' = todo
        PROVE  Done
    <3>1. PICK e : e = SubSeq(q, 1, Len(s.path) + 1)
        OBVIOUS
    <3>2. IsASequence(e) /\ Len(e) = Len(s.path) + 1 /\ IsPrefix(s.path, e)
        BY <1>8, <2>2, <2>4, <3>1, Entries DEF Under
    <3>3. ASSUME NEW p \in DOMAIN fs, Len(p) # 1, Parent(p) \in Under(e)
          PROVE  p \in Under(e)
      <4>0. IsASequence(p) /\ Len(p) \in 1 .. 5
          BY <1>8
      <4>1. IsASequence(p) /\ Len(p) \in 2 .. 5
          BY <3>3, <4>0
      <4>2. IsASequence(Parent(p)) /\ IsPrefix(Parent(p), p)
        <5>0. /\ IsASequence(Parent(p)) /\ Len(Parent(p)) = Len(p) - 1
              /\ \A i \in 1 .. Len(p) - 1 : Parent(p)[i] = p[i]
            BY <4>1, Parents
        <5>1. /\ IsASequence(Parent(p)) /\ Len(Parent(p)) >= 1
              /\ Len(Parent(p)) <= Len(p) /\ \A i \in 1 .. Len(Parent(p)) : Parent(p)[i] = p[i]
            BY <4>1, <5>0
        <5> QED
            BY <4>1, <5>1, PrefixAgrees
      <4>3. IsPrefix(e, p)
          BY <2>2, <3>2, <3>3, <4>1, <4>2, PrefixChain DEF Under
      <4> QED
          BY <4>3 DEF Under
    <3>4. Tree' /\ DOMAIN fs' = DOMAIN fs \ Under(e) /\ \A p \in DOMAIN fs' : fs'[p] = fs[p]
        BY <2>4, <3>1, <3>3, TreeDrop
    <3>5. \A p \in Under(e) : p \in DOMAIN fs /\ IsPrefix(s.path, p)
      <4>1. ASSUME NEW p \in DOMAIN fs, IsPrefix(e, p)
            PROVE  IsPrefix(s.path, p)
        <5>1. IsASequence(p)
            BY <1>8
        <5>2. Len(s.path) >= 1
            BY <2>2
        <5> QED
            BY <2>2, <3>2, <4>1, <5>1, <5>2, PrefixChain
      <4> QED
          BY <4>1 DEF Under
    <3>6. CallShapes' /\ \A p : IsRemoved(p)' <=> IsRemoved(p)
        BY <2>4 DEF CallShapes, IsRemoved
    <3> QED
        BY <1>3, <1>6, <2>1, <2>4, <3>4, <3>5, <3>6
  <2>5. CASE Under(s.path) \ {s.path} = {}
    <3>1. {SubSeq(q, 1, Len(s.path) + 1) : q \in Under(s.path) \ {s.path}} = {}
        BY <2>5
    <3>2. fs' = Drop({s.path}) /\ todo' = Tail(todo)
        BY <1>12, <3>1 DEF Removes
    <3> QED
        BY <2>3, <2>5, <3>2
  <2>6. CASE Under(s.path) \ {s.path} # {}
    <3>1. {SubSeq(q, 1, Len(s.path) + 1) : q \in Under(s.path) \ {s.path}} # {}
        BY <2>6
    <3>2. \E q \in Under(s.path) \ {s.path} : fs' = Drop(Under(SubSeq(q, 1, Len(s.path) + 1))) /\ todo' = todo
        BY <1>12, <3>1 DEF Removes
    <3> QED
        BY <2>4, <3>2
  <2> QED
      BY <2>5, <2>6
<1> QED
    BY <1>4, <1>11, <1>12

\* A call that removes changes nothing of what will be there or of what it will hold.
LEMMA RemovingWill ==
    ASSUME Tree, CallShapes, Step, Removing(todo[1])
    PROVE  /\ \A p : WillExist(p)' <=> WillExist(p)
           /\ \A p, v : WillHold(p, v)' <=> WillHold(p, v)
           /\ \A p : Exists(p)' => Exists(p)
           /\ \A p : WillExist(p) => Exists(p)'
           /\ \A p, v : Holds(p, v)' => Holds(p, v)
<1>1. DOMAIN fs' \subseteq DOMAIN fs /\ \A p \in DOMAIN fs' : fs'[p] = fs[p]
    BY RemovingStep
<1>2. \A p : IsRemoved(p)' => IsRemoved(p)
    BY RemovingStep
<1>3. \A p : IsRemoved(p) => IsRemoved(p)' \/ p \notin DOMAIN fs'
    BY RemovingStep
<1>4. \A p \in DOMAIN fs : p \in DOMAIN fs' \/ IsRemoved(p)
    BY RemovingStep
<1>5. \A k \in DOMAIN todo : ~Creating(todo[k]) /\ todo[k].call \notin {"open", "close"}
    BY RemovingStep DEF Creating, Removing
<1>6. \A k \in DOMAIN todo' : ~Creating(todo'[k]) /\ todo'[k].call \notin {"open", "close"}
    BY RemovingStep DEF Creating, Removing
<1>7. \A p : ~IsMade(p) /\ ~IsMade(p)'
    BY <1>5, <1>6 DEF IsMade
<1>8. \A p : WillExist(p) <=> p \in DOMAIN fs /\ ~IsRemoved(p)
    BY <1>7 DEF WillExist, Exists
<1>9. \A p : WillExist(p)' <=> p \in DOMAIN fs' /\ ~IsRemoved(p)'
    BY <1>7 DEF WillExist, Exists
<1>10. \A p : WillExist(p)' <=> WillExist(p)
    BY <1>1, <1>2, <1>3, <1>4, <1>8, <1>9
<1>11. \A p, v : WillHold(p, v) <=> ~IsRemoved(p) /\ p \in DOMAIN fs /\ fs[p] = Json(v)
    BY <1>5, <1>7 DEF WillHold, Holds, Exists
<1>12. \A p, v : WillHold(p, v)' <=> ~IsRemoved(p)' /\ p \in DOMAIN fs' /\ fs'[p] = Json(v)
    BY <1>6, <1>7 DEF WillHold, Holds, Exists
<1>13. \A p, v : WillHold(p, v)' <=> WillHold(p, v)
    BY <1>1, <1>2, <1>3, <1>4, <1>11, <1>12
<1> QED
    BY <1>1, <1>4, <1>8, <1>10, <1>13 DEF Exists, Holds

\* A call creates in a directory that exists; the calls after it still do.
LEMMA CreatingTree ==
    ASSUME Tree, CallShapes, Order, Step, Creating(todo[1])
    PROVE  Tree'
<1> DEFINE s == todo[1]
<1>1. IsASequence(todo) /\ todo # <<>> /\ 1 \in DOMAIN todo /\ DOMAIN todo = 1 .. Len(todo)
    BY HeadTail DEF CallShapes, Step
<1>2. Rooted(s.path) /\ s.call # "dissociate"
    BY <1>1 DEF CallShapes, CallShape, Creating
<1>3. Len(s.path) # 1 => Parent(s.path) \in DOMAIN fs
    BY <1>1 DEF Order, Exists
<1>4. DOMAIN fs' = DOMAIN fs \cup {s.path} /\ \A p \in DOMAIN fs : p # s.path => fs'[p] = fs[p]
    BY CreatingStep
<1>5. fs'[s.path] \in {Dir, Touched, Truncated} \/ \E v : fs'[s.path] = Json(v)
    BY CreatingStep
<1>6. \A p \in DOMAIN fs' : Rooted(p) /\ (fs'[p] \in {Dir, Touched, Truncated} \/ \E v : fs'[p] = Json(v))
    BY <1>2, <1>4, <1>5 DEF Tree
<1>7. \A p \in DOMAIN fs' : Len(p) # 1 => Parent(p) \in DOMAIN fs'
    BY <1>3, <1>4 DEF Tree
<1> QED
    BY <1>6, <1>7 DEF Tree

\* The calls keep their shape when a creating one is made, opening a file included.
LEMMA CreatingShapes ==
    ASSUME CallShapes, Order, Step, Creating(todo[1])
    PROVE  CallShapes'
<1>1. todo # <<>> /\ 1 \in DOMAIN todo
    BY HeadTail DEF CallShapes, Step
<1>2. CASE todo[1].call # "open"
    BY <1>1, <1>2, TailShapes, CreatingCalls
<1>3. CASE todo[1].call = "open"
  <2> DEFINE left == [call |-> "close", path |-> todo[1].path, value |-> todo[1].value]
  <2>1. /\ DOMAIN todo' = DOMAIN todo /\ todo'[1] = left
        /\ \A k \in DOMAIN todo : k # 1 => todo'[k] = todo[k]
      BY <1>3, CreatingCalls
  <2>2. left.call = "close" /\ left.path = todo[1].path /\ left.value = todo[1].value
      OBVIOUS
  <2>3. Rooted(left.path)
      BY <1>1, <1>3, <2>2 DEF CallShapes, CallShape
  <2>4. CallShape(left)
      BY <2>2, <2>3 DEF CallShape
  <2>5. \A k \in DOMAIN todo' : CallShape(todo'[k])
      BY <2>1, <2>4 DEF CallShapes
  <2> QED
      BY <2>5, CreatingCalls DEF CallShapes
<1> QED
    BY <1>2, <1>3

\* Nor do they lose their order: a directory is still made before what it holds.
LEMMA CreatingOrder ==
    ASSUME CallShapes, Order, Step, Creating(todo[1])
    PROVE  Order'
<1> DEFINE s == todo[1]
<1>1. IsASequence(todo) /\ todo # <<>> /\ DOMAIN todo = 1 .. Len(todo) /\ Len(todo) \in Nat \ {0}
    BY HeadTail DEF CallShapes, Step
<1>2. \A k \in DOMAIN todo : Creating(todo[k])
    BY CreatingStep
<1>3. \A p : Exists(p) \/ p = s.path => Exists(p)'
    BY CreatingStep DEF Exists
<1>4. CASE s.call # "open"
  <2>1. todo' = Tail(todo)
      BY <1>4, CreatingCalls
  <2>2. /\ \A k \in DOMAIN todo' : k + 1 \in DOMAIN todo /\ k + 1 # 1 /\ todo'[k] = todo[k + 1]
        /\ \A k \in DOMAIN todo : k # 1 => k - 1 \in DOMAIN todo' /\ todo'[k - 1] = todo[k]
        /\ DOMAIN todo' = 1 .. Len(todo) - 1
      BY <1>1, <2>1, HeadTail
  <2>3. ASSUME NEW k \in DOMAIN todo', Len(todo'[k].path) # 1
        PROVE  \/ Parent(todo'[k].path) \in DOMAIN fs'
               \/ \E j \in DOMAIN todo' : j < k /\ todo'[j].path = Parent(todo'[k].path)
    <3>1. PICK q : q = Parent(todo'[k].path)
        OBVIOUS
    <3>2. /\ k + 1 \in DOMAIN todo /\ Len(todo[k + 1].path) # 1 /\ q = Parent(todo[k + 1].path)
          /\ k \in Nat
        BY <2>2, <2>3, <3>1
    <3>3. Exists(q) \/ \E j \in DOMAIN todo : j < k + 1 /\ todo[j].path = q
        BY <1>2, <3>2 DEF Order
    <3>4. ASSUME NEW j \in DOMAIN todo, j < k + 1, todo[j].path = q, j # 1
          PROVE  j - 1 \in DOMAIN todo' /\ j - 1 < k /\ todo'[j - 1].path = q
        BY <1>1, <2>2, <3>2, <3>4
    <3>5. Exists(q)' \/ \E j \in DOMAIN todo' : j < k /\ todo'[j].path = q
        BY <1>3, <3>3, <3>4
    <3> QED
        BY <3>1, <3>5 DEF Exists
  <2>4. ASSUME NEW j \in DOMAIN todo', NEW k \in DOMAIN todo', todo'[j].path = todo'[k].path
        PROVE  j = k
    <3>1. /\ j + 1 \in DOMAIN todo /\ k + 1 \in DOMAIN todo /\ todo[j + 1].path = todo[k + 1].path
          /\ j \in Nat /\ k \in Nat
        BY <2>2, <2>4
    <3>2. j + 1 = k + 1
        BY <1>2, <3>1 DEF Order
    <3> QED
        BY <3>1, <3>2
  <2> QED
      BY <1>2, <2>3, <2>4 DEF Order, Exists
<1>5. CASE s.call = "open"
  <2>1. /\ DOMAIN todo' = DOMAIN todo
        /\ todo'[1] = [call |-> "close", path |-> s.path, value |-> s.value]
        /\ \A k \in DOMAIN todo : k # 1 => todo'[k] = todo[k]
      BY <1>5, CreatingCalls
  <2>2. \A k \in DOMAIN todo : todo'[k].path = todo[k].path
      BY <2>1
  <2>4. ASSUME NEW k \in DOMAIN todo', Len(todo'[k].path) # 1
        PROVE  \/ Parent(todo'[k].path) \in DOMAIN fs'
               \/ \E j \in DOMAIN todo' : j < k /\ todo'[j].path = Parent(todo'[k].path)
      BY <1>2, <1>3, <2>1, <2>2, <2>4 DEF Order, Exists
  <2>5. ASSUME NEW j \in DOMAIN todo', NEW k \in DOMAIN todo', todo'[j].path = todo'[k].path
        PROVE  j = k
      BY <1>2, <2>1, <2>2, <2>5 DEF Order
  <2> QED
      BY <1>2, <2>4, <2>5 DEF Order, Exists
<1> QED
    BY <1>4, <1>5

\* A step keeps the tree and what the calls are, and changes nothing of what will be there.
LEMMA StepGround ==
    ASSUME Tree, CallShapes, Order, Step
    PROVE  /\ Tree' /\ CallShapes' /\ Order'
           /\ Creating(todo[1]) \/ Removing(todo[1])
           /\ \A p : WillExist(p)' <=> WillExist(p)
           /\ \A p, v : WillHold(p, v)' <=> WillHold(p, v)
<1>1. Creating(todo[1]) \/ Removing(todo[1])
    BY HeadTail DEF CallShapes, Step
<1>2. CASE Creating(todo[1])
    BY <1>2, CreatingTree, CreatingShapes, CreatingOrder, CreatingWill, CreatingHold
<1>3. CASE Removing(todo[1])
  <2>1. Tree' /\ CallShapes' /\ \A k \in DOMAIN todo' : Removing(todo'[k])
      BY <1>3, RemovingStep
  <2>2. Order'
      BY <2>1 DEF Order, Creating, Removing
  <2> QED
      BY <1>3, <2>1, <2>2, RemovingWill
<1> QED
    BY <1>1, <1>2, <1>3

\* What the entries of the tree are.
LEMMA EntryTypes ==
    ASSUME NEW x, x \in {Dir, Touched, Truncated} \/ \E v : x = Json(v)
    PROVE  /\ x.type \in {"dir", "file", "truncated", "json"}
           /\ x.type = "json" => x = Json(x.value)
<1>1. Dir.type = "dir" /\ Touched.type = "file" /\ Truncated.type = "truncated"
    BY DEF Dir, Touched, Truncated
<1>2. \A v : Json(v).type = "json" /\ Json(v).value = v
    BY DEF Json
<1> QED
    BY <1>1, <1>2

\* The types outlast a call of the file system.
LEMMA StepTypeOK ==
    ASSUME TypeOK, Tree', Step
    PROVE  TypeOK'
<1>1. \A p \in DOMAIN fs' : fs'[p].type \in {"dir", "file", "truncated", "json"}
    BY EntryTypes DEF Tree
<1>2. doing' = doing /\ doubt' = doubt /\ crashes' = crashes /\ made' = IF todo' = <<>> THEN doing ELSE made
    BY DEF Step
<1> QED
    BY <1>1, <1>2 DEF TypeOK

\* What is promised is left alone by a call, and kept when the last one is made.
LEMMA StepPromises ==
    ASSUME Promises, Step
    PROVE  Promises'
<1>1. doing' = doing /\ made' \in {made, doing}
    BY DEF Step
<1> QED
    BY <1>1 DEF Promises

\* Of what the function does not change, a step leaves what is there; once it is done, what is
\* there is what was to be.
LEMMA StepLinked ==
    ASSUME Tree, CallShapes, Order, Linked, Step
    PROVE  Linked'
<1>1. /\ Creating(todo[1]) \/ Removing(todo[1])
      /\ \A p : WillExist(p)' <=> WillExist(p)
    BY StepGround
<1>2. doing' = doing /\ doubt' = doubt /\ made' = IF todo' = <<>> THEN doing ELSE made
    BY DEF Step
<1>3. SUFFICES ASSUME NEW as \in Associations \ doubt
               PROVE  WillBeLinked(as)' /\ IsLinked(as)'
    BY <1>2 DEF Linked
<1> DEFINE p == SideFile(as, 1)
           q == SideFile(as, 2)
<1>4. WillBeLinked(as) /\ IsLinked(as)
    BY DEF Linked
<1>5. WillBeLinked(as)'
    BY <1>1, <1>2, <1>4 DEF WillBeLinked
<1>6. /\ as \in doing.links => WillExist(p) /\ WillExist(q)
      /\ as \notin doing.links => ~WillExist(p) /\ (as[1] = "group-account" => ~WillExist(q))
      /\ as \in made.links /\ as \in doing.links => Exists(p) /\ Exists(q)
      /\ as \notin made.links /\ as \notin doing.links =>
           ~Exists(p) /\ (as[1] = "group-account" => ~Exists(q))
    BY <1>4 DEF WillBeLinked, IsLinked
<1>7. SUFFICES /\ as \in made'.links /\ as \in doing'.links => Exists(p)' /\ Exists(q)'
               /\ as \notin made'.links /\ as \notin doing'.links =>
                    ~Exists(p)' /\ (as[1] = "group-account" => ~Exists(q)')
    BY <1>5 DEF IsLinked
<1> HIDE DEF p, q
<1>8. CASE todo' = <<>>
  <2>1. \A f : WillExist(f) <=> Exists(f)'
      BY <1>1, <1>8, AtRestNext
  <2>2. (Exists(p)' <=> WillExist(p)) /\ (Exists(q)' <=> WillExist(q))
      BY <2>1 DEF p, q
  <2> QED
      BY <1>2, <1>6, <1>8, <2>2
<1>9. CASE todo' # <<>> /\ Creating(todo[1])
  <2>1. \A f : (Exists(f) => Exists(f)') /\ (Exists(f)' => WillExist(f))
      BY <1>9, CreatingWill
  <2>2. /\ Exists(p) => Exists(p)' 
        /\ Exists(p)' => WillExist(p)
        /\ Exists(q) => Exists(q)'
        /\ Exists(q)' => WillExist(q)
      BY <2>1 DEF p, q
  <2> QED
      BY <1>2, <1>6, <1>9, <2>2
<1>10. CASE todo' # <<>> /\ Removing(todo[1])
  <2>1. \A f : (Exists(f)' => Exists(f)) /\ (WillExist(f) => Exists(f)')
      BY <1>10, RemovingWill
  <2>2. /\ Exists(p)' => Exists(p)
        /\ WillExist(p) => Exists(p)'
        /\ Exists(q)' => Exists(q)
        /\ WillExist(q) => Exists(q)'
      BY <2>1 DEF p, q
  <2> QED
      BY <1>2, <1>6, <1>10, <2>2
<1> QED
    BY <1>1, <1>8, <1>9, <1>10

\* A password that is there or is written now, and an activation that is there or is written now,
\* are both those that will be, or both those that are there.
LEMMA CreatingAccount ==
    ASSUME PlainNames, CallShapes, Order, Step, Creating(todo[1]), NEW acct \in Accounts,
           ActivationFirst(acct), NEW i, NEW x, NEW y, Holds(Act(acct), x)', Holds(Pass(acct, i), y)'
    PROVE  \/ Holds(Act(acct), x) /\ Holds(Pass(acct, i), y)
           \/ WillHold(Act(acct), x) /\ WillHold(Pass(acct, i), y)
<1> DEFINE s == todo[1]
<1>0. PICK p, q : p = Act(acct) /\ q = Pass(acct, i)
    OBVIOUS
<1>1. 1 \in DOMAIN todo /\ DOMAIN todo = 1 .. Len(todo)
    BY HeadTail DEF CallShapes, Step
<1>2. p # q
    BY <1>0, AccountsApart
<1>3. \A f, v : Holds(f, v)' => \/ f # s.path /\ Holds(f, v)
                                \/ f = s.path /\ WillHold(f, v)
    BY CreatingHold
<1>4. Holds(p, x)' /\ Holds(q, y)'
    BY <1>0
<1>5. IsMade(s.path) /\ \A f : ~IsRemoved(f)
    BY CreatingMade
<1>6. \A k \in DOMAIN todo : Creating(todo[k])
    BY CreatingStep
<1>7. CASE p = s.path
  <2>1. WillHold(p, x) /\ Holds(q, y)
      BY <1>2, <1>3, <1>4, <1>7
  <2>2. ~IsMade(q)
    <3>1. SUFFICES ASSUME NEW k \in DOMAIN todo, todo[k].path = q
                   PROVE  FALSE
        BY DEF IsMade
    <3>2. IsMade(Act(acct))
        BY <1>0, <1>5, <1>7
    <3>3. ~Exists(Pass(acct, i))
        BY <1>0, <1>6, <3>1, <3>2 DEF ActivationFirst
    <3> QED
        BY <1>0, <2>1, <3>3 DEF Holds
  <2>3. WillHold(q, y)
      BY <1>5, <2>1, <2>2 DEF WillHold
  <2> QED
      BY <1>0, <2>1, <2>3
<1>8. CASE q = s.path
  <2>1. WillHold(q, y) /\ Holds(p, x)
      BY <1>2, <1>3, <1>4, <1>8
  <2>2. ~IsMade(p)
    <3>1. Creating(todo[1]) /\ todo[1].path = Pass(acct, i)
        BY <1>0, <1>8
    <3>2. IsMade(Act(acct)) => \E j \in DOMAIN todo : j < 1
        BY <1>1, <3>1 DEF ActivationFirst
    <3>3. ~ \E j \in DOMAIN todo : j < 1
        BY <1>1
    <3> QED
        BY <1>0, <3>2, <3>3
  <2>3. WillHold(p, x)
      BY <1>5, <2>1, <2>2 DEF WillHold
  <2> QED
      BY <1>0, <2>1, <2>3
<1>9. CASE p # s.path /\ q # s.path
    BY <1>0, <1>3, <1>4, <1>9
<1> QED
    BY <1>7, <1>8, <1>9


\* A new account's activation still comes before its passwords.
LEMMA StepActivationFirst ==
    ASSUME PlainNames, Tree, CallShapes, Order, Step, NEW acct \in Accounts, ActivationFirst(acct)
    PROVE  ActivationFirst(acct)'
<1>1. PICK a : a = Act(acct)
    OBVIOUS
<1>2. SUFFICES ASSUME NEW k \in DOMAIN todo', NEW i, NEW q, q = Pass(acct, i),
                      Creating(todo'[k]), todo'[k].path = q, IsMade(a)'
               PROVE  ~Exists(q)' /\ \E j \in DOMAIN todo' : j < k /\ todo'[j].path = a
    BY <1>1 DEF ActivationFirst
<1>3. Creating(todo[1])
  <2>1. CASE Removing(todo[1])
      BY <1>2, <2>1, RemovingStep DEF Creating, Removing
  <2> QED
      BY <2>1, StepGround
<1>4. /\ IsASequence(todo) /\ todo # <<>> /\ 1 \in DOMAIN todo /\ DOMAIN todo = 1 .. Len(todo)
      /\ Len(todo) \in Nat
    BY HeadTail DEF CallShapes, Step
<1>5. IsMade(a)
    BY <1>2, <1>3, CreatingMade
<1>6. \A j \in DOMAIN todo : Creating(todo[j])
    BY <1>3, CreatingStep
<1>7. \A j \in DOMAIN todo : todo[j].path = q =>
          ~Exists(q) /\ \E h \in DOMAIN todo : h < j /\ todo[h].path = a
    BY <1>1, <1>2, <1>5, <1>6 DEF ActivationFirst
<1>8. todo[1].path # q
    BY <1>4, <1>7
<1>9. ~Exists(q) => ~Exists(q)'
    BY <1>3, <1>8, CreatingStep DEF Exists
<1>10. CASE todo[1].call # "open"
  <2>1. todo' = Tail(todo) /\ ~(a = todo[1].path)
      BY <1>2, <1>3, <1>10, CreatingCalls, CreatingMade
  <2>2. /\ k + 1 \in DOMAIN todo /\ k \in Nat /\ todo[k + 1].path = q
        /\ \A h \in DOMAIN todo : h # 1 => h - 1 \in DOMAIN todo' /\ todo'[h - 1] = todo[h]
      BY <1>2, <1>4, <2>1, HeadTail
  <2>3. PICK h \in DOMAIN todo : h < k + 1 /\ todo[h].path = a
      BY <1>7, <2>2
  <2>4. h # 1 /\ h \in Nat
      BY <1>4, <2>1, <2>3
  <2>5. h - 1 \in DOMAIN todo' /\ todo'[h - 1].path = a /\ h - 1 < k
      BY <2>2, <2>3, <2>4
  <2> QED
      BY <1>7, <1>9, <2>2, <2>5
<1>11. CASE todo[1].call = "open"
  <2>1. /\ DOMAIN todo' = DOMAIN todo
        /\ todo'[1] = [call |-> "close", path |-> todo[1].path, value |-> todo[1].value]
        /\ \A j \in DOMAIN todo : j # 1 => todo'[j] = todo[j]
      BY <1>3, <1>11, CreatingCalls
  <2>2. \A j \in DOMAIN todo : todo'[j].path = todo[j].path
      BY <2>1
  <2> QED
      BY <1>2, <1>7, <1>9, <2>1, <2>2
<1> QED
    BY <1>10, <1>11

\* What holds of an account outlasts any call of the file system (mkdir, saveJSONFile, unlink,
\* remove_all).
LEMMA StepAccount ==
    ASSUME PlainNames, Tree, CallShapes, Order, Step, NEW acct \in Accounts,
           WillBeAccount(acct), IsAccount(acct), ActivationFirst(acct)
    PROVE  WillBeAccount(acct)' /\ IsAccount(acct)' /\ ActivationFirst(acct)'
<1>1. /\ Creating(todo[1]) \/ Removing(todo[1])
      /\ \A p : WillExist(p)' <=> WillExist(p)
      /\ \A p, v : WillHold(p, v)' <=> WillHold(p, v)
    BY StepGround
<1>2. doing' = doing /\ doubt' = doubt /\ made' = IF todo' = <<>> THEN doing ELSE made
    BY DEF Step
<1>3. WillBeAccount(acct)'
    BY <1>1, <1>2 DEF WillBeAccount
<1>4. IsAccount(acct)'
  <2> DEFINE versions == made.accounts[acct] \cup doing.accounts[acct]
             Versions == made'.accounts[acct] \cup doing'.accounts[acct]
  <2>1. SUFFICES /\ Versions = {} => ~Exists(Home(acct))'
                 /\ \A x : Holds(Act(acct), x)' => \E v \in Versions : v.activation = x
                 /\ \A x, i, y : Holds(Act(acct), x)' /\ Holds(Pass(acct, i), y)' =>
                       \E v \in Versions : Fits(v, x, i, y)
      BY DEF IsAccount
  <2>2. CASE todo' = <<>>
    <3>1. \A p : Exists(p)' <=> WillExist(p)'
        BY <2>2, AtRestNext
    <3>2. \A p, v : Holds(p, v)' <=> WillHold(p, v)'
        BY <2>2, AtRestNext
    <3>3. Versions = doing'.accounts[acct]
        BY <1>2, <2>2
    <3> QED
        BY <1>3, <3>1, <3>2, <3>3 DEF WillBeAccount
  <2>3. CASE todo' # <<>> /\ Creating(todo[1])
    <3>1. Versions = versions
        BY <1>2, <2>3
    <3>2. Versions = {} => ~Exists(Home(acct))'
        BY <2>3, <3>1, CreatingWill DEF WillBeAccount
    <3>3. \A x : Holds(Act(acct), x)' => \E v \in Versions : v.activation = x
        BY <2>3, <3>1, CreatingHold DEF WillBeAccount, IsAccount
    <3>4. ASSUME NEW x, NEW i, NEW y, Holds(Act(acct), x)', Holds(Pass(acct, i), y)'
          PROVE  \E v \in Versions : Fits(v, x, i, y)
      <4>1. \/ Holds(Act(acct), x) /\ Holds(Pass(acct, i), y)
            \/ WillHold(Act(acct), x) /\ WillHold(Pass(acct, i), y)
          BY <2>3, <3>4, CreatingAccount
      <4>2. CASE Holds(Act(acct), x) /\ Holds(Pass(acct, i), y)
          BY <3>1, <4>2 DEF IsAccount
      <4>3. CASE WillHold(Act(acct), x) /\ WillHold(Pass(acct, i), y)
          BY <3>1, <4>3 DEF WillBeAccount
      <4> QED
          BY <4>1, <4>2, <4>3
    <3> QED
        BY <3>2, <3>3, <3>4
  <2>4. CASE todo' # <<>> /\ Removing(todo[1])
    <3>1. Versions = versions
        BY <1>2, <2>4
    <3>2. \A p : Exists(p)' => Exists(p)
        BY <2>4, RemovingWill
    <3>3. \A p, v : Holds(p, v)' => Holds(p, v)
        BY <2>4, RemovingWill
    <3> QED
        BY <3>1, <3>2, <3>3 DEF IsAccount
  <2> QED
      BY <1>1, <2>2, <2>3, <2>4
<1> QED
    BY <1>3, <1>4, StepActivationFirst

-----------------------------------------------------------------------------
(* A crash *)

\* After a crash an account may have any version it had before or was being given.
LEMMA CrashMade ==
    ASSUME Promises, Crash
    PROVE  /\ todo' = <<>> /\ fs' = fs /\ doing' = made'
           /\ made' = [links |-> made.links,
                       accounts |-> [acct \in Accounts |-> made.accounts[acct] \cup doing.accounts[acct]]]
           /\ made'.links = made.links
           /\ \A acct \in Accounts : made'.accounts[acct] = made.accounts[acct] \cup doing.accounts[acct]
<1>1. made = [links |-> made.links, accounts |-> made.accounts]
    BY DEF Promises
<1>2. made' = [made EXCEPT !.accounts =
                  [acct \in Accounts |-> made.accounts[acct] \cup doing.accounts[acct]]]
    BY DEF Crash
<1>3. made' = [links |-> made.links,
               accounts |-> [acct \in Accounts |-> made.accounts[acct] \cup doing.accounts[acct]]]
    BY <1>1, <1>2
<1> QED
    BY <1>3 DEF Crash

\* With no calls left there is nothing to order.
LEMMA NoCalls ==
    ASSUME todo' = <<>>, Tree, fs' = fs
    PROVE  Tree' /\ CallShapes' /\ Order'
<1>1. Tree'
    BY DEF Tree
<1>2. DOMAIN todo' = {} /\ todo' \in Seq({})
    OBVIOUS
<1> QED
    BY <1>1, <1>2 DEF CallShapes, Order, IsASequence

\* The types, the tree and the promises outlast a crash.
LEMMA CrashGround ==
    ASSUME TypeOK, Tree, Promises, Crash
    PROVE  TypeOK' /\ Tree' /\ CallShapes' /\ Order' /\ Promises'
<1>1. Tree' /\ CallShapes' /\ Order'
    BY CrashMade, NoCalls
<1>2. /\ made'.links = made.links /\ doing' = made' /\ fs' = fs
      /\ \A acct \in Accounts : made'.accounts[acct] = made.accounts[acct] \cup doing.accounts[acct]
    BY CrashMade
<1>3. TypeOK'
  <2>1. doubt' \subseteq Associations \cup Accounts
      BY DEF Crash, TypeOK
  <2>2. crashes' \in 0 .. MaxCrashes
      BY FilesAssumption DEF Crash, TypeOK
  <2> QED
      BY <1>2, <2>1, <2>2 DEF TypeOK
<1>4. Promises'
  <2>1. made'.accounts = [acct \in Accounts |-> made.accounts[acct] \cup doing.accounts[acct]]
        /\ made' = [links |-> made'.links, accounts |-> made'.accounts]
      BY CrashMade
  <2>2. made'.accounts = [acct \in Accounts |-> made'.accounts[acct]]
      BY <2>1
  <2>3. \A acct \in Accounts : \A v \in made'.accounts[acct] : IsVersion(v)
      BY <1>2 DEF Promises
  <2> QED
      BY <1>2, <2>1, <2>2, <2>3 DEF Promises
<1> QED
    BY <1>1, <1>3, <1>4

\* After a crash the associations nobody was changing are what they were.
LEMMA CrashLinked ==
    ASSUME TypeOK, Promises, Linked, Crash
    PROVE  Linked'
<1>1. made'.links = made.links /\ doing' = made' /\ fs' = fs /\ todo' = <<>>
    BY CrashMade
<1>2. SUFFICES ASSUME NEW as \in Associations \ doubt'
               PROVE  WillBeLinked(as)' /\ IsLinked(as)'
    BY DEF Linked
<1>3. as \notin doubt /\ (as \in made.links <=> as \in doing.links)
    BY <1>2 DEF Crash
<1>4. IsLinked(as)
    BY <1>3 DEF Linked
<1>5. IsLinked(as)'
    BY <1>1, <1>3, <1>4 DEF IsLinked, Exists
<1>6. \A p : WillExist(p)' <=> Exists(p)'
    BY <1>1, AtRestNext
<1>7. WillBeLinked(as)'
    BY <1>1, <1>5, <1>6 DEF IsLinked, WillBeLinked
<1> QED
    BY <1>5, <1>7

\* After a crash the files of an account are those of a version it may have.
LEMMA CrashAccount ==
    ASSUME Promises, Crash, NEW acct \in Accounts,
           WillBeAccount(acct), IsAccount(acct), ActivationFirst(acct)
    PROVE  WillBeAccount(acct)' /\ IsAccount(acct)' /\ ActivationFirst(acct)'
<1>1. /\ made'.accounts[acct] = made.accounts[acct] \cup doing.accounts[acct]
      /\ doing' = made' /\ fs' = fs /\ todo' = <<>>
    BY CrashMade
<1>2. IsAccount(acct)'
    BY <1>1 DEF IsAccount, Holds, Exists
<1>3. ActivationFirst(acct)'
  <2>1. DOMAIN todo' = {}
      BY <1>1
  <2> QED
      BY <2>1 DEF ActivationFirst
<1>4. \A p : WillExist(p)' <=> Exists(p)'
    BY <1>1, AtRestNext
<1>5. \A p, v : WillHold(p, v)' <=> Holds(p, v)'
    BY <1>1, AtRestNext
<1>6. ASSUME acct \notin doubt', made'.accounts[acct] # {}
      PROVE  \E v \in made'.accounts[acct] :
                /\ made'.accounts[acct] = {v} /\ Holds(Act(acct), v.activation)'
                /\ \A i \in DOMAIN v.passwords : Holds(Pass(acct, i), v.passwords[i])'
  <2>1. acct \notin doubt /\ ~About(acct)
      BY <1>6 DEF Crash
  <2>2. made'.accounts[acct] = doing.accounts[acct]
      BY <1>1, <2>1 DEF About
  <2>3. PICK v \in doing.accounts[acct] :
           /\ doing.accounts[acct] = {v} /\ WillHold(Act(acct), v.activation)
           /\ \A i \in DOMAIN v.passwords : WillHold(Pass(acct, i), v.passwords[i])
      BY <1>6, <2>1, <2>2 DEF WillBeAccount
  <2>4. ASSUME NEW p, NEW w, IsASequence(p), IsPrefix(Home(acct), p), WillHold(p, w)
        PROVE  Holds(p, w)
    <3>1. \A k \in DOMAIN todo : todo[k].call \in {"open", "close"} => todo[k].path # p
        BY <2>1, <2>4 DEF About, Home
    <3> QED
        BY <2>4, <3>1 DEF WillHold
  <2>5. \A p : IsASequence(p) /\ Len(p) = 4 /\ Parent(p) = Home(acct) => IsPrefix(Home(acct), p)
    <3>1. SUFFICES ASSUME NEW p, IsASequence(p), Len(p) = 4, Parent(p) = Home(acct)
                   PROVE  IsPrefix(Home(acct), p)
        OBVIOUS
    <3>2. \A j \in 1 .. Len(p) - 1 : Parent(p)[j] = p[j]
      <4>1. Len(p) \in 2 .. 5
          BY <3>1
      <4> QED
          BY <3>1, <4>1, Parents
    <3>3. \A j \in 1 .. 3 : Home(acct)[j] = p[j]
        BY <3>1, <3>2
    <3>4. IsASequence(Home(acct)) /\ Len(Home(acct)) = 3
        BY AccountFiles
    <3>5. /\ Len(Home(acct)) >= 1 /\ Len(Home(acct)) <= Len(p)
          /\ \A j \in 1 .. Len(Home(acct)) : Home(acct)[j] = p[j]
        BY <3>1, <3>3, <3>4
    <3> QED
        BY <3>1, <3>4, <3>5, PrefixAgrees
  <2>6. Holds(Act(acct), v.activation)
      BY <2>3, <2>4, <2>5, AccountFiles
  <2>7. \A i \in DOMAIN v.passwords : Holds(Pass(acct, i), v.passwords[i])
      BY <2>3, <2>4, <2>5, AccountFiles
  <2> QED
      BY <1>1, <2>2, <2>3, <2>6, <2>7 DEF Holds, Exists
<1>7. WillBeAccount(acct)'
  <2>1. made'.accounts[acct] = {} => ~Exists(Home(acct))'
      BY <1>1, <1>2 DEF IsAccount
  <2>2. \A x : Holds(Act(acct), x)' => \E v \in made'.accounts[acct] : v.activation = x
      BY <1>1, <1>2 DEF IsAccount
  <2>3. \A x, i, y : Holds(Act(acct), x)' /\ Holds(Pass(acct, i), y)' =>
            \E v \in made'.accounts[acct] : Fits(v, x, i, y)
      BY <1>1, <1>2 DEF IsAccount
  <2> QED
      BY <1>1, <1>4, <1>5, <1>6, <2>1, <2>2, <2>3 DEF WillBeAccount
<1> QED
    BY <1>2, <1>3, <1>7

-----------------------------------------------------------------------------
(* A function begins *)

\* What is there between two functions.
LinkRests(as) ==
    /\ as \in made.links => Exists(SideFile(as, 1)) /\ Exists(SideFile(as, 2))
    /\ as \notin made.links =>
         ~Exists(SideFile(as, 1)) /\ (as[1] = "group-account" => ~Exists(SideFile(as, 2)))

AccountRests(acct) ==
    LET versions == made.accounts[acct] IN
    /\ versions = {} => ~Exists(Home(acct))
    /\ \A x : Holds(Act(acct), x) => \E v \in versions : v.activation = x
    /\ \A x, i, y : Holds(Act(acct), x) /\ Holds(Pass(acct, i), y) => \E v \in versions : Fits(v, x, i, y)
    /\ acct \notin doubt /\ versions # {} => \E v \in versions :
         /\ versions = {v} /\ Holds(Act(acct), v.activation)
         /\ \A i \in DOMAIN v.passwords : Holds(Pass(acct, i), v.passwords[i])

\* Between two functions the associations that are there are those made.
LEMMA LinksRest ==
    ASSUME todo = <<>>, doing = made, Linked
    PROVE  \A as \in Associations \ doubt : LinkRests(as)
<1>1. \A p : WillExist(p) <=> Exists(p)
    BY AtRest
<1> QED
    BY <1>1 DEF Linked, WillBeLinked, LinkRests

\* Between two functions the accounts that are there are those made.
LEMMA AccountsRest ==
    ASSUME todo = <<>>, doing = made, Accounted
    PROVE  \A acct \in Accounts : AccountRests(acct)
<1>1. \A p : WillExist(p) <=> Exists(p)
    BY AtRest
<1>2. \A p, v : WillHold(p, v) <=> Holds(p, v)
    BY AtRest
<1> QED
    BY <1>1, <1>2 DEF Accounted, WillBeAccount, AccountRests

\* A function that creates begins: what its calls will make is all that changes.
LEMMA BeginCreating ==
    ASSUME Tree, NEW steps, NEW then, Begin(steps, then), IsASequence(steps),
           \A k \in DOMAIN steps : Creating(steps[k]) /\ CallShape(steps[k]),
           \A k \in DOMAIN steps : Len(steps[k].path) # 1 =>
               \/ Exists(Parent(steps[k].path))
               \/ \E j \in DOMAIN steps : j < k /\ steps[j].path = Parent(steps[k].path),
           \A j, k \in DOMAIN steps : steps[j].path = steps[k].path => j = k
    PROVE  /\ Tree' /\ CallShapes' /\ Order'
           /\ \A p : ~IsRemoved(p)' /\ (IsMade(p)' <=> \E k \in DOMAIN steps : steps[k].path = p)
           /\ \A p : WillExist(p)' <=> Exists(p) \/ \E k \in DOMAIN steps : steps[k].path = p
           /\ \A p, v : WillHold(p, v)' <=>
                \/ \E k \in DOMAIN steps : steps[k].call \in {"open", "close"} /\ steps[k].path = p /\ steps[k].value = v
                \/ ~(\E k \in DOMAIN steps : steps[k].path = p) /\ Holds(p, v)
<1>1. todo' = steps /\ fs' = fs
    BY DEF Begin
<1>2. Tree'
    BY <1>1 DEF Tree
<1>3. CallShapes'
    BY <1>1 DEF CallShapes
<1>4. Order'
    BY <1>1 DEF Order, Exists
<1>5. \A p : ~IsRemoved(p)'
    BY <1>1 DEF IsRemoved, RemovedBy, Creating
<1>6. \A p : IsMade(p)' <=> \E k \in DOMAIN steps : steps[k].path = p
    BY <1>1 DEF IsMade
<1>7. \A p : WillExist(p)' <=> Exists(p) \/ \E k \in DOMAIN steps : steps[k].path = p
    BY <1>1, <1>5, <1>6 DEF WillExist, Exists
<1>8. \A p, v : Holds(p, v)' <=> Holds(p, v)
    BY <1>1 DEF Holds, Exists
<1>9. \A p, v : WillHold(p, v)' <=>
          \/ \E k \in DOMAIN steps : steps[k].call \in {"open", "close"} /\ steps[k].path = p /\ steps[k].value = v
          \/ ~(\E k \in DOMAIN steps : steps[k].path = p) /\ Holds(p, v)
    BY <1>1, <1>5, <1>6, <1>8 DEF WillHold
<1> QED
    BY <1>2, <1>3, <1>4, <1>5, <1>6, <1>7, <1>9

\* A function that only removes begins with its calls in shape.
LEMMA BeginRemoving ==
    ASSUME Tree, NEW steps, NEW then, Begin(steps, then), IsASequence(steps),
           \A k \in DOMAIN steps : Removing(steps[k]) /\ CallShape(steps[k])
    PROVE  /\ Tree' /\ CallShapes' /\ Order'
           /\ \A p : ~IsMade(p)' /\ (IsRemoved(p)' <=> \E k \in DOMAIN steps : RemovedBy(steps[k], p))
           /\ \A k \in DOMAIN todo' : ~Creating(todo'[k])
<1>1. todo' = steps /\ fs' = fs
    BY DEF Begin
<1>2. Tree'
    BY <1>1 DEF Tree
<1>3. CallShapes'
    BY <1>1 DEF CallShapes
<1>4. \A k \in DOMAIN todo' : ~Creating(todo'[k])
    BY <1>1 DEF Creating, Removing
<1>5. Order'
    BY <1>4 DEF Order
<1>6. \A p : ~IsMade(p)' /\ (IsRemoved(p)' <=> \E k \in DOMAIN steps : RemovedBy(steps[k], p))
    BY <1>1, <1>4 DEF IsMade, IsRemoved
<1> QED
    BY <1>2, <1>3, <1>4, <1>5, <1>6

\* The associations the function makes get both files, the ones it ends lose the files that count,
\* and no others are touched.
LEMMA BeginLinked ==
    ASSUME NEW steps, NEW then, Begin(steps, then), todo = <<>>, doing = made,
           \A as \in Associations \ doubt : LinkRests(as),
           \A as \in Associations \ doubt :
               \/ /\ as \in then.links <=> as \in made.links
                  /\ \A i \in {1, 2} : ~IsMade(SideFile(as, i))'
                  /\ as \in made.links => \A i \in {1, 2} : ~IsRemoved(SideFile(as, i))'
               \/ /\ as \in then.links
                  /\ \A i \in {1, 2} : IsMade(SideFile(as, i))' /\ ~IsRemoved(SideFile(as, i))'
               \/ /\ as \notin then.links
                  /\ IsRemoved(SideFile(as, 1))'
                  /\ as[1] = "group-account" => IsRemoved(SideFile(as, 2))'
    PROVE  Linked'
<1>1. todo' = steps /\ fs' = fs /\ doing' = then /\ made' = made /\ doubt' = doubt
    BY DEF Begin
<1>2. SUFFICES ASSUME NEW as \in Associations \ doubt
               PROVE  WillBeLinked(as)' /\ IsLinked(as)'
    BY <1>1 DEF Linked
<1>3. LinkRests(as)
    OBVIOUS
<1>4. IsLinked(as)'
    BY <1>1, <1>3 DEF IsLinked, LinkRests, Exists
<1>5. WillBeLinked(as)'
  <2>1. \A p : WillExist(p)' <=> (Exists(p) \/ IsMade(p)') /\ ~IsRemoved(p)'
      BY <1>1 DEF WillExist, Exists
  <2> QED
      BY <1>1, <1>3, <2>1 DEF WillBeLinked, LinkRests
<1> QED
    BY <1>4, <1>5

\* An account the function is not about.
LEMMA AccountStays ==
    ASSUME NEW steps, NEW then, Begin(steps, then), doing = made,
           NEW acct \in Accounts, AccountRests(acct), then.accounts[acct] = made.accounts[acct],
           ~IsMade(Home(acct))' /\ ~IsMade(Act(acct))' /\ \A i : ~IsMade(Pass(acct, i))',
           ~IsRemoved(Home(acct))' /\ ~IsRemoved(Act(acct))' /\ \A i : ~IsRemoved(Pass(acct, i))'
    PROVE  WillBeAccount(acct)' /\ IsAccount(acct)' /\ ActivationFirst(acct)'
<1>1. todo' = steps /\ fs' = fs /\ doing' = then /\ made' = made /\ doubt' = doubt
    BY DEF Begin
<1>2. IsAccount(acct)'
    BY <1>1 DEF IsAccount, AccountRests, Holds, Exists
<1>3. ActivationFirst(acct)'
    BY DEF ActivationFirst
<1>4. \A p : ~IsMade(p)' /\ ~IsRemoved(p)' => (WillExist(p)' <=> Exists(p))
    BY <1>1 DEF WillExist, Exists
<1>5. \A p, v : ~IsMade(p)' /\ ~IsRemoved(p)' => (WillHold(p, v)' <=> Holds(p, v))
  <2>1. SUFFICES ASSUME NEW p, NEW v, ~IsMade(p)', ~IsRemoved(p)'
                 PROVE  WillHold(p, v)' <=> Holds(p, v)
      OBVIOUS
  <2>2. \A k \in DOMAIN todo' : todo'[k].call \in {"open", "close"} => todo'[k].path # p
      BY <2>1 DEF IsMade, Creating
  <2>3. Holds(p, v)' <=> Holds(p, v)
      BY <1>1 DEF Holds, Exists
  <2> QED
      BY <2>1, <2>2, <2>3 DEF WillHold
<1>6. WillExist(Home(acct))' <=> Exists(Home(acct))
    BY <1>4
<1>7. \A v : WillHold(Act(acct), v)' <=> Holds(Act(acct), v)
    BY <1>5
<1>8. \A i, v : WillHold(Pass(acct, i), v)' <=> Holds(Pass(acct, i), v)
    BY <1>5
<1>9. WillBeAccount(acct)'
    BY <1>1, <1>6, <1>7, <1>8 DEF WillBeAccount, AccountRests
<1> QED
    BY <1>2, <1>3, <1>9

\* An account the function removes.
LEMMA AccountGoes ==
    ASSUME NEW steps, NEW then, Begin(steps, then), doing = made,
           NEW acct \in Accounts, AccountRests(acct), then.accounts[acct] = {},
           IsRemoved(Home(acct))', IsRemoved(Act(acct))', \A p : ~IsMade(p)'
    PROVE  WillBeAccount(acct)' /\ IsAccount(acct)' /\ ActivationFirst(acct)'
<1>1. todo' = steps /\ fs' = fs /\ doing' = then /\ made' = made /\ doubt' = doubt
    BY DEF Begin
<1>2. IsAccount(acct)'
    BY <1>1 DEF IsAccount, AccountRests, Holds, Exists
<1>3. ActivationFirst(acct)'
    BY DEF ActivationFirst
<1>4. WillBeAccount(acct)'
    BY <1>1 DEF WillBeAccount, WillExist, WillHold
<1> QED
    BY <1>2, <1>3, <1>4


\* The calls of two lists one after the other are those of both.
Joins(u, s, t) == u = s \o t
Has(u, s, t) ==
    /\ IsASequence(u)
    /\ \A k \in DOMAIN u : (\E j \in DOMAIN s : u[k] = s[j]) \/ \E j \in DOMAIN t : u[k] = t[j]
    /\ \A j \in DOMAIN s : \E k \in DOMAIN u : u[k] = s[j]
    /\ \A j \in DOMAIN t : \E k \in DOMAIN u : u[k] = t[j]

\* The calls of two sequences one after the other are those of the first and of the second.
LEMMA Concatenated ==
    ASSUME NEW s, NEW t, IsASequence(s), IsASequence(t), NEW u, Joins(u, s, t)
    PROVE  Has(u, s, t)
<1>1. PICK S : s \in Seq(S)
    BY DEF IsASequence
<1>2. PICK T : t \in Seq(T)
    BY DEF IsASequence
<1>3. s \in Seq(S \cup T) /\ t \in Seq(S \cup T)
    BY <1>1, <1>2
<1>4. /\ s \o t \in Seq(S \cup T) /\ Len(s \o t) = Len(s) + Len(t)
      /\ \A i \in 1 .. Len(s) + Len(t) : (s \o t)[i] = IF i <= Len(s) THEN s[i] ELSE t[i - Len(s)]
    BY <1>3, ConcatProperties
<1> u = s \o t
    BY DEF Joins
<1>5. /\ DOMAIN s = 1 .. Len(s) /\ DOMAIN t = 1 .. Len(t) /\ Len(s) \in Nat /\ Len(t) \in Nat
      /\ DOMAIN (s \o t) = 1 .. Len(s) + Len(t)
    BY <1>3, <1>4
<1>6. \A i \in 1 .. Len(s) + Len(t) : u[i] = IF i <= Len(s) THEN s[i] ELSE t[i - Len(s)]
    BY <1>4
<1>7. \A k \in 1 .. Len(s) + Len(t) : \/ \E j \in 1 .. Len(s) : u[k] = s[j]
                                      \/ \E j \in 1 .. Len(t) : u[k] = t[j]
  <2>1. SUFFICES ASSUME NEW k \in 1 .. Len(s) + Len(t), ~(k <= Len(s))
                 PROVE  k - Len(s) \in 1 .. Len(t)
      BY <1>5, <1>6
  <2> QED
      BY <1>5, <2>1
<1>8. \A j \in 1 .. Len(s) : j \in 1 .. Len(s) + Len(t) /\ u[j] = s[j]
    BY <1>5, <1>6
<1>9. \A j \in 1 .. Len(t) : Len(s) + j \in 1 .. Len(s) + Len(t) /\ u[Len(s) + j] = t[j]
    BY <1>5, <1>6
<1>10. IsASequence(u) /\ DOMAIN u = 1 .. Len(s) + Len(t)
    BY <1>4, <1>5 DEF IsASequence
<1>11. \A j \in DOMAIN s : \E k \in DOMAIN u : u[k] = s[j]
    BY <1>5, <1>8, <1>10
<1>12. \A j \in DOMAIN t : \E k \in DOMAIN u : u[k] = t[j]
    BY <1>5, <1>9, <1>10
<1>13. \A k \in DOMAIN u : (\E j \in DOMAIN s : u[k] = s[j]) \/ \E j \in DOMAIN t : u[k] = t[j]
    BY <1>5, <1>7, <1>10
<1> QED
    BY <1>10, <1>11, <1>12, <1>13 DEF Has

\* The associations that have their first file are those whose files Ends removes.
There(S) == {as \in S : BothDirs(as) /\ Exists(SideFile(as, 1))}

\* Ending associations removes both files of those that are there.
LEMMA EndsCalls ==
    ASSUME NEW S, S \subseteq Ties
    PROVE  /\ IsASequence(Ends(S))
           /\ \A k \in DOMAIN Ends(S) : Removing(Ends(S)[k]) /\ CallShape(Ends(S)[k])
           /\ \A p : (\E k \in DOMAIN Ends(S) : RemovedBy(Ends(S)[k], p))
                         <=> \E as \in There(S) : p = SideFile(as, 1) \/ p = SideFile(as, 2)
<1>1. CASE There(S) = {}
  <2>1. Ends(S) = <<>>
      BY <1>1 DEF Ends, There
  <2>2. DOMAIN Ends(S) = {} /\ Ends(S) \in Seq({})
      BY <2>1
  <2> QED
      BY <1>1, <2>2 DEF IsASequence
<1>2. CASE There(S) # {}
  <2>1. PICK c : c = [call |-> "dissociate", of |-> There(S), second |-> {}]
      OBVIOUS
  <2>2. Ends(S) = <<c>>
      BY <1>2, <2>1 DEF Ends, There
  <2>3. IsASequence(Ends(S)) /\ DOMAIN Ends(S) = {1} /\ Ends(S)[1] = c
      BY <2>2, Tuple1
  <2>4. c.call = "dissociate" /\ c.of = There(S) /\ c.second = {}
      BY <2>1
  <2>5. Removing(c) /\ CallShape(c)
      BY <2>1, <2>4 DEF Removing, CallShape, There
  <2>6. \A p : RemovedBy(c, p) <=> \E as \in There(S) : p = SideFile(as, 1) \/ p = SideFile(as, 2)
      BY <2>4 DEF RemovedBy, Ended
  <2> QED
      BY <2>3, <2>5, <2>6
<1> QED
    BY <1>1, <1>2

\* remove_all takes what is beneath a directory.
LEMMA RemoveAllCalls ==
    ASSUME NEW dir, Rooted(dir)
    PROVE  /\ IsASequence(<<removeAll(dir)>>)
           /\ \A k \in DOMAIN <<removeAll(dir)>> : /\ Removing(<<removeAll(dir)>>[k])
                                                   /\ CallShape(<<removeAll(dir)>>[k])
           /\ \A p : (\E k \in DOMAIN <<removeAll(dir)>> : RemovedBy(<<removeAll(dir)>>[k], p))
                         <=> IsPrefix(dir, p)
<1>1. PICK c : c = removeAll(dir)
    OBVIOUS
<1>2. c.call = "remove_all" /\ c.path = dir
    BY <1>1 DEF removeAll
<1>3. IsASequence(<<c>>) /\ DOMAIN <<c>> = {1} /\ <<c>>[1] = c
    BY Tuple1
<1>4. Removing(c) /\ CallShape(c)
    BY <1>2 DEF Removing, CallShape
<1>5. \A p : RemovedBy(c, p) <=> IsPrefix(dir, p)
    BY <1>2 DEF RemovedBy
<1> QED
    BY <1>1, <1>3, <1>4, <1>5

\* The removal of an object: the associations are ended first, and then its directory removed.
RemovalSteps(S, T, dir) == Ends(S) \o Ends(T) \o <<removeAll(dir)>>

Clears(steps, dir, R) ==
    /\ IsASequence(steps)
    /\ \A k \in DOMAIN steps : Removing(steps[k]) /\ CallShape(steps[k])
    /\ \A p : (\E k \in DOMAIN steps : RemovedBy(steps[k], p))
                  <=> IsPrefix(dir, p) \/ \E as \in R : p = SideFile(as, 1) \/ p = SideFile(as, 2)

\* A removal ends the associations it finds and takes the directory.
LEMMA RemovalCalls ==
    ASSUME NEW S, S \subseteq Ties, NEW T, T \subseteq Ties, NEW dir, Rooted(dir), NEW steps,
           steps = RemovalSteps(S, T, dir)
    PROVE  Clears(steps, dir, There(S) \cup There(T))
<1>1. PICK r, u, v : r = <<removeAll(dir)>> /\ u = Ends(S) /\ v = Ends(T)
    OBVIOUS
<1>2. /\ IsASequence(r) /\ \A k \in DOMAIN r : Removing(r[k]) /\ CallShape(r[k])
      /\ \A p : (\E k \in DOMAIN r : RemovedBy(r[k], p)) <=> IsPrefix(dir, p)
    BY <1>1, RemoveAllCalls
<1>3. /\ IsASequence(u) /\ \A k \in DOMAIN u : Removing(u[k]) /\ CallShape(u[k])
      /\ \A p : (\E k \in DOMAIN u : RemovedBy(u[k], p))
                    <=> \E as \in There(S) : p = SideFile(as, 1) \/ p = SideFile(as, 2)
    BY <1>1, EndsCalls
<1>4. /\ IsASequence(v) /\ \A k \in DOMAIN v : Removing(v[k]) /\ CallShape(v[k])
      /\ \A p : (\E k \in DOMAIN v : RemovedBy(v[k], p))
                    <=> \E as \in There(T) : p = SideFile(as, 1) \/ p = SideFile(as, 2)
    BY <1>1, EndsCalls
<1>5. PICK w : w = u \o v
    OBVIOUS
<1>6. /\ IsASequence(w)
      /\ \A k \in DOMAIN w : (\E j \in DOMAIN u : w[k] = u[j]) \/ \E j \in DOMAIN v : w[k] = v[j]
      /\ \A j \in DOMAIN u : \E k \in DOMAIN w : w[k] = u[j]
      /\ \A j \in DOMAIN v : \E k \in DOMAIN w : w[k] = v[j]
  <2>1. IsASequence(u) /\ IsASequence(v)
      BY <1>3, <1>4
  <2>2. Joins(w, u, v)
      BY <1>5 DEF Joins
  <2> QED
      BY <2>1, <2>2, Concatenated DEF Has
<1>7. steps = w \o r
    BY <1>1, <1>5 DEF RemovalSteps
<1>8. /\ IsASequence(steps)
      /\ \A k \in DOMAIN steps : (\E j \in DOMAIN w : steps[k] = w[j]) \/ \E j \in DOMAIN r : steps[k] = r[j]
      /\ \A j \in DOMAIN w : \E k \in DOMAIN steps : steps[k] = w[j]
      /\ \A j \in DOMAIN r : \E k \in DOMAIN steps : steps[k] = r[j]
  <2>1. IsASequence(w) /\ IsASequence(r)
      BY <1>2, <1>6
  <2>2. Joins(steps, w, r)
      BY <1>7 DEF Joins
  <2>3. Has(steps, w, r)
      BY <2>1, <2>2, Concatenated
  <2> QED
      BY <2>3 DEF Has
<1>9. ASSUME NEW k \in DOMAIN steps
      PROVE  Removing(steps[k]) /\ CallShape(steps[k])
  <2>1. CASE \E j \in DOMAIN r : steps[k] = r[j]
      BY <1>2, <2>1
  <2>2. CASE \E j \in DOMAIN w : steps[k] = w[j]
    <3>1. PICK j \in DOMAIN w : steps[k] = w[j]
        BY <2>2
    <3>2. CASE \E i \in DOMAIN u : w[j] = u[i]
        BY <1>3, <3>1, <3>2
    <3>3. CASE \E i \in DOMAIN v : w[j] = v[i]
        BY <1>4, <3>1, <3>3
    <3> QED
        BY <1>6, <3>1, <3>2, <3>3
  <2> QED
      BY <1>8, <2>1, <2>2
<1>10. ASSUME NEW p
       PROVE  (\E k \in DOMAIN steps : RemovedBy(steps[k], p))
                <=> \/ \E k \in DOMAIN r : RemovedBy(r[k], p)
                    \/ \E k \in DOMAIN u : RemovedBy(u[k], p)
                    \/ \E k \in DOMAIN v : RemovedBy(v[k], p)
  <2>1. ASSUME NEW k \in DOMAIN steps, RemovedBy(steps[k], p)
        PROVE  \/ \E j \in DOMAIN r : RemovedBy(r[j], p)
               \/ \E j \in DOMAIN u : RemovedBy(u[j], p)
               \/ \E j \in DOMAIN v : RemovedBy(v[j], p)
      BY <1>6, <1>8, <2>1
  <2>2. ASSUME NEW j \in DOMAIN r, RemovedBy(r[j], p)
        PROVE  \E k \in DOMAIN steps : RemovedBy(steps[k], p)
      BY <1>8, <2>2
  <2>3. ASSUME NEW j \in DOMAIN u, RemovedBy(u[j], p)
        PROVE  \E k \in DOMAIN steps : RemovedBy(steps[k], p)
      BY <1>6, <1>8, <2>3
  <2>4. ASSUME NEW j \in DOMAIN v, RemovedBy(v[j], p)
        PROVE  \E k \in DOMAIN steps : RemovedBy(steps[k], p)
      BY <1>6, <1>8, <2>4
  <2> QED
      BY <2>1, <2>2, <2>3, <2>4
<1>11. \A p : (\E k \in DOMAIN steps : RemovedBy(steps[k], p))
                <=> \/ IsPrefix(dir, p)
                    \/ \E as \in There(S) \cup There(T) : p = SideFile(as, 1) \/ p = SideFile(as, 2)
    BY <1>2, <1>3, <1>4, <1>10
<1> QED
    BY <1>8, <1>9, <1>11 DEF Clears

-----------------------------------------------------------------------------
(* The functions that create, one by one *)

\* What a function promises has the shape of what is promised.
LEMMA BeginPromises ==
    ASSUME TypeOK, Promises, todo = <<>>, NEW steps, NEW then, Begin(steps, then), steps # <<>>,
           then = [links |-> then.links, accounts |-> then.accounts],
           then.links \subseteq Associations,
           then.accounts = [acct \in Accounts |-> then.accounts[acct]],
           \A acct \in Accounts : \A v \in then.accounts[acct] : IsVersion(v)
    PROVE  TypeOK' /\ Promises'
<1>1. /\ todo' = steps /\ fs' = fs /\ doing' = then /\ made' = made /\ doubt' = doubt
      /\ crashes' = crashes
    BY DEF Begin
<1>2. TypeOK'
  <2>1. \A m \in {made', doing'} : m.links \subseteq Associations
      BY <1>1 DEF TypeOK
  <2> QED
      BY <1>1, <2>1 DEF TypeOK
<1>3. Promises'
  <2>1. /\ made = [links |-> made.links, accounts |-> made.accounts]
        /\ made.accounts = [acct \in Accounts |-> made.accounts[acct]]
        /\ \A acct \in Accounts : \A v \in made.accounts[acct] : IsVersion(v)
      BY DEF Promises
  <2>2. \A v : IsVersion(v)' <=> IsVersion(v)
      BY DEF IsVersion, Activations, Kept
  <2>3. SUFFICES ASSUME NEW m \in {made, then}
                 PROVE  /\ m = [links |-> m.links, accounts |-> m.accounts]
                        /\ m.accounts = [acct \in Accounts |-> m.accounts[acct]]
                        /\ \A acct \in Accounts : \A v \in m.accounts[acct] : IsVersion(v)
      BY <1>1, <2>2, Zenon DEF Promises
  <2>4. CASE m = made
      BY <2>1, <2>4
  <2>5. CASE m = then
      BY <2>5
  <2> QED
      BY <2>4, <2>5
<1> QED
    BY <1>2, <1>3

\* A function that promises nothing new keeps the promises.
LEMMA BeginSame ==
    ASSUME TypeOK, Promises, todo = <<>>, NEW steps, Begin(steps, made), steps # <<>>
    PROVE  TypeOK' /\ Promises'
<1>1. /\ made = [links |-> made.links, accounts |-> made.accounts]
      /\ made.links \subseteq Associations
      /\ made.accounts = [acct \in Accounts |-> made.accounts[acct]]
      /\ \A acct \in Accounts : \A v \in made.accounts[acct] : IsVersion(v)
    BY DEF TypeOK, Promises
<1> QED
    BY <1>1, BeginPromises

\* The calls that create, as records.
LEMMA CallsAre ==
    ASSUME NEW p, NEW v, Rooted(p)
    PROVE  /\ Creating(mkdir(p)) /\ CallShape(mkdir(p)) /\ mkdir(p).path = p
           /\ Creating(touch(p)) /\ CallShape(touch(p)) /\ touch(p).path = p
           /\ Creating(save(p, v)) /\ CallShape(save(p, v)) /\ save(p, v).path = p
           /\ save(p, v).call = "open" /\ save(p, v).value = v
           /\ mkdir(p).call = "mkdir" /\ touch(p).call = "touch"
<1>1. PICK m, t, s : m = mkdir(p) /\ t = touch(p) /\ s = save(p, v)
    OBVIOUS
<1>2. /\ m = [call |-> "mkdir", path |-> p] /\ t = [call |-> "touch", path |-> p]
      /\ s = [call |-> "open", path |-> p, value |-> v]
    BY <1>1 DEF mkdir, touch, save
<1>3. /\ m.call = "mkdir" /\ m.path = p /\ t.call = "touch" /\ t.path = p
      /\ s.call = "open" /\ s.path = p /\ s.value = v
    BY <1>2
<1>4. Creating(m) /\ CallShape(m) /\ Creating(t) /\ CallShape(t) /\ Creating(s) /\ CallShape(s)
    BY <1>2, <1>3 DEF Creating, CallShape
<1> QED
    BY <1>1, <1>3, <1>4

\* The files of an account.
IsFileOf(p, acct) == p = Home(acct) \/ p = Act(acct) \/ \E i : p = Pass(acct, i)

\* A list of calls as BeginCreating takes them.
Sound(steps) ==
    /\ IsASequence(steps) /\ steps # <<>>
    /\ \A k \in DOMAIN steps : Creating(steps[k]) /\ CallShape(steps[k])
    /\ \A k \in DOMAIN steps : Len(steps[k].path) # 1 =>
           \/ Exists(Parent(steps[k].path))
           \/ \E j \in DOMAIN steps : j < k /\ steps[j].path = Parent(steps[k].path)
    /\ \A j, k \in DOMAIN steps : steps[j].path = steps[k].path => j = k

\* A function that creates nothing of an association or of an account's files.
LEMMA BeginPlain ==
    ASSUME AInv, todo = <<>>, NEW steps, Begin(steps, made), Sound(steps),
           \A k \in DOMAIN steps : Len(steps[k].path) # 5,
           \A k \in DOMAIN steps : \A acct \in Accounts : ~IsFileOf(steps[k].path, acct)
    PROVE  AInv' /\ (Linked => Linked')
<1>1. TypeOK /\ Tree /\ Promises /\ Accounted /\ doing = made
    BY DEF AInv, TypeOK
<1>2. TypeOK' /\ Promises'
    BY <1>1, BeginSame DEF Sound
<1>3. /\ Tree' /\ CallShapes' /\ Order'
      /\ \A p : ~IsRemoved(p)' /\ (IsMade(p)' <=> \E k \in DOMAIN steps : steps[k].path = p)
    BY <1>1, BeginCreating DEF Sound
<1>4. Accounted'
  <2>1. SUFFICES ASSUME NEW acct \in Accounts
                 PROVE  WillBeAccount(acct)' /\ IsAccount(acct)' /\ ActivationFirst(acct)'
      BY DEF Accounted
  <2>2. AccountRests(acct)
      BY <1>1, AccountsRest
  <2>3. ~IsMade(Home(acct))' /\ ~IsMade(Act(acct))' /\ \A i : ~IsMade(Pass(acct, i))'
      BY <1>3 DEF IsFileOf
  <2>4. ~IsRemoved(Home(acct))' /\ ~IsRemoved(Act(acct))' /\ \A i : ~IsRemoved(Pass(acct, i))'
      BY <1>3
  <2> QED
      BY <1>1, <2>2, <2>3, <2>4, AccountStays
<1>5. ASSUME Linked
      PROVE  Linked'
  <2>1. \A as \in Associations \ doubt : LinkRests(as)
      BY <1>1, <1>5, LinksRest
  <2>2. \A as \in Associations, i \in {1, 2} : Len(SideFile(as, i)) = 5
      BY SideShapes, AssociationsAreTies
  <2>3. \A as \in Associations, i \in {1, 2} : ~IsMade(SideFile(as, i))' /\ ~IsRemoved(SideFile(as, i))'
    <3>1. SUFFICES ASSUME NEW as \in Associations, NEW i \in {1, 2}
                   PROVE  ~IsMade(SideFile(as, i))' /\ ~IsRemoved(SideFile(as, i))'
        OBVIOUS
    <3>2. PICK p : p = SideFile(as, i)
        OBVIOUS
    <3>3. ~(\E k \in DOMAIN steps : steps[k].path = p)
        BY <2>2, <3>2
    <3> QED
        BY <1>3, <3>2, <3>3
  <2> QED
      BY <1>1, <2>1, <2>3, BeginLinked
<1> QED
    BY <1>2, <1>3, <1>4, <1>5 DEF AInv

\* One file written.
LEMMA SavesOne ==
    ASSUME NEW p, NEW v, Rooted(p), Len(p) # 1, Exists(Parent(p))
    PROVE  /\ Sound(<<save(p, v)>>)
           /\ DOMAIN <<save(p, v)>> = {1} /\ <<save(p, v)>>[1].path = p
           /\ <<save(p, v)>>[1].call = "open" /\ <<save(p, v)>>[1].value = v
<1>1. PICK c : c = save(p, v)
    OBVIOUS
<1>2. Creating(c) /\ CallShape(c) /\ c.path = p /\ c.call = "open" /\ c.value = v
    BY <1>1, CallsAre
<1>3. IsASequence(<<c>>) /\ <<c>> # <<>> /\ DOMAIN <<c>> = {1} /\ <<c>>[1] = c
    BY Tuple1
<1> QED
    BY <1>1, <1>2, <1>3 DEF Sound

\* A directory, and what it has from the start.
LEMMA GrowsSound ==
    ASSUME NEW steps, IsASequence(steps), NEW dir, 1 \in DOMAIN steps, steps[1].path = dir,
           Len(dir) = 1 \/ Exists(Parent(dir)),
           \A k \in DOMAIN steps : Creating(steps[k]) /\ CallShape(steps[k]),
           \A k \in DOMAIN steps : k # 1 => Parent(steps[k].path) = dir,
           \A j, k \in DOMAIN steps : steps[j].path = steps[k].path => j = k
    PROVE  Sound(steps)
<1>1. \A k \in DOMAIN steps : k # 1 => 1 < k
    BY DEF IsASequence
<1>2. steps # <<>>
    OBVIOUS
<1> QED
    BY <1>1, <1>2 DEF Sound

\* A directory and three things in it are created in a sound order.
LEMMA FourCalls ==
    ASSUME NEW a, NEW b, NEW c, NEW e, NEW dir, a.path = dir,
           Len(dir) = 1 \/ Exists(Parent(dir)),
           \A s \in {a, b, c, e} : Creating(s) /\ CallShape(s),
           \A s \in {b, c, e} : Parent(s.path) = dir,
           \A s \in {b, c, e} : s.path # dir,
           b.path # c.path /\ b.path # e.path /\ c.path # e.path
    PROVE  /\ Sound(<<a, b, c, e>>)
           /\ \A k \in DOMAIN <<a, b, c, e>> : <<a, b, c, e>>[k] \in {a, b, c, e}
<1>1. PICK steps : steps = <<a, b, c, e>>
    OBVIOUS
<1>2. /\ DOMAIN steps = {1, 2, 3, 4} /\ steps[1] = a /\ steps[2] = b /\ steps[3] = c /\ steps[4] = e
    BY <1>1
<1>3. IsASequence(steps)
    BY <1>1, Tuple4
<1>4. \A k \in DOMAIN steps : Creating(steps[k]) /\ CallShape(steps[k])
    BY <1>2
<1>5. \A k \in DOMAIN steps : k # 1 => Parent(steps[k].path) = dir
    BY <1>2
<1>6. \A j, k \in DOMAIN steps : steps[j].path = steps[k].path => j = k
    BY <1>2
<1>7. Sound(steps)
    BY <1>2, <1>3, <1>4, <1>5, <1>6, GrowsSound
<1> QED
    BY <1>1, <1>2, <1>7

\* What holds between two functions.
Rest == PlainNames /\ AInv /\ todo = <<>>

\* domainAdd keeps the invariant as it begins.
LEMMA DomainAdds ==
    ASSUME Rest, NEW d \in Domains, domainAdd(d)
    PROVE  AInv' /\ (Linked => Linked')
<1>1. PICK dir, p, q, r : /\ dir = DomainDir(d) /\ p = Entry(DomainDir(d), "accounts")
                          /\ q = Entry(DomainDir(d), "groups") /\ r = Entry(DomainDir(d), "attribs")
    OBVIOUS
<1>2. /\ dir = <<Encoded(d)>> /\ p = <<Encoded(d), <<"accounts">>>>
      /\ q = <<Encoded(d), <<"groups">>>> /\ r = <<Encoded(d), <<"attribs">>>>
    BY <1>1, DomainPaths
<1>3. Rooted(dir) /\ Rooted(p) /\ Rooted(q) /\ Rooted(r)
    BY <1>2, RootedTuples
<1>4. /\ Len(dir) = 1 /\ Len(p) = 2 /\ Len(q) = 2 /\ Len(r) = 2
      /\ Parent(p) = dir /\ Parent(q) = dir /\ Parent(r) = dir
  <2>1. /\ Len(dir) = 1
      BY <1>2, Tuple1
  <2> QED
      BY <1>2, <2>1, Tuple23
<1>5. p # q /\ p # r /\ q # r
    BY <1>2
<1>6. PICK a, b, c, e : a = mkdir(dir) /\ b = mkdir(p) /\ c = mkdir(q) /\ e = mkdir(r)
    OBVIOUS
<1>7. /\ \A s \in {a, b, c, e} : Creating(s) /\ CallShape(s)
      /\ a.path = dir /\ b.path = p /\ c.path = q /\ e.path = r
    BY <1>3, <1>6, CallsAre
<1>8. Begin(<<a, b, c, e>>, made)
    BY <1>1, <1>6, Zenon DEF domainAdd
<1>9. PICK steps : steps = <<a, b, c, e>>
    OBVIOUS
<1>10. Sound(steps) /\ \A k \in DOMAIN steps : steps[k] \in {a, b, c, e}
  <2>1. \A s \in {b, c, e} : Parent(s.path) = dir /\ s.path # dir
      BY <1>4, <1>7
  <2> QED
      BY <1>4, <1>5, <1>7, <1>9, <2>1, FourCalls
<1>11. \A k \in DOMAIN steps : Len(steps[k].path) \in {1, 2}
    BY <1>4, <1>7, <1>10
<1>12. \A s, acct : IsFileOf(s, acct) => Len(s) \in {3, 4}
    BY AccountFiles DEF IsFileOf
<1>13. \A k \in DOMAIN steps : Len(steps[k].path) # 5
    BY <1>11
<1>14. \A k \in DOMAIN steps : \A acct \in Accounts : ~IsFileOf(steps[k].path, acct)
    BY <1>11, <1>12
<1>15. Begin(steps, made)
    BY <1>8, <1>9
<1> QED
    BY <1>10, <1>13, <1>14, <1>15, BeginPlain DEF Rest

\* The directories of groups and attributes.
LEMMA ObjectAdds ==
    ASSUME Rest, NEW d \in Domains, NEW n, NEW kind, kind # "accounts", NEW w, NEW x, NEW y,
           w # x, w # y, x # y, Exists(Entry(DomainDir(d), kind)),
           NEW dir, dir = ObjectDir(kind, n, d),
           Begin(<<mkdir(dir), mkdir(Entry(dir, w)), mkdir(Entry(dir, x)),
                   save(Entry(dir, y), "details")>>, made)
    PROVE  AInv' /\ (Linked => Linked')
<1>1. PICK p, q, r : p = Entry(dir, w) /\ q = Entry(dir, x) /\ r = Entry(dir, y)
    OBVIOUS
<1>2. /\ dir = <<Encoded(d), <<kind>>, Encoded(n)>>
      /\ p = <<Encoded(d), <<kind>>, Encoded(n), <<w>>>> /\ q = <<Encoded(d), <<kind>>, Encoded(n), <<x>>>>
      /\ r = <<Encoded(d), <<kind>>, Encoded(n), <<y>>>>
    BY <1>1, EntryPaths
<1>3. Rooted(dir) /\ Rooted(p) /\ Rooted(q) /\ Rooted(r)
    BY <1>2, RootedTuples
<1>4. /\ Len(dir) = 3 /\ Len(p) = 4 /\ Len(q) = 4 /\ Len(r) = 4
      /\ Parent(p) = dir /\ Parent(q) = dir /\ Parent(r) = dir
  <2>1. Len(dir) = 3
      BY <1>2, Tuple3
  <2> QED
      BY <1>2, <2>1, Tuple4
<1>5. Exists(Parent(dir))
  <2>1. Parent(dir) = Entry(DomainDir(d), kind)
      BY <1>2, Tuple23, DomainPaths
  <2> QED
      BY <2>1
<1>6. p # q /\ p # r /\ q # r
    BY <1>2
<1>7. PICK a, b, c, e : a = mkdir(dir) /\ b = mkdir(p) /\ c = mkdir(q) /\ e = save(r, "details")
    OBVIOUS
<1>8. /\ \A s \in {a, b, c, e} : Creating(s) /\ CallShape(s)
      /\ a.path = dir /\ b.path = p /\ c.path = q /\ e.path = r
    BY <1>3, <1>7, CallsAre
<1>9. PICK steps : steps = <<a, b, c, e>>
    OBVIOUS
<1>10. Begin(steps, made)
    BY <1>1, <1>7, <1>9
<1>11. Sound(steps) /\ \A k \in DOMAIN steps : steps[k] \in {a, b, c, e}
  <2>1. \A s \in {b, c, e} : Parent(s.path) = dir /\ s.path # dir
      BY <1>4, <1>8
  <2> QED
      BY <1>5, <1>6, <1>8, <1>9, <2>1, FourCalls
<1>12. \A k \in DOMAIN steps : Len(steps[k].path) # 5 /\ steps[k].path[2] = <<kind>>
    BY <1>2, <1>4, <1>8, <1>11
<1>13. \A s, acct : IsFileOf(s, acct) => s[2] = <<"accounts">>
    BY AccountFiles DEF IsFileOf
<1>14. \A k \in DOMAIN steps : \A acct \in Accounts : ~IsFileOf(steps[k].path, acct)
    BY <1>12, <1>13
<1> QED
    BY <1>10, <1>11, <1>12, <1>14, BeginPlain DEF Rest

\* groupAdd keeps the invariant as it begins.
LEMMA GroupAdds ==
    ASSUME Rest, NEW g \in GroupNames, NEW d \in Domains, groupAdd(g, d)
    PROVE  AInv' /\ (Linked => Linked')
<1>1. PICK dir : dir = GroupDir(g, d)
    OBVIOUS
<1>2. /\ Exists(Entry(DomainDir(d), "groups"))
      /\ Begin(<<mkdir(dir), mkdir(Entry(dir, "accounts")), mkdir(Entry(dir, "attribs")),
                 save(Entry(dir, "group.details"), "details")>>, made)
    BY <1>1, Zenon DEF groupAdd
<1>3. dir = ObjectDir("groups", g, d)
    BY <1>1, ObjectPaths
<1> QED
    BY <1>2, <1>3, ObjectAdds

\* attribAdd keeps the invariant as it begins.
LEMMA AttribAdds ==
    ASSUME Rest, NEW x \in AttribNames, NEW d \in Domains, attribAdd(x, d)
    PROVE  AInv' /\ (Linked => Linked')
<1>1. PICK dir : dir = AttribDir(x, d)
    OBVIOUS
<1>2. /\ Exists(Entry(DomainDir(d), "attribs"))
      /\ Begin(<<mkdir(dir), mkdir(Entry(dir, "accounts")), mkdir(Entry(dir, "groups")),
                 save(Entry(dir, "attribs.details"), "details")>>, made)
    BY <1>1, Zenon DEF attribAdd
<1>3. dir = ObjectDir("attribs", x, d)
    BY <1>1, ObjectPaths
<1> QED
    BY <1>2, <1>3, ObjectAdds

\* The details of an account, a group or an attribute.
LEMMA DetailsChange ==
    ASSUME Rest, NEW d \in Domains, NEW n, NEW kind, NEW w, NEW p, p = Entry(ObjectDir(kind, n, d), w),
           w # "acct.activation", Exists(ObjectDir(kind, n, d)), Begin(<<save(p, "details")>>, made)
    PROVE  AInv' /\ (Linked => Linked')
<1>1. p = <<Encoded(d), <<kind>>, Encoded(n), <<w>>>> /\ ObjectDir(kind, n, d) = <<Encoded(d), <<kind>>, Encoded(n)>>
    BY EntryPaths
<1>2. Rooted(p) /\ Len(p) = 4 /\ Parent(p) = ObjectDir(kind, n, d)
  <2>1. Rooted(p)
      BY <1>1, RootedTuples
  <2> QED
      BY <1>1, <2>1, Tuple4
<1>3. PICK steps : steps = <<save(p, "details")>>
    OBVIOUS
<1>4. Sound(steps) /\ DOMAIN steps = {1} /\ steps[1].path = p
    BY <1>2, <1>3, SavesOne
<1>5. ASSUME NEW acct \in Accounts
      PROVE  ~IsFileOf(p, acct)
  <2>1. p # Home(acct)
      BY <1>2, AccountFiles
  <2>2. p # Act(acct)
      BY <1>1, AccountFiles
  <2>3. ASSUME NEW i
        PROVE  p # Pass(acct, i)
      BY <1>1, AccountFiles
  <2> QED
      BY <2>1, <2>2, <2>3 DEF IsFileOf
<1>6. Begin(steps, made)
    BY <1>3
<1>7. \A k \in DOMAIN steps : Len(steps[k].path) # 5
    BY <1>2, <1>4
<1>8. \A k \in DOMAIN steps : \A acct \in Accounts : ~IsFileOf(steps[k].path, acct)
    BY <1>4, <1>5
<1> QED
    BY <1>4, <1>6, <1>7, <1>8, BeginPlain DEF Rest

\* A change of a description or of an account's details keeps the invariant as it begins.
LEMMA DescriptionsChange ==
    ASSUME Rest, NEW d \in Domains, NEW n,
           groupChangeDescription(n, d) \/ attribChangeDescription(n, d) \/ accountChangeDetails(n, d)
    PROVE  AInv' /\ (Linked => Linked')
<1>1. CASE groupChangeDescription(n, d)
  <2>1. /\ Exists(ObjectDir("groups", n, d))
        /\ Begin(<<save(Entry(ObjectDir("groups", n, d), "group.details"), "details")>>, made)
      BY <1>1, ObjectPaths DEF groupChangeDescription
  <2> QED
      BY <2>1, DetailsChange
<1>2. CASE attribChangeDescription(n, d)
  <2>1. /\ Exists(ObjectDir("attribs", n, d))
        /\ Begin(<<save(Entry(ObjectDir("attribs", n, d), "attribs.details"), "details")>>, made)
      BY <1>2, ObjectPaths DEF attribChangeDescription
  <2> QED
      BY <2>1, DetailsChange
<1>3. CASE accountChangeDetails(n, d)
  <2>1. PICK p : p = Entry(ObjectDir("accounts", n, d), "acct.details")
      OBVIOUS
  <2>2. Exists(p) /\ Begin(<<save(p, "details")>>, made)
      BY <1>3, <2>1, ObjectPaths DEF accountChangeDetails, Loads
  <2>3. Exists(ObjectDir("accounts", n, d))
    <3>1. /\ p = <<Encoded(d), <<"accounts">>, Encoded(n), <<"acct.details">>>>
          /\ ObjectDir("accounts", n, d) = <<Encoded(d), <<"accounts">>, Encoded(n)>>
        BY <2>1, EntryPaths
    <3>2. Len(p) = 4 /\ Parent(p) = ObjectDir("accounts", n, d)
        BY <3>1, Tuple4
    <3> QED
        BY <2>2, <3>2 DEF Rest, AInv, Tree, Exists
  <2> QED
      BY <2>1, <2>2, <2>3, DetailsChange
<1> QED
    BY <1>1, <1>2, <1>3

\* The two sides of an association are created.
LEMMA Associates ==
    ASSUME Rest, NEW as \in Associations, Associate(as)
    PROVE  AInv' /\ (Linked => Linked')
<1>1. PICK p, q : p = SideFile(as, 1) /\ q = SideFile(as, 2)
    OBVIOUS
<1>2. PICK then : then = [made EXCEPT !.links = @ \cup {as}]
    OBVIOUS
<1>3. /\ Exists(SideDir(as, 1)) /\ Exists(SideDir(as, 2))
      /\ Begin(<<touch(p), touch(q)>>, then)
    BY <1>2, <1>1, Zenon DEF Associate, BothDirs
<1>4. TypeOK /\ Tree /\ Promises /\ Accounted /\ doing = made /\ PlainNames
    BY DEF Rest, AInv, TypeOK
<1>5. as \in Ties
    BY AssociationsAreTies
<1>6. /\ IsASequence(p) /\ Len(p) = 5 /\ Parent(p) = SideDir(as, 1)
      /\ IsASequence(q) /\ Len(q) = 5 /\ Parent(q) = SideDir(as, 2)
    BY <1>1, <1>5, SideShapes
<1>7. p # q
  <2>1. SUFFICES ASSUME SideFile(as, 1) = SideFile(as, 2)
                 PROVE  FALSE
      BY <1>1
  <2>2. 1 \in {1, 2} /\ 2 \in {1, 2}
      OBVIOUS
  <2>3. 1 = 2
      BY <1>4, <1>5, <2>1, <2>2, SidesApart
  <2> QED
      BY <2>3
<1>8. Rooted(p) /\ Rooted(q)
  <2>1. p[1] = Encoded(as[4]) /\ q[1] = Encoded(as[4])
    <3>1. ASSUME NEW i \in {1, 2}
          PROVE  SideFile(as, i)[1] = Encoded(as[4])
      <4>1. SideFile(as, i) = <<Encoded(as[4]), <<Holder(as[1], i)>>, Encoded(as[1 + i]),
                                <<Holder(as[1], 3 - i)>>, Encoded(as[4 - i])>>
          BY <1>5, SidePaths
      <4> QED
          BY <4>1
    <3> QED
        BY <1>1, <3>1
  <2>2. as[4] \in Domains
      BY DEF Associations
  <2>3. ASSUME NEW f, IsASequence(f), Len(f) = 5, f[1] = Encoded(as[4])
        PROVE  Rooted(f)
    <3>1. Len(f) \in 1 .. 5
        BY <2>3
    <3>2. \E d \in Domains : f[1] = Encoded(d)
        BY <2>2, <2>3
    <3> QED
        BY <2>3, <3>1, <3>2 DEF Rooted
  <2> QED
      BY <1>6, <2>1, <2>3
<1>9. PICK a, b, steps : a = touch(p) /\ b = touch(q) /\ steps = <<a, b>>
    OBVIOUS
<1>10. /\ Creating(a) /\ CallShape(a) /\ a.path = p /\ a.call = "touch"
       /\ Creating(b) /\ CallShape(b) /\ b.path = q /\ b.call = "touch"
    BY <1>8, <1>9, CallsAre
<1>11. IsASequence(steps) /\ steps # <<>> /\ DOMAIN steps = {1, 2} /\ steps[1] = a /\ steps[2] = b
  <2>1. IsASequence(steps)
      BY <1>9, Tuples
  <2> QED
      BY <1>9, <2>1
<1>12. Sound(steps)
  <2>1. Exists(Parent(p)) /\ Exists(Parent(q))
      BY <1>3, <1>6
  <2> QED
      BY <1>7, <1>10, <1>11, <2>1 DEF Sound
<1>13. Begin(steps, then)
    BY <1>3, <1>9
<1>14. /\ Tree' /\ CallShapes' /\ Order'
       /\ \A f : ~IsRemoved(f)' /\ (IsMade(f)' <=> \E k \in DOMAIN steps : steps[k].path = f)
    BY <1>4, <1>12, <1>13, BeginCreating DEF Sound
<1>15. \A f : ~IsRemoved(f)' /\ (IsMade(f)' <=> f = p \/ f = q)
    BY <1>10, <1>11, <1>14
<1>16. then = [links |-> made.links \cup {as}, accounts |-> made.accounts]
    BY <1>2, <1>4 DEF Promises
<1>17. TypeOK' /\ Promises'
  <2>1. then.links = made.links \cup {as} /\ then.accounts = made.accounts
      BY <1>16
  <2>2. then = [links |-> then.links, accounts |-> then.accounts]
      BY <1>16, <2>1
  <2>3. then.links \subseteq Associations
      BY <1>4, <2>1 DEF TypeOK
  <2>4. /\ then.accounts = [acct \in Accounts |-> then.accounts[acct]]
        /\ \A acct \in Accounts : \A v \in then.accounts[acct] : IsVersion(v)
      BY <1>4, <2>1 DEF Promises
  <2> QED
      BY <1>4, <1>11, <1>13, <2>2, <2>3, <2>4, BeginPromises DEF Rest
<1>18. Accounted'
  <2>1. SUFFICES ASSUME NEW acct \in Accounts
                 PROVE  WillBeAccount(acct)' /\ IsAccount(acct)' /\ ActivationFirst(acct)'
      BY DEF Accounted
  <2>2. AccountRests(acct)
      BY <1>4, AccountsRest DEF Rest
  <2>3. ~IsMade(Home(acct))' /\ ~IsMade(Act(acct))' /\ \A i : ~IsMade(Pass(acct, i))'
    <3>1. Len(Home(acct)) = 3 /\ Len(Act(acct)) = 4 /\ \A i : Len(Pass(acct, i)) = 4
        BY AccountFiles
    <3>2. \A f : Len(f) # 5 => ~IsMade(f)'
        BY <1>6, <1>15
    <3> QED
        BY <3>1, <3>2
  <2>4. ~IsRemoved(Home(acct))' /\ ~IsRemoved(Act(acct))' /\ \A i : ~IsRemoved(Pass(acct, i))'
      BY <1>15
  <2>5. then.accounts[acct] = made.accounts[acct]
      BY <1>16
  <2> QED
      BY <1>4, <1>13, <2>2, <2>3, <2>4, <2>5, AccountStays
<1>19. ASSUME Linked
       PROVE  Linked'
  <2>1. \A bs \in Associations \ doubt : LinkRests(bs)
      BY <1>4, <1>19, LinksRest DEF Rest
  <2>2. then.links = made.links \cup {as}
      BY <1>16
  <2>3. SUFFICES ASSUME NEW bs \in Associations \ doubt
                 PROVE  \/ /\ bs \in then.links <=> bs \in made.links
                           /\ \A i \in {1, 2} : ~IsMade(SideFile(bs, i))'
                           /\ bs \in made.links => \A i \in {1, 2} : ~IsRemoved(SideFile(bs, i))'
                        \/ /\ bs \in then.links
                           /\ \A i \in {1, 2} : IsMade(SideFile(bs, i))' /\ ~IsRemoved(SideFile(bs, i))'
      BY <1>4, <1>13, <2>1, BeginLinked DEF Rest
  <2>4. CASE bs = as
    <3>1. \A i \in {1, 2} : SideFile(bs, i) = p \/ SideFile(bs, i) = q
        BY <1>1, <2>4
    <3>2. ASSUME NEW i \in {1, 2}
          PROVE  IsMade(SideFile(bs, i))' /\ ~IsRemoved(SideFile(bs, i))'
        BY <1>15, <3>1
    <3> QED
        BY <2>2, <2>4, <3>2
  <2>5. CASE bs # as
    <3>1. ASSUME NEW i \in {1, 2}
          PROVE  SideFile(bs, i) # p /\ SideFile(bs, i) # q
        BY <1>1, <1>4, <1>5, <2>5, AssociationsAreTies, SidesApart
    <3>2. ASSUME NEW i \in {1, 2}
          PROVE  ~IsMade(SideFile(bs, i))' /\ ~IsRemoved(SideFile(bs, i))'
        BY <1>15, <3>1
    <3> QED
        BY <2>2, <2>5, <3>2
  <2> QED
      BY <2>4, <2>5
<1> QED
    BY <1>14, <1>17, <1>18, <1>19 DEF AInv

-----------------------------------------------------------------------------
(* The functions that remove, one by one *)

\* A removal takes whole directories, and the files of some associations.
Beneath(D, p) == \E dir \in D : IsPrefix(dir, p)
Takes(steps, D, R) ==
    /\ steps # <<>> /\ IsASequence(steps)
    /\ \A k \in DOMAIN steps : Removing(steps[k]) /\ CallShape(steps[k])
    /\ R \subseteq Ties
    /\ \A p : (\E k \in DOMAIN steps : RemovedBy(steps[k], p))
                  <=> Beneath(D, p) \/ \E as \in R : p = SideFile(as, 1) \/ p = SideFile(as, 2)

\* What is promised once accounts and associations are gone.
LEMMA WithoutIs ==
    ASSUME Promises, NEW accts, NEW gone, NEW then, then = Without(accts, gone)
    PROVE  /\ then = [links |-> then.links, accounts |-> then.accounts]
           /\ then.links = made.links \ gone
           /\ then.accounts = [acct \in Accounts |-> then.accounts[acct]]
           /\ \A acct \in Accounts : then.accounts[acct] = IF acct \in accts THEN {} ELSE made.accounts[acct]
           /\ \A acct \in Accounts : \A v \in then.accounts[acct] : IsVersion(v)
<1>1. PICK f : f = [acct \in Accounts |-> IF acct \in accts THEN {} ELSE made.accounts[acct]]
    OBVIOUS
<1>2. then = [links |-> made.links \ gone, accounts |-> f]
    BY <1>1 DEF Without
<1>3. then.links = made.links \ gone /\ then.accounts = f
    BY <1>2
<1>4. \A acct \in Accounts : f[acct] = IF acct \in accts THEN {} ELSE made.accounts[acct]
    BY <1>1
<1>5. f = [acct \in Accounts |-> f[acct]]
    BY <1>1
<1>6. \A acct \in Accounts : \A v \in f[acct] : IsVersion(v)
    BY <1>4 DEF Promises
<1> QED
    BY <1>2, <1>3, <1>4, <1>5, <1>6

\* A removal keeps what holds of accounts: those it takes lose their files, the others none.
LEMMA RemovalAccounts ==
    ASSUME Rest, NEW steps, NEW D, NEW R, Takes(steps, D, R),
           NEW accts, NEW gone, Begin(steps, Without(accts, gone)),
           \A acct \in Accounts : acct \in accts => Beneath(D, Home(acct)) /\ Beneath(D, Act(acct)),
           \A acct \in Accounts : acct \notin accts =>
               ~Beneath(D, Home(acct)) /\ ~Beneath(D, Act(acct)) /\ \A i : ~Beneath(D, Pass(acct, i))
    PROVE  AInv'
<1>1. TypeOK /\ Tree /\ Promises /\ Accounted /\ doing = made /\ PlainNames
    BY DEF Rest, AInv, TypeOK
<1>2. PICK then : then = Without(accts, gone)
    OBVIOUS
<1>3. /\ then = [links |-> then.links, accounts |-> then.accounts]
      /\ then.links = made.links \ gone
      /\ then.accounts = [acct \in Accounts |-> then.accounts[acct]]
      /\ \A acct \in Accounts : then.accounts[acct] = IF acct \in accts THEN {} ELSE made.accounts[acct]
      /\ \A acct \in Accounts : \A v \in then.accounts[acct] : IsVersion(v)
    BY <1>1, <1>2, WithoutIs
<1>4. Begin(steps, then)
    BY <1>2
<1>5. then.links \subseteq Associations
    BY <1>1, <1>3 DEF TypeOK
<1>6. TypeOK' /\ Promises'
    BY <1>1, <1>3, <1>4, <1>5, BeginPromises DEF Rest, Takes
<1>7. /\ Tree' /\ CallShapes' /\ Order'
      /\ \A p : ~IsMade(p)' /\ (IsRemoved(p)' <=> \E k \in DOMAIN steps : RemovedBy(steps[k], p))
    BY <1>1, <1>4, BeginRemoving DEF Takes
<1>8. \A p : IsRemoved(p)' <=> Beneath(D, p) \/ \E as \in R : p = SideFile(as, 1) \/ p = SideFile(as, 2)
    BY <1>7 DEF Takes
<1>9. \A p : Len(p) # 5 => (IsRemoved(p)' <=> Beneath(D, p))
  <2>1. \A as \in R : Len(SideFile(as, 1)) = 5 /\ Len(SideFile(as, 2)) = 5
      BY SideShapes DEF Takes
  <2> QED
      BY <1>8, <2>1
<1>10. Accounted'
  <2>1. SUFFICES ASSUME NEW acct \in Accounts
                 PROVE  WillBeAccount(acct)' /\ IsAccount(acct)' /\ ActivationFirst(acct)'
      BY DEF Accounted
  <2>2. AccountRests(acct)
      BY <1>1, AccountsRest DEF Rest
  <2>3. Len(Home(acct)) = 3 /\ Len(Act(acct)) = 4 /\ \A i : Len(Pass(acct, i)) = 4
      BY AccountFiles
  <2>4. /\ IsRemoved(Home(acct))' <=> Beneath(D, Home(acct))
        /\ IsRemoved(Act(acct))' <=> Beneath(D, Act(acct))
        /\ \A i : IsRemoved(Pass(acct, i))' <=> Beneath(D, Pass(acct, i))
      BY <1>9, <2>3
  <2>5. CASE acct \in accts
    <3>1. then.accounts[acct] = {} /\ IsRemoved(Home(acct))' /\ IsRemoved(Act(acct))'
        BY <1>3, <2>4, <2>5
    <3> QED
        BY <1>1, <1>4, <1>7, <2>2, <3>1, AccountGoes
  <2>6. CASE acct \notin accts
    <3>1. then.accounts[acct] = made.accounts[acct]
        BY <1>3, <2>6
    <3>2. ~IsRemoved(Home(acct))' /\ ~IsRemoved(Act(acct))' /\ \A i : ~IsRemoved(Pass(acct, i))'
        BY <2>4, <2>6
    <3>3. ~IsMade(Home(acct))' /\ ~IsMade(Act(acct))' /\ \A i : ~IsMade(Pass(acct, i))'
        BY <1>7
    <3> QED
        BY <1>1, <1>4, <2>2, <3>1, <3>2, <3>3, AccountStays
  <2> QED
      BY <2>5, <2>6
<1> QED
    BY <1>6, <1>7, <1>10 DEF AInv

\* A removal keeps what holds of associations, when it ends those that hang on what it takes.
LEMMA RemovalLinks ==
    ASSUME Rest, Linked, NEW steps, NEW D, NEW R, Takes(steps, D, R),
           NEW accts, NEW gone, Begin(steps, Without(accts, gone)),
           \A as \in R : as \in Associations => as \in gone,
           \A as \in Associations, i \in {1, 2} : Beneath(D, SideFile(as, i)) => as \in gone,
           \A as \in Associations : as \in gone /\ Exists(SideFile(as, 1)) /\ Exists(SideFile(as, 2)) =>
               as \in R \/ (as[1] # "group-account" /\ Beneath(D, SideFile(as, 1)))
                        \/ (Beneath(D, SideFile(as, 1)) /\ Beneath(D, SideFile(as, 2)))
    PROVE  Linked'
<1>1. TypeOK /\ Tree /\ Promises /\ doing = made /\ PlainNames
    BY DEF Rest, AInv, TypeOK
<1>2. PICK then : then = Without(accts, gone)
    OBVIOUS
<1>3. then.links = made.links \ gone
  <2>1. /\ then = [links |-> then.links, accounts |-> then.accounts]
        /\ then.links = made.links \ gone
        /\ then.accounts = [acct \in Accounts |-> then.accounts[acct]]
        /\ \A acct \in Accounts : then.accounts[acct] = IF acct \in accts THEN {} ELSE made.accounts[acct]
        /\ \A acct \in Accounts : \A v \in then.accounts[acct] : IsVersion(v)
      BY <1>1, <1>2, WithoutIs
  <2> QED
      BY <2>1
<1>4. Begin(steps, then)
    BY <1>2
<1>5. \A p : ~IsMade(p)' /\ (IsRemoved(p)' <=> \E k \in DOMAIN steps : RemovedBy(steps[k], p))
    BY <1>1, <1>4, BeginRemoving DEF Takes
<1>6. \A p : IsRemoved(p)' <=> Beneath(D, p) \/ \E as \in R : p = SideFile(as, 1) \/ p = SideFile(as, 2)
    BY <1>5 DEF Takes
<1>7. \A as \in Associations \ doubt : LinkRests(as)
    BY <1>1, LinksRest DEF Rest
<1>8. ASSUME NEW as \in Associations \ doubt
      PROVE  \/ /\ as \in then.links <=> as \in made.links
                /\ \A i \in {1, 2} : ~IsMade(SideFile(as, i))'
                /\ as \in made.links => \A i \in {1, 2} : ~IsRemoved(SideFile(as, i))'
             \/ /\ as \notin then.links
                /\ IsRemoved(SideFile(as, 1))'
                /\ as[1] = "group-account" => IsRemoved(SideFile(as, 2))'
  <2>1. LinkRests(as) /\ \A i \in {1, 2} : ~IsMade(SideFile(as, i))'
      BY <1>5, <1>7
  <2>2. CASE as \notin made.links
      BY <1>3, <2>1, <2>2
  <2>3. CASE as \in made.links /\ as \in gone
    <3>1. Exists(SideFile(as, 1)) /\ Exists(SideFile(as, 2))
        BY <2>1, <2>3 DEF LinkRests
    <3>2. \/ as \in R
          \/ as[1] # "group-account" /\ Beneath(D, SideFile(as, 1))
          \/ Beneath(D, SideFile(as, 1)) /\ Beneath(D, SideFile(as, 2))
        BY <2>3, <3>1
    <3>3. IsRemoved(SideFile(as, 1))' /\ (as[1] = "group-account" => IsRemoved(SideFile(as, 2))')
        BY <1>6, <3>2
    <3> QED
        BY <1>3, <2>3, <3>3
  <2>4. CASE as \in made.links /\ as \notin gone
    <3>1. ASSUME NEW i \in {1, 2}
          PROVE  ~IsRemoved(SideFile(as, i))'
      <4>1. ~Beneath(D, SideFile(as, i))
          BY <2>4
      <4>2. ASSUME NEW bs \in R, NEW j \in {1, 2}
            PROVE  SideFile(as, i) # SideFile(bs, j)
        <5>1. as \in Ties /\ bs \in Ties /\ as # bs
            BY <2>4, AssociationsAreTies DEF Takes
        <5> QED
            BY <1>1, <5>1, SidesApart
      <4> QED
          BY <1>6, <4>1, <4>2
    <3> QED
        BY <1>3, <2>1, <2>4, <3>1
  <2> QED
      BY <2>2, <2>3, <2>4
<1> QED
    BY <1>1, <1>4, <1>7, <1>8, BeginLinked DEF Rest

\* What is under the directory of an object.
LEMMA AccountUnder ==
    ASSUME PlainNames, NEW acct \in Accounts, NEW kind, NEW n \in Names, NEW d \in Names,
           NEW p, IsFileOf(p, acct)
    PROVE  IsPrefix(ObjectDir(kind, n, d), p) <=> kind = "accounts" /\ acct = <<n, d>>
<1>1. /\ IsASequence(p) /\ Len(p) \in {3, 4} /\ p[1] = Encoded(acct[2]) /\ p[2] = <<"accounts">>
      /\ p[3] = Encoded(acct[1])
  <2>1. CASE p = Home(acct)
    <3>1. p = <<Encoded(acct[2]), <<"accounts">>, Encoded(acct[1])>> /\ IsASequence(p) /\ Len(p) = 3
        BY <2>1, AccountFiles
    <3> QED
        BY <3>1
  <2>2. CASE p = Act(acct)
    <3>1. /\ p = <<Encoded(acct[2]), <<"accounts">>, Encoded(acct[1]), <<"acct.activation">>>>
          /\ IsASequence(p) /\ Len(p) = 4
        BY <2>2, AccountFiles
    <3> QED
        BY <3>1
  <2>3. ASSUME NEW i, p = Pass(acct, i)
        PROVE  /\ IsASequence(p) /\ Len(p) \in {3, 4} /\ p[1] = Encoded(acct[2]) /\ p[2] = <<"accounts">>
               /\ p[3] = Encoded(acct[1])
    <3>1. /\ p = <<Encoded(acct[2]), <<"accounts">>, Encoded(acct[1]), <<"acct.passwd", i>>>>
          /\ IsASequence(p) /\ Len(p) = 4
        BY <2>3, AccountFiles
    <3> QED
        BY <3>1
  <2> QED
      BY <2>1, <2>2, <2>3 DEF IsFileOf
<1>2. /\ acct = <<acct[1], acct[2]>> /\ acct[1] \in Names /\ acct[2] \in Names
    BY AccountsAre
<1>3. Encoded(acct[2]) = Encoded(d) <=> acct[2] = d
    BY <1>2, EncodedApart
<1>4. Encoded(acct[1]) = Encoded(n) <=> acct[1] = n
    BY <1>2, EncodedApart
<1>5. IsPrefix(ObjectDir(kind, n, d), p)
          <=> Len(p) >= 3 /\ p[1] = Encoded(d) /\ p[2] = <<kind>> /\ p[3] = Encoded(n)
    BY <1>1, UnderObject
<1>6. acct = <<n, d>> <=> acct[1] = n /\ acct[2] = d
    BY <1>2
<1>7. <<"accounts">> = <<kind>> <=> kind = "accounts"
    OBVIOUS
<1> QED
    BY <1>1, <1>3, <1>4, <1>5, <1>6, <1>7

\* The directory of an object has a side of an association when the object is that end of it.
LEMMA SideUnder ==
    ASSUME PlainNames, NEW as \in Ties, NEW i \in {1, 2}, NEW kind, NEW n \in Names, NEW d \in Names
    PROVE  IsPrefix(ObjectDir(kind, n, d), SideFile(as, i))
               <=> as[4] = d /\ Holder(as[1], i) = kind /\ as[1 + i] = n
<1>1. PICK p : p = SideFile(as, i)
    OBVIOUS
<1>2. p = <<Encoded(as[4]), <<Holder(as[1], i)>>, Encoded(as[1 + i]), <<Holder(as[1], 3 - i)>>, Encoded(as[4 - i])>>
    BY <1>1, SidePaths
<1>3. p[1] = Encoded(as[4]) /\ p[2] = <<Holder(as[1], i)>> /\ p[3] = Encoded(as[1 + i])
    BY <1>2
<1>4. IsASequence(p) /\ Len(p) = 5
    BY <1>1, SideShapes
<1>5. as[4] \in Names /\ as[1 + i] \in Names
  <2>1. as[2] \in Names /\ as[3] \in Names /\ as[4] \in Names
      BY TiesAre
  <2>2. 1 + i = 2 \/ 1 + i = 3
      OBVIOUS
  <2> QED
      BY <2>1, <2>2
<1>6. Encoded(as[4]) = Encoded(d) <=> as[4] = d
    BY <1>5, EncodedApart
<1>7. Encoded(as[1 + i]) = Encoded(n) <=> as[1 + i] = n
    BY <1>5, EncodedApart
<1>8. IsPrefix(ObjectDir(kind, n, d), p)
          <=> Len(p) >= 3 /\ p[1] = Encoded(d) /\ p[2] = <<kind>> /\ p[3] = Encoded(n)
    BY <1>4, UnderObject
<1>9. <<Holder(as[1], i)>> = <<kind>> <=> Holder(as[1], i) = kind
    OBVIOUS
<1>10. Len(p) >= 3
    BY <1>4
<1> QED
    BY <1>1, <1>3, <1>6, <1>7, <1>8, <1>9, <1>10, Zenon

\* A directory lists the names of its files.
LEMMA ListedAre ==
    ASSUME PlainNames, NEW dir, NEW what, NEW Ns, Ns \subseteq Names, NEW n
    PROVE  n \in Listed(dir, what, Ns)
               <=> n \in Ns /\ Exists(Entry(dir, what)) /\ Exists(EntryOf(dir, what, n))
<1>1. \A m \in Ns : Decoded(Encoded(m)) = m
    BY DecodedEncoded
<1> QED
    BY <1>1 DEF Listed

\* An association with both its files is one that Ends removes.
LEMMA FilesAreThere ==
    ASSUME Tree, NEW as \in Ties, Exists(SideFile(as, 1)), Exists(SideFile(as, 2)), NEW S, as \in S
    PROVE  as \in There(S)
<1>1. \A i \in {1, 2} : Len(SideFile(as, i)) = 5 /\ SideDir(as, i) = Parent(SideFile(as, i))
    BY SideShapes
<1>2. \A i \in {1, 2} : Exists(SideFile(as, i)) => Exists(SideDir(as, i))
  <2>1. SUFFICES ASSUME NEW i \in {1, 2}, Exists(SideFile(as, i))
                 PROVE  Exists(SideDir(as, i))
      OBVIOUS
  <2>2. PICK p : p = SideFile(as, i)
      OBVIOUS
  <2>3. p \in DOMAIN fs
      BY <2>1, <2>2 DEF Exists
  <2>4. Len(p) = 5 /\ SideDir(as, i) = Parent(p)
      BY <1>1, <2>2, Zenon
  <2>5. Len(p) # 1
      BY <2>4
  <2> QED
      BY <2>3, <2>4, <2>5 DEF Tree, Exists
<1>3. BothDirs(as)
    BY <1>2 DEF BothDirs
<1> QED
    BY <1>3 DEF There

\* domainRemove keeps the invariant as it begins.
LEMMA DomainRemoves ==
    ASSUME Rest, NEW d \in Domains, domainRemove(d)
    PROVE  AInv' /\ (Linked => Linked')
<1>1. PICK dir, steps, accts, gone :
          /\ dir = DomainDir(d) /\ steps = <<removeAll(dir)>>
          /\ accts = AccountNames \X {d} /\ gone = {as \in Associations : as[4] = d}
    OBVIOUS
<1>2. Begin(steps, Without(accts, gone))
    BY <1>1, Zenon DEF domainRemove
<1>3. Rooted(dir)
    BY <1>1, DomainPaths, RootedTuples
<1>4. Takes(steps, {dir}, {})
  <2>1. /\ IsASequence(steps)
        /\ \A k \in DOMAIN steps : Removing(steps[k]) /\ CallShape(steps[k])
        /\ \A p : (\E k \in DOMAIN steps : RemovedBy(steps[k], p)) <=> IsPrefix(dir, p)
      BY <1>1, <1>3, RemoveAllCalls
  <2>2. steps # <<>>
      BY <1>1
  <2> QED
      BY <2>1, <2>2 DEF Takes, Beneath
<1>5. \A p : IsASequence(p) /\ Len(p) >= 1 => (Beneath({dir}, p) <=> p[1] = Encoded(d))
    BY <1>1, UnderDomain DEF Beneath
<1>6. ASSUME NEW acct \in Accounts, NEW p, IsFileOf(p, acct)
      PROVE  Beneath({dir}, p) <=> acct \in accts
  <2>1. IsASequence(p) /\ Len(p) >= 1 /\ p[1] = Encoded(acct[2])
    <3>1. CASE p = Home(acct)
      <4>1. p = <<Encoded(acct[2]), <<"accounts">>, Encoded(acct[1])>> /\ IsASequence(p) /\ Len(p) = 3
          BY <3>1, AccountFiles
      <4> QED
          BY <4>1
    <3>2. CASE p = Act(acct)
      <4>1. /\ p = <<Encoded(acct[2]), <<"accounts">>, Encoded(acct[1]), <<"acct.activation">>>>
            /\ IsASequence(p) /\ Len(p) = 4
          BY <3>2, AccountFiles
      <4> QED
          BY <4>1
    <3>3. ASSUME NEW i, p = Pass(acct, i)
          PROVE  IsASequence(p) /\ Len(p) >= 1 /\ p[1] = Encoded(acct[2])
      <4>1. /\ p = <<Encoded(acct[2]), <<"accounts">>, Encoded(acct[1]), <<"acct.passwd", i>>>>
            /\ IsASequence(p) /\ Len(p) = 4
          BY <3>3, AccountFiles
      <4> QED
          BY <4>1
    <3> QED
        BY <1>6, <3>1, <3>2, <3>3 DEF IsFileOf
  <2>2. acct = <<acct[1], acct[2]>> /\ acct[1] \in AccountNames /\ acct[2] \in Names /\ d \in Names
      BY AccountsAre DEF Names
  <2>3. Encoded(acct[2]) = Encoded(d) <=> acct[2] = d
      BY <2>2, EncodedApart DEF Rest
  <2>4. acct \in accts <=> acct[2] = d
      BY <1>1, <2>2
  <2> QED
      BY <1>5, <2>1, <2>3, <2>4
<1>7. ASSUME NEW as \in Associations, NEW i \in {1, 2}
      PROVE  Beneath({dir}, SideFile(as, i)) <=> as \in gone
  <2>1. as \in Ties
      BY AssociationsAreTies
  <2>2. IsASequence(SideFile(as, i)) /\ Len(SideFile(as, i)) = 5
      BY <2>1, SideShapes
  <2>3. SideFile(as, i)[1] = Encoded(as[4])
    <3>1. SideFile(as, i) = <<Encoded(as[4]), <<Holder(as[1], i)>>, Encoded(as[1 + i]),
                              <<Holder(as[1], 3 - i)>>, Encoded(as[4 - i])>>
        BY <2>1, SidePaths
    <3> QED
        BY <3>1
  <2>4. as[4] \in Names /\ d \in Names
      BY <2>1, TiesAre DEF Names
  <2>5. Encoded(as[4]) = Encoded(d) <=> as[4] = d
      BY <2>4, EncodedApart DEF Rest
  <2>6. PICK p : p = SideFile(as, i)
      OBVIOUS
  <2>7. IsASequence(p) /\ Len(p) >= 1 /\ p[1] = Encoded(as[4])
    <3>1. IsASequence(p) /\ Len(p) = 5 /\ p[1] = Encoded(as[4])
        BY <2>2, <2>3, <2>6, Zenon
    <3> QED
        BY <3>1
  <2>8. as \in gone <=> as[4] = d
      BY <1>1
  <2> QED
      BY <1>5, <2>5, <2>6, <2>7, <2>8, Zenon
<1>8. AInv'
  <2>1. \A acct \in Accounts : IsFileOf(Home(acct), acct) /\ IsFileOf(Act(acct), acct) /\ \A i : IsFileOf(Pass(acct, i), acct)
      BY DEF IsFileOf
  <2>2. /\ \A acct \in Accounts : acct \in accts => Beneath({dir}, Home(acct)) /\ Beneath({dir}, Act(acct))
        /\ \A acct \in Accounts : acct \notin accts =>
               ~Beneath({dir}, Home(acct)) /\ ~Beneath({dir}, Act(acct)) /\ \A i : ~Beneath({dir}, Pass(acct, i))
      BY <1>6, <2>1
  <2> QED
      BY <1>2, <1>4, <2>2, RemovalAccounts
<1>9. Linked => Linked'
  <2>1. \A as \in Associations : as \in gone => Beneath({dir}, SideFile(as, 1)) /\ Beneath({dir}, SideFile(as, 2))
      BY <1>7
  <2> QED
      BY <1>2, <1>4, <1>7, <2>1, RemovalLinks
<1> QED
    BY <1>8, <1>9

\* The removal of an object takes its directory and the associations it lists.
LEMMA ObjectTakes ==
    ASSUME NEW S, S \subseteq Ties, NEW T, T \subseteq Ties, NEW d \in Domains, NEW kind, NEW n,
           NEW dir, dir = ObjectDir(kind, n, d), NEW steps, steps = RemovalSteps(S, T, dir)
    PROVE  Takes(steps, {dir}, There(S) \cup There(T))
<1>1. dir = <<Encoded(d), <<kind>>, Encoded(n)>>
    BY EntryPaths
<1>2. Rooted(dir)
    BY <1>1, RootedTuples
<1>3. /\ IsASequence(steps)
      /\ \A k \in DOMAIN steps : Removing(steps[k]) /\ CallShape(steps[k])
      /\ \A p : (\E k \in DOMAIN steps : RemovedBy(steps[k], p))
             <=> \/ IsPrefix(dir, p)
                 \/ \E as \in There(S) \cup There(T) : p = SideFile(as, 1) \/ p = SideFile(as, 2)
  <2>1. Clears(steps, dir, There(S) \cup There(T))
      BY <1>2, RemovalCalls
  <2> QED
      BY <2>1 DEF Clears
<1>4. IsPrefix(dir, dir)
  <2>1. IsASequence(dir) /\ Len(dir) = 3
      BY <1>1, Tuple3
  <2>2. dir[1] = Encoded(d) /\ dir[2] = <<kind>> /\ dir[3] = Encoded(n)
      BY <1>1
  <2> QED
      BY <2>1, <2>2, UnderObject
<1>5. \E k \in DOMAIN steps : RemovedBy(steps[k], dir)
    BY <1>3, <1>4
<1>6. steps # <<>>
    BY <1>5
<1>7. There(S) \cup There(T) \subseteq Ties
    BY DEF There
<1>8. \A p : Beneath({dir}, p) <=> IsPrefix(dir, p)
    BY DEF Beneath
<1> QED
    BY <1>3, <1>6, <1>7, <1>8 DEF Takes

\* The accounts it takes: the one whose directory that is.
LEMMA ObjectAccounts ==
    ASSUME Rest, NEW kind, NEW n \in Names, NEW d \in Names, NEW dir, dir = ObjectDir(kind, n, d),
           NEW R, NEW steps, Takes(steps, {dir}, R),
           NEW accts, accts = IF kind = "accounts" THEN {<<n, d>>} ELSE {},
           NEW gone, Begin(steps, Without(accts, gone))
    PROVE  AInv'
<1>1. ASSUME NEW acct \in Accounts, NEW p, IsFileOf(p, acct)
      PROVE  Beneath({dir}, p) <=> acct \in accts
  <2>1. IsPrefix(dir, p) <=> kind = "accounts" /\ acct = <<n, d>>
      BY <1>1, AccountUnder DEF Rest
  <2>2. acct \in accts <=> kind = "accounts" /\ acct = <<n, d>>
      OBVIOUS
  <2> QED
      BY <2>1, <2>2 DEF Beneath
<1>2. \A acct \in Accounts : IsFileOf(Home(acct), acct) /\ IsFileOf(Act(acct), acct) /\ \A i : IsFileOf(Pass(acct, i), acct)
    BY DEF IsFileOf
<1>3. /\ \A acct \in Accounts : acct \in accts => Beneath({dir}, Home(acct)) /\ Beneath({dir}, Act(acct))
      /\ \A acct \in Accounts : acct \notin accts =>
             ~Beneath({dir}, Home(acct)) /\ ~Beneath({dir}, Act(acct)) /\ \A i : ~Beneath({dir}, Pass(acct, i))
    BY <1>1, <1>2
<1> QED
    BY <1>3, RemovalAccounts

\* The end of one association keeps the invariant as it begins.
LEMMA Dissociates1 ==
    ASSUME Rest, NEW as \in Associations, Dissociate(as)
    PROVE  AInv' /\ (Linked => Linked')
<1>1. PICK steps : steps = Ends({as})
    OBVIOUS
<1>2. steps # <<>>
    BY <1>1 DEF Dissociate
<1>3. Begin(steps, Without({}, {as}))
  <2>1. PICK then : then = [made EXCEPT !.links = @ \ {as}]
      OBVIOUS
  <2>2. Begin(steps, then)
      BY <1>1, <2>1, Zenon DEF Dissociate
  <2>3. /\ made = [links |-> made.links, accounts |-> made.accounts]
        /\ made.accounts = [acct \in Accounts |-> made.accounts[acct]]
      BY DEF Rest, AInv, Promises
  <2>4. then = [links |-> made.links \ {as}, accounts |-> made.accounts]
      BY <2>1, <2>3
  <2>5. Without({}, {as}) = [links |-> made.links \ {as}, accounts |-> [acct \in Accounts |-> made.accounts[acct]]]
      BY DEF Without
  <2>6. then = Without({}, {as})
      BY <2>3, <2>4, <2>5, Zenon
  <2> QED
      BY <2>2, <2>6
<1>4. as \in Ties
    BY AssociationsAreTies
<1>5. \A p : ~Beneath({}, p)
    BY DEF Beneath
<1>6. Takes(steps, {}, There({as}))
  <2>1. {as} \subseteq Ties
      BY <1>4
  <2>2. /\ IsASequence(steps)
        /\ \A k \in DOMAIN steps : Removing(steps[k]) /\ CallShape(steps[k])
        /\ \A p : (\E k \in DOMAIN steps : RemovedBy(steps[k], p))
                      <=> \E bs \in There({as}) : p = SideFile(bs, 1) \/ p = SideFile(bs, 2)
      BY <1>1, <2>1, EndsCalls
  <2>3. There({as}) \subseteq Ties
      BY <1>4 DEF There
  <2> QED
      BY <1>2, <1>5, <2>2, <2>3 DEF Takes
<1>7. AInv'
    BY <1>3, <1>5, <1>6, RemovalAccounts
<1>8. Linked => Linked'
  <2>1. ASSUME NEW bs \in Associations, bs \in {as}, Exists(SideFile(bs, 1)), Exists(SideFile(bs, 2))
        PROVE  bs \in There({as})
      BY <1>4, <2>1, FilesAreThere DEF Rest, AInv
  <2>2. There({as}) \subseteq {as}
      BY DEF There
  <2> QED
      BY <1>3, <1>5, <1>6, <2>1, <2>2, RemovalLinks
<1> QED
    BY <1>7, <1>8

\* accountRemove keeps the invariant as it begins: it ends what the account's directory lists.
LEMMA AccountRemoves ==
    ASSUME Rest, NEW a \in AccountNames, NEW d \in Domains, accountRemove(a, d)
    PROVE  AInv' /\ (Linked => Linked')
<1>1. PICK dir, S, T, gone :
          /\ dir = AccountDir(a, d)
          /\ S = {<<"attrib-account", x, a, d>> : x \in accountDirectAttribs(a, d)}
          /\ T = {<<"group-account", g, a, d>> : g \in accountGroups(a, d)}
          /\ gone = OfAccount(a, d)
    OBVIOUS
<1>2. PICK steps : steps = RemovalSteps(S, T, dir)
    OBVIOUS
<1>3. Begin(steps, Without({<<a, d>>}, gone))
    BY <1>1, <1>2, Zenon DEF accountRemove, RemovalSteps
<1>4. a \in Names /\ d \in Names /\ AttribNames \subseteq Names /\ GroupNames \subseteq Names
    BY DEF Names
<1>5. /\ \A x : x \in accountDirectAttribs(a, d)
             <=> x \in AttribNames /\ Exists(Entry(dir, "attribs")) /\ Exists(EntryOf(dir, "attribs", x))
      /\ \A g : g \in accountGroups(a, d)
             <=> g \in GroupNames /\ Exists(Entry(dir, "groups")) /\ Exists(EntryOf(dir, "groups", g))
    BY <1>1, <1>4, ListedAre DEF Rest, accountDirectAttribs, accountGroups
<1>6. S \subseteq gone /\ T \subseteq gone
    BY <1>1, <1>5 DEF OfAccount, Associations
<1>7. gone \subseteq Associations /\ Associations \subseteq Ties
    BY <1>1, AssociationsAreTies DEF OfAccount
<1>8. dir = ObjectDir("accounts", a, d)
    BY <1>1, ObjectPaths
<1>9. Takes(steps, {dir}, There(S) \cup There(T))
    BY <1>2, <1>6, <1>7, <1>8, ObjectTakes
<1>10. AInv'
    BY <1>3, <1>4, <1>8, <1>9, ObjectAccounts
<1>11. ASSUME NEW as \in Associations, NEW i \in {1, 2}, Beneath({dir}, SideFile(as, i))
       PROVE  as \in gone
  <2>1. as \in Ties
      BY <1>7
  <2>2. as[4] = d /\ Holder(as[1], i) = "accounts" /\ as[1 + i] = a
    <3>1. IsPrefix(ObjectDir("accounts", a, d), SideFile(as, i))
        BY <1>8, <1>11 DEF Beneath
    <3>2. PlainNames
        BY DEF Rest
    <3> QED
        BY <1>4, <2>1, <3>1, <3>2, SideUnder
  <2>3. as[1] \in {"attrib-account", "attrib-group", "group-account"}
      BY <2>1, TiesAre
  <2>4. as[1] \in {"attrib-account", "group-account"} /\ i = 2
      BY <2>2, <2>3 DEF Holder
  <2>5. as[3] = a
    <3>1. 1 + i = 3
        BY <2>4
    <3> QED
        BY <2>2, <3>1
  <2> QED
      BY <1>1, <2>2, <2>4, <2>5 DEF OfAccount
<1>12. ASSUME NEW as \in Associations, as \in gone, Exists(SideFile(as, 1)), Exists(SideFile(as, 2))
       PROVE  as \in There(S) \cup There(T)
  <2>1. as \in Ties
      BY <1>7
  <2>2. as[3] = a /\ as[4] = d /\ as[1] \in {"attrib-account", "group-account"}
      BY <1>1, <1>12 DEF OfAccount
  <2>3. as = <<as[1], as[2], a, d>>
      BY <2>1, <2>2, TiesAre
  <2>4. BothDirs(as)
      BY <1>12, <2>1, FilesAreThere DEF There, Rest, AInv
  <2>5. CASE as[1] = "attrib-account"
    <3>1. SideFile(as, 2) = EntryOf(dir, "attribs", as[2]) /\ SideDir(as, 2) = Entry(dir, "attribs")
        BY <1>1, <2>2, <2>5 DEF SideFile, SideDir, Sides
    <3>2. as[2] \in AttribNames
        BY <2>5 DEF Associations
    <3>3. as \in S
        BY <1>1, <1>5, <1>12, <2>3, <2>4, <2>5, <3>1, <3>2 DEF BothDirs
    <3> QED
        BY <1>12, <2>1, <3>3, FilesAreThere DEF Rest, AInv
  <2>6. CASE as[1] = "group-account"
    <3>1. SideFile(as, 2) = EntryOf(dir, "groups", as[2]) /\ SideDir(as, 2) = Entry(dir, "groups")
        BY <1>1, <2>2, <2>6 DEF SideFile, SideDir, Sides
    <3>2. as[2] \in GroupNames
        BY <2>6 DEF Associations
    <3>3. as \in T
        BY <1>1, <1>5, <1>12, <2>3, <2>4, <2>6, <3>1, <3>2 DEF BothDirs
    <3> QED
        BY <1>12, <2>1, <3>3, FilesAreThere DEF Rest, AInv
  <2> QED
      BY <2>2, <2>5, <2>6
<1>13. Linked => Linked'
  <2>1. \A as \in There(S) \cup There(T) : as \in gone
      BY <1>6 DEF There
  <2> QED
      BY <1>3, <1>9, <1>11, <1>12, <2>1, RemovalLinks
<1> QED
    BY <1>10, <1>13

\* groupRemove keeps the invariant as it begins: it ends what the group's directory lists.
LEMMA GroupRemoves ==
    ASSUME Rest, NEW g \in GroupNames, NEW d \in Domains, groupRemove(g, d)
    PROVE  AInv' /\ (Linked => Linked')
<1>1. PICK dir, S, T, gone :
          /\ dir = GroupDir(g, d)
          /\ S = {<<"group-account", g, a, d>> : a \in groupAccounts(g, d)}
          /\ T = {<<"attrib-group", x, g, d>> : x \in groupAttribs(g, d)}
          /\ gone = {as \in Associations :
                 /\ as[4] = d
                 /\ \/ as[1] = "group-account" /\ as[2] = g
                    \/ as[1] = "attrib-group" /\ as[3] = g}
    OBVIOUS
<1>2. PICK steps : steps = RemovalSteps(S, T, dir)
    OBVIOUS
<1>3. Begin(steps, Without({}, gone))
    BY <1>1, <1>2, Zenon DEF groupRemove, RemovalSteps
<1>4. g \in Names /\ d \in Names /\ AttribNames \subseteq Names /\ AccountNames \subseteq Names
    BY DEF Names
<1>5. /\ \A a : a \in groupAccounts(g, d)
             <=> a \in AccountNames /\ Exists(Entry(dir, "accounts")) /\ Exists(EntryOf(dir, "accounts", a))
      /\ \A x : x \in groupAttribs(g, d)
             <=> x \in AttribNames /\ Exists(Entry(dir, "attribs")) /\ Exists(EntryOf(dir, "attribs", x))
    BY <1>1, <1>4, ListedAre DEF Rest, groupAccounts, groupAttribs
<1>6. S \subseteq gone /\ T \subseteq gone
    BY <1>1, <1>5 DEF Associations
<1>7. gone \subseteq Associations /\ Associations \subseteq Ties
    BY <1>1, AssociationsAreTies
<1>8. dir = ObjectDir("groups", g, d)
    BY <1>1, ObjectPaths
<1>9. Takes(steps, {dir}, There(S) \cup There(T))
    BY <1>2, <1>6, <1>7, <1>8, ObjectTakes
<1>10. AInv'
    BY <1>3, <1>4, <1>8, <1>9, ObjectAccounts
<1>11. ASSUME NEW as \in Associations, NEW i \in {1, 2}, Beneath({dir}, SideFile(as, i))
       PROVE  as \in gone
  <2>1. as \in Ties
      BY <1>7
  <2>2. as[4] = d /\ Holder(as[1], i) = "groups" /\ as[1 + i] = g
    <3>1. IsPrefix(ObjectDir("groups", g, d), SideFile(as, i))
        BY <1>8, <1>11 DEF Beneath
    <3>2. PlainNames
        BY DEF Rest
    <3> QED
        BY <1>4, <2>1, <3>1, <3>2, SideUnder
  <2>3. as[1] \in {"attrib-account", "attrib-group", "group-account"}
      BY <2>1, TiesAre
  <2>4. (as[1] = "group-account" /\ i = 1) \/ (as[1] = "attrib-group" /\ i = 2)
    <3>1. CASE as[1] = "attrib-account"
        BY <2>2, <3>1 DEF Holder
    <3>2. CASE as[1] = "attrib-group"
        BY <2>2, <3>2 DEF Holder
    <3>3. CASE as[1] = "group-account"
        BY <2>2, <3>3 DEF Holder
    <3> QED
        BY <2>3, <3>1, <3>2, <3>3
  <2>5. (as[1] = "group-account" /\ as[2] = g) \/ (as[1] = "attrib-group" /\ as[3] = g)
    <3>1. i = 1 => 1 + i = 2
        OBVIOUS
    <3>2. i = 2 => 1 + i = 3
        OBVIOUS
    <3> QED
        BY <2>2, <2>4, <3>1, <3>2
  <2> QED
      BY <1>1, <2>2, <2>5
<1>12. ASSUME NEW as \in Associations, as \in gone, Exists(SideFile(as, 1)), Exists(SideFile(as, 2))
       PROVE  as \in There(S) \cup There(T)
  <2>1. as \in Ties
      BY <1>7
  <2>2. as[4] = d /\ ((as[1] = "group-account" /\ as[2] = g) \/ (as[1] = "attrib-group" /\ as[3] = g))
    <3>1. gone = {bs \in Associations :
                 /\ bs[4] = d
                 /\ \/ bs[1] = "group-account" /\ bs[2] = g
                    \/ bs[1] = "attrib-group" /\ bs[3] = g}
        BY <1>1, Zenon
    <3> QED
        BY <1>12, <3>1
  <2>3. as = <<as[1], as[2], as[3], d>>
      BY <2>1, <2>2, TiesAre
  <2>4. BothDirs(as)
      BY <1>12, <2>1, FilesAreThere DEF There, Rest, AInv
  <2>5. CASE as[1] = "group-account" /\ as[2] = g
    <3>1. SideFile(as, 1) = EntryOf(dir, "accounts", as[3]) /\ SideDir(as, 1) = Entry(dir, "accounts")
        BY <1>1, <2>2, <2>5 DEF SideFile, SideDir, Sides
    <3>2. as[3] \in AccountNames
        BY <2>5 DEF Associations
    <3>3. as \in S
        BY <1>1, <1>5, <1>12, <2>3, <2>4, <2>5, <3>1, <3>2 DEF BothDirs
    <3> QED
        BY <1>12, <2>1, <3>3, FilesAreThere DEF Rest, AInv
  <2>6. CASE as[1] = "attrib-group" /\ as[3] = g
    <3>1. SideFile(as, 2) = EntryOf(dir, "attribs", as[2]) /\ SideDir(as, 2) = Entry(dir, "attribs")
        BY <1>1, <2>2, <2>6 DEF SideFile, SideDir, Sides
    <3>2. as[2] \in AttribNames
        BY <2>6 DEF Associations
    <3>3. as \in T
        BY <1>1, <1>5, <1>12, <2>3, <2>4, <2>6, <3>1, <3>2 DEF BothDirs
    <3> QED
        BY <1>12, <2>1, <3>3, FilesAreThere DEF Rest, AInv
  <2> QED
      BY <2>2, <2>5, <2>6
<1>13. Linked => Linked'
  <2>1. \A as \in There(S) \cup There(T) : as \in gone
      BY <1>6 DEF There
  <2> QED
      BY <1>3, <1>9, <1>11, <1>12, <2>1, RemovalLinks
<1> QED
    BY <1>10, <1>13

\* The removal of an attribute asks for associations with the domain and the account or group
\* exchanged. They are none of the associations there are, unless a domain has the name of an
\* account or a group; the attribute's own go with its directory.
LEMMA AttribRemoves ==
    ASSUME Rest, NEW x \in AttribNames, NEW d \in Domains, attribRemove(x, d)
    PROVE  AInv' /\ (Linked /\ DomainsApart => Linked')
<1>1. PICK dir, S, T, gone :
          /\ dir = AttribDir(x, d)
          /\ S = {<<"attrib-account", x, d, a>> : a \in attribAccounts(x, d)}
          /\ T = {<<"attrib-group", x, d, g>> : g \in attribGroups(x, d)}
          /\ gone = {as \in Associations :
                 as[1] \in {"attrib-account", "attrib-group"} /\ as[2] = x /\ as[4] = d}
    OBVIOUS
<1>2. PICK steps : steps = RemovalSteps(S, T, dir)
    OBVIOUS
<1>3. Begin(steps, Without({}, gone))
    BY <1>1, <1>2, Zenon DEF attribRemove, RemovalSteps
<1>4. x \in Names /\ d \in Names /\ AccountNames \subseteq Names /\ GroupNames \subseteq Names
    BY DEF Names
<1>5. attribAccounts(x, d) \subseteq AccountNames /\ attribGroups(x, d) \subseteq GroupNames
    BY <1>4, ListedAre DEF Rest, attribAccounts, attribGroups
<1>6. S \subseteq Ties /\ T \subseteq Ties
    BY <1>1, <1>4, <1>5 DEF Ties
<1>7. Associations \subseteq Ties
    BY AssociationsAreTies
<1>8. dir = ObjectDir("attribs", x, d)
    BY <1>1, ObjectPaths
<1>9. Takes(steps, {dir}, There(S) \cup There(T))
    BY <1>2, <1>6, <1>8, ObjectTakes
<1>10. AInv'
    BY <1>3, <1>4, <1>8, <1>9, ObjectAccounts
<1>11. ASSUME NEW as \in Associations, NEW i \in {1, 2}, Beneath({dir}, SideFile(as, i))
       PROVE  as \in gone
  <2>1. as \in Ties
      BY <1>7
  <2>2. as[4] = d /\ Holder(as[1], i) = "attribs" /\ as[1 + i] = x
    <3>1. IsPrefix(ObjectDir("attribs", x, d), SideFile(as, i))
        BY <1>8, <1>11 DEF Beneath
    <3>2. PlainNames
        BY DEF Rest
    <3> QED
        BY <1>4, <2>1, <3>1, <3>2, SideUnder
  <2>3. as[1] \in {"attrib-account", "attrib-group", "group-account"}
      BY <2>1, TiesAre
  <2>4. as[1] \in {"attrib-account", "attrib-group"} /\ i = 1
      BY <2>2, <2>3 DEF Holder
  <2>5. as[2] = x
    <3>1. 1 + i = 2
        BY <2>4
    <3> QED
        BY <2>2, <3>1
  <2> QED
      BY <1>1, <2>2, <2>4, <2>5
<1>12. ASSUME NEW as \in Associations, as \in gone
       PROVE  as[1] # "group-account" /\ Beneath({dir}, SideFile(as, 1))
  <2>1. as \in Ties
      BY <1>7
  <2>2. as[1] \in {"attrib-account", "attrib-group"} /\ as[2] = x /\ as[4] = d
      BY <1>1, <1>12
  <2>3. Holder(as[1], 1) = "attribs"
      BY <2>2 DEF Holder
  <2>4. 1 + 1 = 2
      OBVIOUS
  <2>5. PlainNames /\ 1 \in {1, 2}
      BY DEF Rest
  <2>6. IsPrefix(ObjectDir("attribs", x, d), SideFile(as, 1))
    <3>1. IsPrefix(ObjectDir("attribs", x, d), SideFile(as, 1))
              <=> as[4] = d /\ Holder(as[1], 1) = "attribs" /\ as[1 + 1] = x
        BY <1>4, <2>1, <2>5, SideUnder
    <3> QED
        BY <2>2, <2>3, <2>4, <3>1
  <2> QED
      BY <1>8, <2>2, <2>6 DEF Beneath
<1>13. ASSUME Linked, DomainsApart
       PROVE  Linked'
  <2>1. ASSUME NEW as \in There(S) \cup There(T)
        PROVE  as \notin Associations
    <3>1. CASE as \in S
      <4>0. \E n : as = <<"attrib-account", x, d, n>>
        <5>1. S = {<<"attrib-account", x, d, n>> : n \in attribAccounts(x, d)}
            BY <1>1, Zenon
        <5> QED
            BY <3>1, <5>1
      <4>1. as[1] = "attrib-account" /\ as[3] = d
          BY <4>0
      <4>2. d \notin AccountNames
          BY <1>13 DEF DomainsApart
      <4> QED
          BY <4>1, <4>2 DEF Associations
    <3>2. CASE as \in T
      <4>0. \E n : as = <<"attrib-group", x, d, n>>
        <5>1. T = {<<"attrib-group", x, d, n>> : n \in attribGroups(x, d)}
            BY <1>1, Zenon
        <5> QED
            BY <3>2, <5>1
      <4>1. as[1] = "attrib-group" /\ as[3] = d
          BY <4>0
      <4>2. d \notin GroupNames
          BY <1>13 DEF DomainsApart
      <4> QED
          BY <4>1, <4>2 DEF Associations
    <3> QED
        BY <3>1, <3>2 DEF There
  <2> QED
      BY <1>3, <1>9, <1>11, <1>12, <1>13, <2>1, RemovalLinks
<1> QED
    BY <1>10, <1>13

-----------------------------------------------------------------------------
(* The functions that change an account *)

\* A function that creates, and changes what is promised of one account.
LEMMA BeginAccount ==
    ASSUME Rest, NEW steps, Sound(steps), NEW this \in Accounts, NEW versions,
           \A v \in versions : IsVersion(v),
           Begin(steps, [made EXCEPT !.accounts[this] = versions]),
           \A k \in DOMAIN steps : Len(steps[k].path) # 5,
           \A k \in DOMAIN steps : \A acct \in Accounts : IsFileOf(steps[k].path, acct) => acct = this,
           doing'.accounts[this] = versions => WillBeAccount(this)' /\ IsAccount(this)' /\ ActivationFirst(this)'
    PROVE  AInv' /\ (Linked => Linked')
<1>1. TypeOK /\ Tree /\ Promises /\ Accounted /\ doing = made
    BY DEF Rest, AInv, TypeOK
<1>2. PICK then : then = [made EXCEPT !.accounts[this] = versions]
    OBVIOUS
<1>3. PICK f : f = [acct \in Accounts |-> IF acct = this THEN versions ELSE made.accounts[acct]]
    OBVIOUS
<1>4. /\ made = [links |-> made.links, accounts |-> made.accounts]
      /\ made.accounts = [acct \in Accounts |-> made.accounts[acct]]
      /\ \A acct \in Accounts : \A v \in made.accounts[acct] : IsVersion(v)
    BY <1>1 DEF Promises
<1>5. then = [links |-> made.links, accounts |-> f]
  <2>1. [made.accounts EXCEPT ![this] = versions] = f
      BY <1>3, <1>4
  <2> QED
      BY <1>2, <1>4, <2>1
<1>6. then.links = made.links /\ then.accounts = f
    BY <1>5
<1>7. /\ f = [acct \in Accounts |-> f[acct]] /\ f[this] = versions
      /\ \A acct \in Accounts : acct # this => f[acct] = made.accounts[acct]
    BY <1>3
<1>8. Begin(steps, then)
    BY <1>2
<1>9. doing' = then
    BY <1>8 DEF Begin
<1>10. TypeOK' /\ Promises'
  <2>1. then = [links |-> then.links, accounts |-> then.accounts]
      BY <1>5, <1>6
  <2>2. then.links \subseteq Associations
      BY <1>1, <1>6 DEF TypeOK
  <2>3. \A acct \in Accounts : \A v \in then.accounts[acct] : IsVersion(v)
      BY <1>4, <1>6, <1>7
  <2> QED
      BY <1>1, <1>6, <1>7, <1>8, <2>1, <2>2, <2>3, BeginPromises DEF Rest, Sound
<1>11. /\ Tree' /\ CallShapes' /\ Order'
       /\ \A p : ~IsRemoved(p)' /\ (IsMade(p)' <=> \E k \in DOMAIN steps : steps[k].path = p)
    BY <1>1, <1>8, BeginCreating DEF Sound
<1>12. Accounted'
  <2>1. SUFFICES ASSUME NEW acct \in Accounts
                 PROVE  WillBeAccount(acct)' /\ IsAccount(acct)' /\ ActivationFirst(acct)'
      BY DEF Accounted
  <2>2. CASE acct = this
      BY <1>6, <1>7, <1>9, <2>2
  <2>3. CASE acct # this
    <3>1. AccountRests(acct)
        BY <1>1, AccountsRest DEF Rest
    <3>2. \A p : IsFileOf(p, acct) => ~IsMade(p)'
        BY <1>11, <2>3
    <3>3. ~IsMade(Home(acct))' /\ ~IsMade(Act(acct))' /\ \A i : ~IsMade(Pass(acct, i))'
        BY <3>2 DEF IsFileOf
    <3>4. ~IsRemoved(Home(acct))' /\ ~IsRemoved(Act(acct))' /\ \A i : ~IsRemoved(Pass(acct, i))'
        BY <1>11
    <3>5. then.accounts[acct] = made.accounts[acct]
        BY <1>6, <1>7, <2>3
    <3> QED
        BY <1>1, <1>8, <3>1, <3>3, <3>4, <3>5, AccountStays
  <2> QED
      BY <2>2, <2>3
<1>13. ASSUME Linked
       PROVE  Linked'
  <2>1. \A as \in Associations \ doubt : LinkRests(as)
      BY <1>1, <1>13, LinksRest DEF Rest
  <2>2. SUFFICES ASSUME NEW as \in Associations, NEW i \in {1, 2}
                 PROVE  ~IsMade(SideFile(as, i))' /\ ~IsRemoved(SideFile(as, i))'
      BY <1>1, <1>6, <1>8, <2>1, BeginLinked DEF Rest
  <2>3. Len(SideFile(as, i)) = 5
      BY SideShapes, AssociationsAreTies
  <2>4. \A p : Len(p) = 5 => ~IsMade(p)' /\ ~IsRemoved(p)'
      BY <1>11
  <2> QED
      BY <2>3, <2>4
<1> QED
    BY <1>10, <1>11, <1>12, <1>13 DEF AInv

\* Versions with another activation, and with another password.
LEMMA WithActivation ==
    ASSUME NEW v, IsVersion(v), NEW c, NEW w, w = [v EXCEPT !.activation = c]
    PROVE  /\ w.activation = c /\ w.passwords = v.passwords
           /\ c \in Activations => IsVersion(w)
<1>1. v = [activation |-> v.activation, passwords |-> v.passwords]
    BY DEF IsVersion
<1>2. w = [activation |-> c, passwords |-> v.passwords]
    BY <1>1
<1>3. w.activation = c /\ w.passwords = v.passwords
    BY <1>2
<1>4. /\ v.passwords = [i \in DOMAIN v.passwords |-> v.passwords[i]]
      /\ \A i \in DOMAIN v.passwords : v.passwords[i] \in Kept
    BY DEF IsVersion
<1> QED
    BY <1>2, <1>3, <1>4 DEF IsVersion

\* A version of an account with one password changed is a version.
LEMMA WithPassword ==
    ASSUME NEW v, IsVersion(v), NEW i, NEW c, NEW w, w = [v EXCEPT !.passwords = Put(@, i, c)]
    PROVE  /\ w.activation = v.activation
           /\ i \in DOMAIN w.passwords /\ w.passwords[i] = c
           /\ \A j \in DOMAIN v.passwords : j # i => j \in DOMAIN w.passwords /\ w.passwords[j] = v.passwords[j]
           /\ \A j \in DOMAIN w.passwords : j # i => j \in DOMAIN v.passwords
           /\ c \in Kept => IsVersion(w)
<1>1. v = [activation |-> v.activation, passwords |-> v.passwords]
    BY DEF IsVersion
<1>2. PICK f : f = Put(v.passwords, i, c)
    OBVIOUS
<1>3. w = [activation |-> v.activation, passwords |-> f]
    BY <1>1, <1>2
<1>4. w.activation = v.activation /\ w.passwords = f
    BY <1>3
<1>5. /\ DOMAIN f = DOMAIN v.passwords \cup {i} /\ f[i] = c
      /\ \A j \in DOMAIN v.passwords : j # i => f[j] = v.passwords[j]
      /\ f = [j \in DOMAIN f |-> f[j]]
    BY <1>2 DEF Put
<1>6. /\ v.activation \in Activations
      /\ \A j \in DOMAIN v.passwords : v.passwords[j] \in Kept
    BY DEF IsVersion
<1>7. c \in Kept => IsVersion(w)
    BY <1>3, <1>4, <1>5, <1>6 DEF IsVersion
<1> QED
    BY <1>4, <1>5, <1>7

\* Which files a call that writes one file makes.
LEMMA BeginSaving ==
    ASSUME Rest, NEW p, NEW c, Rooted(p), Len(p) # 1, Exists(Parent(p)),
           NEW steps, steps = <<save(p, c)>>, NEW then, Begin(steps, then)
    PROVE  /\ Sound(steps) /\ \A k \in DOMAIN steps : steps[k].path = p
           /\ \A q : IsMade(q)' <=> q = p
           /\ \A q : WillExist(q)' <=> Exists(q) \/ q = p
           /\ \A q, v : WillHold(q, v)' <=> (q = p /\ v = c) \/ (q # p /\ Holds(q, v))
<1>1. Tree
    BY DEF Rest, AInv
<1>2. /\ Sound(steps) /\ DOMAIN steps = {1} /\ steps[1].path = p
      /\ steps[1].call = "open" /\ steps[1].value = c
    BY SavesOne
<1>3. /\ \A q : IsMade(q)' <=> \E k \in DOMAIN steps : steps[k].path = q
      /\ \A q : WillExist(q)' <=> Exists(q) \/ \E k \in DOMAIN steps : steps[k].path = q
      /\ \A q, v : WillHold(q, v)' <=>
            \/ \E k \in DOMAIN steps : steps[k].call \in {"open", "close"} /\ steps[k].path = q /\ steps[k].value = v
            \/ ~(\E k \in DOMAIN steps : steps[k].path = q) /\ Holds(q, v)
    BY <1>1, <1>2, BeginCreating DEF Sound
<1> QED
    BY <1>2, <1>3

\* A changed activation keeps the invariant as it begins.
LEMMA ActivationChanges ==
    ASSUME Rest, NEW a \in AccountNames, NEW d \in Domains, NEW changed, ChangeActivation(a, d, changed),
           \A x : x \in Activations /\ activation(a, d) = x => changed \in Activations
    PROVE  AInv' /\ (Linked => Linked')
<1>1. PICK this : this = <<a, d>>
    OBVIOUS
<1>2. this \in Accounts /\ this[1] = a /\ this[2] = d
    BY <1>1 DEF Accounts
<1>3. PICK V : V = made.accounts[this]
    OBVIOUS
<1>4. PICK W : W = {[v EXCEPT !.activation = changed] : v \in V}
    OBVIOUS
<1>5. PICK p, steps : p = Act(this) /\ steps = <<save(p, changed)>>
    OBVIOUS
<1>6. p = ActivationFile(a, d)
    BY <1>2, <1>5 DEF Act
<1>7. Loads(p) /\ Begin(steps, [made EXCEPT !.accounts[this] = W])
    BY <1>1, <1>3, <1>4, <1>5, <1>6, Zenon DEF ChangeActivation
<1>8. TypeOK /\ Tree /\ Promises /\ Accounted /\ doing = made /\ PlainNames
    BY DEF Rest, AInv, TypeOK
<1>9. /\ p = <<Encoded(d), <<"accounts">>, Encoded(a), <<"acct.activation">>>>
      /\ IsASequence(p) /\ Len(p) = 4 /\ Parent(p) = Home(this)
    BY <1>2, <1>5, AccountFiles
<1>10. Rooted(p) /\ Len(p) # 1 /\ Exists(Parent(p))
  <2>1. Rooted(p)
      BY <1>9, RootedTuples
  <2>2. p \in DOMAIN fs /\ Len(p) # 1
      BY <1>7, <1>9 DEF Loads, Exists
  <2> QED
      BY <1>8, <2>1, <2>2 DEF Tree, Exists
<1>11. PICK x0 : Holds(p, x0) /\ activation(a, d) = x0
  <2>1. fs[p].type = "json" /\ p \in DOMAIN fs
      BY <1>7 DEF Loads, Exists
  <2>2. fs[p] \in {Dir, Touched, Truncated} \/ \E v : fs[p] = Json(v)
      BY <1>8, <2>1 DEF Tree
  <2>3. fs[p] = Json(fs[p].value)
      BY <2>1, <2>2, EntryTypes
  <2> QED
      BY <1>6, <2>1, <2>3 DEF Holds, Exists, activation
<1>12. AccountRests(this)
    BY <1>2, <1>8, AccountsRest DEF Rest
<1>13. PICK v0 \in V : v0.activation = x0
    BY <1>3, <1>5, <1>11, <1>12 DEF AccountRests
<1>14. \A v \in V : IsVersion(v)
    BY <1>2, <1>3, <1>8 DEF Promises
<1>15. changed \in Activations
    BY <1>11, <1>13, <1>14 DEF IsVersion
<1>16. /\ \A v \in V : \E w \in W : /\ w = [v EXCEPT !.activation = changed] /\ w.activation = changed
                                   /\ w.passwords = v.passwords
       /\ \A w \in W : IsVersion(w) /\ w.activation = changed
  <2>1. \A v \in V : /\ [v EXCEPT !.activation = changed].activation = changed
                     /\ [v EXCEPT !.activation = changed].passwords = v.passwords
                     /\ IsVersion([v EXCEPT !.activation = changed])
      BY <1>14, <1>15, WithActivation
  <2> QED
      BY <1>4, <2>1, Zenon
<1>17. PICK then : then = [made EXCEPT !.accounts[this] = W]
    OBVIOUS
<1>18. Begin(steps, then)
    BY <1>7, <1>17
<1>19. /\ Sound(steps) /\ \A k \in DOMAIN steps : steps[k].path = p
       /\ \A q : IsMade(q)' <=> q = p
       /\ \A q : WillExist(q)' <=> Exists(q) \/ q = p
       /\ \A q, v : WillHold(q, v)' <=> (q = p /\ v = changed) \/ (q # p /\ Holds(q, v))
    BY <1>5, <1>10, <1>18, BeginSaving
<1>20. Home(this) # p /\ \A i : Pass(this, i) # p
  <2>1. Len(Home(this)) = 3
      BY AccountFiles
  <2>2. \A i : Act(this) # Pass(this, i)
      BY <1>2, <1>8, AccountsApart
  <2> QED
      BY <1>5, <1>9, <2>1, <2>2
<1>21. /\ WillExist(Home(this))' <=> Exists(Home(this))
       /\ \A x : WillHold(Act(this), x)' <=> x = changed
       /\ \A i, y : WillHold(Pass(this, i), y)' <=> Holds(Pass(this, i), y)
  <2>1. \A x : WillHold(p, x)' <=> x = changed
      BY <1>19
  <2> QED
      BY <1>5, <1>19, <1>20, <2>1
<1>22. fs' = fs /\ made' = made /\ doubt' = doubt
    BY <1>18 DEF Begin
<1>23. Exists(Home(this))
    BY <1>9, <1>10
<1>24. ASSUME doing'.accounts[this] = W
       PROVE  WillBeAccount(this)' /\ IsAccount(this)' /\ ActivationFirst(this)'
  <2>1. IsAccount(this)'
    <3>1. \A q, v : Holds(q, v)' <=> Holds(q, v)
        BY <1>22 DEF Holds, Exists
    <3>2. V \subseteq made'.accounts[this] \cup doing'.accounts[this]
        BY <1>3, <1>22
    <3> QED
        BY <1>3, <1>12, <1>13, <3>1, <3>2 DEF IsAccount, AccountRests
  <2>2. ActivationFirst(this)'
    <3>1. \A i : ~IsMade(Pass(this, i))'
        BY <1>19, <1>20
    <3> QED
        BY <3>1 DEF ActivationFirst, IsMade
  <2>3. W # {}
      BY <1>13, <1>16
  <2>4. ASSUME NEW x, WillHold(Act(this), x)'
        PROVE  \E w \in W : w.activation = x
      BY <1>13, <1>16, <1>21, <2>4
  <2>5. ASSUME NEW x, NEW i, NEW y, WillHold(Act(this), x)', WillHold(Pass(this, i), y)'
        PROVE  \E w \in W : Fits(w, x, i, y)
    <3>1. x = changed /\ Holds(Act(this), x0) /\ Holds(Pass(this, i), y)
        BY <1>5, <1>11, <1>21, <2>5
    <3>2. PICK v \in V : Fits(v, x0, i, y)
        BY <1>3, <1>12, <3>1 DEF AccountRests
    <3> QED
        BY <1>16, <3>1, <3>2 DEF Fits
  <2>6. ASSUME this \notin doubt
        PROVE  \E w \in W : /\ W = {w} /\ WillHold(Act(this), w.activation)'
                            /\ \A i \in DOMAIN w.passwords : WillHold(Pass(this, i), w.passwords[i])'
    <3>1. PICK v \in V : V = {v} /\ \A i \in DOMAIN v.passwords : Holds(Pass(this, i), v.passwords[i])
        BY <1>3, <1>12, <1>13, <2>6 DEF AccountRests
    <3>2. PICK w \in W : w = [v EXCEPT !.activation = changed] /\ w.activation = changed /\ w.passwords = v.passwords
        BY <1>16
    <3>3. W = {w}
        BY <1>4, <3>1, <3>2
    <3> QED
        BY <1>21, <3>1, <3>2, <3>3
  <2>7. WillBeAccount(this)'
      BY <1>22, <1>24, <2>3, <2>4, <2>5, <2>6 DEF WillBeAccount
  <2> QED
      BY <2>1, <2>2, <2>7
<1>25. \A k \in DOMAIN steps : \A acct \in Accounts : IsFileOf(steps[k].path, acct) => acct = this
  <2>1. SUFFICES ASSUME NEW acct \in Accounts, IsFileOf(p, acct)
                 PROVE  acct = this
      BY <1>19
  <2>2. Len(Home(acct)) = 3 /\ \A i : Act(this) # Pass(acct, i)
      BY <1>2, <1>8, AccountFiles, AccountsApart
  <2>3. Act(acct) = Act(this)
      BY <1>5, <1>9, <2>1, <2>2 DEF IsFileOf
  <2> QED
      BY <1>2, <1>8, <2>3, AccountsApart
<1>26. \A k \in DOMAIN steps : Len(steps[k].path) # 5
    BY <1>9, <1>19
<1> QED
    BY <1>2, <1>7, <1>16, <1>19, <1>24, <1>25, <1>26, BeginAccount

\* accountDisable, accountConfirm and accountChangeExpiration change the activation.
LEMMA ActivationsChange ==
    ASSUME Rest, NEW a \in AccountNames, NEW d \in Domains,
           \/ \E disabled \in BOOLEAN : accountDisable(a, d, disabled)
           \/ accountConfirm(a, d)
           \/ \E e \in Expirations : accountChangeExpiration(a, d, e)
    PROVE  AInv' /\ (Linked => Linked')
<1>1. PICK x : x = activation(a, d)
    OBVIOUS
<1>2. ASSUME x \in Activations
      PROVE  x = [enabled |-> x.enabled, confirmed |-> x.confirmed, expiration |-> x.expiration]
             /\ x.enabled \in BOOLEAN /\ x.confirmed \in BOOLEAN /\ x.expiration \in Nat
    BY <1>2 DEF Activations
<1>3. CASE \E disabled \in BOOLEAN : accountDisable(a, d, disabled)
  <2>1. PICK disabled \in BOOLEAN : accountDisable(a, d, disabled)
      BY <1>3
  <2>2. PICK c : c = [x EXCEPT !.enabled = ~disabled]
      OBVIOUS
  <2>3. ChangeActivation(a, d, c)
      BY <1>1, <2>1, <2>2, Zenon DEF accountDisable
  <2>4. x \in Activations => c \in Activations
      BY <2>2 DEF Activations
  <2> QED
      BY <1>1, <2>3, <2>4, ActivationChanges
<1>4. CASE accountConfirm(a, d)
  <2>1. PICK c : c = [x EXCEPT !.confirmed = TRUE]
      OBVIOUS
  <2>2. ChangeActivation(a, d, c)
      BY <1>1, <1>4, <2>1, Zenon DEF accountConfirm
  <2>3. x \in Activations => c \in Activations
      BY <2>1 DEF Activations
  <2> QED
      BY <1>1, <2>2, <2>3, ActivationChanges
<1>5. CASE \E e \in Expirations : accountChangeExpiration(a, d, e)
  <2>1. PICK e \in Expirations : accountChangeExpiration(a, d, e)
      BY <1>5
  <2>2. PICK c : c = [x EXCEPT !.expiration = e % UintLimit]
      OBVIOUS
  <2>3. ChangeActivation(a, d, c)
      BY <1>1, <2>1, <2>2, Zenon DEF accountChangeExpiration
  <2>4. e \in Nat /\ UintLimit \in Nat \ {0}
      BY FilesAssumption
  <2>5. e % UintLimit \in Nat
      BY <2>4
  <2>6. x \in Activations => c \in Activations
      BY <2>2, <2>5 DEF Activations
  <2> QED
      BY <1>1, <2>3, <2>6, ActivationChanges
<1> QED
    BY <1>3, <1>4, <1>5

\* accountChangePassword keeps the invariant as it begins.
LEMMA PasswordChanges ==
    ASSUME Rest, NEW a \in AccountNames, NEW d \in Domains, NEW i0, NEW g \in Given,
           accountChangePassword(a, d, i0, g)
    PROVE  AInv' /\ (Linked => Linked')
<1>1. PICK this : this = <<a, d>>
    OBVIOUS
<1>2. this \in Accounts /\ this[1] = a /\ this[2] = d
    BY <1>1 DEF Accounts
<1>3. PICK V, c : V = made.accounts[this] /\ c = PasswordJson(g)
    OBVIOUS
<1>4. PICK W : W = {[v EXCEPT !.passwords = Put(@, i0, c)] : v \in V}
    OBVIOUS
<1>5. PICK p, steps : p = Pass(this, i0) /\ steps = <<save(p, c)>>
    OBVIOUS
<1>6. p = PassFile(a, d, i0) /\ Home(this) = AccountDir(a, d)
    BY <1>2, <1>5 DEF Pass, Home
<1>7. Exists(Home(this)) /\ Begin(steps, [made EXCEPT !.accounts[this] = W])
    BY <1>1, <1>3, <1>4, <1>5, <1>6, Zenon DEF accountChangePassword
<1>8. TypeOK /\ Tree /\ Promises /\ Accounted /\ doing = made /\ PlainNames
    BY DEF Rest, AInv, TypeOK
<1>9. /\ p = <<Encoded(d), <<"accounts">>, Encoded(a), <<"acct.passwd", i0>>>>
      /\ IsASequence(p) /\ Len(p) = 4 /\ Parent(p) = Home(this)
    BY <1>2, <1>5, AccountFiles
<1>10. Rooted(p) /\ Len(p) # 1 /\ Exists(Parent(p))
  <2>1. Rooted(p)
      BY <1>9, RootedTuples
  <2> QED
      BY <1>7, <1>9, <2>1
<1>11. c \in Kept
    BY <1>3 DEF Kept
<1>12. AccountRests(this)
    BY <1>2, <1>8, AccountsRest DEF Rest
<1>13. V # {}
    BY <1>3, <1>7, <1>12 DEF AccountRests
<1>14. \A v \in V : IsVersion(v)
    BY <1>2, <1>3, <1>8 DEF Promises
<1>15. \A v \in V : \E w \in W :
          /\ w = [v EXCEPT !.passwords = Put(@, i0, c)]
          /\ w.activation = v.activation
          /\ i0 \in DOMAIN w.passwords /\ w.passwords[i0] = c
          /\ \A j \in DOMAIN v.passwords : j # i0 => j \in DOMAIN w.passwords /\ w.passwords[j] = v.passwords[j]
          /\ \A j \in DOMAIN w.passwords : j # i0 => j \in DOMAIN v.passwords
  <2>1. SUFFICES ASSUME NEW v \in V
                 PROVE  \E w \in W :
          /\ w = [v EXCEPT !.passwords = Put(@, i0, c)]
          /\ w.activation = v.activation
          /\ i0 \in DOMAIN w.passwords /\ w.passwords[i0] = c
          /\ \A j \in DOMAIN v.passwords : j # i0 => j \in DOMAIN w.passwords /\ w.passwords[j] = v.passwords[j]
          /\ \A j \in DOMAIN w.passwords : j # i0 => j \in DOMAIN v.passwords
      OBVIOUS
  <2>2. PICK w : w = [v EXCEPT !.passwords = Put(@, i0, c)]
      OBVIOUS
  <2>3. w \in W
      BY <1>4, <2>2
  <2>4. IsVersion(v)
      BY <1>14
  <2>5. /\ w.activation = v.activation
        /\ i0 \in DOMAIN w.passwords /\ w.passwords[i0] = c
        /\ \A j \in DOMAIN v.passwords : j # i0 => j \in DOMAIN w.passwords /\ w.passwords[j] = v.passwords[j]
        /\ \A j \in DOMAIN w.passwords : j # i0 => j \in DOMAIN v.passwords
      BY <2>2, <2>4, WithPassword
  <2> QED
      BY <2>2, <2>3, <2>5
<1>16. \A w \in W : IsVersion(w)
  <2>1. SUFFICES ASSUME NEW v \in V, NEW w, w = [v EXCEPT !.passwords = Put(@, i0, c)]
                 PROVE  IsVersion(w)
      BY <1>4
  <2>2. IsVersion(v)
      BY <1>14
  <2> QED
      BY <1>11, <2>1, <2>2, WithPassword
<1>17. PICK then : then = [made EXCEPT !.accounts[this] = W]
    OBVIOUS
<1>18. Begin(steps, then)
    BY <1>7, <1>17
<1>19. /\ Sound(steps) /\ \A k \in DOMAIN steps : steps[k].path = p
       /\ \A q : IsMade(q)' <=> q = p
       /\ \A q : WillExist(q)' <=> Exists(q) \/ q = p
       /\ \A q, v : WillHold(q, v)' <=> (q = p /\ v = c) \/ (q # p /\ Holds(q, v))
    BY <1>5, <1>10, <1>18, BeginSaving
<1>20. Home(this) # p /\ Act(this) # p /\ \A i : Pass(this, i) = p => i = i0
  <2>1. Len(Home(this)) = 3
      BY AccountFiles
  <2>2. Act(this) # Pass(this, i0)
      BY <1>2, <1>8, AccountsApart
  <2>3. \A i : Pass(this, i) = Pass(this, i0) => i = i0
      BY <1>2, <1>8, AccountsApart
  <2> QED
      BY <1>5, <1>9, <2>1, <2>2, <2>3
<1>21. /\ \A x : WillHold(Act(this), x)' <=> Holds(Act(this), x)
       /\ \A i, y : WillHold(Pass(this, i), y)' <=> (i = i0 /\ y = c) \/ (i # i0 /\ Holds(Pass(this, i), y))
  <2>1. \A i : i # i0 => Pass(this, i) # p
      BY <1>20
  <2> QED
      BY <1>5, <1>19, <1>20, <2>1
<1>22. fs' = fs /\ made' = made /\ doubt' = doubt
    BY <1>18 DEF Begin
<1>23. ASSUME doing'.accounts[this] = W
       PROVE  WillBeAccount(this)' /\ IsAccount(this)' /\ ActivationFirst(this)'
  <2>1. IsAccount(this)'
    <3>1. \A q, v : Holds(q, v)' <=> Holds(q, v)
        BY <1>22 DEF Holds, Exists
    <3>2. V \subseteq made'.accounts[this] \cup doing'.accounts[this]
        BY <1>3, <1>22
    <3> QED
        BY <1>3, <1>12, <1>13, <3>1, <3>2 DEF IsAccount, AccountRests
  <2>2. ActivationFirst(this)'
    <3>1. ~IsMade(Act(this))'
        BY <1>19, <1>20
    <3> QED
        BY <3>1 DEF ActivationFirst
  <2>3. W # {}
      BY <1>13, <1>15
  <2>4. ASSUME NEW x, WillHold(Act(this), x)'
        PROVE  \E w \in W : w.activation = x
    <3>1. PICK v \in V : v.activation = x
        BY <1>3, <1>12, <1>21, <2>4 DEF AccountRests
    <3> QED
        BY <1>15, <3>1
  <2>5. ASSUME NEW x, NEW i, NEW y, WillHold(Act(this), x)', WillHold(Pass(this, i), y)'
        PROVE  \E w \in W : Fits(w, x, i, y)
    <3>1. CASE i = i0 /\ y = c
      <4>1. PICK v \in V : v.activation = x
          BY <1>3, <1>12, <1>21, <2>5 DEF AccountRests
      <4> QED
          BY <1>15, <3>1, <4>1 DEF Fits
    <3>2. CASE i # i0 /\ Holds(Pass(this, i), y)
      <4>1. PICK v \in V : Fits(v, x, i, y)
          BY <1>3, <1>12, <1>21, <2>5, <3>2 DEF AccountRests
      <4> QED
          BY <1>15, <3>2, <4>1 DEF Fits
    <3> QED
        BY <1>21, <2>5, <3>1, <3>2
  <2>6. ASSUME this \notin doubt
        PROVE  \E w \in W : /\ W = {w} /\ WillHold(Act(this), w.activation)'
                            /\ \A i \in DOMAIN w.passwords : WillHold(Pass(this, i), w.passwords[i])'
    <3>1. PICK v \in V : /\ V = {v} /\ Holds(Act(this), v.activation)
                         /\ \A i \in DOMAIN v.passwords : Holds(Pass(this, i), v.passwords[i])
        BY <1>3, <1>12, <1>13, <2>6 DEF AccountRests
    <3>2. PICK w \in W :
              /\ w = [v EXCEPT !.passwords = Put(@, i0, c)]
              /\ w.activation = v.activation
              /\ i0 \in DOMAIN w.passwords /\ w.passwords[i0] = c
              /\ \A j \in DOMAIN v.passwords : j # i0 => j \in DOMAIN w.passwords /\ w.passwords[j] = v.passwords[j]
              /\ \A j \in DOMAIN w.passwords : j # i0 => j \in DOMAIN v.passwords
        BY <1>15
    <3>3. W = {w}
        BY <1>4, <3>1, <3>2
    <3>4. WillHold(Act(this), w.activation)'
        BY <1>21, <3>1, <3>2
    <3>5. ASSUME NEW i \in DOMAIN w.passwords
          PROVE  WillHold(Pass(this, i), w.passwords[i])'
      <4>1. CASE i = i0
          BY <1>21, <3>2, <4>1
      <4>2. CASE i # i0
          BY <1>21, <3>1, <3>2, <4>2
      <4> QED
          BY <4>1, <4>2
    <3> QED
        BY <3>3, <3>4, <3>5
  <2>7. WillBeAccount(this)'
      BY <1>22, <1>23, <2>3, <2>4, <2>5, <2>6 DEF WillBeAccount
  <2> QED
      BY <2>1, <2>2, <2>7
<1>24. \A k \in DOMAIN steps : \A acct \in Accounts : IsFileOf(steps[k].path, acct) => acct = this
  <2>1. SUFFICES ASSUME NEW acct \in Accounts, IsFileOf(p, acct)
                 PROVE  acct = this
      BY <1>19
  <2>2. Len(Home(acct)) = 3 /\ Act(acct) # Pass(this, i0)
      BY <1>2, <1>8, AccountFiles, AccountsApart
  <2>3. PICK i : Pass(acct, i) = Pass(this, i0)
      BY <1>5, <1>9, <2>1, <2>2 DEF IsFileOf
  <2> QED
      BY <1>2, <1>8, <2>3, AccountsApart
<1>25. \A k \in DOMAIN steps : Len(steps[k].path) # 5
    BY <1>9, <1>19
<1> QED
    BY <1>2, <1>7, <1>16, <1>19, <1>23, <1>24, <1>25, BeginAccount

\* The calls that make an account, in their order.
AddShape(steps, n, a, d, x, c) ==
    /\ IsASequence(steps) /\ n \in {6, 7} /\ DOMAIN steps = 1 .. n
    /\ steps[1] = mkdir(AccountDir(a, d))
    /\ steps[2] = mkdir(Entry(AccountDir(a, d), "attribs"))
    /\ steps[3] = mkdir(Entry(AccountDir(a, d), "groups"))
    /\ steps[4] = save(ActivationFile(a, d), x)
    /\ steps[5] = save(Entry(AccountDir(a, d), "acct.details"), "details")
    /\ steps[6] = save(PassFile(a, d, 0), c)
    /\ n = 7 => steps[7] = touch(Entry(AccountDir(a, d), "superuser"))

\* The calls of accountAdd, superuser or not.
LEMMA AddSteps ==
    ASSUME NEW a, NEW d, NEW x, NEW c, NEW superuser, NEW files, NEW steps,
           files = <<mkdir(AccountDir(a, d)), mkdir(Entry(AccountDir(a, d), "attribs")),
                     mkdir(Entry(AccountDir(a, d), "groups")), save(ActivationFile(a, d), x),
                     save(Entry(AccountDir(a, d), "acct.details"), "details"), save(PassFile(a, d, 0), c)>>,
           steps = IF superuser THEN Append(files, touch(Entry(AccountDir(a, d), "superuser"))) ELSE files
    PROVE  \E n : AddShape(steps, n, a, d, x, c)
<1>1. PICK c1, c2, c3, c4, c5, c6, c7 :
          /\ c1 = mkdir(AccountDir(a, d)) /\ c2 = mkdir(Entry(AccountDir(a, d), "attribs"))
          /\ c3 = mkdir(Entry(AccountDir(a, d), "groups")) /\ c4 = save(ActivationFile(a, d), x)
          /\ c5 = save(Entry(AccountDir(a, d), "acct.details"), "details") /\ c6 = save(PassFile(a, d, 0), c)
          /\ c7 = touch(Entry(AccountDir(a, d), "superuser"))
    OBVIOUS
<1>2. files = <<c1, c2, c3, c4, c5, c6>>
    BY <1>1
<1>3. PICK S : S = {c1, c2, c3, c4, c5, c6, c7}
    OBVIOUS
<1>4. files \in Seq(S) /\ Len(files) = 6 /\ c7 \in S
    BY <1>2, <1>3
<1>5. /\ files[1] = c1 /\ files[2] = c2 /\ files[3] = c3 /\ files[4] = c4 /\ files[5] = c5
      /\ files[6] = c6 /\ DOMAIN files = 1 .. 6
    BY <1>2
<1>6. CASE superuser
  <2>1. steps = Append(files, c7)
      BY <1>1, <1>6
  <2>2. /\ steps \in Seq(S) /\ Len(steps) = 7 /\ steps[7] = c7
        /\ \A i \in 1 .. 6 : steps[i] = files[i]
      BY <1>4, <2>1, AppendProperties
  <2>3. DOMAIN steps = 1 .. 7 /\ IsASequence(steps)
      BY <2>2 DEF IsASequence
  <2>4. /\ steps[1] = c1 /\ steps[2] = c2 /\ steps[3] = c3 /\ steps[4] = c4 /\ steps[5] = c5
        /\ steps[6] = c6
      BY <1>5, <2>2
  <2>5. AddShape(steps, 7, a, d, x, c)
      BY <1>1, <2>2, <2>3, <2>4 DEF AddShape
  <2> QED
      BY <2>5
<1>7. CASE ~superuser
  <2>1. steps = files
      BY <1>7
  <2>2. DOMAIN steps = 1 .. 6 /\ IsASequence(steps)
      BY <1>4, <1>5, <2>1 DEF IsASequence
  <2>3. AddShape(steps, 6, a, d, x, c)
      BY <1>1, <1>5, <2>1, <2>2 DEF AddShape
  <2> QED
      BY <2>3
<1> QED
    BY <1>6, <1>7

\* They are sound, and what they write into an account is its activation and its first password.
LEMMA AddSound ==
    ASSUME NEW a, NEW d \in Domains, NEW x, NEW c, NEW steps, NEW n, AddShape(steps, n, a, d, x, c),
           Exists(Entry(DomainDir(d), "accounts")), NEW this, this[1] = a, this[2] = d
    PROVE  /\ Sound(steps)
           /\ \A k \in DOMAIN steps : Len(steps[k].path) \in {3, 4}
           /\ \A k \in DOMAIN steps : steps[k].path[1] = Encoded(d) /\ steps[k].path[3] = Encoded(a)
           /\ 4 \in DOMAIN steps /\ steps[4].path = Act(this) /\ steps[4].call = "open" /\ steps[4].value = x
           /\ 6 \in DOMAIN steps /\ steps[6].path = Pass(this, 0) /\ steps[6].call = "open" /\ steps[6].value = c
           /\ \A k \in DOMAIN steps : steps[k].path = Act(this) => k = 4
           /\ \A k \in DOMAIN steps : \A i : steps[k].path = Pass(this, i) => k = 6 /\ i = 0
<1>1. PICK last :
          last = [k \in 2 .. 7 |-> CASE k = 2 -> <<"attribs">> [] k = 3 -> <<"groups">>
                                     [] k = 4 -> <<"acct.activation">> [] k = 5 -> <<"acct.details">>
                                     [] k = 6 -> <<"acct.passwd", 0>> [] k = 7 -> <<"superuser">>]
    OBVIOUS
<1>2. /\ last[2] = <<"attribs">> /\ last[3] = <<"groups">> /\ last[4] = <<"acct.activation">>
      /\ last[5] = <<"acct.details">> /\ last[6] = <<"acct.passwd", 0>> /\ last[7] = <<"superuser">>
    BY <1>1
<1>3. PICK dir, p2, p3, p4, p5, p6, p7 :
          /\ dir = AccountDir(a, d) /\ p2 = Entry(dir, "attribs") /\ p3 = Entry(dir, "groups")
          /\ p4 = ActivationFile(a, d) /\ p5 = Entry(dir, "acct.details") /\ p6 = PassFile(a, d, 0)
          /\ p7 = Entry(dir, "superuser")
    OBVIOUS
<1>4. dir = ObjectDir("accounts", a, d)
    BY <1>3, ObjectPaths, Zenon
<1>5. dir = <<Encoded(d), <<"accounts">>, Encoded(a)>>
    BY <1>4, EntryPaths
<1>6. \A w : Entry(dir, w) = <<Encoded(d), <<"accounts">>, Encoded(a), <<w>>>>
    BY <1>4, EntryPaths
<1>7. /\ p2 = <<Encoded(d), <<"accounts">>, Encoded(a), last[2]>>
      /\ p3 = <<Encoded(d), <<"accounts">>, Encoded(a), last[3]>>
      /\ p4 = <<Encoded(d), <<"accounts">>, Encoded(a), last[4]>>
      /\ p5 = <<Encoded(d), <<"accounts">>, Encoded(a), last[5]>>
      /\ p6 = <<Encoded(d), <<"accounts">>, Encoded(a), last[6]>>
      /\ p7 = <<Encoded(d), <<"accounts">>, Encoded(a), last[7]>>
    BY <1>2, <1>3, <1>6, AccountPaths
<1>8. /\ Rooted(dir) /\ Len(dir) = 3 /\ Parent(dir) = Entry(DomainDir(d), "accounts")
      /\ dir[1] = Encoded(d) /\ dir[3] = Encoded(a)
  <2>1. Rooted(dir)
      BY <1>5, RootedTuples
  <2>2. Len(dir) = 3
      BY <1>5, Tuple3
  <2>3. Parent(dir) = Entry(DomainDir(d), "accounts")
      BY <1>5, Tuple23, DomainPaths
  <2>4. dir[1] = Encoded(d) /\ dir[3] = Encoded(a)
      BY <1>5
  <2> QED
      BY <2>1, <2>2, <2>3, <2>4
<1>9. ASSUME NEW w, NEW p, p = <<Encoded(d), <<"accounts">>, Encoded(a), w>>
      PROVE  /\ Rooted(p) /\ Len(p) = 4 /\ Parent(p) = dir
             /\ p[1] = Encoded(d) /\ p[3] = Encoded(a) /\ p[4] = w
  <2>1. Rooted(p)
      BY <1>9, RootedTuples
  <2>2. Len(p) = 4 /\ Parent(p) = <<Encoded(d), <<"accounts">>, Encoded(a)>>
      BY <1>9, Tuple4
  <2>3. p[1] = Encoded(d) /\ p[3] = Encoded(a) /\ p[4] = w
      BY <1>9
  <2> QED
      BY <1>5, <2>1, <2>2, <2>3
<1>10. /\ IsASequence(steps) /\ n \in {6, 7} /\ DOMAIN steps = 1 .. n
       /\ steps[1] = mkdir(dir) /\ steps[2] = mkdir(p2) /\ steps[3] = mkdir(p3)
       /\ steps[4] = save(p4, x) /\ steps[5] = save(p5, "details") /\ steps[6] = save(p6, c)
       /\ n = 7 => steps[7] = touch(p7)
    BY <1>3, Zenon DEF AddShape
<1>11. Rooted(p2) /\ Rooted(p3) /\ Rooted(p4) /\ Rooted(p5) /\ Rooted(p6) /\ Rooted(p7)
    BY <1>7, <1>9
<1>12. \A p : Rooted(p) => Creating(mkdir(p)) /\ CallShape(mkdir(p)) /\ mkdir(p).path = p
    BY CallsAre
<1>13. \A p : Rooted(p) => Creating(touch(p)) /\ CallShape(touch(p)) /\ touch(p).path = p
    BY CallsAre
<1>14. \A p, v : Rooted(p) => /\ Creating(save(p, v)) /\ CallShape(save(p, v)) /\ save(p, v).path = p
                              /\ save(p, v).call = "open" /\ save(p, v).value = v
    BY CallsAre
<1>15. /\ Creating(steps[1]) /\ CallShape(steps[1]) /\ steps[1].path = dir
       /\ Creating(steps[2]) /\ CallShape(steps[2]) /\ steps[2].path = p2
       /\ Creating(steps[3]) /\ CallShape(steps[3]) /\ steps[3].path = p3
    BY <1>8, <1>10, <1>11, <1>12, Zenon
<1>16. /\ Creating(steps[4]) /\ CallShape(steps[4]) /\ steps[4].path = p4
       /\ steps[4].call = "open" /\ steps[4].value = x
       /\ Creating(steps[5]) /\ CallShape(steps[5]) /\ steps[5].path = p5
       /\ Creating(steps[6]) /\ CallShape(steps[6]) /\ steps[6].path = p6
       /\ steps[6].call = "open" /\ steps[6].value = c
  <2>1. /\ Creating(steps[4]) /\ CallShape(steps[4]) /\ steps[4].path = p4
        /\ steps[4].call = "open" /\ steps[4].value = x
    <3>1. Rooted(p4) /\ steps[4] = save(p4, x)
        BY <1>10, <1>11
    <3>2. /\ Creating(save(p4, x)) /\ CallShape(save(p4, x)) /\ save(p4, x).path = p4
          /\ save(p4, x).call = "open" /\ save(p4, x).value = x
        BY <1>14, <3>1
    <3> QED
        BY <3>1, <3>2
  <2>2. /\ Creating(steps[5]) /\ CallShape(steps[5]) /\ steps[5].path = p5
    <3>1. Rooted(p5) /\ steps[5] = save(p5, "details")
        BY <1>10, <1>11
    <3>2. /\ Creating(save(p5, "details")) /\ CallShape(save(p5, "details")) /\ save(p5, "details").path = p5
          /\ save(p5, "details").call = "open" /\ save(p5, "details").value = "details"
        BY <1>14, <3>1
    <3> QED
        BY <3>1, <3>2
  <2>3. /\ Creating(steps[6]) /\ CallShape(steps[6]) /\ steps[6].path = p6
        /\ steps[6].call = "open" /\ steps[6].value = c
    <3>1. Rooted(p6) /\ steps[6] = save(p6, c)
        BY <1>10, <1>11
    <3>2. /\ Creating(save(p6, c)) /\ CallShape(save(p6, c)) /\ save(p6, c).path = p6
          /\ save(p6, c).call = "open" /\ save(p6, c).value = c
        BY <1>14, <3>1
    <3> QED
        BY <3>1, <3>2
  <2> QED
      BY <2>1, <2>2, <2>3
<1>17. n = 7 => Creating(steps[7]) /\ CallShape(steps[7]) /\ steps[7].path = p7
    BY <1>10, <1>11, <1>13, Zenon
<1>18. \A k \in 1 .. n : k = 1 \/ k = 2 \/ k = 3 \/ k = 4 \/ k = 5 \/ k = 6 \/ (k = 7 /\ n = 7)
    BY <1>10
<1>19. \A k \in DOMAIN steps : Creating(steps[k]) /\ CallShape(steps[k])
    BY <1>10, <1>15, <1>16, <1>17, <1>18, Zenon
<1>20. \A k \in DOMAIN steps : k # 1 =>
           k \in 2 .. 7 /\ steps[k].path = <<Encoded(d), <<"accounts">>, Encoded(a), last[k]>>
  <2>1. SUFFICES ASSUME NEW k \in 1 .. n, k # 1
                 PROVE  k \in 2 .. 7 /\ steps[k].path = <<Encoded(d), <<"accounts">>, Encoded(a), last[k]>>
      BY <1>10
  <2>2. k \in 2 .. 7
      BY <1>18, <2>1
  <2>3. steps[k].path = <<Encoded(d), <<"accounts">>, Encoded(a), last[k]>>
      BY <1>7, <1>15, <1>16, <1>17, <1>18, <2>1, Zenon
  <2> QED
      BY <2>2, <2>3
<1>21. \A k \in DOMAIN steps : k # 1 =>
           /\ k \in 2 .. 7 /\ Len(steps[k].path) = 4 /\ Parent(steps[k].path) = dir
           /\ steps[k].path[1] = Encoded(d) /\ steps[k].path[3] = Encoded(a) /\ steps[k].path[4] = last[k]
    BY <1>9, <1>20
<1>22. \A j, k \in 2 .. 7 : last[j] = last[k] => j = k
  <2>1. /\ last[2] # last[3] /\ last[2] # last[4] /\ last[2] # last[5] /\ last[2] # last[6] /\ last[2] # last[7]
        /\ last[3] # last[4] /\ last[3] # last[5] /\ last[3] # last[6] /\ last[3] # last[7]
        /\ last[4] # last[5] /\ last[4] # last[6] /\ last[4] # last[7]
        /\ last[5] # last[6] /\ last[5] # last[7] /\ last[6] # last[7]
      BY <1>2
  <2>2. \A k \in 2 .. 7 : k = 2 \/ k = 3 \/ k = 4 \/ k = 5 \/ k = 6 \/ k = 7
      OBVIOUS
  <2> QED
      BY <2>1, <2>2, Zenon
<1>23. \A k \in DOMAIN steps : k # 1 => steps[k].path # steps[1].path
  <2>1. Len(steps[1].path) = 3
      BY <1>8, <1>15
  <2> QED
      BY <1>21, <2>1
<1>24. \A j, k \in DOMAIN steps : steps[j].path = steps[k].path => j = k
  <2>1. \A j, k \in DOMAIN steps : j # 1 /\ k # 1 /\ steps[j].path = steps[k].path => j = k
    <3>1. SUFFICES ASSUME NEW j \in DOMAIN steps, NEW k \in DOMAIN steps, j # 1, k # 1,
                          steps[j].path = steps[k].path
                   PROVE  j = k
        OBVIOUS
    <3>2. last[j] = last[k] /\ j \in 2 .. 7 /\ k \in 2 .. 7
        BY <1>21, <3>1, Zenon
    <3> QED
        BY <1>22, <3>2
  <2> QED
      BY <1>23, <2>1
<1>25. 1 \in DOMAIN steps /\ 4 \in DOMAIN steps /\ 6 \in DOMAIN steps
    BY <1>10
<1>26. Sound(steps)
  <2>1. Exists(Parent(dir))
      BY <1>8
  <2> QED
      BY <1>10, <1>15, <1>19, <1>21, <1>24, <1>25, <2>1, GrowsSound
<1>27. \A k \in DOMAIN steps : Len(steps[k].path) \in {3, 4}
  <2>1. Len(steps[1].path) = 3
      BY <1>8, <1>15
  <2> QED
      BY <1>21, <2>1
<1>28. \A k \in DOMAIN steps : steps[k].path[1] = Encoded(d) /\ steps[k].path[3] = Encoded(a)
    BY <1>8, <1>15, <1>21
<1>29. steps[4].path = Act(this) /\ steps[6].path = Pass(this, 0)
    BY <1>3, <1>16 DEF Act, Pass
<1>30. \A k \in DOMAIN steps : steps[k].path = Act(this) => k = 4
    BY <1>24, <1>25, <1>29
<1>31. ASSUME NEW k \in DOMAIN steps, NEW i, steps[k].path = Pass(this, i)
       PROVE  k = 6 /\ i = 0
  <2>1. Pass(this, i) = <<Encoded(d), <<"accounts">>, Encoded(a), <<"acct.passwd", i>>>> /\ Len(Pass(this, i)) = 4
      BY AccountFiles
  <2>2. Pass(this, i)[4] = <<"acct.passwd", i>>
      BY <2>1
  <2>3. k # 1
    <3>1. Len(steps[1].path) = 3
        BY <1>8, <1>15
    <3> QED
        BY <1>31, <2>1, <3>1
  <2>4. k \in 2 .. 7 /\ last[k] = <<"acct.passwd", i>>
      BY <1>21, <1>31, <2>2, <2>3
  <2>5. k = 6
      BY <1>2, <2>4
  <2>6. <<"acct.passwd", 0>> = <<"acct.passwd", i>>
      BY <1>2, <2>4, <2>5
  <2> QED
      BY <2>5, <2>6
<1> QED
    BY <1>16, <1>25, <1>26, <1>27, <1>28, <1>29, <1>30, <1>31

\* accountAdd keeps the invariant as it begins.
LEMMA AccountAdds ==
    ASSUME Rest, NEW a \in AccountNames, NEW d \in Domains, NEW g \in Given, NEW enabled \in BOOLEAN,
           NEW confirmed \in BOOLEAN, NEW superuser, NEW e \in Expirations,
           accountAdd(a, d, g, enabled, confirmed, superuser, e)
    PROVE  AInv' /\ (Linked => Linked')
<1>1. PICK this : this = <<a, d>>
    OBVIOUS
<1>2. this \in Accounts /\ this[1] = a /\ this[2] = d
    BY <1>1 DEF Accounts
<1>3. PICK x, c : x = Activation(enabled, confirmed, e) /\ c = PasswordJson(g)
    OBVIOUS
<1>4. PICK v0 : v0 = [activation |-> x, passwords |-> [i \in {0} |-> c]]
    OBVIOUS
<1>5. PICK files : files = <<mkdir(AccountDir(a, d)), mkdir(Entry(AccountDir(a, d), "attribs")),
                             mkdir(Entry(AccountDir(a, d), "groups")), save(ActivationFile(a, d), x),
                             save(Entry(AccountDir(a, d), "acct.details"), "details"), save(PassFile(a, d, 0), c)>>
    OBVIOUS
<1>6. PICK steps : steps = IF superuser THEN Append(files, touch(Entry(AccountDir(a, d), "superuser"))) ELSE files
    OBVIOUS
<1>7. /\ ~Exists(AccountDir(a, d)) /\ Exists(Entry(DomainDir(d), "accounts"))
      /\ Begin(steps, [made EXCEPT !.accounts[this] = {v0}])
    BY <1>1, <1>3, <1>4, <1>5, <1>6, Zenon DEF accountAdd
<1>8. TypeOK /\ Tree /\ Promises /\ Accounted /\ doing = made /\ PlainNames
    BY DEF Rest, AInv, TypeOK
<1>9. PICK n : AddShape(steps, n, a, d, x, c)
    BY <1>5, <1>6, AddSteps
<1>10. /\ Sound(steps)
       /\ \A k \in DOMAIN steps : Len(steps[k].path) \in {3, 4}
       /\ \A k \in DOMAIN steps : steps[k].path[1] = Encoded(d) /\ steps[k].path[3] = Encoded(a)
       /\ 4 \in DOMAIN steps /\ steps[4].path = Act(this) /\ steps[4].call = "open" /\ steps[4].value = x
       /\ 6 \in DOMAIN steps /\ steps[6].path = Pass(this, 0) /\ steps[6].call = "open" /\ steps[6].value = c
       /\ \A k \in DOMAIN steps : steps[k].path = Act(this) => k = 4
       /\ \A k \in DOMAIN steps : \A i : steps[k].path = Pass(this, i) => k = 6 /\ i = 0
    BY <1>2, <1>7, <1>9, AddSound
<1>11. PICK then : then = [made EXCEPT !.accounts[this] = {v0}]
    OBVIOUS
<1>12. Begin(steps, then)
    BY <1>7, <1>11
<1>13. /\ todo' = steps /\ fs' = fs /\ made' = made /\ doubt' = doubt
    BY <1>12 DEF Begin
<1>14. /\ \A p : IsMade(p)' <=> \E k \in DOMAIN steps : steps[k].path = p
       /\ \A p, v : WillHold(p, v)' <=>
             \/ \E k \in DOMAIN steps : steps[k].call \in {"open", "close"} /\ steps[k].path = p /\ steps[k].value = v
             \/ ~(\E k \in DOMAIN steps : steps[k].path = p) /\ Holds(p, v)
    BY <1>8, <1>10, <1>12, BeginCreating DEF Sound
<1>15. v0.activation = x /\ DOMAIN v0.passwords = {0} /\ v0.passwords[0] = c
    BY <1>4
<1>16. IsVersion(v0)
  <2>1. c \in Kept
      BY <1>3 DEF Kept
  <2>2. e \in Nat /\ UintLimit \in Nat \ {0}
      BY FilesAssumption
  <2>3. e % UintLimit \in Nat
      BY <2>2
  <2>4. x \in Activations
      BY <1>3, <2>3 DEF Activation, Activations
  <2>5. v0.passwords = [i \in DOMAIN v0.passwords |-> v0.passwords[i]]
      BY <1>4
  <2>6. v0 = [activation |-> v0.activation, passwords |-> v0.passwords]
      BY <1>4
  <2>7. \A i \in DOMAIN v0.passwords : v0.passwords[i] \in Kept
      BY <1>15, <2>1
  <2> QED
      BY <1>15, <2>4, <2>5, <2>6, <2>7 DEF IsVersion
<1>17. ~Exists(Home(this)) /\ ~Exists(Act(this)) /\ \A i : ~Exists(Pass(this, i))
  <2>1. ~Exists(Home(this))
      BY <1>2, <1>7 DEF Home
  <2>2. \A p : Exists(p) /\ Len(p) = 4 => Exists(Parent(p))
      BY <1>8 DEF Tree, Exists
  <2>3. /\ Len(Act(this)) = 4 /\ Parent(Act(this)) = Home(this)
        /\ \A i : Len(Pass(this, i)) = 4 /\ Parent(Pass(this, i)) = Home(this)
      BY AccountFiles
  <2> QED
      BY <2>1, <2>2, <2>3
<1>18. \A y : WillHold(Act(this), y)' <=> y = x
  <2>1. SUFFICES ASSUME NEW y
                 PROVE  WillHold(Act(this), y)' <=> y = x
      OBVIOUS
  <2>2. WillHold(Act(this), y)' <=>
             \/ \E k \in DOMAIN steps : steps[k].call \in {"open", "close"} /\ steps[k].path = Act(this) /\ steps[k].value = y
             \/ ~(\E k \in DOMAIN steps : steps[k].path = Act(this)) /\ Holds(Act(this), y)
      BY <1>14
  <2> QED
      BY <1>10, <2>2
<1>19. \A i, y : WillHold(Pass(this, i), y)' <=> i = 0 /\ y = c
  <2>1. SUFFICES ASSUME NEW i, NEW y
                 PROVE  WillHold(Pass(this, i), y)' <=> i = 0 /\ y = c
      OBVIOUS
  <2>2. WillHold(Pass(this, i), y)' <=>
             \/ \E k \in DOMAIN steps : steps[k].call \in {"open", "close"} /\ steps[k].path = Pass(this, i) /\ steps[k].value = y
             \/ ~(\E k \in DOMAIN steps : steps[k].path = Pass(this, i)) /\ Holds(Pass(this, i), y)
      BY <1>14
  <2>3. ~Holds(Pass(this, i), y)
      BY <1>17 DEF Holds
  <2> QED
      BY <1>10, <2>2, <2>3
<1>20. ASSUME doing'.accounts[this] = {v0}
       PROVE  WillBeAccount(this)' /\ IsAccount(this)' /\ ActivationFirst(this)'
  <2>1. IsAccount(this)'
    <3>1. \A y : ~Holds(Act(this), y)'
        BY <1>13, <1>17 DEF Holds, Exists
    <3>2. made'.accounts[this] \cup doing'.accounts[this] # {}
        BY <1>20
    <3> QED
        BY <3>1, <3>2 DEF IsAccount
  <2>2. ActivationFirst(this)'
    <3>1. \A i : ~Exists(Pass(this, i))'
        BY <1>13, <1>17 DEF Exists
    <3>2. \A k \in DOMAIN steps : \A i : steps[k].path = Pass(this, i) => 4 \in DOMAIN steps /\ 4 < k
        BY <1>10
    <3> QED
        BY <1>10, <1>13, <3>1, <3>2 DEF ActivationFirst
  <2>3. ASSUME NEW y, WillHold(Act(this), y)'
        PROVE  \E v \in {v0} : v.activation = y
      BY <1>15, <1>18, <2>3
  <2>4. ASSUME NEW y, NEW i, NEW z, WillHold(Act(this), y)', WillHold(Pass(this, i), z)'
        PROVE  \E v \in {v0} : Fits(v, y, i, z)
      BY <1>15, <1>18, <1>19, <2>4 DEF Fits
  <2>5. \E v \in {v0} : /\ {v0} = {v} /\ WillHold(Act(this), v.activation)'
                        /\ \A i \in DOMAIN v.passwords : WillHold(Pass(this, i), v.passwords[i])'
      BY <1>15, <1>18, <1>19
  <2>6. WillBeAccount(this)'
      BY <1>13, <1>20, <2>3, <2>4, <2>5 DEF WillBeAccount
  <2> QED
      BY <2>1, <2>2, <2>6
<1>21. \A k \in DOMAIN steps : \A acct \in Accounts : IsFileOf(steps[k].path, acct) => acct = this
  <2>1. SUFFICES ASSUME NEW k \in DOMAIN steps, NEW acct \in Accounts, IsFileOf(steps[k].path, acct)
                 PROVE  acct = this
      OBVIOUS
  <2>2. PICK p : p = steps[k].path
      OBVIOUS
  <2>3. p[1] = Encoded(acct[2]) /\ p[3] = Encoded(acct[1])
    <3>1. Home(acct)[1] = Encoded(acct[2]) /\ Home(acct)[3] = Encoded(acct[1])
      <4>1. Home(acct) = <<Encoded(acct[2]), <<"accounts">>, Encoded(acct[1])>>
          BY AccountFiles
      <4> QED
          BY <4>1
    <3>2. Act(acct)[1] = Encoded(acct[2]) /\ Act(acct)[3] = Encoded(acct[1])
      <4>1. Act(acct) = <<Encoded(acct[2]), <<"accounts">>, Encoded(acct[1]), <<"acct.activation">>>>
          BY AccountFiles
      <4> QED
          BY <4>1
    <3>3. ASSUME NEW i
          PROVE  Pass(acct, i)[1] = Encoded(acct[2]) /\ Pass(acct, i)[3] = Encoded(acct[1])
      <4>1. Pass(acct, i) = <<Encoded(acct[2]), <<"accounts">>, Encoded(acct[1]), <<"acct.passwd", i>>>>
          BY AccountFiles
      <4> QED
          BY <4>1
    <3> QED
        BY <2>1, <2>2, <3>1, <3>2, <3>3 DEF IsFileOf
  <2>4. /\ acct = <<acct[1], acct[2]>> /\ acct[1] \in Names /\ acct[2] \in Names
        /\ a \in Names /\ d \in Names
      BY AccountsAre DEF Names
  <2>5. acct[1] = a /\ acct[2] = d
      BY <1>8, <1>10, <2>2, <2>3, <2>4, EncodedApart
  <2> QED
      BY <1>1, <2>4, <2>5
<1>22. \A k \in DOMAIN steps : Len(steps[k].path) # 5
    BY <1>10
<1>23. \A v \in {v0} : IsVersion(v)
    BY <1>16
<1>24. PICK W : W = {v0}
    OBVIOUS
<1>25. Sound(steps) /\ Begin(steps, [made EXCEPT !.accounts[this] = W]) /\ \A v \in W : IsVersion(v)
    BY <1>7, <1>10, <1>23, <1>24
<1>26. doing'.accounts[this] = W => WillBeAccount(this)' /\ IsAccount(this)' /\ ActivationFirst(this)'
    BY <1>20, <1>24
<1> QED
    BY <1>2, <1>21, <1>22, <1>25, <1>26, BeginAccount

-----------------------------------------------------------------------------
(* All functions, calls and crashes *)

\* Every function of the administrator keeps the invariant as it begins; that of the associations
\* needs domains no account or group is named like (attribRemove).
LEMMA Administers ==
    ASSUME PlainNames, AInv, Administer
    PROVE  AInv' /\ (Linked /\ DomainsApart => Linked')
<1>1. Rest
    BY DEF Rest, Administer
<1>2. ASSUME NEW d \in Domains, domainAdd(d) \/ domainRemove(d)
      PROVE  AInv' /\ (Linked => Linked')
    BY <1>1, <1>2, DomainAdds, DomainRemoves
<1>3. ASSUME NEW a \in AccountNames, NEW d \in Domains,
             \/ \E p \in Given, confirmed \in BOOLEAN, superuser \in SuperuserChoices, e \in Expirations :
                   accountAdd(a, d, p, TRUE, confirmed, superuser, e)
             \/ accountRemove(a, d)
             \/ \E disabled \in BOOLEAN : accountDisable(a, d, disabled)
             \/ accountConfirm(a, d)
             \/ \E e \in Expirations : accountChangeExpiration(a, d, e)
             \/ \E i \in PassIndexes, p \in Given : accountChangePassword(a, d, i, p)
             \/ accountChangeDetails(a, d)
      PROVE  AInv' /\ (Linked => Linked')
  <2>1. ASSUME NEW p \in Given, NEW confirmed \in BOOLEAN, NEW superuser \in SuperuserChoices,
               NEW e \in Expirations, accountAdd(a, d, p, TRUE, confirmed, superuser, e)
        PROVE  AInv' /\ (Linked => Linked')
      BY <1>1, <2>1, AccountAdds
  <2>2. CASE accountRemove(a, d)
      BY <1>1, <2>2, AccountRemoves
  <2>3. CASE \/ \E disabled \in BOOLEAN : accountDisable(a, d, disabled)
             \/ accountConfirm(a, d)
             \/ \E e \in Expirations : accountChangeExpiration(a, d, e)
      BY <1>1, <2>3, ActivationsChange
  <2>4. ASSUME NEW i \in PassIndexes, NEW p \in Given, accountChangePassword(a, d, i, p)
        PROVE  AInv' /\ (Linked => Linked')
      BY <1>1, <2>4, PasswordChanges
  <2>5. CASE accountChangeDetails(a, d)
      BY <1>1, <2>5, DescriptionsChange
  <2> QED
      BY <1>3, <2>1, <2>2, <2>3, <2>4, <2>5
<1>4. ASSUME NEW g \in GroupNames, NEW d \in Domains,
             groupAdd(g, d) \/ groupChangeDescription(g, d) \/ groupRemove(g, d)
      PROVE  AInv' /\ (Linked => Linked')
    BY <1>1, <1>4, GroupAdds, DescriptionsChange, GroupRemoves
<1>5. ASSUME NEW x \in AttribNames, NEW d \in Domains,
             attribAdd(x, d) \/ attribChangeDescription(x, d) \/ attribRemove(x, d)
      PROVE  AInv' /\ (Linked /\ DomainsApart => Linked')
  <2>1. CASE attribAdd(x, d)
      BY <1>1, <2>1, AttribAdds
  <2>2. CASE attribChangeDescription(x, d)
      BY <1>1, <2>2, DescriptionsChange
  <2>3. CASE attribRemove(x, d)
      BY <1>1, <2>3, AttribRemoves
  <2> QED
      BY <1>5, <2>1, <2>2, <2>3
<1>6. ASSUME NEW d \in Domains,
             \/ \E x \in AttribNames, a \in AccountNames : attribAccountAdd(x, a, d) \/ attribAccountRemove(x, a, d)
             \/ \E x \in AttribNames, g \in GroupNames : attribGroupAdd(x, g, d) \/ attribGroupRemove(x, g, d)
             \/ \E g \in GroupNames, a \in AccountNames : groupAccountAdd(g, a, d) \/ groupAccountRemove(g, a, d)
      PROVE  AInv' /\ (Linked => Linked')
  <2>1. SUFFICES \E as \in Associations : Associate(as) \/ Dissociate(as)
      BY <1>1, Associates, Dissociates1
  <2>2. ASSUME NEW x \in AttribNames, NEW a \in AccountNames, attribAccountAdd(x, a, d) \/ attribAccountRemove(x, a, d)
        PROVE  \E as \in Associations : Associate(as) \/ Dissociate(as)
    <3>1. <<"attrib-account", x, a, d>> \in Associations
        BY DEF Associations
    <3> QED
        BY <2>2, <3>1, Zenon DEF attribAccountAdd, attribAccountRemove
  <2>3. ASSUME NEW x \in AttribNames, NEW g \in GroupNames, attribGroupAdd(x, g, d) \/ attribGroupRemove(x, g, d)
        PROVE  \E as \in Associations : Associate(as) \/ Dissociate(as)
    <3>1. <<"attrib-group", x, g, d>> \in Associations
        BY DEF Associations
    <3> QED
        BY <2>3, <3>1, Zenon DEF attribGroupAdd, attribGroupRemove
  <2>4. ASSUME NEW g \in GroupNames, NEW a \in AccountNames, groupAccountAdd(g, a, d) \/ groupAccountRemove(g, a, d)
        PROVE  \E as \in Associations : Associate(as) \/ Dissociate(as)
    <3>1. <<"group-account", g, a, d>> \in Associations
        BY DEF Associations
    <3> QED
        BY <2>4, <3>1, Zenon DEF groupAccountAdd, groupAccountRemove
  <2> QED
      BY <1>6, <2>2, <2>3, <2>4
<1> QED
    BY <1>2, <1>3, <1>4, <1>5, <1>6 DEF Administer

\* A stuttering step keeps the invariant.
LEMMA Stays ==
    ASSUME AInv, UNCHANGED vars
    PROVE  AInv' /\ (Linked => Linked')
<1> USE DEF vars
<1>1. TypeOK' /\ Tree' /\ CallShapes'
    BY DEF AInv, TypeOK, Tree, CallShapes
<1>2. Order' /\ Promises'
    BY DEF AInv, Order, Promises, Exists
<1>3. /\ \A p : IsMade(p)' <=> IsMade(p)
      /\ \A p : IsRemoved(p)' <=> IsRemoved(p)
      /\ \A p : Exists(p)' <=> Exists(p)
      /\ \A p, v : Holds(p, v)' <=> Holds(p, v)
    BY DEF IsMade, IsRemoved, Exists, Holds
<1>4. /\ \A p : WillExist(p)' <=> WillExist(p)
      /\ \A p, v : WillHold(p, v)' <=> WillHold(p, v)
    BY <1>3 DEF WillExist, WillHold
<1>5. Accounted'
  <2>1. SUFFICES ASSUME NEW acct \in Accounts
                 PROVE  WillBeAccount(acct)' /\ IsAccount(acct)' /\ ActivationFirst(acct)'
      BY DEF Accounted
  <2>2. WillBeAccount(acct) /\ IsAccount(acct) /\ ActivationFirst(acct)
      BY DEF AInv, Accounted
  <2>3. WillBeAccount(acct)'
      BY <1>4, <2>2 DEF WillBeAccount
  <2>4. IsAccount(acct)'
      BY <1>3, <2>2 DEF IsAccount
  <2>5. ActivationFirst(acct)'
      BY <1>3, <2>2 DEF ActivationFirst
  <2> QED
      BY <2>3, <2>4, <2>5
<1>6. Linked => Linked'
    BY <1>3, <1>4 DEF Linked, WillBeLinked, IsLinked
<1> QED
    BY <1>1, <1>2, <1>5, <1>6 DEF AInv

\* The empty directory satisfies the invariant.
LEMMA Begins == Init => AInv /\ Linked
<1> SUFFICES ASSUME Init
             PROVE  AInv /\ Linked
    OBVIOUS
<1>1. DOMAIN fs = {} /\ DOMAIN todo = {} /\ todo = <<>> /\ made = Nothing /\ doing = Nothing /\ doubt = {} /\ crashes = 0
    BY DEF Init
<1>2. made.links = {} /\ \A acct \in Accounts : made.accounts[acct] = {}
    BY <1>1 DEF Nothing
<1>3. TypeOK
    BY <1>1, <1>2, FilesAssumption DEF TypeOK
<1>4. Tree /\ Order
    BY <1>1 DEF Tree, Order
<1>5. CallShapes
  <2>1. todo \in Seq({})
      BY <1>1
  <2> QED
      BY <1>1, <2>1 DEF CallShapes, IsASequence
<1>6. Promises
  <2>1. made = [links |-> made.links, accounts |-> made.accounts]
      BY <1>1 DEF Nothing
  <2>2. made.accounts = [acct \in Accounts |-> made.accounts[acct]]
      BY <1>1 DEF Nothing
  <2> QED
      BY <1>1, <1>2, <2>1, <2>2 DEF Promises
<1>7. /\ \A p : ~WillExist(p) /\ ~Exists(p)
      /\ \A p, v : ~WillHold(p, v) /\ ~Holds(p, v)
    BY <1>1 DEF WillExist, WillHold, Exists, Holds, IsMade
<1>8. Linked
    BY <1>1, <1>2, <1>7 DEF Linked, WillBeLinked, IsLinked
<1>9. Accounted
  <2>1. SUFFICES ASSUME NEW acct \in Accounts
                 PROVE  WillBeAccount(acct) /\ IsAccount(acct) /\ ActivationFirst(acct)
      BY DEF Accounted
  <2>2. doing.accounts[acct] = {}
      BY <1>1, <1>2
  <2>3. WillBeAccount(acct)
      BY <1>7, <2>2 DEF WillBeAccount
  <2>4. IsAccount(acct)
      BY <1>7 DEF IsAccount
  <2>5. ActivationFirst(acct)
      BY <1>1 DEF ActivationFirst
  <2> QED
      BY <2>3, <2>4, <2>5
<1> QED
    BY <1>3, <1>4, <1>5, <1>6, <1>8, <1>9 DEF AInv

\* Every step keeps the invariant.
LEMMA NextKeeps ==
    PlainNames /\ AInv /\ [Next]_vars => AInv' /\ (Linked /\ DomainsApart => Linked')
<1> SUFFICES ASSUME PlainNames, AInv, [Next]_vars
             PROVE  AInv' /\ (Linked /\ DomainsApart => Linked')
    OBVIOUS
<1>1. CASE Administer
    BY <1>1, Administers
<1>2. CASE Step
  <2>1. TypeOK /\ Tree /\ CallShapes /\ Order /\ Promises /\ Accounted
      BY DEF AInv
  <2>2. Tree' /\ CallShapes' /\ Order'
      BY <1>2, <2>1, StepGround
  <2>3. TypeOK' /\ Promises'
      BY <1>2, <2>1, <2>2, StepTypeOK, StepPromises
  <2>4. Accounted'
    <3>1. \A acct \in Accounts : WillBeAccount(acct) /\ IsAccount(acct) /\ ActivationFirst(acct)
        BY <2>1 DEF Accounted
    <3>2. \A acct \in Accounts : WillBeAccount(acct)' /\ IsAccount(acct)' /\ ActivationFirst(acct)'
        BY <1>2, <2>1, <3>1, StepAccount
    <3> QED
        BY <3>2 DEF Accounted
  <2>5. Linked => Linked'
      BY <1>2, <2>1, StepLinked
  <2> QED
      BY <2>2, <2>3, <2>4, <2>5 DEF AInv
<1>3. CASE Crash
  <2>1. TypeOK /\ Tree /\ CallShapes /\ Order /\ Promises /\ Accounted
      BY DEF AInv
  <2>2. TypeOK' /\ Tree' /\ CallShapes' /\ Order' /\ Promises'
      BY <1>3, <2>1, CrashGround
  <2>3. Accounted'
    <3>1. \A acct \in Accounts : WillBeAccount(acct) /\ IsAccount(acct) /\ ActivationFirst(acct)
        BY <2>1 DEF Accounted
    <3>2. \A acct \in Accounts : WillBeAccount(acct)' /\ IsAccount(acct)' /\ ActivationFirst(acct)'
        BY <1>3, <2>1, <3>1, CrashAccount
    <3> QED
        BY <3>2 DEF Accounted
  <2>4. Linked => Linked'
      BY <1>3, <2>1, CrashLinked
  <2> QED
      BY <2>2, <2>3, <2>4 DEF AInv
<1>4. CASE UNCHANGED vars
    BY <1>4, Stays
<1> QED
    BY <1>1, <1>2, <1>3, <1>4 DEF Next

-----------------------------------------------------------------------------
(* What it means for logins and for associations *)

\* A password that is kept is compared as validatePassword compares it.
LEMMA Compared ==
    ASSUME NEW y \in Kept, NEW w
    PROVE  validatePassword(y, w, "PLAIN", now) = "AUTHENTICATED"
               <=> /\ ~y.force /\ y.expiration >= now /\ y.mode \notin {"NOTFOUND", "GAUTHTIME"}
                   /\ y.hash = Digest(y.mode, w, y.salt)
<1>1. PICK g \in Given : y = PasswordJson(g)
    BY DEF Kept
<1>2. /\ DOMAIN g = {"mode", "hash", "salt", "expiration", "force"}
      /\ g.mode \in PassModes /\ g.expiration \in Nat /\ g.force \in BOOLEAN
      /\ UintLimit \in Nat \ {0} /\ now \in Nat
    BY FilesAssumption
<1>3. y = [g EXCEPT !.expiration = g.expiration % UintLimit]
    BY <1>1 DEF PasswordJson
<1>4. y.expiration = g.expiration % UintLimit /\ y.force \in BOOLEAN
    BY <1>2, <1>3
<1>5. y.expiration \in Nat
    BY <1>2, <1>4
<1>6. isPasswordExpired(y, now) <=> y.force \/ ~(y.expiration >= now)
    BY <1>2, <1>5 DEF isPasswordExpired
<1>7. CASE isPasswordExpired(y, now)
    BY <1>4, <1>6, <1>7 DEF validatePassword
<1>8. CASE ~isPasswordExpired(y, now)
  <2>1. CASE y.mode = "NOTFOUND"
      BY <1>8, <2>1 DEF validatePassword
  <2>2. CASE y.mode = "GAUTHTIME"
      BY <1>8, <2>2 DEF validatePassword
  <2>3. CASE y.mode \notin {"NOTFOUND", "GAUTHTIME"}
    <3>1. validatePassword(y, w, "PLAIN", now)
              = IF y.hash = Digest(y.mode, w, y.salt) THEN "AUTHENTICATED" ELSE "BAD_PASSWORD"
        BY <1>8, <2>3 DEF validatePassword
    <3> QED
        BY <1>6, <1>8, <2>3, <3>1
  <2> QED
      BY <2>1, <2>2, <2>3
<1> QED
    BY <1>7, <1>8

\* What authenticate asks of the files.
LEMMA Authenticates ==
    ASSUME Tree, NEW acct \in Accounts, NEW i, NEW w
    PROVE  authenticate(acct[1], acct[2], i, w) = "AUTHENTICATED"
               <=> \E x, y : /\ Holds(Act(acct), x) /\ Holds(Pass(acct, i), y)
                             /\ x.confirmed /\ x.enabled /\ ~isAccountExpired(x.expiration, now)
                             /\ validatePassword(y, w, "PLAIN", now) = "AUTHENTICATED"
<1>1. PICK home, act, pass : home = Home(acct) /\ act = Act(acct) /\ pass = Pass(acct, i)
    OBVIOUS
<1>2. /\ AccountDir(acct[1], acct[2]) = home /\ ActivationFile(acct[1], acct[2]) = act
      /\ PassFile(acct[1], acct[2], i) = pass
    BY <1>1 DEF Home, Act, Pass
<1>3. \A p, v : Holds(p, v) <=> Loads(p) /\ fs[p].value = v
  <2>1. SUFFICES ASSUME NEW p, NEW v
                 PROVE  Holds(p, v) <=> Loads(p) /\ fs[p].value = v
      OBVIOUS
  <2>2. p \in DOMAIN fs => fs[p] \in {Dir, Touched, Truncated} \/ \E u : fs[p] = Json(u)
      BY DEF Tree
  <2>3. p \in DOMAIN fs /\ fs[p].type = "json" => fs[p] = Json(fs[p].value)
      BY <2>2, EntryTypes
  <2>4. Json(v).type = "json" /\ Json(v).value = v
      BY DEF Json
  <2> QED
      BY <2>3, <2>4 DEF Holds, Loads, Exists
<1>4. PICK x, y : x = fs[act].value /\ y = fs[pass].value
    OBVIOUS
<1>5. Loads(act) => Exists(home)
  <2>1. Len(act) = 4 /\ Parent(act) = home
      BY <1>1, AccountFiles
  <2> QED
      BY <2>1 DEF Loads, Exists, Tree
<1>6. authenticate(acct[1], acct[2], i, w)
        = IF ~Exists(home) THEN "BAD_ACCOUNT"
          ELSE IF ~Loads(pass) \/ ~Loads(act) THEN "THROWN"
          ELSE IF ~x.confirmed THEN "UNCONFIRMED_ACCOUNT"
          ELSE IF ~x.enabled THEN "DISABLED_ACCOUNT"
          ELSE IF isAccountExpired(x.expiration, now) THEN "EXPIRED_ACCOUNT"
          ELSE validatePassword(y, w, "PLAIN", now)
    BY <1>2, <1>4 DEF authenticate, isAccountConfirmed, isAccountDisabled, accountExpirationDate,
                      activation, retrievePassword
<1>7. authenticate(acct[1], acct[2], i, w) = "AUTHENTICATED"
        <=> /\ Exists(home) /\ Loads(pass) /\ Loads(act) /\ x.confirmed /\ x.enabled
            /\ ~isAccountExpired(x.expiration, now)
            /\ validatePassword(y, w, "PLAIN", now) = "AUTHENTICATED"
    BY <1>6
<1>8. (\E u, v : /\ Holds(act, u) /\ Holds(pass, v)
                 /\ u.confirmed /\ u.enabled /\ ~isAccountExpired(u.expiration, now)
                 /\ validatePassword(v, w, "PLAIN", now) = "AUTHENTICATED")
        <=> /\ Loads(pass) /\ Loads(act) /\ x.confirmed /\ x.enabled
            /\ ~isAccountExpired(x.expiration, now)
            /\ validatePassword(y, w, "PLAIN", now) = "AUTHENTICATED"
    BY <1>3, <1>4, Zenon
<1> QED
    BY <1>1, <1>5, <1>7, <1>8

\* A version that has what the files hold lets in who the files let in.
LEMMA FitsLets ==
    ASSUME NEW v, IsVersion(v), NEW x, NEW y, NEW i, Fits(v, x, i, y), NEW w
    PROVE  Lets(v, i, w) <=> /\ x.confirmed /\ x.enabled /\ ~isAccountExpired(x.expiration, now)
                             /\ validatePassword(y, w, "PLAIN", now) = "AUTHENTICATED"
<1>1. v.activation = x /\ i \in DOMAIN v.passwords /\ v.passwords[i] = y
    BY DEF Fits
<1>2. x \in Activations /\ y \in Kept
    BY <1>1 DEF IsVersion
<1>3. x.expiration \in Nat /\ now \in Nat
    BY <1>2, FilesAssumption DEF Activations
<1>4. (x.expiration = 0 \/ x.expiration >= now) <=> ~isAccountExpired(x.expiration, now)
    BY <1>3 DEF isAccountExpired
<1>5. validatePassword(y, w, "PLAIN", now) = "AUTHENTICATED"
          <=> /\ ~y.force /\ y.expiration >= now /\ y.mode \notin {"NOTFOUND", "GAUTHTIME"}
              /\ y.hash = Digest(y.mode, w, y.salt)
    BY <1>2, Compared
<1> QED
    BY <1>1, <1>4, <1>5 DEF Lets

\* The invariant lets nobody in with half an account (authenticate).
LEMMA HalfLogins == AInv => NoHalfLogin
<1> SUFFICES ASSUME AInv, NEW acct \in Accounts, NEW i \in AskedIndexes, NEW w \in Passwords,
                    authenticate(acct[1], acct[2], i, w) = "AUTHENTICATED"
             PROVE  \E v \in made.accounts[acct] \cup doing.accounts[acct] : Lets(v, i, w)
    BY DEF NoHalfLogin
<1>1. Tree /\ IsAccount(acct)
    BY DEF AInv, Accounted
<1>2. PICK x, y : /\ Holds(Act(acct), x) /\ Holds(Pass(acct, i), y)
                  /\ x.confirmed /\ x.enabled /\ ~isAccountExpired(x.expiration, now)
                  /\ validatePassword(y, w, "PLAIN", now) = "AUTHENTICATED"
    BY <1>1, Authenticates
<1>3. PICK v \in made.accounts[acct] \cup doing.accounts[acct] : Fits(v, x, i, y)
    BY <1>1, <1>2 DEF IsAccount
<1>4. IsVersion(v)
    BY <1>3 DEF AInv, Promises
<1> QED
    BY <1>2, <1>3, <1>4, FitsLets

\* The invariant makes the logins between two functions right (authenticate).
LEMMA Logins == AInv => LoginsDecideRight
<1> SUFFICES ASSUME AInv, todo = <<>>, NEW acct \in Accounts \ doubt, NEW i \in AskedIndexes, NEW w \in Passwords
             PROVE  authenticate(acct[1], acct[2], i, w) = "AUTHENTICATED"
                        <=> \E v \in made.accounts[acct] : Lets(v, i, w)
    BY DEF LoginsDecideRight
<1>1. Tree /\ doing = made /\ Accounted
    BY DEF AInv, TypeOK
<1>2. AccountRests(acct)
    BY <1>1, AccountsRest
<1>3. authenticate(acct[1], acct[2], i, w) = "AUTHENTICATED"
        <=> \E x, y : /\ Holds(Act(acct), x) /\ Holds(Pass(acct, i), y)
                      /\ x.confirmed /\ x.enabled /\ ~isAccountExpired(x.expiration, now)
                      /\ validatePassword(y, w, "PLAIN", now) = "AUTHENTICATED"
    BY <1>1, Authenticates
<1>4. \A v \in made.accounts[acct] : IsVersion(v)
    BY DEF AInv, Promises
<1>5. ASSUME NEW x, NEW y, Holds(Act(acct), x), Holds(Pass(acct, i), y),
             x.confirmed, x.enabled, ~isAccountExpired(x.expiration, now),
             validatePassword(y, w, "PLAIN", now) = "AUTHENTICATED"
      PROVE  \E v \in made.accounts[acct] : Lets(v, i, w)
  <2>1. PICK v \in made.accounts[acct] : Fits(v, x, i, y)
      BY <1>2, <1>5 DEF AccountRests
  <2> QED
      BY <1>4, <1>5, <2>1, FitsLets
<1>6. ASSUME NEW v \in made.accounts[acct], Lets(v, i, w)
      PROVE  authenticate(acct[1], acct[2], i, w) = "AUTHENTICATED"
  <2>1. i \in DOMAIN v.passwords
      BY <1>6 DEF Lets
  <2>2. Holds(Act(acct), v.activation) /\ Holds(Pass(acct, i), v.passwords[i])
      BY <1>2, <2>1 DEF AccountRests
  <2>3. Fits(v, v.activation, i, v.passwords[i])
      BY <2>1 DEF Fits
  <2>4. /\ v.activation.confirmed /\ v.activation.enabled /\ ~isAccountExpired(v.activation.expiration, now)
        /\ validatePassword(v.passwords[i], w, "PLAIN", now) = "AUTHENTICATED"
      BY <1>4, <1>6, <2>3, FitsLets
  <2> QED
      BY <1>3, <2>2, <2>4
<1> QED
    BY <1>3, <1>5, <1>6

\* The invariant makes the associations exact (validate).
LEMMA Exact == PlainNames /\ AInv /\ Linked => Safe
<1> SUFFICES ASSUME PlainNames, AInv, Linked
             PROVE  Safe
    OBVIOUS
<1>1. TypeOK /\ Tree
    BY DEF AInv
<1>2. ASSUME todo = <<>>, NEW as \in Associations \ doubt
      PROVE  Valid(as) <=> as \in made.links
  <2>1. LinkRests(as)
      BY <1>1, <1>2, LinksRest DEF TypeOK
  <2>2. as \in Ties
      BY AssociationsAreTies
  <2>3. as[1] \in {"attrib-account", "attrib-group", "group-account"}
      BY <2>2, TiesAre
  <2>4. CASE as[1] = "attrib-account"
    <3>1. SideFile(as, 1) = EntryOf(AttribDir(as[2], as[4]), "accounts", as[3])
        BY <2>4 DEF SideFile, Sides
    <3>2. Valid(as) <=> Exists(SideFile(as, 1))
        BY <2>4, <3>1 DEF Valid, accountValidateDirectAttribute
    <3> QED
        BY <2>1, <3>2 DEF LinkRests
  <2>5. CASE as[1] = "attrib-group"
    <3>1. SideFile(as, 1) = EntryOf(AttribDir(as[2], as[4]), "groups", as[3])
        BY <2>5 DEF SideFile, Sides
    <3>2. Valid(as) <=> Exists(SideFile(as, 1))
        BY <2>5, <3>1 DEF Valid, groupValidateAttribute
    <3> QED
        BY <2>1, <3>2 DEF LinkRests
  <2>6. CASE as[1] = "group-account"
    <3>1. /\ SideFile(as, 2) = EntryOf(AccountDir(as[3], as[4]), "groups", as[2])
          /\ SideDir(as, 2) = Entry(AccountDir(as[3], as[4]), "groups")
        BY <2>6 DEF SideFile, SideDir, Sides
    <3>2. as[2] \in GroupNames
        BY <2>6 DEF Associations
    <3>3. Valid(as) <=> as[2] \in Listed(AccountDir(as[3], as[4]), "groups", GroupNames)
        BY <2>6 DEF Valid, accountGroups
    <3>4. GroupNames \subseteq Names
        BY DEF Names
    <3>5. Valid(as) <=> Exists(SideDir(as, 2)) /\ Exists(SideFile(as, 2))
      <4>1. \A n : n \in Listed(AccountDir(as[3], as[4]), "groups", GroupNames)
                 <=> /\ n \in GroupNames /\ Exists(Entry(AccountDir(as[3], as[4]), "groups"))
                     /\ Exists(EntryOf(AccountDir(as[3], as[4]), "groups", n))
          BY <3>4, ListedAre
      <4> QED
          BY <3>1, <3>2, <3>3, <4>1, Zenon
    <3>6. Exists(SideFile(as, 2)) => Exists(SideDir(as, 2))
      <4>1. 2 \in {1, 2}
          OBVIOUS
      <4>2. Len(SideFile(as, 2)) = 5 /\ SideDir(as, 2) = Parent(SideFile(as, 2))
          BY <2>2, <4>1, SideShapes
      <4>3. \A p : p \in DOMAIN fs /\ Len(p) = 5 => Parent(p) \in DOMAIN fs
          BY <1>1 DEF Tree
      <4> QED
          BY <4>2, <4>3 DEF Exists
    <3> QED
        BY <2>1, <2>6, <3>5, <3>6 DEF LinkRests
  <2> QED
      BY <2>3, <2>4, <2>5, <2>6
<1> QED
    BY <1>1, <1>2 DEF Safe, AssociationsExact

\* Whatever the administrator's functions and the crashes, AInv holds.
THEOREM AccountsKept ==
    ASSUME PlainNames
    PROVE  Spec => []AInv
<1>1. Init => AInv
    BY Begins
<1>2. AInv /\ [Next]_vars => AInv'
    BY NextKeeps
<1> QED
    BY <1>1, <1>2, PTL DEF Spec

\* And when attribRemove cannot mistake a domain for an account or a group, Linked with it.
THEOREM AllKept ==
    ASSUME PlainNames, DomainsApart
    PROVE  Spec => []IInv
<1>1. Init => IInv
    BY Begins DEF AInv, IInv
<1>2. IInv /\ [Next]_vars => IInv'
    BY NextKeeps DEF AInv, IInv
<1> QED
    BY <1>1, <1>2, PTL DEF Spec

\* Between two functions a login succeeds exactly when the functions called so far have made an
\* account that lets it in.
THEOREM LoginsAreRight ==
    ASSUME PlainNames
    PROVE  Spec => []LoginsDecideRight
    BY AccountsKept, Logins, PTL

\* In the middle of a function, and after a crash, no half of an account lets anyone in.
THEOREM NoHalfLetsIn ==
    ASSUME PlainNames
    PROVE  Spec => []NoHalfLogin
    BY AccountsKept, HalfLogins, PTL

\* Between two functions the associations are those the functions have made and not ended.
THEOREM Safety ==
    ASSUME PlainNames, DomainsApart
    PROVE  Spec => []Safe
<1>1. IInv => Safe
    BY Exact DEF AInv, IInv
<1> QED
    BY <1>1, AllKept, PTL

=============================================================================
