------------------------------ MODULE AuthFiles ------------------------------
(***************************************************************************)
(* IAuth_FS: accounts, groups and attributes as directories and files.     *)
(*                                                                         *)
(* An association is two small files, one in the directory of each end; a  *)
(* function is several calls of the file system, in order. One thread      *)
(* administers the store (todo holds the calls its function has still to   *)
(* make, which nobody else changes the outcome of); a login looks at the   *)
(* files between any two of these calls, since the writers' lock does not  *)
(* lock. The process may stop between two calls (Crash), and what it has   *)
(* written stays. With two administrators at once the code promises        *)
(* nothing, and neither does this module; a login's reads are taken at one *)
(* instant.                                                                *)
(*                                                                         *)
(* fs maps the paths that exist to what they hold. Names are sequences of  *)
(* bytes, and a path holds them encoded.                                   *)
(***************************************************************************)
EXTENDS AuthRules, SequencesExt

CONSTANTS Domains, AccountNames, GroupNames, AttribNames, \* names
          Passwords, Given,     \* what people type, the passwords they are given
          PassIndexes,          \* indexes passwords are given for
          AskedIndexes,         \* indexes logins ask for
          Expirations,
          UintLimit,            \* dates are cast to unsigned int: modulo UintLimit (2^32)
          SuperuserChoices,     \* the accounts that are added are superusers, or not
          now,                  \* the time, seconds
          MaxCrashes

\* Names are bytes. Passwords are what genPassword makes.
ASSUME FilesAssumption ==
    /\ Domains \cup AccountNames \cup GroupNames \cup AttribNames \subseteq Seq(0 .. 255)
    /\ \A p \in Given : /\ DOMAIN p = {"mode", "hash", "salt", "expiration", "force"}
                        /\ p.mode \in PassModes /\ p.expiration \in Nat /\ p.force \in BOOLEAN
    /\ Expirations \subseteq Nat /\ UintLimit \in Nat \ {0} /\ {now, MaxCrashes} \subseteq Nat

VARIABLES fs, todo,
          made,       \* the accounts and associations the finished functions have made (history)
          doing,      \* made, as it will be once todo is done (history)
          doubt,      \* the associations and accounts that a crash cut a function about (history)
          crashes

vars == <<fs, todo, made, doing, doubt, crashes>>

Accounts == AccountNames \X Domains
Dir == [type |-> "dir"]
Touched == [type |-> "file"]
Truncated == [type |-> "truncated"]
Json(v) == [type |-> "json", value |-> v]

-----------------------------------------------------------------------------
\* toURLEncoded: a byte that is neither a digit nor a letter becomes three. char is signed:
\* the first half of a byte over 127 is negative, and a zero comes out for it.
Alnum == 48 .. 57 \cup 65 .. 90 \cup 97 .. 122

EncodedByte(b) == IF b \in Alnum THEN <<b>>
                  ELSE <<37, IF b < 128 THEN b \div 16 ELSE 0, b % 16>>

Encoded(name) == [i \in DOMAIN name |-> EncodedByte(name[i])]

\* fromURLEncoded
Decoded(file) == [i \in DOMAIN file |-> IF Len(file[i]) = 1 THEN file[i][1]
                                        ELSE 16 * file[i][2] + file[i][3]]

\* The directories of objects, and what they hold
DomainDir(d) == <<Encoded(d)>>
ObjectDir(kind, name, d) == <<Encoded(d), <<kind>>, Encoded(name)>>
AccountDir(a, d) == ObjectDir("accounts", a, d)
GroupDir(g, d) == ObjectDir("groups", g, d)
AttribDir(x, d) == ObjectDir("attribs", x, d)
Entry(dir, what) == Append(dir, <<what>>)
EntryOf(dir, what, name) == Append(Entry(dir, what), Encoded(name))
ActivationFile(a, d) == Entry(AccountDir(a, d), "acct.activation")
PassFile(a, d, i) == Append(AccountDir(a, d), <<"acct.passwd", i>>)

Exists(p) == p \in DOMAIN fs
\* loadJSONFile throws when the file is missing or empty
Loads(p) == Exists(p) /\ fs[p].type = "json"

Under(p) == {q \in DOMAIN fs : IsPrefix(p, q)}

\* _pListDir, over a directory of files
Listed(dir, what, Names) ==
    {Decoded(Encoded(n)) : n \in {m \in Names : Exists(Entry(dir, what)) /\ Exists(EntryOf(dir, what, m))}}

Put(f, key, v) == [k \in DOMAIN f \cup {key} |-> IF k = key THEN v ELSE f[k]]

\* The calls of the file system
mkdir(p) == [call |-> "mkdir", path |-> p]
touch(p) == [call |-> "touch", path |-> p]
removeAll(p) == [call |-> "remove_all", path |-> p]

\* saveJSONFile: opening truncates, the text is there once the file is closed
save(p, v) == [call |-> "open", path |-> p, value |-> v]

\* History: associations, and the versions each account may have: its activation and passwords.
\* There is one version of an account that exists, unless a crash cut a function short.
Nothing == [links |-> {}, accounts |-> [acct \in Accounts |-> {}]]
Without(accts, gone) ==
    [links |-> made.links \ gone,
     accounts |-> [acct \in Accounts |-> IF acct \in accts THEN {} ELSE made.accounts[acct]]]

Init ==
    /\ fs = <<>> /\ todo = <<>>
    /\ made = Nothing /\ doing = Nothing /\ doubt = {}
    /\ crashes = 0

\* A function of the administrator begins: it will make these calls, and then this will be made
Begin(steps, then) ==
    /\ todo' = steps
    /\ doing' = then
    /\ UNCHANGED <<fs, made, doubt, crashes>>

-----------------------------------------------------------------------------
\* An association <<kind, n, m, domain>> and its two sides: a directory, and the name in it
Associations == ({"attrib-account"} \X AttribNames \X AccountNames \X Domains)
           \cup ({"attrib-group"} \X AttribNames \X GroupNames \X Domains)
           \cup ({"group-account"} \X GroupNames \X AccountNames \X Domains)

Sides(as) ==
    LET n == as[2]
        m == as[3]
        d == as[4]
    IN  CASE as[1] = "attrib-account" -> << <<AttribDir(n, d), "accounts", m>>, <<AccountDir(m, d), "attribs", n>> >>
          [] as[1] = "attrib-group"   -> << <<AttribDir(n, d), "groups", m>>, <<GroupDir(m, d), "attribs", n>> >>
          [] as[1] = "group-account"  -> << <<GroupDir(n, d), "accounts", m>>, <<AccountDir(m, d), "groups", n>> >>

SideDir(as, i) == Entry(Sides(as)[i][1], Sides(as)[i][2])
SideFile(as, i) == EntryOf(Sides(as)[i][1], Sides(as)[i][2], Sides(as)[i][3])

BothDirs(as) == Exists(SideDir(as, 1)) /\ Exists(SideDir(as, 2))

Associate(as) ==
    /\ BothDirs(as)
    /\ Begin(<<touch(SideFile(as, 1)), touch(SideFile(as, 2))>>, [made EXCEPT !.links = @ \cup {as}])

\* Some associations are ended, one after the other in the order of a directory. When an
\* association's first file is not there, the second stays.
Ends(S) ==
    LET there == {as \in S : BothDirs(as) /\ Exists(SideFile(as, 1))}
    IN  IF there = {} THEN <<>> ELSE <<[call |-> "dissociate", of |-> there, second |-> {}]>>

Dissociate(as) ==
    /\ Ends({as}) # <<>>
    /\ Begin(Ends({as}), [made EXCEPT !.links = @ \ {as}])

attribAccountAdd(x, a, d) == Associate(<<"attrib-account", x, a, d>>)

attribAccountRemove(x, a, d) == Dissociate(<<"attrib-account", x, a, d>>)

attribGroupAdd(x, g, d) == Associate(<<"attrib-group", x, g, d>>)

attribGroupRemove(x, g, d) == Dissociate(<<"attrib-group", x, g, d>>)

groupAccountAdd(g, a, d) == Associate(<<"group-account", g, a, d>>)

groupAccountRemove(g, a, d) == Dissociate(<<"group-account", g, a, d>>)

-----------------------------------------------------------------------------
domainAdd(d) ==
    /\ ~Exists(DomainDir(d))
    /\ Begin(<<mkdir(DomainDir(d)), mkdir(Entry(DomainDir(d), "accounts")),
               mkdir(Entry(DomainDir(d), "groups")), mkdir(Entry(DomainDir(d), "attribs"))>>, made)

domainRemove(d) ==
    /\ Exists(DomainDir(d))
    /\ Begin(<<removeAll(DomainDir(d))>>, Without(AccountNames \X {d}, {as \in Associations : as[4] = d}))

accountDirectAttribs(a, d) == Listed(AccountDir(a, d), "attribs", AttribNames)

accountGroups(a, d) == Listed(AccountDir(a, d), "groups", GroupNames)

groupAttribs(g, d) == Listed(GroupDir(g, d), "attribs", AttribNames)

groupAccounts(g, d) == Listed(GroupDir(g, d), "accounts", AccountNames)

attribGroups(x, d) == Listed(AttribDir(x, d), "groups", GroupNames)

attribAccounts(x, d) == Listed(AttribDir(x, d), "accounts", AccountNames)

Activation(enabled, confirmed, e) ==
    [enabled |-> enabled, confirmed |-> confirmed, expiration |-> e % UintLimit]

\* getJson of a password
PasswordJson(p) == [p EXCEPT !.expiration = @ % UintLimit]

accountAdd(a, d, p, enabled, confirmed, superuser, e) ==
    LET dir == AccountDir(a, d)
        files == <<mkdir(dir), mkdir(Entry(dir, "attribs")), mkdir(Entry(dir, "groups")),
                   save(ActivationFile(a, d), Activation(enabled, confirmed, e)),
                   save(Entry(dir, "acct.details"), "details"),
                   save(PassFile(a, d, 0), PasswordJson(p))>>
    IN  /\ ~Exists(dir) /\ Exists(Entry(DomainDir(d), "accounts"))
        /\ Begin(IF superuser THEN Append(files, touch(Entry(dir, "superuser"))) ELSE files,
                 [made EXCEPT !.accounts[<<a, d>>] =
                     {[activation |-> Activation(enabled, confirmed, e),
                       passwords |-> [i \in {0} |-> PasswordJson(p)]]}])

\* The associations an account is in
OfAccount(a, d) ==
    {as \in Associations : as[1] \in {"attrib-account", "group-account"} /\ as[3] = a /\ as[4] = d}

MutAccountRemove(a, d) ==  \* the account's directory goes, its name stays in other directories
    /\ Exists(AccountDir(a, d))
    /\ Begin(<<removeAll(AccountDir(a, d))>>, Without({<<a, d>>}, OfAccount(a, d)))

accountRemove(a, d) ==
    /\ Exists(AccountDir(a, d))
    /\ Begin(Ends({<<"attrib-account", x, a, d>> : x \in accountDirectAttribs(a, d)})
               \o Ends({<<"group-account", g, a, d>> : g \in accountGroups(a, d)})
               \o <<removeAll(AccountDir(a, d))>>,
             Without({<<a, d>>}, OfAccount(a, d)))

\* The activation of an account that has one on file, as it was read
activation(a, d) == fs[ActivationFile(a, d)].value

MutChangeActivation(a, d, changed) ==  \* written over without what it held
    /\ Loads(ActivationFile(a, d))
    /\ Begin(<<save(ActivationFile(a, d), [changed EXCEPT !.confirmed = TRUE])>>,
             [made EXCEPT !.accounts[<<a, d>>] = {[v EXCEPT !.activation = changed] : v \in @}])

\* The file of the account's activation, changed and written again
ChangeActivation(a, d, changed) ==
    /\ Loads(ActivationFile(a, d))
    /\ Begin(<<save(ActivationFile(a, d), changed)>>,
             [made EXCEPT !.accounts[<<a, d>>] = {[v EXCEPT !.activation = changed] : v \in @}])

accountDisable(a, d, disabled) ==
    ChangeActivation(a, d, [activation(a, d) EXCEPT !.enabled = ~disabled])

\* With the token on file; with another one nothing is written
accountConfirm(a, d) == ChangeActivation(a, d, [activation(a, d) EXCEPT !.confirmed = TRUE])

accountChangeExpiration(a, d, e) ==
    ChangeActivation(a, d, [activation(a, d) EXCEPT !.expiration = e % UintLimit])

accountChangePassword(a, d, i, p) ==
    /\ Exists(AccountDir(a, d))
    /\ Begin(<<save(PassFile(a, d, i), PasswordJson(p))>>,
             [made EXCEPT !.accounts[<<a, d>>] =
                 {[v EXCEPT !.passwords = Put(@, i, PasswordJson(p))] : v \in @}])

\* accountChangeDescription, accountChangeEmail, accountChangeExtraData
accountChangeDetails(a, d) ==
    /\ Loads(Entry(AccountDir(a, d), "acct.details"))
    /\ Begin(<<save(Entry(AccountDir(a, d), "acct.details"), "details")>>, made)

groupAdd(g, d) ==
    LET dir == GroupDir(g, d) IN
    /\ ~Exists(dir) /\ Exists(Entry(DomainDir(d), "groups"))
    /\ Begin(<<mkdir(dir), mkdir(Entry(dir, "accounts")), mkdir(Entry(dir, "attribs")),
               save(Entry(dir, "group.details"), "details")>>, made)

groupChangeDescription(g, d) ==
    /\ Exists(GroupDir(g, d))
    /\ Begin(<<save(Entry(GroupDir(g, d), "group.details"), "details")>>, made)

groupRemove(g, d) ==
    /\ Exists(GroupDir(g, d))
    /\ Begin(Ends({<<"group-account", g, a, d>> : a \in groupAccounts(g, d)})
               \o Ends({<<"attrib-group", x, g, d>> : x \in groupAttribs(g, d)})
               \o <<removeAll(GroupDir(g, d))>>,
             Without({}, {as \in Associations :
                 /\ as[4] = d
                 /\ \/ as[1] = "group-account" /\ as[2] = g
                    \/ as[1] = "attrib-group" /\ as[3] = g}))

attribAdd(x, d) ==
    LET dir == AttribDir(x, d) IN
    /\ ~Exists(dir) /\ Exists(Entry(DomainDir(d), "attribs"))
    /\ Begin(<<mkdir(dir), mkdir(Entry(dir, "accounts")), mkdir(Entry(dir, "groups")),
               save(Entry(dir, "attribs.details"), "details")>>, made)

attribChangeDescription(x, d) ==
    /\ Exists(AttribDir(x, d))
    /\ Begin(<<save(Entry(AttribDir(x, d), "attribs.details"), "details")>>, made)

\* The removals of associations get the domain in the place of the account or group, and the
\* account or group in the place of the domain
attribRemove(x, d) ==
    /\ Exists(AttribDir(x, d))
    /\ Begin(Ends({<<"attrib-account", x, d, a>> : a \in attribAccounts(x, d)})
               \o Ends({<<"attrib-group", x, d, g>> : g \in attribGroups(x, d)})
               \o <<removeAll(AttribDir(x, d))>>,
             Without({}, {as \in Associations :
                 as[1] \in {"attrib-account", "attrib-group"} /\ as[2] = x /\ as[4] = d}))

-----------------------------------------------------------------------------
\* The next call of the function in progress
Drop(S) == [q \in DOMAIN fs \ S |-> fs[q]]

\* mkdir, a file touched, opened and so truncated, or closed
Creates(s) ==
    /\ s.call \in {"mkdir", "touch", "open", "close"}
    /\ fs' = Put(fs, s.path, CASE s.call = "mkdir" -> Dir
                              [] s.call = "touch" -> Touched
                              [] s.call = "open"  -> Truncated
                              [] s.call = "close" -> Json(s.value))
    /\ todo' = IF s.call = "open" THEN [todo EXCEPT ![1].call = "close"] ELSE Tail(todo)

\* unlink of an association's first file, then of its second if it is there
Dissociates(s) ==
    LET Goes(left) == todo' = IF left.of = {} /\ left.second = {} THEN Tail(todo)
                              ELSE [todo EXCEPT ![1] = left]
    IN  /\ s.call = "dissociate"
        /\ \/ \E p \in s.second : fs' = Drop({p}) /\ Goes([s EXCEPT !.second = {}])
           \/ \E as \in s.of :
                 /\ s.second = {}
                 /\ fs' = Drop({SideFile(as, 1)})
                 /\ Goes([s EXCEPT !.of = @ \ {as}, !.second = {SideFile(as, 2)} \cap DOMAIN fs])

\* remove_all takes the entries of a directory one by one, in the order the directory has them
Removes(s) ==
    /\ s.call = "remove_all"
    /\ LET entries == {SubSeq(q, 1, Len(s.path) + 1) : q \in Under(s.path) \ {s.path}} IN
       \/ entries = {} /\ fs' = Drop({s.path}) /\ todo' = Tail(todo)
       \/ (\E e \in entries : fs' = Drop(Under(e))) /\ UNCHANGED todo

Step ==
    /\ todo # <<>>
    /\ Creates(Head(todo)) \/ Dissociates(Head(todo)) \/ Removes(Head(todo))
    /\ made' = IF todo' = <<>> THEN doing ELSE made
    /\ UNCHANGED <<doing, doubt, crashes>>

\* The function in progress changes the account, or writes its files
About(acct) ==
    \/ made.accounts[acct] # doing.accounts[acct]
    \/ \E k \in DOMAIN todo : /\ todo[k].call \in {"open", "close"}
                             /\ IsPrefix(AccountDir(acct[1], acct[2]), todo[k].path)

Crash ==
    /\ crashes < MaxCrashes
    /\ todo # <<>>
    /\ crashes' = crashes + 1
    /\ todo' = <<>>
    /\ made' = [made EXCEPT !.accounts = [acct \in Accounts |-> @[acct] \cup doing.accounts[acct]]]
    /\ doing' = made'
    /\ doubt' = doubt \cup (made.links \ doing.links) \cup (doing.links \ made.links)
                     \cup {acct \in Accounts : About(acct)}
    /\ UNCHANGED fs

-----------------------------------------------------------------------------
\* accountValidateDirectAttribute and groupValidateAttribute look at the attribute's side
accountValidateDirectAttribute(a, x, d) == Exists(EntryOf(AttribDir(x, d), "accounts", a))

groupValidateAttribute(g, x, d) == Exists(EntryOf(AttribDir(x, d), "groups", g))

\* retrievePassword finds every account that exists, whatever the index
retrievePassword(a, d, i) == fs[PassFile(a, d, i)].value

isAccountConfirmed(a, d) == activation(a, d).confirmed

isAccountDisabled(a, d) == ~activation(a, d).enabled

accountExpirationDate(a, d) == activation(a, d).expiration

MutAuthenticate(a, d, i, password) ==  \* an account without its activation is as good as any
    LET written == Loads(ActivationFile(a, d))
    IN  IF ~Exists(AccountDir(a, d)) \/ ~Loads(PassFile(a, d, i)) THEN "BAD_ACCOUNT"
        ELSE IF written /\ ~isAccountConfirmed(a, d) THEN "UNCONFIRMED_ACCOUNT"
        ELSE IF written /\ isAccountDisabled(a, d) THEN "DISABLED_ACCOUNT"
        ELSE validatePassword(retrievePassword(a, d, i), password, "PLAIN", now)

\* IAuth::authenticate
authenticate(a, d, i, password) ==
    IF ~Exists(AccountDir(a, d)) THEN "BAD_ACCOUNT"
    ELSE IF ~Loads(PassFile(a, d, i)) \/ ~Loads(ActivationFile(a, d)) THEN "THROWN"
    ELSE IF ~isAccountConfirmed(a, d) THEN "UNCONFIRMED_ACCOUNT"
    ELSE IF isAccountDisabled(a, d) THEN "DISABLED_ACCOUNT"
    ELSE IF isAccountExpired(accountExpirationDate(a, d), now) THEN "EXPIRED_ACCOUNT"
    ELSE validatePassword(retrievePassword(a, d, i), password, "PLAIN", now)

Administer ==
    /\ todo = <<>>
    /\ \/ \E d \in Domains : domainAdd(d) \/ domainRemove(d)
       \/ \E a \in AccountNames, d \in Domains :
             \/ \E p \in Given, confirmed \in BOOLEAN, superuser \in SuperuserChoices, e \in Expirations :
                   accountAdd(a, d, p, TRUE, confirmed, superuser, e)
             \/ accountRemove(a, d)
             \/ \E disabled \in BOOLEAN : accountDisable(a, d, disabled)
             \/ accountConfirm(a, d)
             \/ \E e \in Expirations : accountChangeExpiration(a, d, e)
             \/ \E i \in PassIndexes, p \in Given : accountChangePassword(a, d, i, p)
             \/ accountChangeDetails(a, d)
       \/ \E g \in GroupNames, d \in Domains :
             groupAdd(g, d) \/ groupChangeDescription(g, d) \/ groupRemove(g, d)
       \/ \E x \in AttribNames, d \in Domains :
             attribAdd(x, d) \/ attribChangeDescription(x, d) \/ attribRemove(x, d)
       \/ \E d \in Domains :
             \/ \E x \in AttribNames, a \in AccountNames : attribAccountAdd(x, a, d) \/ attribAccountRemove(x, a, d)
             \/ \E x \in AttribNames, g \in GroupNames : attribGroupAdd(x, g, d) \/ attribGroupRemove(x, g, d)
             \/ \E g \in GroupNames, a \in AccountNames : groupAccountAdd(g, a, d) \/ groupAccountRemove(g, a, d)

Next == Administer \/ Step \/ Crash

Spec == Init /\ [][Next]_vars

-----------------------------------------------------------------------------
TypeOK ==
    /\ \A p \in DOMAIN fs : fs[p].type \in {"dir", "file", "truncated", "json"}
    /\ \A m \in {made, doing} : m.links \subseteq Associations
    /\ todo = <<>> => doing = made
    /\ doubt \subseteq Associations \cup Accounts
    /\ crashes \in 0 .. MaxCrashes

Valid(as) ==
    CASE as[1] = "attrib-account" -> accountValidateDirectAttribute(as[3], as[2], as[4])
      [] as[1] = "attrib-group"   -> groupValidateAttribute(as[3], as[2], as[4])
      [] as[1] = "group-account"  -> as[2] \in accountGroups(as[3], as[4])

\* Between two functions an account or a group has an attribute, and an account is in a group,
\* exactly when the function that makes that association was called after the last one that
\* ends it: removals of the association, of either end or of the domain. Nothing is left over
\* for an object created again under the name of a removed one. Associations that a crash cut
\* a function about are not spoken of.
AssociationsExact ==
    todo = <<>> => \A as \in Associations \ doubt : Valid(as) <=> as \in made.links

\* That version of an account lets that password in
Lets(version, i, password) ==
    /\ version.activation.confirmed /\ version.activation.enabled
    /\ version.activation.expiration = 0 \/ version.activation.expiration >= now
    /\ i \in DOMAIN version.passwords
    /\ LET p == version.passwords[i]
       IN  /\ ~p.force /\ p.expiration >= now
           /\ p.mode \notin {"NOTFOUND", "GAUTHTIME"} /\ p.hash = Digest(p.mode, password, p.salt)

\* Between two functions a login succeeds exactly when the functions called so far have made an
\* account, confirmed, enabled and not expired, whose password of that index is the one given,
\* neither expired nor to be changed, and of a kind that can be compared.
LoginsDecideRight ==
    todo = <<>> => \A acct \in Accounts \ doubt, i \in AskedIndexes, w \in Passwords :
        authenticate(acct[1], acct[2], i, w) = "AUTHENTICATED"
            <=> \E v \in made.accounts[acct] : Lets(v, i, w)

\* In the middle of a function, and after one that a crash cut short, a login succeeds only if it
\* does before the function or after it: no half of an account lets anyone in.
NoHalfLogin ==
    \A acct \in Accounts, i \in AskedIndexes, w \in Passwords :
        authenticate(acct[1], acct[2], i, w) = "AUTHENTICATED" =>
            \E v \in made.accounts[acct] \cup doing.accounts[acct] : Lets(v, i, w)

\* The invariants of the module in one: types, and associations that are those made.
Safe == TypeOK /\ AssociationsExact
=============================================================================
