----------------------------- MODULE AuthSqlite -----------------------------
(***************************************************************************)
(* IAuth_SQLite3: accounts, groups and attributes as tables of a database. *)
(*                                                                         *)
(* A statement is atomic. The functions that take more than one are        *)
(* accountAdd, accountConfirm, accountChangePassword and authenticate.     *)
(* Their callers are Threads, whose statements interleave: the writers'    *)
(* Lock_Mutex_RW does not lock, and a reader's lock does not keep them     *)
(* out. call[t] is where the function that t is in stands. The process may *)
(* stop between two statements (Crash); the tables stay.                   *)
(*                                                                         *)
(* A key of the tables is <<name, domain>>, a name a sequence of letters.  *)
(* A statement that fails changes nothing: a function made of one such     *)
(* statement does not step.                                                *)
(***************************************************************************)
EXTENDS AuthRules

CONSTANTS Domains, AccountNames, GroupNames, AttribNames,
          Passwords,     \* what people type
          Given,         \* the passwords they are given, as genPassword makes them
          PassIndexes,   \* indexes of passwords, 0 is the main one
          Tokens,        \* confirmation tokens, random and never drawn twice while in use
          Threads,
          Expirations,   \* expiration dates of accounts, 0 is never
          IntLimit,      \* sqlite3_column_int returns -IntLimit .. IntLimit-1 (2^31)
          MaxNow,        \* the clock stops there
          Never          \* the default expiration of a password, the end of time

ASSUME SqliteAssumption ==
    /\ 0 \in PassIndexes
    /\ Domains # {} /\ Threads # {} /\ Tokens # {}
    /\ \A p \in Given : p.mode \in PassModes /\ p.expiration \in Nat /\ p.force \in BOOLEAN
    /\ Expirations \subseteq Nat /\ IntLimit \in Nat \ {0} /\ MaxNow \in Nat \ {0}
    /\ Never \in Nat /\ Never > MaxNow

VARIABLES domains, attribs, groups, accounts,  \* vauth_v1_domains, _attribs, _groups, _accounts
          activation,                          \* vauth_v1_account_activation, by account
          passwords,                           \* vauth_v1_account_passwords, by <<index, account>>
          groupsAccounts, attribsGroups, attribsAccounts,
          now, call,
          cut,       \* accounts a crash has left a function in the middle of (history)
          calm       \* threads in a login whose account nothing has been written to (history)

tables == <<domains, attribs, groups, accounts, activation, passwords,
            groupsAccounts, attribsGroups, attribsAccounts>>
vars == <<tables, now, call, cut, calm>>

Accounts == AccountNames \X Domains
Groups == GroupNames \X Domains
Attribs == AttribNames \X Domains
Idle == [at |-> "idle"]

\* (type) cast: the low bits of a 64-bit date, as sqlite3_column_int returns them
AsInt(e) == ((e + IntLimit) % (2 * IntLimit)) - IntLimit

Init ==
    /\ domains = {} /\ attribs = {} /\ groups = {} /\ accounts = {}
    /\ activation = <<>> /\ passwords = <<>>
    /\ groupsAccounts = {} /\ attribsGroups = {} /\ attribsAccounts = {}
    /\ now = 1
    /\ call = [t \in Threads |-> Idle]
    /\ cut = {} /\ calm = {}

Put(f, k, v) == [x \in DOMAIN f \cup {k} |-> IF x = k THEN v ELSE f[x]]

Without(f, S) == [x \in DOMAIN f \ S |-> f[x]]

Kept == <<now, call, cut, calm>>

\* A statement writes to rows of the accounts of S
Touch(S) == calm' = {t \in calm : call[t].acct \notin S}

-----------------------------------------------------------------------------
MutDelete(ds, as, gs, xs) ==  \* the passwords do not go with their account
    /\ domains' = domains \ ds /\ accounts' = accounts \ as
    /\ groups' = groups \ gs /\ attribs' = attribs \ xs
    /\ activation' = Without(activation, as)
    /\ groupsAccounts' = {r \in groupsAccounts : r[1] \notin gs /\ r[2] \notin as}
    /\ attribsGroups' = {r \in attribsGroups : r[1] \notin xs /\ r[2] \notin gs}
    /\ attribsAccounts' = {r \in attribsAccounts : r[1] \notin xs /\ r[2] \notin as}
    /\ cut' = cut \ as
    /\ Touch(as)
    /\ UNCHANGED <<now, call, passwords>>

\* DELETE FROM the tables of domains, accounts, groups or attribs, and its cascades
Delete(ds, as, gs, xs) ==
    /\ domains' = domains \ ds
    /\ accounts' = accounts \ as
    /\ groups' = groups \ gs
    /\ attribs' = attribs \ xs
    /\ activation' = Without(activation, as)
    /\ passwords' = Without(passwords, PassIndexes \X as)
    /\ groupsAccounts' = {r \in groupsAccounts : r[1] \notin gs /\ r[2] \notin as}
    /\ attribsGroups' = {r \in attribsGroups : r[1] \notin xs /\ r[2] \notin gs}
    /\ attribsAccounts' = {r \in attribsAccounts : r[1] \notin xs /\ r[2] \notin as}
    /\ cut' = cut \ as
    /\ Touch(as)
    /\ UNCHANGED <<now, call>>

InDomain(S, d) == {k \in S : k[2] = d}

domainAdd(d) ==
    /\ d \notin domains
    /\ domains' = domains \cup {d}
    /\ UNCHANGED <<attribs, groups, accounts, activation, passwords, groupsAccounts,
                   attribsGroups, attribsAccounts, Kept>>

domainRemove(d) ==
    /\ d \in domains
    /\ Delete({d}, InDomain(accounts, d), InDomain(groups, d), InDomain(attribs, d))

accountRemove(a) == a \in accounts /\ Delete({}, {a}, {}, {})

groupRemove(g) == g \in groups /\ Delete({}, {}, {g}, {})

attribRemove(x) == x \in attribs /\ Delete({}, {}, {}, {x})

groupAdd(g) ==
    /\ g \notin groups /\ g[2] \in domains
    /\ groups' = groups \cup {g}
    /\ UNCHANGED <<domains, attribs, accounts, activation, passwords, groupsAccounts,
                   attribsGroups, attribsAccounts, Kept>>

attribAdd(x) ==
    /\ x \notin attribs /\ x[2] \in domains
    /\ attribs' = attribs \cup {x}
    /\ UNCHANGED <<domains, groups, accounts, activation, passwords, groupsAccounts,
                   attribsGroups, attribsAccounts, Kept>>

-----------------------------------------------------------------------------
\* The three relations: both ends of a row are of the one domain of the call

groupAccountAdd(g, a) ==
    /\ g \in groups /\ a \in accounts /\ g[2] = a[2]
    /\ groupsAccounts' = groupsAccounts \cup {<<g, a>>}
    /\ UNCHANGED <<domains, attribs, groups, accounts, activation, passwords,
                   attribsGroups, attribsAccounts, Kept>>

groupAccountRemove(g, a) ==
    /\ groupsAccounts' = groupsAccounts \ {<<g, a>>}
    /\ UNCHANGED <<domains, attribs, groups, accounts, activation, passwords,
                   attribsGroups, attribsAccounts, Kept>>

attribGroupAdd(x, g) ==
    /\ x \in attribs /\ g \in groups /\ x[2] = g[2]
    /\ attribsGroups' = attribsGroups \cup {<<x, g>>}
    /\ UNCHANGED <<domains, attribs, groups, accounts, activation, passwords,
                   groupsAccounts, attribsAccounts, Kept>>

attribGroupRemove(x, g) ==
    /\ attribsGroups' = attribsGroups \ {<<x, g>>}
    /\ UNCHANGED <<domains, attribs, groups, accounts, activation, passwords,
                   groupsAccounts, attribsAccounts, Kept>>

attribAccountAdd(x, a) ==
    /\ x \in attribs /\ a \in accounts /\ x[2] = a[2]
    /\ attribsAccounts' = attribsAccounts \cup {<<x, a>>}
    /\ UNCHANGED <<domains, attribs, groups, accounts, activation, passwords,
                   groupsAccounts, attribsGroups, Kept>>

attribAccountRemove(x, a) ==
    /\ attribsAccounts' = attribsAccounts \ {<<x, a>>}
    /\ UNCHANGED <<domains, attribs, groups, accounts, activation, passwords,
                   groupsAccounts, attribsGroups, Kept>>
-----------------------------------------------------------------------------
\* accountAdd: three statements
accountAdd(t, a, p, enabled, confirmed, e) ==
    /\ call[t] = Idle
    /\ a \notin accounts /\ a[2] \in domains
    /\ accounts' = accounts \cup {a}
    /\ call' = [call EXCEPT ![t] = [at |-> "activation", acct |-> a, pass |-> p,
                    row |-> [enabled |-> enabled, confirmed |-> confirmed, expiration |-> e]]]
    /\ Touch({a})
    /\ UNCHANGED <<domains, attribs, groups, activation, passwords, groupsAccounts,
                   attribsGroups, attribsAccounts, now, cut>>

\* A primary key and a foreign key: the row is inserted or the function ends
accountAddActivation(t) ==
    /\ call[t].at = "activation"
    /\ LET a == call[t].acct IN
       IF a \in accounts /\ a \notin DOMAIN activation
       THEN \E k \in Tokens \ {activation[b].token : b \in DOMAIN activation} :
              /\ activation' = Put(activation, a,
                    [enabled |-> call[t].row.enabled, confirmed |-> call[t].row.confirmed,
                     expiration |-> call[t].row.expiration, token |-> k])
              /\ call' = [call EXCEPT ![t] = [at |-> "password", acct |-> a, index |-> 0,
                                              pass |-> call[t].pass]]
              /\ Touch({a})
       ELSE /\ call' = [call EXCEPT ![t] = Idle]
            /\ UNCHANGED <<activation, calm>>
    /\ UNCHANGED <<domains, attribs, groups, accounts, passwords, groupsAccounts,
                   attribsGroups, attribsAccounts, now, cut>>

MutInsertPassword(t) ==  \* an INSERT that fails takes the row there is with it
    /\ call[t].at = "password"
    /\ LET k == <<call[t].index, call[t].acct>> IN
       /\ passwords' = IF call[t].acct \in accounts /\ k \notin DOMAIN passwords
                       THEN Put(passwords, k, call[t].pass) ELSE Without(passwords, {k})
       /\ Touch({call[t].acct})
    /\ call' = [call EXCEPT ![t] = Idle]
    /\ UNCHANGED <<domains, attribs, groups, accounts, activation, groupsAccounts,
                   attribsGroups, attribsAccounts, now, cut>>

\* The INSERT of accountAdd and of accountChangePassword
insertPassword(t) ==
    /\ call[t].at = "password"
    /\ LET k == <<call[t].index, call[t].acct>> IN
       IF call[t].acct \in accounts /\ k \notin DOMAIN passwords
       THEN passwords' = Put(passwords, k, call[t].pass) /\ Touch({call[t].acct})
       ELSE UNCHANGED <<passwords, calm>>
    /\ call' = [call EXCEPT ![t] = Idle]
    /\ UNCHANGED <<domains, attribs, groups, accounts, activation, groupsAccounts,
                   attribsGroups, attribsAccounts, now, cut>>

\* accountChangePassword: a DELETE, then an INSERT
accountChangePassword(t, a, i, p) ==
    /\ call[t] = Idle
    /\ passwords' = Without(passwords, {<<i, a>>})
    /\ call' = [call EXCEPT ![t] = [at |-> "password", acct |-> a, index |-> i, pass |-> p]]
    /\ Touch({a})
    /\ UNCHANGED <<domains, attribs, groups, accounts, activation, groupsAccounts,
                   attribsGroups, attribsAccounts, now, cut>>

\* The token on file, if there is one
accountConfirmationToken(a) == {activation[b].token : b \in DOMAIN activation \cap {a}}

\* accountConfirm: the token is read, then the account is updated
accountConfirm(t, a, token) ==
    /\ call[t] = Idle
    /\ token \in accountConfirmationToken(a)
    /\ call' = [call EXCEPT ![t] = [at |-> "confirm", acct |-> a]]
    /\ UNCHANGED <<tables, now, cut, calm>>

accountConfirmUpdate(t) ==
    /\ call[t].at = "confirm"
    /\ LET a == call[t].acct IN
       IF a \in DOMAIN activation
       THEN activation' = [activation EXCEPT ![a].confirmed = TRUE] /\ Touch({a})
       ELSE UNCHANGED <<activation, calm>>
    /\ call' = [call EXCEPT ![t] = Idle]
    /\ UNCHANGED <<domains, attribs, groups, accounts, passwords, groupsAccounts,
                   attribsGroups, attribsAccounts, now, cut>>

accountChangeExpiration(a, e) ==
    /\ a \in DOMAIN activation
    /\ activation' = [activation EXCEPT ![a].expiration = e]
    /\ Touch({a})
    /\ UNCHANGED <<domains, attribs, groups, accounts, passwords, groupsAccounts,
                   attribsGroups, attribsAccounts, now, call, cut>>

\* The statement names a column the table does not have: it fails, and nothing is disabled
accountDisable(a) == a \in accounts /\ UNCHANGED vars

-----------------------------------------------------------------------------
\* What the readers' statements return
isAccountConfirmed(a) == a \in DOMAIN activation /\ activation[a].confirmed

isAccountDisabled(a) == a \notin DOMAIN activation \/ ~activation[a].enabled

accountExpirationDate(a) ==
    IF a \in DOMAIN activation THEN AsInt(activation[a].expiration) ELSE Never

accountsList(d) == {k[1] : k \in InDomain(accounts, d)}

groupsList(d) == {k[1] : k \in InDomain(groups, d)}

attribsList(d) == {k[1] : k \in InDomain(attribs, d)}

accountGroups(a) == {g \in Groups : <<g, a>> \in groupsAccounts}

accountDirectAttribs(a) == {x \in Attribs : <<x, a>> \in attribsAccounts}

groupAttribs(g) == {x \in Attribs : <<x, g>> \in attribsGroups}

groupAccounts(g) == {a \in Accounts : <<g, a>> \in groupsAccounts}

attribGroups(x) == {g \in Groups : <<x, g>> \in attribsGroups}

attribAccounts(x) == {a \in Accounts : <<x, a>> \in attribsAccounts}

\* The name that the validating queries bind: as many letters as the attribute's name has. Past
\* the end of the name it is no name at all.
Bound(name, attribName) ==
    IF Len(attribName) <= Len(name) THEN SubSeq(name, 1, Len(attribName)) ELSE <<>>

accountValidateDirectAttribute(a, attribName) ==
    <<<<attribName, a[2]>>, <<Bound(a[1], attribName), a[2]>>>> \in attribsAccounts

groupValidateAttribute(g, attribName, domain) ==
    <<<<attribName, domain>>, <<Bound(g[1], attribName), domain>>>> \in attribsGroups

\* IAuth::authenticate: four queries, each when the one before let it go on
authenticate(t, a, i, password) ==
    /\ call[t] = Idle
    /\ IF <<i, a>> \in DOMAIN passwords
       THEN call' = [call EXCEPT ![t] = [at |-> "confirmed?", acct |-> a, index |-> i,
                                         input |-> password, pass |-> passwords[<<i, a>>]]]
       ELSE call' = [call EXCEPT ![t] = [at |-> "result", acct |-> a, index |-> i,
                                         input |-> password, reason |-> "BAD_ACCOUNT"]]
    /\ calm' = calm \cup {t}
    /\ UNCHANGED <<tables, now, cut>>

Answer(t, reason) ==
    call' = [call EXCEPT ![t] = [at |-> "result", acct |-> @.acct, index |-> @.index,
                                 input |-> @.input, reason |-> reason]]

authenticateNext(t) ==
    /\ LET a == call[t].acct IN
       \/ /\ call[t].at = "confirmed?"
          /\ IF isAccountConfirmed(a) THEN call' = [call EXCEPT ![t].at = "disabled?"]
             ELSE Answer(t, "UNCONFIRMED_ACCOUNT")
       \/ /\ call[t].at = "disabled?"
          /\ IF isAccountDisabled(a) THEN Answer(t, "DISABLED_ACCOUNT")
             ELSE call' = [call EXCEPT ![t].at = "expired?"]
       \/ /\ call[t].at = "expired?"
          /\ Answer(t, IF isAccountExpired(accountExpirationDate(a), now) THEN "EXPIRED_ACCOUNT"
                       ELSE validatePassword(call[t].pass, call[t].input, "PLAIN", now))
    /\ UNCHANGED <<tables, now, cut, calm>>

Return(t) ==
    /\ call[t].at = "result"
    /\ call' = [call EXCEPT ![t] = Idle]
    /\ calm' = calm \ {t}
    /\ UNCHANGED <<tables, now, cut>>
-----------------------------------------------------------------------------
Tick ==
    /\ now < MaxNow
    /\ now' = now + 1
    /\ calm' = {}
    /\ UNCHANGED <<tables, call, cut>>

\* The process stops: its calls are gone, the database stays as the last statement left it
Crash ==
    /\ \E t \in Threads : call[t] # Idle
    /\ call' = [t \in Threads |-> Idle]
    /\ cut' = cut \cup {call[t].acct : t \in {u \in Threads : call[u].at \in {"activation", "password"}}}
    /\ calm' = {}
    /\ UNCHANGED <<tables, now>>

Administer ==
    \/ \E d \in Domains : domainAdd(d) \/ domainRemove(d)
    \/ \E a \in Accounts : accountRemove(a) \/ accountDisable(a)
    \/ \E a \in Accounts, e \in Expirations : accountChangeExpiration(a, e)
    \/ \E g \in Groups : groupAdd(g) \/ groupRemove(g)
    \/ \E x \in Attribs : attribAdd(x) \/ attribRemove(x)
    \/ \E g \in Groups, a \in Accounts : groupAccountAdd(g, a) \/ groupAccountRemove(g, a)
    \/ \E x \in Attribs, g \in Groups : attribGroupAdd(x, g) \/ attribGroupRemove(x, g)
    \/ \E x \in Attribs, a \in Accounts : attribAccountAdd(x, a) \/ attribAccountRemove(x, a)

Call(t) ==
    \/ \E a \in Accounts, p \in Given, confirmed \in BOOLEAN, e \in Expirations :
          accountAdd(t, a, p, TRUE, confirmed, e)
    \/ accountAddActivation(t)
    \/ insertPassword(t)
    \/ \E a \in Accounts, i \in PassIndexes, p \in Given : accountChangePassword(t, a, i, p)
    \/ \E a \in Accounts, k \in Tokens : accountConfirm(t, a, k)
    \/ accountConfirmUpdate(t)
    \/ \E a \in Accounts, i \in PassIndexes, w \in Passwords : authenticate(t, a, i, w)
    \/ authenticateNext(t)
    \/ Return(t)

Next == Administer \/ (\E t \in Threads : Call(t)) \/ Tick \/ Crash

Spec == Init /\ [][Next]_vars

-----------------------------------------------------------------------------
TypeOK ==
    /\ domains \subseteq Domains /\ accounts \subseteq Accounts
    /\ groups \subseteq Groups /\ attribs \subseteq Attribs
    /\ DOMAIN activation \subseteq Accounts
    /\ DOMAIN passwords \subseteq PassIndexes \X Accounts
    /\ groupsAccounts \subseteq Groups \X Accounts
    /\ attribsGroups \subseteq Attribs \X Groups
    /\ attribsAccounts \subseteq Attribs \X Accounts
    /\ now \in 1 .. MaxNow
    /\ calm \subseteq Threads /\ cut \subseteq Accounts

Busy(a) == \E t \in Threads : call[t].at \in {"activation", "password"} /\ call[t].acct = a

\* accountAdd and accountChangePassword take several statements without a transaction or a
\* lock that excludes anybody, and any of them may fail because of another call. Still, once no
\* call is about an account, and unless the process stopped in the middle of one, an account
\* that exists can be logged into: it has its activation and its main password.
AccountsWhole ==
    \A a \in accounts \ cut :
        Busy(a) \/ (a \in DOMAIN activation /\ <<0, a>> \in DOMAIN passwords)

\* A login whose account is left alone meanwhile succeeds exactly when the account is
\* confirmed, enabled, has no expiration date or one that has not come, and its password of
\* that index can be compared, has not expired and does not differ from what was typed. A date
\* is what a 32-bit time_t keeps of it.
LoginsDecideRight ==
    \A t \in calm : call[t].at = "result" =>
        LET a == call[t].acct
            k == <<call[t].index, a>>
        IN  (call[t].reason = "AUTHENTICATED") <=>
              /\ k \in DOMAIN passwords /\ a \in DOMAIN activation
              /\ activation[a].confirmed /\ activation[a].enabled
              /\ activation[a].expiration % (2 * IntLimit) \in {0} \cup now .. IntLimit - 1
              /\ passwords[k].mode \notin {"NOTFOUND", "GAUTHTIME"}
              /\ ~passwords[k].force /\ passwords[k].expiration >= now
              /\ passwords[k].hash = Digest(passwords[k].mode, call[t].input, passwords[k].salt)

\* The objects of a store that the tables hold, what holds what, and what there is by the lists.
StoreObjects ==
    {<<"domain", d>> : d \in Domains} \cup {<<"account", a>> : a \in Accounts}
    \cup {<<"group", g>> : g \in Groups} \cup {<<"attrib", x>> : x \in Attribs}
    \cup {<<"activation", a>> : a \in Accounts} \cup {<<"password", k>> : k \in PassIndexes \X Accounts}

StoreHolder(o) ==
    CASE o[1] = "domain" -> {}
      [] o[1] \in {"account", "group", "attrib"} -> {<<"domain", o[2][2]>>}
      [] o[1] = "activation" -> {<<"account", o[2]>>}
      [] o[1] = "password" -> {<<"account", o[2][2]>>}

StoreLive ==
    {<<"domain", d>> : d \in domains}
    \cup {<<"account", k>> : k \in {o \in Accounts : o[1] \in accountsList(o[2])}}
    \cup {<<"group", k>> : k \in {o \in Groups : o[1] \in groupsList(o[2])}}
    \cup {<<"attrib", k>> : k \in {o \in Attribs : o[1] \in attribsList(o[2])}}
    \cup {<<"activation", a>> : a \in DOMAIN activation}
    \cup {<<"password", k>> : k \in DOMAIN passwords}

StoreLinks ==
    {<< <<"group", r[1]>>, <<"account", r[2]>> >> : r \in groupsAccounts}
    \cup {<< <<"attrib", r[1]>>, <<"group", r[2]>> >> : r \in attribsGroups}
    \cup {<< <<"attrib", r[1]>>, <<"account", r[2]>> >> : r \in attribsAccounts}

Store == INSTANCE AuthStore WITH Objects <- StoreObjects, HolderOf <- StoreHolder,
                                 live <- StoreLive, links <- StoreLinks

\* The tables keep the promise of a store, as the lists of what each domain has show it: nothing
\* refers to what is gone, and what goes takes all it holds with it, in one step (accountRemove,
\* groupRemove, attribRemove, domainRemove).
ImplementsStore == Store!Spec

\* The invariants of the module in one: types, and accounts that are whole.
Safe == TypeOK /\ AccountsWhole
=============================================================================
