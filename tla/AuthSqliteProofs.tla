---------------------------- MODULE AuthSqliteProofs ----------------------------
(***************************************************************************)
(* Proofs about the tables of IAuth_SQLite3 for any domains, names,        *)
(* passwords and callers, whose statements interleave and may be cut off   *)
(* by a crash.                                                             *)
(*                                                                         *)
(* AccountsWhole is not inductive: that somebody is busy with an account   *)
(* does not say that he will write the row that is missing.  Completing    *)
(* names the caller that owes the activation, or the main password.        *)
(* LoginsDecideRight needs what the queries before the last have found     *)
(* (Found), and the refinement that the rows refer to rows (Referring).    *)
(***************************************************************************)
EXTENDS AuthSqlite, TLAPS

\* Where a function that takes several statements stands, and with what.
Rows == [enabled : BOOLEAN, confirmed : BOOLEAN, expiration : Expirations]
Asking == {"confirmed?", "disabled?", "expired?"}
Adding == [at : {"activation"}, acct : Accounts, pass : Given, row : Rows]
Setting == [at : {"password"}, acct : Accounts, index : PassIndexes, pass : Given]
Confirming == [at : {"confirm"}, acct : Accounts]
LoggingIn == [at : Asking, acct : Accounts, index : PassIndexes, input : Passwords, pass : Given]
Answered == [at : {"result"}, acct : Accounts, index : PassIndexes, input : Passwords,
             reason : AuthReasons]
Calls == call \in [Threads -> {Idle} \cup Adding \cup Setting \cup Confirming
                                     \cup LoggingIn \cup Answered]

\* What the rows of an account hold.
Activations == [enabled : BOOLEAN, confirmed : BOOLEAN, expiration : Expirations, token : Tokens]
Contents ==
    /\ \A a \in DOMAIN activation : activation[a] \in Activations
    /\ \A k \in DOMAIN passwords : passwords[k] \in Given

\* No row refers to a row that is not there.
Referring ==
    /\ \A a \in accounts : a[2] \in domains
    /\ \A g \in groups : g[2] \in domains
    /\ \A x \in attribs : x[2] \in domains
    /\ DOMAIN activation \subseteq accounts
    /\ DOMAIN passwords \subseteq PassIndexes \X accounts
    /\ groupsAccounts \subseteq groups \X accounts
    /\ attribsGroups \subseteq attribs \X groups
    /\ attribsAccounts \subseteq attribs \X accounts

\* A row that an account lacks is on its way.
OwesActivation(t, a) == call[t].at = "activation" /\ call[t].acct = a
OwesPassword(t, a) == call[t].at = "password" /\ call[t].acct = a /\ call[t].index = 0
Completing ==
    \A a \in accounts \ cut :
        \/ a \notin DOMAIN activation /\ \E t \in Threads : OwesActivation(t, a)
        \/ /\ a \in DOMAIN activation
           /\ <<0, a>> \in DOMAIN passwords \/ \E t \in Threads : OwesPassword(t, a)

\* What the queries of a login have found is still so.
Key(t) == <<call[t].index, call[t].acct>>
Passes(t) ==
    LET a == call[t].acct
        k == Key(t)
    IN  /\ k \in DOMAIN passwords /\ a \in DOMAIN activation
        /\ activation[a].confirmed /\ activation[a].enabled
        /\ activation[a].expiration % (2 * IntLimit) \in {0} \cup now .. IntLimit - 1
        /\ passwords[k].mode \notin {"NOTFOUND", "GAUTHTIME"}
        /\ ~passwords[k].force /\ passwords[k].expiration >= now
        /\ passwords[k].hash = Digest(passwords[k].mode, call[t].input, passwords[k].salt)
FoundBy(t) ==
    /\ call[t].at \in Asking \cup {"result"}
    /\ call[t].at \in Asking => Key(t) \in DOMAIN passwords /\ passwords[Key(t)] = call[t].pass
    /\ call[t].at \in {"disabled?", "expired?"} => isAccountConfirmed(call[t].acct)
    /\ call[t].at = "expired?" => ~isAccountDisabled(call[t].acct)
    /\ call[t].at = "result" => (call[t].reason = "AUTHENTICATED" <=> Passes(t))
Found == \A t \in calm : FoundBy(t)

IInv == TypeOK /\ Calls /\ Contents /\ Referring /\ Completing /\ Found

\* What a call carries, by where it stands.
LEMMA CallShape ==
    ASSUME Calls, NEW t \in Threads
    PROVE  /\ call[t] = Idle => call[t].at = "idle"
           /\ call[t].at = "activation" => call[t] \in Adding
           /\ call[t].at = "password" => call[t] \in Setting
           /\ call[t].at = "confirm" => call[t] \in Confirming
           /\ call[t].at \in Asking => call[t] \in LoggingIn
           /\ call[t].at = "result" => call[t] \in Answered
           /\ call[t].at \in {"idle", "activation", "password", "confirm", "result"} \cup Asking
<1>1. PICK c : c = call[t]
    OBVIOUS
<1>2. c \in {Idle} \cup Adding \cup Setting \cup Confirming \cup LoggingIn \cup Answered
    BY <1>1 DEF Calls
<1>3. CASE c = Idle
    BY <1>1, <1>3 DEF Idle, Asking
<1>4. CASE c \in Adding
    BY <1>1, <1>4 DEF Adding, Asking, Idle
<1>5. CASE c \in Setting
    BY <1>1, <1>5 DEF Setting, Asking, Idle
<1>6. CASE c \in Confirming
    BY <1>1, <1>6 DEF Confirming, Asking, Idle
<1>7. CASE c \in LoggingIn
    BY <1>1, <1>7 DEF LoggingIn, Asking, Idle
<1>8. CASE c \in Answered
    BY <1>1, <1>8 DEF Answered, Asking, Idle
<1> QED
    BY <1>2, <1>3, <1>4, <1>5, <1>6, <1>7, <1>8

\* The caller of a statement that a function goes on with is in no login.
LEMMA CalmCallsLogIn ==
    ASSUME IInv, NEW t \in Threads, call[t].at \notin Asking \cup {"result"}
    PROVE  t \notin calm
BY DEF IInv, Found, FoundBy

\* A statement that leaves the accounts' rows and every call alone, as those of the
\* relations, the groups and the attributes do.
LEMMA OthersKept ==
    ASSUME IInv, accounts' = accounts, UNCHANGED <<activation, passwords, now, call, cut, calm>>
    PROVE  Calls' /\ Contents' /\ Completing' /\ Found'
<1>1. Calls'
    BY DEF IInv, Calls
<1>2. Contents'
    BY DEF IInv, Contents
<1>3. Completing'
    BY DEF IInv, Completing, OwesActivation, OwesPassword
<1>4. Found'
  <2> SUFFICES ASSUME NEW t \in calm PROVE FoundBy(t)'
    BY DEF Found
  <2>1. FoundBy(t)
    BY DEF IInv, Found
  <2>2. Passes(t)' <=> Passes(t)
    BY DEF Passes, Key
  <2>3. isAccountConfirmed(call[t].acct)' <=> isAccountConfirmed(call[t].acct)
    BY DEF isAccountConfirmed
  <2>4. isAccountDisabled(call[t].acct)' <=> isAccountDisabled(call[t].acct)
    BY DEF isAccountDisabled
  <2> QED
    BY <2>1, <2>2, <2>3, <2>4 DEF FoundBy, Key
<1> QED
    BY <1>1, <1>2, <1>3, <1>4

\* domainAdd
LEMMA DomainAdded == ASSUME IInv, NEW d \in Domains, domainAdd(d) PROVE IInv'
<1>1. Calls' /\ Contents' /\ Completing' /\ Found'
    BY OthersKept DEF domainAdd, Kept
<1>2. TypeOK'
    BY DEF IInv, TypeOK, domainAdd, Kept
<1>3. Referring'
    BY DEF IInv, Referring, domainAdd, Kept
<1> QED
    BY <1>1, <1>2, <1>3 DEF IInv

\* groupAdd
LEMMA GroupAdded == ASSUME IInv, NEW g \in Groups, groupAdd(g) PROVE IInv'
<1>1. Calls' /\ Contents' /\ Completing' /\ Found'
    BY OthersKept DEF groupAdd, Kept
<1>2. TypeOK'
    BY DEF IInv, TypeOK, groupAdd, Kept
<1>3. Referring'
    BY DEF IInv, Referring, groupAdd, Kept
<1> QED
    BY <1>1, <1>2, <1>3 DEF IInv

\* attribAdd
LEMMA AttribAdded == ASSUME IInv, NEW x \in Attribs, attribAdd(x) PROVE IInv'
<1>1. Calls' /\ Contents' /\ Completing' /\ Found'
    BY OthersKept DEF attribAdd, Kept
<1>2. TypeOK'
    BY DEF IInv, TypeOK, attribAdd, Kept
<1>3. Referring'
    BY DEF IInv, Referring, attribAdd, Kept
<1> QED
    BY <1>1, <1>2, <1>3 DEF IInv

\* groupAccountAdd and groupAccountRemove
LEMMA GroupAccountChanged ==
    ASSUME IInv, NEW g \in Groups, NEW a \in Accounts,
           groupAccountAdd(g, a) \/ groupAccountRemove(g, a)
    PROVE  IInv'
<1>1. Calls' /\ Contents' /\ Completing' /\ Found'
    BY OthersKept DEF groupAccountAdd, groupAccountRemove, Kept
<1>2. TypeOK'
    BY DEF IInv, TypeOK, groupAccountAdd, groupAccountRemove, Kept
<1>3. Referring'
    BY DEF IInv, Referring, groupAccountAdd, groupAccountRemove, Kept
<1> QED
    BY <1>1, <1>2, <1>3 DEF IInv

\* attribGroupAdd and attribGroupRemove
LEMMA AttribGroupChanged ==
    ASSUME IInv, NEW x \in Attribs, NEW g \in Groups,
           attribGroupAdd(x, g) \/ attribGroupRemove(x, g)
    PROVE  IInv'
<1>1. Calls' /\ Contents' /\ Completing' /\ Found'
    BY OthersKept DEF attribGroupAdd, attribGroupRemove, Kept
<1>2. TypeOK'
    BY DEF IInv, TypeOK, attribGroupAdd, attribGroupRemove, Kept
<1>3. Referring'
    BY DEF IInv, Referring, attribGroupAdd, attribGroupRemove, Kept
<1> QED
    BY <1>1, <1>2, <1>3 DEF IInv

\* attribAccountAdd and attribAccountRemove
LEMMA AttribAccountChanged ==
    ASSUME IInv, NEW x \in Attribs, NEW a \in Accounts,
           attribAccountAdd(x, a) \/ attribAccountRemove(x, a)
    PROVE  IInv'
<1>1. Calls' /\ Contents' /\ Completing' /\ Found'
    BY OthersKept DEF attribAccountAdd, attribAccountRemove, Kept
<1>2. TypeOK'
    BY DEF IInv, TypeOK, attribAccountAdd, attribAccountRemove, Kept
<1>3. Referring'
    BY DEF IInv, Referring, attribAccountAdd, attribAccountRemove, Kept
<1> QED
    BY <1>1, <1>2, <1>3 DEF IInv

\* A login whose account's rows are left alone keeps what it has found.
LEMMA FoundStays ==
    ASSUME IInv, NEW t \in calm, call'[t] = call[t], now' = now,
           call[t].acct \in DOMAIN activation' <=> call[t].acct \in DOMAIN activation,
           call[t].acct \in DOMAIN activation =>
               activation'[call[t].acct] = activation[call[t].acct],
           Key(t) \in DOMAIN passwords' <=> Key(t) \in DOMAIN passwords,
           Key(t) \in DOMAIN passwords => passwords'[Key(t)] = passwords[Key(t)]
    PROVE  FoundBy(t)'
<1>1. FoundBy(t)
    BY DEF IInv, Found
<1>2. Key(t)' = Key(t)
    BY DEF Key
<1>3. Passes(t)' <=> Passes(t)
    BY <1>2 DEF Passes
<1>4. isAccountConfirmed(call[t].acct)' <=> isAccountConfirmed(call[t].acct)
    BY DEF isAccountConfirmed
<1>5. isAccountDisabled(call[t].acct)' <=> isAccountDisabled(call[t].acct)
    BY DEF isAccountDisabled
<1> QED
    BY <1>1, <1>2, <1>3, <1>4, <1>5 DEF FoundBy

\* accountRemove, groupRemove, attribRemove and domainRemove: what is deleted takes all
\* that refers to it along.
LEMMA Deleted ==
    ASSUME IInv, NEW ds \in SUBSET Domains, NEW as \in SUBSET Accounts,
           NEW gs \in SUBSET Groups, NEW xs \in SUBSET Attribs, Delete(ds, as, gs, xs),
           \A a \in accounts : a[2] \in ds => a \in as,
           \A g \in groups : g[2] \in ds => g \in gs,
           \A x \in attribs : x[2] \in ds => x \in xs
    PROVE  IInv'
<1>1. /\ DOMAIN activation' = DOMAIN activation \ as
      /\ \A a \in DOMAIN activation' : activation'[a] = activation[a]
    BY DEF Delete, Without
<1>2. /\ DOMAIN passwords' = DOMAIN passwords \ (PassIndexes \X as)
      /\ \A k \in DOMAIN passwords' : passwords'[k] = passwords[k]
    BY DEF Delete, Without
<1>3. TypeOK'
  <2>1. /\ domains' \subseteq Domains /\ accounts' \subseteq Accounts
        /\ groups' \subseteq Groups /\ attribs' \subseteq Attribs
        /\ DOMAIN activation' \subseteq Accounts
        /\ DOMAIN passwords' \subseteq PassIndexes \X Accounts
    BY <1>1, <1>2 DEF IInv, TypeOK, Delete
  <2>2. /\ groupsAccounts' \subseteq groupsAccounts /\ attribsGroups' \subseteq attribsGroups
        /\ attribsAccounts' \subseteq attribsAccounts
    BY DEF Delete
  <2>3. now' = now /\ calm' \subseteq calm /\ cut' \subseteq cut
    BY DEF Delete, Touch
  <2> QED
    BY <2>1, <2>2, <2>3 DEF IInv, TypeOK
<1>4. Calls'
    BY DEF IInv, Calls, Delete
<1>5. Contents'
    BY <1>1, <1>2 DEF IInv, Contents
<1>6. Referring'
  <2>1. /\ \A a \in accounts' : a[2] \in domains'
        /\ \A g \in groups' : g[2] \in domains'
        /\ \A x \in attribs' : x[2] \in domains'
    BY DEF IInv, Referring, Delete
  <2>2. DOMAIN activation' \subseteq accounts'
    BY <1>1 DEF IInv, Referring, Delete
  <2>3. DOMAIN passwords' \subseteq PassIndexes \X accounts'
    BY <1>2 DEF IInv, Referring, Delete
  <2>4. groupsAccounts' \subseteq groups' \X accounts'
    BY DEF IInv, Referring, Delete
  <2>5. attribsGroups' \subseteq attribs' \X groups'
    BY DEF IInv, Referring, Delete
  <2>6. attribsAccounts' \subseteq attribs' \X accounts'
    BY DEF IInv, Referring, Delete
  <2> QED
    BY <2>1, <2>2, <2>3, <2>4, <2>5, <2>6 DEF Referring
<1>7. Completing'
  <2> SUFFICES ASSUME NEW a \in accounts' \ cut'
               PROVE  \/ a \notin DOMAIN activation' /\ \E t \in Threads : OwesActivation(t, a)'
                      \/ /\ a \in DOMAIN activation'
                         /\ \/ <<0, a>> \in DOMAIN passwords'
                            \/ \E t \in Threads : OwesPassword(t, a)'
    BY DEF Completing
  <2>1. a \in accounts \ cut /\ a \notin as
    BY DEF Delete
  <2>2. a \in DOMAIN activation' <=> a \in DOMAIN activation
    BY <2>1, <1>1
  <2>3. <<0, a>> \in DOMAIN passwords => <<0, a>> \in DOMAIN passwords'
    BY <2>1, <1>2
  <2>4. \A t \in Threads : /\ OwesActivation(t, a)' <=> OwesActivation(t, a)
                           /\ OwesPassword(t, a)' <=> OwesPassword(t, a)
    BY DEF OwesActivation, OwesPassword, Delete
  <2> QED
    BY <2>1, <2>2, <2>3, <2>4 DEF IInv, Completing
<1>8. Found'
  <2> SUFFICES ASSUME NEW t \in calm' PROVE FoundBy(t)'
    BY DEF Found
  <2>1. t \in calm /\ call[t].acct \notin as
    BY DEF Delete, Touch
  <2>2. call' = call /\ now' = now
    BY DEF Delete
  <2>3. Key(t) \in DOMAIN passwords' <=> Key(t) \in DOMAIN passwords
    BY <2>1, <1>2 DEF Key
  <2> QED
    BY <2>1, <2>2, <2>3, <1>1, <1>2, FoundStays
<1> QED
    BY <1>3, <1>4, <1>5, <1>6, <1>7, <1>8 DEF IInv

\* domainRemove, accountRemove, groupRemove and attribRemove.
LEMMA Removed ==
    ASSUME IInv,
           \/ \E d \in Domains : domainRemove(d)
           \/ \E a \in Accounts : accountRemove(a)
           \/ \E g \in Groups : groupRemove(g)
           \/ \E x \in Attribs : attribRemove(x)
    PROVE  IInv'
<1>1. ASSUME NEW d \in Domains, domainRemove(d) PROVE IInv'
  <2> DEFINE as == InDomain(accounts, d)
             gs == InDomain(groups, d)
             xs == InDomain(attribs, d)
  <2>1. Delete({d}, as, gs, xs)
    BY <1>1 DEF domainRemove
  <2>2. /\ {d} \in SUBSET Domains /\ as \in SUBSET Accounts
        /\ gs \in SUBSET Groups /\ xs \in SUBSET Attribs
    BY DEF InDomain, IInv, TypeOK
  <2>3. /\ \A a \in accounts : a[2] \in {d} => a \in as
        /\ \A g \in groups : g[2] \in {d} => g \in gs
        /\ \A x \in attribs : x[2] \in {d} => x \in xs
    BY DEF InDomain
  <2> HIDE DEF as, gs, xs
  <2> QED
    BY <2>1, <2>2, <2>3, Deleted
<1>2. ASSUME NEW a \in Accounts, accountRemove(a) PROVE IInv'
    BY <1>2, Deleted DEF accountRemove
<1>3. ASSUME NEW g \in Groups, groupRemove(g) PROVE IInv'
    BY <1>3, Deleted DEF groupRemove
<1>4. ASSUME NEW x \in Attribs, attribRemove(x) PROVE IInv'
    BY <1>4, Deleted DEF attribRemove
<1> QED
    BY <1>1, <1>2, <1>3, <1>4

\* A caller enters a function or goes on in it.
LEMMA CallsMove ==
    ASSUME IInv, NEW t \in Threads, NEW c, call' = [call EXCEPT ![t] = c],
           c \in {Idle} \cup Adding \cup Setting \cup Confirming \cup LoggingIn \cup Answered
    PROVE  /\ Calls'
           /\ call'[t] = c
           /\ \A u \in Threads : u # t => call'[u] = call[u]
BY DEF IInv, Calls

\* The rows that t does not owe are owed by whoever owed them.
LEMMA OwedByOthers ==
    ASSUME NEW t \in Threads, \A u \in Threads : u # t => call'[u] = call[u], NEW a
    PROVE  \A u \in Threads : u # t =>
               /\ OwesActivation(u, a)' <=> OwesActivation(u, a)
               /\ OwesPassword(u, a)' <=> OwesPassword(u, a)
BY DEF OwesActivation, OwesPassword

\* Whoever logs in to an account that t does not write to finds what was there.
LEMMA FoundByOthers ==
    ASSUME IInv, NEW t \in Threads, NEW a, t \notin calm, now' = now,
           \A u \in Threads : u # t => call'[u] = call[u],
           calm' \subseteq {u \in calm : call[u].acct # a},
           \A b : b # a =>
               /\ b \in DOMAIN activation' <=> b \in DOMAIN activation
               /\ b \in DOMAIN activation => activation'[b] = activation[b],
           \A i, b : b # a =>
               /\ <<i, b>> \in DOMAIN passwords' <=> <<i, b>> \in DOMAIN passwords
               /\ <<i, b>> \in DOMAIN passwords => passwords'[<<i, b>>] = passwords[<<i, b>>]
    PROVE  Found'
<1> SUFFICES ASSUME NEW u \in calm' PROVE FoundBy(u)'
    BY DEF Found
<1>1. u \in calm /\ call[u].acct # a /\ u \in Threads /\ u # t
    BY DEF IInv, TypeOK
<1>2. call'[u] = call[u]
    BY <1>1
<1>3. /\ Key(u) \in DOMAIN passwords' <=> Key(u) \in DOMAIN passwords
      /\ Key(u) \in DOMAIN passwords => passwords'[Key(u)] = passwords[Key(u)]
    BY <1>1 DEF Key
<1> QED
    BY <1>1, <1>2, <1>3, FoundStays

\* accountAdd: the account is there, its other rows are owed.
LEMMA AccountAdded ==
    ASSUME IInv, NEW t \in Threads, NEW a \in Accounts, NEW p \in Given,
           NEW confirmed \in BOOLEAN, NEW e \in Expirations,
           accountAdd(t, a, p, TRUE, confirmed, e)
    PROVE  IInv'
<1> DEFINE c == [at |-> "activation", acct |-> a, pass |-> p,
                 row |-> [enabled |-> TRUE, confirmed |-> confirmed, expiration |-> e]]
<1>1. c \in Adding /\ c.at = "activation" /\ c.acct = a
    BY DEF Adding, Rows
<1>2. call' = [call EXCEPT ![t] = c]
    BY DEF accountAdd
<1> HIDE DEF c
<1>3. /\ Calls' /\ call'[t] = c /\ \A u \in Threads : u # t => call'[u] = call[u]
    BY <1>1, <1>2, CallsMove
<1>4. call[t].at = "idle" /\ t \notin calm
    BY CallShape, CalmCallsLogIn DEF accountAdd, IInv, Asking
<1>5. TypeOK'
    BY DEF IInv, TypeOK, accountAdd, Touch
<1>6. Contents'
    BY DEF IInv, Contents, accountAdd
<1>7. Referring'
    BY DEF IInv, Referring, accountAdd
<1>8. Completing'
  <2> SUFFICES ASSUME NEW b \in accounts' \ cut'
               PROVE  \/ b \notin DOMAIN activation' /\ \E u \in Threads : OwesActivation(u, b)'
                      \/ /\ b \in DOMAIN activation'
                         /\ \/ <<0, b>> \in DOMAIN passwords'
                            \/ \E u \in Threads : OwesPassword(u, b)'
    BY DEF Completing
  <2>1. UNCHANGED <<activation, passwords, cut>> /\ accounts' = accounts \cup {a}
        /\ a \notin accounts
    BY DEF accountAdd
  <2>2. CASE b = a
    <3>1. a \notin DOMAIN activation'
      BY <2>1 DEF IInv, Referring
    <3>2. OwesActivation(t, a)'
      BY <1>3, <1>1 DEF OwesActivation
    <3> QED
      BY <2>2, <3>1, <3>2
  <2>3. CASE b # a
    <3>1. b \in accounts \ cut
      BY <2>1, <2>3
    <3>2. ~OwesActivation(t, b) /\ ~OwesPassword(t, b)
      BY <1>4 DEF OwesActivation, OwesPassword
    <3> QED
      BY <2>1, <3>1, <3>2, <1>3, OwedByOthers DEF IInv, Completing
  <2> QED
    BY <2>2, <2>3
<1>9. Found'
    BY <1>3, <1>4, FoundByOthers DEF accountAdd, Touch
<1> QED
    BY <1>3, <1>5, <1>6, <1>7, <1>8, <1>9 DEF IInv

\* The second statement of accountAdd.  When it fails, the account has an activation
\* already or is gone: nothing is owed any more.
LEMMA ActivationAdded ==
    ASSUME IInv, NEW t \in Threads, accountAddActivation(t)
    PROVE  IInv'
<1>1. PICK a : a = call[t].acct
    OBVIOUS
<1>2. /\ call[t].at = "activation" /\ a \in Accounts /\ call[t].pass \in Given
      /\ call[t].row \in Rows
    BY <1>1, CallShape DEF accountAddActivation, IInv, Adding
<1>3. t \notin calm
    BY <1>2, CalmCallsLogIn DEF Asking
<1>4. /\ ~OwesPassword(t, a) /\ \A b : b # a => ~OwesActivation(t, b) /\ ~OwesPassword(t, b)
    BY <1>1, <1>2 DEF OwesActivation, OwesPassword
<1>5. CASE a \in accounts /\ a \notin DOMAIN activation
  <2>1. PICK k \in Tokens :
              /\ activation' = Put(activation, a,
                    [enabled |-> call[t].row.enabled, confirmed |-> call[t].row.confirmed,
                     expiration |-> call[t].row.expiration, token |-> k])
              /\ call' = [call EXCEPT ![t] = [at |-> "password", acct |-> a, index |-> 0,
                                              pass |-> call[t].pass]]
              /\ Touch({a})
    BY <1>1, <1>5 DEF accountAddActivation
  <2> DEFINE c == [at |-> "password", acct |-> a, index |-> 0, pass |-> call[t].pass]
             r == [enabled |-> call[t].row.enabled, confirmed |-> call[t].row.confirmed,
                   expiration |-> call[t].row.expiration, token |-> k]
  <2>2. c \in Setting /\ c.at = "password" /\ c.acct = a /\ c.index = 0
    BY <1>2, SqliteAssumption DEF Setting
  <2>3. r \in Activations
    BY <1>2 DEF Rows, Activations
  <2>4. call' = [call EXCEPT ![t] = c] /\ activation' = Put(activation, a, r)
    BY <2>1
  <2> HIDE DEF c, r
  <2>5. /\ Calls' /\ call'[t] = c /\ \A u \in Threads : u # t => call'[u] = call[u]
    BY <2>2, <2>4, CallsMove
  <2>6. /\ DOMAIN activation' = DOMAIN activation \cup {a} /\ activation'[a] = r
        /\ \A x \in DOMAIN activation : x # a => activation'[x] = activation[x]
    BY <2>4 DEF Put
  <2>7. UNCHANGED <<domains, attribs, groups, accounts, passwords, groupsAccounts,
                    attribsGroups, attribsAccounts, now, cut>>
    BY DEF accountAddActivation
  <2>8. calm' \subseteq {u \in calm : call[u].acct # a}
    BY <2>1 DEF Touch
  <2>9. TypeOK'
    BY <1>2, <2>6, <2>7, <2>8 DEF IInv, TypeOK
  <2>10. Contents'
    BY <2>3, <2>6, <2>7 DEF IInv, Contents
  <2>11. Referring'
    BY <1>5, <2>6, <2>7 DEF IInv, Referring
  <2>12. Completing'
    <3> SUFFICES ASSUME NEW b \in accounts \ cut
                 PROVE  \/ b \notin DOMAIN activation' /\ \E u \in Threads : OwesActivation(u, b)'
                        \/ /\ b \in DOMAIN activation'
                           /\ \/ <<0, b>> \in DOMAIN passwords'
                              \/ \E u \in Threads : OwesPassword(u, b)'
      BY <2>7 DEF Completing
    <3>1. CASE b = a
      BY <3>1, <2>2, <2>5, <2>6 DEF OwesPassword
    <3>2. CASE b # a
      BY <3>2, <2>5, <2>6, <2>7, <1>4, OwedByOthers DEF IInv, Completing
    <3> QED
      BY <3>1, <3>2
  <2>13. Found'
    BY <1>3, <2>5, <2>6, <2>7, <2>8, FoundByOthers
  <2> QED
    BY <2>5, <2>9, <2>10, <2>11, <2>12, <2>13 DEF IInv
<1>6. CASE ~(a \in accounts /\ a \notin DOMAIN activation)
  <2>1. call' = [call EXCEPT ![t] = Idle] /\ UNCHANGED <<activation, calm>>
    BY <1>1, <1>6 DEF accountAddActivation
  <2>2. UNCHANGED <<domains, attribs, groups, accounts, passwords, groupsAccounts,
                    attribsGroups, attribsAccounts, now, cut>>
    BY DEF accountAddActivation
  <2>3. /\ Calls' /\ \A u \in Threads : u # t => call'[u] = call[u]
    BY <2>1, CallsMove
  <2>4. TypeOK' /\ Contents' /\ Referring'
    BY <2>1, <2>2 DEF IInv, TypeOK, Contents, Referring
  <2>5. Completing'
    <3> SUFFICES ASSUME NEW b \in accounts \ cut
                 PROVE  \/ b \notin DOMAIN activation /\ \E u \in Threads : OwesActivation(u, b)'
                        \/ /\ b \in DOMAIN activation
                           /\ \/ <<0, b>> \in DOMAIN passwords
                              \/ \E u \in Threads : OwesPassword(u, b)'
      BY <2>1, <2>2 DEF Completing
    <3>1. CASE b = a
      BY <3>1, <1>6, <1>4, <2>3, OwedByOthers DEF IInv, Completing
    <3>2. CASE b # a
      BY <3>2, <1>4, <2>3, OwedByOthers DEF IInv, Completing
    <3> QED
      BY <3>1, <3>2
  <2>6. Found'
    <3> SUFFICES ASSUME NEW u \in calm PROVE FoundBy(u)'
      BY <2>1 DEF Found
    <3>1. call'[u] = call[u]
      BY <1>3, <2>3 DEF IInv, TypeOK
    <3> QED
      BY <3>1, <2>1, <2>2, FoundStays
  <2> QED
    BY <2>3, <2>4, <2>5, <2>6 DEF IInv
<1> QED
    BY <1>5, <1>6

\* The last statement of accountAdd and of accountChangePassword.  When it fails, the
\* account has a password of that index already or is gone.
LEMMA PasswordInserted ==
    ASSUME IInv, NEW t \in Threads, insertPassword(t)
    PROVE  IInv'
<1>1. PICK a : a = call[t].acct
    OBVIOUS
<1>2. PICK i : i = call[t].index
    OBVIOUS
<1>3. /\ call[t].at = "password" /\ a \in Accounts /\ i \in PassIndexes /\ call[t].pass \in Given
    BY <1>1, <1>2, CallShape DEF insertPassword, IInv, Setting
<1>4. t \notin calm
    BY <1>3, CalmCallsLogIn DEF Asking
<1>5. call' = [call EXCEPT ![t] = Idle]
    BY DEF insertPassword
<1>6. /\ Calls' /\ \A u \in Threads : u # t => call'[u] = call[u]
    BY <1>5, CallsMove
<1>7. UNCHANGED <<domains, attribs, groups, accounts, activation, groupsAccounts,
                  attribsGroups, attribsAccounts, now, cut>>
    BY DEF insertPassword
<1>8. \A b : ~OwesActivation(t, b) /\ (OwesPassword(t, b) => b = a /\ i = 0)
    BY <1>1, <1>2, <1>3 DEF OwesActivation, OwesPassword
<1>9. /\ \A k \in DOMAIN passwords : k \in DOMAIN passwords' /\ passwords'[k] = passwords[k]
      /\ \A k \in DOMAIN passwords' : k \in DOMAIN passwords \/ k = <<i, a>>
      /\ \A k \in DOMAIN passwords' : passwords'[k] \in Given
      /\ <<i, a>> \in DOMAIN passwords' => a \in accounts
      /\ a \in accounts => <<i, a>> \in DOMAIN passwords'
      /\ calm' \subseteq calm
      /\ \/ UNCHANGED <<passwords, calm>>
         \/ calm' \subseteq {u \in calm : call[u].acct # a}
  <2>1. CASE a \in accounts /\ <<i, a>> \notin DOMAIN passwords
    <3>1. passwords' = Put(passwords, <<i, a>>, call[t].pass) /\ Touch({a})
      BY <1>1, <1>2, <2>1 DEF insertPassword
    <3>2. PICK v : v = call[t].pass
      OBVIOUS
    <3>3. /\ DOMAIN passwords' = DOMAIN passwords \cup {<<i, a>>}
          /\ passwords'[<<i, a>>] = v
          /\ \A x \in DOMAIN passwords : x # <<i, a>> => passwords'[x] = passwords[x]
      BY <3>1, <3>2 DEF Put
    <3>4. calm' \subseteq {u \in calm : call[u].acct # a}
      BY <3>1 DEF Touch
    <3> QED
      BY <1>3, <2>1, <3>1, <3>2, <3>3, <3>4 DEF IInv, Contents
  <2>2. CASE ~(a \in accounts /\ <<i, a>> \notin DOMAIN passwords)
    <3>1. UNCHANGED <<passwords, calm>>
      BY <1>1, <1>2, <2>2 DEF insertPassword
    <3> QED
      BY <2>2, <3>1 DEF IInv, Contents, Referring
  <2> QED
    BY <2>1, <2>2
<1>10. TypeOK'
    BY <1>3, <1>7, <1>9 DEF IInv, TypeOK
<1>11. Contents'
    BY <1>7, <1>9 DEF IInv, Contents
<1>12. Referring'
    BY <1>3, <1>7, <1>9 DEF IInv, Referring
<1>13. Completing'
  <2> SUFFICES ASSUME NEW b \in accounts \ cut
               PROVE  \/ b \notin DOMAIN activation /\ \E u \in Threads : OwesActivation(u, b)'
                      \/ /\ b \in DOMAIN activation
                         /\ \/ <<0, b>> \in DOMAIN passwords'
                            \/ \E u \in Threads : OwesPassword(u, b)'
    BY <1>7 DEF Completing
  <2>1. CASE b \notin DOMAIN activation
    BY <2>1, <1>6, <1>8, OwedByOthers DEF IInv, Completing
  <2>2. CASE b \in DOMAIN activation /\ <<0, b>> \in DOMAIN passwords
    BY <2>2, <1>9
  <2>3. CASE b \in DOMAIN activation /\ <<0, b>> \notin DOMAIN passwords
    <3>1. PICK u \in Threads : OwesPassword(u, b)
      BY <2>3 DEF IInv, Completing
    <3>2. CASE u = t
      BY <3>1, <3>2, <1>8, <1>9, <2>3
    <3>3. CASE u # t
      BY <3>1, <3>3, <2>3, <1>6, OwedByOthers
    <3> QED
      BY <3>2, <3>3
  <2> QED
    BY <2>1, <2>2, <2>3
<1>14. Found'
  <2>1. CASE UNCHANGED <<passwords, calm>>
    <3> SUFFICES ASSUME NEW u \in calm PROVE FoundBy(u)'
      BY <2>1 DEF Found
    <3>1. call'[u] = call[u]
      BY <1>4, <1>6 DEF IInv, TypeOK
    <3> QED
      BY <3>1, <2>1, <1>7, FoundStays
  <2>2. CASE calm' \subseteq {u \in calm : call[u].acct # a}
    <3>1. \A j, b : b # a =>
             /\ <<j, b>> \in DOMAIN passwords' <=> <<j, b>> \in DOMAIN passwords
             /\ <<j, b>> \in DOMAIN passwords => passwords'[<<j, b>>] = passwords[<<j, b>>]
      BY <1>9
    <3> QED
      BY <2>2, <3>1, <1>4, <1>6, <1>7, FoundByOthers
  <2> QED
    BY <2>1, <2>2, <1>9
<1> QED
    BY <1>6, <1>10, <1>11, <1>12, <1>13, <1>14 DEF IInv

\* The first statement of accountChangePassword: the password that goes is owed.
LEMMA PasswordDeleted ==
    ASSUME IInv, NEW t \in Threads, NEW a \in Accounts, NEW i \in PassIndexes, NEW p \in Given,
           accountChangePassword(t, a, i, p)
    PROVE  IInv'
<1> DEFINE c == [at |-> "password", acct |-> a, index |-> i, pass |-> p]
<1>1. c \in Setting /\ c.at = "password" /\ c.acct = a /\ c.index = i
    BY DEF Setting
<1>2. call' = [call EXCEPT ![t] = c]
    BY DEF accountChangePassword
<1> HIDE DEF c
<1>3. /\ Calls' /\ call'[t] = c /\ \A u \in Threads : u # t => call'[u] = call[u]
    BY <1>1, <1>2, CallsMove
<1>4. call[t].at = "idle" /\ t \notin calm
    BY CallShape, CalmCallsLogIn DEF accountChangePassword, IInv, Asking
<1>5. UNCHANGED <<domains, attribs, groups, accounts, activation, groupsAccounts,
                  attribsGroups, attribsAccounts, now, cut>>
    BY DEF accountChangePassword
<1>6. /\ DOMAIN passwords' = DOMAIN passwords \ {<<i, a>>}
      /\ \A k \in DOMAIN passwords' : passwords'[k] = passwords[k]
    BY DEF accountChangePassword, Without
<1>7. calm' \subseteq {u \in calm : call[u].acct # a}
    BY DEF accountChangePassword, Touch
<1>8. TypeOK' /\ Contents' /\ Referring'
  <2>1. TypeOK'
    BY <1>5, <1>6, <1>7 DEF IInv, TypeOK
  <2>2. Contents'
    BY <1>5, <1>6 DEF IInv, Contents
  <2>3. Referring'
    BY <1>5, <1>6 DEF IInv, Referring
  <2> QED
    BY <2>1, <2>2, <2>3
<1>9. Completing'
  <2> SUFFICES ASSUME NEW b \in accounts \ cut
               PROVE  \/ b \notin DOMAIN activation /\ \E u \in Threads : OwesActivation(u, b)'
                      \/ /\ b \in DOMAIN activation
                         /\ \/ <<0, b>> \in DOMAIN passwords'
                            \/ \E u \in Threads : OwesPassword(u, b)'
    BY <1>5 DEF Completing
  <2>1. ~OwesActivation(t, b) /\ ~OwesPassword(t, b)
    BY <1>4 DEF OwesActivation, OwesPassword
  <2>2. CASE <<0, b>> = <<i, a>>
    <3>1. OwesPassword(t, b)'
      BY <1>1, <1>3, <2>2 DEF OwesPassword
    <3> QED
      BY <3>1, <2>1, <1>3, OwedByOthers DEF IInv, Completing
  <2>3. CASE <<0, b>> # <<i, a>>
    BY <2>1, <2>3, <1>3, <1>6, OwedByOthers DEF IInv, Completing
  <2> QED
    BY <2>2, <2>3
<1>10. Found'
  <2>1. \A j, b : b # a =>
           /\ <<j, b>> \in DOMAIN passwords' <=> <<j, b>> \in DOMAIN passwords
           /\ <<j, b>> \in DOMAIN passwords => passwords'[<<j, b>>] = passwords[<<j, b>>]
    BY <1>6
  <2> QED
    BY <2>1, <1>3, <1>4, <1>5, <1>7, FoundByOthers
<1> QED
    BY <1>3, <1>8, <1>9, <1>10 DEF IInv

\* accountConfirm enters the function.
LEMMA ConfirmationBegun ==
    ASSUME IInv, NEW t \in Threads, NEW a \in Accounts, NEW k, accountConfirm(t, a, k)
    PROVE  IInv'
<1> DEFINE c == [at |-> "confirm", acct |-> a]
<1>1. c \in Confirming
    BY DEF Confirming
<1>2. call' = [call EXCEPT ![t] = c]
    BY DEF accountConfirm
<1> HIDE DEF c
<1>3. /\ Calls' /\ \A u \in Threads : u # t => call'[u] = call[u]
    BY <1>1, <1>2, CallsMove
<1>4. call[t].at = "idle" /\ t \notin calm
    BY CallShape, CalmCallsLogIn DEF accountConfirm, IInv, Asking
<1>5. UNCHANGED <<domains, attribs, groups, accounts, activation, passwords, groupsAccounts,
                  attribsGroups, attribsAccounts, now, cut, calm>>
    BY DEF accountConfirm, tables
<1>6. TypeOK' /\ Contents' /\ Referring'
    BY <1>5 DEF IInv, TypeOK, Contents, Referring
<1>7. Completing'
  <2>1. \A b : ~OwesActivation(t, b) /\ ~OwesPassword(t, b)
    BY <1>4 DEF OwesActivation, OwesPassword
  <2> QED
    BY <2>1, <1>3, <1>5, OwedByOthers DEF IInv, Completing
<1>8. Found'
  <2> SUFFICES ASSUME NEW u \in calm PROVE FoundBy(u)'
    BY <1>5 DEF Found
  <2>1. call'[u] = call[u]
    BY <1>3, <1>4 DEF IInv, TypeOK
  <2> QED
    BY <2>1, <1>5, FoundStays
<1> QED
    BY <1>3, <1>6, <1>7, <1>8 DEF IInv

\* A statement that changes what the activation of an account says.
LEMMA ActivationChanged ==
    ASSUME IInv, NEW a \in DOMAIN activation, NEW r, activation' = [activation EXCEPT ![a] = r],
           r \in Activations,
           calm' = {u \in calm : call[u].acct # a},
           UNCHANGED <<domains, attribs, groups, accounts, passwords, groupsAccounts,
                       attribsGroups, attribsAccounts, now, cut>>
    PROVE  /\ TypeOK' /\ Contents' /\ Referring' /\ DOMAIN activation' = DOMAIN activation
           /\ \A u \in calm' : call'[u] = call[u] => FoundBy(u)'
<1>1. /\ DOMAIN activation' = DOMAIN activation
      /\ \A b \in DOMAIN activation : activation'[b] = (IF b = a THEN r ELSE activation[b])
    OBVIOUS
<1>2. TypeOK'
    BY <1>1 DEF IInv, TypeOK
<1>3. Contents'
    BY <1>1 DEF IInv, Contents
<1>4. Referring'
    BY <1>1 DEF IInv, Referring
<1>5. ASSUME NEW u \in calm', call'[u] = call[u] PROVE FoundBy(u)'
  <2>1. u \in calm /\ call[u].acct # a
    OBVIOUS
  <2> QED
    BY <2>1, <1>1, <1>5, FoundStays DEF Key
<1> QED
    BY <1>1, <1>2, <1>3, <1>4, <1>5

\* accountConfirm's UPDATE.
LEMMA ConfirmationStored ==
    ASSUME IInv, NEW t \in Threads, accountConfirmUpdate(t)
    PROVE  IInv'
<1>1. PICK a : a = call[t].acct
    OBVIOUS
<1>2. call[t].at = "confirm" /\ t \notin calm
    BY CalmCallsLogIn DEF accountConfirmUpdate, Asking
<1>3. call' = [call EXCEPT ![t] = Idle]
    BY DEF accountConfirmUpdate
<1>4. /\ Calls' /\ \A u \in Threads : u # t => call'[u] = call[u]
    BY <1>3, CallsMove
<1>5. UNCHANGED <<domains, attribs, groups, accounts, passwords, groupsAccounts,
                  attribsGroups, attribsAccounts, now, cut>>
    BY DEF accountConfirmUpdate
<1>6. \A u \in calm : call'[u] = call[u]
    BY <1>2, <1>4 DEF IInv, TypeOK
<1>7. /\ TypeOK' /\ Contents' /\ Referring' /\ Found'
      /\ DOMAIN activation' = DOMAIN activation
  <2>1. CASE a \in DOMAIN activation
    <3> DEFINE r == [activation[a] EXCEPT !.confirmed = TRUE]
    <3>1. activation' = [activation EXCEPT ![a] = r]
      BY <1>1, <2>1 DEF accountConfirmUpdate
    <3>3. r \in Activations
      BY <2>1 DEF IInv, Contents, Activations
    <3>4. calm' = {u \in calm : call[u].acct # a}
      BY <1>1, <2>1 DEF accountConfirmUpdate, Touch
    <3> HIDE DEF r
    <3>5. /\ TypeOK' /\ Contents' /\ Referring' /\ DOMAIN activation' = DOMAIN activation
          /\ \A u \in calm' : call'[u] = call[u] => FoundBy(u)'
      BY <1>5, <2>1, <3>1, <3>3, <3>4, ActivationChanged
    <3> QED
      BY <1>6, <3>4, <3>5 DEF Found
  <2>2. CASE a \notin DOMAIN activation
    <3>1. UNCHANGED <<activation, calm>>
      BY <1>1, <2>2 DEF accountConfirmUpdate
    <3>2. TypeOK' /\ Contents' /\ Referring'
      BY <1>5, <3>1 DEF IInv, TypeOK, Contents, Referring
    <3>3. \A u \in calm : FoundBy(u)'
      BY <1>5, <1>6, <3>1, FoundStays
    <3> QED
      BY <3>1, <3>2, <3>3 DEF Found
  <2> QED
    BY <2>1, <2>2
<1>8. Completing'
  <2>1. \A b : ~OwesActivation(t, b) /\ ~OwesPassword(t, b)
    BY <1>2 DEF OwesActivation, OwesPassword
  <2> QED
    BY <2>1, <1>4, <1>5, <1>7, OwedByOthers DEF IInv, Completing
<1> QED
    BY <1>4, <1>7, <1>8 DEF IInv

\* accountChangeExpiration
LEMMA ExpirationChanged ==
    ASSUME IInv, NEW a \in Accounts, NEW e \in Expirations, accountChangeExpiration(a, e)
    PROVE  IInv'
<1> DEFINE r == [activation[a] EXCEPT !.expiration = e]
<1>1. a \in DOMAIN activation /\ activation' = [activation EXCEPT ![a] = r]
    BY DEF accountChangeExpiration
<1>2. UNCHANGED <<domains, attribs, groups, accounts, passwords, groupsAccounts,
                  attribsGroups, attribsAccounts, now, call, cut>>
    BY DEF accountChangeExpiration
<1>3. calm' = {u \in calm : call[u].acct # a}
    BY DEF accountChangeExpiration, Touch
<1>4. r \in Activations
    BY <1>1 DEF IInv, Contents, Activations
<1> HIDE DEF r
<1>5. /\ TypeOK' /\ Contents' /\ Referring' /\ DOMAIN activation' = DOMAIN activation
      /\ \A u \in calm' : call'[u] = call[u] => FoundBy(u)'
    BY <1>1, <1>2, <1>3, <1>4, ActivationChanged
<1>6. Calls'
    BY <1>2 DEF IInv, Calls
<1>7. Completing'
    BY <1>2, <1>5 DEF IInv, Completing, OwesActivation, OwesPassword
<1>8. Found'
    BY <1>2, <1>5 DEF Found
<1> QED
    BY <1>5, <1>6, <1>7, <1>8 DEF IInv

\* A number has one remainder.
LEMMA OneRemainder ==
    ASSUME NEW m \in Nat \ {0}, NEW a \in Int, NEW b \in Int,
           NEW r \in 0 .. (m - 1), NEW s \in 0 .. (m - 1), a * m + r = b * m + s
    PROVE  r = s
<1>1. \A c \in Int : /\ c * m \in Int
                     /\ (c >= 1 => c * m >= m) /\ (c <= -1 => c * m <= -m)
                     /\ (c = 0 => c * m = 0)
    OBVIOUS
<1>2. (a - b) * m = a * m - b * m
    OBVIOUS
<1> DEFINE c == a - b
<1>3. c \in Int /\ c * m = s - r
    BY <1>2
<1> HIDE DEF c
<1>4. c * m > -m /\ c * m < m
    BY <1>3
<1>5. c = 0
    BY <1>3, <1>4, <1>1
<1> QED
    BY <1>5, <1>3, <1>1

\* sqlite3_column_int: the low bits of a date, read as a signed number.
LEMMA AsIntReads ==
    ASSUME NEW e \in Nat, NEW low, low = e % (2 * IntLimit)
    PROVE  /\ low \in Nat /\ low < 2 * IntLimit
           /\ low < IntLimit => AsInt(e) = low
           /\ low >= IntLimit => AsInt(e) = low - 2 * IntLimit
<1> DEFINE M == 2 * IntLimit
<1>1. M \in Nat \ {0} /\ 2 * IntLimit = M /\ M = IntLimit + IntLimit /\ IntLimit \in Nat \ {0}
    BY SqliteAssumption
<1> HIDE DEF M
<1> DEFINE q == e \div M
           p == (e + IntLimit) \div M
           y == (e + IntLimit) % M
<1>2. low \in 0 .. (M - 1) /\ y \in 0 .. (M - 1)
    BY <1>1
<1>3. e = q * M + low /\ q \in Int
    BY <1>1
<1>4. e + IntLimit = p * M + y /\ p \in Int
  <2>1. PICK x \in Nat : x = e + IntLimit
    BY <1>1
  <2>2. x = (x \div M) * M + (x % M) /\ x \div M \in Int
    BY <1>1
  <2> QED
    BY <2>1, <2>2
<1>5. AsInt(e) = y - IntLimit
    BY <1>1 DEF AsInt
<1> HIDE DEF q, p, y
<1>6. CASE low < IntLimit
  <2>1. low + IntLimit \in 0 .. (M - 1)
    BY <1>1, <1>2, <1>6
  <2>2. q * M \in Int /\ p * M \in Int
    BY <1>1, <1>3, <1>4
  <2>3. p * M + y = q * M + (low + IntLimit)
    BY <1>1, <1>2, <1>3, <1>4, <2>2
  <2>4. y = low + IntLimit
    BY <2>1, <2>3, <1>1, <1>2, <1>3, <1>4, OneRemainder
  <2> QED
    BY <2>4, <1>1, <1>2, <1>5, <1>6
<1>7. CASE low >= IntLimit
  <2> DEFINE b == q + 1
  <2>1. b \in Int /\ b * M = q * M + M
    BY <1>1, <1>3
  <2>2. q * M \in Int /\ p * M \in Int /\ b * M \in Int
    BY <1>1, <1>3, <1>4, <2>1
  <2> HIDE DEF b
  <2>3. low - IntLimit \in 0 .. (M - 1)
    BY <1>1, <1>2, <1>7
  <2>4. p * M + y = b * M + (low - IntLimit)
    <3>1. PICK u \in Int : u = q * M
      BY <2>2
    <3>2. PICK v \in Int : v = p * M
      BY <2>2
    <3>3. e = u + low /\ e + IntLimit = v + y
      BY <1>3, <1>4, <3>1, <3>2
    <3>4. v + y = (u + M) + (low - IntLimit)
      BY <3>3, <1>1, <1>2
    <3> QED
      BY <3>1, <3>2, <3>4, <2>1
  <2>5. y = low - IntLimit
    BY <2>1, <2>3, <2>4, <1>1, <1>2, <1>4, OneRemainder
  <2> QED
    BY <2>5, <1>1, <1>2, <1>5, <1>7
<1> QED
    BY <1>1, <1>2, <1>6, <1>7

\* When an account has not expired.
LEMMA DateStands ==
    ASSUME NEW e \in Nat, NEW n \in Nat \ {0}
    PROVE  ~isAccountExpired(AsInt(e), n) <=> e % (2 * IntLimit) \in {0} \cup n .. IntLimit - 1
<1>1. PICK low : low = e % (2 * IntLimit)
    OBVIOUS
<1>2. IntLimit \in Nat \ {0}
    BY SqliteAssumption
<1>3. PICK i : i = AsInt(e)
    OBVIOUS
<1>4. /\ low \in Nat /\ low < 2 * IntLimit
      /\ low < IntLimit => i = low
      /\ low >= IntLimit => i = low - 2 * IntLimit
    BY <1>1, <1>3, AsIntReads
<1>5. ~(i # 0 /\ i < n) <=> low \in {0} \cup n .. IntLimit - 1
  <2>1. CASE low < IntLimit
    BY <1>2, <1>4, <2>1
  <2>2. CASE low >= IntLimit
    BY <1>2, <1>4, <2>2
  <2> QED
    BY <2>1, <2>2, <1>2, <1>4
<1> QED
    BY <1>1, <1>3, <1>5 DEF isAccountExpired

\* When a password typed in full lets somebody in.
LEMMA PasswordStands ==
    ASSUME NEW p, p.mode \in PassModes, p.expiration \in Nat, p.force \in BOOLEAN,
           NEW w, NEW n \in Nat
    PROVE  validatePassword(p, w, "PLAIN", n) = "AUTHENTICATED" <=>
               /\ p.mode \notin {"NOTFOUND", "GAUTHTIME"} /\ ~p.force /\ p.expiration >= n
               /\ p.hash = Digest(p.mode, w, p.salt)
<1>1. CASE isPasswordExpired(p, n)
    BY <1>1 DEF validatePassword, isPasswordExpired
<1>2. CASE ~isPasswordExpired(p, n)
  <2>1. ~p.force /\ p.expiration >= n
    BY <1>2 DEF isPasswordExpired
  <2>2. CASE p.mode = "NOTFOUND"
    BY <1>2, <2>2 DEF validatePassword
  <2>3. CASE p.mode = "GAUTHTIME"
    BY <1>2, <2>3 DEF validatePassword
  <2>4. CASE p.mode \notin {"NOTFOUND", "GAUTHTIME"}
    <3>1. validatePassword(p, w, "PLAIN", n) =
              IF p.hash = Digest(p.mode, w, p.salt) THEN "AUTHENTICATED" ELSE "BAD_PASSWORD"
      BY <1>2, <2>4 DEF validatePassword
    <3> QED
      BY <3>1, <2>1, <2>4
  <2> QED
    BY <2>1, <2>2, <2>3, <2>4
<1> QED
    BY <1>1, <1>2

\* A caller enters a login, goes on in it or returns: it has no row to write.
LEMMA LoginMoves ==
    ASSUME IInv, NEW t \in Threads, NEW c, call' = [call EXCEPT ![t] = c],
           call[t].at \in {"idle", "result"} \cup Asking,
           c \in {Idle} \cup LoggingIn \cup Answered,
           UNCHANGED <<tables, now, cut>>, calm' \in {calm \cup {t}, calm, calm \ {t}},
           t \in calm' => FoundBy(t)'
    PROVE  IInv'
<1>1. /\ Calls' /\ call'[t] = c /\ \A u \in Threads : u # t => call'[u] = call[u]
    BY CallsMove
<1>2. UNCHANGED <<domains, attribs, groups, accounts, activation, passwords, groupsAccounts,
                  attribsGroups, attribsAccounts, now, cut>>
    BY DEF tables
<1>3. TypeOK' /\ Contents' /\ Referring'
    BY <1>2 DEF IInv, TypeOK, Contents, Referring
<1>4. Completing'
  <2>1. \A b : ~OwesActivation(t, b) /\ ~OwesPassword(t, b)
    BY DEF OwesActivation, OwesPassword, Asking
  <2> QED
    BY <2>1, <1>1, <1>2, OwedByOthers DEF IInv, Completing
<1>5. Found'
  <2> SUFFICES ASSUME NEW u \in calm', u # t PROVE FoundBy(u)'
    BY DEF Found
  <2>1. u \in calm /\ call'[u] = call[u]
    BY <1>1 DEF IInv, TypeOK
  <2> QED
    BY <2>1, <1>2, FoundStays
<1> QED
    BY <1>1, <1>3, <1>4, <1>5 DEF IInv

\* The password is read, or there is none.
LEMMA LoginBegun ==
    ASSUME IInv, NEW t \in Threads, NEW a \in Accounts, NEW i \in PassIndexes,
           NEW w \in Passwords, authenticate(t, a, i, w)
    PROVE  IInv'
<1>1. call[t].at = "idle"
    BY CallShape DEF authenticate, IInv
<1>2. UNCHANGED <<tables, now, cut>> /\ calm' = calm \cup {t}
    BY DEF authenticate
<1>3. UNCHANGED <<activation, passwords>>
    BY <1>2 DEF tables
<1>4. t \in DOMAIN call
    BY DEF IInv, Calls
<1>5. CASE <<i, a>> \in DOMAIN passwords
  <2> DEFINE c == [at |-> "confirmed?", acct |-> a, index |-> i, input |-> w,
                   pass |-> passwords[<<i, a>>]]
  <2>1. call' = [call EXCEPT ![t] = c]
    BY <1>5 DEF authenticate
  <2>2. /\ c \in LoggingIn /\ c.at = "confirmed?" /\ c.acct = a /\ c.index = i
        /\ c.pass = passwords[<<i, a>>]
    BY <1>5 DEF LoggingIn, Asking, IInv, Contents
  <2> HIDE DEF c
  <2>3. FoundBy(t)'
    <3>1. call'[t] = c
      BY <1>4, <2>1
    <3> QED
      BY <3>1, <2>2, <1>3, <1>5 DEF FoundBy, Key, Asking
  <2> QED
    BY <1>1, <1>2, <2>1, <2>2, <2>3, LoginMoves
<1>6. CASE <<i, a>> \notin DOMAIN passwords
  <2> DEFINE c == [at |-> "result", acct |-> a, index |-> i, input |-> w,
                   reason |-> "BAD_ACCOUNT"]
  <2>1. call' = [call EXCEPT ![t] = c]
    BY <1>6 DEF authenticate
  <2>2. /\ c \in Answered /\ c.at = "result" /\ c.acct = a /\ c.index = i
        /\ c.reason = "BAD_ACCOUNT"
    BY DEF Answered, AuthReasons
  <2> HIDE DEF c
  <2>3. FoundBy(t)'
    <3>1. call'[t] = c
      BY <1>4, <2>1
    <3>2. ~Passes(t)'
      BY <3>1, <2>2, <1>3, <1>6 DEF Passes, Key
    <3> QED
      BY <3>1, <3>2, <2>2 DEF FoundBy, Asking
  <2> QED
    BY <1>1, <1>2, <2>1, <2>2, <2>3, LoginMoves
<1> QED
    BY <1>5, <1>6

\* The login is answered: with AUTHENTICATED if and only if it passes.
LEMMA LoginAnswered ==
    ASSUME IInv, NEW t \in Threads, call[t].at \in Asking, NEW r \in AuthReasons, Answer(t, r),
           UNCHANGED <<tables, now, cut, calm>>,
           t \in calm => (r = "AUTHENTICATED" <=> Passes(t))
    PROVE  IInv'
<1> DEFINE c == [at |-> "result", acct |-> call[t].acct, index |-> call[t].index,
                 input |-> call[t].input, reason |-> r]
<1>1. call[t] \in LoggingIn /\ t \in DOMAIN call
    BY CallShape DEF IInv, Calls
<1>2. call' = [call EXCEPT ![t] = c]
    BY DEF Answer
<1>3. /\ c \in Answered /\ c.at = "result" /\ c.acct = call[t].acct /\ c.index = call[t].index
      /\ c.reason = r /\ c.input = call[t].input
    BY <1>1 DEF Answered, LoggingIn
<1> HIDE DEF c
<1>4. ASSUME t \in calm PROVE FoundBy(t)'
  <2>1. call'[t] = c
    BY <1>1, <1>2
  <2>2. Passes(t)' <=> Passes(t)
    BY <2>1, <1>3 DEF Passes, Key, tables
  <2> QED
    BY <1>4, <2>1, <2>2, <1>3 DEF FoundBy, Asking
<1> QED
    BY <1>2, <1>3, <1>4, LoginMoves

\* The login goes on to its next query.
LEMMA LoginGoesOn ==
    ASSUME IInv, NEW t \in Threads, call[t].at \in Asking, NEW s \in Asking,
           call' = [call EXCEPT ![t].at = s], UNCHANGED <<tables, now, cut, calm>>,
           s \in {"disabled?", "expired?"} => isAccountConfirmed(call[t].acct),
           s = "expired?" => ~isAccountDisabled(call[t].acct)
    PROVE  IInv'
<1> DEFINE c == [call[t] EXCEPT !.at = s]
<1>1. call[t] \in LoggingIn /\ t \in DOMAIN call
    BY CallShape DEF IInv, Calls
<1>2. call' = [call EXCEPT ![t] = c]
    BY <1>1
<1>3. /\ c \in LoggingIn /\ c.at = s /\ c.acct = call[t].acct /\ c.index = call[t].index
      /\ c.pass = call[t].pass
    BY <1>1 DEF LoggingIn
<1> HIDE DEF c
<1>4. ASSUME t \in calm PROVE FoundBy(t)'
  <2>1. call'[t] = c
    BY <1>1, <1>2
  <2>2. FoundBy(t)
    BY <1>4 DEF IInv, Found
  <2>3. UNCHANGED <<activation, passwords>>
    BY DEF tables
  <2>4. s # "result"
    BY DEF Asking
  <2>5. Key(t)' = Key(t)
    BY <2>1, <1>3 DEF Key
  <2>6. /\ isAccountConfirmed(call[t].acct)' <=> isAccountConfirmed(call[t].acct)
        /\ isAccountDisabled(call[t].acct)' <=> isAccountDisabled(call[t].acct)
    BY <2>1, <2>3, <1>3 DEF isAccountConfirmed, isAccountDisabled
  <2> QED
    BY <2>1, <2>2, <2>3, <2>4, <2>5, <2>6, <1>3 DEF FoundBy, Asking
<1> QED
    BY <1>2, <1>3, <1>4, LoginMoves

\* The queries of a login after the first.
LEMMA LoginNext ==
    ASSUME IInv, NEW t \in Threads, authenticateNext(t)
    PROVE  IInv'
<1> DEFINE a == call[t].acct
           k == Key(t)
<1>1. UNCHANGED <<tables, now, cut, calm>>
    BY DEF authenticateNext
<1>2. ASSUME t \in calm PROVE FoundBy(t)
    BY <1>2 DEF IInv, Found
<1>3. CASE call[t].at = "confirmed?"
  <2>1. call[t].at \in Asking
    BY <1>3 DEF Asking
  <2>2. CASE isAccountConfirmed(a)
    <3>1. call' = [call EXCEPT ![t].at = "disabled?"]
      BY <1>3, <2>2 DEF authenticateNext
    <3> QED
      BY <3>1, <2>1, <2>2, <1>1, LoginGoesOn DEF Asking
  <2>3. CASE ~isAccountConfirmed(a)
    <3>1. Answer(t, "UNCONFIRMED_ACCOUNT")
      BY <1>3, <2>3 DEF authenticateNext
    <3>2. ~Passes(t)
      BY <2>3 DEF Passes, isAccountConfirmed
    <3> QED
      BY <3>1, <3>2, <2>1, <1>1, LoginAnswered DEF AuthReasons
  <2> QED
    BY <2>2, <2>3
<1>4. CASE call[t].at = "disabled?"
  <2>1. call[t].at \in Asking
    BY <1>4 DEF Asking
  <2>2. CASE ~isAccountDisabled(a)
    <3>1. call' = [call EXCEPT ![t].at = "expired?"]
      BY <1>4, <2>2 DEF authenticateNext
    <3>2. CASE t \in calm
      <4>1. isAccountConfirmed(a)
        BY <1>2, <1>4, <3>2 DEF FoundBy
      <4> QED
        BY <3>1, <4>1, <2>1, <2>2, <1>1, LoginGoesOn DEF Asking
    <3>3. CASE t \notin calm
      <4> DEFINE c == [call[t] EXCEPT !.at = "expired?"]
      <4>1. call[t] \in LoggingIn /\ t \in DOMAIN call
        BY <2>1, CallShape DEF IInv, Calls
      <4>2. call' = [call EXCEPT ![t] = c] /\ c \in LoggingIn
        BY <3>1, <4>1 DEF LoggingIn, Asking
      <4> HIDE DEF c
      <4> QED
        BY <4>2, <3>3, <2>1, <1>1, LoginMoves
    <3> QED
      BY <3>2, <3>3
  <2>3. CASE isAccountDisabled(a)
    <3>1. Answer(t, "DISABLED_ACCOUNT")
      BY <1>4, <2>3 DEF authenticateNext
    <3>2. ~Passes(t)
      BY <2>3 DEF Passes, isAccountDisabled
    <3> QED
      BY <3>1, <3>2, <2>1, <1>1, LoginAnswered DEF AuthReasons
  <2> QED
    BY <2>2, <2>3
<1>5. CASE call[t].at = "expired?"
  <2> DEFINE e == isAccountExpired(accountExpirationDate(a), now)
             v == validatePassword(call[t].pass, call[t].input, "PLAIN", now)
  <2>1. call[t].at \in Asking /\ now \in Nat \ {0}
    BY <1>5, SqliteAssumption DEF Asking, IInv, TypeOK
  <2>2. Answer(t, IF e THEN "EXPIRED_ACCOUNT" ELSE v)
    BY <1>5 DEF authenticateNext
  <2>3. v \in AuthReasons
    <3>1. call[t].pass.mode \in PassModes
      BY <2>1, CallShape, SqliteAssumption DEF IInv, LoggingIn
    <3> QED
      BY <3>1 DEF validatePassword, AuthReasons, PassModes, Salted
  <2>4. ASSUME t \in calm
        PROVE  (IF e THEN "EXPIRED_ACCOUNT" ELSE v) = "AUTHENTICATED" <=> Passes(t)
    <3>1. /\ k \in DOMAIN passwords /\ passwords[k] = call[t].pass
          /\ a \in DOMAIN activation /\ activation[a].confirmed /\ activation[a].enabled
      BY <1>2, <1>5, <2>4 DEF FoundBy, Asking, isAccountConfirmed, isAccountDisabled
    <3>2. ~e <=> activation[a].expiration % (2 * IntLimit) \in {0} \cup now .. IntLimit - 1
      <4>1. activation[a].expiration \in Nat
        BY <3>1, SqliteAssumption DEF IInv, Contents, Activations
      <4>2. accountExpirationDate(a) = AsInt(activation[a].expiration)
        BY <3>1 DEF accountExpirationDate
      <4> QED
        BY <4>1, <4>2, <2>1, DateStands
    <3>3. v = "AUTHENTICATED" <=>
               /\ passwords[k].mode \notin {"NOTFOUND", "GAUTHTIME"} /\ ~passwords[k].force
               /\ passwords[k].expiration >= now
               /\ passwords[k].hash = Digest(passwords[k].mode, call[t].input, passwords[k].salt)
      <4>1. /\ passwords[k].mode \in PassModes /\ passwords[k].expiration \in Nat
            /\ passwords[k].force \in BOOLEAN
        BY <3>1, SqliteAssumption DEF IInv, Contents
      <4> QED
        BY <4>1, <3>1, <2>1, PasswordStands
    <3> HIDE DEF e, v
    <3>4. (IF e THEN "EXPIRED_ACCOUNT" ELSE v) = "AUTHENTICATED" <=> ~e /\ v = "AUTHENTICATED"
      OBVIOUS
    <3> QED
      BY <3>1, <3>2, <3>3, <3>4 DEF Passes
  <2> DEFINE r == IF e THEN "EXPIRED_ACCOUNT" ELSE v
  <2>5. r \in AuthReasons
    BY <2>3 DEF AuthReasons
  <2> HIDE DEF e, v
  <2> QED
    BY <2>1, <2>2, <2>4, <2>5, <1>1, LoginAnswered
<1> QED
    BY <1>3, <1>4, <1>5 DEF authenticateNext

\* The login returns.
LEMMA LoginReturned ==
    ASSUME IInv, NEW t \in Threads, Return(t)
    PROVE  IInv'
<1>1. t \notin calm'
    BY DEF Return
<1> QED
    BY <1>1, LoginMoves DEF Return

\* The clock, which no row depends on.
LEMMA Ticked == ASSUME IInv, Tick PROVE IInv'
<1>1. UNCHANGED <<domains, attribs, groups, accounts, activation, passwords, groupsAccounts,
                  attribsGroups, attribsAccounts, call, cut>> /\ calm' = {}
    BY DEF Tick, tables
<1>2. TypeOK'
    BY <1>1, SqliteAssumption DEF IInv, TypeOK, Tick
<1>3. Calls' /\ Contents' /\ Referring' /\ Found'
    BY <1>1 DEF IInv, Calls, Contents, Referring, Found
<1>4. Completing'
    BY <1>1 DEF IInv, Completing, OwesActivation, OwesPassword
<1> QED
    BY <1>2, <1>3, <1>4 DEF IInv

\* A crash: what was owed is now cut.
LEMMA Crashed == ASSUME IInv, Crash PROVE IInv'
<1> DEFINE S == {u \in Threads : call[u].at \in {"activation", "password"}}
<1>1. UNCHANGED <<domains, attribs, groups, accounts, activation, passwords, groupsAccounts,
                  attribsGroups, attribsAccounts, now>> /\ calm' = {}
    BY DEF Crash, tables
<1>2. call' = [t \in Threads |-> Idle] /\ cut' = cut \cup {call[t].acct : t \in S}
    BY DEF Crash
<1>3. \A t \in S : call[t].acct \in Accounts
    BY CallShape DEF IInv, Adding, Setting
<1> HIDE DEF S
<1>4. TypeOK'
    BY <1>1, <1>2, <1>3 DEF IInv, TypeOK
<1>5. Calls' /\ Contents' /\ Referring' /\ Found'
    BY <1>1, <1>2 DEF IInv, Calls, Contents, Referring, Found
<1>6. Completing'
  <2> SUFFICES ASSUME NEW a \in accounts \ cut'
               PROVE  a \in DOMAIN activation /\ <<0, a>> \in DOMAIN passwords
    BY <1>1 DEF Completing
  <2>1. a \in accounts \ cut /\ \A t \in S : call[t].acct # a
    BY <1>2
  <2>2. \A t \in Threads : ~OwesActivation(t, a) /\ ~OwesPassword(t, a)
    BY <2>1 DEF S, OwesActivation, OwesPassword
  <2> QED
    BY <2>1, <2>2 DEF IInv, Completing
<1> QED
    BY <1>4, <1>5, <1>6 DEF IInv

\* Nothing happens, as in accountDisable, whose statement fails.
LEMMA Stuttered == ASSUME IInv, UNCHANGED vars PROVE IInv'
<1>1. UNCHANGED <<domains, attribs, groups, accounts, activation, passwords, groupsAccounts,
                  attribsGroups, attribsAccounts, now, call, cut, calm>>
    BY DEF vars, tables
<1>2. TypeOK' /\ Referring'
    BY <1>1 DEF IInv, TypeOK, Referring
<1> QED
    BY <1>1, <1>2, OthersKept DEF IInv

\* The empty database.
LEMMA InitHolds == Init => IInv
<1> SUFFICES ASSUME Init PROVE IInv
    OBVIOUS
<1>1. DOMAIN activation = {} /\ DOMAIN passwords = {}
    BY DEF Init
<1>2. TypeOK
    BY <1>1, SqliteAssumption DEF Init, TypeOK
<1>3. Calls /\ Contents /\ Referring /\ Completing /\ Found
    BY <1>1 DEF Init, Calls, Contents, Referring, Completing, Found
<1> QED
    BY <1>2, <1>3 DEF IInv

\* Every statement of every caller.
LEMMA NextHolds == ASSUME IInv, [Next]_vars PROVE IInv'
<1>1. ASSUME Administer PROVE IInv'
  <2>1. ASSUME NEW a \in Accounts, accountDisable(a) PROVE IInv'
    BY <2>1, Stuttered DEF accountDisable
  <2> QED
    BY <1>1, <2>1, DomainAdded, Removed, ExpirationChanged, GroupAdded, AttribAdded,
       GroupAccountChanged, AttribGroupChanged, AttribAccountChanged DEF Administer
<1>2. ASSUME NEW t \in Threads, Call(t) PROVE IInv'
    BY <1>2, AccountAdded, ActivationAdded, PasswordInserted, PasswordDeleted,
       ConfirmationBegun, ConfirmationStored, LoginBegun, LoginNext, LoginReturned DEF Call
<1> QED
    BY <1>1, <1>2, Ticked, Crashed, Stuttered DEF Next

\* The invariant holds whatever callers, administrators and crashes do.
THEOREM Invariance == Spec => []IInv
BY InitHolds, NextHolds, PTL DEF Spec

\* An account nobody is busy with has its activation and its main password, unless a
\* crash has cut off the function that was writing them (accountAdd,
\* accountChangePassword).
THEOREM Safety == Spec => []Safe
<1>1. IInv => Safe
  <2>1. ASSUME IInv PROVE AccountsWhole
    <3> SUFFICES ASSUME NEW a \in accounts \ cut, ~Busy(a)
                 PROVE  a \in DOMAIN activation /\ <<0, a>> \in DOMAIN passwords
      BY DEF AccountsWhole
    <3>1. \A t \in Threads : ~OwesActivation(t, a) /\ ~OwesPassword(t, a)
      BY DEF Busy, OwesActivation, OwesPassword
    <3> QED
      BY <2>1, <3>1 DEF IInv, Completing
  <2> QED
    BY <2>1 DEF IInv, Safe
<1> QED
    BY <1>1, Invariance, PTL

\* A login whose account nobody writes to meanwhile is answered by what the tables hold:
\* the four queries of authenticate decide as one (IAuth::authenticate).
THEOREM LoginsAreRight == Spec => []LoginsDecideRight
<1>1. IInv => LoginsDecideRight
  <2> SUFFICES ASSUME IInv, NEW t \in calm, call[t].at = "result"
               PROVE  call[t].reason = "AUTHENTICATED" <=> Passes(t)
    BY DEF LoginsDecideRight, Passes, Key
  <2> QED
    BY DEF IInv, Found, FoundBy
<1> QED
    BY <1>1, Invariance, PTL

-----------------------------------------------------------------------------
\* The tables as a store: what there is of each kind.
Present(o) ==
    \/ \E d \in domains : o = <<"domain", d>>
    \/ \E a \in accounts : o = <<"account", a>>
    \/ \E g \in groups : o = <<"group", g>>
    \/ \E x \in attribs : o = <<"attrib", x>>
    \/ \E a \in DOMAIN activation : o = <<"activation", a>>
    \/ \E k \in DOMAIN passwords : o = <<"password", k>>

ListsTell == \A o : o \in StoreLive <=> Present(o)

\* What the lists of a domain show is what the tables hold.
LEMMA ListsTellAll == TypeOK => ListsTell
<1> SUFFICES ASSUME TypeOK PROVE ListsTell
    OBVIOUS
<1>1. \A a \in Accounts : a \in accounts <=> a[1] \in accountsList(a[2])
    BY DEF TypeOK, Accounts, accountsList, InDomain
<1>2. \A g \in Groups : g \in groups <=> g[1] \in groupsList(g[2])
    BY DEF TypeOK, Groups, groupsList, InDomain
<1>3. \A x \in Attribs : x \in attribs <=> x[1] \in attribsList(x[2])
    BY DEF TypeOK, Attribs, attribsList, InDomain
<1>4. /\ {k \in Accounts : k[1] \in accountsList(k[2])} = accounts
      /\ {k \in Groups : k[1] \in groupsList(k[2])} = groups
      /\ {k \in Attribs : k[1] \in attribsList(k[2])} = attribs
    BY <1>1, <1>2, <1>3 DEF TypeOK
<1> QED
    BY <1>4 DEF StoreLive, Present, ListsTell

\* The same after a step.
LEMMA ListsTellAllNext == TypeOK' => ListsTell'
BY ListsTellAll, PTL

\* What is there is an object of the store, and only of one kind.
LEMMA PresentObjects ==
    ASSUME TypeOK
    PROVE  StoreLive \subseteq StoreObjects
<1> SUFFICES ASSUME NEW o, Present(o) PROVE o \in StoreObjects
    BY ListsTellAll DEF ListsTell
<1> QED
    BY DEF Present, StoreObjects, TypeOK

\* What holds what.
LEMMA Holders ==
    /\ \A d : StoreHolder(<<"domain", d>>) = {}
    /\ \A a : StoreHolder(<<"account", a>>) = {<<"domain", a[2]>>}
    /\ \A g : StoreHolder(<<"group", g>>) = {<<"domain", g[2]>>}
    /\ \A x : StoreHolder(<<"attrib", x>>) = {<<"domain", x[2]>>}
    /\ \A a : StoreHolder(<<"activation", a>>) = {<<"account", a>>}
    /\ \A k : StoreHolder(<<"password", k>>) = {<<"account", k[2]>>}
BY DEF StoreHolder

\* What goes with o: what o holds, and what that holds.
LEMMA BelowOne ==
    ASSUME NEW o \in StoreObjects, NEW p \in StoreObjects
    PROVE  p \in Store!Below({o}) <=>
               \/ p = o
               \/ o \in StoreHolder(p)
               \/ \E q \in StoreObjects : q \in StoreHolder(p) /\ o \in StoreHolder(q)
BY DEF Store!Below

\* Statements that neither insert nor delete a row of an object.
LEMMA LiveStays ==
    ASSUME UNCHANGED <<domains, accounts, groups, attribs>>,
           DOMAIN activation' = DOMAIN activation, DOMAIN passwords' = DOMAIN passwords
    PROVE  StoreLive' = StoreLive
BY DEF StoreLive, accountsList, groupsList, attribsList, InDomain

\* Statements that leave the relations alone.
LEMMA LinksStay ==
    ASSUME UNCHANGED <<groupsAccounts, attribsGroups, attribsAccounts>>
    PROVE  StoreLinks' = StoreLinks
BY DEF StoreLinks

\* A row of an object is inserted when the row that holds it is there.
LEMMA RowCreated ==
    ASSUME IInv, IInv', NEW o, ~Present(o), \A p : Present(p)' <=> Present(p) \/ p = o,
           \A h \in StoreHolder(o) : Present(h),
           UNCHANGED <<groupsAccounts, attribsGroups, attribsAccounts>>
    PROVE  \E p \in StoreObjects : Store!Create(p)
<1>1. /\ \A p : p \in StoreLive <=> Present(p)
      /\ \A p : p \in StoreLive' <=> Present(p)'
    BY ListsTellAll, ListsTellAllNext DEF IInv, ListsTell
<1>2. StoreLive' = StoreLive \cup {o}
    BY <1>1
<1>3. o \in StoreObjects
  <2>1. StoreObjects' = StoreObjects
    BY DEF StoreObjects, Accounts, Groups, Attribs
  <2>2. Present(o)'
    OBVIOUS
  <2> QED
    BY <2>1, <2>2 DEF Present, StoreObjects, IInv, TypeOK
<1>4. Store!Create(o)
    BY <1>1, <1>2, LinksStay DEF Store!Create
<1> QED
    BY <1>3, <1>4

\* The rows of the relations, as links.
LEMMA LinkRows ==
    ASSUME NEW l
    PROVE  l \in StoreLinks <=>
              \/ \E r \in groupsAccounts : l = << <<"group", r[1]>>, <<"account", r[2]>> >>
              \/ \E r \in attribsGroups : l = << <<"attrib", r[1]>>, <<"group", r[2]>> >>
              \/ \E r \in attribsAccounts : l = << <<"attrib", r[1]>>, <<"account", r[2]>> >>
BY DEF StoreLinks

\* What a DELETE takes with it.
Gone(p, ds, as, gs, xs) ==
    \/ \E d \in ds : p = <<"domain", d>>
    \/ \E a \in as : p = <<"account", a>> \/ p = <<"activation", a>>
                     \/ \E i \in PassIndexes : p = <<"password", <<i, a>>>>
    \/ \E g \in gs : p = <<"group", g>>
    \/ \E x \in xs : p = <<"attrib", x>>

\* A DELETE and its cascades are the end of one object and of all below it.
LEMMA RowsDestroyed ==
    ASSUME IInv, IInv', NEW ds, NEW as, NEW gs, NEW xs, Delete(ds, as, gs, xs), NEW o \in StoreObjects,
           \A p \in StoreObjects : Present(p) =>
               (p \in Store!Below({o}) <=> Gone(p, ds, as, gs, xs))
    PROVE  Store!Destroy({o})
<1>1. /\ \A p : p \in StoreLive <=> Present(p)
      /\ \A p : p \in StoreLive' <=> Present(p)'
    BY ListsTellAll, ListsTellAllNext DEF IInv, ListsTell
<1>2. \A p : Present(p) => p \in StoreObjects
    BY <1>1, PresentObjects DEF IInv
<1>3. ASSUME NEW p PROVE Present(p)' <=> Present(p) /\ ~Gone(p, ds, as, gs, xs)
  <2>1. /\ domains' = domains \ ds /\ accounts' = accounts \ as /\ groups' = groups \ gs
        /\ attribs' = attribs \ xs /\ DOMAIN activation' = DOMAIN activation \ as
        /\ DOMAIN passwords' = DOMAIN passwords \ (PassIndexes \X as)
    BY DEF Delete, Without
  <2>2. \A k \in DOMAIN passwords : k \in PassIndexes \X Accounts /\ k = <<k[1], k[2]>>
    BY DEF IInv, TypeOK
  <2>3. ASSUME NEW d, p = <<"domain", d>>
        PROVE  Present(p)' <=> Present(p) /\ ~Gone(p, ds, as, gs, xs)
    BY <2>1, <2>3 DEF Present, Gone
  <2>4. ASSUME NEW a, p = <<"account", a>>
        PROVE  Present(p)' <=> Present(p) /\ ~Gone(p, ds, as, gs, xs)
    BY <2>1, <2>4 DEF Present, Gone
  <2>5. ASSUME NEW g, p = <<"group", g>>
        PROVE  Present(p)' <=> Present(p) /\ ~Gone(p, ds, as, gs, xs)
    BY <2>1, <2>5 DEF Present, Gone
  <2>6. ASSUME NEW x, p = <<"attrib", x>>
        PROVE  Present(p)' <=> Present(p) /\ ~Gone(p, ds, as, gs, xs)
    BY <2>1, <2>6 DEF Present, Gone
  <2>7. ASSUME NEW a, p = <<"activation", a>>
        PROVE  Present(p)' <=> Present(p) /\ ~Gone(p, ds, as, gs, xs)
    BY <2>1, <2>7 DEF Present, Gone
  <2>8. ASSUME NEW k, p = <<"password", k>>
        PROVE  Present(p)' <=> Present(p) /\ ~Gone(p, ds, as, gs, xs)
    <3>1. Present(p)' <=> k \in DOMAIN passwords'
      BY <2>8 DEF Present
    <3>2. Present(p) <=> k \in DOMAIN passwords
      BY <2>8 DEF Present
    <3>3. k \in DOMAIN passwords => (Gone(p, ds, as, gs, xs) <=> k \in PassIndexes \X as)
      BY <2>2, <2>8 DEF Gone
    <3> QED
      BY <2>1, <3>1, <3>2, <3>3
  <2> QED
    BY <2>3, <2>4, <2>5, <2>6, <2>7, <2>8 DEF Present
<1>4. StoreLive' = StoreLive \ Store!Below({o})
    BY <1>1, <1>2, <1>3
<1>5. ASSUME NEW l
      PROVE  l \in StoreLinks' <=>
                l \in StoreLinks /\ l[1] \notin Store!Below({o}) /\ l[2] \notin Store!Below({o})
  <2>1. ASSUME NEW r \in groupsAccounts, l = << <<"group", r[1]>>, <<"account", r[2]>> >>
        PROVE  r \in groupsAccounts' <=> l[1] \notin Store!Below({o}) /\ l[2] \notin Store!Below({o})
    <3>1. Present(<<"group", r[1]>>) /\ Present(<<"account", r[2]>>)
      BY DEF IInv, Referring, Present
    <3>2. /\ <<"group", r[1]>> \in Store!Below({o}) <=> Gone(<<"group", r[1]>>, ds, as, gs, xs)
          /\ <<"account", r[2]>> \in Store!Below({o}) <=> Gone(<<"account", r[2]>>, ds, as, gs, xs)
      BY <3>1, <1>2
    <3>3. /\ Gone(<<"group", r[1]>>, ds, as, gs, xs) <=> r[1] \in gs
          /\ Gone(<<"account", r[2]>>, ds, as, gs, xs) <=> r[2] \in as
      BY DEF Gone
    <3> QED
      BY <3>2, <3>3, <2>1 DEF Delete
  <2>2. ASSUME NEW r \in attribsGroups, l = << <<"attrib", r[1]>>, <<"group", r[2]>> >>
        PROVE  r \in attribsGroups' <=> l[1] \notin Store!Below({o}) /\ l[2] \notin Store!Below({o})
    <3>1. Present(<<"attrib", r[1]>>) /\ Present(<<"group", r[2]>>)
      BY DEF IInv, Referring, Present
    <3>2. /\ <<"attrib", r[1]>> \in Store!Below({o}) <=> Gone(<<"attrib", r[1]>>, ds, as, gs, xs)
          /\ <<"group", r[2]>> \in Store!Below({o}) <=> Gone(<<"group", r[2]>>, ds, as, gs, xs)
      BY <3>1, <1>2
    <3>3. /\ Gone(<<"attrib", r[1]>>, ds, as, gs, xs) <=> r[1] \in xs
          /\ Gone(<<"group", r[2]>>, ds, as, gs, xs) <=> r[2] \in gs
      BY DEF Gone
    <3> QED
      BY <3>2, <3>3, <2>2 DEF Delete
  <2>3. ASSUME NEW r \in attribsAccounts, l = << <<"attrib", r[1]>>, <<"account", r[2]>> >>
        PROVE  r \in attribsAccounts' <=> l[1] \notin Store!Below({o}) /\ l[2] \notin Store!Below({o})
    <3>1. Present(<<"attrib", r[1]>>) /\ Present(<<"account", r[2]>>)
      BY DEF IInv, Referring, Present
    <3>2. /\ <<"attrib", r[1]>> \in Store!Below({o}) <=> Gone(<<"attrib", r[1]>>, ds, as, gs, xs)
          /\ <<"account", r[2]>> \in Store!Below({o}) <=> Gone(<<"account", r[2]>>, ds, as, gs, xs)
      BY <3>1, <1>2
    <3>3. /\ Gone(<<"attrib", r[1]>>, ds, as, gs, xs) <=> r[1] \in xs
          /\ Gone(<<"account", r[2]>>, ds, as, gs, xs) <=> r[2] \in as
      BY DEF Gone
    <3> QED
      BY <3>2, <3>3, <2>3 DEF Delete
  <2>4. /\ groupsAccounts' \subseteq groupsAccounts /\ attribsGroups' \subseteq attribsGroups
        /\ attribsAccounts' \subseteq attribsAccounts
    BY DEF Delete
  <2>5. l \in StoreLinks' =>
           l \in StoreLinks /\ l[1] \notin Store!Below({o}) /\ l[2] \notin Store!Below({o})
    <3> SUFFICES ASSUME l \in StoreLinks'
                 PROVE  l \in StoreLinks /\ l[1] \notin Store!Below({o}) /\ l[2] \notin Store!Below({o})
      OBVIOUS
    <3>1. \/ \E r \in groupsAccounts' : l = << <<"group", r[1]>>, <<"account", r[2]>> >>
          \/ \E r \in attribsGroups' : l = << <<"attrib", r[1]>>, <<"group", r[2]>> >>
          \/ \E r \in attribsAccounts' : l = << <<"attrib", r[1]>>, <<"account", r[2]>> >>
      BY DEF StoreLinks
    <3> QED
      BY <2>1, <2>2, <2>3, <2>4, <3>1, LinkRows
  <2>6. l \in StoreLinks /\ l[1] \notin Store!Below({o}) /\ l[2] \notin Store!Below({o}) =>
           l \in StoreLinks'
    <3> SUFFICES ASSUME l \in StoreLinks, l[1] \notin Store!Below({o}), l[2] \notin Store!Below({o})
                 PROVE  l \in StoreLinks'
      OBVIOUS
    <3>1. \/ \E r \in groupsAccounts' : l = << <<"group", r[1]>>, <<"account", r[2]>> >>
          \/ \E r \in attribsGroups' : l = << <<"attrib", r[1]>>, <<"group", r[2]>> >>
          \/ \E r \in attribsAccounts' : l = << <<"attrib", r[1]>>, <<"account", r[2]>> >>
      BY <2>1, <2>2, <2>3, LinkRows
    <3> QED
      BY <3>1 DEF StoreLinks
  <2> QED
    BY <2>5, <2>6
<1>6. StoreLinks' = {l \in StoreLinks : l[1] \notin Store!Below({o}) /\ l[2] \notin Store!Below({o})}
    BY <1>5
<1> QED
    BY <1>4, <1>6 DEF Store!Destroy

\* A step of the store or none.
Mapped == [Store!Next]_(Store!vars)

\* A statement that only changes what rows say, or where calls stand.
LEMMA NothingMoves ==
    ASSUME UNCHANGED <<domains, accounts, groups, attribs, groupsAccounts, attribsGroups,
                       attribsAccounts>>,
           DOMAIN activation' = DOMAIN activation, DOMAIN passwords' = DOMAIN passwords
    PROVE  Mapped
BY LiveStays, LinksStay DEF Mapped, Store!vars

\* What an INSERT does to what there is: a row more of one object.
LEMMA OneMore ==
    ASSUME IInv, IInv', NEW o, ~Present(o), \A p : Present(p)' <=> Present(p) \/ p = o,
           \A h \in StoreHolder(o) : Present(h),
           UNCHANGED <<groupsAccounts, attribsGroups, attribsAccounts>>
    PROVE  Mapped
BY RowCreated DEF Mapped, Store!Next

\* A DELETE and its cascades.
LEMMA OneLess ==
    ASSUME IInv, IInv', NEW ds, NEW as, NEW gs, NEW xs, Delete(ds, as, gs, xs), NEW o \in StoreObjects,
           \A p \in StoreObjects : Present(p) =>
               (p \in Store!Below({o}) <=> Gone(p, ds, as, gs, xs))
    PROVE  Mapped
BY RowsDestroyed DEF Mapped, Store!Next

\* domainAdd is the creation of a domain.
LEMMA DomainAddMaps == ASSUME IInv, IInv', NEW d \in Domains, domainAdd(d) PROVE Mapped
<1>1. UNCHANGED <<accounts, groups, attribs, activation, passwords, groupsAccounts,
                  attribsGroups, attribsAccounts>>
    BY DEF domainAdd
<1>2. ~Present(<<"domain", d>>)
    BY DEF Present, domainAdd
<1>3. \A p : Present(p)' <=> Present(p) \/ p = <<"domain", d>>
    BY <1>1 DEF Present, domainAdd
<1>4. StoreHolder(<<"domain", d>>) = {}
    BY Holders
<1> QED
    BY <1>1, <1>2, <1>3, <1>4, OneMore

\* groupAdd is the creation of a group.
LEMMA GroupAddMaps == ASSUME IInv, IInv', NEW g \in Groups, groupAdd(g) PROVE Mapped
<1>1. UNCHANGED <<domains, accounts, attribs, activation, passwords, groupsAccounts,
                  attribsGroups, attribsAccounts>>
    BY DEF groupAdd
<1>2. ~Present(<<"group", g>>)
    BY DEF Present, groupAdd
<1>3. \A p : Present(p)' <=> Present(p) \/ p = <<"group", g>>
    BY <1>1 DEF Present, groupAdd
<1>4. StoreHolder(<<"group", g>>) = {<<"domain", g[2]>>} /\ Present(<<"domain", g[2]>>)
    BY Holders DEF groupAdd, Present
<1> QED
    BY <1>1, <1>2, <1>3, <1>4, OneMore

\* attribAdd is the creation of an attribute.
LEMMA AttribAddMaps == ASSUME IInv, IInv', NEW x \in Attribs, attribAdd(x) PROVE Mapped
<1>1. UNCHANGED <<domains, accounts, groups, activation, passwords, groupsAccounts,
                  attribsGroups, attribsAccounts>>
    BY DEF attribAdd
<1>2. ~Present(<<"attrib", x>>)
    BY DEF Present, attribAdd
<1>3. \A p : Present(p)' <=> Present(p) \/ p = <<"attrib", x>>
    BY <1>1 DEF Present, attribAdd
<1>4. StoreHolder(<<"attrib", x>>) = {<<"domain", x[2]>>} /\ Present(<<"domain", x[2]>>)
    BY Holders DEF attribAdd, Present
<1> QED
    BY <1>1, <1>2, <1>3, <1>4, OneMore

\* The first statement of accountAdd is the creation of an account.
LEMMA AccountAddMaps ==
    ASSUME IInv, IInv', NEW t, NEW a, NEW p, NEW b, NEW c, NEW e, accountAdd(t, a, p, b, c, e)
    PROVE  Mapped
<1>1. UNCHANGED <<domains, groups, attribs, activation, passwords, groupsAccounts,
                  attribsGroups, attribsAccounts>>
    BY DEF accountAdd
<1>2. ~Present(<<"account", a>>)
    BY DEF Present, accountAdd
<1>3. \A o : Present(o)' <=> Present(o) \/ o = <<"account", a>>
    BY <1>1 DEF Present, accountAdd
<1>4. StoreHolder(<<"account", a>>) = {<<"domain", a[2]>>} /\ Present(<<"domain", a[2]>>)
    BY Holders DEF accountAdd, Present
<1> QED
    BY <1>1, <1>2, <1>3, <1>4, OneMore

\* Its second is the creation of an activation, or fails.
LEMMA ActivationMaps ==
    ASSUME IInv, IInv', NEW t, accountAddActivation(t)
    PROVE  Mapped
<1>1. UNCHANGED <<domains, accounts, groups, attribs, passwords, groupsAccounts,
                  attribsGroups, attribsAccounts>>
    BY DEF accountAddActivation
<1>2. PICK a : a = call[t].acct
    OBVIOUS
<1>3. CASE a \in accounts /\ a \notin DOMAIN activation
  <2>1. DOMAIN activation' = DOMAIN activation \cup {a}
    BY <1>2, <1>3 DEF accountAddActivation, Put
  <2>2. ~Present(<<"activation", a>>)
    BY <1>3 DEF Present
  <2>3. \A o : Present(o)' <=> Present(o) \/ o = <<"activation", a>>
    BY <1>1, <2>1 DEF Present
  <2>4. StoreHolder(<<"activation", a>>) = {<<"account", a>>} /\ Present(<<"account", a>>)
    BY <1>3, Holders DEF Present
  <2> QED
    BY <1>1, <2>2, <2>3, <2>4, OneMore
<1>4. CASE ~(a \in accounts /\ a \notin DOMAIN activation)
  <2>1. UNCHANGED activation
    BY <1>2, <1>4 DEF accountAddActivation
  <2> QED
    BY <1>1, <2>1, NothingMoves
<1> QED
    BY <1>3, <1>4

\* The INSERT of a password is its creation, or fails.
LEMMA PasswordMaps ==
    ASSUME IInv, IInv', NEW t, insertPassword(t)
    PROVE  Mapped
<1>1. UNCHANGED <<domains, accounts, groups, attribs, activation, groupsAccounts,
                  attribsGroups, attribsAccounts>>
    BY DEF insertPassword
<1>2. PICK a : a = call[t].acct
    OBVIOUS
<1>3. PICK k : k = <<call[t].index, call[t].acct>>
    OBVIOUS
<1>4. CASE a \in accounts /\ k \notin DOMAIN passwords
  <2>1. DOMAIN passwords' = DOMAIN passwords \cup {k}
    BY <1>2, <1>3, <1>4 DEF insertPassword, Put
  <2>2. ~Present(<<"password", k>>)
    BY <1>4 DEF Present
  <2>3. \A o : Present(o)' <=> Present(o) \/ o = <<"password", k>>
    BY <1>1, <2>1 DEF Present
  <2>4. StoreHolder(<<"password", k>>) = {<<"account", a>>} /\ Present(<<"account", a>>)
    BY <1>2, <1>3, <1>4, Holders DEF Present
  <2> QED
    BY <1>1, <2>2, <2>3, <2>4, OneMore
<1>5. CASE ~(a \in accounts /\ k \notin DOMAIN passwords)
  <2>1. UNCHANGED passwords
    BY <1>2, <1>3, <1>5 DEF insertPassword
  <2> QED
    BY <1>1, <2>1, NothingMoves
<1> QED
    BY <1>4, <1>5

\* The three relations: a link between what is of one domain.
LEMMA LinkMaps ==
    ASSUME IInv, IInv', UNCHANGED <<domains, accounts, groups, attribs, activation, passwords>>,
           NEW o, NEW p, Present(o), Present(p), StoreHolder(o) = StoreHolder(p),
           StoreLinks' = StoreLinks \cup {<<o, p>>}
    PROVE  Mapped
<1>1. o \in StoreLive /\ p \in StoreLive
    BY ListsTellAll DEF IInv, ListsTell
<1>2. o \in StoreObjects /\ p \in StoreObjects
    BY <1>1, PresentObjects DEF IInv
<1>3. Store!Link(o, p)
    BY <1>1, LiveStays DEF Store!Link
<1> QED
    BY <1>2, <1>3 DEF Mapped, Store!Next

\* A link that is taken away, if it is there.
LEMMA UnlinkMaps ==
    ASSUME UNCHANGED <<domains, accounts, groups, attribs, activation, passwords>>, NEW l,
           StoreLinks' = StoreLinks \ {l}
    PROVE  Mapped
<1>1. StoreLive' = StoreLive
    BY LiveStays
<1>2. CASE l \in StoreLinks
    BY <1>1, <1>2 DEF Mapped, Store!Next, Store!Unlink
<1>3. CASE l \notin StoreLinks
    BY <1>1, <1>3 DEF Mapped, Store!vars
<1> QED
    BY <1>2, <1>3

\* groupAccountAdd and groupAccountRemove: an account is put in a group, or out of it.
LEMMA GroupAccountMaps ==
    ASSUME IInv, IInv', NEW g \in Groups, NEW a \in Accounts,
           groupAccountAdd(g, a) \/ groupAccountRemove(g, a)
    PROVE  Mapped
<1>1. UNCHANGED <<domains, accounts, groups, attribs, activation, passwords,
                  attribsGroups, attribsAccounts>>
    BY DEF groupAccountAdd, groupAccountRemove
<1>2. \A r \in groupsAccounts : r = <<r[1], r[2]>>
    BY DEF IInv, TypeOK
<1> DEFINE l == << <<"group", g>>, <<"account", a>> >>
<1>3. CASE groupAccountAdd(g, a)
  <2>1. groupsAccounts' = groupsAccounts \cup {<<g, a>>}
    BY <1>3 DEF groupAccountAdd
  <2>2. <<g, a>>[1] = g /\ <<g, a>>[2] = a
    OBVIOUS
  <2>3. ASSUME NEW m PROVE m \in StoreLinks' <=> m \in StoreLinks \/ m = l
    BY <1>1, <2>1, <2>2 DEF StoreLinks
  <2>4. StoreLinks' = StoreLinks \cup {l}
    BY <2>3
  <2>5. Present(<<"group", g>>) /\ Present(<<"account", a>>)
    BY <1>3 DEF groupAccountAdd, Present
  <2>6. StoreHolder(<<"group", g>>) = StoreHolder(<<"account", a>>)
    BY <1>3, Holders DEF groupAccountAdd
  <2> QED
    BY <1>1, <2>4, <2>5, <2>6, LinkMaps
<1>4. CASE groupAccountRemove(g, a)
  <2>1. groupsAccounts' = groupsAccounts \ {<<g, a>>}
    BY <1>4 DEF groupAccountRemove
  <2>2. \A r \in groupsAccounts : r # <<g, a>> <=> << <<"group", r[1]>>, <<"account", r[2]>> >> # l
    BY <1>2
  <2>3. ASSUME NEW m PROVE m \in StoreLinks' <=> m \in StoreLinks /\ m # l
    BY <1>1, <2>1, <2>2 DEF StoreLinks
  <2>4. StoreLinks' = StoreLinks \ {l}
    BY <2>3
  <2> QED
    BY <1>1, <2>4, UnlinkMaps
<1> QED
    BY <1>3, <1>4

\* attribGroupAdd and attribGroupRemove: an attribute is given to a group, or taken from it.
LEMMA AttribGroupMaps ==
    ASSUME IInv, IInv', NEW x \in Attribs, NEW g \in Groups,
           attribGroupAdd(x, g) \/ attribGroupRemove(x, g)
    PROVE  Mapped
<1>1. UNCHANGED <<domains, accounts, groups, attribs, activation, passwords,
                  groupsAccounts, attribsAccounts>>
    BY DEF attribGroupAdd, attribGroupRemove
<1>2. \A r \in attribsGroups : r = <<r[1], r[2]>>
    BY DEF IInv, TypeOK
<1> DEFINE l == << <<"attrib", x>>, <<"group", g>> >>
<1>3. CASE attribGroupAdd(x, g)
  <2>1. attribsGroups' = attribsGroups \cup {<<x, g>>}
    BY <1>3 DEF attribGroupAdd
  <2>2. <<x, g>>[1] = x /\ <<x, g>>[2] = g
    OBVIOUS
  <2>3. ASSUME NEW m PROVE m \in StoreLinks' <=> m \in StoreLinks \/ m = l
    BY <1>1, <2>1, <2>2 DEF StoreLinks
  <2>4. StoreLinks' = StoreLinks \cup {l}
    BY <2>3
  <2>5. Present(<<"attrib", x>>) /\ Present(<<"group", g>>)
    BY <1>3 DEF attribGroupAdd, Present
  <2>6. StoreHolder(<<"attrib", x>>) = StoreHolder(<<"group", g>>)
    BY <1>3, Holders DEF attribGroupAdd
  <2> QED
    BY <1>1, <2>4, <2>5, <2>6, LinkMaps
<1>4. CASE attribGroupRemove(x, g)
  <2>1. attribsGroups' = attribsGroups \ {<<x, g>>}
    BY <1>4 DEF attribGroupRemove
  <2>2. \A r \in attribsGroups : r # <<x, g>> <=> << <<"attrib", r[1]>>, <<"group", r[2]>> >> # l
    BY <1>2
  <2>3. ASSUME NEW m PROVE m \in StoreLinks' <=> m \in StoreLinks /\ m # l
    BY <1>1, <2>1, <2>2 DEF StoreLinks
  <2>4. StoreLinks' = StoreLinks \ {l}
    BY <2>3
  <2> QED
    BY <1>1, <2>4, UnlinkMaps
<1> QED
    BY <1>3, <1>4

\* attribAccountAdd and attribAccountRemove: an attribute is given to an account, or taken from it.
LEMMA AttribAccountMaps ==
    ASSUME IInv, IInv', NEW x \in Attribs, NEW a \in Accounts,
           attribAccountAdd(x, a) \/ attribAccountRemove(x, a)
    PROVE  Mapped
<1>1. UNCHANGED <<domains, accounts, groups, attribs, activation, passwords,
                  groupsAccounts, attribsGroups>>
    BY DEF attribAccountAdd, attribAccountRemove
<1>2. \A r \in attribsAccounts : r = <<r[1], r[2]>>
    BY DEF IInv, TypeOK
<1> DEFINE l == << <<"attrib", x>>, <<"account", a>> >>
<1>3. CASE attribAccountAdd(x, a)
  <2>1. attribsAccounts' = attribsAccounts \cup {<<x, a>>}
    BY <1>3 DEF attribAccountAdd
  <2>2. <<x, a>>[1] = x /\ <<x, a>>[2] = a
    OBVIOUS
  <2>3. ASSUME NEW m PROVE m \in StoreLinks' <=> m \in StoreLinks \/ m = l
    BY <1>1, <2>1, <2>2 DEF StoreLinks
  <2>4. StoreLinks' = StoreLinks \cup {l}
    BY <2>3
  <2>5. Present(<<"attrib", x>>) /\ Present(<<"account", a>>)
    BY <1>3 DEF attribAccountAdd, Present
  <2>6. StoreHolder(<<"attrib", x>>) = StoreHolder(<<"account", a>>)
    BY <1>3, Holders DEF attribAccountAdd
  <2> QED
    BY <1>1, <2>4, <2>5, <2>6, LinkMaps
<1>4. CASE attribAccountRemove(x, a)
  <2>1. attribsAccounts' = attribsAccounts \ {<<x, a>>}
    BY <1>4 DEF attribAccountRemove
  <2>2. \A r \in attribsAccounts : r # <<x, a>> <=> << <<"attrib", r[1]>>, <<"account", r[2]>> >> # l
    BY <1>2
  <2>3. ASSUME NEW m PROVE m \in StoreLinks' <=> m \in StoreLinks /\ m # l
    BY <1>1, <2>1, <2>2 DEF StoreLinks
  <2>4. StoreLinks' = StoreLinks \ {l}
    BY <2>3
  <2> QED
    BY <1>1, <2>4, UnlinkMaps
<1> QED
    BY <1>3, <1>4

\* domainRemove: a domain, with its accounts and what they have, its groups and attributes.
LEMMA DomainRemoveMaps == ASSUME IInv, IInv', NEW d \in Domains, domainRemove(d) PROVE Mapped
<1> DEFINE as == InDomain(accounts, d)
           gs == InDomain(groups, d)
           xs == InDomain(attribs, d)
           o == <<"domain", d>>
<1>1. Delete({d}, as, gs, xs)
    BY DEF domainRemove
<1>2. o \in StoreObjects
    BY DEF StoreObjects
<1>3. ASSUME NEW p \in StoreObjects, Present(p)
      PROVE  p \in Store!Below({o}) <=> Gone(p, {d}, as, gs, xs)
  <2>1. /\ \A k \in accounts : k \in as <=> k[2] = d
        /\ \A k \in groups : k \in gs <=> k[2] = d
        /\ \A k \in attribs : k \in xs <=> k[2] = d
        /\ as \subseteq accounts /\ gs \subseteq groups /\ xs \subseteq attribs
    BY DEF InDomain
  <2> HIDE DEF as, gs, xs
  <2>2. CASE \E e \in domains : p = <<"domain", e>>
    BY <1>2, <2>2, BelowOne, Holders DEF Gone
  <2>3. ASSUME NEW a \in accounts, p = <<"account", a>>
        PROVE  p \in Store!Below({o}) <=> Gone(p, {d}, as, gs, xs)
    <3>1. StoreHolder(p) = {<<"domain", a[2]>>} /\ StoreHolder(<<"domain", a[2]>>) = {}
      BY <2>3, Holders
    <3>2. p \in Store!Below({o}) <=> a[2] = d
      BY <1>2, <2>3, <3>1, BelowOne
    <3>3. Gone(p, {d}, as, gs, xs) <=> a \in as
      BY <2>3 DEF Gone
    <3> QED
      BY <2>1, <3>2, <3>3
  <2>4. ASSUME NEW g \in groups, p = <<"group", g>>
        PROVE  p \in Store!Below({o}) <=> Gone(p, {d}, as, gs, xs)
    <3>1. StoreHolder(p) = {<<"domain", g[2]>>} /\ StoreHolder(<<"domain", g[2]>>) = {}
      BY <2>4, Holders
    <3>2. p \in Store!Below({o}) <=> g[2] = d
      BY <1>2, <2>4, <3>1, BelowOne
    <3>3. Gone(p, {d}, as, gs, xs) <=> g \in gs
      BY <2>4 DEF Gone
    <3> QED
      BY <2>1, <3>2, <3>3
  <2>5. ASSUME NEW x \in attribs, p = <<"attrib", x>>
        PROVE  p \in Store!Below({o}) <=> Gone(p, {d}, as, gs, xs)
    <3>1. StoreHolder(p) = {<<"domain", x[2]>>} /\ StoreHolder(<<"domain", x[2]>>) = {}
      BY <2>5, Holders
    <3>2. p \in Store!Below({o}) <=> x[2] = d
      BY <1>2, <2>5, <3>1, BelowOne
    <3>3. Gone(p, {d}, as, gs, xs) <=> x \in xs
      BY <2>5 DEF Gone
    <3> QED
      BY <2>1, <3>2, <3>3
  <2>6. ASSUME NEW a \in DOMAIN activation, p = <<"activation", a>>
        PROVE  p \in Store!Below({o}) <=> Gone(p, {d}, as, gs, xs)
    <3> DEFINE q == <<"account", a>>
    <3>1. a \in accounts
      BY DEF IInv, Referring
    <3>2. q \in StoreObjects
      BY <3>1 DEF StoreObjects, IInv, TypeOK
    <3>3. StoreHolder(p) = {q} /\ StoreHolder(q) = {<<"domain", a[2]>>} /\ q # o
      BY <2>6, Holders
    <3>4. p \in Store!Below({o}) <=> a[2] = d
      <4> HIDE DEF q
      <4>1. p # o
        BY <2>6
      <4> QED
        BY <1>2, <4>1, <3>2, <3>3, BelowOne
    <3>5. Gone(p, {d}, as, gs, xs) <=> a \in as
      BY <2>6 DEF Gone
    <3> QED
      BY <2>1, <3>1, <3>4, <3>5
  <2>7. ASSUME NEW k \in DOMAIN passwords, p = <<"password", k>>
        PROVE  p \in Store!Below({o}) <=> Gone(p, {d}, as, gs, xs)
    <3> DEFINE a == k[2]
               q == <<"account", k[2]>>
    <3>1. k[2] \in accounts /\ k = <<k[1], k[2]>> /\ k[1] \in PassIndexes
      BY DEF IInv, Referring
    <3>2. q \in StoreObjects
      BY <3>1 DEF StoreObjects, IInv, TypeOK
    <3>3. StoreHolder(p) = {q} /\ StoreHolder(q) = {<<"domain", a[2]>>} /\ q # o
      BY <2>7, Holders
    <3>4. Gone(p, {d}, as, gs, xs) <=> a \in as
      <4>1. \A b, i : p = <<"password", <<i, b>>>> <=> i = k[1] /\ b = k[2]
        BY <2>7, <3>1
      <4>2. Gone(p, {d}, as, gs, xs) <=>
               \E b \in as : \E i \in PassIndexes : p = <<"password", <<i, b>>>>
        BY <2>7 DEF Gone
      <4> QED
        BY <3>1, <4>1, <4>2
    <3>5. p \in Store!Below({o}) <=> a[2] = d
      <4>1. p # o
        BY <2>7
      <4> HIDE DEF q, a
      <4> QED
        BY <1>2, <4>1, <3>2, <3>3, BelowOne
    <3> QED
      BY <2>1, <3>1, <3>4, <3>5
  <2> QED
    BY <1>3, <2>2, <2>3, <2>4, <2>5, <2>6, <2>7 DEF Present
<1> HIDE DEF as, gs, xs, o
<1> QED
    BY <1>1, <1>2, <1>3, OneLess

\* accountRemove: an account, with its activation and its passwords.
LEMMA AccountRemoveMaps == ASSUME IInv, IInv', NEW a \in Accounts, accountRemove(a) PROVE Mapped
<1> DEFINE o == <<"account", a>>
<1>1. Delete({}, {a}, {}, {})
    BY DEF accountRemove
<1>2. o \in StoreObjects
    BY DEF StoreObjects
<1>3. ASSUME NEW p \in StoreObjects, Present(p)
      PROVE  p \in Store!Below({o}) <=> Gone(p, {}, {a}, {}, {})
  <2>1. \A d : StoreHolder(<<"domain", d>>) = {} /\ <<"domain", d>> # o
    BY Holders
  <2>2. CASE \E d \in domains : p = <<"domain", d>>
    BY <1>2, <2>1, <2>2, BelowOne DEF Gone
  <2>3. ASSUME NEW b \in accounts, p = <<"account", b>>
        PROVE  p \in Store!Below({o}) <=> Gone(p, {}, {a}, {}, {})
    <3>1. StoreHolder(p) = {<<"domain", b[2]>>}
      BY <2>3, Holders
    <3>2. p \in Store!Below({o}) <=> p = o
      BY <1>2, <2>1, <3>1, BelowOne
    <3> QED
      BY <2>3, <3>2 DEF Gone
  <2>4. ASSUME NEW g \in groups, p = <<"group", g>>
        PROVE  p \in Store!Below({o}) <=> Gone(p, {}, {a}, {}, {})
    <3>1. StoreHolder(p) = {<<"domain", g[2]>>} /\ p # o
      BY <2>4, Holders
    <3>2. p \notin Store!Below({o})
      BY <1>2, <2>1, <3>1, BelowOne
    <3> QED
      BY <2>4, <3>2 DEF Gone
  <2>5. ASSUME NEW x \in attribs, p = <<"attrib", x>>
        PROVE  p \in Store!Below({o}) <=> Gone(p, {}, {a}, {}, {})
    <3>1. StoreHolder(p) = {<<"domain", x[2]>>} /\ p # o
      BY <2>5, Holders
    <3>2. p \notin Store!Below({o})
      BY <1>2, <2>1, <3>1, BelowOne
    <3> QED
      BY <2>5, <3>2 DEF Gone
  <2>6. ASSUME NEW b \in DOMAIN activation, p = <<"activation", b>>
        PROVE  p \in Store!Below({o}) <=> Gone(p, {}, {a}, {}, {})
    <3>1. StoreHolder(p) = {<<"account", b>>} /\ StoreHolder(<<"account", b>>) = {<<"domain", b[2]>>}
          /\ p # o
      BY <2>6, Holders
    <3>2. p \in Store!Below({o}) <=> b = a
      BY <1>2, <2>1, <3>1, BelowOne
    <3> QED
      BY <2>6, <3>2 DEF Gone
  <2>7. ASSUME NEW k \in DOMAIN passwords, p = <<"password", k>>
        PROVE  p \in Store!Below({o}) <=> Gone(p, {}, {a}, {}, {})
    <3>1. k = <<k[1], k[2]>> /\ k[1] \in PassIndexes
      BY DEF IInv, Referring
    <3>2. StoreHolder(p) = {<<"account", k[2]>>} /\ p # o
          /\ StoreHolder(<<"account", k[2]>>) = {<<"domain", k[2][2]>>}
      BY <2>7, Holders
    <3>3. p \in Store!Below({o}) <=> k[2] = a
      BY <1>2, <2>1, <3>2, BelowOne
    <3>4. \A b, i : p = <<"password", <<i, b>>>> <=> i = k[1] /\ b = k[2]
      BY <2>7, <3>1
    <3>5. Gone(p, {}, {a}, {}, {}) <=> \E i \in PassIndexes : p = <<"password", <<i, a>>>>
      BY <2>7 DEF Gone
    <3> QED
      BY <3>1, <3>3, <3>4, <3>5
  <2> QED
    BY <1>3, <2>2, <2>3, <2>4, <2>5, <2>6, <2>7 DEF Present
<1> HIDE DEF o
<1> QED
    BY <1>1, <1>2, <1>3, OneLess

\* Groups, attributes and passwords hold nothing: they go alone.
LEMMA NothingBelow ==
    ASSUME NEW o \in StoreObjects, o[1] \in {"group", "attrib", "password"},
           NEW p \in StoreObjects
    PROVE  p \in Store!Below({o}) <=> p = o
<1>1. \A q \in StoreObjects : o \notin StoreHolder(q)
    BY DEF StoreObjects, StoreHolder
<1> QED
    BY <1>1, BelowOne

\* groupRemove: a group.
LEMMA GroupRemoveMaps == ASSUME IInv, IInv', NEW g \in Groups, groupRemove(g) PROVE Mapped
<1> DEFINE o == <<"group", g>>
<1>1. Delete({}, {}, {g}, {})
    BY DEF groupRemove
<1>2. o \in StoreObjects /\ o[1] = "group"
    BY DEF StoreObjects
<1>3. \A p : Gone(p, {}, {}, {g}, {}) <=> p = o
    BY DEF Gone
<1> HIDE DEF o
<1>4. \A p \in StoreObjects : p \in Store!Below({o}) <=> p = o
    BY <1>2, NothingBelow
<1> QED
    BY <1>1, <1>2, <1>3, <1>4, OneLess

\* attribRemove: an attribute.
LEMMA AttribRemoveMaps == ASSUME IInv, IInv', NEW x \in Attribs, attribRemove(x) PROVE Mapped
<1> DEFINE o == <<"attrib", x>>
<1>1. Delete({}, {}, {}, {x})
    BY DEF attribRemove
<1>2. o \in StoreObjects /\ o[1] = "attrib"
    BY DEF StoreObjects
<1>3. \A p : Gone(p, {}, {}, {}, {x}) <=> p = o
    BY DEF Gone
<1> HIDE DEF o
<1>4. \A p \in StoreObjects : p \in Store!Below({o}) <=> p = o
    BY <1>2, NothingBelow
<1> QED
    BY <1>1, <1>2, <1>3, <1>4, OneLess

\* The first statement of accountChangePassword: a password goes.
LEMMA PasswordDeleteMaps ==
    ASSUME IInv, IInv', NEW t, NEW a \in Accounts, NEW i \in PassIndexes, NEW w,
           accountChangePassword(t, a, i, w)
    PROVE  Mapped
<1> DEFINE k == <<i, a>>
           o == <<"password", k>>
<1>1. UNCHANGED <<domains, accounts, groups, attribs, activation, groupsAccounts,
                  attribsGroups, attribsAccounts>>
    BY DEF accountChangePassword
<1>2. DOMAIN passwords' = DOMAIN passwords \ {k}
    BY DEF accountChangePassword, Without
<1>3. o \in StoreObjects /\ o[1] = "password"
    BY DEF StoreObjects
<1>4. \A p : Present(p)' <=> Present(p) /\ p # o
    BY <1>1, <1>2 DEF Present
<1> HIDE DEF o
<1>5. \A p \in StoreObjects : p \in Store!Below({o}) <=> p = o
    BY <1>3, NothingBelow
<1>6. /\ \A p : p \in StoreLive <=> Present(p)
      /\ \A p : p \in StoreLive' <=> Present(p)'
    BY ListsTellAll, ListsTellAllNext DEF IInv, ListsTell
<1>7. StoreLive' = StoreLive \ Store!Below({o})
    BY <1>4, <1>5, <1>6, PresentObjects DEF IInv
<1>8. ASSUME NEW l \in StoreLinks PROVE l[1] \notin Store!Below({o}) /\ l[2] \notin Store!Below({o})
  <2>1. /\ l[1] \in StoreLive /\ l[2] \in StoreLive
        /\ l[1][1] # "password" /\ l[2][1] # "password"
    BY <1>6, LinkRows DEF Present, IInv, Referring
  <2> QED
    BY <2>1, <1>3, <1>5, PresentObjects DEF IInv
<1>9. StoreLinks' = {l \in StoreLinks : l[1] \notin Store!Below({o}) /\ l[2] \notin Store!Below({o})}
    BY <1>1, <1>8, LinksStay
<1> QED
    BY <1>3, <1>7, <1>9 DEF Mapped, Store!Next, Store!Destroy

\* The other functions change what rows say, at most.
LEMMA OthersMap ==
    ASSUME IInv,
           \/ \E a \in Accounts : accountDisable(a)
           \/ \E a \in Accounts, e \in Expirations : accountChangeExpiration(a, e)
           \/ \E t \in Threads : accountConfirmUpdate(t) \/ authenticateNext(t) \/ Return(t)
           \/ \E t \in Threads, a \in Accounts, k \in Tokens : accountConfirm(t, a, k)
           \/ \E t \in Threads, a \in Accounts, i \in PassIndexes, w \in Passwords :
                 authenticate(t, a, i, w)
           \/ Tick \/ Crash \/ UNCHANGED vars
    PROVE  Mapped
<1>1. /\ UNCHANGED <<domains, accounts, groups, attribs, passwords, groupsAccounts,
                     attribsGroups, attribsAccounts>>
      /\ DOMAIN activation' = DOMAIN activation
    BY DEF accountDisable, accountChangeExpiration, accountConfirmUpdate, authenticateNext,
           Return, accountConfirm, authenticate, Tick, Crash, vars, tables
<1> QED
    BY <1>1, NothingMoves

\* Every step of the tables is a step of the store or none.
LEMMA NextMaps == ASSUME IInv, IInv', [Next]_vars PROVE Mapped
<1>1. ASSUME Administer PROVE Mapped
    BY <1>1, DomainAddMaps, DomainRemoveMaps, AccountRemoveMaps, OthersMap, GroupAddMaps,
       GroupRemoveMaps, AttribAddMaps, AttribRemoveMaps, GroupAccountMaps, AttribGroupMaps,
       AttribAccountMaps DEF Administer
<1>2. ASSUME NEW t \in Threads, Call(t) PROVE Mapped
    BY <1>2, AccountAddMaps, ActivationMaps, PasswordMaps, PasswordDeleteMaps, OthersMap DEF Call
<1> QED
    BY <1>1, <1>2, OthersMap DEF Next

\* The empty database is the empty store.
LEMMA InitMaps == Init => Store!Init
<1> SUFFICES ASSUME Init PROVE StoreLive = {} /\ StoreLinks = {}
    BY DEF Store!Init
<1>1. TypeOK
    BY InitHolds DEF IInv
<1>2. \A o : ~Present(o)
    BY DEF Init, Present
<1> QED
    BY <1>1, <1>2, ListsTellAll DEF ListsTell, Init, StoreLinks

\* The tables are a store, as the lists of each domain show it, whatever callers interleave
\* and whenever the process stops: nothing refers to what is gone, and what goes takes all it
\* holds with it in one step.
THEOREM Refinement == Spec => ImplementsStore
<1>1. IInv /\ IInv' /\ [Next]_vars => [Store!Next]_(Store!vars)
    BY NextMaps DEF Mapped
<1> QED
    BY <1>1, InitMaps, Invariance, PTL DEF Spec, ImplementsStore, Store!Spec

\* Three levels are all there are: what hangs on an account holds nothing.
LEMMA StoreLevels == Store!ThreeLevels
<1>1. ASSUME NEW o \in StoreObjects, NEW p \in StoreHolder(o)
      PROVE  p \in StoreObjects /\ \A q \in StoreHolder(p) : StoreHolder(q) = {}
  <2>1. CASE \E d \in Domains : o = <<"domain", d>>
    BY <1>1, <2>1, Holders
  <2>2. ASSUME NEW a, a[2] \in Domains,
               o \in {<<"account", a>>, <<"group", a>>, <<"attrib", a>>}
        PROVE  p \in StoreObjects /\ \A q \in StoreHolder(p) : StoreHolder(q) = {}
    <3>1. p = <<"domain", a[2]>>
      BY <1>1, <2>2, Holders
    <3> QED
      BY <3>1, <2>2, Holders DEF StoreObjects
  <2>3. ASSUME NEW a \in Accounts, p = <<"account", a>>
        PROVE  p \in StoreObjects /\ \A q \in StoreHolder(p) : StoreHolder(q) = {}
    <3>1. StoreHolder(p) = {<<"domain", a[2]>>}
      BY <2>3, Holders
    <3> QED
      BY <3>1, <2>3, Holders DEF StoreObjects
  <2>4. CASE \E a \in Accounts : o = <<"activation", a>>
    BY <1>1, <2>3, <2>4, Holders
  <2>5. CASE \E k \in PassIndexes \X Accounts : o = <<"password", k>>
    BY <1>1, <2>3, <2>5, Holders
  <2>6. \A k : k \in Accounts \cup Groups \cup Attribs => k[2] \in Domains
    BY DEF Accounts, Groups, Attribs
  <2> QED
    BY <2>1, <2>2, <2>4, <2>5, <2>6 DEF StoreObjects
<1> QED
    BY <1>1 DEF Store!ThreeLevels

-----------------------------------------------------------------------------
\* In a store of three levels, what is held by something that goes goes too (Below).
LEMMA BelowIsClosed ==
    ASSUME Store!ThreeLevels, NEW o \in StoreObjects, NEW p \in StoreObjects,
           StoreHolder(p) \cap Store!Below({o}) # {}
    PROVE  p \in Store!Below({o})
<1> DEFINE held(T) == T \cup {x \in StoreObjects : StoreHolder(x) \cap T # {}}
<1>1. Store!Below({o}) = held(held({o}))
    BY DEF Store!Below
<1>2. PICK q \in StoreHolder(p) : q \in held(held({o}))
    BY <1>1
<1>3. CASE q \in held({o})
    BY <1>1, <1>3
<1>4. CASE q \notin held({o})
  <2>1. PICK r \in StoreHolder(q) : r \in held({o})
    BY <1>2, <1>4
  <2>2. r # o
    BY <1>2, <1>4, <2>1 DEF Store!ThreeLevels
  <2>3. StoreHolder(r) \cap {o} # {}
    BY <2>1, <2>2
  <2> QED
    BY <1>2, <2>1, <2>3 DEF Store!ThreeLevels
<1> QED
    BY <1>3, <1>4

\* The abstract store: whatever is created, destroyed, linked and unlinked, an object's holder
\* exists and a link's ends do, if nothing is held more than three levels deep.
THEOREM StoreKeepsIntegrity ==
    ASSUME Store!ThreeLevels
    PROVE  Store!Spec => []Store!Integrity
<1> DEFINE Whole == StoreLive \subseteq StoreObjects /\ Store!Integrity
<1>1. Store!Init => Whole
    BY DEF Store!Init, Store!Integrity
<1>2. ASSUME Whole, [Store!Next]_(Store!vars) PROVE Whole'
  <2> USE DEF Store!Integrity
  <2>1. ASSUME NEW o \in StoreObjects, Store!Create(o) PROVE Whole'
    BY <1>2, <2>1 DEF Store!Create
  <2>2. ASSUME NEW o \in StoreObjects, Store!Destroy({o}) PROVE Whole'
    <3> DEFINE gone == Store!Below({o})
    <3>1. /\ StoreLive' = StoreLive \ gone
          /\ StoreLinks' = {l \in StoreLinks : l[1] \notin gone /\ l[2] \notin gone}
      BY <2>2 DEF Store!Destroy
    <3>2. \A p \in StoreObjects : StoreHolder(p) \cap gone # {} => p \in gone
      BY BelowIsClosed
    <3> HIDE DEF gone
    <3> QED
      BY <1>2, <3>1, <3>2
  <2>3. ASSUME NEW o \in StoreObjects, NEW p \in StoreObjects, Store!Link(o, p) PROVE Whole'
    <3>1. \A l \in StoreLinks' : l \in StoreLinks \/ l = <<o, p>>
      BY <2>3 DEF Store!Link
    <3> QED
      BY <1>2, <2>3, <3>1 DEF Store!Link
  <2>4. ASSUME NEW l \in StoreLinks, Store!Unlink(l) PROVE Whole'
    BY <1>2, <2>4 DEF Store!Unlink
  <2>5. CASE UNCHANGED Store!vars
    BY <1>2, <2>5 DEF Store!vars
  <2> QED
    BY <1>2, <2>1, <2>2, <2>3, <2>4, <2>5 DEF Store!Next
<1>3. Whole => Store!Integrity
    OBVIOUS
<1> HIDE DEF Whole
<1> QED
    BY <1>1, <1>2, <1>3, PTL DEF Store!Spec

\* What the abstract store owes, the tables keep: no row of an account without its domain, no
\* activation, password or relation without its account (the cascades of the tables).
THEOREM IntegrityKept == Spec => []Store!Integrity
    BY Refinement, StoreKeepsIntegrity, StoreLevels, PTL DEF ImplementsStore
=============================================================================
