------------------------------ MODULE RpcServer ------------------------------
(***************************************************************************)
(* JAsyncRPC_Server, one per connection, and the JAsyncRPC_Server_Methods  *)
(* they share. The thread of a connection parses its requests line by      *)
(* line, logs its session in, decides whether a method may run and pushes  *)
(* it into the pool; a worker runs it later, with the session as it is     *)
(* then, and both write answers to the same stream.                        *)
(*                                                                         *)
(* The pool is what ThreadPool shows of it: a task that is pushed runs     *)
(* once, in no order, and a push into a full queue may time out. The       *)
(* authenticator is what AuthRules and its stores show of it. A server     *)
(* stays until its tasks have run: its owner sees to that, the server does *)
(* not.                                                                    *)
(***************************************************************************)
EXTENDS Naturals, FiniteSets, SequencesExt, RpcFunctions

CONSTANTS Conns, Workers, None,
          Users, Attribs,
          Messages,            \* what a client sends
          Application,         \* the methods of the application, which change no rights: their reqAttribs
          methodAttribs,       \* of IAuth_Methods_Attributes: <<method, attribute>>
          attribPassIndexes,   \* and <<attribute, index of a password>>
          authPolicies,        \* validTime by index of a password
          InitialRights,
          MaxMessages, MaxUnread, QueueLimit, MaxNow  \* MaxUnread: lines a client sends ahead

\* What a client gives as a user, a password and an index; None is what it leaves out
Authentications == [user : STRING \cup {None}, pass : STRING \cup {None}, idx : Nat \cup {None}]

ASSUME RpcServerAssumption ==
    /\ None \notin Workers \cup Conns /\ Workers \cap Conns = {}
    /\ methodAttribs \subseteq STRING \X Attribs
    /\ attribPassIndexes \subseteq Attribs \X Nat
    /\ MaxMessages \in Nat /\ MaxUnread \in Nat /\ QueueLimit \in Nat /\ MaxNow \in Nat
    /\ Workers # {}  \* the application gives the pool a thread
    /\ \A m \in Messages : m.auths \in Seq(Authentications)
    /\ DOMAIN InitialRights = {"accounts", "disabled", "holds"}
    /\ DOMAIN InitialRights.accounts \subseteq Users
    /\ InitialRights.disabled \subseteq DOMAIN InitialRights.accounts
    /\ InitialRights.holds \subseteq Attribs \X DOMAIN InitialRights.accounts

VARIABLES
    wire,      \* wire[c]: the lines that are on their way to the server
    sent,      \* sent[c]: the messages they make; the place of a message is its reqId
    gone,      \* the connections whose client has left
    parser,    \* parser[c]: currentParser and what it has parsed
    session,   \* session[c]: IAuth_Session
    reader,    \* reader[c]: what the thread of the connection is doing
    sender,    \* sender[c]: who holds mutex_send
    out,       \* out[c]: the first and last lines of the answers that were written
    tasks,     \* the tasks in the pool
    worker,    \* worker[w]: what it is doing
    methods,   \* the methods that were added: their reqAttribs, which nothing reads
    rights,    \* accounts and attributes, of the authenticator
    now,
    permits,   \* what every task was let run for (history)
    ran,       \* the methods that ran (history)
    logins,    \* logins[c]: how many have succeeded (history)
    accepted   \* accepted[c]: when the last one was made, if it was accepted (history)

ioVars == <<wire, sent, gone>>
history == <<permits, ran, logins, accepted>>
vars == <<ioVars, parser, session, reader, sender, out, tasks, worker, methods, rights, now, history>>

Put(f, k, v) == [x \in DOMAIN f \cup {k} |-> IF x = k THEN v ELSE f[x]]

NewRequest == [method |-> "", mode |-> "EXEC", payload |-> <<>>, ids |-> [reqId |-> 0],
               extra |-> <<>>, auths |-> <<>>]

NewParser == [at |-> "handshake", field |-> 1, version |-> "", req |-> NewRequest]

NewSession == [user |-> "", matrix |-> <<>>]

Reading == [at |-> "reading"]

Init ==
    /\ wire = [c \in Conns |-> <<>>] /\ sent = [c \in Conns |-> <<>>] /\ gone = {}
    /\ parser = [c \in Conns |-> NewParser]
    /\ session = [c \in Conns |-> NewSession]
    /\ reader = [c \in Conns |-> Reading]
    /\ sender = [c \in Conns |-> None] /\ out = [c \in Conns |-> <<>>]
    /\ tasks = {} /\ worker = [w \in Workers |-> [at |-> "idle"]]
    /\ methods = [m \in DOMAIN AuthFunctions |-> reqAttribs]
    /\ rights = InitialRights /\ now = 0
    /\ permits = {} /\ ran = {} /\ logins = [c \in Conns |-> 0]
    /\ accepted = [c \in Conns |-> {}]

-----------------------------------------------------------------------------
(* The authenticator *)

Authenticate(user, pass, i) ==
    CASE user \notin DOMAIN rights.accounts -> "BAD_ACCOUNT"
      [] user \in rights.disabled -> "DISABLED_ACCOUNT"
      [] OTHER -> IF rights.accounts[user][i] = pass THEN "AUTHENTICATED" ELSE "BAD_PASSWORD"

accountValidateAttribute(user, attrib) == <<attrib, user>> \in rights.holds

\* The calls that change who may do what: attributes that an account has through a group do not
\* count in accountValidateAttribute
Apply(function, a) ==
    CASE function = "accountRemove" ->
           [rights EXCEPT !.accounts = [u \in DOMAIN @ \ {a[1]} |-> @[u]],
                          !.disabled = @ \ {a[1]}, !.holds = {h \in @ : h[2] # a[1]}]
      [] function = "accountDisable" ->
           [rights EXCEPT !.disabled = IF a[3] = TRUE THEN @ \cup ({a[1]} \cap DOMAIN rights.accounts)
                                       ELSE @ \ {a[1]}]
      [] function = "accountChangePassword" ->
           IF a[1] \in DOMAIN rights.accounts THEN [rights EXCEPT !.accounts[a[1]][a[3]] = a[2]] ELSE rights
      [] function = "attribRemove" -> [rights EXCEPT !.holds = {h \in @ : h[1] # a[1]}]
      [] function = "attribAccountAdd" ->
           IF a[1] \in Attribs /\ a[2] \in DOMAIN rights.accounts
           THEN [rights EXCEPT !.holds = @ \cup {<<a[1], a[2]>>}] ELSE rights
      [] function = "attribAccountRemove" -> [rights EXCEPT !.holds = @ \ {<<a[1], a[2]>>}]
      [] OTHER -> rights

-----------------------------------------------------------------------------
(* IAuth_Session and IAuth_Methods_Attributes *)

isAuthenticated(c, i) ==
    LET s == session[c]
    IN  IF i \notin DOMAIN s.matrix THEN "UNAUTHENTICATED"
        ELSE IF /\ s.matrix[i].reason = "AUTHENTICATED"
                /\ i \in DOMAIN authPolicies /\ authPolicies[i] > 0
                /\ s.matrix[i].time + authPolicies[i] < now
        THEN "EXPIRED" ELSE s.matrix[i].reason

\* The user is the one of the main password
authenticate(c, user, pass, i) ==
    LET reason == Authenticate(user, pass, i)
    IN  session' = [session EXCEPT
            ![c].matrix = Put(@, i, [reason |-> reason, time |-> now]),
            ![c].user = IF i = 0 /\ reason = "AUTHENTICATED" THEN user ELSE @]

getMethodAttribs(m) == {x \in Attribs : <<m, x>> \in methodAttribs}

getAttribPassIndexes(x) == {0} \cup {i \in {r[2] : r \in attribPassIndexes} : <<x, i>> \in attribPassIndexes}

getMethodPassIndexes(m) == UNION {getAttribPassIndexes(x) : x \in getMethodAttribs(m)}

MutValidateMethod(c, m, extraTmpIndexes) ==  \* one of the attributes is enough
    /\ \A i \in getMethodPassIndexes(m) : isAuthenticated(c, i) = "AUTHENTICATED" \/ i \in extraTmpIndexes
    /\ \/ getMethodAttribs(m) = {}
       \/ \E x \in getMethodAttribs(m) : accountValidateAttribute(session[c].user, x)

validateMethod(c, m, extraTmpIndexes) ==
    /\ \A i \in getMethodPassIndexes(m) : isAuthenticated(c, i) = "AUTHENTICATED" \/ i \in extraTmpIndexes
    /\ \A x \in getMethodAttribs(m) : accountValidateAttribute(session[c].user, x)

-----------------------------------------------------------------------------
(* JAsyncRPC_Handshake::parse and JAsyncRPC_Request::parse, line by line. A line is a text, a *)
(* value in JSON, or empty.                                                                    *)
Text(x) == <<x>>
JSON(x) == <<"JSON", x>>
Empty == <<>>

HandshakeLines == 6
Fields == <<"method", "mode", "payload", "ids", "extra">>

\* fromJSON: an object with a user, a password and an index
fromJSON(a) == None \notin {a.user, a.pass, a.idx}

ParseHandshake(p, line) ==
    [status |-> IF p.field = HandshakeLines THEN "next" ELSE "more",
     p |-> [p EXCEPT !.version = IF p.field = 1 /\ line # Empty THEN Last(line) ELSE @,
                     !.field = IF @ = HandshakeLines THEN 1 ELSE @ + 1]]

addAuthentication(req, a) == [req EXCEPT !.auths = Put(@, a.idx, a)]

ParseRequest(p, line) ==
    CASE p.field <= Len(Fields) ->
           [status |-> "more",
            p |-> [p EXCEPT !.req[Fields[p.field]] = IF line = Empty THEN NewRequest[Fields[p.field]] ELSE Last(line),
                            !.field = @ + 1]]
      [] p.field > Len(Fields) /\ line = Empty -> [status |-> "next", p |-> [p EXCEPT !.field = 1]]
      [] p.field > Len(Fields) /\ line # Empty ->
           IF fromJSON(Last(line)) THEN [status |-> "more", p |-> [p EXCEPT !.req = addAuthentication(@, Last(line))]]
           ELSE [status |-> "error", p |-> p]

Parse(p, line) == IF p.at = "handshake" THEN ParseHandshake(p, line) ELSE ParseRequest(p, line)

MutClear(p) == [p EXCEPT !.req = [NewRequest EXCEPT !.auths = p.req.auths], !.field = 1]

clear(p) == [p EXCEPT !.req = NewRequest, !.field = 1]

\* The lines of a message
Stream(m, id) ==
    <<Text(m.method), Text(m.mode), JSON(m.payload), JSON([reqId |-> id]), JSON(m.extra)>>
    \o [i \in DOMAIN m.auths |-> JSON(m.auths[i])] \o <<Empty>>

HandshakeStream(version) == <<Text(version)>> \o [i \in 1 .. HandshakeLines - 1 |-> Empty]

validateHandshake(p) == p.version = "JSON_ASYNC_RPC_1_0"

-----------------------------------------------------------------------------
(* sendAnswer: the lines of an answer are written with mutex_send locked, and go nowhere when *)
(* the client has gone                                                                         *)
Answer(mode, id, code) == [mode |-> mode, id |-> id, code |-> code]

Written(c, answer, part) == IF c \in gone THEN out[c] ELSE Append(out[c], [answer |-> answer, part |-> part])

MutSendFirst(t, c, answer) ==  \* without the mutex
    /\ sender' = [sender EXCEPT ![c] = t]
    /\ out' = [out EXCEPT ![c] = Written(c, answer, "first")]

SendFirst(t, c, answer) ==
    /\ sender[c] = None
    /\ sender' = [sender EXCEPT ![c] = t]
    /\ out' = [out EXCEPT ![c] = Written(c, answer, "first")]

SendLast(t, c, answer) ==
    /\ sender' = [sender EXCEPT ![c] = None]
    /\ out' = [out EXCEPT ![c] = Written(c, answer, "last")]

-----------------------------------------------------------------------------
(* The thread of a connection *)

\* After a request: the next one. The sending thread goes to p, or ends when the client has gone
\* and the answer is one whose sending is looked at.
Continue(c) == parser' = [parser EXCEPT ![c] = clear(@)] /\ reader' = [reader EXCEPT ![c] = Reading]

ToSend(c, answer, minds) ==
    reader' = [reader EXCEPT ![c] = [at |-> "sending", answer |-> answer, minds |-> minds]]

End(c) ==
    /\ parser' = [parser EXCEPT ![c].at = "none"]
    /\ reader' = [reader EXCEPT ![c] = [at |-> "over"]]

persistentAuthentication(c) ==
    LET auths == parser[c].req.auths
        a == IF 0 \in DOMAIN auths THEN auths[0] ELSE [user |-> "", pass |-> "", idx |-> 0]
        reason == Authenticate(a.user, a.pass, a.idx)
    IN  /\ authenticate(c, a.user, a.pass, a.idx)
        /\ logins' = [logins EXCEPT ![c] = IF reason = "AUTHENTICATED" THEN @ + 1 ELSE @]
        /\ accepted' = [accepted EXCEPT ![c] = IF a.idx # 0 THEN @ ELSE IF reason = "AUTHENTICATED" THEN {now} ELSE {}]
        /\ ToSend(c, Answer("AUTH", 0, reason), FALSE)

\* getAuthenticationsIdxs, tried in order up to one that is wrong
FirstBad(c) ==
    {i \in DOMAIN parser[c].req.auths :
        Authenticate(session[c].user, parser[c].req.auths[i].pass, i) # "AUTHENTICATED"}

\* What it answers when it is not "OK"
validateRPCMethodPerms(c, m, extraTmpIndexes) ==
    CASE m \notin DOMAIN methods -> "METHODNOTFOUND"
      [] m \in DOMAIN methods /\ validateMethod(c, m, extraTmpIndexes) -> "OK"
      [] m \in DOMAIN methods /\ ~validateMethod(c, m, extraTmpIndexes) -> "INVALIDAUTH"

\* Everything processRequest decides before it pushes: reader[c] is "processing"
ProcessRequest(c) ==
    LET r == parser[c].req
        tmp == DOMAIN r.auths
    IN  /\ reader[c].at = "processing"
        /\ \/ /\ r.mode = "QUIT" /\ End(c)
              /\ UNCHANGED <<session, history>>
           \/ /\ r.mode = "AUTH" /\ r.method = "LOGIN"
              /\ persistentAuthentication(c)
              /\ UNCHANGED <<parser, permits, ran>>
           \/ /\ r.mode \notin {"QUIT", "EXEC"} /\ ~(r.mode = "AUTH" /\ r.method = "LOGIN")
              /\ Continue(c)
              /\ UNCHANGED <<session, history>>
           \/ /\ r.mode = "EXEC" /\ FirstBad(c) # {}
              /\ ToSend(c, Answer("EXEC", r.ids.reqId, "INVALIDLOCALAUTH"), FALSE)
              /\ UNCHANGED <<parser, session, history>>
           \/ /\ r.mode = "EXEC" /\ FirstBad(c) = {}
              /\ LET allowed == validateRPCMethodPerms(c, r.method, tmp) IN
                 IF allowed = "OK"
                 THEN /\ reader' = [reader EXCEPT ![c] = [at |-> "pushing"]]
                      /\ permits' = permits \cup
                           {[conn |-> c, id |-> r.ids.reqId, user |-> session[c].user, logins |-> logins[c],
                             held |-> {x \in Attribs : <<x, session[c].user>> \in rights.holds},
                             indexes |-> {i \in DOMAIN session[c].matrix : isAuthenticated(c, i) = "AUTHENTICATED"}]}
                      /\ UNCHANGED <<ran, logins, accepted>>
                 ELSE ToSend(c, Answer("EXEC", r.ids.reqId, allowed), TRUE) /\ UNCHANGED history
              /\ UNCHANGED <<parser, session>>
        /\ UNCHANGED <<ioVars, sender, out, tasks, worker, methods, rights, now>>

\* A line is parsed; the last one of a handshake or a request is acted on
Parsed(c, line) ==
    LET got == Parse(parser[c], line)
    IN  \/ /\ got.status = "more"
           /\ parser' = [parser EXCEPT ![c] = got.p]
           /\ UNCHANGED reader
        \/ /\ got.status = "error"
           /\ End(c)
        \/ /\ got.status = "next" /\ parser[c].at = "handshake"
           /\ IF validateHandshake(got.p)
              THEN parser' = [parser EXCEPT ![c] = [got.p EXCEPT !.at = "request"]] /\ UNCHANGED reader
              ELSE End(c)
        \/ /\ got.status = "next" /\ parser[c].at = "request"
           /\ parser' = [parser EXCEPT ![c] = got.p]
           /\ reader' = [reader EXCEPT ![c] = [at |-> "processing"]]

ReadLine(c) ==
    /\ reader[c].at = "reading" /\ parser[c].at # "none" /\ wire[c] # <<>>
    /\ wire' = [wire EXCEPT ![c] = Tail(@)]
    /\ Parsed(c, Head(wire[c]))
    /\ UNCHANGED <<sent, gone, session, sender, out, tasks, worker, methods, rights, now, history>>

\* The end of the stream is one more line, empty; what comes of it is dealt with, and no more read
ReadEnd(c) ==
    /\ reader[c].at = "reading" /\ parser[c].at # "none" /\ wire[c] = <<>> /\ c \in gone
    /\ LET got == Parse(parser[c], Empty)
       IN  IF got.status = "next" /\ parser[c].at = "request"
           THEN /\ parser' = [parser EXCEPT ![c] = got.p]
                /\ reader' = [reader EXCEPT ![c] = [at |-> "processing"]]
           ELSE End(c)
    /\ UNCHANGED <<ioVars, session, sender, out, tasks, worker, methods, rights, now, history>>

\* sRPCParameters: the session is the connection's, as it will be when the method runs
Task(c) ==
    LET r == parser[c].req
    IN  [conn |-> c, id |-> r.ids.reqId, method |-> r.method, payload |-> r.payload]

MutPushTask(c) ==  \* a push that times out is not looked at
    /\ reader[c].at = "pushing"
    /\ tasks' = IF Cardinality(tasks) > QueueLimit THEN tasks ELSE tasks \cup {Task(c)}
    /\ Continue(c)
    /\ UNCHANGED <<ioVars, session, sender, out, worker, methods, rights, now, history>>

\* pushRPCMethodIntoQueue: the queue has room, or the push timed out waiting for it
PushTask(c) ==
    LET r == parser[c].req
    IN  /\ reader[c].at = "pushing"
        /\ \/ /\ Cardinality(tasks) <= QueueLimit
              /\ tasks' = tasks \cup {Task(c)}
              /\ Continue(c)
           \/ /\ Cardinality(tasks) > QueueLimit
              /\ ToSend(c, Answer("EXEC", r.ids.reqId, "TIMEDOUT"), TRUE)
              /\ UNCHANGED <<tasks, parser>>
        /\ UNCHANGED <<ioVars, session, sender, out, worker, methods, rights, now, history>>

ReaderSendsFirst(c) ==
    /\ reader[c].at = "sending"
    /\ SendFirst(c, c, reader[c].answer)
    /\ reader' = [reader EXCEPT ![c].at = "sending last"]
    /\ UNCHANGED <<ioVars, parser, session, tasks, worker, methods, rights, now, history>>

ReaderSendsLast(c) ==
    /\ reader[c].at = "sending last"
    /\ SendLast(c, c, reader[c].answer)
    /\ IF c \in gone /\ reader[c].minds THEN End(c) ELSE Continue(c)
    /\ UNCHANGED <<ioVars, session, tasks, worker, methods, rights, now, history>>

-----------------------------------------------------------------------------
(* The workers: executeRPC *)

TakeTask(w) ==
    /\ worker[w].at = "idle"
    /\ \E t \in tasks :
          /\ tasks' = tasks \ {t}
          /\ worker' = [worker EXCEPT ![w] = [at |-> "running", task |-> t]]
    /\ UNCHANGED <<ioVars, parser, session, reader, sender, out, methods, rights, now, history>>

RunRPCMethod(w) ==
    /\ worker[w].at = "running"
    /\ LET t == worker[w].task
           done(code) == worker' = [worker EXCEPT ![w] = [at |-> "sending", task |-> t,
                                                           answer |-> Answer("EXEC", t.id, code)]]
       IN  \/ /\ isAuthenticated(t.conn, 0) # "AUTHENTICATED"
              /\ done("UNAUTHENTICATED")
              /\ UNCHANGED <<rights, ran>>
           \/ /\ isAuthenticated(t.conn, 0) = "AUTHENTICATED" /\ t.method \notin DOMAIN methods
              /\ done("METHODNOTFOUND")
              /\ UNCHANGED <<rights, ran>>
           \/ /\ isAuthenticated(t.conn, 0) = "AUTHENTICATED" /\ t.method \in DOMAIN methods
              /\ done("SUCCESS")
              /\ rights' = IF t.method \in DOMAIN AuthFunctions
                           THEN LET call == AuthFunctions[t.method]
                                IN  Apply(call.function, Arguments(call, t.payload))
                           ELSE rights
              /\ ran' = ran \cup {[conn |-> t.conn, id |-> t.id, method |-> t.method,
                                   user |-> session[t.conn].user, logins |-> logins[t.conn],
                                   now |-> now, accepted |-> accepted[t.conn]]}
    /\ UNCHANGED <<ioVars, parser, session, reader, sender, out, tasks, methods, now, permits, logins, accepted>>

WorkerSendsFirst(w) ==
    /\ worker[w].at = "sending"
    /\ SendFirst(w, worker[w].task.conn, worker[w].answer)
    /\ worker' = [worker EXCEPT ![w].at = "sending last"]
    /\ UNCHANGED <<ioVars, parser, session, reader, tasks, methods, rights, now, history>>

WorkerSendsLast(w) ==
    /\ worker[w].at = "sending last"
    /\ SendLast(w, worker[w].task.conn, worker[w].answer)
    /\ worker' = [worker EXCEPT ![w] = [at |-> "idle"]]
    /\ UNCHANGED <<ioVars, parser, session, reader, tasks, methods, rights, now, history>>

-----------------------------------------------------------------------------
(* The clients, the application and the clock *)

Greet(c) ==
    /\ c \notin gone /\ sent[c] = <<>> /\ wire[c] = <<>> /\ parser[c] = NewParser
    /\ \E v \in {"JSON_ASYNC_RPC_1_0", "other"} : wire' = [wire EXCEPT ![c] = HandshakeStream(v)]
    /\ UNCHANGED <<sent, gone, parser, session, reader, sender, out, tasks, worker, methods, rights, now, history>>

SendMessage(c, m) ==
    /\ c \notin gone /\ Len(sent[c]) < MaxMessages /\ Len(wire[c]) <= MaxUnread
    /\ parser[c].at = "request"
    /\ sent' = [sent EXCEPT ![c] = Append(@, m)]
    /\ wire' = [wire EXCEPT ![c] = @ \o Stream(m, Len(sent[c]) + 1)]
    /\ UNCHANGED <<gone, parser, session, reader, sender, out, tasks, worker, methods, rights, now, history>>

\* The client leaves, and only n of the lines that are on their way arrive
Leave(c, n) ==
    /\ c \notin gone
    /\ gone' = gone \cup {c}
    /\ wire' = [wire EXCEPT ![c] = SubSeq(@, 1, n)]
    /\ UNCHANGED <<sent, parser, session, reader, sender, out, tasks, worker, methods, rights, now, history>>

addRPCMethod(m, attribs) ==
    /\ m \notin DOMAIN methods
    /\ methods' = Put(methods, m, attribs)
    /\ UNCHANGED <<ioVars, parser, session, reader, sender, out, tasks, worker, rights, now, history>>

Tick ==
    /\ now < MaxNow
    /\ now' = now + 1
    /\ UNCHANGED <<ioVars, parser, session, reader, sender, out, tasks, worker, methods, rights, history>>

Reader(c) == ReadLine(c) \/ ReadEnd(c) \/ ProcessRequest(c) \/ PushTask(c) \/ ReaderSendsFirst(c) \/ ReaderSendsLast(c)

Worker(w) == TakeTask(w) \/ RunRPCMethod(w) \/ WorkerSendsFirst(w) \/ WorkerSendsLast(w)

Client(c) == Greet(c) \/ (\E m \in Messages : SendMessage(c, m)) \/ \E n \in 0 .. Len(wire[c]) : Leave(c, n)

Next ==
    \/ \E c \in Conns : Reader(c) \/ Client(c)
    \/ \E w \in Workers : Worker(w)
    \/ \E m \in DOMAIN Application : addRPCMethod(m, Application[m])
    \/ Tick

Spec == Init /\ [][Next]_vars

-----------------------------------------------------------------------------
TypeOK ==
    /\ \A c \in Conns :
        /\ parser[c].at \in {"handshake", "request", "none"}
        /\ parser[c].field \in 1 .. HandshakeLines
        /\ reader[c].at \in {"reading", "processing", "pushing", "sending", "sending last", "over"}
        /\ sender[c] \in Workers \cup {c, None}
        /\ session[c].user \in Users \cup {""}
    /\ \A w \in Workers : worker[w].at \in {"idle", "running", "sending", "sending last"}
    /\ Cardinality(tasks) <= QueueLimit + 1
    /\ DOMAIN rights.accounts \subseteq Users /\ rights.disabled \subseteq DOMAIN rights.accounts
    /\ rights.holds \subseteq Attribs \X DOMAIN rights.accounts

\* Two threads write answers to one stream: the lines of an answer are together.
LinesTogether ==
    \A c \in Conns :
        /\ \A i \in DOMAIN out[c] : (out[c][i].part = "last") <=> (i % 2 = 0)
        /\ \A i \in DOMAIN out[c] : i % 2 = 0 => out[c][i].answer = out[c][i - 1].answer

\* And each answer is there once.
AnswersAreWhole ==
    /\ LinesTogether
    /\ \A c \in Conns : \A i, j \in DOMAIN out[c] :
          i % 2 = 1 /\ j % 2 = 1 /\ i # j /\ out[c][i].answer.mode = "EXEC" =>
              out[c][i].answer.id # out[c][j].answer.id

\* A method runs once and only after it was let run: for an account that then had each attribute
\* that IAuth_Methods_Attributes has for the method, in a session authenticated with each of the
\* passwords those need, or by a request that carried them itself. No password of another request
\* counts. The attributes a method was added with are not asked for, {"admin"} of the functions of
\* the authenticator among them: only what the application wrote into getMethodsAttribs counts.
RanAsPermitted ==
    \A r \in ran :
        /\ Cardinality({s \in ran : s.conn = r.conn /\ s.id = r.id}) = 1
        /\ \E p \in permits :
              /\ p.conn = r.conn /\ p.id = r.id
              /\ getMethodAttribs(r.method) \subseteq p.held
              /\ getMethodPassIndexes(r.method) \subseteq
                    p.indexes \cup {a.idx : a \in ToSet(sent[r.conn][r.id].auths)}

\* A method sees in its session the account it was let run for, unless another login was
\* made on the connection while it was in the pool.
RanForItsUser ==
    \A r \in ran : \E p \in permits :
        p.conn = r.conn /\ p.id = r.id /\ (p.user = r.user \/ p.logins # r.logins)

\* And a method runs only in a session whose last login was accepted and is not too old by then:
\* a login that is refused, or expires, while the method is in the pool stops it. An attribute or
\* an account that is taken away meanwhile does not.
RanLoggedIn ==
    \A r \in ran : \E t \in r.accepted :
        ~(0 \in DOMAIN authPolicies /\ authPolicies[0] > 0 /\ t + authPolicies[0] < r.now)

\* No request to execute is forgotten: when no thread of the server has anything it can do, each
\* one that came in has been answered, whatever became of it, and no thread waits for mutex_send.
Stalled ==
    /\ \A c \in Conns :
        \/ reader[c].at = "over"
        \/ reader[c].at = "reading" /\ wire[c] = <<>>
        \/ reader[c].at = "sending" /\ sender[c] # None
    /\ \A w \in Workers :
        \/ worker[w].at = "idle" /\ tasks = {}
        \/ worker[w].at = "sending" /\ sender[worker[w].task.conn] # None

Answered(c, id) ==
    \E i \in DOMAIN out[c] : out[c][i].part = "last" /\ out[c][i].answer.mode = "EXEC" /\ out[c][i].answer.id = id

NoneIsForgotten ==
    Stalled =>
        \A c \in Conns \ gone :
            \A id \in DOMAIN sent[c] :
                parser[c].at = "request" /\ sent[c][id].mode = "EXEC" => Answered(c, id)

\* The invariants of the module in one: types, and answers that are whole and written once.
Safe == TypeOK /\ AnswersAreWhole

\* What runs had permission to, for its account and in its session (processRequest, executeRPC).
PermissionsKept == RanAsPermitted /\ RanForItsUser /\ RanLoggedIn
=============================================================================
