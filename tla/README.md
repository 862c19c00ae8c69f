# cxFramework: models, model checking and proofs

cxFramework is a C++ library for servers and their clients: threads and shared maps
(cxThreads), sockets, a multiplexer and acceptors (cxNetwork), an asynchronous RPC protocol
over JSON (cxJAsyncRPC), authentication (cxAuth), containers and stream parsers (cxMem),
HTTP and MIME on top of them (cxProtocols), and helpers for services, logs and expressions.
This directory models it in TLA+, checks the models with TLC and proves the safety of its
concurrent core, of the RPC server and of the account tables with TLAPS.

Sections: 1 the system's parts, 2 the modules and how they correspond to the code, 3 what the
runs show (bounds, fairness), 4 what is proved, 5 known divergences between the code and what
it says of itself, 6 what is not modelled and why, 7 what could come next.

## 1. Inventory

What each part keeps, does and owes. "Hard" names what makes it difficult to test.

| part | state | operations | hard | what makes it correct | module |
|---|---|---|---|---|---|
| Mutex_Map (`cxThreads/libcx_thr_mutex_map`) | elements by key, each with a count of readers and a condition variable | addElement, openElement, closeElement, destroyElement, waitForEmpty, getKeys | destroyElement waits with the mutex released; one wake-up per close | nobody uses a deleted element, nobody acquires a retired one, a destroyer is woken | MutexMap |
| ThreadPool (`libcx_thr_threadpool`) | bounded queues, a limit that may change, terminate | start, stop, pushTask, popTask, setTasksByQueueLimit | notifications after the unlock, a limit written without the mutex, timed waits, stop during a wait | a task runs once or pushTask returned false; what was inserted before stop is executed | ThreadPool |
| TS_Queue (`libcx_thr_mutex_queue`) | one bounded queue | push, pop | timed waits | no element lost | none |
| Mutex_RW (`libcx_thr_mutex`) | a pthread read-write lock | scoped locks | the scoped writer's default argument | writers exclude everybody | its users |
| Threaded, GarbageCollector (`libcx_thr_threads`) | a thread, a finish flag | start, finish, a periodic call | finish between the test of the flag and the wait | the collector stops when told | RpcClient's gc |
| Socket_Multiplexer and its lines (`cxNetwork/libcx_net_multiplexer`) | lines by id, per line a heap of received elements and the bytes the peer has not read | connect, accept, data, bytes read, close; the end of the multiplexed socket | three threads per end of a line, flow control on counted bytes, one thread serves all lines | bytes in order, the window never overrun, a slow line never stops the others | MuxLine |
| Sockets, streams, bridge (`libcx_net_sockets`) | a descriptor; two threads per bridge | read, write, shutdown, typed values | either side ends first, bytes come in pieces | what is read was written, both directions end | SocketBridge, StreamCodec |
| TLS, chains, AES (`libcx_net_tls`, `libcx_net_chains*`) | library contexts, a chain of bridges | handshake, read, write | the end of a layer | a chain ends from both ends | SocketBridge (chains) |
| Acceptors (`libcx_net_threadedacceptor`, `libcx_net_poolthreadedacceptor`) | the connected clients and their number per address, a limit | accept, process, finalize | the destructor waits for detached threads | limits hold, the destructor returns after the last client | ThreadedAcceptor |
| RPC client (`cxJAsyncRPC/libcx_jasyncrpc_tclient`) | handlers by request id, a handshake state, the last login answer | execASync, execSync, authenticate, processAnswer, garbageCollector | answers race expirations and the caller's own timeout | one callback per call, never after the caller has gone; calls return | RpcClient |
| RPC server (`libcx_jasyncrpc_tserver`, `_functions_auth`) | a session and a parser per connection, methods, tasks in a pool | processRequest, authentications, executeRPC, the authenticator's functions by name | permissions are decided before the pool and used behind it; two threads answer on one stream | no method runs without its permissions, answers are whole, none is forgotten | RpcServer, RpcFunctions |
| Authentication (`cxAuth`) | accounts, groups, attributes, passwords with expirations | administration, authenticate, validate | several tables or files updated in turn, without a lock that excludes anybody; crashes | logins decide right; nothing refers to what was removed; no half account lets anybody in | AuthRules, AuthStore, AuthSqlite, AuthFiles |
| Containers, streams, parsers (`cxMem`) | chunks, files, references, partial matches | append, prepend, displace, find, parse | the cut of the input into blocks and chunks | the result is that of the whole input | ChunkContainer, StreamParser |
| HTTP, MIME, lines, URL variables (`cxProtocols`) | the state of a parser, headers, variables | parse, stream | an input cut anywhere or broken off | the same message however it is cut | HttpExchange |
| Expressions (`cxScripts`) | a compiled condition | compile, evaluate | groups, negations and short circuits of a hand-written compiler | a condition means what it says | JsonExpression |
| Log, services (`cxLogs`, `cxServices`) | options | write, start | none of concurrency | | none |

How they interact: the acceptors hand sockets to threads or to a ThreadPool task; the
multiplexer keeps its lines in a map under a Mutex_RW and each line bridges a local socket; the
RPC client keeps its handlers in a Mutex_Map that three kinds of threads use (callers, parser,
garbage collector); the server pushes calls into a ThreadPool, keeps a session per connection and
asks the authenticator; HTTP, MIME and RPC parse streams with the sub-parsers of cxMem, which use
its containers; a bridge and a chain copy between two streams.

PROJECT.json lists each part with its files and status, and the hazards at their lines.

## 2. The modules

| module | models | extends or instantiates |
|---|---|---|
| SafeReclamation | what Mutex_Map promises: publish, acquire, release, retire, reclaim | |
| MutexMap | `mutex_map.h` | INSTANCE SafeReclamation |
| ThreadPool | `threadpool.cpp` | |
| MuxLine | one established line of a multiplexer, both ends | |
| RpcClient | the RPC client | INSTANCE MutexMap: its handlers |
| ThreadedAcceptor | `threadedstreamacceptor.cpp`, `streamthread.cpp` | |
| AuthRules | passwords, digests, the order of a login's tests | |
| AuthStore | what a store of accounts promises: objects, holders, links | |
| AuthSqlite | `libcx_auth_sqlite3`, statement by statement | AuthRules; INSTANCE AuthStore |
| AuthFiles | `libcx_auth_fs`, call by call of the file system | AuthRules |
| ChunkContainer | `libcx_mem_containers`: chunks, files, references | |
| StreamParser | `substreamparser.cpp`, `streamparser.cpp` | |
| HttpExchange | HTTPv1_Client and HTTPv1_Server, URL variables and encoders | StreamParser |
| RpcFunctions | which function of the authenticator each RPC name calls, and with what | |
| RpcServer | the RPC server: connections, sessions, permissions, workers | RpcFunctions |
| StreamCodec | Stream_Writer and Stream_Reader | |
| SocketBridge | Socket_Stream_Bridge, ChainSockets | StreamCodec |
| JsonExpression | JSONExprEval | |
| MutexMapProofs, ThreadPoolProofs, MuxLineProofs, RpcClientProofs, ThreadedAcceptorProofs, AuthSqliteProofs, AuthFilesProofs, RpcServerProofs | their theorems | the module and TLAPS |
| MC... | an instance of a module for TLC | the module |

**MutexMap.** Every public function of Mutex_Map runs under mutex_xMap, so a function is one
action, except where it waits: `DestroyElementNow` and `DestroyElementWait` are the two ways
destroyElement begins, `DestroyElementWaitAgain` and `DestroyElementFinish` what a wake-up
does; `WaitForEmpty` and `WaitForEmptyReturn` likewise. A wait is membership of a set of
waiters (`zeroReadersWaiters`, `zeroMapsWaiters`), a notification removes one of them, whichever
it is, and a wait may also end without one. `handle[k][t]` is the pointer thread t got from
openElement(k) and has not closed. The map trusts its callers: they close what they opened, once,
and hold nothing while they destroy. The guards of the actions state that, and RpcClient's
`MapObeyed` shows that its threads do it.

**ThreadPool.** One mutex again, but `tasksByQueueLimit` is an atomic that
setTasksByQueueLimit changes and notifies without it. A pusher that finds its queue full
therefore holds the mutex across a step (`PushFull`, then `PushWait`); all other critical
sections are one action. Notifications follow the unlock in the code, and are actions of
their own (`PushNotify`, `PopNotify`, `StopNotify`, `SetLimitNotify`). The shuffle of
getRandomTaskQueueWithElements is the choice of a queue in `PopTake`; the key and priority of a
task choose among `CandidateQueues`. wait_for may return its timeout to a pusher that was notified
already (`PushTimeout`), which then leaves with the notification of its queue: the history `eaten` has
these queues, `notified` the pushers whose notification is on its way. `accepted`, `refused` and `done`
are history too.

**MuxLine.** The two ends L and R run the same code: `up` is the thread in processLine (local
socket to wire), `down` is processLineThread (heap to local socket), `mux` is the thread of
start(). One action is one lock-protected function or one call on a socket. Data are offsets
and lengths, the wire of each direction is a FIFO queue of data and bytes-read messages.
Sends on a broken socket fail or seem to work. The line is up when the model begins: both ends
are registered and processLine is about to run (section 6 says why).

**RpcClient.** Each caller makes one call, and the request id, the handler and the caller are
one value. A synchronous caller waits for its sRetInfo, an asynchronous one returns when its
handler is added, a login waits on cond_loginAnswered. The parser thread receives answers in
any order, the gc thread looks at the keys it copied, and both open, execute, close and destroy
handlers (`HandlerStep`). execSync, authenticate and the destructor wait once, without a loop, and
their wait may end by itself (`WaitEnds`, `SpuriousWakeup`): the history `early` has the callers and the
owner to whom that happened before there was anything to return for. `Together` gives the sets of callers a behaviour may begin with.
The server is its `Answerable`: it answers requests that follow a handshake, at most once.

**ThreadedAcceptor.** `acceptor` is the thread in acceptClient and processClient, `client[c]` the
detached thread of a client, `destructor` the owner. mutex_clients is held for whole sections,
each of which is one action; what runs without it is the clearing of clientSocket when a
callback returns false (`ForgetSocket`) and whatever the socket's new owner does
(`OwnerDeletesSocket`). wait_for may end by a notification, by itself or by its timeout, which
wins over a notification that came before it. An entry that connectionsPerIP does not have is a
count of zero. "crashed" is what may become of a destructor that uses a socket that is gone.

**AuthStore, AuthSqlite.** AuthStore is a forest of objects (domains hold accounts, groups and
attributes; accounts hold an activation and passwords) with links between them; what is destroyed
takes what it holds and its links along. AuthSqlite keeps the tables and runs a function
statement by statement: `call[t]` is where the function that thread t is in stands, other
threads' statements and crashes come in between. The foreign keys, ON DELETE CASCADE, are part of the
deletes. `ImplementsStore` maps the tables to AuthStore. `calm` are the logins whose account
nobody has touched since they began, `cut` the accounts a crash was in the middle of.

**AuthFiles.** `fs` maps the paths that exist to what they hold; a function puts the calls it will
make into `todo`, and one of them is done at a time (`Creates`, `Dissociates`, `Removes`), with a crash
possible between any two. Saving a file is two steps, opened and so truncated, then written; remove_all
takes the entries of a directory one by one, and the associations a removal ends go one after the other, in
any order (`Ends`: readdir has none). `made` is what the finished functions have made, `doing` that with what the one in
progress promises, `doubt` what a crash left undecided. An account has a set of versions (an activation
and passwords): one, unless a crash came, after which either may be on file.
Names are encoded into paths byte by byte as toURLEncoded does (in `MCAuthFiles` the account's
name is a byte that has to be encoded).

**ChunkContainer.** `storeMethod` is what the container was made as: chunks, which go to a file when they
grow too large, or a file opened for itself (BinaryContainer_MMAP, `ReferenceFile`). `chunks` is the vector
with each chunk's offset; `file` the mapped file: its bytes (`data`) and how many of them the container
shows (`seen`), which is the size of the memory container that reMapMemoryContainer makes over the mapping,
at most `Uint32Max`; `ref` a BinaryContainer_Ref. `content` is what the calls should have left. Reads are operators and every invariant evaluates all of them in every state: linear
walks (appendTo, find), bisection (copyOut, `Bisect`), streaming. Calls that leave something
else than they should (section 5) set `sane` to FALSE, and only clear follows.

**StreamParser, HttpExchange.** A sub-parser has a buffer of at most `max` bytes and a way to find
the end of its element: a delimiter, the first of several, or a size; it is fed
one block, cut anywhere (`writeIntoParser`). HttpExchange is two of these state machines (client and server) facing each
other over two byte streams that may break; each side goes from the line to the options to the content as
changeToNextParser does, and the content is read by length, by chunks or to the end. Posted forms
go through URL_Vars, whose parser splits at "=" and "&", and the URL encoder and decoder.

**RpcServer.** A connection's thread is `reader[c]`: it parses lines, decides and pushes; `worker[w]`
is a thread of the pool. `sender[c]` is mutex_send: an answer is written in two steps
(`...SendsFirst`, `...SendsLast`), so that what is in between shows. `session[c]` is the
IAuth_Session with its matrix of authentications, `rights` what the authenticator knows. The
functions of `RpcFunctions` that change rights do so when they run (`Apply`). `methods` has with each
method the attributes it was added with (`reqAttribs`), which no action reads, as no code does. `permits`
records what processRequest decided, `ran` what executeRPC did, `accepted` when the last login of a
connection was made if it was accepted.

**StreamCodec, SocketBridge.** A value on the wire (numbers, strings, blocks with lengths, delimited
strings) is the bytes Stream_Writer makes; a reader is a state machine that asks for so many bytes.
SocketBridge connects two hosts that follow a `script` of reads and writes through a bridge or a
chain: a row of links with a relay between every two of them. Every link is a bounded queue in each
direction that delivers what it has in pieces, may be shut in either direction and may break.

**JsonExpression.** A text is a row of tokens; `compile` trims it (`Trimmed`) and walks it as compile, detectSubExpr and the
constructors do, with the flags they leave uninitialised as a choice; `evaluate` short-circuits as
the code does. `MeaningOf` is the reference: what the condition a text was written from means on a
document, with the meaning of a call (`CallMeans`) told from where one text stands in another, and not by
the operators of the model.

Each definition that changes in a mutant has the mutated form just before it (KeepUsed before
Release, for instance). These forms are not used by the specifications.

## 3. What the runs show

Every run checks its complete specification, fairness included where it has some, on one
instance. Each invariant `Safe` is the module's type invariant and the short safety properties
named in the table.

| run | instance | properties |
|---|---|---|
| mutexmap | 4 threads and one waiter for emptiness, 2 keys, 2 elements | `Safe`: the count of readers is the number of holders, closeElement never throws, one destroyer per key; `NoUseAfterDelete`; `NoElementLost`; `NoLostWakeup`; `StoppedReadersOnlyLeave`; `Progress`: destroyElement terminates, waitForEmpty notices; `ImplementsReclamation`: refines SafeReclamation, liveness included |
| threadpool | 2 workers, 2 pushers that may block on one queue, 2 queues, 3 tasks, limits 0 and 1, one timed push | `Safe`: a task is accepted in exactly one place, none is stranded between its insertion and its notification; `InsertedBeforeStopIsExecuted`; `BlockedPushReturns`, unless a timeout ate the notification of its queue |
| muxline | window 2, chunks of 1, three bytes one way or one each way, a link that may break | `Safe`: the window is not overstated, the mux thread never blocks; `InOrder`; `CloseWaitEnds` |
| rpcclient | a synchronous and an asynchronous call; two logins; an asynchronous call and a login | `Safe`: one callback per call, no write to a returned caller that was not woken early; `DestructorWaitsForCallbacks`, if it was not woken early; `MapObeyed`: the map is used by its rules; `Progress`: callbacks come, calls return, the destructor returns |
| acceptor | 4 clients, 3 of one address, limits 1 and 2 that change, a callback that keeps its socket | `Safe`: the counters are those of the list; `StartedWithinLimits`, never after finalized; `NothingSurvives` the destructor; `DestructorReturns` |
| authsqlite | 2 callers, one name of each kind, 2 passwords, dates 1 and 2, a clock to 2 | `Safe`: an account nobody is busy with can be logged into; `LoginsDecideRight`, for logins whose account is left alone; `ImplementsStore`: refines AuthStore, crashes included |
| authfiles | one name of each kind, 2 passwords, dates 1 and 4 at a limit of 4, one crash | `Safe`: the associations that validate are those made; `LoginsDecideRight`; `NoHalfLogin` in the middle of a function or after a crash |
| containers | chunks of 2 bytes, at most 3 and 5 bytes in all, a file above 4, files of up to 5 bytes opened for themselves, 2 letters in two cases | `Safe`: appendTo and copyToStream read what was written, of a file the bytes it shows, and the file holds the rest in order; `FindFirst`, in chunks; `PartsExact`: streams, random access and references |
| http | 42 exchanges: 7 requests, 6 answers, reads of 1 to 9 bytes, limits that some elements pass | `RequestsExact`: a processed request and its form are what was posted; `AnswersExact`: the client gets a prefix of the answer, in the end all; `NeitherWaits` for the other |
| rpcserver | 1 connection, 2 workers, 3 messages out of 11, a queue that takes one task, a clock to 2 | `Safe`: the lines of an answer are together, one answer per call; `PermissionsKept`: what ran was permitted then, once, for its account, within an accepted login; `NoneIsForgotten` |
| bridge | 9 conversations through a bridge and a chain of one, 2 through a chain of two; queues of 2 bytes; one break | `Safe`: what is read is what was written; `UnbrokenArrives`; `OwnerReturns` |
| expressions | every condition of one and two calls, groups two deep, negations, spaces where they are taken, every row of up to three tokens, on a set of small documents | `Safe`: a condition that is written well compiles and means what it says |

Every property of every run has a mutant in PROJECT.json: a plausible bug of a definition of the
code that the run then finds.

### Bounds, and why they are enough

- mutexmap: a destroyer, two readers and somebody who reuses the key are four threads; the
  waiter for emptiness is the fifth and only waits, as ~JAsyncRPC_Client is one thread. Two keys
  let one thread meet another key's waiters. Section 4 removes the bound for safety.
- threadpool: two workers compete for tasks and notifications, two pushers for a queue that may
  be full (b and c), on which both may block and one of them with a timeout, and another queue (a) makes
  workers choose. Limits 0 and 1 let the
  limit rise and fall around a waiting pusher. Every task is pushed at most once. Section 4 removes the
  bound for safety.
- muxline: three bytes overrun a window of two, so that the sender sleeps, wakes and sleeps
  again. MUX_LINE_HEAPSIZE and MUX_LINE_SENDBUF are 512 Kb and 8 Kb in the code: the model
  needs only SendBuf < Window. The history `sent` and the input bound the state. Section 4
  removes the bound for safety.
- rpcclient: the hazards are about two threads and one handler, or two callers and one mutex.
  Section 4 removes the bound for safety.
- acceptor: with a limit of one or two, two clients fill the list, one waits, and one is left to
  come after the limits have changed; three clients of one address pass its limit while another
  address is served. Section 4 removes the bound for safety.
- authsqlite: two callers are what it takes for a statement of one to come between two of the
  other; the hazards are about one account and what it is linked to, so one name of each kind is
  enough for objects to be removed and created again under the same name. `IntLimit` is where a
  date kept as an int becomes negative, and `MaxNow` reaches the dates. Section 4 removes the bound for
  all three properties.
- authfiles: one administrator and one account, whose name is one that has to be encoded; a date
  above `UintLimit` shows the conversion to 32 bits. One crash: what follows it is the ordinary use of what it
  left, and a second one is again between two calls.
- containers: with chunks of two bytes and needles of two, a needle lies across two chunks at any
  place, and four or five bytes make three chunks, one of them not full. `MaxFile` lets a file that was opened be
  longer than `Uint32Max`, where the size that a container shows of it wraps. `UintMax` is small enough for
  offset plus size to wrap around. The states are all sequences of calls, since `content` is bounded.
- http: each limit is met by an element that fits exactly and passed by one that does not; reads
  of one to nine bytes cut every element at every byte, two elements in one block included.
- rpcserver: the threads that can meet on one stream are its reader and two workers. Three messages
  are a login, a call and what interferes with it. The queue is full with one task. A client sends ahead of what was
  read only what it had sent before (`MaxUnread` 0), which leaves out nothing: the server reads line by line. Section 4 removes the
  bound for all three properties.
- bridge: with queues of two bytes every value of three or more is cut, and both directions are
  full at once when both hosts write six or seven. `Base` 4 makes lengths overflow at 3 and 15
  instead of 255 and 65535.
- expressions: the compiler treats a group and a call alike once compiled, so two levels and two items per level
  meet all its cases; a second compile shows what is kept of the first.

### Fairness

Weak fairness of each thread's own steps, because a thread that can run is scheduled. In
ThreadPool it is strong for pushers and workers, since their steps need mutexQueues: a thread
that finds the mutex free infinitely often is assumed to get it in the end. No fairness on
calls, on closing sockets, on the breaking of the link, on answers, on timeouts of pushes or on
spurious wake-ups. In RpcClient handlers do expire (the clock moves) and garbageCollector is
called again and again, as GarbageCollector's loop does. In SocketBridge it is weak fairness of the
threads of the relays and of the owner, none of the hosts.

Timed waits in RpcClient's lock attempts (try_lock_for) may fail whenever the lock is held, and
succeed whenever it is free. Spurious wake-ups are in MutexMap, ThreadPool, RpcClient and
ThreadedAcceptor. In RpcClient they end single waits without a loop (section 5), so
NoResultAfterReturn and DestructorWaitsForCallbacks speak of the callers and of the destructor that
are not in `early`; the others are in the model with all that they do.

In ThreadedAcceptor a handshake or a callback may block on its client for ever: it has to
return only once its socket was shut down or given away, and that is what DestructorReturns
depends on. The owner need never stop or destroy the acceptor.

The authenticators, the containers, the parsers, the RPC server and the expressions have no
fairness: what they owe in the end is stated of the states in which nothing can go on (`Stalled`
in RpcServer, both sides reading in HttpExchange, `todo = <<>>` in AuthFiles).

CHECK_DEADLOCK is FALSE in the runs where the system stops: a pool that was destroyed, a line
that ended, a client whose calls returned, an acceptor that was destroyed, an exchange that is
over, a store whose clock has run out. MutexMap and ChunkContainer never stop and are checked
for deadlock.

## 4. What is proved

**MutexMapProofs** holds, for every finite set of threads and any sets of keys and elements:

- `Invariance`: SafeSpec => []IInv, and from it TypeCorrect, ReadersCorrect, HandlesAreSafe,
  CloseIsSafe, SingleDestroyer, WakeupIsKept and `Safety`, the invariants of the run mutexmap.
- `Refinement`: every step of MutexMap is a step of SafeReclamation or a stutter, under the
  mapping of the INSTANCE in MutexMap (published: the rdElement; retired: the
  element its destroyer waits for; uses: the handles).

Why an inductive invariant is needed: NoUseAfterDelete says that a handle points to an
allocated element. DestroyElementFinish deletes one, so one must know that nobody holds it,
which the code infers from readers = 0; hence `ReadersCountHolders` (readers is the number of
handles). That count concerns the handles to the element of *this* key, so the handles of a key
must all point to its element (`HandlesLive`), an element must be under one key only
(`MapShape`), and the key must still be the destroyer's own (`Destroyers`: one destroyer per
retired key, and it alone knows the element). `Sleepers` ties who waits to what it waits for:
a destroyer sleeps only while readers # 0, which makes NoLostWakeup inductive. IInv is the
conjunction of TypeOK, ReadersCountHolders, MapShape, Destroyers, Sleepers and HandlesLive;
the proof has one step per action.

NoElementLost (`NothingLeaks`) is inductive next to IInv: an element that is erased with its key
was the only one that the key had (`EraseLosesNone`). The action property StoppedReadersOnlyLeave
(`StoppedAreLeft`) rests on `StoppedUnpublished`: an element whose readers were told to stop is
allocated still and under no key, so openElement cannot find it, and addElement puts only elements
into the map that are not allocated.

**ThreadPoolProofs** proves `Safety` (all of the run's `Safe`) for any finite sets of workers, pushers,
queues and tasks and any limits. A task is in one place because every place determines who may put
it there: a queue holds no task twice nor one of another queue, workers hold distinct tasks, what a
pusher is about to insert is nowhere yet. That no task is stranded is a count: whoever has inserted a
task owes a notification until a worker that will look at the queues is awake.

**MuxLineProofs** proves `Safety` and `BytesInOrder` (Safe and InOrder, all the safety properties of the
run muxline) for any window, any size of the send buffer and any inputs. The window is counted on
one side and filled on the other, so neither count is inductive. `Credit` says of each sender that what
it may still send and the bytes on their way to and back from its peer (messages, heap, the element in
processLineThread's hands, reports) fill at most a window, with what it adds for bytes that are sent and
not counted yet. A sum over a queue would be a recursion that the provers cannot unfold; the
model's `Total` is the number of places of bytes in the queue (`BytesIn`, a set of pairs), of which
`TotalAppend` and `TotalTail` say what appending to and taking from the queue does to it. For InOrder,
`Chained` says that what is on its way makes a chain from what was delivered to what was sent, and
`Sorted` that the chain is in the order of the queues it is spread over; `Kinds` and `Phases` say
what is data and how far each thread of an end can be.

**ThreadedAcceptorProofs** holds for every finite set of clients, and any addresses, callbacks and
limits: TypeCorrect, UsageCorrect (and `Safety`), LimitsAreKept and DestructionIsComplete, the safety
properties of the run acceptor. UsageMatchesList is what keeps the counters natural numbers,
as a client that ends was counted (`CountAfterRemove`); that a client is added once needs
`ListIsRunning` and `CurrentIsAccepted` (who is in the list, who is still in processClient).
NothingSurvives follows from an empty list only because nobody can be added to it any more:
`AcceptorGone` carries the join from the step that waits for it to the end of the destructor,
and `SocketsFollowClients` the closed sockets.

**AuthSqliteProofs** proves all three properties of the run authsqlite for any domains, names,
passwords, dates, callers and crashes.

- `Safety` (Safe). AccountsWhole says that an account without one of its rows has somebody busy with it,
  which is not inductive: he might be about to fail, or to write another row. `Completing` is: an account
  without an activation has a caller about to insert the activation, and one without its main password, but
  with an activation, a caller about to insert that one. A caller fails only when the row is there or the
  account is not (`ActivationAdded`, `PasswordInserted`), so whatever was owed by him is not any more.
- `LoginsAreRight` (LoginsDecideRight). `Found` carries what the queries of a login have found from one to
  the next, as long as nobody wrote to the account (`FoundStays`). What sqlite3_column_int makes of a date
  is arithmetic with a symbolic modulus, which takes the lemmas `OneRemainder` and `AsIntReads`.
- `Refinement` (ImplementsStore): each statement is one step of AuthStore or none. An INSERT is a
  Create because the foreign key was there (`OneMore`), a DELETE with its cascades is a Destroy of all that
  is Below its object and nothing else (`OneLess`), which needs `Referring`: no row refers to a missing one.
- `StoreKeepsIntegrity` is about the abstract store alone, whatever the tables do: an object lives
  only while its holder does and a link only while both its ends do, if nothing is held more than two steps
  from a domain (ThreeLevels). What has to be shown is that `Below`, which goes two steps down, is closed
  (`BelowIsClosed`). The tables have three levels (`StoreLevels`), so `IntegrityKept` follows from
  the refinement.

**AuthFilesProofs** proves all three properties of the run authfiles for any accounts, groups, attributes,
domains, passwords, dates and crashes. An invariant about the files alone cannot be inductive, since in the
middle of a function they are neither what was nor what will be. The proof therefore looks at them twice:

- as they *will be*: `WillExist` and `WillHold` read off `fs` and the calls in `todo` which files there will
  be when the function is done and what they will hold. No call changes either (`CreatingWill`,
  `CreatingHold`, `RemovingWill`): it only makes true what was so already. So what the function promises
  (`doing`) is compared with them once, when it begins, and holds when `todo` is empty.
- as they *are*: what is on file at any time is allowed by `made` or by `doing`, which is what a login finds
  in the middle and what a crash leaves.

`Linked` says both of associations, `Accounted` both of accounts; `ActivationFirst` (a new account gets its
activation before its passwords) is what keeps a login from finding a new password next to an old
activation. `Tree`, `CallShapes` and `Order` are what the calls need to succeed: every file is in a directory, a
function only creates or only removes, and a directory comes before what it holds. `AInv` is all of that
without Linked, `IInv` all of it; TLC finds both to hold of every state of the run. One lemma
per function of the administrator shows what it begins, one per kind of call that it makes nothing else true.

- `LoginsAreRight` (LoginsDecideRight) and `NoHalfLetsIn` (NoHalfLogin) follow from `AInv`, under
  `PlainNames`: names are made of bytes below 128. Above, toURLEncoded gives two names one directory, and
  an account would answer for another one.
- `Safety` (Safe: the associations validated are those made) follows from `IInv`, under PlainNames and
  `DomainsApart`: no domain is named like an account or a group. attribRemove passes the domain where
  the account belongs and the account where the domain does (section 5), which ends an association
  of other objects if there are some with these names. TLC finds Safe violated with two domains
  and two accounts of the same names.

The instance of the run satisfies both hypotheses.

**RpcServerProofs** proves all three properties of the run rpcserver for any connections, workers, users,
attributes, methods, messages and limits. The first invariant is about the stream (`AnswersNeverMix`): it says who holds
mutex_send (`Senders`: exactly the thread that is between the two lines) and that an answer is half
written exactly while somebody holds it, with that thread's answer (`HalfWritten`).
The second follows every request from the client to its answer (`Ledger`). A count per connection, `free[c]`,
tells which request is being read or acted on; the lines on their way are those of the messages from
there on (`Requests`), and every task, running method and answer is of an earlier one, in one place and
once (`Tracked`). That gives answers that are written once (`Safety`). `Permits` says that whatever is in the
pool or runs has a permit of its own request, issued when processRequest decided and with the passwords that
session and request then had, and that the session of a task still is its account's or is none
(`OnlyAsPermitted`). That theorem also has RanLoggedIn, which rests on `LoginsNoted`: while the last login
of a session is an accepted one, `accepted` has its time. `Accounted` says that an earlier request to execute is in the pool, runs or was
answered unless the client left: in a state in which nothing can go on the first two are impossible
(`NothingForgotten`).

**RpcClientProofs** proves, for any finite set of callers, all the safety properties of the run rpcclient.
First `MapIsObeyed` (MapObeyed): whatever the threads of a client do, they use execHandlersMap by
the rules of Mutex_Map. The handles are exactly those of the runners that are busy with a handler
(`HandlesHeld`), so nobody opens twice, closes what it has not open or destroys with a handle in its
hands. Therefore the map's invariant, which MutexMapProofs has, holds of the client's handlers too
(MapInvariance): the proof is used through an INSTANCE and not repeated. On it rests the second
invariant. A callback is *over* when it was made and has returned; it is over whenever a runner closes or
destroys its handler, when a result was written, and when the handler can no longer be
opened while somebody still relies on it (`Settled`). `Safety` (Safe: one callback for a call, no
result written to a caller that returned) and `DestructorIsLast` (DestructorWaitsForCallbacks) follow, the
latter because the owner goes on only when the map is empty (`OwnerWaits`). Both hold with any spurious
wake-ups: what `Settled` and `OwnerWaits` say is said of whoever is not in `early`, and nobody enters
`early` but by one.

Assumptions: the named ASSUMEs of the modules only, which TLC evaluates on the instances: finite sets, distinct null
values, threads and connections that are told apart, limits that are natural numbers. Those that are
more than that: MuxLine's SendBuf, the bytes sendLineData reads at once, is less than its Window
(MUX_LINE_SENDBUF and MUX_LINE_HEAPSIZE); RpcServer's pool has a worker, as the application starts it with one, a
message carries JAsyncRPC_Authentications with the fields they have, and the authenticator begins with
accounts and attributes that exist (attribAccountAdd looks for the attribute, `iauth_sqlite3_attributes.cpp:48`,
`iauth_fs_attributes.cpp:152`); AuthFiles' names are bytes; AuthSqlite's passwords have modes and dates, its clock starts and time_t's
last second is after it.

Model-checked only:

- liveness (all `~>`, the liveness half of ImplementsReclamation and the `...Returns`, `...Ends` and `Progress`
  properties), which TLAPS does not treat under fairness;
- ChunkContainer, HttpExchange and JsonExpression, whose operators are recursive over the bytes, elements and
  tokens they walk: what they compute for every input takes an induction over data that the
  installed provers cannot instantiate;
- SocketBridge, for the same reason: that a value is read as it was written takes that FromBigEndian, a
  fold, undoes BigEndian for numbers of every width. Its relays move bytes without looking at them, which is
  the part of the argument that could be proved alone.

## 5. Known divergences

What the code does, which the models keep as it is, and a reader may not expect. Properties that
would be violated are stated under the condition given here, in a guard or in a hypothesis.

**Threads.** popTask (`threadpool.cpp:113`) does not look at terminate before its first wait: a
worker that arrives after stop's notify_all sleeps until a task comes, and stop joins it for ever
(InsertedBeforeStopIsExecuted speaks of the workers that run). The test of the limit is `>`
(`:78`), so a queue takes one task more than its limit. wait_for may time out after its pusher was notified (`:86`); the
pusher returns without looking at the queue, the notify_one that an element's removal made is gone, and
another pusher sleeps on beside the free place until the next removal or change of the limit (`eaten`).
Lock_Mutex_RW does not exclude others
with its default argument, as its users call it (`lock_mutex_rw.cpp:5`).

**Multiplexer.** Bytes are counted after they were sent (`socket_multiplexed_line.cpp:92`); a
report that comes first is clamped to zero, which leaves the window smaller for good, on the safe
side. A thread asleep on a full window is not woken by the other peer's end (`:223`), only by
the end of its own. The thread that reads the multiplexed socket also writes
terminations to it. The parameters of LINE_CONNECT are written with 16-bit lengths
(`socket_multiplexer_a_connect.cpp:22`) and read with 32-bit ones
(`socket_multiplexer_a_server.cpp:109`), so no line is ever connected as the code stands.

**Bridge, chains, values.** When a relay's write fails the other direction is left open with nobody
reading it, so process() may not return (the bridge's `Jammed`). A half-close is answered by
shutting the other side in both directions; a chain passes that on. ~ChainSockets shuts only the
sending side of the top. finishingPeer is the last relay to end, not the first. Strings of the largest
length (255, 65535) are written and refused by the reader; an empty block is written and cannot be read.

**RPC client.** Callers are woken before their own connection has sent its handshake
(`jasyncrpc_client.cpp:235`); a login takes the last answer that came, whoever's it was (`:107`); a
handler is added after the request was streamed (`:145`), and an answer in between is dropped.
Three waits have no loop, so a spurious wake-up ends them: sRetInfo::waitUntilWritten (`retinfo.h:36`)
returns true with nothing written, and execSync returns with its handler alive, which then writes to an
sRetInfo that is gone; authenticate (`:107`) returns the answer to an earlier login, or
AUTH_REASON_AUTHENTICATED when there was none, which is what 0 reads as;
Mutex_Map::waitForEmpty (`mutex_map.h:138`) lets the destructor go on with handlers in the map.

**RPC server.** addRPCMethod stores the attributes that a method requires
(`jasyncrpc_server_methods.cpp:63`) and nothing reads them: validateMethod asks IAuth_Methods_Attributes
alone. The functions of the authenticator are registered with {"admin"}
(`jsyncrpc_functions_auth.cpp:357-401`), and any session that is logged in may call them, accountRemove
included, unless the application says the same again with addMethodAttributes. RanAsPermitted is about the
attributes of IAuth_Methods_Attributes. Permissions are decided when a request is pushed and not again when
it runs (only isAuthenticated is), so an attribute or an account that is taken away in between does not stop
it. A field of the payload that has another type than its function expects makes JsonCpp throw in a thread of
the pool, where nothing catches it: the program ends, and no message of the model has such a field. A method
without attributes asks for no pass index; the RPC accountConfirm calls accountDisable, and
attribChangeDescription calls attribAccountRemove; an AUTH of an unknown mode gets no answer; a line cut by the end of the stream is processed. Tasks keep plain
pointers to their session and server.

**Acceptor.** The destructor stops every client of the list, those whose callback gave their socket
away included (`threadedstreamacceptor.cpp:167`): a null or deleted pointer is used. The model
has it as "crashed", and NothingSurvives speaks of the destructors that end.

**Authentication.** accountValidateAttribute passes its group and attribute in the order
accountUsableAttribs does not (`iauth.cpp:88`), so attributes of groups do not count; attribRemove on
files swaps two arguments and leaves the attribute in its accounts' listings
(`iauth_fs_attributes.cpp:98`), or ends an association of the account named like the domain, in the domain
named like the account, if there are such; names that differ in the high half of a byte above 127 share a
directory; accountDisable on SQLite binds a name that its statement does not have (the
prefix of another, `attributes.cpp:191` likewise), and reads the date of an
account as an int (`iauth_sqlite3_accounts.cpp:346`), so that a date is its low 32 bits and one after 2038
may be past or none; an expired password is refused before it is compared;
a login reads account, password and expiration in several statements and may mix two
creations of one account; a function of several statements may be cut by a crash.

**Containers.** reMapMemoryContainer (`binarycontainer_mmap.cpp:153-157`) references the mapping with
size(), which is virtual and returns what the memory container showed before. A container in a file
therefore shows as many bytes as when it was opened, the first ones of what the file now holds: none of a fresh
file, to which a container of chunks goes when it passes its limit, so its content is kept in the file and
cannot be read from it; what is appended or prepended to any file makes no difference to how much is shown.
After displacing and truncating, it is more than the file has, and reads go beyond it. The size is
cut to 32 bits by BinaryContainer_MEM::reference. maxSize no longer limits a file. truncate2 of a file
answers false. Prepending to a file that is not empty overwrites part of what it holds. A
cleared file still shows the memory of its mapping, and a reference made to the chunks no longer reaches the
bytes once they went to a file. Files opened read-only are not modelled.

In chunks: prepending and displacing leave old offsets in the chunks; a block that is
prepended in several chunks has them reversed; truncate drops chunks and keeps the size; a container in
a file gives an empty toString; truncating to zero leaves a mapping that is gone; memmove and memcmp of
more than 64 Kb work only on multiples of it; findChar in a file ignores the search space; find
with a search space beyond the end finds nothing; a Ref's findChar answers absolute positions;
displaceUntil displaces by the size of its destination; the sense of caseSensitive is inverted.

**Parsers and HTTP.** The end of the input at the headers makes an empty block, taken for the
empty line that ends them: a request is processed with the options that had come, while
`httpv1_server.h:77` says that it is not. A content cut by the end of the
stream is delivered without an error. A block is refused when the partial element and the whole block
together pass the limit, although the element alone does not. Empty values shift the names and values
of URL variables; varCount and getValues loop for ever. What MultiPart_Vars writes it cannot read. The
client keeps no cookie.

**Expressions.** The constructors that succeed leave evalMode unset; a group does not look whether
its sub-expressions compiled, so `!(foo bar)` is true of everything; `(A)(B)` compiles and B
is ignored; compiling twice accumulates; a space inside a call is refused; REGEX_MATCH never
matches a text on its left; an empty array or object where a text is wanted throws.

## 6. What is not modelled

- *Formats and libraries*: the layout of JSON, messages and logs; TLS and AES; SQL text and SQLite
  beyond statements, keys and cascades; OpenSSL, Boost, JsonCpp. TLS, AES and XOR sockets have
  partialRead and partialWrite of another signature than the base's, so the model of a plain socket is
  also what a bridge sees of them.
- *Opening a line* of the multiplexer: no line opens as the code stands (section 5), so there is no
  behaviour to check. MuxLine begins with a line that is up. Several lines on one socket, and the
  operating system's buffers under it, which are unbounded here, are left out.
- *TS_Queue* is not used by the library; the pool acceptor is one pushTask of ThreadPool; Mutex_RW is
  pthread's lock; interface configuration and services are calls to the system; applog, config files and
  command lines are formatting.
- *Choices without consequence for the properties*: the random queue of ThreadPool and the random id of an
  RPC request (reuse of an id takes 2^64 calls); the contents of RPC answers; times of last activity.
- *cxAuth*: one-time tokens and challenges beyond their comparison; typed variables of tables.
- *HTTP*: cookies, multi-part forms, the lifetime of a connection (maxTTL), virtual hosts and file
  serving (string handling and calls to the file system).
- *After memory is gone*: what a program does after it uses a deleted object, which is where the
  models stop ("crashed", `sane` false).

## 7. What could come next

In this order: a proof that the relays of SocketBridge deliver a prefix of the bytes that were sent, for
any row of links, with the codec left to TLC; MuxConnect, once the lengths of LINE_CONNECT agree, composed
with MuxLine on a registry of lines; two administrators at once in AuthFiles, once the writers' lock
locks; attribRemove without DomainsApart, once its arguments are in order.
