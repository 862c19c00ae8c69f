----------------------------- MODULE RpcClient -----------------------------
(***************************************************************************)
(* JAsyncRPC_Client: calls answered out of order over one stream.  Every   *)
(* caller makes one call.  execASync streams the request and registers a   *)
(* handler in execHandlersMap, a Mutex_Map; execSync also waits for the    *)
(* handler to fill its sRetInfo and destroys the handler when that takes   *)
(* too long.  The parser thread runs the handler of each answer, the gc    *)
(* thread those that expired, and both destroy it afterwards.              *)
(* authenticate waits on a condition variable for the answer to a login.   *)
(* Three waits are not repeated when they end by themselves, execSync's,   *)
(* authenticate's and the destructor's: the model lets them do so.         *)
(*                                                                         *)
(* curExecutionId gives each request an id of its own; the id, the handler *)
(* and the caller are one value here.  The server answers a request at     *)
(* most once, in any order or never, and the stream may fail at any time.  *)
(***************************************************************************)
EXTENDS Naturals, Sequences, FiniteSets, SequencesExt

CONSTANTS
    SyncCallers, AsyncCallers, LoginCallers,
    Together,           \* the sets of callers that use a client at the same time
    parser, gc, owner,  \* the other threads; owner runs the destructor
    nullptr, NoKey,     \* of Mutex_Map
    None

ExecCallers == SyncCallers \cup AsyncCallers
Callers == ExecCallers \cup LoginCallers
Runners == {parser, gc}
Threads == Callers \cup Runners \cup {owner}

VARIABLES
    keys, rdElement, readers, zeroReadersWaiters, zeroMapsWaiters, allocated,
    stopped, handle, inside, destroying, delElement,  \* execHandlersMap
    isValidHandShake,
    writeOwner,    \* who holds mutex_writeData
    toServer,      \* what was streamed: "handshake" or a caller's request
    answered,      \* the requests whose answer the parser received
    pc,            \* where each thread is
    call,          \* call[r]: the request runner r is busy with
    gcKeys,        \* the keys garbageCollector still has to look at
    expired,       \* the handlers whose expirationTime has passed
    execTimes,     \* JAsyncRPC_FHandler::execTimes
    execOwner,     \* who is in asyncHandler, holding the handler's mutex_exec
    callbacks,     \* how often asyncHandler was called
    outcome,       \* what it was first told
    written,       \* sRetInfo::written
    loginWaiters,  \* who waits on cond_loginAnswered
    authAnswer,    \* the request authAnswer is the answer to
    early,         \* history: whose single wait ended by itself
    result         \* what the caller's call returned

mapVars == <<keys, rdElement, readers, zeroReadersWaiters, zeroMapsWaiters,
             allocated, stopped, handle, inside, destroying, delElement>>
netVars == <<isValidHandShake, writeOwner, toServer, answered>>
handlerVars == <<expired, execTimes, execOwner, callbacks, outcome, written>>
waitVars == <<loginWaiters, authAnswer, early>>
runnerVars == <<call, gcKeys>>
vars == <<mapVars, netVars, handlerVars, waitVars, runnerVars, pc, result>>

Map == INSTANCE MutexMap WITH
    Keys <- ExecCallers, Elements <- ExecCallers, EmptyWaiters <- {owner}

ASSUME RpcClientAssumption ==
    /\ IsFiniteSet(Callers)
    /\ SyncCallers \cap AsyncCallers = {}
    /\ LoginCallers \cap ExecCallers = {}
    /\ Together \subseteq SUBSET Callers
    /\ parser # gc /\ owner \notin Runners
    /\ (Runners \cup {owner}) \cap Callers = {}
    /\ {nullptr, NoKey, None} \cap Threads = {}

Places == {"idle", "handshaking", "locking", "streaming", "adding", "testing", "waiting",
           "destroying", "loginWaiting", "opened", "running", "closing", "skipping",
           "loginLocking", "loginNotifying", "done"}

ClientTypeOK ==
    /\ isValidHandShake \in {"unknown", "valid", "invalid"}
    /\ writeOwner \in Threads \cup {None}
    /\ toServer \in Seq(Callers \cup {"handshake"})
    /\ answered \subseteq Callers
    /\ pc \in [Threads -> Places]
    /\ call \in [Runners -> Callers \cup {None}]
    /\ gcKeys \subseteq ExecCallers
    /\ expired \subseteq ExecCallers
    /\ execTimes \in [ExecCallers -> Nat]
    /\ execOwner \in [ExecCallers -> Runners \cup {None}]
    /\ callbacks \in [ExecCallers -> Nat]
    /\ outcome \in [ExecCallers -> {"none", "answer", "timeout"}]
    /\ written \subseteq SyncCallers
    /\ loginWaiters \subseteq LoginCallers
    /\ authAnswer \in LoginCallers \cup {None}
    /\ early \subseteq SyncCallers \cup {owner}
    /\ result \in [Callers -> {"none", "sent", "ok", "timedOut", "failed"}
                                 \cup LoginCallers \cup {None}]

TypeOK == Map!TypeOK /\ ClientTypeOK

Init ==
    /\ Map!Init
    /\ isValidHandShake = "unknown"
    /\ writeOwner = None
    /\ toServer = <<>>
    /\ answered = {}
    /\ \E calling \in Together :
          pc = [t \in Threads |->
                   CASE t = parser -> "handshaking"
                     [] t \in Callers \ calling -> "done"
                     [] OTHER -> "idle"]
    /\ call = [r \in Runners |-> None]
    /\ gcKeys = {}
    /\ expired = {}
    /\ execTimes = [c \in ExecCallers |-> 0]
    /\ execOwner = [c \in ExecCallers |-> None]
    /\ callbacks = [c \in ExecCallers |-> 0]
    /\ outcome = [c \in ExecCallers |-> "none"]
    /\ written = {}
    /\ loginWaiters = {}
    /\ authAnswer = None
    /\ early = {}
    /\ result = [c \in Callers |-> "none"]

-----------------------------------------------------------------------------
(* Helpers *)

\* Thread t is at pc from, not blocked in the map, and goes to pc to.
Goes(t, from, to) ==
    /\ pc[t] = from
    /\ inside[t] = "none"
    /\ pc' = [pc EXCEPT ![t] = to]

Returns(c, from, value) ==
    /\ Goes(c, from, "done")
    /\ result' = [result EXCEPT ![c] = value]

\* destroyElement, to its return or to its wait.
DestroyElement(t, k) ==
    \/ Map!DestroyElementNow(t, k)
    \/ Map!DestroyElementWait(t, k)
    \/ ~Map!Openable(k) /\ UNCHANGED mapVars

Lock(t) == writeOwner = None /\ writeOwner' = t
Unlock == writeOwner' = None

\* Where a caller goes when its request is on its way.
AfterStreaming(c) == IF c \in LoginCallers THEN "loginWaiting" ELSE "adding"

-----------------------------------------------------------------------------
(* The callers: execASync, execSync and authenticate *)

\* The call, and the end of waitForValidHandShake, by a change of the variable or
\* by its timeout.
WaitForValidHandShake(c) ==
    /\ \/ /\ isValidHandShake = "valid"
          /\ Goes(c, "idle", "locking")
          /\ UNCHANGED result
       \/ /\ isValidHandShake # "valid"
          /\ Returns(c, "idle", "failed")
    /\ UNCHANGED <<mapVars, netVars, handlerVars, waitVars, runnerVars>>

TryLock(c) ==
    /\ \/ /\ Lock(c)
          /\ Goes(c, "locking", "streaming")
          /\ UNCHANGED result
       \/ /\ writeOwner # None
          /\ Returns(c, "locking", IF c \in LoginCallers THEN "timedOut" ELSE "failed")
          /\ UNCHANGED writeOwner
    /\ UNCHANGED <<mapVars, isValidHandShake, toServer, answered,
                   handlerVars, waitVars, runnerVars>>

\* The wait of authenticate releases mutex_writeData.
StreamRequest(c) ==
    /\ Goes(c, "streaming", AfterStreaming(c))
    /\ toServer' = Append(toServer, c)
    /\ IF c \in LoginCallers
       THEN Unlock /\ loginWaiters' = loginWaiters \cup {c}
       ELSE UNCHANGED <<writeOwner, loginWaiters>>
    /\ UNCHANGED <<mapVars, isValidHandShake, answered, handlerVars,
                   authAnswer, early, runnerVars, result>>

UnlockAfterFailure == Unlock

StreamFails(c) ==
    /\ Returns(c, "streaming", IF c \in LoginCallers THEN "timedOut" ELSE "failed")
    /\ UnlockAfterFailure
    /\ UNCHANGED <<mapVars, isValidHandShake, toServer, answered,
                   handlerVars, waitVars, runnerVars>>

\* The handler is added after the request was sent.
AddHandler(c) ==
    /\ IF c \in SyncCallers
       THEN Goes(c, "adding", "waiting") /\ UNCHANGED result
       ELSE Returns(c, "adding", "sent")
    /\ Map!AddElement(c, c, c)
    /\ Unlock
    /\ UNCHANGED <<isValidHandShake, toServer, answered, handlerVars,
                   waitVars, runnerVars>>

\* sRetInfo::waitUntilWritten finds the result written, or is notified. It waits
\* once: a wait that ends by itself is taken for a result.
WaitEnds(c) ==
    /\ c \in SyncCallers
    /\ Returns(c, "waiting", "ok")
    /\ early' = early \cup ({c} \ written)
    /\ UNCHANGED <<mapVars, netVars, handlerVars, loginWaiters, authAnswer, runnerVars>>

\* Its wait times out, maybe as the result is written, and execSync destroys the
\* handler.
GiveUpHandler(c) == DestroyElement(c, c)

WaitTimesOut(c) ==
    /\ Goes(c, "waiting", "destroying")
    /\ GiveUpHandler(c)
    /\ UNCHANGED <<netVars, handlerVars, waitVars, runnerVars, result>>

ReturnTimedOut(c) ==
    /\ Returns(c, "destroying", "timedOut")
    /\ UNCHANGED <<mapVars, netVars, handlerVars, waitVars, runnerVars>>

\* The wait of authenticate ends when mutex_writeData is free again: notified or by
\* itself, with authAnswer as it is, or by the timeout, notified or not.
LoginReturns(c) ==
    /\ writeOwner = None
    /\ \E value \in {authAnswer, "timedOut"} : Returns(c, "loginWaiting", value)
    /\ loginWaiters' = loginWaiters \ {c}
    /\ UNCHANGED <<mapVars, netVars, handlerVars, authAnswer, early, runnerVars>>

-----------------------------------------------------------------------------
(* The parser thread *)

\* changeToNextParser wakes the callers before sendHandshake.
HandshakeArrives ==
    /\ \/ isValidHandShake' = "valid" /\ Goes(parser, "handshaking", "locking")
       \/ isValidHandShake' = "invalid" /\ Goes(parser, "handshaking", "done")
    /\ UNCHANGED <<mapVars, writeOwner, toServer, answered, handlerVars,
                   waitVars, runnerVars, result>>

SendHandshake ==
    /\ writeOwner = None
    /\ \/ Goes(parser, "locking", "idle") /\ toServer' = Append(toServer, "handshake")
       \/ Goes(parser, "locking", "done") /\ UNCHANGED toServer
    /\ UNCHANGED <<mapVars, isValidHandShake, writeOwner, answered,
                   handlerVars, waitVars, runnerVars, result>>

\* The server understands requests that follow the handshake.
Answerable(c) ==
    /\ c \in ToSet(toServer) \ answered
    /\ Head(toServer) = "handshake"

\* processAnswer opens the handler; an answer without handler is dropped.
ReceiveAnswer(c) ==
    /\ Answerable(c)
    /\ answered' = answered \cup {c}
    /\ \/ /\ Map!OpenElement(parser, c)
          /\ Goes(parser, "idle", "opened")
          /\ call' = [call EXCEPT ![parser] = c]
       \/ /\ ~Map!Openable(c)
          /\ pc[parser] = "idle" /\ inside[parser] = "none"
          /\ UNCHANGED <<mapVars, pc, call>>
    /\ UNCHANGED <<isValidHandShake, writeOwner, toServer, handlerVars, waitVars,
                   gcKeys, result>>

ReceiveLoginAnswer(c) ==
    /\ Answerable(c)
    /\ answered' = answered \cup {c}
    /\ Goes(parser, "idle", "loginLocking")
    /\ call' = [call EXCEPT ![parser] = c]
    /\ UNCHANGED <<mapVars, isValidHandShake, writeOwner, toServer,
                   handlerVars, waitVars, gcKeys, result>>

\* try_lock_for: it stores the answer, or ends the parser.
StoreLoginAnswer ==
    /\ \/ /\ writeOwner = None
          /\ Goes(parser, "loginLocking", "loginNotifying")
          /\ authAnswer' = call[parser]
       \/ /\ writeOwner # None
          /\ Goes(parser, "loginLocking", "done")
          /\ UNCHANGED authAnswer
    /\ UNCHANGED <<mapVars, netVars, handlerVars, loginWaiters, early, runnerVars, result>>

\* cond_loginAnswered.notify_one, after the unlock.
NotifyLogin ==
    \/ loginWaiters = {} /\ UNCHANGED loginWaiters
    \/ \E c \in loginWaiters : loginWaiters' = loginWaiters \ {c}

NotifyLoginAnswered ==
    /\ Goes(parser, "loginNotifying", "idle")
    /\ NotifyLogin
    /\ UNCHANGED <<mapVars, netVars, handlerVars, authAnswer, early, runnerVars, result>>

\* The connection ends.
ParserEnds ==
    /\ \/ Goes(parser, "handshaking", "done")
       \/ Goes(parser, "idle", "done")
    /\ UNCHANGED <<mapVars, netVars, handlerVars, waitVars, runnerVars, result>>

-----------------------------------------------------------------------------
(* The gc thread: garbageCollector, called periodically *)

\* A pass over an empty map does nothing and is left out.
GcStarts ==
    /\ Goes(gc, "idle", "testing")
    /\ pc[owner] # "done"
    /\ keys # {}
    /\ gcKeys' = keys
    /\ UNCHANGED <<mapVars, netVars, handlerVars, waitVars, call, result>>

\* isExpired; a mutant that never expires anything.
NeverExpired(c) == FALSE
IsExpired(c) == c \in expired

GcOpens(c) ==
    /\ c \in gcKeys
    /\ gcKeys' = gcKeys \ {c}
    /\ call' = [call EXCEPT ![gc] = c]
    /\ \/ ~Map!Openable(c) /\ Goes(gc, "testing", "testing") /\ UNCHANGED mapVars
       \/ /\ Map!OpenElement(gc, c)
          /\ Goes(gc, "testing", IF IsExpired(c) THEN "opened" ELSE "skipping")
    /\ UNCHANGED <<netVars, handlerVars, waitVars, result>>

\* A handler that has not expired is closed again; a mutant that forgets it.
GcSkipsOpen ==
    /\ Goes(gc, "skipping", "testing")
    /\ UNCHANGED <<mapVars, netVars, handlerVars, waitVars, runnerVars, result>>
GcSkips ==
    /\ Goes(gc, "skipping", "testing")
    /\ Map!CloseElement(gc, call[gc])
    /\ UNCHANGED <<netVars, handlerVars, waitVars, runnerVars, result>>

GcEnds ==
    /\ gcKeys = {}
    /\ Goes(gc, "testing", "idle")
    /\ UNCHANGED <<mapVars, netVars, handlerVars, waitVars, runnerVars, result>>

-----------------------------------------------------------------------------
(* What both do with a handler: exec, closeElement, destroyElement *)

\* if (!execTimes++); a mutant without the condition.
AlwaysFirst(c) == TRUE
FirstExec(c) == execTimes[c] = 0

\* A mutant that destroys the handler with its own handle open.
DestroyFirst == "destroying"
CloseFirst == "closing"

Exec(r) ==
    LET c == call[r] IN
    /\ execOwner[c] = None
    /\ execTimes' = [execTimes EXCEPT ![c] = @ + 1]
    /\ IF FirstExec(c)
       THEN /\ Goes(r, "opened", "running")
            /\ execOwner' = [execOwner EXCEPT ![c] = r]
            /\ callbacks' = [callbacks EXCEPT ![c] = @ + 1]
            /\ outcome' = [outcome EXCEPT ![c] = IF r = gc THEN "timeout" ELSE "answer"]
       ELSE /\ Goes(r, "opened", CloseFirst)
            /\ UNCHANGED <<execOwner, callbacks, outcome>>
    /\ UNCHANGED <<mapVars, netVars, expired, written, waitVars, runnerVars, result>>

\* asyncHandler returns; execSync's syncHandler has filled the sRetInfo.
ExecReturns(r) ==
    LET c == call[r] IN
    /\ Goes(r, "running", CloseFirst)
    /\ execOwner' = [execOwner EXCEPT ![c] = None]
    /\ written' = written \cup ({c} \cap SyncCallers)
    /\ UNCHANGED <<mapVars, netVars, expired, execTimes, callbacks, outcome,
                   waitVars, runnerVars, result>>

CloseHandler(r) ==
    /\ Goes(r, "closing", "destroying")
    /\ Map!CloseElement(r, call[r])
    /\ UNCHANGED <<netVars, handlerVars, waitVars, runnerVars, result>>

DestroyExecuted(r) == DestroyElement(r, call[r])

DestroyHandler(r) ==
    /\ Goes(r, "destroying", IF r = parser THEN "idle" ELSE "testing")
    /\ DestroyExecuted(r)
    /\ UNCHANGED <<netVars, handlerVars, waitVars, runnerVars, result>>

-----------------------------------------------------------------------------
(* The wake-ups of the map's waits, the clock and the owner *)

Resume(t) ==
    /\ Map!DestroyElementWaitAgain(t) \/ Map!DestroyElementFinish(t)
    /\ UNCHANGED <<netVars, handlerVars, waitVars, runnerVars, pc, result>>

\* destroyElement looks at the element again, the destructor's waitForEmpty does not
\* look at the map again.
SpuriousWakeup(t) ==
    /\ Map!SpuriousWakeup(t)
    /\ early' = early \cup ({t} \cap {owner})
    /\ UNCHANGED <<netVars, handlerVars, loginWaiters, authAnswer, runnerVars, pc, result>>

Expire(c) ==
    /\ c \in allocated \ expired
    /\ expired' = expired \cup {c}
    /\ UNCHANGED <<mapVars, netVars, execTimes, execOwner, callbacks, outcome,
                   written, waitVars, runnerVars, pc, result>>

\* ~JAsyncRPC_Client, once every call has returned; a mutant that does not wait.
DoNotWait == UNCHANGED mapVars
WaitForHandlers ==
    \/ keys = {} /\ UNCHANGED mapVars
    \/ Map!WaitForEmpty(owner)

Destructor ==
    /\ \A c \in Callers : pc[c] = "done"
    /\ Goes(owner, "idle", "destroying")
    /\ WaitForHandlers
    /\ UNCHANGED <<netVars, handlerVars, waitVars, runnerVars, result>>

WaitForEmptyReturns ==
    /\ Map!WaitForEmptyReturn(owner)
    /\ UNCHANGED <<netVars, handlerVars, waitVars, runnerVars, pc, result>>

DestructorEnds ==
    /\ Goes(owner, "destroying", "done")
    /\ UNCHANGED <<mapVars, netVars, handlerVars, waitVars, runnerVars, result>>

-----------------------------------------------------------------------------

CallerStep(c) ==
    \/ TryLock(c)
    \/ StreamRequest(c)
    \/ StreamFails(c)
    \/ c \in ExecCallers /\ AddHandler(c)
    \/ WaitEnds(c)
    \/ c \in ExecCallers /\ WaitTimesOut(c)
    \/ ReturnTimedOut(c)
    \/ LoginReturns(c)
    \/ Resume(c)

HandlerStep(r) ==
    \/ call[r] \in ExecCallers /\ (Exec(r) \/ ExecReturns(r) \/ CloseHandler(r))
    \/ call[r] \in ExecCallers /\ DestroyHandler(r)
    \/ Resume(r)

ParserStep ==
    \/ SendHandshake
    \/ StoreLoginAnswer
    \/ NotifyLoginAnswered
    \/ HandlerStep(parser)

GcStep ==
    \/ GcStarts
    \/ \E c \in ExecCallers : GcOpens(c)
    \/ call[gc] \in ExecCallers /\ GcSkips
    \/ GcEnds
    \/ HandlerStep(gc)

OwnerStep == Destructor \/ WaitForEmptyReturns \/ DestructorEnds

Environment ==
    \/ \E c \in Callers : WaitForValidHandShake(c)
    \/ HandshakeArrives
    \/ \E c \in ExecCallers : ReceiveAnswer(c)
    \/ \E c \in LoginCallers : ReceiveLoginAnswer(c)
    \/ ParserEnds

Next ==
    \/ \E c \in Callers : CallerStep(c)
    \/ ParserStep
    \/ GcStep
    \/ OwnerStep
    \/ \E c \in ExecCallers : Expire(c)
    \/ \E t \in Threads : SpuriousWakeup(t)
    \/ Environment

SafeSpec == Init /\ [][Next]_vars

\* The threads run, garbageCollector is called again and again and time
\* passes: some caller goes on as long as one can, and so with the expirations.
\* No call is made, and nothing is received, of necessity.
Fairness ==
    /\ WF_vars(\E c \in Callers : CallerStep(c))
    /\ WF_vars(ParserStep)
    /\ WF_vars(GcStep)
    /\ WF_vars(OwnerStep)
    /\ WF_vars(\E c \in ExecCallers : Expire(c))

Spec == SafeSpec /\ Fairness

-----------------------------------------------------------------------------
(* Properties *)

\* A caller's asyncHandler is called at most once, although the parser thread
\* and the gc thread may both have its handler open (JAsyncRPC_FHandler::exec).
CallbackOnce == \A c \in ExecCallers : callbacks[c] <= 1

\* execSync's sRetInfo may live on its caller's stack: once execSync returned, with
\* a result, timed out or refused, nobody writes to it, now or later. A call whose
\* only wait ended by itself is left out: sRetInfo::waitUntilWritten does not look
\* at written again, and the handler of such a call may still write.
NoResultAfterReturn ==
    \A c \in SyncCallers \ early :
        pc[c] = "done" =>
            /\ execOwner[c] = None
            /\ c \in allocated => execTimes[c] > 0

\* The client is destroyed when every call that was sent has been answered,
\* has timed out or was given up: no callback runs after the destructor and
\* none was forgotten. It holds of a destructor that was notified: waitForEmpty
\* does not look at the map again, and if its only wait ends by itself the client is
\* destroyed with its handlers.
DestructorWaitsForCallbacks ==
    pc[owner] = "done" /\ owner \notin early =>
        /\ allocated = {}
        /\ \A c \in ExecCallers : execOwner[c] = None
        /\ \A c \in AsyncCallers : result[c] = "sent" => callbacks[c] = 1

\* The client keeps the rules of Mutex_Map's callers (it closes what it opened
\* and holds nothing while it destroys), on which the map's proofs rest.
MapObeyed == Map!SafeSpec

\* Whatever becomes of the answer, an asynchronous call that was sent gets its
\* callback: garbageCollector runs it if nobody else does, as long as the client is
\* not destroyed too early.
CallbackComes ==
    \A c \in AsyncCallers : result[c] = "sent" ~> callbacks[c] = 1 \/ owner \in early

\* Every call returns, also while the stream fails and the parser has ended: a
\* caller makes one call, so in the end none is on its way.
CallsReturn ==
    (\E c \in Callers : pc[c] \notin {"idle", "done"})
        ~> (\A c \in Callers : pc[c] \in {"idle", "done"})

\* The destructor's waitForEmpty returns.
DestructorReturns == pc[owner] = "destroying" ~> pc[owner] = "done"

\* The invariants of the module in one: the types, one callback for a call, and none of
\* it once execSync has returned.
Safe == TypeOK /\ CallbackOnce /\ NoResultAfterReturn

\* Calls return, callbacks come and the destructor ends.
Progress == CallbackComes /\ CallsReturn /\ DestructorReturns
=============================================================================
