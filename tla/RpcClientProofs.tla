--------------------------- MODULE RpcClientProofs ---------------------------
(***************************************************************************)
(* Proofs about JAsyncRPC_Client for any finite set of callers.            *)
(*                                                                         *)
(* First the client keeps the rules of its Mutex_Map: who has a handle is  *)
(* known from where the two runners are (HandlesHeld).  So the map's own   *)
(* invariant, proved in MutexMapProofs, holds of the client's handlers.    *)
(* On it rests the second invariant: whoever destroys a handler, or is     *)
(* told that it is gone, may rely on its callback having been made and     *)
(* having returned (Over). Who was let go by a wait that ended by itself   *)
(* (early) may not, and nothing is claimed of them.                        *)
(***************************************************************************)
EXTENDS RpcClient, FiniteSetTheorems, TLAPS

P == INSTANCE MutexMapProofs WITH
    Keys <- ExecCallers, Elements <- ExecCallers, EmptyWaiters <- {owner}

\* Where a runner is while it has a handler open.
Busy == {"opened", "running", "closing", "skipping"}

\* The handles of the map are those of the runners that are busy.
HandlesHeld ==
    \A k \in ExecCallers, t \in Threads :
        handle[k][t] # nullptr <=> t \in Runners /\ pc[t] \in Busy /\ call[t] = k

ParserAtLogin ==
    pc[parser] \in {"loginLocking", "loginNotifying"} => call[parser] \in LoginCallers

Kept == ClientTypeOK /\ HandlesHeld /\ ParserAtLogin

\* Callers, runners and owner are told apart, and from the null values.
LEMMA Distinct ==
    /\ \A c \in Callers : c \notin Runners /\ c # owner /\ c \in Threads
    /\ \A r \in Runners : r # owner /\ r \in Threads
    /\ parser # gc /\ owner \in Threads /\ parser \in Runners /\ gc \in Runners
    /\ ExecCallers \subseteq Callers /\ LoginCallers \subseteq Callers
    /\ LoginCallers \cap ExecCallers = {}
    /\ SyncCallers \cap AsyncCallers = {}
    /\ nullptr \notin Threads /\ NoKey \notin Threads /\ None \notin Threads
BY RpcClientAssumption DEF Callers, ExecCallers, Runners, Threads

\* What Mutex_Map assumes of its threads and elements.
LEMMA MapAssumption ==
    /\ IsFiniteSet(Threads)
    /\ nullptr \notin ExecCallers
    /\ NoKey \notin ExecCallers
    /\ {owner} \subseteq Threads
<1>1. IsFiniteSet(Callers) /\ IsFiniteSet(Runners) /\ IsFiniteSet({owner})
  <2>1. \A x : IsFiniteSet({x})
    BY FS_Singleton
  <2>2. Runners = {parser} \cup {gc}
    BY DEF Runners
  <2> QED  BY <2>1, <2>2, FS_Union, RpcClientAssumption
<1>2. IsFiniteSet(Threads)
  BY <1>1, FS_Union DEF Threads
<1> QED  BY <1>2, Distinct


\* The map's assumption holds, so its theorems do.
LEMMA MapAssumed == P!MutexMapAssumption
<1>1. P!IsFiniteSet(Threads)
  BY MapAssumption DEF P!IsFiniteSet, IsFiniteSet
<1> QED  BY <1>1, MapAssumption DEF P!MutexMapAssumption

\* A new client's map is as Mutex_Map's constructor leaves it.
LEMMA MapInit == Init => P!IInv
<1>1. Map!Init => P!Init
  BY DEF Map!Init, P!Init
<1> QED  BY <1>1, P!InitIInv, MapAssumed DEF Init

\* The map as the client uses it and the map of the proofs are one.
LEMMA MapStep ==
    ASSUME P!IInv, [Map!Next]_(Map!mapVars)
    PROVE  P!IInv'
<1>1. [P!Next]_(P!mapVars)
  BY DEF Map!Next, P!Next, Map!mapVars, P!mapVars,
     Map!AddElement, P!AddElement, Map!Absent, P!Absent,
     Map!Open, P!Open, Map!OpenElement, P!OpenElement, Map!Openable, P!Openable,
     Map!Close, P!Close, Map!CloseElement, P!CloseElement, Map!DropReader, P!DropReader,
     Map!NotifyOne, P!NotifyOne, Map!NotifyIfEmpty, P!NotifyIfEmpty,
     Map!Destroy, P!Destroy, Map!HoldsNothing, P!HoldsNothing,
     Map!DestroyElementNow, P!DestroyElementNow, Map!DeleteAndErase, P!DeleteAndErase,
     Map!DestroyElementWait, P!DestroyElementWait, Map!Unpublish, P!Unpublish,
     Map!DestroyResume, P!DestroyResume, Map!DestroyElementWaitAgain, P!DestroyElementWaitAgain,
     Map!WokenInDestroy, P!WokenInDestroy, Map!DestroyElementFinish, P!DestroyElementFinish,
     Map!DeleteAndReturn, P!DeleteAndReturn, Map!Empty, P!Empty, Map!WaitForEmpty, P!WaitForEmpty,
     Map!WaitForEmptyReturn, P!WaitForEmptyReturn, Map!SpuriousWakeup, P!SpuriousWakeup
<1> QED  BY <1>1, P!NextIInv, MapAssumed

\* What of the map's invariant is needed below.
LEMMA MapFacts ==
    ASSUME P!IInv
    PROVE  /\ handle \in [ExecCallers -> [Threads -> ExecCallers \cup {nullptr}]]
           /\ rdElement \in [ExecCallers -> ExecCallers \cup {nullptr}]
           /\ inside \in [Threads -> {"none", "destroyElement", "waitForEmpty"}]
           /\ destroying \in [Threads -> ExecCallers \cup {NoKey}]
           /\ delElement \in [Threads -> ExecCallers \cup {nullptr}]
           /\ keys \subseteq ExecCallers /\ allocated \subseteq ExecCallers
           /\ zeroMapsWaiters \subseteq Threads
           /\ \A k \in ExecCallers : readers[k] = 0 => \A t \in Threads : handle[k][t] = nullptr
           /\ \A k \in ExecCallers : rdElement[k] # nullptr => k \in keys
           /\ \A t \in Threads : destroying[t] # NoKey <=> inside[t] = "destroyElement"
           /\ \A t \in Threads : destroying[t] # NoKey =>
                 destroying[t] \in keys /\ rdElement[destroying[t]] = nullptr
           /\ \A k \in ExecCallers, t \in Threads : handle[k][t] # nullptr =>
                 handle[k][t] \in allocated /\ k \in keys
<1>1. P!TypeOK /\ P!ReadersCountHolders /\ P!MapShape /\ P!Destroyers /\ P!HandlesLive
  BY DEF P!IInv
<1>2. \A k \in ExecCallers : readers[k] = 0 => \A t \in Threads : handle[k][t] = nullptr
  BY <1>1, P!ZeroReaders, MapAssumed
<1>3. \A k \in ExecCallers, t \in Threads : handle[k][t] # nullptr => handle[k][t] \in allocated
  BY <1>1, Distinct DEF P!MapShape, P!Destroyers, P!HandlesLive
<1>4. \A k \in ExecCallers, t \in Threads : handle[k][t] # nullptr => k \in keys
  BY <1>1, <1>2 DEF P!MapShape
<1> QED  BY <1>1, <1>2, <1>3, <1>4 DEF P!TypeOK, P!MapShape, P!Destroyers

-----------------------------------------------------------------------------
(* The client keeps the map's rules *)

\* What it means to go from a place to another.
LEMMA Moved ==
    ASSUME ClientTypeOK, NEW t \in Threads, NEW from, NEW to \in Places, Goes(t, from, to)
    PROVE  /\ pc[t] = from /\ inside[t] = "none" /\ pc'[t] = to
           /\ \A u \in Threads \ {t} : pc'[u] = pc[u]
           /\ pc' \in [Threads -> Places]
BY DEF Goes, ClientTypeOK

\* A move of a thread that is no runner leaves the handles as they are accounted for.
LEMMA OthersMove ==
    ASSUME Kept, NEW t \in Threads \ Runners, \A u \in Threads \ {t} : pc'[u] = pc[u],
           UNCHANGED <<handle, call>>
    PROVE  HandlesHeld' /\ ParserAtLogin'
<1>1. \A r \in Runners : pc'[r] = pc[r]
  BY Distinct
<1>2. HandlesHeld'
  BY <1>1 DEF Kept, HandlesHeld
<1> QED  BY <1>1, <1>2, Distinct DEF Kept, ParserAtLogin

\* So does that of a runner which is busy before and after it, or neither before nor after.
LEMMA RunnerMoves ==
    ASSUME Kept, NEW r \in Runners, \A u \in Threads \ {r} : pc'[u] = pc[u],
           pc[r] \in Busy <=> pc'[r] \in Busy,
           pc'[r] \in {"loginLocking", "loginNotifying"} => pc[r] = "loginLocking",
           UNCHANGED <<handle, call>>
    PROVE  HandlesHeld' /\ ParserAtLogin'
<1>1. \A u \in Runners : pc[u] \in Busy <=> pc'[u] \in Busy
  BY Distinct
<1>2. HandlesHeld'
  BY <1>1 DEF Kept, HandlesHeld
<1> QED  BY <1>2, Distinct DEF Kept, ParserAtLogin

\* No runner is busy where it destroys, so that it holds nothing; callers and owner never do.
LEMMA FreeToDestroy ==
    ASSUME HandlesHeld, NEW t \in Threads, t \in Runners => pc[t] \notin Busy
    PROVE  Map!HoldsNothing(t)
BY DEF HandlesHeld, Map!HoldsNothing

\* destroyElement without a handle in hand is a step of the map, and opens or closes nothing.
LEMMA DestroyIsAllowed ==
    ASSUME HandlesHeld, NEW t \in Threads, NEW k \in ExecCallers, DestroyElement(t, k),
           t \in Runners => pc[t] \notin Busy
    PROVE  [Map!Next]_(Map!mapVars) /\ UNCHANGED handle
<1>1. CASE Map!DestroyElementNow(t, k) \/ Map!DestroyElementWait(t, k)
  <2>1. Map!Destroy(t, k)
    BY <1>1, FreeToDestroy DEF Map!Destroy
  <2> QED  BY <1>1, <2>1 DEF Map!Next, Map!DestroyElementNow, Map!DestroyElementWait
<1>2. CASE UNCHANGED mapVars
  BY <1>2 DEF mapVars, Map!mapVars
<1> QED  BY <1>1, <1>2 DEF DestroyElement

\* What every step of the client keeps, and what of it is a step of the map.
Obeys == [Map!Next]_(Map!mapVars) /\ Kept'

\* Who holds what is still accounted for when nobody moves.
LEMMA SamePlaces ==
    ASSUME Kept, UNCHANGED <<handle, pc, call>>
    PROVE  HandlesHeld' /\ ParserAtLogin'
BY DEF Kept, HandlesHeld, ParserAtLogin

\* The end of a wait in destroyElement is a step of the map.
LEMMA ResumeObeys ==
    ASSUME Kept, NEW t \in Threads, Resume(t)
    PROVE  Obeys
<1>1. Map!Next /\ UNCHANGED handle
  BY DEF Resume, Map!Next, Map!DestroyResume, Map!DestroyElementWaitAgain, Map!DestroyElementFinish,
         Map!DeleteAndReturn
<1>2. ClientTypeOK'
  BY DEF Resume, Kept, ClientTypeOK, netVars, handlerVars, waitVars, runnerVars
<1> QED  BY <1>1, <1>2, SamePlaces DEF Obeys, Kept, Resume, runnerVars

\* So is a wake-up of its own accord, of a wait in destroyElement or in waitForEmpty.
LEMMA SpuriousObeys ==
    ASSUME Kept, NEW t \in Threads, SpuriousWakeup(t)
    PROVE  Obeys
<1>1. Map!Next /\ UNCHANGED handle
  BY DEF SpuriousWakeup, Map!Next, Map!SpuriousWakeup
<1>2. ClientTypeOK'
  BY DEF SpuriousWakeup, Kept, ClientTypeOK, netVars, handlerVars, runnerVars
<1> QED  BY <1>1, <1>2, SamePlaces DEF Obeys, Kept, SpuriousWakeup, runnerVars

\* execASync, execSync and authenticate use the map by its rules.
LEMMA CallersObey ==
    ASSUME P!IInv, Kept, NEW c \in Callers, CallerStep(c) \/ WaitForValidHandShake(c)
    PROVE  Obeys
<1> USE DEF Returns
<1>0. c \in Threads \ Runners /\ c # owner
  BY Distinct
<1>1. CASE TryLock(c) \/ StreamRequest(c) \/ StreamFails(c) \/ WaitEnds(c)
           \/ ReturnTimedOut(c) \/ LoginReturns(c) \/ WaitForValidHandShake(c)
  <2>1. UNCHANGED mapVars /\ UNCHANGED call /\ \E from, to \in Places : Goes(c, from, to)
    BY <1>1 DEF TryLock, StreamRequest, StreamFails, WaitEnds, ReturnTimedOut, LoginReturns,
                WaitForValidHandShake, runnerVars, AfterStreaming, Places
  <2>2. PICK from, to \in Places : Goes(c, from, to)
    BY <2>1
  <2>3. pc' \in [Threads -> Places] /\ \A u \in Threads \ {c} : pc'[u] = pc[u]
    BY <1>0, <2>2, Moved DEF Kept
  <2>4. HandlesHeld' /\ ParserAtLogin'
    BY <1>0, <2>1, <2>3, OthersMove DEF mapVars
  <2>5. ClientTypeOK'
    <3> USE <2>1, <2>3, <1>0 DEF Kept, ClientTypeOK, runnerVars, netVars, handlerVars, waitVars
    <3>1. CASE TryLock(c)
      BY <3>1 DEF TryLock, Lock
    <3>2. CASE StreamRequest(c)
      BY <3>2 DEF StreamRequest, Unlock
    <3>3. CASE StreamFails(c)
      BY <3>3 DEF StreamFails, UnlockAfterFailure, Unlock
    <3>4. CASE WaitEnds(c)
      BY <3>4 DEF WaitEnds
    <3>5. CASE ReturnTimedOut(c)
      BY <3>5 DEF ReturnTimedOut
    <3>6. CASE LoginReturns(c)
      BY <3>6 DEF LoginReturns
    <3>7. CASE WaitForValidHandShake(c)
      BY <3>7 DEF WaitForValidHandShake
    <3> QED  BY <1>1, <3>1, <3>2, <3>3, <3>4, <3>5, <3>6, <3>7
  <2> QED  BY <2>1, <2>4, <2>5 DEF Obeys, Kept, mapVars, Map!mapVars
<1>2. CASE c \in ExecCallers /\ AddHandler(c)
  <2>1. Map!Next /\ UNCHANGED <<handle, call>>
    BY <1>0, <1>2 DEF AddHandler, Map!Next, Map!AddElement, runnerVars
  <2>2. \E from, to \in Places : Goes(c, from, to)
    BY <1>2 DEF AddHandler, Places
  <2>3. pc' \in [Threads -> Places] /\ \A u \in Threads \ {c} : pc'[u] = pc[u]
    BY <1>0, <2>2, Moved DEF Kept
  <2>4. ClientTypeOK'
    BY <1>2, <2>3 DEF AddHandler, Kept, ClientTypeOK, Unlock, runnerVars, handlerVars, waitVars
  <2> QED  BY <1>0, <2>1, <2>3, <2>4, OthersMove DEF Obeys, Kept
<1>3. CASE c \in ExecCallers /\ WaitTimesOut(c)
  <2>1. [Map!Next]_(Map!mapVars) /\ UNCHANGED <<handle, call>>
    BY <1>0, <1>3, DestroyIsAllowed DEF WaitTimesOut, GiveUpHandler, runnerVars, Kept
  <2>2. \E from, to \in Places : Goes(c, from, to)
    BY <1>3 DEF WaitTimesOut, Places
  <2>3. pc' \in [Threads -> Places] /\ \A u \in Threads \ {c} : pc'[u] = pc[u]
    BY <1>0, <2>2, Moved DEF Kept
  <2>4. ClientTypeOK'
    BY <1>3, <2>3 DEF WaitTimesOut, Kept, ClientTypeOK, runnerVars, netVars, handlerVars, waitVars
  <2> QED  BY <1>0, <2>1, <2>3, <2>4, OthersMove DEF Obeys, Kept
<1>4. CASE Resume(c)
  BY <1>4, <1>0, ResumeObeys
<1> QED  BY <1>1, <1>2, <1>3, <1>4 DEF CallerStep

\* So do exec, closeElement and destroyElement of the runners.
LEMMA HandlerStepsObey ==
    ASSUME P!IInv, Kept, NEW r \in Runners, HandlerStep(r)
    PROVE  Obeys
<1>0. r \in Threads /\ call \in [Runners -> Callers \cup {None}]
  BY Distinct DEF Kept, ClientTypeOK
<1>1. CASE call[r] \in ExecCallers /\ (Exec(r) \/ ExecReturns(r))
  <2>1. UNCHANGED mapVars /\ UNCHANGED call /\ Goes(r, pc[r], pc'[r])
        /\ pc[r] \in Busy /\ pc'[r] \in Busy
    <3>1. \E from, to \in Busy : Goes(r, from, to) /\ UNCHANGED mapVars /\ UNCHANGED call
      BY <1>1 DEF Exec, ExecReturns, CloseFirst, runnerVars, Busy
    <3> QED  BY <1>0, <3>1 DEF Goes, Kept, ClientTypeOK
  <2>2. pc' \in [Threads -> Places] /\ \A u \in Threads \ {r} : pc'[u] = pc[u]
    BY <1>0, <2>1, Moved DEF Kept, Busy, Places
  <2>3. HandlesHeld' /\ ParserAtLogin'
    BY <2>1, <2>2, RunnerMoves DEF mapVars, Busy
  <2>4. ClientTypeOK'
    <3> USE <1>0, <2>1, <2>2 DEF Kept, ClientTypeOK, runnerVars, netVars, waitVars
    <3>1. CASE Exec(r)
      <4>1. execTimes' \in [ExecCallers -> Nat]
        BY <1>1, <3>1 DEF Exec
      <4>2. execOwner' \in [ExecCallers -> Runners \cup {None}]
        BY <1>1, <3>1 DEF Exec
      <4>5. ASSUME FirstExec(call[r])  PROVE  callbacks' \in [ExecCallers -> Nat]
        <5>1. callbacks' = [callbacks EXCEPT ![call[r]] = @ + 1]
          BY <3>1, <4>5 DEF Exec
        <5> QED  BY <1>1, <5>1
      <4>6. callbacks' \in [ExecCallers -> Nat]
        BY <3>1, <4>5 DEF Exec
      <4>3. PICK o \in {"answer", "timeout"} : outcome' = outcome \/ outcome' = [outcome EXCEPT ![call[r]] = o]
        BY <3>1 DEF Exec
      <4>4. outcome' \in [ExecCallers -> {"none", "answer", "timeout"}]
        BY <1>1, <4>3
      <4> QED  BY <3>1, <4>1, <4>2, <4>4, <4>6 DEF Exec
    <3>2. CASE ExecReturns(r)
      BY <1>1, <3>2 DEF ExecReturns
    <3> QED  BY <1>1, <3>1, <3>2
  <2> QED  BY <2>1, <2>3, <2>4 DEF Obeys, Kept, mapVars, Map!mapVars
<1>2. CASE call[r] \in ExecCallers /\ CloseHandler(r)
  <2>1. pc[r] = "closing" /\ pc'[r] = "destroying" /\ pc' \in [Threads -> Places]
        /\ \A u \in Threads \ {r} : pc'[u] = pc[u]
    BY <1>0, <1>2, Moved DEF CloseHandler, Kept, Places
  <2>2. Map!Close(r, call[r]) /\ handle' = [handle EXCEPT ![call[r]][r] = nullptr] /\ UNCHANGED call
    BY <1>0, <1>2, <2>1 DEF CloseHandler, Map!Close, Map!CloseElement, Kept, HandlesHeld, Busy, runnerVars
  <2>3. HandlesHeld'
    BY <1>0, <1>2, <2>1, <2>2, MapFacts DEF Kept, HandlesHeld, Busy
  <2>4. ClientTypeOK' /\ ParserAtLogin'
    BY <1>2, <2>1, Distinct
    DEF CloseHandler, Kept, ClientTypeOK, ParserAtLogin, netVars, waitVars, handlerVars, runnerVars
  <2> QED  BY <1>0, <1>2, <2>2, <2>3, <2>4 DEF Obeys, Kept, Map!Next
<1>3. CASE call[r] \in ExecCallers /\ DestroyHandler(r)
  <2>1. pc[r] = "destroying" /\ pc'[r] \in {"idle", "testing"} /\ pc' \in [Threads -> Places]
        /\ \A u \in Threads \ {r} : pc'[u] = pc[u]
    BY <1>0, <1>3, Moved DEF DestroyHandler, Kept, Places
  <2>2. [Map!Next]_(Map!mapVars) /\ UNCHANGED <<handle, call>>
    BY <1>0, <1>3, <2>1, DestroyIsAllowed DEF DestroyHandler, DestroyExecuted, Kept, Busy, runnerVars
  <2>3. HandlesHeld' /\ ParserAtLogin'
    BY <2>1, <2>2, RunnerMoves DEF Busy
  <2>4. ClientTypeOK'
    BY <1>3, <2>1 DEF DestroyHandler, Kept, ClientTypeOK, netVars, waitVars, handlerVars, runnerVars
  <2> QED  BY <2>2, <2>3, <2>4 DEF Obeys, Kept
<1>4. CASE Resume(r)
  BY <1>0, <1>4, ResumeObeys
<1> QED  BY <1>1, <1>2, <1>3, <1>4 DEF HandlerStep

\* A runner opens a handler, and is busy with it from then on.
LEMMA OpeningKeeps ==
    ASSUME P!IInv, Kept, NEW r \in Runners, NEW c \in ExecCallers, Map!OpenElement(r, c),
           pc[r] \notin Busy, pc'[r] \in Busy, \A u \in Threads \ {r} : pc'[u] = pc[u],
           call' = [call EXCEPT ![r] = c]
    PROVE  Map!Next /\ HandlesHeld' /\ ParserAtLogin'
<1>0. r \in Threads /\ call \in [Runners -> Callers \cup {None}]
  BY Distinct DEF Kept, ClientTypeOK
<1>1. handle[c][r] = nullptr
  BY <1>0 DEF Kept, HandlesHeld
<1>2. Map!Next
  BY <1>0, <1>1 DEF Map!Next, Map!Open
<1>3. rdElement[c] # nullptr /\ handle' = [handle EXCEPT ![c][r] = rdElement[c]]
  BY DEF Map!OpenElement, Map!Openable
<1>4. \A k \in ExecCallers : k # c => handle[k][r] = nullptr
  BY <1>0 DEF Kept, HandlesHeld
<1>5. \A u \in Runners \ {r} : pc'[u] = pc[u] /\ call'[u] = call[u]
  BY <1>0, Distinct
<1>6. HandlesHeld'
  BY <1>0, <1>1, <1>3, <1>4, <1>5, MapFacts DEF Kept, HandlesHeld
<1>7. ParserAtLogin'
  BY <1>0, <1>5, Distinct DEF Kept, ParserAtLogin, Busy
<1> QED  BY <1>2, <1>6, <1>7

\* So does the parser thread, with answers to calls and to logins.
LEMMA ParserObeys ==
    ASSUME P!IInv, Kept,
           \/ SendHandshake \/ StoreLoginAnswer \/ NotifyLoginAnswered \/ HandshakeArrives
           \/ ParserEnds \/ \E c \in LoginCallers : ReceiveLoginAnswer(c)
           \/ \E c \in ExecCallers : ReceiveAnswer(c)
    PROVE  Obeys
<1>0. parser \in Runners /\ parser \in Threads /\ pc \in [Threads -> Places]
      /\ call \in [Runners -> Callers \cup {None}]
  BY Distinct DEF Kept, ClientTypeOK
<1> DEFINE Moves == SendHandshake \/ StoreLoginAnswer \/ NotifyLoginAnswered \/ HandshakeArrives \/ ParserEnds
<1>1. CASE Moves
  <2>1. UNCHANGED mapVars /\ UNCHANGED call /\ \E from, to \in Places :
           /\ Goes(parser, from, to) /\ from \notin Busy /\ to \notin Busy
           /\ to # "loginLocking" /\ (to = "loginNotifying" => from = "loginLocking")
    BY <1>1 DEF SendHandshake, StoreLoginAnswer, NotifyLoginAnswered, HandshakeArrives, ParserEnds,
                runnerVars, Places, Busy
  <2>2. /\ pc[parser] \notin Busy /\ pc'[parser] \notin Busy /\ pc' \in [Threads -> Places]
        /\ pc'[parser] \in {"loginLocking", "loginNotifying"} => pc[parser] = "loginLocking"
        /\ \A u \in Threads \ {parser} : pc'[u] = pc[u]
    BY <1>0, <2>1, Moved DEF Kept
  <2>3. HandlesHeld' /\ ParserAtLogin'
    BY <1>0, <2>1, <2>2, RunnerMoves DEF mapVars
  <2>4. ClientTypeOK'
    <3> USE <1>0, <2>1, <2>2 DEF Kept, ClientTypeOK, runnerVars, netVars, waitVars, handlerVars
    <3>1. CASE SendHandshake
      <4>1. toServer' \in Seq(Callers \cup {"handshake"})
        <5> DEFINE S == Callers \cup {"handshake"}
        <5>1. toServer \in Seq(S) /\ "handshake" \in S
          OBVIOUS
        <5>2. toServer' = toServer \/ \E m \in S : toServer' = Append(toServer, m)
          BY <3>1 DEF SendHandshake
        <5> HIDE DEF S
        <5>3. ASSUME NEW m \in S PROVE Append(toServer, m) \in Seq(S)
          BY <5>1
        <5>4. toServer' \in Seq(S)
          BY <5>1, <5>2, <5>3
        <5> QED  BY <5>4 DEF S
      <4> QED  BY <3>1, <4>1 DEF SendHandshake
    <3>2. CASE StoreLoginAnswer
      BY <3>2 DEF StoreLoginAnswer, Goes, ParserAtLogin
    <3>3. CASE NotifyLoginAnswered
      BY <3>3 DEF NotifyLoginAnswered, NotifyLogin
    <3>4. CASE HandshakeArrives
      BY <3>4 DEF HandshakeArrives
    <3>5. CASE ParserEnds
      BY <3>5 DEF ParserEnds
    <3> QED  BY <1>1, <3>1, <3>2, <3>3, <3>4, <3>5
  <2> QED  BY <2>1, <2>3, <2>4 DEF Obeys, Kept, mapVars, Map!mapVars
<1>2. ASSUME NEW c \in LoginCallers, ReceiveLoginAnswer(c)
      PROVE  Obeys
  <2>1. /\ pc[parser] = "idle" /\ pc'[parser] = "loginLocking" /\ pc' \in [Threads -> Places]
        /\ \A u \in Threads \ {parser} : pc'[u] = pc[u]
    BY <1>0, <1>2, Moved DEF ReceiveLoginAnswer, Kept, Places
  <2>2. call' = [call EXCEPT ![parser] = c] /\ UNCHANGED mapVars /\ c \in Callers
    BY <1>2, Distinct DEF ReceiveLoginAnswer
  <2>3. \A u \in Runners \ {parser} : pc'[u] = pc[u] /\ call'[u] = call[u]
    BY <1>0, <2>1, <2>2, Distinct
  <2>4. HandlesHeld' /\ ParserAtLogin'
    BY <1>0, <2>1, <2>2, <2>3 DEF Kept, HandlesHeld, ParserAtLogin, Busy, mapVars
  <2>5. ClientTypeOK'
    BY <1>0, <1>2, <2>1, <2>2 DEF ReceiveLoginAnswer, Kept, ClientTypeOK, waitVars, handlerVars
  <2> QED  BY <2>2, <2>4, <2>5 DEF Obeys, Kept, mapVars, Map!mapVars
<1>3. ASSUME NEW c \in ExecCallers, ReceiveAnswer(c)
      PROVE  Obeys
  <2>0. c \in Callers
    BY Distinct
  <2>1. CASE Map!OpenElement(parser, c) /\ Goes(parser, "idle", "opened")
             /\ call' = [call EXCEPT ![parser] = c]
    <3>1. /\ pc[parser] = "idle" /\ pc'[parser] = "opened" /\ pc' \in [Threads -> Places]
          /\ \A u \in Threads \ {parser} : pc'[u] = pc[u]
      BY <1>0, <2>1, Moved DEF Kept, Places
    <3>2. Map!Next /\ HandlesHeld' /\ ParserAtLogin'
      BY <1>0, <2>1, <3>1, OpeningKeeps DEF Busy
    <3>3. ClientTypeOK'
      BY <1>0, <1>3, <2>0, <2>1, <3>1 DEF ReceiveAnswer, Kept, ClientTypeOK, waitVars, handlerVars
    <3> QED  BY <3>2, <3>3 DEF Obeys, Kept
  <2>2. CASE UNCHANGED <<mapVars, pc, call>>
    <3>1. ClientTypeOK'
      BY <1>0, <1>3, <2>0, <2>2 DEF ReceiveAnswer, Kept, ClientTypeOK, waitVars, handlerVars
    <3> QED  BY <2>2, <3>1, SamePlaces DEF Obeys, Kept, mapVars, Map!mapVars
  <2> QED  BY <1>3, <2>1, <2>2 DEF ReceiveAnswer
<1> QED  BY <1>1, <1>2, <1>3

\* So does garbageCollector, which closes a handler that has not expired.
LEMMA GcObeys ==
    ASSUME P!IInv, Kept,
           \/ GcStarts \/ GcEnds \/ (call[gc] \in ExecCallers /\ GcSkips)
           \/ \E c \in ExecCallers : GcOpens(c)
    PROVE  Obeys
<1>0. gc \in Runners /\ gc \in Threads /\ gc # parser /\ pc \in [Threads -> Places]
      /\ call \in [Runners -> Callers \cup {None}]
  BY Distinct DEF Kept, ClientTypeOK
<1>1. CASE GcStarts \/ GcEnds
  <2>1. UNCHANGED mapVars /\ UNCHANGED call /\ \E from, to \in {"idle", "testing"} : Goes(gc, from, to)
    BY <1>1 DEF GcStarts, GcEnds, runnerVars
  <2>2. /\ pc[gc] \notin Busy /\ pc'[gc] \in {"idle", "testing"} /\ pc' \in [Threads -> Places]
        /\ \A u \in Threads \ {gc} : pc'[u] = pc[u]
    BY <1>0, <2>1, Moved DEF Kept, Busy, Places
  <2>3. HandlesHeld' /\ ParserAtLogin'
    BY <1>0, <2>1, <2>2, RunnerMoves DEF mapVars, Busy
  <2>4. ClientTypeOK'
    BY <1>1, <2>1, <2>2, MapFacts
    DEF GcStarts, GcEnds, Kept, ClientTypeOK, runnerVars, netVars, waitVars, handlerVars
  <2> QED  BY <2>1, <2>3, <2>4 DEF Obeys, Kept, mapVars, Map!mapVars
<1>2. CASE call[gc] \in ExecCallers /\ GcSkips
  <2>1. pc[gc] = "skipping" /\ pc'[gc] = "testing" /\ pc' \in [Threads -> Places]
        /\ \A u \in Threads \ {gc} : pc'[u] = pc[u]
    BY <1>0, <1>2, Moved DEF GcSkips, Kept, Places
  <2>2. Map!Close(gc, call[gc]) /\ handle' = [handle EXCEPT ![call[gc]][gc] = nullptr] /\ UNCHANGED call
    BY <1>0, <1>2, <2>1 DEF GcSkips, Map!Close, Map!CloseElement, Kept, HandlesHeld, Busy, runnerVars
  <2>3. HandlesHeld'
    BY <1>0, <1>2, <2>1, <2>2, MapFacts DEF Kept, HandlesHeld, Busy
  <2>4. ClientTypeOK' /\ ParserAtLogin'
    BY <1>0, <1>2, <2>1, Distinct
    DEF GcSkips, Kept, ClientTypeOK, ParserAtLogin, netVars, waitVars, handlerVars, runnerVars
  <2> QED  BY <1>0, <1>2, <2>2, <2>3, <2>4 DEF Obeys, Kept, Map!Next
<1>3. ASSUME NEW c \in ExecCallers, GcOpens(c)
      PROVE  Obeys
  <2>0. c \in Callers /\ call' = [call EXCEPT ![gc] = c] /\ gcKeys' = gcKeys \ {c}
        /\ UNCHANGED <<netVars, handlerVars, waitVars, result>>
    BY <1>3, Distinct DEF GcOpens
  <2>1. CASE Goes(gc, "testing", "testing") /\ UNCHANGED mapVars
    <3>1. /\ pc[gc] = "testing" /\ pc'[gc] = "testing" /\ pc' \in [Threads -> Places]
          /\ \A u \in Threads \ {gc} : pc'[u] = pc[u]
      BY <1>0, <2>1, Moved DEF Kept, Places
    <3>2. \A u \in Runners \ {gc} : pc'[u] = pc[u] /\ call'[u] = call[u]
      BY <1>0, <2>0, <3>1, Distinct
    <3>3. HandlesHeld' /\ ParserAtLogin'
      BY <1>0, <2>1, <3>1, <3>2, Distinct DEF Kept, HandlesHeld, ParserAtLogin, Busy, mapVars
    <3>4. ClientTypeOK'
      BY <1>0, <2>0, <3>1 DEF Kept, ClientTypeOK, netVars, waitVars, handlerVars
    <3> QED  BY <2>1, <3>3, <3>4 DEF Obeys, Kept, mapVars, Map!mapVars
  <2>2. CASE Map!OpenElement(gc, c) /\ \E to \in {"opened", "skipping"} : Goes(gc, "testing", to)
    <3>1. /\ pc[gc] = "testing" /\ pc'[gc] \in {"opened", "skipping"} /\ pc' \in [Threads -> Places]
          /\ \A u \in Threads \ {gc} : pc'[u] = pc[u]
      BY <1>0, <2>2, Moved DEF Kept, Places
    <3>2. Map!Next /\ HandlesHeld' /\ ParserAtLogin'
      BY <1>0, <2>0, <2>2, <3>1, OpeningKeeps DEF Busy
    <3>3. ClientTypeOK'
      BY <1>0, <2>0, <3>1 DEF Kept, ClientTypeOK, netVars, waitVars, handlerVars
    <3> QED  BY <3>2, <3>3 DEF Obeys, Kept
  <2> QED  BY <1>3, <2>1, <2>2 DEF GcOpens
<1> QED  BY <1>1, <1>2, <1>3

\* So does the destructor, which waits with no handle.
LEMMA OwnerObeys ==
    ASSUME P!IInv, Kept, OwnerStep
    PROVE  Obeys
<1>0. owner \in Threads \ Runners
  BY Distinct
<1>1. CASE Destructor \/ DestructorEnds
  <2>1. UNCHANGED <<call, handle>> /\ \E from, to \in {"idle", "destroying", "done"} : Goes(owner, from, to)
    BY <1>1 DEF Destructor, DestructorEnds, WaitForHandlers, Map!WaitForEmpty, mapVars, runnerVars
  <2>2. pc' \in [Threads -> Places] /\ \A u \in Threads \ {owner} : pc'[u] = pc[u]
    BY <1>0, <2>1, Moved DEF Kept, Places
  <2>3. [Map!Next]_(Map!mapVars)
    <3>1. CASE Map!WaitForEmpty(owner)
      <4>1. Map!Empty(owner)
        BY <1>0, <3>1, FreeToDestroy DEF Map!Empty, Kept
      <4> QED  BY <1>0, <4>1 DEF Map!Next
    <3>2. CASE UNCHANGED mapVars
      BY <3>2 DEF mapVars, Map!mapVars
    <3> QED  BY <1>1, <3>1, <3>2 DEF Destructor, DestructorEnds, WaitForHandlers
  <2>4. ClientTypeOK'
    BY <1>1, <2>2
    DEF Destructor, DestructorEnds, Kept, ClientTypeOK, runnerVars, netVars, waitVars, handlerVars
  <2> QED  BY <1>0, <2>1, <2>2, <2>3, <2>4, OthersMove DEF Obeys, Kept
<1>2. CASE WaitForEmptyReturns
  <2>1. Map!Next /\ UNCHANGED <<call, handle, pc>>
    BY <1>0, <1>2 DEF WaitForEmptyReturns, Map!Next, Map!WaitForEmptyReturn, runnerVars
  <2>2. ClientTypeOK'
    BY <1>2 DEF WaitForEmptyReturns, Kept, ClientTypeOK, runnerVars, netVars, waitVars, handlerVars
  <2> QED  BY <2>1, <2>2, SamePlaces DEF Obeys, Kept
<1> QED  BY <1>1, <1>2 DEF OwnerStep

\* Every step of the client is a step of the map or leaves it alone.
LEMMA StepObeys ==
    ASSUME P!IInv, Kept, [Next]_vars
    PROVE  Obeys
<1>1. CASE UNCHANGED vars
  <2>1. ClientTypeOK'
    BY <1>1 DEF vars, Kept, ClientTypeOK, netVars, waitVars, handlerVars, runnerVars
  <2> QED  BY <1>1, <2>1, SamePlaces DEF vars, Obeys, Kept, mapVars, Map!mapVars, runnerVars
<1>2. ASSUME NEW c \in ExecCallers, Expire(c)
      PROVE  Obeys
  <2>1. ClientTypeOK'
    BY <1>2 DEF Expire, Kept, ClientTypeOK, netVars, waitVars, runnerVars
  <2> QED  BY <1>2, <2>1, SamePlaces DEF Expire, Obeys, Kept, mapVars, Map!mapVars, runnerVars
<1>3. ASSUME NEW c \in Callers, CallerStep(c) \/ WaitForValidHandShake(c)
      PROVE  Obeys
  BY <1>3, CallersObey
<1>8. ASSUME NEW t \in Threads, SpuriousWakeup(t)
      PROVE  Obeys
  BY <1>8, SpuriousObeys
<1>4. CASE ParserStep
  BY <1>4, Distinct, HandlerStepsObey, ParserObeys DEF ParserStep
<1>5. CASE GcStep
  <2>1. CASE HandlerStep(gc)
    <3>1. gc \in Runners
      BY Distinct
    <3> QED  BY <2>1, <3>1, HandlerStepsObey
  <2> QED  BY <1>5, <2>1, GcObeys DEF GcStep
<1>6. CASE OwnerStep
  BY <1>6, OwnerObeys
<1>7. CASE Environment
  BY <1>3, <1>7, ParserObeys DEF Environment
<1> QED  BY <1>1, <1>2, <1>3, <1>4, <1>5, <1>6, <1>7, <1>8 DEF Next

\* At first nobody has a handle.
LEMMA InitKept == Init => Kept
<1> SUFFICES ASSUME Init  PROVE Kept
  OBVIOUS
<1>1. pc \in [Threads -> Places] /\ \A r \in Runners : pc[r] \in {"handshaking", "idle"}
  BY Distinct DEF Init, Places, Runners
<1>2. ClientTypeOK
  BY <1>1, Distinct DEF Init, ClientTypeOK
<1>3. HandlesHeld /\ ParserAtLogin
  BY <1>1, Distinct DEF Init, Map!Init, HandlesHeld, ParserAtLogin, Busy
<1> QED  BY <1>2, <1>3 DEF Kept

-----------------------------------------------------------------------------

\* The client uses its map by the map's rules, and the map's invariant holds of its handlers.
THEOREM MapInvariance == SafeSpec => [](P!IInv /\ Kept)
<1>1. P!IInv /\ Kept /\ [Next]_vars => (P!IInv /\ Kept)'
  BY StepObeys, MapStep DEF Obeys
<1> QED  BY <1>1, MapInit, InitKept, PTL DEF SafeSpec

\* Every step of the client is one of the map as its proofs have it, or leaves it alone: no
\* thread opens a handler twice, closes what it has not open, or destroys one with a handle in its hands.
THEOREM MapIsObeyed == Spec => MapObeyed
<1>1. Init => Map!Init
  BY DEF Init
<1>2. P!IInv /\ Kept /\ [Next]_vars => [Map!Next]_(Map!mapVars)
  BY StepObeys DEF Obeys
<1> QED  BY <1>1, <1>2, MapInvariance, PTL DEF Spec, SafeSpec, MapObeyed, Map!SafeSpec

-----------------------------------------------------------------------------
(* Callbacks, and those who wait for them *)

\* Its callback has been made and has returned.
Over(c) == execTimes[c] > 0 /\ execOwner[c] = None

\* c relies on its handler, or has given it to whoever gets an answer or sees it expire.
Awaiting(c) == pc[c] = "waiting" \/ result[c] = "sent"

\* Each handler is under the key of its own; so destroyElement deletes the handler it was told to.
OwnElements ==
    /\ allocated = keys
    /\ \A k \in ExecCallers : rdElement[k] \in {k, nullptr}
    /\ \A t \in Threads : destroying[t] # NoKey => delElement[t] = destroying[t]
    /\ \A c \in ExecCallers : destroying[c] \in {c, NoKey}

Executions ==
    /\ \A c \in ExecCallers : callbacks[c] = IF execTimes[c] = 0 THEN 0 ELSE 1
    /\ \A c \in ExecCallers, r \in Runners : execOwner[c] = r <=> pc[r] = "running" /\ call[r] = c
    /\ \A c \in ExecCallers : execOwner[c] # None => execTimes[c] > 0

\* Nothing is destroyed, and nobody who waited returns, before the callback is over.
Settled ==
    /\ \A c \in written : Over(c)
    /\ \A r \in Runners : pc[r] \in {"closing", "destroying"} => call[r] \in ExecCallers /\ Over(call[r])
    /\ \A c \in ExecCallers : Awaiting(c) /\ rdElement[c] = nullptr => Over(c)
    /\ \A c \in SyncCallers \ early :
          /\ pc[c] = "done" \/ (pc[c] = "destroying" /\ inside[c] = "none")
          /\ c \in allocated
          => Over(c)

\* Its handler is added late, and a caller that has given its handler away is done.
CallersWay ==
    \A c \in ExecCallers :
        /\ pc[c] \in {"idle", "locking", "streaming", "adding", "waiting", "destroying", "done"}
        /\ pc[c] \in {"idle", "locking", "streaming", "adding"} => c \notin keys
        /\ pc[c] # "done" => result[c] # "sent"

\* The owner begins when the calls have returned, and goes on when the map is empty or its
\* wait has ended by itself.
OwnerWaits ==
    /\ pc[owner] # "idle" => \A c \in Callers : pc[c] = "done"
    /\ zeroMapsWaiters \subseteq {owner}
    /\ owner \in zeroMapsWaiters => inside[owner] = "waitForEmpty"
    /\ pc[owner] \in {"idle", "destroying", "done"}
    /\ pc[owner] \in {"destroying", "done"} /\ owner \notin zeroMapsWaiters \cup early => keys = {}
    /\ pc[owner] = "done" => owner \notin zeroMapsWaiters

IInv == OwnElements /\ Executions /\ Settled /\ CallersWay /\ OwnerWaits

\* At first nothing was called.
LEMMA InitIInv == Init => IInv
<1> SUFFICES ASSUME Init  PROVE IInv
  OBVIOUS
<1>1. /\ \A r \in Runners : pc[r] \in {"handshaking", "idle"}
      /\ \A c \in Callers : pc[c] \in {"idle", "done"}
      /\ pc[owner] = "idle"
  BY Distinct DEF Init, Runners
<1>2. OwnElements
  BY Distinct DEF Init, Map!Init, OwnElements
<1>3. Executions
  BY <1>1, Distinct DEF Init, Executions
<1>4. Settled
  BY <1>1, Distinct DEF Init, Map!Init, Settled, Awaiting, ExecCallers, Callers
<1>5. CallersWay /\ OwnerWaits
  BY <1>1, Distinct DEF Init, Map!Init, CallersWay, OwnerWaits
<1> QED  BY <1>2, <1>3, <1>4, <1>5 DEF IInv

\* A caller goes on without a map or a handler of its own; it ends because it never had one,
\* because its wait ended, with a result or by itself, or after it destroyed what it had.
LEMMA CallerGoesOn ==
    ASSUME Kept, IInv, NEW c \in Callers, UNCHANGED <<mapVars, handlerVars, call>>,
           early \subseteq early',
           \A u \in Threads \ {c} : pc'[u] = pc[u],
           \A u \in Callers \ {c} : result'[u] = result[u],
           pc[c] # "done",
           c \in ExecCallers =>
               \/ /\ pc[c] \in {"idle", "locking", "streaming"} /\ result'[c] # "sent"
                  /\ pc'[c] \in {"locking", "streaming", "adding", "done"}
               \/ pc[c] = "waiting" /\ c \in written \cup early' /\ pc'[c] = "done" /\ result'[c] # "sent"
               \/ pc[c] = "destroying" /\ inside[c] = "none" /\ pc'[c] = "done" /\ result'[c] # "sent"
    PROVE  IInv'
<1>0. /\ \A r \in Runners : pc'[r] = pc[r] /\ call'[r] = call[r]
      /\ pc'[owner] = pc[owner]
      /\ SyncCallers \subseteq ExecCallers
  BY Distinct DEF ExecCallers
<1>1. OwnElements'
  BY DEF IInv, OwnElements, mapVars
<1>2. Executions'
  BY <1>0 DEF IInv, Executions, handlerVars
<1>3. Settled'
  <2>1. \A d \in ExecCallers : Over(d)' <=> Over(d)
    BY DEF Over, handlerVars
  <2>2. \A d \in written' : Over(d)'
    BY <1>0, <2>1 DEF IInv, Settled, handlerVars, Kept, ClientTypeOK
  <2>3. \A r \in Runners : pc'[r] \in {"closing", "destroying"} => call'[r] \in ExecCallers /\ Over(call[r])'
    BY <1>0, <2>1 DEF IInv, Settled
  <2>4. \A d \in ExecCallers : Awaiting(d)' => Awaiting(d)
    BY Distinct DEF Awaiting
  <2>5. ASSUME NEW d \in SyncCallers \ early', d \in allocated,
               pc'[d] = "done" \/ (pc'[d] = "destroying" /\ inside[d] = "none")
        PROVE  Over(d)
    BY <1>0, <2>5, Distinct DEF IInv, Settled, OwnElements, CallersWay
  <2> QED  BY <1>0, <2>1, <2>2, <2>3, <2>4, <2>5 DEF IInv, Settled, mapVars
<1>4. CallersWay'
  BY Distinct DEF IInv, CallersWay, mapVars
<1>5. OwnerWaits'
  BY <1>0, Distinct DEF IInv, OwnerWaits, mapVars
<1> QED  BY <1>1, <1>2, <1>3, <1>4, <1>5 DEF IInv

\* What the invariant is about of the map, apart from who sleeps and who holds what.
held == <<keys, rdElement, allocated, inside, destroying, delElement, zeroMapsWaiters>>
executed == <<execTimes, execOwner, callbacks, written, early>>

\* A runner goes on, opens and closes handlers, without executing or destroying one.
LEMMA RunnerGoesOn ==
    ASSUME Kept, IInv, NEW r \in Runners, UNCHANGED <<held, executed, result>>,
           \A u \in Threads \ {r} : pc'[u] = pc[u],
           \A u \in Runners \ {r} : call'[u] = call[u],
           pc[r] # "running", pc'[r] # "running",
           pc'[r] \in {"closing", "destroying"} => call'[r] \in ExecCallers /\ Over(call'[r])
    PROVE  IInv'
<1>0. /\ \A u \in Runners \ {r} : pc'[u] = pc[u] /\ call'[u] = call[u]
      /\ \A c \in Callers : pc'[c] = pc[c]
      /\ pc'[owner] = pc[owner]
      /\ SyncCallers \subseteq ExecCallers /\ ExecCallers \subseteq Callers
  BY Distinct DEF ExecCallers
<1>1. OwnElements' /\ CallersWay' /\ OwnerWaits'
  BY <1>0 DEF IInv, OwnElements, CallersWay, OwnerWaits, held, executed
<1>2. Executions'
  <2>1. \A u \in Runners, c \in ExecCallers :
            pc'[u] = "running" /\ call'[u] = c <=> pc[u] = "running" /\ call[u] = c
    BY <1>0
  <2> QED  BY <2>1 DEF IInv, Executions, executed
<1>3. Settled'
  <2>1. \A c : Over(c)' <=> Over(c)
    BY DEF Over, executed
  <2>2. \A u \in Runners : pc'[u] \in {"closing", "destroying"} => call'[u] \in ExecCallers /\ Over(call'[u])
    BY <1>0 DEF IInv, Settled
  <2>3. \A c \in ExecCallers : Awaiting(c)' <=> Awaiting(c)
    BY <1>0 DEF Awaiting
  <2>4. \A u \in Runners : pc'[u] \in {"closing", "destroying"} => call'[u] \in ExecCallers /\ Over(call[u])'
    BY <2>2 DEF Over, executed
  <2> QED  BY <1>0, <2>1, <2>3, <2>4 DEF IInv, Settled, held, executed
<1> QED  BY <1>1, <1>2, <1>3 DEF IInv

\* What does not concern handlers and callers leaves the invariant alone.
LEMMA NobodyMoves ==
    ASSUME Kept, IInv, UNCHANGED <<held, executed, result, pc, call>>
    PROVE  IInv'
<1>1. OwnElements' /\ CallersWay' /\ OwnerWaits' /\ Executions'
  BY DEF IInv, OwnElements, CallersWay, OwnerWaits, Executions, held, executed
<1>2. Settled'
  BY DEF IInv, Settled, Over, Awaiting, held, executed
<1> QED  BY <1>1, <1>2 DEF IInv

\* A handler is added under the key of its own, by a caller that then awaits it.
LEMMA AddHandlerIInv ==
    ASSUME P!IInv, Kept, IInv, NEW c \in ExecCallers, AddHandler(c)
    PROVE  IInv'
<1>0. /\ c \in Threads /\ c \in Callers /\ c \notin Runners /\ c # owner /\ c # nullptr
      /\ pc \in [Threads -> Places]
      /\ SyncCallers \subseteq ExecCallers /\ ExecCallers \subseteq Callers
  BY Distinct DEF Kept, ClientTypeOK, ExecCallers
<1>1. /\ keys' = keys \cup {c} /\ allocated' = allocated \cup {c}
      /\ rdElement' = [rdElement EXCEPT ![c] = c]
      /\ UNCHANGED <<inside, destroying, delElement, zeroMapsWaiters>>
      /\ UNCHANGED <<executed, call>>
  BY DEF AddHandler, Map!AddElement, handlerVars, runnerVars, waitVars, executed
<1>2. /\ pc[c] = "adding" /\ \A u \in Threads \ {c} : pc'[u] = pc[u]
      /\ \/ c \in SyncCallers /\ pc'[c] = "waiting" /\ UNCHANGED result
         \/ c \notin SyncCallers /\ pc'[c] = "done"
      /\ \A d \in Callers \ {c} : result'[d] = result[d]
  BY <1>0 DEF AddHandler, Goes, Returns, Kept, ClientTypeOK
<1>3. /\ \A r \in Runners : pc'[r] = pc[r] /\ call'[r] = call[r]
      /\ pc'[owner] = pc[owner] /\ rdElement'[c] = c
      /\ \A k \in ExecCallers \ {c} : rdElement'[k] = rdElement[k]
  BY <1>0, <1>1, <1>2, MapFacts, Distinct
<1>4. OwnElements'
  BY <1>1, <1>3 DEF IInv, OwnElements
<1>5. Executions'
  BY <1>1, <1>3 DEF IInv, Executions, executed
<1>6. Settled'
  <2>1. \A d : Over(d)' <=> Over(d)
    BY <1>1 DEF Over, executed
  <2>2. \A d \in ExecCallers \ {c} : Awaiting(d)' <=> Awaiting(d)
    BY <1>0, <1>2, Distinct DEF Awaiting
  <2>3. \A d \in ExecCallers : Awaiting(d)' /\ rdElement'[d] = nullptr => Over(d)
    BY <1>0, <1>3, <2>2 DEF IInv, Settled
  <2>4. ASSUME NEW d \in SyncCallers \ early', d \in allocated',
               pc'[d] = "done" \/ (pc'[d] = "destroying" /\ inside'[d] = "none")
        PROVE  Over(d)
    BY <1>0, <1>1, <1>2, <2>4, Distinct DEF IInv, Settled, executed
  <2>5. \A r \in Runners : pc'[r] \in {"closing", "destroying"} => call'[r] \in ExecCallers /\ Over(call[r])'
    BY <1>3, <2>1 DEF IInv, Settled
  <2> QED  BY <1>1, <1>3, <2>1, <2>3, <2>4, <2>5 DEF IInv, Settled, executed
<1>7. CallersWay'
  BY <1>0, <1>1, <1>2, Distinct DEF IInv, CallersWay
<1>8. OwnerWaits'
  <2>1. pc[owner] = "idle"
    BY <1>0, <1>2 DEF IInv, OwnerWaits
  <2> QED  BY <1>1, <1>3, <2>1 DEF IInv, OwnerWaits
<1> QED  BY <1>4, <1>5, <1>6, <1>7, <1>8 DEF IInv

\* What destroyElement does of what the invariant is about: now, or at the end of its wait, it
\* deletes the handler of its key; from its beginning on nobody opens it.
LEMMA DestroyEffects ==
    ASSUME P!IInv, OwnElements, NEW t \in Threads, NEW k \in ExecCallers, DestroyElement(t, k)
    PROVE  /\ rdElement'[k] = nullptr /\ \A j \in ExecCallers \ {k} : rdElement'[j] = rdElement[j]
           /\ keys' \subseteq keys /\ allocated' = keys'
           /\ \A u \in Threads \ {t} :
                 inside'[u] = inside[u] /\ destroying'[u] = destroying[u] /\ delElement'[u] = delElement[u]
           /\ \/ UNCHANGED <<inside, destroying, delElement>>
              \/ inside'[t] = "destroyElement" /\ destroying'[t] = k /\ delElement'[t] = k
           /\ inside'[t] = "none" => k \notin allocated' \/ rdElement[k] = nullptr
           /\ readers[k] = 0 \/ inside'[t] = "destroyElement" \/ UNCHANGED mapVars
           /\ \/ UNCHANGED zeroMapsWaiters
              \/ keys' = {} /\ zeroMapsWaiters' \subseteq zeroMapsWaiters
<1>1. CASE Map!DestroyElementNow(t, k)
  <2>1. rdElement[k] = k
    BY <1>1 DEF OwnElements, Map!DestroyElementNow, Map!Openable
  <2>2. \/ UNCHANGED zeroMapsWaiters
        \/ keys' = {} /\ zeroMapsWaiters' \subseteq zeroMapsWaiters
    BY <1>1 DEF Map!DestroyElementNow, Map!DeleteAndErase, Map!NotifyIfEmpty, Map!NotifyOne
  <2> QED
    BY <1>1, <2>1, <2>2, MapFacts DEF Map!DestroyElementNow, Map!DeleteAndErase, OwnElements
<1>2. CASE Map!DestroyElementWait(t, k)
  <2>1. rdElement[k] = k
    BY <1>2 DEF OwnElements, Map!DestroyElementWait, Map!Openable
  <2> QED
    BY <1>2, <2>1, MapFacts DEF Map!DestroyElementWait, Map!Unpublish, OwnElements
<1>3. CASE ~Map!Openable(k) /\ UNCHANGED mapVars
  BY <1>3, MapFacts DEF Map!Openable, OwnElements, mapVars
<1> QED  BY <1>1, <1>2, <1>3 DEF DestroyElement

\* A runner destroys the handler that it has executed, or found executed.
LEMMA DestroyHandlerIInv ==
    ASSUME P!IInv, Kept, IInv, NEW r \in Runners, call[r] \in ExecCallers, DestroyHandler(r)
    PROVE  IInv'
<1> DEFINE k == call[r]
<1>0. /\ r \in Threads /\ r # owner /\ r \notin ExecCallers /\ k \in ExecCallers /\ pc \in [Threads -> Places]
      /\ SyncCallers \subseteq ExecCallers /\ ExecCallers \subseteq Callers
  BY Distinct DEF Kept, ClientTypeOK, ExecCallers
<1>1. /\ pc[r] = "destroying" /\ pc'[r] \in {"idle", "testing"}
      /\ \A u \in Threads \ {r} : pc'[u] = pc[u]
      /\ UNCHANGED <<call, executed, result>> /\ DestroyElement(r, k)
  BY <1>0, Moved DEF DestroyHandler, DestroyExecuted, Kept, Places, handlerVars, runnerVars, waitVars, executed
<1>2. /\ \A u \in Runners \ {r} : pc'[u] = pc[u]
      /\ \A c \in Callers : pc'[c] = pc[c]
      /\ pc'[owner] = pc[owner]
  BY <1>0, <1>1, Distinct
<1>3. Over(k)
  BY <1>1 DEF IInv, Settled
<1> HIDE DEF k
<1>4. /\ rdElement'[k] = nullptr /\ \A j \in ExecCallers \ {k} : rdElement'[j] = rdElement[j]
      /\ keys' \subseteq keys /\ allocated' = keys' /\ allocated = keys
      /\ \A u \in Threads \ {r} :
            inside'[u] = inside[u] /\ destroying'[u] = destroying[u] /\ delElement'[u] = delElement[u]
      /\ \/ UNCHANGED <<inside, destroying, delElement>>
         \/ destroying'[r] = k /\ delElement'[r] = k
      /\ \/ UNCHANGED zeroMapsWaiters
         \/ keys' = {} /\ zeroMapsWaiters' \subseteq zeroMapsWaiters
  BY <1>0, <1>1, DestroyEffects DEF IInv, OwnElements
<1>5. OwnElements'
  BY <1>0, <1>4, Distinct DEF IInv, OwnElements
<1>6. Executions'
  BY <1>1, <1>2 DEF IInv, Executions, executed
<1>7. Settled'
  <2>1. \A d : Over(d)' <=> Over(d)
    BY <1>1 DEF Over, executed
  <2>2. \A d \in ExecCallers : Awaiting(d)' <=> Awaiting(d)
    BY <1>0, <1>1, <1>2 DEF Awaiting
  <2>3. \A d \in ExecCallers : Awaiting(d)' /\ rdElement'[d] = nullptr => Over(d)
    BY <1>3, <1>4, <2>2 DEF IInv, Settled
  <2>4. ASSUME NEW d \in SyncCallers \ early', d \in allocated',
               pc'[d] = "done" \/ (pc'[d] = "destroying" /\ inside'[d] = "none")
        PROVE  Over(d)
    BY <1>0, <1>1, <1>2, <1>4, <2>4, Distinct DEF IInv, Settled, executed
  <2>5. \A u \in Runners : pc'[u] \in {"closing", "destroying"} => call'[u] \in ExecCallers /\ Over(call[u])'
    BY <1>1, <1>2, <2>1 DEF IInv, Settled
  <2> QED  BY <1>1, <2>1, <2>3, <2>4, <2>5 DEF IInv, Settled, executed
<1>8. CallersWay'
  BY <1>0, <1>1, <1>2, <1>4 DEF IInv, CallersWay
<1>9. OwnerWaits'
  BY <1>0, <1>1, <1>2, <1>4, Distinct DEF IInv, OwnerWaits, executed
<1> QED  BY <1>5, <1>6, <1>7, <1>8, <1>9 DEF IInv

\* execSync gives up and destroys its handler, or finds that a runner has.
LEMMA WaitTimesOutIInv ==
    ASSUME P!IInv, Kept, IInv, NEW c \in ExecCallers, WaitTimesOut(c)
    PROVE  IInv'
<1>0. /\ c \in Threads /\ c # owner /\ c \notin Runners /\ pc \in [Threads -> Places]
      /\ SyncCallers \subseteq ExecCallers /\ ExecCallers \subseteq Callers /\ c # NoKey
  BY Distinct DEF Kept, ClientTypeOK, ExecCallers
<1>1. /\ pc[c] = "waiting" /\ pc'[c] = "destroying"
      /\ \A u \in Threads \ {c} : pc'[u] = pc[u]
      /\ UNCHANGED <<call, executed, result>> /\ DestroyElement(c, c)
  BY <1>0, Moved DEF WaitTimesOut, GiveUpHandler, Kept, Places, handlerVars, runnerVars, waitVars, executed
<1>2. /\ \A u \in Runners : pc'[u] = pc[u]
      /\ \A d \in Callers \ {c} : pc'[d] = pc[d]
      /\ pc'[owner] = pc[owner]
      /\ result'[c] # "sent"
  BY <1>0, <1>1, Distinct DEF IInv, CallersWay
<1>4. /\ rdElement'[c] = nullptr /\ \A j \in ExecCallers \ {c} : rdElement'[j] = rdElement[j]
      /\ keys' \subseteq keys /\ allocated' = keys' /\ allocated = keys
      /\ \A u \in Threads \ {c} :
            inside'[u] = inside[u] /\ destroying'[u] = destroying[u] /\ delElement'[u] = delElement[u]
      /\ \/ UNCHANGED <<inside, destroying, delElement>>
         \/ destroying'[c] = c /\ delElement'[c] = c
      /\ inside'[c] = "none" => c \notin allocated' \/ rdElement[c] = nullptr
      /\ \/ UNCHANGED zeroMapsWaiters
         \/ keys' = {} /\ zeroMapsWaiters' \subseteq zeroMapsWaiters
  BY <1>0, <1>1, DestroyEffects DEF IInv, OwnElements
<1>5. OwnElements'
  BY <1>0, <1>4, Distinct DEF IInv, OwnElements
<1>6. Executions'
  BY <1>1, <1>2 DEF IInv, Executions, executed
<1>7. Settled'
  <2>1. \A d : Over(d)' <=> Over(d)
    BY <1>1 DEF Over, executed
  <2>2. \A d \in ExecCallers \ {c} : Awaiting(d)' <=> Awaiting(d)
    BY <1>0, <1>1, <1>2 DEF Awaiting
  <2>3. \A d \in ExecCallers : Awaiting(d)' /\ rdElement'[d] = nullptr => Over(d)
    BY <1>1, <1>2, <1>4, <2>2 DEF IInv, Settled, Awaiting
  <2>4. ASSUME NEW d \in SyncCallers \ early', d \in allocated',
               pc'[d] = "done" \/ (pc'[d] = "destroying" /\ inside'[d] = "none")
        PROVE  Over(d)
    <3>1. CASE d = c
      BY <1>1, <1>4, <2>4, <3>1 DEF IInv, Settled, Awaiting
    <3>2. CASE d # c
      BY <1>0, <1>1, <1>2, <1>4, <2>4, <3>2, Distinct DEF IInv, Settled, executed
    <3> QED  BY <3>1, <3>2
  <2>5. \A u \in Runners : pc'[u] \in {"closing", "destroying"} => call'[u] \in ExecCallers /\ Over(call[u])'
    BY <1>1, <1>2, <2>1 DEF IInv, Settled
  <2> QED  BY <1>1, <2>1, <2>3, <2>4, <2>5 DEF IInv, Settled, executed
<1>8. CallersWay'
  BY <1>0, <1>1, <1>2, <1>4 DEF IInv, CallersWay
<1>9. OwnerWaits'
  BY <1>0, <1>2, <1>4, <1>1, Distinct DEF IInv, OwnerWaits
<1> QED  BY <1>5, <1>6, <1>7, <1>8, <1>9 DEF IInv

\* The end of a wait in destroyElement deletes what nobody could open any more.
LEMMA ResumeIInv ==
    ASSUME P!IInv, Kept, IInv, NEW t \in Threads, Resume(t)
    PROVE  IInv'
<1>0. UNCHANGED <<pc, call, executed, result>>
  BY DEF Resume, handlerVars, runnerVars, waitVars, executed
<1>1. CASE Map!DestroyElementWaitAgain(t)
  BY <1>0, <1>1, NobodyMoves DEF Map!DestroyElementWaitAgain, held
<1>2. CASE Map!DestroyElementFinish(t)
  <2>0. SyncCallers \subseteq ExecCallers /\ ExecCallers \subseteq Callers /\ ExecCallers \subseteq Threads
    BY Distinct DEF ExecCallers
  <2>1. PICK k \in ExecCallers : /\ destroying[t] = k /\ delElement[t] = k /\ rdElement[k] = nullptr /\ k # NoKey
                                  /\ inside[t] = "destroyElement"
    BY <1>2, MapFacts, Distinct
    DEF Map!DestroyElementFinish, Map!WokenInDestroy, IInv, OwnElements
  <2>2. /\ keys' = keys \ {k} /\ allocated' = allocated \ {k}
        /\ rdElement' = [rdElement EXCEPT ![k] = nullptr]
        /\ inside' = [inside EXCEPT ![t] = "none"]
        /\ destroying' = [destroying EXCEPT ![t] = NoKey]
        /\ delElement' = [delElement EXCEPT ![t] = nullptr]
        /\ \/ UNCHANGED zeroMapsWaiters
           \/ keys' = {} /\ zeroMapsWaiters' \subseteq zeroMapsWaiters
    BY <1>2, <2>1 DEF Map!DestroyElementFinish, Map!DeleteAndReturn, Map!DeleteAndErase,
                      Map!NotifyIfEmpty, Map!NotifyOne
  <2>3. \A j \in ExecCallers : rdElement'[j] = rdElement[j]
    BY <2>1, <2>2, MapFacts
  <2>4. OwnElements'
    BY <2>1, <2>2, <2>3, MapFacts DEF IInv, OwnElements
  <2>5. Executions'
    BY <1>0 DEF IInv, Executions, executed
  <2>6. \A c \in ExecCallers : inside'[c] = inside[c] \/ (c = t /\ k = c)
    BY <2>0, <2>1, <2>2, MapFacts DEF IInv, OwnElements
  <2>7. Settled'
    <3>1. \A d : Over(d)' <=> Over(d)
      BY <1>0 DEF Over, executed
    <3>2. \A d \in ExecCallers : Awaiting(d)' <=> Awaiting(d)
      BY <1>0 DEF Awaiting
    <3>3. ASSUME NEW d \in SyncCallers \ early', d \in allocated',
                 pc'[d] = "done" \/ (pc'[d] = "destroying" /\ inside'[d] = "none")
          PROVE  Over(d)
      BY <1>0, <2>0, <2>2, <2>6, <3>3 DEF IInv, Settled, executed
    <3>4. \A u \in Runners : pc'[u] \in {"closing", "destroying"} => call'[u] \in ExecCallers /\ Over(call[u])'
      BY <1>0, <3>1 DEF IInv, Settled
    <3> QED  BY <1>0, <2>3, <3>1, <3>2, <3>3, <3>4 DEF IInv, Settled, executed
  <2>8. CallersWay'
    BY <1>0, <2>2 DEF IInv, CallersWay
  <2>9. OwnerWaits'
    <3>1. owner \in zeroMapsWaiters' => inside'[owner] = "waitForEmpty"
      BY <2>1, <2>2, MapFacts, Distinct DEF IInv, OwnerWaits
    <3> QED  BY <1>0, <2>2, <3>1 DEF IInv, OwnerWaits, executed
  <2> QED  BY <2>4, <2>5, <2>7, <2>8, <2>9 DEF IInv
<1> QED  BY <1>1, <1>2 DEF Resume

\* A wake-up of its own accord moves nobody; the destructor's is noted.
LEMMA SpuriousIInv ==
    ASSUME P!IInv, Kept, IInv, NEW t \in Threads, SpuriousWakeup(t)
    PROVE  IInv'
<1>0. /\ UNCHANGED <<keys, rdElement, allocated, inside, destroying, delElement>>
      /\ UNCHANGED <<pc, call, result, execTimes, execOwner, callbacks, written>>
      /\ early \subseteq early'
      /\ zeroMapsWaiters' \subseteq zeroMapsWaiters
      /\ owner \in zeroMapsWaiters \ zeroMapsWaiters' => owner \in early'
  BY DEF SpuriousWakeup, Map!SpuriousWakeup, handlerVars, runnerVars
<1>1. OwnElements' /\ Executions' /\ CallersWay'
  BY <1>0 DEF IInv, OwnElements, Executions, CallersWay
<1>2. Settled'
  <2>1. \A d : Over(d)' <=> Over(d)
    BY <1>0 DEF Over
  <2>2. \A d : Awaiting(d)' <=> Awaiting(d)
    BY <1>0 DEF Awaiting
  <2>3. \A u \in Runners : pc'[u] \in {"closing", "destroying"} => call'[u] \in ExecCallers /\ Over(call[u])'
    BY <1>0, <2>1 DEF IInv, Settled
  <2> QED  BY <1>0, <2>1, <2>2, <2>3 DEF IInv, Settled
<1>3. OwnerWaits'
  BY <1>0 DEF IInv, OwnerWaits
<1> QED  BY <1>1, <1>2, <1>3 DEF IInv

\* exec: the first one makes the callback, later ones find that it has been made.
LEMMA ExecIInv ==
    ASSUME P!IInv, Kept, IInv, NEW r \in Runners, call[r] \in ExecCallers, Exec(r)
    PROVE  IInv'
<1>k. PICK k \in ExecCallers : k = call[r]
  OBVIOUS
<1>0. /\ r \in Threads /\ r # owner /\ r \notin Callers /\ k \in ExecCallers /\ pc \in [Threads -> Places]
      /\ SyncCallers \subseteq ExecCallers /\ ExecCallers \subseteq Callers /\ r # None
      /\ execTimes \in [ExecCallers -> Nat] /\ callbacks \in [ExecCallers -> Nat]
      /\ execOwner \in [ExecCallers -> Runners \cup {None}] /\ written \subseteq SyncCallers
  BY Distinct DEF Kept, ClientTypeOK, ExecCallers
<1>1. /\ pc[r] = "opened" /\ \A u \in Threads \ {r} : pc'[u] = pc[u]
      /\ UNCHANGED <<held, call, result, written, early>> /\ execOwner[k] = None
      /\ execTimes' = [execTimes EXCEPT ![k] = @ + 1]
  BY <1>k, <1>0, Moved DEF Exec, CloseFirst, FirstExec, Kept, Places, Goes, mapVars, held, runnerVars, waitVars
<1>2. /\ \A u \in Runners \ {r} : pc'[u] = pc[u]
      /\ \A c \in Callers : pc'[c] = pc[c]
      /\ pc'[owner] = pc[owner]
  BY <1>0, <1>1, Distinct
<1>3. \/ /\ execTimes[k] = 0 /\ pc'[r] = "running"
         /\ execOwner' = [execOwner EXCEPT ![k] = r] /\ callbacks' = [callbacks EXCEPT ![k] = @ + 1]
      \/ execTimes[k] > 0 /\ pc'[r] = "closing" /\ UNCHANGED <<execOwner, callbacks>>
  BY <1>k, <1>0, Moved DEF Exec, CloseFirst, FirstExec, Kept, Places, Goes
<1>4. \A u \in Runners : ~(pc[u] = "running" /\ call[u] = k)
  BY <1>0, <1>1, Distinct DEF IInv, Executions
<1>5. \A d \in ExecCallers : Over(d) => Over(d)'
  <2>1. \A d \in ExecCallers \ {k} : execTimes'[d] = execTimes[d] /\ execOwner'[d] = execOwner[d]
    BY <1>0, <1>1, <1>3
  <2>2. Over(k) => Over(k)'
    BY <1>0, <1>1, <1>3 DEF Over
  <2> QED  BY <2>1, <2>2 DEF Over
<1>6. Executions'
  <2>1. \A c \in ExecCallers : callbacks'[c] = IF execTimes'[c] = 0 THEN 0 ELSE 1
    <3>1. ASSUME NEW c \in ExecCallers, c # k
          PROVE  callbacks'[c] = callbacks[c] /\ execTimes'[c] = execTimes[c]
      BY <1>0, <1>1, <1>3, <3>1
    <3>2. execTimes'[k] = execTimes[k] + 1 /\ callbacks'[k] = 1
      BY <1>0, <1>1, <1>3 DEF IInv, Executions
    <3> QED  BY <1>0, <3>1, <3>2 DEF IInv, Executions
  <2>2. ASSUME NEW c \in ExecCallers, NEW u \in Runners
        PROVE  execOwner'[c] = u <=> pc'[u] = "running" /\ call'[u] = c
    <3>1. call[r] = k
      BY <1>k
    <3>2. CASE c = k
      BY <1>0, <1>1, <1>2, <1>3, <1>4, <3>1, <3>2 DEF IInv, Executions
    <3>3. CASE c # k
      BY <1>0, <1>1, <1>2, <1>3, <3>1, <3>3 DEF IInv, Executions
    <3> QED  BY <3>2, <3>3
  <2>3. \A c \in ExecCallers : execOwner'[c] # None => execTimes'[c] > 0
    BY <1>0, <1>1, <1>3 DEF IInv, Executions
  <2> QED  BY <2>1, <2>2, <2>3 DEF Executions
<1>7. Settled'
  <2>1. \A d \in written' : Over(d)'
    BY <1>0, <1>1, <1>5 DEF IInv, Settled
  <2>2. \A d \in ExecCallers : Awaiting(d)' <=> Awaiting(d)
    BY <1>0, <1>1, <1>2 DEF Awaiting
  <2>3. \A d \in ExecCallers : Awaiting(d)' /\ rdElement'[d] = nullptr => Over(d)'
    BY <1>1, <1>5, <2>2 DEF IInv, Settled, held
  <2>4. \A d \in SyncCallers \ early' :
            (pc'[d] = "done" \/ (pc'[d] = "destroying" /\ inside'[d] = "none")) /\ d \in allocated'
            => Over(d)'
    BY <1>0, <1>1, <1>2, <1>5 DEF IInv, Settled, held
  <2>5. ASSUME NEW u \in Runners, pc'[u] \in {"closing", "destroying"}
        PROVE  call'[u] \in ExecCallers /\ Over(call[u])'
    <3>1. CASE u = r
      <4>1. call[r] = k /\ call'[r] = k
        BY <1>k, <1>1
      <4>2. execTimes[k] > 0 /\ Over(k)
        BY <1>1, <1>3, <2>5, <3>1 DEF Over
      <4>3. execTimes'[k] > 0 /\ execOwner'[k] = None
        BY <1>0, <1>5, <4>2 DEF Over
      <4> QED  BY <1>0, <3>1, <4>1, <4>3 DEF Over
    <3>2. CASE u # r
      <4>1. call'[u] = call[u] /\ call[u] \in ExecCallers /\ Over(call[u])
        BY <1>1, <1>2, <2>5, <3>2 DEF IInv, Settled
      <4>2. PICK d \in ExecCallers : d = call[u] /\ Over(d)
        BY <4>1
      <4>3. Over(d)'
        BY <1>5, <4>2
      <4> QED  BY <4>1, <4>2, <4>3 DEF Over
    <3> QED  BY <3>1, <3>2
  <2> QED  BY <2>1, <2>3, <2>4, <2>5 DEF Settled
<1>8. OwnElements' /\ CallersWay' /\ OwnerWaits'
  BY <1>0, <1>1, <1>2 DEF IInv, OwnElements, CallersWay, OwnerWaits, held
<1> QED  BY <1>6, <1>7, <1>8 DEF IInv

\* The callback returns: from here on it is over, and an execSync may be told so.
LEMMA ExecReturnsIInv ==
    ASSUME P!IInv, Kept, IInv, NEW r \in Runners, call[r] \in ExecCallers, ExecReturns(r)
    PROVE  IInv'
<1>k. PICK k \in ExecCallers : k = call[r]
  OBVIOUS
<1>0. /\ r \in Threads /\ r # owner /\ r \notin Callers /\ k \in ExecCallers /\ pc \in [Threads -> Places]
      /\ SyncCallers \subseteq ExecCallers /\ ExecCallers \subseteq Callers /\ None \notin Runners
      /\ execTimes \in [ExecCallers -> Nat]
      /\ execOwner \in [ExecCallers -> Runners \cup {None}] /\ written \subseteq SyncCallers
  BY Distinct DEF Kept, ClientTypeOK, ExecCallers
<1>1. /\ pc[r] = "running" /\ pc'[r] = "closing" /\ \A u \in Threads \ {r} : pc'[u] = pc[u]
      /\ UNCHANGED <<held, call, result, execTimes, callbacks, early>>
      /\ execOwner' = [execOwner EXCEPT ![k] = None] /\ written' \subseteq written \cup {k}
      /\ written' \subseteq ExecCallers
  BY <1>k, <1>0, Moved DEF ExecReturns, CloseFirst, Kept, Places, mapVars, held, runnerVars, waitVars
<1>2. /\ \A u \in Runners \ {r} : pc'[u] = pc[u]
      /\ \A c \in Callers : pc'[c] = pc[c]
      /\ pc'[owner] = pc[owner]
  BY <1>0, <1>1, Distinct
<1>3. call[r] = k /\ call'[r] = k
  BY <1>k, <1>1
<1>4. execOwner[k] = r /\ execTimes[k] > 0
  BY <1>0, <1>1, <1>3 DEF IInv, Executions
<1>5. Over(k)' /\ \A d \in ExecCallers : Over(d) => Over(d)'
  BY <1>0, <1>1, <1>4 DEF Over
<1>6. Executions'
  <2>1. ASSUME NEW c \in ExecCallers, NEW u \in Runners
        PROVE  execOwner'[c] = u <=> pc'[u] = "running" /\ call'[u] = c
    <3>1. CASE c = k
      <4>1. execOwner'[c] = None
        BY <1>0, <1>1, <3>1
      <4>2. ~(pc'[u] = "running" /\ call'[u] = c)
        BY <1>0, <1>1, <1>2, <1>3, <1>4, <3>1 DEF IInv, Executions
      <4> QED  BY <1>0, <4>1, <4>2
    <3>2. CASE c # k
      BY <1>0, <1>1, <1>2, <1>3, <3>2 DEF IInv, Executions
    <3> QED  BY <3>1, <3>2
  <2>2. \A c \in ExecCallers : execOwner'[c] # None => execTimes'[c] > 0
    BY <1>0, <1>1 DEF IInv, Executions
  <2> QED  BY <1>1, <2>1, <2>2 DEF IInv, Executions
<1>7. Settled'
  <2>1. \A d \in written' : Over(d)'
    BY <1>0, <1>1, <1>5 DEF IInv, Settled
  <2>2. \A d \in ExecCallers : Awaiting(d)' <=> Awaiting(d)
    BY <1>0, <1>1, <1>2 DEF Awaiting
  <2>3. \A d \in ExecCallers : Awaiting(d)' /\ rdElement'[d] = nullptr => Over(d)'
    BY <1>1, <1>5, <2>2 DEF IInv, Settled, held
  <2>4. \A d \in SyncCallers \ early' :
            (pc'[d] = "done" \/ (pc'[d] = "destroying" /\ inside'[d] = "none")) /\ d \in allocated'
            => Over(d)'
    BY <1>0, <1>1, <1>2, <1>5 DEF IInv, Settled, held
  <2>5. ASSUME NEW u \in Runners, pc'[u] \in {"closing", "destroying"}
        PROVE  call'[u] \in ExecCallers /\ Over(call[u])'
    <3>1. PICK d \in ExecCallers : d = call[u] /\ call'[u] = d /\ Over(d)'
      BY <1>0, <1>1, <1>2, <1>3, <1>5, <2>5 DEF IInv, Settled
    <3> QED  BY <3>1 DEF Over
  <2> QED  BY <2>1, <2>3, <2>4, <2>5 DEF Settled
<1>8. OwnElements' /\ CallersWay' /\ OwnerWaits'
  BY <1>0, <1>1, <1>2 DEF IInv, OwnElements, CallersWay, OwnerWaits, held
<1> QED  BY <1>6, <1>7, <1>8 DEF IInv

\* The destructor waits for an empty map.
LEMMA OwnerIInv ==
    ASSUME P!IInv, Kept, IInv, OwnerStep
    PROVE  IInv'
<1>0. /\ owner \in Threads /\ owner \notin Runners /\ owner \notin Callers /\ pc \in [Threads -> Places]
      /\ ExecCallers \subseteq Callers /\ SyncCallers \subseteq ExecCallers
      /\ Callers \subseteq Threads /\ Runners \subseteq Threads
  BY Distinct DEF Kept, ClientTypeOK, ExecCallers
<1>1. /\ UNCHANGED <<keys, rdElement, allocated, destroying, delElement>>
      /\ UNCHANGED <<call, executed, result>>
      /\ \A u \in Threads \ {owner} : inside'[u] = inside[u]
      /\ \A u \in Threads \ {owner} : pc'[u] = pc[u]
  <2>1. CASE Destructor
    BY <1>0, <2>1, Moved, MapFacts
    DEF Destructor, WaitForHandlers, Map!WaitForEmpty, Kept, Places, mapVars, handlerVars, runnerVars, waitVars, executed
  <2>2. CASE WaitForEmptyReturns
    BY <1>0, <2>2, MapFacts DEF WaitForEmptyReturns, Map!WaitForEmptyReturn, handlerVars, runnerVars, waitVars, executed
  <2>3. CASE DestructorEnds
    BY <1>0, <2>3, Moved DEF DestructorEnds, Kept, Places, mapVars, handlerVars, runnerVars, waitVars, executed
  <2> QED  BY <2>1, <2>2, <2>3 DEF OwnerStep
<1>2. OwnElements' /\ Executions' /\ CallersWay'
  BY <1>0, <1>1 DEF IInv, OwnElements, Executions, CallersWay, executed
<1>3. Settled'
  <2>1. \A d : Over(d)' <=> Over(d)
    BY <1>1 DEF Over, executed
  <2>2. \A d \in ExecCallers : Awaiting(d)' <=> Awaiting(d)
    BY <1>0, <1>1 DEF Awaiting
  <2>3. \A d \in SyncCallers : pc'[d] = pc[d] /\ inside'[d] = inside[d]
    BY <1>0, <1>1
  <2>5. \A u \in Runners : pc'[u] \in {"closing", "destroying"} => call'[u] \in ExecCallers /\ Over(call[u])'
    BY <1>0, <1>1, <2>1 DEF IInv, Settled
  <2> QED  BY <1>1, <2>1, <2>2, <2>3, <2>5 DEF IInv, Settled, executed
<1>4. OwnerWaits'
  <2>1. CASE Destructor
    BY <1>0, <1>1, <2>1, Moved, MapFacts
    DEF IInv, OwnerWaits, Destructor, WaitForHandlers, Map!WaitForEmpty, Kept, Places, mapVars
  <2>2. CASE WaitForEmptyReturns
    BY <1>0, <1>1, <2>2, MapFacts DEF IInv, OwnerWaits, WaitForEmptyReturns, Map!WaitForEmptyReturn, executed
  <2>3. CASE DestructorEnds
    BY <1>0, <1>1, <2>3, Moved, MapFacts DEF IInv, OwnerWaits, DestructorEnds, Kept, Places, mapVars, executed
  <2> QED  BY <2>1, <2>2, <2>3 DEF OwnerStep
<1> QED  BY <1>2, <1>3, <1>4 DEF IInv

\* The steps of a caller keep the invariant.
LEMMA CallersIInv ==
    ASSUME P!IInv, Kept, IInv, NEW c \in Callers, CallerStep(c) \/ WaitForValidHandShake(c)
    PROVE  IInv'
<1> USE DEF Returns
<1>0. /\ c \in Threads /\ pc \in [Threads -> Places] /\ LoginCallers \cap ExecCallers = {}
      /\ DOMAIN result = Callers
  BY Distinct DEF Kept, ClientTypeOK
<1>1. c \in ExecCallers /\ pc[c] # "done" => result[c] # "sent"
  BY DEF IInv, CallersWay
<1>2. c \in ExecCallers => pc[c] # "loginWaiting"
  BY DEF IInv, CallersWay
<1>3. CASE WaitForValidHandShake(c)
  <2>1. UNCHANGED <<mapVars, handlerVars, call, early>>
    BY <1>3 DEF WaitForValidHandShake, runnerVars, waitVars
  <2>2. /\ pc[c] = "idle" /\ pc'[c] \in {"locking", "done"}
        /\ \A u \in Threads \ {c} : pc'[u] = pc[u]
        /\ result'[c] \in {result[c], "failed"} /\ \A u \in Callers \ {c} : result'[u] = result[u]
    BY <1>0, <1>3, Moved DEF WaitForValidHandShake, Kept, Places
  <2> QED  BY <1>1, <2>1, <2>2, CallerGoesOn
<1>4. CASE TryLock(c)
  <2>1. UNCHANGED <<mapVars, handlerVars, call, early>>
    BY <1>4 DEF TryLock, runnerVars, waitVars
  <2>2. /\ pc[c] = "locking" /\ pc'[c] \in {"streaming", "done"}
        /\ \A u \in Threads \ {c} : pc'[u] = pc[u]
        /\ result'[c] \in {result[c], "failed", "timedOut"} /\ \A u \in Callers \ {c} : result'[u] = result[u]
    BY <1>0, <1>4, Moved DEF TryLock, Kept, Places
  <2> QED  BY <1>1, <2>1, <2>2, CallerGoesOn
<1>5. CASE StreamRequest(c)
  <2>1. UNCHANGED <<mapVars, handlerVars, call, early, result>>
    BY <1>5 DEF StreamRequest, runnerVars
  <2>2. /\ pc[c] = "streaming" /\ c \in ExecCallers => pc'[c] = "adding"
        /\ \A u \in Threads \ {c} : pc'[u] = pc[u]
    BY <1>0, <1>5, Moved DEF StreamRequest, AfterStreaming, Kept, Places
  <2>3. pc[c] = "streaming"
    BY <1>5 DEF StreamRequest, Goes
  <2> QED  BY <1>1, <2>1, <2>2, <2>3, CallerGoesOn
<1>6. CASE StreamFails(c)
  <2>1. UNCHANGED <<mapVars, handlerVars, call, early>>
    BY <1>6 DEF StreamFails, runnerVars, waitVars
  <2>2. /\ pc[c] = "streaming" /\ pc'[c] = "done"
        /\ \A u \in Threads \ {c} : pc'[u] = pc[u]
        /\ result'[c] \in {"failed", "timedOut"} /\ \A u \in Callers \ {c} : result'[u] = result[u]
    BY <1>0, <1>6, Moved DEF StreamFails, Kept, Places
  <2> QED  BY <2>1, <2>2, CallerGoesOn
<1>7. CASE WaitEnds(c)
  <2>1. /\ UNCHANGED <<mapVars, handlerVars, call>>
        /\ early \subseteq early' /\ c \in written \cup early'
    BY <1>7 DEF WaitEnds, runnerVars
  <2>2. /\ pc[c] = "waiting" /\ pc'[c] = "done"
        /\ \A u \in Threads \ {c} : pc'[u] = pc[u]
        /\ result'[c] = "ok" /\ \A u \in Callers \ {c} : result'[u] = result[u]
    BY <1>0, <1>7, Moved DEF WaitEnds, Kept, Places
  <2> QED  BY <2>1, <2>2, CallerGoesOn
<1>8. CASE ReturnTimedOut(c)
  <2>1. UNCHANGED <<mapVars, handlerVars, call, early>>
    BY <1>8 DEF ReturnTimedOut, runnerVars, waitVars
  <2>2. /\ pc[c] = "destroying" /\ inside[c] = "none" /\ pc'[c] = "done"
        /\ \A u \in Threads \ {c} : pc'[u] = pc[u]
        /\ result'[c] = "timedOut" /\ \A u \in Callers \ {c} : result'[u] = result[u]
    BY <1>0, <1>8, Moved DEF ReturnTimedOut, Kept, Places
  <2> QED  BY <2>1, <2>2, CallerGoesOn
<1>9. CASE LoginReturns(c)
  <2>1. UNCHANGED <<mapVars, handlerVars, call, early>> /\ pc[c] = "loginWaiting"
    BY <1>9 DEF LoginReturns, Goes, runnerVars
  <2>2. /\ \A u \in Threads \ {c} : pc'[u] = pc[u]
        /\ \A u \in Callers \ {c} : result'[u] = result[u]
    BY <1>0, <1>9, Moved DEF LoginReturns, Kept, Places
  <2> QED  BY <1>2, <2>1, <2>2, CallerGoesOn
<1> QED
  BY <1>0, <1>3, <1>4, <1>5, <1>6, <1>7, <1>8, <1>9, AddHandlerIInv, WaitTimesOutIInv, ResumeIInv
  DEF CallerStep

\* So do those of a runner with a handler.
LEMMA HandlerStepsIInv ==
    ASSUME P!IInv, Kept, IInv, NEW r \in Runners, HandlerStep(r)
    PROVE  IInv'
<1>0. r \in Threads
  BY Distinct
<1>1. ASSUME call[r] \in ExecCallers, CloseHandler(r)
      PROVE  IInv'
  <2>1. UNCHANGED <<held, executed, result, call>>
    BY <1>1 DEF CloseHandler, Map!CloseElement, held, executed, handlerVars, waitVars, waitVars, runnerVars
  <2>2. pc[r] = "closing" /\ pc'[r] = "destroying" /\ \A u \in Threads \ {r} : pc'[u] = pc[u]
    BY <1>0, <1>1, Moved DEF CloseHandler, Kept, Places
  <2>3. Over(call'[r])
    BY <2>1, <2>2 DEF IInv, Settled
  <2> QED  BY <1>1, <2>1, <2>2, <2>3, RunnerGoesOn
<1> QED  BY <1>0, <1>1, ExecIInv, ExecReturnsIInv, DestroyHandlerIInv, ResumeIInv DEF HandlerStep

\* So do the others of the parser thread.
LEMMA ParserIInv ==
    ASSUME P!IInv, Kept, IInv,
           \/ SendHandshake \/ StoreLoginAnswer \/ NotifyLoginAnswered \/ HandshakeArrives
           \/ ParserEnds \/ \E c \in LoginCallers : ReceiveLoginAnswer(c)
           \/ \E c \in ExecCallers : ReceiveAnswer(c)
    PROVE  IInv'
<1>0. /\ parser \in Runners /\ parser \in Threads /\ pc \in [Threads -> Places]
      /\ call \in [Runners -> Callers \cup {None}]
  BY Distinct DEF Kept, ClientTypeOK
<1>1. CASE SendHandshake \/ StoreLoginAnswer \/ NotifyLoginAnswered \/ HandshakeArrives \/ ParserEnds
  <2>1. UNCHANGED <<held, executed, result, call>>
    BY <1>1 DEF SendHandshake, StoreLoginAnswer, NotifyLoginAnswered, HandshakeArrives, ParserEnds,
                mapVars, held, executed, handlerVars, waitVars, runnerVars
  <2>2. \E from, to \in {"handshaking", "locking", "idle", "loginLocking", "loginNotifying", "done"} :
            Goes(parser, from, to)
    BY <1>1 DEF SendHandshake, StoreLoginAnswer, NotifyLoginAnswered, HandshakeArrives, ParserEnds
  <2>3. /\ pc[parser] # "running" /\ pc'[parser] \notin {"running", "closing", "destroying"}
        /\ \A u \in Threads \ {parser} : pc'[u] = pc[u]
    BY <1>0, <2>2, Moved DEF Kept, Places
  <2> QED  BY <1>0, <2>1, <2>3, RunnerGoesOn
<1>2. ASSUME NEW c \in LoginCallers, ReceiveLoginAnswer(c)
      PROVE  IInv'
  <2>1. /\ UNCHANGED <<held, executed, result>>
        /\ \A u \in Runners \ {parser} : call'[u] = call[u]
    BY <1>0, <1>2 DEF ReceiveLoginAnswer, mapVars, held, executed, handlerVars, waitVars
  <2>2. /\ pc[parser] = "idle" /\ pc'[parser] = "loginLocking"
        /\ \A u \in Threads \ {parser} : pc'[u] = pc[u]
    BY <1>0, <1>2, Moved DEF ReceiveLoginAnswer, Kept, Places
  <2> QED  BY <1>0, <2>1, <2>2, RunnerGoesOn
<1>3. ASSUME NEW c \in ExecCallers, ReceiveAnswer(c)
      PROVE  IInv'
  <2>1. /\ UNCHANGED <<held, executed, result>>
        /\ \A u \in Runners \ {parser} : call'[u] = call[u]
    BY <1>0, <1>3 DEF ReceiveAnswer, Map!OpenElement, mapVars, held, executed, handlerVars, waitVars
  <2>2. /\ pc[parser] = "idle" /\ pc'[parser] \in {"idle", "opened"}
        /\ \A u \in Threads \ {parser} : pc'[u] = pc[u]
    BY <1>0, <1>3, Moved DEF ReceiveAnswer, Kept, Places
  <2> QED  BY <1>0, <2>1, <2>2, RunnerGoesOn
<1> QED  BY <1>1, <1>2, <1>3

\* So do the others of garbageCollector.
LEMMA GcIInv ==
    ASSUME P!IInv, Kept, IInv,
           \/ GcStarts \/ GcEnds \/ (call[gc] \in ExecCallers /\ GcSkips)
           \/ \E c \in ExecCallers : GcOpens(c)
    PROVE  IInv'
<1>0. /\ gc \in Runners /\ gc \in Threads /\ pc \in [Threads -> Places]
      /\ call \in [Runners -> Callers \cup {None}]
  BY Distinct DEF Kept, ClientTypeOK
<1>1. CASE GcStarts \/ GcEnds \/ GcSkips
  <2>1. UNCHANGED <<held, executed, result, call>>
    BY <1>1 DEF GcStarts, GcEnds, GcSkips, Map!CloseElement, mapVars, held, executed, handlerVars, waitVars, runnerVars
  <2>2. \E from, to \in {"idle", "testing", "skipping"} : Goes(gc, from, to)
    BY <1>1 DEF GcStarts, GcEnds, GcSkips
  <2>3. /\ pc[gc] # "running" /\ pc'[gc] \notin {"running", "closing", "destroying"}
        /\ \A u \in Threads \ {gc} : pc'[u] = pc[u]
    BY <1>0, <2>2, Moved DEF Kept, Places
  <2> QED  BY <1>0, <2>1, <2>3, RunnerGoesOn
<1>2. ASSUME NEW c \in ExecCallers, GcOpens(c)
      PROVE  IInv'
  <2>1. /\ UNCHANGED <<held, executed, result>>
        /\ \A u \in Runners \ {gc} : call'[u] = call[u]
    BY <1>0, <1>2 DEF GcOpens, Map!OpenElement, mapVars, held, executed, handlerVars, waitVars
  <2>2. /\ pc[gc] = "testing" /\ pc'[gc] \in {"testing", "opened", "skipping"}
        /\ \A u \in Threads \ {gc} : pc'[u] = pc[u]
    BY <1>0, <1>2, Moved DEF GcOpens, Kept, Places
  <2> QED  BY <1>0, <2>1, <2>2, RunnerGoesOn
<1> QED  BY <1>1, <1>2

\* Every step keeps the invariant.
LEMMA NextIInv ==
    ASSUME P!IInv, Kept, IInv, [Next]_vars
    PROVE  IInv'
<1>1. CASE UNCHANGED vars
  BY <1>1, NobodyMoves DEF vars, mapVars, handlerVars, runnerVars, waitVars, held, executed
<1>2. ASSUME NEW c \in ExecCallers, Expire(c)
      PROVE  IInv'
  BY <1>2, NobodyMoves DEF Expire, mapVars, runnerVars, waitVars, held, executed
<1>3. CASE ParserStep
  BY <1>3, Distinct, HandlerStepsIInv, ParserIInv DEF ParserStep
<1>4. CASE GcStep
  <2>1. CASE HandlerStep(gc)
    BY <2>1, Distinct, HandlerStepsIInv
  <2> QED  BY <1>4, <2>1, GcIInv DEF GcStep
<1>5. CASE Environment
  BY <1>5, CallersIInv, ParserIInv DEF Environment
<1> QED  BY <1>1, <1>2, <1>3, <1>4, <1>5, CallersIInv, OwnerIInv, SpuriousIInv DEF Next

\* The invariant of the whole client, for any callers.
THEOREM Invariance == SafeSpec => [](P!IInv /\ Kept /\ IInv)
<1>1. Kept /\ P!IInv /\ IInv /\ [Next]_vars => IInv'
  BY NextIInv
<1> QED  BY <1>1, MapInvariance, InitIInv, PTL DEF SafeSpec

\* No callback is called twice, and no result is written once its execSync has returned: if the
\* caller gave up, it has destroyed the handler, or another one has after executing it. Only a caller
\* that sRetInfo::waitUntilWritten let go although nothing was written, which a spurious wake-up
\* of its wait does, is without that promise.
THEOREM Safety == Spec => []Safe
<1>1. P!IInv /\ Kept /\ IInv => Safe
  <2> SUFFICES ASSUME P!IInv, Kept, IInv  PROVE Safe
    OBVIOUS
  <2>1. TypeOK
    <3>1. P!TypeOK => Map!TypeOK
      BY DEF P!TypeOK, Map!TypeOK
    <3> QED  BY <3>1 DEF P!IInv, Kept, TypeOK
  <2>2. CallbackOnce
    BY Distinct DEF IInv, Executions, CallbackOnce, ExecCallers
  <2>3. NoResultAfterReturn
    <3> SUFFICES ASSUME NEW c \in SyncCallers \ early, pc[c] = "done"
                 PROVE  execOwner[c] = None /\ (c \in allocated => execTimes[c] > 0)
      BY DEF NoResultAfterReturn
    <3>0. c \in ExecCallers
      BY DEF ExecCallers
    <3>1. c \in allocated => Over(c)
      BY DEF IInv, Settled
    <3>2. ASSUME NEW r \in Runners, execOwner[c] = r
          PROVE  c \in allocated
      <4>1. pc[r] = "running" /\ call[r] = c
        BY <3>0, <3>2 DEF IInv, Executions
      <4>2. handle[c][r] # nullptr
        BY <3>0, <4>1, Distinct DEF Kept, HandlesHeld, Busy
      <4> QED  BY <3>0, <4>2, MapFacts, Distinct DEF IInv, OwnElements
    <3> QED  BY <3>0, <3>1, <3>2, Distinct DEF Over, Kept, ClientTypeOK
  <2> QED  BY <2>1, <2>2, <2>3 DEF Safe
<1> QED  BY <1>1, Invariance, PTL DEF Spec

\* When the destructor is done no handler is left and no callback runs, and every asynchronous
\* call that was sent got its callback, unless its wait for that ended by itself:
\* Mutex_Map::waitForEmpty does not look at the map again after a spurious wake-up.
THEOREM DestructorIsLast == Spec => []DestructorWaitsForCallbacks
<1>1. P!IInv /\ Kept /\ IInv => DestructorWaitsForCallbacks
  <2> SUFFICES ASSUME P!IInv, Kept, IInv, pc[owner] = "done", owner \notin early
               PROVE  /\ allocated = {}
                      /\ \A c \in ExecCallers : execOwner[c] = None
                      /\ \A c \in AsyncCallers : result[c] = "sent" => callbacks[c] = 1
    BY DEF DestructorWaitsForCallbacks
  <2>1. allocated = {} /\ keys = {}
    BY DEF IInv, OwnerWaits, OwnElements
  <2>2. ASSUME NEW c \in ExecCallers, NEW r \in Runners, execOwner[c] = r
        PROVE  FALSE
    <3>1. pc[r] = "running" /\ call[r] = c
      BY <2>2 DEF IInv, Executions
    <3>2. handle[c][r] # nullptr
      BY <3>1, Distinct DEF Kept, HandlesHeld, Busy
    <3> QED  BY <2>1, <3>1, <3>2, MapFacts, Distinct
  <2>3. \A c \in ExecCallers : execOwner[c] = None
    BY <2>2 DEF Kept, ClientTypeOK
  <2>4. ASSUME NEW c \in AsyncCallers, result[c] = "sent"
        PROVE  callbacks[c] = 1
    <3>1. c \in ExecCallers /\ rdElement[c] = nullptr
      BY <2>1, MapFacts DEF ExecCallers
    <3>2. execTimes[c] > 0
      BY <2>4, <3>1 DEF IInv, Settled, Awaiting, Over
    <3> QED  BY <3>1, <3>2 DEF IInv, Executions
  <2> QED  BY <2>1, <2>3, <2>4
<1> QED  BY <1>1, Invariance, PTL DEF Spec
=============================================================================
