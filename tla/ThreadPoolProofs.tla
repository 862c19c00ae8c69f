-------------------------- MODULE ThreadPoolProofs --------------------------
(***************************************************************************)
(* Proofs about ThreadPool for any workers, pushers, queues, tasks and     *)
(* limits: Safe is an invariant.                                           *)
(*                                                                         *)
(* AcceptedOnce is not inductive: an insertion must not bring in what is   *)
(* somewhere already, so what a pusher holds must be new (PushersHoldNew), *)
(* and a worker that takes a task must not lose one that it has            *)
(* (WorkersHoldOne). NoStrandedTask needs to know that who is on the       *)
(* condition variable is in a wait (SleepersWait), or a notification could *)
(* go to somebody it does not wake.                                        *)
(***************************************************************************)
EXTENDS ThreadPool, TLAPS

\* A pusher on its way to the insertion has a task of its own that nobody has seen.
PushersHoldNew ==
    \A p \in Pushers :
        pusher[p] \in {"entering", "full", "blocked"} =>
            /\ pusherTask[p] \in TasksOf[p]
            /\ pusherTask[p] \notin accepted \cup refused

\* A worker has a task between popTask's pop and the end of the task, and only there.
WorkersHoldOne ==
    /\ \A w \in Workers :
          workerTask[w] # NoTask <=> worker[w] \in {"notifying", "running"}
    /\ owner = "created" => \A w \in Workers : worker[w] = "unstarted"

SleepersWait == \A w \in insertedWaiters : worker[w] = "waiting"

IInv ==
    /\ TypeOK
    /\ AcceptedOnce
    /\ NoStrandedTask
    /\ PushersHoldNew
    /\ WorkersHoldOne
    /\ SleepersWait

-----------------------------------------------------------------------------

\* A notification removes at most one of those who wait.
LEMMA NotifyOneSubset ==
    ASSUME NEW S, NEW ws \in NotifyOne(S)
    PROVE  ws \subseteq S /\ (S # {} => \E w \in S : ws = S \ {w})
<1>1. CASE S = {}
    BY <1>1 DEF NotifyOne
<1>2. CASE S # {}
  <2>1. \E w \in S : ws = S \ {w}
    BY <1>2 DEF NotifyOne
  <2> QED
    BY <2>1
<1> QED
    BY <1>1, <1>2

\* A new pool has no tasks and no threads at work.
LEMMA InitIInv == Init => IInv
<1> SUFFICES ASSUME Init PROVE IInv
    OBVIOUS
<1> USE ThreadPoolAssumption
<1> DEFINE q0 == CHOOSE q \in Queues : TRUE
<1>1. workerQueue \in [Workers -> Queues] /\ pusherQueue \in [Pushers -> Queues]
  <2>1. q0 \in Queues
    OBVIOUS
  <2>2. workerQueue \in [Workers -> {q0}] /\ pusherQueue \in [Pushers -> {q0}]
    BY DEF Init
  <2> HIDE DEF q0
  <2> QED
    BY <2>1, <2>2
<1>2. TypeOK
  <2>1. queues \in [Queues -> Seq(Tasks)]
    BY DEF Init
  <2>2. removedWaiters \in [Queues -> SUBSET Pushers]
    BY DEF Init
  <2> QED
    BY <1>1, <2>1, <2>2 DEF Init, TypeOK
<1>3. AcceptedOnce
    BY DEF Init, AcceptedOnce, InQueue, Held
<1>4. NoStrandedTask /\ PushersHoldNew /\ WorkersHoldOne /\ SleepersWait
    BY DEF Init, NoStrandedTask, NonemptyQueues, PushersHoldNew, WorkersHoldOne, SleepersWait
<1> QED
    BY <1>2, <1>3, <1>4 DEF IInv

-----------------------------------------------------------------------------
(* The types *)

\* pushTask keeps the types.
LEMMA PusherTypeStep ==
    ASSUME TypeOK, PushersHoldNew, NEW p \in Pushers,
           (\E t \in TasksOf[p], q \in Queues : PushCall(p, t, q)) \/ PusherStep(p) \/ PushTimeout(p)
    PROVE  TypeOK'
<1> USE ThreadPoolAssumption DEF TypeOK, poolVars, workerVars, pusherVars, history, outcomes, wakeups
<1>1. CASE \E t \in TasksOf[p], q \in Queues : PushCall(p, t, q)
    BY <1>1 DEF PushCall
<1>2. CASE PushRefused(p)
    BY <1>2 DEF PushRefused, PushReturn, PushersHoldNew
<1>3. CASE PushInsert(p)
  <2>1. pusherTask[p] \in Tasks
    BY <1>3 DEF PushInsert, AtLoop, PushersHoldNew
  <2>2. queues' \in [Queues -> Seq(Tasks)]
    BY <1>3, <2>1 DEF PushInsert
  <2> QED
    BY <1>3, <2>1, <2>2 DEF PushInsert
<1>4. CASE PushFull(p)
    BY <1>4 DEF PushFull
<1>5. CASE PushWait(p)
    BY <1>5 DEF PushWait
<1>6. CASE PushTimeout(p)
    BY <1>6 DEF PushTimeout, PushReturn
<1>7. CASE PushNotify(p)
  <2>1. insertedWaiters' \subseteq insertedWaiters
    BY <1>7, NotifyOneSubset DEF PushNotify, NotifyWorker
  <2> QED
    BY <1>7, <2>1 DEF PushNotify, PushReturn
<1> QED
    BY <1>1, <1>2, <1>3, <1>4, <1>5, <1>6, <1>7 DEF PusherStep

\* So do popTask and the task processor,
LEMMA WorkerTypeStep ==
    ASSUME TypeOK, WorkersHoldOne, NEW w \in Workers, WorkerStep(w)
    PROVE  TypeOK'
<1> USE ThreadPoolAssumption DEF TypeOK, poolVars, workerVars, pusherVars, history, outcomes, wakeups
<1>1. ASSUME NEW q \in Queues, PopTake(w, q) PROVE TypeOK'
  <2>1. queues[q] \in Seq(Tasks) /\ queues[q] # <<>>
    BY <1>1 DEF PopTake, NonemptyQueues
  <2>2. Head(queues[q]) \in Tasks /\ Tail(queues[q]) \in Seq(Tasks)
    BY <2>1
  <2>3. queues' \in [Queues -> Seq(Tasks)]
    BY <1>1, <2>2 DEF PopTake, RemoveFront
  <2> QED
    BY <1>1, <2>2, <2>3 DEF PopTake
<1>2. CASE PopWait(w)
    BY <1>2 DEF PopWait
<1>3. CASE PopExit(w)
    BY <1>3 DEF PopExit, WorkerExits
<1>4. CASE PopNotify(w)
  <2>1. PICK ws \in NotifyOne(removedWaiters[workerQueue[w]]) :
            /\ removedWaiters' = [removedWaiters EXCEPT ![workerQueue[w]] = ws]
            /\ notified' = notified \cup (removedWaiters[workerQueue[w]] \ ws)
    BY <1>4 DEF PopNotify, NotifyPusher
  <2>2. ws \subseteq removedWaiters[workerQueue[w]]
    BY NotifyOneSubset
  <2>3. removedWaiters' \in [Queues -> SUBSET Pushers]
    BY <2>1, <2>2
  <2>4. notified' \subseteq Pushers
    BY <2>1
  <2> QED
    BY <1>4, <2>3, <2>4 DEF PopNotify
<1>5. CASE RunTask(w)
    BY <1>5 DEF RunTask, WorkersHoldOne
<1> QED
    BY <1>1, <1>2, <1>3, <1>4, <1>5 DEF WorkerStep

\* What neither a worker nor a pusher does.
OtherStep ==
    \/ Start \/ Stop \/ StopNotify \/ Join
    \/ \E limit \in Limits : SetLimit(limit)
    \/ SetLimitNotify
    \/ SpuriousWakeup

\* and so do start, stop and setTasksByQueueLimit.
LEMMA OtherTypeStep ==
    ASSUME TypeOK, OtherStep
    PROVE  TypeOK'
<1> USE ThreadPoolAssumption DEF TypeOK, poolVars, workerVars, pusherVars, history, outcomes, wakeups
<1>1. CASE Start \/ Stop \/ StopNotify \/ Join
    BY <1>1 DEF Start, Stop, StopNotify, Join
<1>2. CASE \E limit \in Limits : SetLimit(limit)
    BY <1>2 DEF SetLimit, StoreLimit
<1>3. CASE SetLimitNotify
    BY <1>3 DEF SetLimitNotify
<1>4. CASE SpuriousWakeup
  <2>1. insertedWaiters' \subseteq insertedWaiters
    BY <1>4 DEF SpuriousWakeup
  <2>2. removedWaiters' \in [Queues -> SUBSET Pushers]
    <3>1. CASE UNCHANGED removedWaiters
      BY <3>1
    <3>2. CASE \E q \in Queues : \E p \in removedWaiters[q] :
                 removedWaiters' = [removedWaiters EXCEPT ![q] = @ \ {p}]
      BY <3>2
    <3> QED
      BY <1>4, <3>1, <3>2 DEF SpuriousWakeup
  <2> QED
    BY <1>4, <2>1, <2>2 DEF SpuriousWakeup
<1> QED
    BY <1>1, <1>2, <1>3, <1>4 DEF OtherStep

-----------------------------------------------------------------------------
(* Who holds what *)

\* A pusher holds a task that was never accepted, until it inserts it.
LEMMA PushersStep ==
    ASSUME TypeOK, PushersHoldNew, Next
    PROVE  PushersHoldNew'
<1> USE ThreadPoolAssumption DEF TypeOK, PushersHoldNew, poolVars, workerVars, pusherVars, history, outcomes, wakeups
<1>1. ASSUME NEW p \in Pushers, \E t \in TasksOf[p], q \in Queues : PushCall(p, t, q)
      PROVE  PushersHoldNew'
    BY <1>1 DEF PushCall
<1>2. ASSUME NEW p \in Pushers, PusherStep(p) \/ PushTimeout(p)
      PROVE  PushersHoldNew'
  <2>1. \A r \in Pushers \ {p} :
            pusher'[r] = pusher[r] /\ pusherTask'[r] = pusherTask[r]
    BY <1>2 DEF PusherStep, PushRefused, PushInsert, PushFull, PushWait, PushNotify, PushTimeout,
                PushReturn
  <2>2. accepted' \cup refused' \subseteq accepted \cup refused \cup TasksOf[p]
    BY <1>2 DEF PusherStep, PushRefused, PushInsert, PushFull, PushWait, PushNotify, PushTimeout,
                PushReturn, AtLoop
  <2>3. \A r \in Pushers \ {p} : TasksOf[r] \cap TasksOf[p] = {}
    OBVIOUS
  <2>4. pusher'[p] \in {"entering", "full", "blocked"} =>
            /\ pusher[p] \in {"entering", "full", "blocked"}
            /\ pusherTask'[p] = pusherTask[p]
            /\ accepted' = accepted /\ refused' = refused
    BY <1>2 DEF PusherStep, PushRefused, PushInsert, PushFull, PushWait, PushNotify, PushTimeout,
                PushReturn, AtLoop
  <2> QED
    BY <2>1, <2>2, <2>3, <2>4
<1>3. ASSUME NEW w \in Workers, WorkerStep(w) PROVE PushersHoldNew'
    BY <1>3 DEF WorkerStep, PopTake, PopWait, PopExit, WorkerExits, PopNotify, RunTask
<1>4. CASE OtherStep
    BY <1>4 DEF OtherStep, Start, Stop, StopNotify, Join, SetLimit, SetLimitNotify, SpuriousWakeup
<1> QED
    BY <1>1, <1>2, <1>3, <1>4 DEF Next, OtherStep

\* A worker has a task from its pop to the task's end, and only one that waits is asleep.
LEMMA WorkersStep ==
    ASSUME TypeOK, WorkersHoldOne, SleepersWait, Next
    PROVE  WorkersHoldOne' /\ SleepersWait'
<1> USE ThreadPoolAssumption
    DEF TypeOK, WorkersHoldOne, SleepersWait, poolVars, workerVars, pusherVars, history, outcomes, wakeups
<1>1. ASSUME NEW p \in Pushers, (\E t \in TasksOf[p], q \in Queues : PushCall(p, t, q)) \/ PushTimeout(p)
      PROVE  WorkersHoldOne' /\ SleepersWait'
    BY <1>1 DEF PushCall, PushTimeout
<1>2. ASSUME NEW p \in Pushers, PusherStep(p) PROVE WorkersHoldOne' /\ SleepersWait'
  <2>1. UNCHANGED <<worker, workerTask, owner>>
    BY <1>2 DEF PusherStep, PushRefused, PushInsert, PushFull, PushWait, PushNotify
  <2>2. insertedWaiters' \subseteq insertedWaiters
    BY <1>2, NotifyOneSubset
    DEF PusherStep, PushRefused, PushInsert, PushFull, PushWait, PushNotify, NotifyWorker
  <2> QED
    BY <2>1, <2>2
<1>3. ASSUME NEW w \in Workers, WorkerStep(w) PROVE WorkersHoldOne' /\ SleepersWait'
  <2>1. ASSUME NEW q \in Queues, PopTake(w, q) PROVE WorkersHoldOne' /\ SleepersWait'
    <3>1. Head(queues[q]) \in Tasks
      BY <2>1 DEF PopTake, NonemptyQueues
    <3> QED
      BY <2>1, <3>1 DEF PopTake, Woken
  <2>2. CASE PopWait(w)
    BY <2>2 DEF PopWait, Woken
  <2>3. CASE PopExit(w)
    BY <2>3 DEF PopExit, WorkerExits, Woken
  <2>4. CASE PopNotify(w)
    BY <2>4 DEF PopNotify
  <2>5. CASE RunTask(w)
    BY <2>5 DEF RunTask
  <2> QED
    BY <1>3, <2>1, <2>2, <2>3, <2>4, <2>5 DEF WorkerStep
<1>4. CASE Start
    BY <1>4 DEF Start
<1>5. CASE Stop \/ StopNotify \/ Join \/ SetLimitNotify
    BY <1>5 DEF Stop, StopNotify, Join, SetLimitNotify
<1>6. CASE \E limit \in Limits : SetLimit(limit)
    BY <1>6 DEF SetLimit
<1>7. CASE SpuriousWakeup
  <2>1. insertedWaiters' \subseteq insertedWaiters
    BY <1>7 DEF SpuriousWakeup
  <2> QED
    BY <1>7, <2>1 DEF SpuriousWakeup
<1> QED
    BY <1>1, <1>2, <1>3, <1>4, <1>5, <1>6, <1>7 DEF Next

-----------------------------------------------------------------------------
(* NoStrandedTask *)

\* A task that is inserted is owed a notification or a worker that looks.
LEMMA StrandedStep ==
    ASSUME TypeOK, WorkersHoldOne, SleepersWait, NoStrandedTask, Next
    PROVE  NoStrandedTask'
<1> USE ThreadPoolAssumption
    DEF TypeOK, NoStrandedTask, NonemptyQueues, poolVars, workerVars, pusherVars, history, outcomes, wakeups
<1>1. ASSUME NEW p \in Pushers, (\E t \in TasksOf[p], q \in Queues : PushCall(p, t, q)) \/ PushTimeout(p)
      PROVE  NoStrandedTask'
    BY <1>1 DEF PushCall, PushTimeout, PushReturn
<1>2. ASSUME NEW p \in Pushers, PushRefused(p) \/ PushFull(p) \/ PushWait(p) PROVE NoStrandedTask'
  <2>1. UNCHANGED <<queues, insertedWaiters, worker>>
    BY <1>2 DEF PushRefused, PushFull, PushWait
  <2>2. \A r \in Pushers : pusher[r] = "notifying" => pusher'[r] = "notifying"
    BY <1>2 DEF PushRefused, PushFull, PushWait, PushReturn, AtLoop
  <2> QED
    BY <2>1, <2>2
<1>3. ASSUME NEW p \in Pushers, PushInsert(p) PROVE NoStrandedTask'
    BY <1>3 DEF PushInsert
\* The worker that is notified is awake.
<1>4. ASSUME NEW p \in Pushers, PushNotify(p) PROVE NoStrandedTask'
  <2>1. CASE insertedWaiters = {}
    BY <1>4, <2>1, NotifyOneSubset DEF PushNotify, NotifyWorker
  <2>2. CASE insertedWaiters # {}
    <3>0. insertedWaiters' \in NotifyOne(insertedWaiters)
      BY <1>4 DEF PushNotify, NotifyWorker
    <3>1. PICK w \in insertedWaiters : insertedWaiters' = insertedWaiters \ {w}
      BY <2>2, <3>0 DEF NotifyOne
    <3>2. w \in Workers \ insertedWaiters' /\ worker'[w] = "waiting"
      BY <1>4, <3>1 DEF PushNotify, SleepersWait
    <3> QED
      BY <3>2
  <2> QED
    BY <2>1, <2>2
<1>5. ASSUME NEW w \in Workers, WorkerStep(w) PROVE NoStrandedTask'
  <2>1. ASSUME NEW q \in Queues, PopTake(w, q) PROVE NoStrandedTask'
    <3>1. w \notin insertedWaiters' /\ worker'[w] = "notifying"
      BY <2>1 DEF PopTake, Woken, SleepersWait
    <3> QED
      BY <3>1
  <2>2. CASE PopWait(w)
    BY <2>2 DEF PopWait
  <2>3. CASE PopExit(w)
    BY <2>3 DEF PopExit, WorkerExits
  <2>4. CASE PopNotify(w)
    BY <2>4 DEF PopNotify
  <2>5. CASE RunTask(w)
    BY <2>5 DEF RunTask
  <2> QED
    BY <1>5, <2>1, <2>2, <2>3, <2>4, <2>5 DEF WorkerStep
<1>6. CASE Start
    BY <1>6 DEF Start, WorkersHoldOne, SleepersWait
<1>7. CASE Stop \/ StopNotify \/ Join \/ SetLimitNotify
    BY <1>7 DEF Stop, StopNotify, Join, SetLimitNotify
<1>8. CASE \E limit \in Limits : SetLimit(limit)
    BY <1>8 DEF SetLimit
<1>9. CASE SpuriousWakeup
  <2>1. UNCHANGED <<queues, worker, pusher>>
    BY <1>9 DEF SpuriousWakeup
  <2>2. CASE UNCHANGED insertedWaiters
    BY <2>1, <2>2
  <2>3. CASE \E w \in insertedWaiters : insertedWaiters' = insertedWaiters \ {w}
    <3>1. PICK w \in insertedWaiters : insertedWaiters' = insertedWaiters \ {w}
      BY <2>3
    <3>2. w \in Workers \ insertedWaiters' /\ worker'[w] = "waiting"
      BY <2>1, <3>1 DEF SleepersWait
    <3> QED
      BY <3>2
  <2> QED
    BY <1>9, <2>2, <2>3 DEF SpuriousWakeup
<1> QED
    BY <1>1, <1>2, <1>3, <1>4, <1>5, <1>6, <1>7, <1>8, <1>9 DEF Next, PusherStep

-----------------------------------------------------------------------------
(* AcceptedOnce *)

\* An insertion brings one new task in, at the end of one queue.
LEMMA InsertOnce ==
    ASSUME TypeOK, AcceptedOnce, PushersHoldNew, NEW p \in Pushers, PushInsert(p)
    PROVE  AcceptedOnce'
<1> USE ThreadPoolAssumption
<1> DEFINE t == pusherTask[p]
           q == pusherQueue[p]
           n == Len(queues[q])
<1>1. t \in Tasks /\ t # NoTask /\ t \notin accepted /\ t \notin refused
    BY DEF PushInsert, AtLoop, PushersHoldNew
<1>2. ~InQueue(t) /\ ~Held(t) /\ t \notin done
    BY <1>1 DEF AcceptedOnce
<1>3. q \in Queues /\ queues[q] \in Seq(Tasks) /\ n \in Nat
    BY DEF TypeOK
<1>4. queues' = [queues EXCEPT ![q] = Append(queues[q], t)]
    BY DEF PushInsert
<1>5. /\ Len(queues'[q]) = n + 1
      /\ queues'[q][n + 1] = t
      /\ \A i \in 1 .. n : queues'[q][i] = queues[q][i]
    BY <1>1, <1>3, <1>4 DEF TypeOK
<1>6. \A r \in Queues \ {q} : queues'[r] = queues[r]
    BY <1>3, <1>4 DEF TypeOK
<1>7. UNCHANGED <<workerTask, refused, done>> /\ accepted' = accepted \cup {t}
    BY DEF PushInsert, workerVars
<1> HIDE DEF t, q, n
<1>8. 1 .. n + 1 = (1 .. n) \cup {n + 1}
    BY <1>3
<1>9. \A u \in Tasks : InQueue(u)' <=> InQueue(u) \/ u = t
  <2> SUFFICES ASSUME NEW u \in Tasks PROVE InQueue(u)' <=> InQueue(u) \/ u = t
    OBVIOUS
  <2>1. ASSUME NEW r \in Queues, NEW i \in 1 .. Len(queues'[r]), queues'[r][i] = u
        PROVE  InQueue(u) \/ u = t
    <3>1. CASE r # q
      BY <2>1, <3>1, <1>6 DEF InQueue
    <3>2. CASE r = q
      BY <2>1, <3>2, <1>3, <1>5, <1>8, n = Len(queues[q]) DEF InQueue, n
    <3> QED
      BY <3>1, <3>2
  <2>2. ASSUME NEW r \in Queues, NEW i \in 1 .. Len(queues[r]), queues[r][i] = u
        PROVE  InQueue(u)'
    <3>1. CASE r # q
      BY <2>2, <3>1, <1>6 DEF InQueue
    <3>2. CASE r = q
      <4>1. i \in 1 .. Len(queues'[q]) /\ queues'[q][i] = u
        BY <2>2, <3>2, <1>5, <1>8 DEF n
      <4> QED
        BY <4>1, <1>3 DEF InQueue
    <3> QED
      BY <3>1, <3>2
  <2>3. \E r \in Queues : \E i \in 1 .. Len(queues'[r]) : queues'[r][i] = t
    <3>1. n + 1 \in 1 .. Len(queues'[q])
      BY <1>3, <1>5
    <3> QED
      BY <1>3, <1>5, <3>1
  <2> QED
    BY <2>1, <2>2, <2>3 DEF InQueue
<1>10. \A u \in Tasks : Held(u)' <=> Held(u)
    BY <1>7 DEF Held
\* The places of the queues are still distinct: the new one holds what none of them did.
<1>11. ASSUME NEW r \in Queues, NEW s \in Queues,
              NEW i \in 1 .. Len(queues'[r]), NEW j \in 1 .. Len(queues'[s]),
              queues'[r][i] = queues'[s][j]
       PROVE  r = s /\ i = j
  <2>1. \A k \in Queues : \A m \in 1 .. Len(queues'[k]) :
            \/ k = q /\ m = n + 1 /\ queues'[k][m] = t
            \/ m \in 1 .. Len(queues[k]) /\ queues'[k][m] = queues[k][m] /\ queues[k][m] # t
    <3> SUFFICES ASSUME NEW k \in Queues, NEW m \in 1 .. Len(queues'[k]), ~(k = q /\ m = n + 1)
                 PROVE  m \in 1 .. Len(queues[k]) /\ queues'[k][m] = queues[k][m] /\ queues[k][m] # t
      BY <1>5
    <3>1. m \in 1 .. Len(queues[k]) /\ queues'[k][m] = queues[k][m]
      <4>1. CASE k = q
        BY <4>1, <1>5, <1>8 DEF n
      <4>2. CASE k # q
        BY <4>2, <1>6
      <4> QED
        BY <4>1, <4>2
    <3> QED
      BY <3>1, <1>2 DEF InQueue
  <2>2. CASE queues'[r][i] = t
    <3>1. r = q /\ i = n + 1
      BY <2>1, <2>2
    <3>2. queues'[s][j] = t
      BY <1>11, <2>2
    <3>3. s = q /\ j = n + 1
      BY <2>1, <3>2
    <3> QED
      BY <3>1, <3>3
  <2>3. CASE queues'[r][i] # t
    <3>1. i \in 1 .. Len(queues[r]) /\ queues'[r][i] = queues[r][i]
      BY <2>1, <2>3
    <3>2. j \in 1 .. Len(queues[s]) /\ queues'[s][j] = queues[s][j]
      BY <1>11, <2>1, <2>3
    <3>3. queues[r][i] = queues[s][j]
      BY <1>11, <3>1, <3>2
    <3> QED
      BY <3>1, <3>2, <3>3 DEF AcceptedOnce
  <2> QED
    BY <2>2, <2>3
<1> QED
    BY <1>1, <1>2, <1>7, <1>9, <1>10, <1>11 DEF AcceptedOnce

\* popTask moves the front of a queue to a worker that had no task.
LEMMA TakeOnce ==
    ASSUME TypeOK, AcceptedOnce, WorkersHoldOne, NEW w \in Workers, NEW q \in Queues, PopTake(w, q)
    PROVE  AcceptedOnce'
<1> USE ThreadPoolAssumption
<1> DEFINE h == Head(queues[q])
           n == Len(queues[q])
<1>1. queues[q] \in Seq(Tasks) /\ n \in Nat \ {0}
    BY DEF TypeOK, PopTake, NonemptyQueues
<1>2. h = queues[q][1] /\ h \in Tasks /\ h # NoTask
    BY <1>1
<1>3. queues' = [queues EXCEPT ![q] = Tail(queues[q])]
    BY DEF PopTake, RemoveFront
<1>4. /\ Len(queues'[q]) = n - 1
      /\ \A i \in 1 .. n - 1 : queues'[q][i] = queues[q][i + 1]
    BY <1>1, <1>3 DEF TypeOK
<1>5. \A r \in Queues \ {q} : queues'[r] = queues[r]
    BY <1>3 DEF TypeOK
<1>6. /\ workerTask' = [workerTask EXCEPT ![w] = h]
      /\ UNCHANGED <<accepted, refused, done>>
    BY DEF PopTake, history, outcomes
<1>7. workerTask[w] = NoTask
    BY DEF PopTake, Woken, WorkersHoldOne
<1> HIDE DEF h, n
<1>8. InQueue(h) /\ h \in accepted /\ ~Held(h) /\ h \notin done
    BY <1>1, <1>2 DEF InQueue, AcceptedOnce, n
\* What is in a queue afterwards was in the same queue, and is not h.
<1>9. \A r \in Queues : \A i \in 1 .. Len(queues'[r]) :
          \E k \in 1 .. Len(queues[r]) :
              /\ k = IF r = q THEN i + 1 ELSE i
              /\ queues'[r][i] = queues[r][k]
              /\ queues[r][k] # h
  <2> SUFFICES ASSUME NEW r \in Queues, NEW i \in 1 .. Len(queues'[r])
               PROVE  \E k \in 1 .. Len(queues[r]) :
                          /\ k = IF r = q THEN i + 1 ELSE i
                          /\ queues'[r][i] = queues[r][k]
                          /\ queues[r][k] # h
    OBVIOUS
  <2>1. CASE r = q
    <3>1. i + 1 \in 1 .. Len(queues[q]) /\ i + 1 # 1 /\ 1 \in 1 .. Len(queues[q])
      BY <2>1, <1>1, <1>4 DEF n
    <3>2. queues'[q][i] = queues[q][i + 1]
      BY <2>1, <1>4
    <3>3. queues[q][i + 1] # h
      BY <3>1, <1>2 DEF AcceptedOnce
    <3> QED
      BY <2>1, <3>1, <3>2, <3>3
  <2>2. CASE r # q
    <3>1. queues'[r] = queues[r]
      BY <2>2, <1>5
    <3>2. queues[r][i] # h
      BY <2>2, <3>1, <1>1, <1>2 DEF AcceptedOnce, n
    <3> QED
      BY <2>2, <3>1, <3>2
  <2> QED
    BY <2>1, <2>2
<1>10. \A u \in Tasks : InQueue(u)' <=> InQueue(u) /\ u # h
  <2> SUFFICES ASSUME NEW u \in Tasks PROVE InQueue(u)' <=> InQueue(u) /\ u # h
    OBVIOUS
  <2>1. InQueue(u)' => InQueue(u) /\ u # h
    BY <1>9 DEF InQueue
  <2>2. ASSUME NEW r \in Queues, NEW i \in 1 .. Len(queues[r]), queues[r][i] = u, u # h
        PROVE  InQueue(u)'
    <3>1. CASE r = q
      <4>1. i # 1
        BY <2>2, <3>1, <1>2
      <4>2. i - 1 \in 1 .. Len(queues'[q]) /\ (i - 1) + 1 = i
        BY <3>1, <4>1, <1>1, <1>4 DEF n
      <4>3. queues'[q][i - 1] = u
        BY <2>2, <3>1, <4>2, <1>4
      <4> QED
        BY <4>2, <4>3 DEF InQueue
    <3>2. CASE r # q
      BY <2>2, <3>2, <1>5 DEF InQueue
    <3> QED
      BY <3>1, <3>2
  <2> QED
    BY <2>1, <2>2 DEF InQueue
<1>11. \A u \in Tasks : Held(u)' <=> Held(u) \/ u = h
    BY <1>6, <1>7 DEF Held, TypeOK
<1>12. \A v, x \in Workers :
          workerTask'[v] = workerTask'[x] /\ workerTask'[v] # NoTask => v = x
    BY <1>6, <1>8 DEF AcceptedOnce, Held, TypeOK
<1>13. ASSUME NEW r \in Queues, NEW s \in Queues,
              NEW i \in 1 .. Len(queues'[r]), NEW j \in 1 .. Len(queues'[s]),
              queues'[r][i] = queues'[s][j]
       PROVE  r = s /\ i = j
  <2>1. PICK k \in 1 .. Len(queues[r]) :
            k = (IF r = q THEN i + 1 ELSE i) /\ queues'[r][i] = queues[r][k]
    BY <1>9
  <2>2. PICK m \in 1 .. Len(queues[s]) :
            m = (IF s = q THEN j + 1 ELSE j) /\ queues'[s][j] = queues[s][m]
    BY <1>9
  <2>3. queues[r][k] = queues[s][m]
    BY <1>13, <2>1, <2>2
  <2>4. r = s /\ k = m
    BY <2>3 DEF AcceptedOnce
  <2> QED
    BY <2>1, <2>2, <2>4
<1> QED
    BY <1>6, <1>8, <1>10, <1>11, <1>12, <1>13 DEF AcceptedOnce


\* The end of a task, its only step that leaves it executed.
LEMMA RunOnce ==
    ASSUME TypeOK, AcceptedOnce, WorkersHoldOne, NEW w \in Workers, RunTask(w)
    PROVE  AcceptedOnce'
<1> USE ThreadPoolAssumption
<1> DEFINE t == workerTask[w]
<1>1. t \in Tasks /\ t # NoTask
    BY DEF TypeOK, WorkersHoldOne, RunTask
<1>2. Held(t) /\ t \in accepted /\ ~InQueue(t) /\ t \notin done
    BY <1>1 DEF Held, AcceptedOnce
<1>3. /\ workerTask' = [workerTask EXCEPT ![w] = NoTask]
      /\ done' = done \cup {t}
      /\ UNCHANGED <<queues, accepted, refused>>
    BY DEF RunTask, poolVars
<1> HIDE DEF t
<1>4. \A u \in Tasks : InQueue(u)' <=> InQueue(u)
    BY <1>3 DEF InQueue
<1>5. \A u \in Tasks : Held(u)' <=> Held(u) /\ u # t
  <2>1. \A v \in Workers \ {w} : workerTask'[v] = workerTask[v]
    BY <1>3 DEF TypeOK
  <2>2. workerTask'[w] = NoTask /\ workerTask[w] = t
    BY <1>3 DEF TypeOK, t
  <2>3. \A v \in Workers \ {w} : workerTask[v] # t
    BY <1>1, <2>2 DEF AcceptedOnce
  <2> QED
    BY <2>1, <2>2, <2>3 DEF Held
<1>6. \A v, x \in Workers :
          workerTask'[v] = workerTask'[x] /\ workerTask'[v] # NoTask => v = x
    BY <1>3 DEF AcceptedOnce, TypeOK
<1>7. \A q, r \in Queues :
          \A i \in 1 .. Len(queues'[q]), j \in 1 .. Len(queues'[r]) :
              queues'[q][i] = queues'[r][j] => q = r /\ i = j
    BY <1>3 DEF AcceptedOnce
<1> QED
    BY <1>2, <1>3, <1>4, <1>5, <1>6, <1>7 DEF AcceptedOnce

\* Every other step leaves the tasks where they are; pushTask may refuse one.
LEMMA QuietOnce ==
    ASSUME AcceptedOnce, UNCHANGED <<queues, workerTask, accepted, done>>,
           refused' \cap accepted = {}
    PROVE  AcceptedOnce'
<1>1. \A t \in Tasks : (InQueue(t)' <=> InQueue(t)) /\ (Held(t)' <=> Held(t))
    BY DEF InQueue, Held
<1> QED
    BY <1>1 DEF AcceptedOnce

\* A task goes from its pusher to one queue, from there to one worker.
LEMMA AcceptedOnceStep ==
    ASSUME TypeOK, AcceptedOnce, PushersHoldNew, WorkersHoldOne, Next
    PROVE  AcceptedOnce'
<1>1. ASSUME NEW p \in Pushers, \E t \in TasksOf[p], q \in Queues : PushCall(p, t, q)
      PROVE  AcceptedOnce'
  <2>1. UNCHANGED <<queues, workerTask, accepted, done, refused>>
    BY <1>1 DEF PushCall, poolVars, workerVars, history, outcomes
  <2> QED
    BY <2>1, QuietOnce DEF AcceptedOnce
<1>2. ASSUME NEW p \in Pushers, PushRefused(p) \/ PushTimeout(p) PROVE AcceptedOnce'
  <2>1. pusherTask[p] \notin accepted
    BY <1>2 DEF PushRefused, PushTimeout, PushersHoldNew
  <2>2. UNCHANGED <<queues, workerTask, accepted, done>>
    BY <1>2 DEF PushRefused, PushTimeout, poolVars, workerVars
  <2>3. refused' \cap accepted = {}
    BY <1>2, <2>1 DEF PushRefused, PushTimeout, AcceptedOnce
  <2> QED
    BY <2>2, <2>3, QuietOnce
<1>3. ASSUME NEW p \in Pushers, PushInsert(p) PROVE AcceptedOnce'
    BY <1>3, InsertOnce
<1>4. ASSUME NEW p \in Pushers, PushFull(p) \/ PushWait(p) \/ PushNotify(p) PROVE AcceptedOnce'
  <2>1. UNCHANGED <<queues, workerTask, accepted, done, refused>>
    BY <1>4 DEF PushFull, PushWait, PushNotify, workerVars, history, outcomes
  <2> QED
    BY <2>1, QuietOnce DEF AcceptedOnce
<1>5. ASSUME NEW w \in Workers, \E q \in Queues : PopTake(w, q) PROVE AcceptedOnce'
    BY <1>5, TakeOnce
<1>6. ASSUME NEW w \in Workers, PopWait(w) \/ PopExit(w) \/ PopNotify(w) PROVE AcceptedOnce'
  <2>1. UNCHANGED <<queues, workerTask, accepted, done, refused>>
    BY <1>6 DEF PopWait, PopExit, WorkerExits, PopNotify, poolVars, history, outcomes
  <2> QED
    BY <2>1, QuietOnce DEF AcceptedOnce
<1>7. ASSUME NEW w \in Workers, RunTask(w) PROVE AcceptedOnce'
    BY <1>7, RunOnce
<1>8. CASE OtherStep
  <2>1. UNCHANGED <<queues, workerTask, accepted, done, refused>>
    BY <1>8 DEF OtherStep, Start, Stop, StopNotify, Join, SetLimit, SetLimitNotify,
                SpuriousWakeup, poolVars, workerVars, history, outcomes
  <2> QED
    BY <2>1, QuietOnce DEF AcceptedOnce
<1> QED
    BY <1>1, <1>2, <1>3, <1>4, <1>5, <1>6, <1>7, <1>8 DEF Next, PusherStep, WorkerStep, OtherStep

-----------------------------------------------------------------------------
(* The theorems *)

\* Every step of the pool keeps the invariant.
LEMMA NextIInv == IInv /\ [Next]_vars => IInv'
<1>1. ASSUME IInv, Next PROVE IInv'
  <2> USE <1>1 DEF IInv
  <2>1. TypeOK'
    BY PusherTypeStep, WorkerTypeStep, OtherTypeStep DEF Next, OtherStep
  <2>2. AcceptedOnce'
    BY AcceptedOnceStep
  <2>3. NoStrandedTask'
    BY StrandedStep
  <2>4. PushersHoldNew'
    BY PushersStep
  <2>5. WorkersHoldOne' /\ SleepersWait'
    BY WorkersStep
  <2> QED
    BY <2>1, <2>2, <2>3, <2>4, <2>5
<1>2. ASSUME IInv, UNCHANGED vars PROVE IInv'
  <2> USE <1>2 DEF IInv, vars, poolVars, workerVars, pusherVars, history, outcomes, wakeups
  <2>1. TypeOK'
    BY DEF TypeOK
  <2>2. AcceptedOnce'
    BY QuietOnce DEF AcceptedOnce
  <2>3. NoStrandedTask'
    BY DEF NoStrandedTask, NonemptyQueues
  <2>4. PushersHoldNew' /\ WorkersHoldOne' /\ SleepersWait'
    BY DEF PushersHoldNew, WorkersHoldOne, SleepersWait
  <2> QED
    BY <2>1, <2>2, <2>3, <2>4
<1> QED
    BY <1>1, <1>2

\* What pushTask, popTask and the tasks keep at every step, with who holds what:
\* the inductive invariant.
THEOREM Invariance == SafeSpec => []IInv
    BY InitIInv, NextIInv, PTL DEF SafeSpec

\* Whatever the number of threads and queues and the limits, a task that pushTask
\* inserted is in one place until it has been executed once, a refused one is
\* nowhere, and no task is left in a queue with every worker asleep
\* (threadpool.cpp: pushTask, popTask, taskProcessor).
THEOREM Safety == SafeSpec => []Safe
<1>1. IInv => Safe
    BY DEF IInv, Safe
<1> QED
    BY <1>1, Invariance, PTL

=============================================================================
