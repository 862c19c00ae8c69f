----------------------------- MODULE ThreadPool -----------------------------
(***************************************************************************)
(* ThreadPool: worker threads that take tasks from several bounded queues, *)
(* and the threads that push tasks into them.  One mutex, mutexQueues,     *)
(* guards the queues; a critical section is one step, except that pushTask *)
(* holds the mutex between finding its queue full and waiting, because     *)
(* setTasksByQueueLimit changes the limit and notifies without the mutex.  *)
(* Notifications are sent after the mutex is released: they are steps.     *)
(***************************************************************************)
EXTENDS Naturals, Sequences, FiniteSets

CONSTANTS
    Workers,            \* the threads that run taskProcessor
    Pushers,            \* the threads that call pushTask
    Queues,             \* the indexes of the queues
    Tasks,              \* the tasks, each pushed at most once
    TasksOf,            \* TasksOf[p]: the tasks pusher p may push
    Timed,              \* the tasks pushed with a finite timeoutMS
    CandidateQueues,    \* the queues a task's key and priority allow
    Limits,             \* values of tasksByQueueLimit
    InitialLimit,
    SpuriousWakeups,    \* whether a wait may end without a notify
    NoTask,
    NoPusher

ASSUME ThreadPoolAssumption ==
    /\ Timed \subseteq Tasks
    /\ TasksOf \in [Pushers -> SUBSET Tasks]
    /\ \A p, r \in Pushers : p # r => TasksOf[p] \cap TasksOf[r] = {}
    /\ CandidateQueues \in [Tasks -> (SUBSET Queues) \ {{}}]
    /\ Limits \subseteq Nat
    /\ InitialLimit \in Limits
    /\ SpuriousWakeups \in BOOLEAN
    /\ Queues # {}
    /\ NoTask \notin Tasks
    /\ NoPusher \notin Pushers

VARIABLES
    queues,             \* queues[q]: the tasks of queue q, oldest first
    tasksByQueueLimit,
    terminate,
    mutexHolder,        \* the pusher that holds mutexQueues between steps
    insertedWaiters,    \* the workers waiting on cond_insertedElement
    removedWaiters,     \* removedWaiters[q]: the pushers waiting on cond_removedElement
    worker,             \* where each worker is
    workerTask,         \* its task
    workerQueue,        \* the queue it came from
    pusher,             \* where each pusher is in pushTask
    pusherTask,
    pusherQueue,        \* currentQueue
    owner,              \* where the owner is: start, stop and the destructor
    setter,             \* where setTasksByQueueLimit is
    accepted,           \* history: the tasks that were inserted
    refused,            \* history: the tasks pushTask returned false for
    done,               \* history: the tasks that were executed
    notified,           \* history: the pushers popTask woke that have not looked yet
    eaten               \* history: the queues a notification of which was lost

poolVars == <<queues, tasksByQueueLimit, terminate, mutexHolder,
              insertedWaiters, removedWaiters>>
workerVars == <<worker, workerTask, workerQueue>>
pusherVars == <<pusher, pusherTask, pusherQueue>>
outcomes == <<accepted, refused, done>>
wakeups == <<notified, eaten>>
history == <<outcomes, wakeups>>
vars == <<poolVars, workerVars, pusherVars, owner, setter, history>>

TypeOK ==
    /\ queues \in [Queues -> Seq(Tasks)]
    /\ tasksByQueueLimit \in Limits
    /\ terminate \in BOOLEAN
    /\ mutexHolder \in Pushers \cup {NoPusher}
    /\ insertedWaiters \subseteq Workers
    /\ removedWaiters \in [Queues -> SUBSET Pushers]
    /\ worker \in [Workers -> {"unstarted", "popTask", "waiting", "notifying",
                               "running", "exited"}]
    /\ workerTask \in [Workers -> Tasks \cup {NoTask}]
    /\ workerQueue \in [Workers -> Queues]
    /\ pusher \in [Pushers -> {"idle", "entering", "full", "blocked", "notifying"}]
    /\ pusherTask \in [Pushers -> Tasks \cup {NoTask}]
    /\ pusherQueue \in [Pushers -> Queues]
    /\ owner \in {"created", "started", "stopping", "joining", "destroyed"}
    /\ setter \in {"idle", "notifying"}
    /\ accepted \subseteq Tasks
    /\ refused \subseteq Tasks
    /\ done \subseteq Tasks
    /\ notified \subseteq Pushers
    /\ eaten \subseteq Queues

Init ==
    /\ queues = [q \in Queues |-> <<>>]
    /\ tasksByQueueLimit = InitialLimit
    /\ terminate = FALSE
    /\ mutexHolder = NoPusher
    /\ insertedWaiters = {}
    /\ removedWaiters = [q \in Queues |-> {}]
    /\ worker = [w \in Workers |-> "unstarted"]
    /\ workerTask = [w \in Workers |-> NoTask]
    /\ workerQueue \in [Workers -> {CHOOSE q \in Queues : TRUE}]
    /\ pusher = [p \in Pushers |-> "idle"]
    /\ pusherTask = [p \in Pushers |-> NoTask]
    /\ pusherQueue \in [Pushers -> {CHOOSE q \in Queues : TRUE}]
    /\ owner = "created"
    /\ setter = "idle"
    /\ accepted = {}
    /\ refused = {}
    /\ done = {}
    /\ notified = {}
    /\ eaten = {}

-----------------------------------------------------------------------------
(* State formulae *)

MutexFree == mutexHolder = NoPusher

NotifyOne(ws) == IF ws = {} THEN {ws} ELSE {ws \ {w} : w \in ws}

\* What getRandomTaskQueueWithElements returns, whatever the shuffle: any queue
\* that is not empty, and null when there is none.
NonemptyQueues == {q \in Queues : queues[q] # <<>>}

\* pushTask does not insert a task into a queue that is over the limit: the
\* comparison is >, so a queue at its limit takes one more.
Full(q) == Len(queues[q]) > tasksByQueueLimit

InQueue(t) == \E q \in Queues : \E i \in 1 .. Len(queues[q]) : queues[q][i] = t

Held(t) == \E w \in Workers : workerTask[w] = t

\* popTask's front and pop; a mutant that forgets the pop.
LeaveFront(q) == UNCHANGED queues
RemoveFront(q) == queues' = [queues EXCEPT ![q] = Tail(@)]

\* pushTask's notify_one.
NotifyWorker == insertedWaiters' \in NotifyOne(insertedWaiters)

\* popTask's notify_one; a mutant that forgets it.
NotifyNoPusher(q) == UNCHANGED <<removedWaiters, notified>>
NotifyPusher(q) ==
    \E ws \in NotifyOne(removedWaiters[q]) :
        /\ removedWaiters' = [removedWaiters EXCEPT ![q] = ws]
        /\ notified' = notified \cup (removedWaiters[q] \ ws)

\* setTasksByQueueLimit's store.
StoreLimit(limit) == tasksByQueueLimit' = limit

-----------------------------------------------------------------------------
(* pushTask *)

PushReturn(p) ==
    /\ pusher' = [pusher EXCEPT ![p] = "idle"]
    /\ pusherTask' = [pusherTask EXCEPT ![p] = NoTask]
    /\ UNCHANGED pusherQueue

\* getRandomQueueByKey picks the queue before the mutex is taken.
PushCall(p, t, q) ==
    /\ pusher[p] = "idle"
    /\ t \notin accepted \cup refused
    /\ q \in CandidateQueues[t]
    /\ pusher' = [pusher EXCEPT ![p] = "entering"]
    /\ pusherTask' = [pusherTask EXCEPT ![p] = t]
    /\ pusherQueue' = [pusherQueue EXCEPT ![p] = q]
    /\ UNCHANGED <<poolVars, workerVars, owner, setter, history>>

\* Don't insert on termination: terminate is looked at once, on entry.
PushRefused(p) ==
    /\ pusher[p] = "entering"
    /\ MutexFree
    /\ terminate
    /\ refused' = refused \cup {pusherTask[p]}
    /\ PushReturn(p)
    /\ UNCHANGED <<poolVars, workerVars, owner, setter, accepted, done, wakeups>>

\* The head of pushTask's loop, on entry and after each wake-up.
AtLoop(p) ==
    /\ MutexFree
    /\ \/ pusher[p] = "entering" /\ ~terminate
       \/ pusher[p] = "blocked" /\ p \notin removedWaiters[pusherQueue[p]]

PushInsert(p) ==
    LET q == pusherQueue[p] IN
    /\ AtLoop(p)
    /\ ~Full(q)
    /\ queues' = [queues EXCEPT ![q] = Append(@, pusherTask[p])]
    /\ accepted' = accepted \cup {pusherTask[p]}
    /\ pusher' = [pusher EXCEPT ![p] = "notifying"]
    /\ notified' = notified \ {p}
    /\ UNCHANGED <<tasksByQueueLimit, terminate, mutexHolder, insertedWaiters,
                   removedWaiters, workerVars, pusherTask, pusherQueue, owner,
                   setter, refused, done, eaten>>

PushFull(p) ==
    /\ AtLoop(p)
    /\ Full(pusherQueue[p])
    /\ mutexHolder' = p
    /\ pusher' = [pusher EXCEPT ![p] = "full"]
    /\ notified' = notified \ {p}
    /\ UNCHANGED <<queues, tasksByQueueLimit, terminate, insertedWaiters,
                   removedWaiters, workerVars, pusherTask, pusherQueue, owner,
                   setter, outcomes, eaten>>

PushWait(p) ==
    /\ pusher[p] = "full"
    /\ mutexHolder' = NoPusher
    /\ removedWaiters' = [removedWaiters EXCEPT ![pusherQueue[p]] = @ \cup {p}]
    /\ pusher' = [pusher EXCEPT ![p] = "blocked"]
    /\ UNCHANGED <<queues, tasksByQueueLimit, terminate, insertedWaiters,
                   workerVars, pusherTask, pusherQueue, owner, setter, history>>

\* wait_for ends by timeout: pushTask returns false without looking again. It may
\* say timeout to a thread that was woken, for it is the clock that decides once
\* the mutex is taken again: then a notify_one is lost with it.
PushTimeout(p) ==
    LET q == pusherQueue[p] IN
    /\ pusher[p] = "blocked"
    /\ pusherTask[p] \in Timed
    /\ MutexFree
    /\ removedWaiters' = [removedWaiters EXCEPT ![q] = @ \ {p}]
    /\ notified' = notified \ {p}
    /\ eaten' = eaten \cup {r \in {q} : p \in notified}
    /\ refused' = refused \cup {pusherTask[p]}
    /\ PushReturn(p)
    /\ UNCHANGED <<queues, tasksByQueueLimit, terminate, mutexHolder,
                   insertedWaiters, workerVars, owner, setter, accepted, done>>

PushNotify(p) ==
    /\ pusher[p] = "notifying"
    /\ NotifyWorker
    /\ PushReturn(p)
    /\ UNCHANGED <<queues, tasksByQueueLimit, terminate, mutexHolder,
                   removedWaiters, workerVars, owner, setter, history>>

-----------------------------------------------------------------------------
(* taskProcessor and popTask *)

Woken(w) == worker[w] = "waiting" /\ w \notin insertedWaiters

\* A queue with elements is found before or after a wait, terminated or not.
PopTake(w, q) ==
    /\ worker[w] = "popTask" \/ Woken(w)
    /\ MutexFree
    /\ q \in NonemptyQueues
    /\ workerTask' = [workerTask EXCEPT ![w] = Head(queues[q])]
    /\ workerQueue' = [workerQueue EXCEPT ![w] = q]
    /\ RemoveFront(q)
    /\ worker' = [worker EXCEPT ![w] = "notifying"]
    /\ UNCHANGED <<tasksByQueueLimit, terminate, mutexHolder, insertedWaiters,
                   removedWaiters, pusherVars, owner, setter, history>>

\* terminate is not looked at before the first wait.
PopWait(w) ==
    /\ \/ worker[w] = "popTask"
       \/ Woken(w) /\ ~terminate
    /\ MutexFree
    /\ NonemptyQueues = {}
    /\ insertedWaiters' = insertedWaiters \cup {w}
    /\ worker' = [worker EXCEPT ![w] = "waiting"]
    /\ UNCHANGED <<queues, tasksByQueueLimit, terminate, mutexHolder,
                   removedWaiters, workerTask, workerQueue, pusherVars, owner,
                   setter, history>>

WorkerExits(w) ==
    /\ Woken(w)
    /\ MutexFree
    /\ terminate
    /\ worker' = [worker EXCEPT ![w] = "exited"]
    /\ UNCHANGED <<poolVars, workerTask, workerQueue, pusherVars, owner, setter,
                   history>>

\* On termination, empty queues after a wait mean exit; a mutant that leaves
\* without looking at the queues.
PopExitAtOnce(w) == WorkerExits(w)
PopExit(w) == NonemptyQueues = {} /\ WorkerExits(w)

PopNotify(w) ==
    /\ worker[w] = "notifying"
    /\ NotifyPusher(workerQueue[w])
    /\ worker' = [worker EXCEPT ![w] = "running"]
    /\ UNCHANGED <<queues, tasksByQueueLimit, terminate, mutexHolder,
                   insertedWaiters, workerTask, workerQueue, pusherVars, owner,
                   setter, outcomes, eaten>>

RunTask(w) ==
    /\ worker[w] = "running"
    /\ done' = done \cup {workerTask[w]}
    /\ workerTask' = [workerTask EXCEPT ![w] = NoTask]
    /\ worker' = [worker EXCEPT ![w] = "popTask"]
    /\ UNCHANGED <<poolVars, workerQueue, pusherVars, owner, setter, accepted,
                   refused, wakeups>>

-----------------------------------------------------------------------------
(* start, stop, the destructor and setTasksByQueueLimit *)

Start ==
    /\ owner = "created"
    /\ owner' = "started"
    /\ worker' = [w \in Workers |-> "popTask"]
    /\ UNCHANGED <<poolVars, workerTask, workerQueue, pusherVars, setter, history>>

Stop ==
    /\ owner = "started"
    /\ MutexFree
    /\ terminate' = TRUE
    /\ owner' = "stopping"
    /\ UNCHANGED <<queues, tasksByQueueLimit, mutexHolder, insertedWaiters,
                   removedWaiters, workerVars, pusherVars, setter, history>>

StopNotify ==
    /\ owner = "stopping"
    /\ insertedWaiters' = {}
    /\ owner' = "joining"
    /\ UNCHANGED <<queues, tasksByQueueLimit, terminate, mutexHolder,
                   removedWaiters, workerVars, pusherVars, setter, history>>

Join ==
    /\ owner = "joining"
    /\ \A w \in Workers : worker[w] = "exited"
    /\ owner' = "destroyed"
    /\ UNCHANGED <<poolVars, workerVars, pusherVars, setter, history>>

SetLimit(limit) ==
    /\ setter = "idle"
    /\ owner \in {"created", "started"}
    /\ limit # tasksByQueueLimit
    /\ StoreLimit(limit)
    /\ setter' = "notifying"
    /\ UNCHANGED <<queues, terminate, mutexHolder, insertedWaiters,
                   removedWaiters, workerVars, pusherVars, owner, history>>

SetLimitNotify ==
    /\ setter = "notifying"
    /\ setter' = "idle"
    /\ removedWaiters' = [q \in Queues |-> {}]
    /\ UNCHANGED <<queues, tasksByQueueLimit, terminate, mutexHolder,
                   insertedWaiters, workerVars, pusherVars, owner, history>>

SpuriousWakeup ==
    /\ SpuriousWakeups
    /\ \/ /\ \E w \in insertedWaiters : insertedWaiters' = insertedWaiters \ {w}
          /\ UNCHANGED removedWaiters
       \/ /\ \E q \in Queues : \E p \in removedWaiters[q] :
                removedWaiters' = [removedWaiters EXCEPT ![q] = @ \ {p}]
          /\ UNCHANGED insertedWaiters
    /\ UNCHANGED <<queues, tasksByQueueLimit, terminate, mutexHolder,
                   workerVars, pusherVars, owner, setter, history>>

-----------------------------------------------------------------------------

\* What a pusher inside pushTask does by itself.
PusherStep(p) ==
    PushRefused(p) \/ PushInsert(p) \/ PushFull(p) \/ PushWait(p) \/ PushNotify(p)

WorkerStep(w) ==
    \/ \E q \in Queues : PopTake(w, q)
    \/ PopWait(w)
    \/ PopExit(w)
    \/ PopNotify(w)
    \/ RunTask(w)

Next ==
    \/ \E p \in Pushers :
          \/ \E t \in TasksOf[p], q \in Queues : PushCall(p, t, q)
          \/ PusherStep(p)
          \/ PushTimeout(p)
    \/ \E w \in Workers : WorkerStep(w)
    \/ Start \/ Stop \/ StopNotify \/ Join
    \/ \E limit \in Limits : SetLimit(limit)
    \/ SetLimitNotify
    \/ SpuriousWakeup

SafeSpec == Init /\ [][Next]_vars

\* Every thread that can take a step takes one, and the pool is started.
\* Nobody has to push, to stop the pool or to change its limit, and a timeout
\* may be as long as it likes.  Strong fairness where a step takes the mutex:
\* a thread that finds mutexQueues free again and again gets it in the end.
Fairness ==
    /\ WF_vars(Start)
    /\ WF_vars(StopNotify)
    /\ WF_vars(Join)
    /\ WF_vars(SetLimitNotify)
    /\ \A p \in Pushers : SF_vars(PusherStep(p))
    /\ \A w \in Workers : SF_vars(WorkerStep(w))

Spec == SafeSpec /\ Fairness

-----------------------------------------------------------------------------
(* Properties *)

\* A task that was inserted is in exactly one place, a queue, a worker or among
\* the executed ones, and one that was not inserted is in none: no task is lost,
\* executed twice, or executed although pushTask returned false.
AcceptedOnce ==
    /\ \A t \in Tasks : t \in accepted <=> InQueue(t) \/ Held(t) \/ t \in done
    /\ \A t \in Tasks : t \in done => ~InQueue(t) /\ ~Held(t)
    /\ \A t \in Tasks : Held(t) => ~InQueue(t)
    /\ \A v, w \in Workers :
          workerTask[v] = workerTask[w] /\ workerTask[v] # NoTask => v = w
    /\ \A q, r \in Queues :
          \A i \in 1 .. Len(queues[q]), j \in 1 .. Len(queues[r]) :
              queues[q][i] = queues[r][j] => q = r /\ i = j
    /\ accepted \cap refused = {}

\* While a queue has tasks and a worker sleeps, a pusher is about to notify or a
\* worker is awake, which looks at the queues before it sleeps or leaves: no
\* task is stranded between the insertion and the notify_one after the unlock.
NoStrandedTask ==
    NonemptyQueues # {} /\ insertedWaiters # {}
        => \/ \E p \in Pushers : pusher[p] = "notifying"
           \/ \E w \in Workers \ insertedWaiters : worker[w] \notin {"unstarted", "exited"}

\* A worker leaves only when the pool was stopped and its queues were empty, so
\* a task inserted before stop is executed, even by a pool that stops.
InsertedBeforeStopIsExecuted ==
    \A t \in Tasks : (t \in accepted /\ ~terminate) ~> t \in done

\* A blocked pushTask returns as long as the pool is not stopped: popTask wakes one
\* who waits on that queue for each element removed, and setTasksByQueueLimit all of
\* them. It may wait for ever only on a queue one of whose notifications went to
\* a pushTask that returned for its timeout instead of looking at the queue.
BlockedPushReturns ==
    \A p \in Pushers :
        pusher[p] \in {"full", "blocked"} ~>
            terminate \/ pusher[p] = "idle" \/ pusherQueue[p] \in eaten

\* The invariants of the module in one: the types, every task in one place, and none
\* stranded (pushTask, popTask).
Safe == TypeOK /\ AcceptedOnce /\ NoStrandedTask
=============================================================================
