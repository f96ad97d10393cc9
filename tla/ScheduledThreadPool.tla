------------------------- MODULE ScheduledThreadPool -------------------------
(***************************************************************************)
(* PARCScheduledThreadPool (src/parc/concurrent/parc_ScheduledThreadPool.c) *)
(*                                                                         *)
(* One pool instance: the work queue (a PARCSortedList of scheduled tasks  *)
(* ordered by execution time, with its own monitor), the dispatcher thread *)
(* running _workerThread, one caller thread per task that calls Schedule   *)
(* or Submit, and one caller that calls ShutdownNow.  The worker pool      *)
(* (PARCThreadPool) is external: the model records the sequence of tasks   *)
(* handed to parcThreadPool_Execute and whether the pool was shut down.    *)
(*                                                                         *)
(* The monitor's lock is held across several dispatcher steps only between *)
(* the peek of the first task and its removal (lines 88-94); every other   *)
(* locked section (Schedule, the notify of ShutdownNow, the relock of line *)
(* 97) is a single step, so the lock is derived from the dispatcher's pc.  *)
(* Time is the monotonic clock read by parcTime_NowNanoseconds; execution  *)
(* times are uint64 and executionDelay an int64, modelled at TimeBits.     *)
(***************************************************************************)
EXTENDS Naturals, Integers, Sequences

CONSTANTS
  Tasks,       \* the units of work (PARCFutureTask), one caller thread each
  Submitters,  \* the tasks whose caller uses Submit instead of Schedule
  Delays,      \* the delays a caller may pass to Schedule
  MaxTime,     \* the clock stops at MaxTime unless a timed wait needs it
  TimeBits     \* width of the execution-time arithmetic (64 in the code)

ASSUME Assumptions ==
  /\ Submitters \subseteq Tasks
  /\ Delays \subseteq Nat
  /\ MaxTime \in Nat
  /\ TimeBits \in Nat \ {0}

Modulus == 2 ^ TimeBits

(* The arithmetic fact the proofs need about the modulus.                  *)
ASSUME ModulusAssumption == Modulus \in Nat \ {0, 1}

(* An unsigned TimeBits-bit difference read as a two's-complement integer *)
(* (the int64_t executionDelay of line 91).                                *)
Signed(x) == IF x >= Modulus \div 2 THEN x - Modulus ELSE x

NoTask == "none"

DispatcherPCs ==
  {"check", "lock", "remove", "execute", "wait", "timedwait", "done"}

CloserPCs == {"idle", "poolshut", "notify", "join", "done"}

VARIABLES
  now,          \* parcTime_NowNanoseconds()
  workQueue,    \* pool->workQueue, a sequence of tasks
  execTime,     \* parcScheduledTask_GetExecutionTime of each created task
  due,          \* ghost: the exact deadline now + delay asked by the caller
  caller,       \* pc of the caller thread of each task
  dispatcher,   \* pc of _workerThread
  peeked,       \* the task returned by parcSortedList_GetFirst (line 90)
  wakeAt,       \* the clock value at which the timed wait of line 101 ends
  cancelled,    \* parcThread_IsCancelled(pool->workerThread)
  poolShutdown, \* parcThreadPool_ShutdownNow(pool->threadPool) was called
  closer,       \* pc of the thread calling parcScheduledThreadPool_ShutdownNow
  handed        \* history: the tasks passed to parcThreadPool_Execute

vars == <<now, workQueue, execTime, due, caller, dispatcher, peeked, wakeAt,
          cancelled, poolShutdown, closer, handed>>

QueuedSet == {workQueue[i] : i \in DOMAIN workQueue}
HandedSet == {handed[i] : i \in DOMAIN handed}

(* The lock of the work-queue monitor is held by the dispatcher between    *)
(* GetFirst and RemoveFirst; every other holder holds it for one step.     *)
QueueLocked == dispatcher = "remove"

(* The waiting dispatcher is woken by a notify and re-checks its loop.     *)
WakeDispatcher ==
  dispatcher' = IF dispatcher \in {"wait", "timedwait"} THEN "check"
                                                        ELSE dispatcher

(* The sequence s with e inserted so that it becomes element i.            *)
InsertBefore(s, i, e) ==
  [j \in 1 .. Len(s) + 1 |-> IF j < i THEN s[j]
                             ELSE IF j = i THEN e ELSE s[j - 1]]

(* parcSortedList_Add: insert t so that execution times stay ascending; the *)
(* place of t among tasks with an equal execution time is not specified.   *)
SortedAdd(t) ==
  \E i \in 1 .. Len(workQueue) + 1 :
    /\ \A j \in 1 .. i - 1 : execTime[workQueue[j]] <= execTime[t]
    /\ \A j \in i .. Len(workQueue) : execTime[t] <= execTime[workQueue[j]]
    /\ workQueue' = InsertBefore(workQueue, i, t)

(* Bug variant: the difference taken the wrong way round.                *)
ExecutionDelaySwapped(t) == Signed((now - execTime[t]) % Modulus)

(* executionDelay of line 91 for task t.                                   *)
ExecutionDelay(t) == Signed((execTime[t] - now) % Modulus)

-----------------------------------------------------------------------------
(* parcScheduledThreadPool_Create: empty queue, dispatcher started.        *)
Init ==
  /\ now = 0
  /\ workQueue = << >>
  /\ execTime = [t \in Tasks |-> 0]
  /\ due = [t \in Tasks |-> 0]
  /\ caller = [t \in Tasks |-> "idle"]
  /\ dispatcher = "check"
  /\ peeked = NoTask
  /\ wakeAt = 0
  /\ cancelled = FALSE
  /\ poolShutdown = FALSE
  /\ closer = "idle"
  /\ handed = << >>

(* Line 87: the loop ends once the thread is cancelled.                    *)
DispatcherExit ==
  /\ dispatcher = "check"
  /\ cancelled
  /\ dispatcher' = "done"
  /\ UNCHANGED <<now, workQueue, execTime, due, caller, peeked, wakeAt,
                 cancelled, poolShutdown, closer, handed>>

(* Lines 87-88: not cancelled; the thread goes on to lock the queue.      *)
DispatcherLoop ==
  /\ dispatcher = "check"
  /\ ~cancelled
  /\ dispatcher' = "lock"
  /\ UNCHANGED <<now, workQueue, execTime, due, caller, peeked, wakeAt,
                 cancelled, poolShutdown, closer, handed>>

(* Lines 88-89, 103-104: locked, the queue is empty: unbounded wait.       *)
DispatcherWait ==
  /\ dispatcher = "lock"
  /\ workQueue = << >>
  /\ dispatcher' = "wait"
  /\ UNCHANGED <<now, workQueue, execTime, due, caller, peeked, wakeAt,
                 cancelled, poolShutdown, closer, handed>>

(* Bug variant: a task one tick ahead of its time counts as due.          *)
DispatcherDueEarly ==
  /\ dispatcher = "lock"
  /\ workQueue /= << >>
  /\ ExecutionDelay(Head(workQueue)) <= 1
  /\ peeked' = Head(workQueue)
  /\ dispatcher' = "remove"
  /\ UNCHANGED <<now, workQueue, execTime, due, caller, wakeAt,
                 cancelled, poolShutdown, closer, handed>>

(* Lines 88-92: the first task is due; the lock stays held.                *)
DispatcherDue ==
  /\ dispatcher = "lock"
  /\ workQueue /= << >>
  /\ ExecutionDelay(Head(workQueue)) <= 0
  /\ peeked' = Head(workQueue)
  /\ dispatcher' = "remove"
  /\ UNCHANGED <<now, workQueue, execTime, due, caller, wakeAt,
                 cancelled, poolShutdown, closer, handed>>

(* Bug variant: the wake-up time computed as now minus the delay.         *)
DispatcherTimedWaitBackwards ==
  /\ dispatcher = "lock"
  /\ workQueue /= << >>
  /\ ExecutionDelay(Head(workQueue)) > 0
  /\ wakeAt' = now - ExecutionDelay(Head(workQueue))
  /\ dispatcher' = "timedwait"
  /\ UNCHANGED <<now, workQueue, execTime, due, caller, peeked,
                 cancelled, poolShutdown, closer, handed>>

(* Lines 88-91, 100-101: the first task is not due: wait executionDelay.   *)
DispatcherTimedWait ==
  /\ dispatcher = "lock"
  /\ workQueue /= << >>
  /\ ExecutionDelay(Head(workQueue)) > 0
  /\ wakeAt' = now + ExecutionDelay(Head(workQueue))
  /\ dispatcher' = "timedwait"
  /\ UNCHANGED <<now, workQueue, execTime, due, caller, peeked,
                 cancelled, poolShutdown, closer, handed>>

(* Lines 93-94: RemoveFirst removes whatever task is first now, unlock.    *)
DispatcherRemove ==
  /\ dispatcher = "remove"
  /\ workQueue' = Tail(workQueue)
  /\ dispatcher' = "execute"
  /\ UNCHANGED <<now, execTime, due, caller, peeked, wakeAt,
                 cancelled, poolShutdown, closer, handed>>

(* Lines 95-99, 107: hand the peeked task to the thread pool, release the  *)
(* wrapper, relock, notify (only the dispatcher ever waits), unlock.       *)
DispatcherExecute ==
  /\ dispatcher = "execute"
  /\ handed' = Append(handed, peeked)
  /\ peeked' = NoTask
  /\ dispatcher' = "check"
  /\ UNCHANGED <<now, workQueue, execTime, due, caller, wakeAt,
                 cancelled, poolShutdown, closer>>

(* Lines 101, 107: the timed wait ends when its duration has elapsed.      *)
DispatcherTimeout ==
  /\ dispatcher = "timedwait"
  /\ now >= wakeAt
  /\ dispatcher' = "check"
  /\ UNCHANGED <<now, workQueue, execTime, due, caller, peeked, wakeAt,
                 cancelled, poolShutdown, closer, handed>>

(* Bug variant: the delay subtracted from the clock.                      *)
ScheduleBeginBackwards(t, d) ==
  /\ caller[t] = "idle"
  /\ t \notin Submitters
  /\ execTime' = [execTime EXCEPT ![t] = (now - d) % Modulus]
  /\ due' = [due EXCEPT ![t] = now - d]
  /\ caller' = [caller EXCEPT ![t] = "adding"]
  /\ UNCHANGED <<now, workQueue, dispatcher, peeked, wakeAt,
                 cancelled, poolShutdown, closer, handed>>

(* Bug variant: the delay taken as the absolute execution time.           *)
ScheduleBeginRelative(t, d) ==
  /\ caller[t] = "idle"
  /\ t \notin Submitters
  /\ execTime' = [execTime EXCEPT ![t] = d % Modulus]
  /\ due' = [due EXCEPT ![t] = now + d]
  /\ caller' = [caller EXCEPT ![t] = "adding"]
  /\ UNCHANGED <<now, workQueue, dispatcher, peeked, wakeAt,
                 cancelled, poolShutdown, closer, handed>>

(* Lines 288-290: read the clock and create the task with its time.        *)
ScheduleBegin(t, d) ==
  /\ caller[t] = "idle"
  /\ t \notin Submitters
  /\ execTime' = [execTime EXCEPT ![t] = (now + d) % Modulus]
  /\ due' = [due EXCEPT ![t] = now + d]
  /\ caller' = [caller EXCEPT ![t] = "adding"]
  /\ UNCHANGED <<now, workQueue, dispatcher, peeked, wakeAt,
                 cancelled, poolShutdown, closer, handed>>

(* Bug variant: Schedule adds without taking the lock, as Submit does.    *)
ScheduleAddUnlocked(t) ==
  /\ caller[t] = "adding"
  /\ SortedAdd(t)
  /\ WakeDispatcher
  /\ caller' = [caller EXCEPT ![t] = "done"]
  /\ UNCHANGED <<now, execTime, due, peeked, wakeAt,
                 cancelled, poolShutdown, closer, handed>>

(* Bug variant: Schedule adds without notifying the monitor.               *)
ScheduleAddSilent(t) ==
  /\ caller[t] = "adding"
  /\ ~QueueLocked
  /\ SortedAdd(t)
  /\ UNCHANGED dispatcher
  /\ caller' = [caller EXCEPT ![t] = "done"]
  /\ UNCHANGED <<now, execTime, due, peeked, wakeAt,
                 cancelled, poolShutdown, closer, handed>>

(* Lines 292-298: lock, add in order, notify, unlock.                      *)
ScheduleAdd(t) ==
  /\ caller[t] = "adding"
  /\ ~QueueLocked
  /\ SortedAdd(t)
  /\ WakeDispatcher
  /\ caller' = [caller EXCEPT ![t] = "done"]
  /\ UNCHANGED <<now, execTime, due, peeked, wakeAt,
                 cancelled, poolShutdown, closer, handed>>

(* Lines 357-364: a task with execution time 0, added without taking the  *)
(* lock and without a notify.                                              *)
Submit(t) ==
  /\ caller[t] = "idle"
  /\ t \in Submitters
  /\ execTime' = [execTime EXCEPT ![t] = 0]
  /\ due' = [due EXCEPT ![t] = now]
  /\ SortedAdd(t)
  /\ caller' = [caller EXCEPT ![t] = "done"]
  /\ UNCHANGED <<now, dispatcher, peeked, wakeAt,
                 cancelled, poolShutdown, closer, handed>>

(* Line 337: parcThread_Cancel sets the cancellation flag.                 *)
ShutdownCancel ==
  /\ closer = "idle"
  /\ cancelled' = TRUE
  /\ closer' = "poolshut"
  /\ UNCHANGED <<now, workQueue, execTime, due, caller, dispatcher, peeked,
                 wakeAt, poolShutdown, handed>>

(* Line 339: the worker pool is shut down.                                 *)
ShutdownPool ==
  /\ closer = "poolshut"
  /\ poolShutdown' = TRUE
  /\ closer' = "notify"
  /\ UNCHANGED <<now, workQueue, execTime, due, caller, dispatcher, peeked,
                 wakeAt, cancelled, handed>>

(* Lines 341-349: notify-all on the pool (nobody waits there) and on the   *)
(* work queue, each under its lock.                                        *)
ShutdownNotify ==
  /\ closer = "notify"
  /\ ~QueueLocked
  /\ WakeDispatcher
  /\ closer' = "join"
  /\ UNCHANGED <<now, workQueue, execTime, due, caller, peeked, wakeAt,
                 cancelled, poolShutdown, handed>>

(* Bug variant: ShutdownNow returns without joining the dispatcher.      *)
ShutdownJoinSkipped ==
  /\ closer = "join"
  /\ closer' = "done"
  /\ UNCHANGED <<now, workQueue, execTime, due, caller, dispatcher, peeked,
                 wakeAt, cancelled, poolShutdown, handed>>

(* Lines 351-353: join the dispatcher thread.                              *)
ShutdownJoin ==
  /\ closer = "join"
  /\ dispatcher = "done"
  /\ closer' = "done"
  /\ UNCHANGED <<now, workQueue, execTime, due, caller, dispatcher, peeked,
                 wakeAt, cancelled, poolShutdown, handed>>

(* The monotonic clock advances; past MaxTime only to end a timed wait.    *)
Tick ==
  /\ \/ now < MaxTime
     \/ dispatcher = "timedwait" /\ now < wakeAt
  /\ now' = now + 1
  /\ UNCHANGED <<workQueue, execTime, due, caller, dispatcher, peeked, wakeAt,
                 cancelled, poolShutdown, closer, handed>>

Dispatcher ==
  \/ DispatcherExit \/ DispatcherLoop \/ DispatcherWait \/ DispatcherDue \/ DispatcherTimedWait
  \/ DispatcherRemove \/ DispatcherExecute \/ DispatcherTimeout

Callers ==
  \E t \in Tasks :
    \/ \E d \in Delays : ScheduleBegin(t, d)
    \/ ScheduleAdd(t)
    \/ Submit(t)

Closer == ShutdownCancel \/ ShutdownPool \/ ShutdownNotify \/ ShutdownJoin

Next == Dispatcher \/ Callers \/ Closer \/ Tick

(* The dispatcher, a caller that has begun Schedule, the closer once it    *)
(* has begun ShutdownNow, and the clock never stop for good; a caller need *)
(* not ever call Schedule, Submit or ShutdownNow.                          *)
Fairness ==
  /\ WF_vars(Dispatcher)
  /\ \A t \in Tasks : WF_vars(ScheduleAdd(t))
  /\ WF_vars(ShutdownPool \/ ShutdownNotify \/ ShutdownJoin)
  /\ WF_vars(Tick)

Spec == Init /\ [][Next]_vars /\ Fairness

-----------------------------------------------------------------------------
TypeOK ==
  /\ now \in Nat
  /\ workQueue \in Seq(Tasks)
  /\ execTime \in [Tasks -> 0 .. Modulus - 1]
  /\ due \in [Tasks -> Nat]
  /\ caller \in [Tasks -> {"idle", "adding", "done"}]
  /\ dispatcher \in DispatcherPCs
  /\ peeked \in Tasks \cup {NoTask}
  /\ wakeAt \in Nat
  /\ cancelled \in BOOLEAN
  /\ poolShutdown \in BOOLEAN
  /\ closer \in CloserPCs
  /\ handed \in Seq(Tasks)

(* No element occurs twice in the sequence s.                              *)
Distinct(s) == \A i, j \in DOMAIN s : s[i] = s[j] => i = j

(* The task removed by RemoveFirst and not yet handed to the pool.         *)
InFlight(t) == dispatcher = "execute" /\ peeked = t

(* Every task whose Schedule or Submit call has returned is, exactly once, *)
(* either in the work queue, in the dispatcher's hands between RemoveFirst *)
(* and parcThreadPool_Execute, or handed to the pool; a task not yet added *)
(* is nowhere.  Broken if RemoveFirst (line 93) can remove a task other    *)
(* than the one GetFirst returned (line 90).                               *)
NoTaskLostOrDuplicated ==
  /\ Distinct(workQueue)
  /\ Distinct(handed)
  /\ \A t \in Tasks :
       /\ caller[t] = "done" <=> t \in QueuedSet \/ InFlight(t) \/ t \in HandedSet
       /\ ~(t \in QueuedSet /\ t \in HandedSet)
       /\ InFlight(t) => t \notin QueuedSet \cup HandedSet

(* The dispatcher never takes a task out of the queue before the deadline  *)
(* its caller asked for (now + delay at the Schedule call): the due test   *)
(* of line 92 on the wrapped difference of line 91 must agree with it.     *)
NoEarlyDispatch ==
  dispatcher \in {"remove", "execute"} => due[peeked] <= now

(* The task the dispatcher takes out of the queue (lines 90-93) has the    *)
(* earliest deadline of all tasks queued at that moment: the order of the  *)
(* sorted list on wrapped execution times agrees with the deadlines.       *)
DispatchInDeadlineOrder ==
  dispatcher = "remove" => \A u \in QueuedSet : due[peeked] <= due[u]

(* Tasks are handed to the pool in non-decreasing deadline order (spec,    *)
(* section 8: of two tasks with deadlines d1 < d2, the d1 task first).     *)
HandedInDeadlineOrder ==
  \A i, j \in DOMAIN handed : i < j => due[handed[i]] <= due[handed[j]]

(* Once ShutdownNow has returned, no task is handed to the worker pool.    *)
NoDispatchAfterShutdown ==
  [][closer = "done" => handed' = handed]_vars

(* Every task in the work queue is eventually handed to the worker pool,   *)
(* unless the pool is shut down.                                           *)
QueuedTaskEventuallyHanded ==
  \A t \in Tasks : (t \in QueuedSet) ~> (t \in HandedSet \/ cancelled)

(* A call of ShutdownNow eventually returns (it joins the dispatcher).     *)
ShutdownNowReturns == (closer /= "idle") ~> (closer = "done")

=============================================================================
