--------------------- MODULE ScheduledThreadPoolProofs ---------------------
(***************************************************************************)
(* Proofs about ScheduledThreadPool for every value of its constants.     *)
(***************************************************************************)
EXTENDS ScheduledThreadPool, SequenceTheorems, FiniteSetTheorems, TLAPS

(* Inserting an element of S into a sequence over S gives a sequence over  *)
(* S one longer.                                                           *)
LEMMA InsertBeforeType ==
  ASSUME NEW S, NEW s \in Seq(S), NEW i \in 1 .. Len(s) + 1, NEW e \in S
  PROVE  /\ InsertBefore(s, i, e) \in Seq(S)
         /\ Len(InsertBefore(s, i, e)) = Len(s) + 1
<1>1. Len(s) \in Nat
  BY LenProperties
<1>2. InsertBefore(s, i, e) \in [1 .. Len(s) + 1 -> S]
  BY <1>1 DEF InsertBefore
<1>. QED
  BY <1>1, <1>2, LenProperties, IsASeq

(* The value of the two's-complement reading is an integer.               *)
LEMMA ExecutionDelayType ==
  ASSUME NEW t \in Tasks, execTime \in [Tasks -> 0 .. Modulus - 1],
         now \in Nat
  PROVE  ExecutionDelay(t) \in Int
BY ModulusAssumption DEF ExecutionDelay, Signed

(* Type correctness, with the fact that the dispatcher holds a task        *)
(* between GetFirst and parcThreadPool_Execute.                           *)
TypeInv ==
  /\ TypeOK
  /\ dispatcher \in {"remove", "execute"} => peeked \in Tasks
  /\ dispatcher = "remove" => workQueue /= << >>

(* Create starts in a well-typed state with an idle dispatcher.           *)
LEMMA TypeInvInit == Init => TypeInv
<1> SUFFICES ASSUME Init PROVE TypeInv
  OBVIOUS
<1>1. workQueue \in Seq(Tasks) /\ handed \in Seq(Tasks)
  BY EmptySeq DEF Init
<1>2. execTime \in [Tasks -> 0 .. Modulus - 1]
  BY ModulusAssumption DEF Init
<1>. QED
  BY <1>1, <1>2 DEF Init, TypeInv, TypeOK, DispatcherPCs, CloserPCs

(* Every step of the dispatcher, a caller, ShutdownNow or the clock keeps *)
(* the state well typed.                                                   *)
LEMMA TypeInvStep == TypeInv /\ [Next]_vars => TypeInv'
<1> SUFFICES ASSUME TypeInv, [Next]_vars PROVE TypeInv'
  OBVIOUS
<1>. USE DEF TypeInv, TypeOK, DispatcherPCs, CloserPCs
<1>1. CASE DispatcherExit
  BY <1>1 DEF DispatcherExit
<1>2. CASE DispatcherLoop
  BY <1>2 DEF DispatcherLoop
<1>3. CASE DispatcherWait
  BY <1>3 DEF DispatcherWait
<1>4. CASE DispatcherDue
  BY <1>4, HeadTailProperties DEF DispatcherDue
<1>5. CASE DispatcherTimedWait
  <2>1. Head(workQueue) \in Tasks
    BY <1>5, HeadTailProperties DEF DispatcherTimedWait
  <2>2. ExecutionDelay(Head(workQueue)) \in Int
    BY <2>1, ExecutionDelayType
  <2>. QED
    BY <1>5, <2>2 DEF DispatcherTimedWait
<1>6. CASE DispatcherRemove
  <2>1. Tail(workQueue) \in Seq(Tasks)
    BY <1>6, HeadTailProperties DEF DispatcherRemove
  <2>. QED
    BY <1>6, <2>1 DEF DispatcherRemove
<1>7. CASE DispatcherExecute
  BY <1>7, AppendProperties DEF DispatcherExecute
<1>8. CASE DispatcherTimeout
  BY <1>8 DEF DispatcherTimeout
<1>9. ASSUME NEW t \in Tasks, NEW d \in Delays, ScheduleBegin(t, d)
      PROVE  TypeInv'
  BY <1>9, Assumptions, ModulusAssumption DEF ScheduleBegin
<1>10. ASSUME NEW t \in Tasks, ScheduleAdd(t) PROVE TypeInv'
  <2>1. PICK i \in 1 .. Len(workQueue) + 1 :
             workQueue' = InsertBefore(workQueue, i, t)
    BY <1>10 DEF ScheduleAdd, SortedAdd
  <2>2. workQueue' \in Seq(Tasks) /\ workQueue' /= << >>
    BY <2>1, InsertBeforeType, EmptySeq
  <2>. QED
    BY <1>10, <2>2 DEF ScheduleAdd, WakeDispatcher, QueueLocked
<1>11. ASSUME NEW t \in Tasks, Submit(t) PROVE TypeInv'
  <2>1. PICK i \in 1 .. Len(workQueue) + 1 :
             workQueue' = InsertBefore(workQueue, i, t)
    BY <1>11 DEF Submit, SortedAdd
  <2>2. workQueue' \in Seq(Tasks) /\ workQueue' /= << >>
    BY <2>1, InsertBeforeType, EmptySeq
  <2>. QED
    BY <1>11, <2>2, ModulusAssumption DEF Submit
<1>12. CASE ShutdownCancel
  BY <1>12 DEF ShutdownCancel
<1>13. CASE ShutdownPool
  BY <1>13 DEF ShutdownPool
<1>14. CASE ShutdownNotify
  BY <1>14 DEF ShutdownNotify, WakeDispatcher
<1>15. CASE ShutdownJoin
  BY <1>15 DEF ShutdownJoin
<1>16. CASE Tick
  BY <1>16 DEF Tick
<1>17. CASE UNCHANGED vars
  BY <1>17 DEF vars
<1>. QED
  BY <1>1, <1>2, <1>3, <1>4, <1>5, <1>6, <1>7, <1>8, <1>9, <1>10, <1>11,
     <1>12, <1>13, <1>14, <1>15, <1>16, <1>17
  DEF Next, Dispatcher, Callers, Closer

(* Every reachable state is well typed.                                    *)
THEOREM TypeCorrect == Spec => []TypeOK
<1>1. TypeInv => TypeOK
  BY DEF TypeInv
<1>. QED
  BY TypeInvInit, TypeInvStep, <1>1, PTL DEF Spec

-----------------------------------------------------------------------------
(* The inductive invariant behind NoTaskLostOrDuplicated when every caller *)
(* uses Schedule: between GetFirst and RemoveFirst the dispatcher holds    *)
(* the lock, so the task it peeked is still the first of the queue.        *)
TaskInv ==
  /\ TypeInv
  /\ NoTaskLostOrDuplicated
  /\ dispatcher = "remove" => peeked = Head(workQueue)

(* The elements of a sequence.                                             *)
Elems(s) == {s[i] : i \in DOMAIN s}

(* Inserting a new element adds exactly it and keeps elements distinct:   *)
(* what parcSortedList_Add does to the set of queued tasks.               *)
LEMMA InsertBeforeElems ==
  ASSUME NEW S, NEW s \in Seq(S), NEW i \in 1 .. Len(s) + 1, NEW e \in S,
         Distinct(s), e \notin Elems(s)
  PROVE  /\ Elems(InsertBefore(s, i, e)) = Elems(s) \cup {e}
         /\ Distinct(InsertBefore(s, i, e))
<1>. DEFINE r == InsertBefore(s, i, e)
<1>1. Len(s) \in Nat /\ DOMAIN s = 1 .. Len(s)
  BY LenProperties
<1>2. DOMAIN r = 1 .. Len(s) + 1
  BY <1>1 DEF InsertBefore
<1>3. \A j \in DOMAIN r : r[j] = IF j < i THEN s[j] ELSE IF j = i THEN e ELSE s[j - 1]
  BY <1>1 DEF InsertBefore
<1>4. Elems(r) = Elems(s) \cup {e}
  <2>1. Elems(r) \subseteq Elems(s) \cup {e}
    BY <1>1, <1>2, <1>3 DEF Elems
  <2>2. Elems(s) \subseteq Elems(r)
    <3> SUFFICES ASSUME NEW k \in 1 .. Len(s) PROVE s[k] \in Elems(r)
      BY <1>1 DEF Elems
    <3>1. CASE k < i
      BY <3>1, <1>1, <1>2, <1>3 DEF Elems
    <3>2. CASE k >= i
      <4>1. k + 1 \in DOMAIN r /\ r[k + 1] = s[k]
        BY <3>2, <1>1, <1>2, <1>3
      <4>. QED
        BY <4>1 DEF Elems
    <3>. QED
      BY <3>1, <3>2, <1>1
  <2>3. e \in Elems(r)
    BY <1>1, <1>2, <1>3 DEF Elems
  <2>. QED
    BY <2>1, <2>2, <2>3
<1>5. Distinct(r)
  BY <1>1, <1>2, <1>3 DEF Distinct, Elems
<1>. QED
  BY <1>4, <1>5

(* Removing the head of a sequence without repetitions removes exactly    *)
(* the head: what RemoveFirst does to the set of queued tasks.             *)
LEMMA TailElems ==
  ASSUME NEW S, NEW s \in Seq(S), s /= << >>, Distinct(s)
  PROVE  /\ Elems(Tail(s)) = Elems(s) \ {Head(s)}
         /\ Distinct(Tail(s))
<1>1. Len(s) \in Nat \ {0} /\ DOMAIN s = 1 .. Len(s)
  BY LenProperties, EmptySeq
<1>2. /\ DOMAIN Tail(s) = 1 .. Len(s) - 1
      /\ \A j \in 1 .. Len(s) - 1 : Tail(s)[j] = s[j + 1]
      /\ Head(s) = s[1]
  BY <1>1, HeadTailProperties, LenProperties
<1>3. Elems(Tail(s)) \subseteq Elems(s) \ {Head(s)}
  BY <1>1, <1>2 DEF Distinct, Elems
<1>4. Elems(s) \ {Head(s)} \subseteq Elems(Tail(s))
  <2> SUFFICES ASSUME NEW k \in 1 .. Len(s), s[k] /= Head(s)
               PROVE  s[k] \in Elems(Tail(s))
    BY <1>1 DEF Elems
  <2>1. k /= 1
    BY <1>2
  <2>2. k - 1 \in DOMAIN Tail(s) /\ Tail(s)[k - 1] = s[k]
    BY <2>1, <1>1, <1>2
  <2>. QED
    BY <2>2 DEF Elems
<1>5. Distinct(Tail(s))
  BY <1>1, <1>2 DEF Distinct
<1>. QED
  BY <1>3, <1>4, <1>5

(* Appending a new element adds exactly it and keeps elements distinct:   *)
(* what handing a task to the pool does to the history.                   *)
LEMMA AppendElems ==
  ASSUME NEW S, NEW s \in Seq(S), NEW e \in S, Distinct(s), e \notin Elems(s)
  PROVE  /\ Elems(Append(s, e)) = Elems(s) \cup {e}
         /\ Distinct(Append(s, e))
<1>1. Len(s) \in Nat /\ DOMAIN s = 1 .. Len(s)
  BY LenProperties
<1>2. /\ DOMAIN Append(s, e) = 1 .. Len(s) + 1
      /\ \A j \in 1 .. Len(s) : Append(s, e)[j] = s[j]
      /\ Append(s, e)[Len(s) + 1] = e
  BY AppendProperties, <1>1
<1>. QED
  BY <1>1, <1>2 DEF Distinct, Elems

(* Create starts with no task anywhere and no caller done.                *)
LEMMA TaskInvInit == Init => TaskInv
<1> SUFFICES ASSUME Init PROVE TaskInv
  OBVIOUS
<1>1. TypeInv
  BY TypeInvInit
<1>2. workQueue = << >> /\ handed = << >>
  BY DEF Init
<1>3. QueuedSet = {} /\ HandedSet = {}
  BY <1>2 DEF QueuedSet, HandedSet
<1>. QED
  BY <1>1, <1>2, <1>3 DEF Init, TaskInv, NoTaskLostOrDuplicated, Distinct,
     InFlight

(* The steps that move neither a task nor a caller and never enter        *)
(* RemoveFirst or the execute step keep TaskInv.                           *)
LEMMA TaskInvQuiet ==
  ASSUME TaskInv, TypeInv',
         UNCHANGED <<workQueue, handed, caller, peeked>>,
         dispatcher' \notin {"remove", "execute"},
         dispatcher /= "execute"
  PROVE  TaskInv'
BY DEF TaskInv, NoTaskLostOrDuplicated, InFlight, QueuedSet, HandedSet,
   Distinct

(* The steps that touch neither the queue, the history, the callers nor   *)
(* the dispatcher keep TaskInv.                                            *)
LEMMA TaskInvUnchanged ==
  ASSUME TaskInv, TypeInv',
         UNCHANGED <<workQueue, handed, caller, peeked, dispatcher>>
  PROVE  TaskInv'
BY DEF TaskInv, NoTaskLostOrDuplicated, InFlight, QueuedSet, HandedSet,
   Distinct

(* Every step keeps TaskInv when all callers use Schedule.                *)
LEMMA TaskInvStep ==
  ASSUME Submitters = {}, TaskInv, [Next]_vars
  PROVE  TaskInv'
<1>0. TypeInv /\ TypeInv'
  BY TypeInvStep DEF TaskInv
<1>. USE <1>0
<1>1. CASE DispatcherExit
  BY <1>1, TaskInvQuiet DEF DispatcherExit
<1>2. CASE DispatcherLoop
  BY <1>2, TaskInvQuiet DEF DispatcherLoop
<1>3. CASE DispatcherWait
  BY <1>3, TaskInvQuiet DEF DispatcherWait
<1>4. CASE DispatcherDue
  <2>1. UNCHANGED <<workQueue, handed, caller>>
    BY <1>4 DEF DispatcherDue
  <2>2. \A t \in Tasks : ~InFlight(t) /\ ~InFlight(t)'
    BY <1>4 DEF DispatcherDue, InFlight
  <2>. QED
    BY <1>4, <2>1, <2>2 DEF DispatcherDue, TaskInv, NoTaskLostOrDuplicated,
       QueuedSet, HandedSet, Distinct
<1>5. CASE DispatcherTimedWait
  BY <1>5, TaskInvQuiet DEF DispatcherTimedWait
<1>6. CASE DispatcherRemove
  <2>1. workQueue /= << >> /\ peeked = Head(workQueue) /\ peeked \in Tasks
    BY <1>6 DEF DispatcherRemove, TaskInv, TypeInv
  <2>2. QueuedSet' = QueuedSet \ {peeked} /\ Distinct(workQueue')
    BY <1>6, <2>1, TailElems DEF DispatcherRemove, TaskInv,
       NoTaskLostOrDuplicated, TypeInv, TypeOK, QueuedSet, Elems
  <2>3. peeked \in QueuedSet
    BY <2>1, <2>2, HeadTailProperties, EmptySeq DEF QueuedSet, TypeInv, TypeOK
  <2>4. \A t \in Tasks : InFlight(t)' <=> t = peeked
    BY <1>6 DEF DispatcherRemove, InFlight
  <2>5. \A t \in Tasks : ~InFlight(t)
    BY <1>6 DEF DispatcherRemove, InFlight
  <2>6. UNCHANGED <<handed, caller>>
    BY <1>6 DEF DispatcherRemove
  <2>7. dispatcher' /= "remove"
    BY <1>6 DEF DispatcherRemove
  <2>. QED
    BY <2>2, <2>3, <2>4, <2>5, <2>6, <2>7
    DEF TaskInv, NoTaskLostOrDuplicated, HandedSet
<1>7. CASE DispatcherExecute
  <2>1. peeked \in Tasks /\ InFlight(peeked)
    BY <1>7 DEF DispatcherExecute, TypeInv, InFlight
  <2>2. peeked \notin HandedSet
    BY <2>1 DEF TaskInv, NoTaskLostOrDuplicated
  <2>3. HandedSet' = HandedSet \cup {peeked} /\ Distinct(handed')
    <3>1. handed \in Seq(Tasks) /\ Distinct(handed) /\ peeked \notin Elems(handed)
      BY <2>2 DEF TaskInv, NoTaskLostOrDuplicated, TypeInv, TypeOK, HandedSet,
         Elems
    <3>2. /\ Elems(Append(handed, peeked)) = Elems(handed) \cup {peeked}
          /\ Distinct(Append(handed, peeked))
      BY <2>1, <3>1, AppendElems
    <3>. QED
      BY <1>7, <3>2 DEF DispatcherExecute, HandedSet, Elems
  <2>4. \A t \in Tasks : ~InFlight(t)'
    BY <1>7 DEF DispatcherExecute, InFlight
  <2>5. \A t \in Tasks : InFlight(t) <=> t = peeked
    BY <1>7 DEF DispatcherExecute, InFlight
  <2>6. UNCHANGED <<workQueue, caller>> /\ dispatcher' /= "remove"
    BY <1>7 DEF DispatcherExecute
  <2>. QED
    BY <2>1, <2>3, <2>4, <2>5, <2>6
    DEF TaskInv, NoTaskLostOrDuplicated, QueuedSet
<1>8. CASE DispatcherTimeout
  BY <1>8, TaskInvQuiet DEF DispatcherTimeout
<1>9. ASSUME NEW t \in Tasks, NEW d \in Delays, ScheduleBegin(t, d)
      PROVE  TaskInv'
  <2>1. caller[t] /= "done" /\ caller'[t] /= "done"
    BY <1>9 DEF ScheduleBegin, TypeInv, TypeOK
  <2>2. \A u \in Tasks \ {t} : caller'[u] = caller[u]
    BY <1>9 DEF ScheduleBegin, TypeInv, TypeOK
  <2>3. UNCHANGED <<workQueue, handed, dispatcher, peeked>>
    BY <1>9 DEF ScheduleBegin
  <2>. QED
    BY <2>1, <2>2, <2>3 DEF TaskInv, NoTaskLostOrDuplicated, InFlight,
       QueuedSet, HandedSet, Distinct
<1>10. ASSUME NEW t \in Tasks, ScheduleAdd(t) PROVE TaskInv'
  <2>1. caller[t] = "adding" /\ caller'[t] = "done"
    BY <1>10 DEF ScheduleAdd, TypeInv, TypeOK
  <2>2. \A u \in Tasks \ {t} : caller'[u] = caller[u]
    BY <1>10 DEF ScheduleAdd, TypeInv, TypeOK
  <2>3. t \notin QueuedSet /\ t \notin HandedSet /\ ~InFlight(t)
    BY <2>1 DEF TaskInv, NoTaskLostOrDuplicated
  <2>4. PICK i \in 1 .. Len(workQueue) + 1 :
             workQueue' = InsertBefore(workQueue, i, t)
    BY <1>10 DEF ScheduleAdd, SortedAdd
  <2>5. QueuedSet' = QueuedSet \cup {t} /\ Distinct(workQueue')
    <3>1. workQueue \in Seq(Tasks) /\ Distinct(workQueue) /\ t \notin Elems(workQueue)
      BY <2>3 DEF TaskInv, NoTaskLostOrDuplicated, TypeInv, TypeOK, QueuedSet,
         Elems
    <3>2. /\ Elems(InsertBefore(workQueue, i, t)) = Elems(workQueue) \cup {t}
          /\ Distinct(InsertBefore(workQueue, i, t))
      BY <3>1, InsertBeforeElems
    <3>. QED
      BY <2>4, <3>2 DEF QueuedSet, Elems
  <2>6. /\ dispatcher /= "remove" /\ dispatcher' /= "remove"
        /\ (dispatcher' = "execute" <=> dispatcher = "execute")
    BY <1>10 DEF ScheduleAdd, QueueLocked, WakeDispatcher
  <2>7. UNCHANGED <<handed, peeked>>
    BY <1>10 DEF ScheduleAdd
  <2>8. \A u \in Tasks : InFlight(u)' <=> InFlight(u)
    BY <2>6, <2>7 DEF InFlight
  <2>. QED
    BY <2>1, <2>2, <2>3, <2>5, <2>6, <2>7, <2>8
    DEF TaskInv, NoTaskLostOrDuplicated, HandedSet
<1>11. ASSUME NEW t \in Tasks, Submit(t) PROVE TaskInv'
  BY <1>11 DEF Submit
<1>12. CASE ShutdownCancel
  BY <1>12, TaskInvUnchanged DEF ShutdownCancel
<1>13. CASE ShutdownPool
  BY <1>13, TaskInvUnchanged DEF ShutdownPool
<1>14. CASE ShutdownNotify
  <2>1. UNCHANGED <<workQueue, handed, caller, peeked>>
    BY <1>14 DEF ShutdownNotify
  <2>2. /\ dispatcher /= "remove" /\ dispatcher' /= "remove"
        /\ (dispatcher' = "execute" <=> dispatcher = "execute")
    BY <1>14 DEF ShutdownNotify, QueueLocked, WakeDispatcher
  <2>3. \A u \in Tasks : InFlight(u)' <=> InFlight(u)
    BY <2>1, <2>2 DEF InFlight
  <2>. QED
    BY <2>1, <2>2, <2>3 DEF TaskInv, NoTaskLostOrDuplicated, QueuedSet,
       HandedSet, Distinct
<1>15. CASE ShutdownJoin
  BY <1>15, TaskInvUnchanged DEF ShutdownJoin
<1>16. CASE Tick
  BY <1>16, TaskInvUnchanged DEF Tick
<1>17. CASE UNCHANGED vars
  BY <1>17, TaskInvUnchanged DEF vars
<1>. QED
  BY <1>1, <1>2, <1>3, <1>4, <1>5, <1>6, <1>7, <1>8, <1>9, <1>10, <1>11,
     <1>12, <1>13, <1>14, <1>15, <1>16, <1>17
  DEF Next, Dispatcher, Callers, Closer

(* When every caller uses Schedule, no task is ever lost or handed to the  *)
(* pool twice: the lock held from GetFirst (line 90) to RemoveFirst (line  *)
(* 93) keeps the peeked task at the front of the queue.                    *)
THEOREM TaskAccounting ==
  ASSUME Submitters = {}
  PROVE  Spec => []NoTaskLostOrDuplicated
<1>1. TaskInv => NoTaskLostOrDuplicated
  BY DEF TaskInv
<1>2. TaskInv /\ [Next]_vars => TaskInv'
  BY TaskInvStep
<1>. QED
  BY TaskInvInit, <1>1, <1>2, PTL DEF Spec

-----------------------------------------------------------------------------
(* The delays a caller passes are below half the range of the wrapped      *)
(* execution time (2^63 nanoseconds in the code): a longer delay makes     *)
(* now + delay wrap into the past and the task is dispatched at once.      *)
DelaysBelowHalf == \A d \in Delays : d < Modulus \div 2

(* What the wrapped execution time of a created task still tells the      *)
(* dispatcher: either the task is already due, or its execution time is    *)
(* its deadline modulo 2^TimeBits and that deadline lies less than half    *)
(* the range ahead of the clock, so that the signed difference of line 91  *)
(* is its true distance.                                                   *)
Timely(t) ==
  \/ due[t] <= now
  \/ /\ execTime[t] = due[t] % Modulus
     /\ due[t] < now + Modulus \div 2

(* The inductive invariant behind NoEarlyDispatch: every queued task was   *)
(* created by its caller, every created task is timely, and the task the   *)
(* dispatcher holds between GetFirst and parcThreadPool_Execute is due.    *)
EarlyInv ==
  /\ TypeInv
  /\ \A t \in QueuedSet : caller[t] /= "idle"
  /\ \A t \in Tasks : caller[t] /= "idle" => Timely(t)
  /\ dispatcher \in {"remove", "execute"} =>
       caller[peeked] /= "idle" /\ due[peeked] <= now

(* Integer division by a positive M: the remainder is in 0 .. M - 1, the  *)
(* quotient an integer, and a = (a \div M) * M + a % M.                    *)
LEMMA DivisionFacts ==
  ASSUME NEW M \in Nat \ {0}, NEW a \in Int
  PROVE  /\ a % M = a - (a \div M) * M
         /\ a % M \in 0 .. M - 1
         /\ a \div M \in Int
<1>1. a % M = a - (a \div M) * M
  OBVIOUS
<1>2. a % M \in 0 .. M - 1
  OBVIOUS
<1>3. a \div M \in Int
  OBVIOUS
<1>. QED
  BY <1>1, <1>2, <1>3

(* The remainder of k * M + r is r when r is below M.                      *)
LEMMA ModOfMultiplePlus ==
  ASSUME NEW M \in Nat \ {0}, NEW k \in Int, NEW r \in 0 .. M - 1
  PROVE  (k * M + r) % M = r
OBVIOUS

(* Subtracting a multiple of M does not change the remainder modulo M.     *)
LEMMA ModMinusMultiple ==
  ASSUME NEW M \in Nat \ {0}, NEW y \in Int, NEW q \in Int
  PROVE  (y - q * M) % M = y % M
<1>1. PICK p \in Int : p = y \div M
  BY DivisionFacts
<1>2. PICK r \in 0 .. M - 1 : r = y % M
  BY DivisionFacts
<1>3. y = p * M + r
  BY <1>1, <1>2, DivisionFacts
<1>4. PICK k \in Int : k = p - q
  OBVIOUS
<1>5. y - q * M = k * M + r
  BY <1>3, <1>4
<1>. QED
  BY <1>2, <1>5, ModOfMultiplePlus

(* Reducing the first operand of a difference modulo M does not change    *)
(* the difference modulo M: the wrapped execution time minus the clock is  *)
(* the deadline minus the clock, modulo 2^TimeBits.                        *)
LEMMA ModDifference ==
  ASSUME NEW M \in Nat \ {0}, NEW a \in Int, NEW b \in Int
  PROVE  ((a % M) - b) % M = (a - b) % M
<1>1. PICK p \in Int : p = a \div M
  BY DivisionFacts
<1>2. PICK c \in Int : c = a - b
  OBVIOUS
<1>3. a % M = a - (a \div M) * M
  BY DivisionFacts
<1>4. (a % M) - b = c - p * M
  BY <1>1, <1>2, <1>3
<1>5. (c - p * M) % M = c % M
  BY ModMinusMultiple
<1>. QED
  BY <1>2, <1>4, <1>5

(* The due test of lines 91-92 is sound for a timely task: if the signed  *)
(* difference between its wrapped execution time and the clock is not     *)
(* positive, its deadline has passed.                                      *)
LEMMA DueTestSound ==
  ASSUME TypeOK, NEW t \in Tasks, Timely(t), ExecutionDelay(t) <= 0
  PROVE  due[t] <= now
<1> SUFFICES ASSUME due[t] > now PROVE FALSE
  BY DEF TypeOK
<1>2. due[t] \in Nat /\ now \in Nat
  BY DEF TypeOK
<1>1. execTime[t] = due[t] % Modulus /\ due[t] < now + Modulus \div 2
  BY <1>2 DEF Timely
<1>0. Modulus \in Nat \ {0}
  BY ModulusAssumption
<1>6. ((due[t] % Modulus) - now) % Modulus = (due[t] - now) % Modulus
  BY <1>0, <1>2, ModDifference
<1>3. (execTime[t] - now) % Modulus = (due[t] - now) % Modulus
  BY <1>1, <1>6
<1>4. (due[t] - now) % Modulus = due[t] - now
  BY <1>1, <1>2, ModulusAssumption
<1>5. ExecutionDelay(t) = due[t] - now
  BY <1>1, <1>2, <1>3, <1>4, ModulusAssumption DEF ExecutionDelay, Signed
<1>. QED
  BY <1>2, <1>5

(* The elements of the tail of a sequence are elements of the sequence.    *)
LEMMA TailSubset ==
  ASSUME NEW S, NEW s \in Seq(S), s /= << >>
  PROVE  Elems(Tail(s)) \subseteq Elems(s)
<1>1. Len(s) \in Nat \ {0} /\ DOMAIN s = 1 .. Len(s)
  BY LenProperties, EmptySeq
<1>2. /\ DOMAIN Tail(s) = 1 .. Len(s) - 1
      /\ \A j \in 1 .. Len(s) - 1 : Tail(s)[j] = s[j + 1]
  BY <1>1, HeadTailProperties, LenProperties
<1>. QED
  BY <1>1, <1>2 DEF Elems

(* Inserting e adds at most e to the elements of a sequence.              *)
LEMMA InsertBeforeSubset ==
  ASSUME NEW S, NEW s \in Seq(S), NEW i \in 1 .. Len(s) + 1, NEW e \in S
  PROVE  Elems(InsertBefore(s, i, e)) \subseteq Elems(s) \cup {e}
<1>1. Len(s) \in Nat /\ DOMAIN s = 1 .. Len(s)
  BY LenProperties
<1>. QED
  BY <1>1 DEF InsertBefore, Elems

(* Create starts with every caller idle and the dispatcher checking.      *)
LEMMA EarlyInvInit == Init => EarlyInv
<1> SUFFICES ASSUME Init PROVE EarlyInv
  OBVIOUS
<1>1. TypeInv
  BY TypeInvInit
<1>2. QueuedSet = {}
  BY DEF Init, QueuedSet
<1>. QED
  BY <1>1, <1>2 DEF Init, EarlyInv

(* The steps that leave the clock, the queue, the tasks' times, the       *)
(* callers and the peeked task alone, and do not enter RemoveFirst or the  *)
(* execute step, keep EarlyInv.                                            *)
LEMMA EarlyInvQuiet ==
  ASSUME EarlyInv, TypeInv',
         UNCHANGED <<now, workQueue, execTime, due, caller, peeked>>,
         dispatcher' \in {"remove", "execute"} => dispatcher \in {"remove", "execute"}
  PROVE  EarlyInv'
BY DEF EarlyInv, Timely, QueuedSet

(* Every step keeps EarlyInv when the delays are below half the range.    *)
LEMMA EarlyInvStep ==
  ASSUME DelaysBelowHalf, EarlyInv, [Next]_vars
  PROVE  EarlyInv'
<1>0. TypeInv /\ TypeInv'
  BY TypeInvStep DEF EarlyInv
<1>. USE <1>0
<1>1. CASE DispatcherExit
  BY <1>1, EarlyInvQuiet DEF DispatcherExit
<1>2. CASE DispatcherLoop
  BY <1>2, EarlyInvQuiet DEF DispatcherLoop
<1>3. CASE DispatcherWait
  BY <1>3, EarlyInvQuiet DEF DispatcherWait
<1>4. CASE DispatcherDue
  <2>1. Head(workQueue) \in QueuedSet /\ Head(workQueue) \in Tasks
    BY <1>4, HeadTailProperties, EmptySeq, LenProperties
    DEF DispatcherDue, QueuedSet, TypeInv, TypeOK
  <2>2. caller[Head(workQueue)] /= "idle" /\ Timely(Head(workQueue))
    BY <2>1 DEF EarlyInv
  <2>3. due[Head(workQueue)] <= now
    BY <1>4, <2>1, <2>2, DueTestSound DEF DispatcherDue, TypeInv
  <2>. QED
    BY <1>4, <2>2, <2>3 DEF DispatcherDue, EarlyInv, Timely, QueuedSet
<1>5. CASE DispatcherTimedWait
  BY <1>5, EarlyInvQuiet DEF DispatcherTimedWait
<1>6. CASE DispatcherRemove
  <2>1. QueuedSet' \subseteq QueuedSet
    BY <1>6, TailSubset DEF DispatcherRemove, TypeInv, TypeOK, QueuedSet, Elems
  <2>. QED
    BY <1>6, <2>1 DEF DispatcherRemove, EarlyInv, Timely
<1>7. CASE DispatcherExecute
  BY <1>7 DEF DispatcherExecute, EarlyInv, Timely, QueuedSet
<1>8. CASE DispatcherTimeout
  BY <1>8, EarlyInvQuiet DEF DispatcherTimeout
<1>9. ASSUME NEW t \in Tasks, NEW d \in Delays, ScheduleBegin(t, d)
      PROVE  EarlyInv'
  <2>1. caller[t] = "idle" /\ t \notin QueuedSet
        /\ (dispatcher \in {"remove", "execute"} => peeked /= t)
    BY <1>9 DEF ScheduleBegin, EarlyInv
  <2>2. Timely(t)'
    <3>1. d \in Nat /\ d < Modulus \div 2 /\ now \in Nat
      BY Assumptions DEF DelaysBelowHalf, TypeInv, TypeOK
    <3>2. execTime'[t] = (now + d) % Modulus /\ due'[t] = now + d /\ now' = now
      BY <1>9 DEF ScheduleBegin, TypeInv, TypeOK
    <3>. QED
      BY <3>1, <3>2, ModulusAssumption DEF Timely
  <2>3. \A u \in Tasks \ {t} : Timely(u)' = Timely(u) /\ caller'[u] = caller[u]
    BY <1>9 DEF ScheduleBegin, Timely, TypeInv, TypeOK
  <2>. QED
    BY <1>9, <2>1, <2>2, <2>3 DEF ScheduleBegin, EarlyInv, QueuedSet
<1>10. ASSUME NEW t \in Tasks, ScheduleAdd(t) PROVE EarlyInv'
  <2>1. PICK i \in 1 .. Len(workQueue) + 1 :
             workQueue' = InsertBefore(workQueue, i, t)
    BY <1>10 DEF ScheduleAdd, SortedAdd
  <2>2. QueuedSet' \subseteq QueuedSet \cup {t}
    <3>1. Elems(InsertBefore(workQueue, i, t)) \subseteq Elems(workQueue) \cup {t}
      BY InsertBeforeSubset DEF TypeInv, TypeOK
    <3>. QED
      BY <2>1, <3>1 DEF QueuedSet, Elems
  <2>3. caller[t] = "adding" /\ caller'[t] = "done"
    BY <1>10 DEF ScheduleAdd, TypeInv, TypeOK
  <2>4. \A u \in Tasks \ {t} : caller'[u] = caller[u]
    BY <1>10 DEF ScheduleAdd, TypeInv, TypeOK
  <2>5. \A u \in Tasks : Timely(u)' = Timely(u)
    BY <1>10 DEF ScheduleAdd, Timely
  <2>6. dispatcher' \in {"remove", "execute"} => dispatcher = "execute"
    BY <1>10 DEF ScheduleAdd, QueueLocked, WakeDispatcher
  <2>. QED
    BY <1>10, <2>2, <2>3, <2>4, <2>5, <2>6 DEF ScheduleAdd, EarlyInv
<1>11. ASSUME NEW t \in Tasks, Submit(t) PROVE EarlyInv'
  <2>1. PICK i \in 1 .. Len(workQueue) + 1 :
             workQueue' = InsertBefore(workQueue, i, t)
    BY <1>11 DEF Submit, SortedAdd
  <2>2. QueuedSet' \subseteq QueuedSet \cup {t}
    <3>1. Elems(InsertBefore(workQueue, i, t)) \subseteq Elems(workQueue) \cup {t}
      BY InsertBeforeSubset DEF TypeInv, TypeOK
    <3>. QED
      BY <2>1, <3>1 DEF QueuedSet, Elems
  <2>3. caller[t] = "idle" /\ caller'[t] = "done"
        /\ (dispatcher \in {"remove", "execute"} => peeked /= t)
    BY <1>11 DEF Submit, EarlyInv, TypeInv, TypeOK
  <2>4. \A u \in Tasks \ {t} : caller'[u] = caller[u] /\ Timely(u)' = Timely(u)
    BY <1>11 DEF Submit, Timely, TypeInv, TypeOK
  <2>5. Timely(t)'
    BY <1>11 DEF Submit, Timely, TypeInv, TypeOK
  <2>. QED
    BY <1>11, <2>2, <2>3, <2>4, <2>5 DEF Submit, EarlyInv
<1>12. CASE ShutdownCancel
  BY <1>12, EarlyInvQuiet DEF ShutdownCancel
<1>13. CASE ShutdownPool
  BY <1>13, EarlyInvQuiet DEF ShutdownPool
<1>14. CASE ShutdownNotify
  BY <1>14, EarlyInvQuiet DEF ShutdownNotify, WakeDispatcher
<1>15. CASE ShutdownJoin
  BY <1>15, EarlyInvQuiet DEF ShutdownJoin
<1>16. CASE Tick
  <2>1. now \in Nat /\ now' = now + 1
    BY <1>16 DEF Tick, TypeInv, TypeOK
  <2>2. \A u \in Tasks : Timely(u) => Timely(u)'
    BY <1>16, <2>1, ModulusAssumption DEF Tick, Timely, TypeInv, TypeOK
  <2>. QED
    BY <1>16, <2>1, <2>2 DEF Tick, EarlyInv, QueuedSet, TypeInv, TypeOK
<1>17. CASE UNCHANGED vars
  BY <1>17, EarlyInvQuiet DEF vars
<1>. QED
  BY <1>1, <1>2, <1>3, <1>4, <1>5, <1>6, <1>7, <1>8, <1>9, <1>10, <1>11,
     <1>12, <1>13, <1>14, <1>15, <1>16, <1>17
  DEF Next, Dispatcher, Callers, Closer

(* With delays below half the range of the 64-bit execution time, the      *)
(* dispatcher never removes a task before the deadline its caller asked    *)
(* for: the due test of line 92 on the signed wrapped difference of line   *)
(* 91 is exact, also after the clock has wrapped, and Submit's tasks are   *)
(* due when added.                                                         *)
THEOREM NoEarlyDispatchProved ==
  ASSUME DelaysBelowHalf
  PROVE  Spec => []NoEarlyDispatch
<1>1. EarlyInv => NoEarlyDispatch
  BY DEF EarlyInv, NoEarlyDispatch
<1>2. EarlyInv /\ [Next]_vars => EarlyInv'
  BY EarlyInvStep
<1>. QED
  BY EarlyInvInit, <1>1, <1>2, PTL DEF Spec

-----------------------------------------------------------------------------
(* ShutdownNow returns only after joining the dispatcher (lines 351-353),  *)
(* and a finished dispatcher never runs again.                             *)
JoinInv == closer = "done" => dispatcher = "done"

(* Every step keeps JoinInv: the join waits for the dispatcher to finish, *)
(* no dispatcher action starts from "done", and a notify only wakes a      *)
(* waiting dispatcher.                                                     *)
LEMMA JoinInvStep == JoinInv /\ [Next]_vars => JoinInv'
<1> SUFFICES ASSUME JoinInv, [Next]_vars PROVE JoinInv'
  OBVIOUS
<1>1. CASE Dispatcher
  BY <1>1 DEF Dispatcher, JoinInv, DispatcherExit, DispatcherLoop,
     DispatcherWait, DispatcherDue, DispatcherTimedWait, DispatcherRemove,
     DispatcherExecute, DispatcherTimeout
<1>2. CASE Callers
  BY <1>2 DEF Callers, JoinInv, ScheduleBegin, ScheduleAdd, Submit,
     WakeDispatcher
<1>3. CASE Closer
  BY <1>3 DEF Closer, JoinInv, ShutdownCancel, ShutdownPool, ShutdownNotify,
     ShutdownJoin, WakeDispatcher
<1>4. CASE Tick \/ UNCHANGED vars
  BY <1>4 DEF Tick, vars, JoinInv
<1>. QED
  BY <1>1, <1>2, <1>3, <1>4 DEF Next

(* Once ShutdownNow has returned, no step hands a task to the worker pool: *)
(* the only step that appends to the history is the dispatcher's execute   *)
(* step, and the join has seen the dispatcher finish.                      *)
THEOREM ShutdownStopsDispatch == Spec => NoDispatchAfterShutdown
<1>1. Init => JoinInv
  BY DEF Init, JoinInv
<1>2. JoinInv /\ [Next]_vars => [closer = "done" => handed' = handed]_vars
  <2> SUFFICES ASSUME JoinInv, [Next]_vars, closer = "done"
               PROVE  handed' = handed
    BY DEF vars
  <2>1. dispatcher = "done"
    BY DEF JoinInv
  <2>. QED
    BY <2>1 DEF Next, Dispatcher, Callers, Closer, Tick, vars,
       DispatcherExit, DispatcherLoop, DispatcherWait, DispatcherDue,
       DispatcherTimedWait, DispatcherRemove, DispatcherExecute,
       DispatcherTimeout, ScheduleBegin, ScheduleAdd, Submit, ShutdownCancel,
       ShutdownPool, ShutdownNotify, ShutdownJoin
<1>. QED
  BY <1>1, <1>2, JoinInvStep, PTL DEF Spec, NoDispatchAfterShutdown

-----------------------------------------------------------------------------
(* The tasks whose caller has begun Schedule or Submit.                   *)
Created == {t \in Tasks : caller[t] /= "idle"}

(* The deadlines never wrap: there are finitely many tasks, every delay is *)
(* at most D, and even if every task is scheduled with delay D, one after  *)
(* the other once the clock has reached MaxTime, the last deadline stays   *)
(* below half the range of the execution time (2^63 ns, some 292 years,   *)
(* in the code).                                                           *)
ClockNeverWraps(D) ==
  /\ IsFiniteSet(Tasks)
  /\ \A d \in Delays : d <= D
  /\ MaxTime + Cardinality(Tasks) * D < Modulus \div 2

(* The latest the clock, a deadline or a wake-up time can be once k tasks *)
(* have been created: the clock runs freely up to MaxTime, and beyond it  *)
(* only up to a deadline, which is at most D past the clock of its call.  *)
ClockBound(D, k) == MaxTime + k * D

(* The sequence s is in ascending order of the key f.                      *)
SortedBy(s, f) == \A i, j \in 1 .. Len(s) : i <= j => f[s[i]] <= f[s[j]]

(* The queue is sorted by execution time (what parcSortedList_Add keeps). *)
SortedByExecTime == SortedBy(workQueue, execTime)

(* The inductive invariant behind DispatchInDeadlineOrder: the lock keeps  *)
(* the peeked task first, the queue is sorted by execution time, and      *)
(* below the wrap the execution time of every created task is its          *)
(* deadline, with the clock, the deadlines and the wake-up time bounded by *)
(* the number of tasks created so far.                                    *)
OrderInv(D) ==
  /\ TaskInv
  /\ SortedByExecTime
  /\ now <= ClockBound(D, Cardinality(Created))
  /\ \A t \in Created : /\ execTime[t] = due[t]
                        /\ due[t] <= ClockBound(D, Cardinality(Created))
  /\ dispatcher = "timedwait" => wakeAt <= ClockBound(D, Cardinality(Created))


(* A difference of less than half the range in either direction survives  *)
(* the wrap and the two's-complement reading unchanged.                    *)
LEMMA SignedExact ==
  ASSUME NEW x \in Int, -(Modulus \div 2) < x, x < Modulus \div 2
  PROVE  Signed(x % Modulus) = x
<1>0. Modulus \in Nat \ {0} /\ Modulus \div 2 < Modulus
  BY ModulusAssumption
<1> USE <1>0
<1>1. CASE x >= 0
  <2>1. (0 * Modulus + x) % Modulus = x
    BY <1>0, <1>1, ModOfMultiplePlus
  <2>2. x % Modulus = x
    BY <2>1, <1>0
  <2>3. ~(x >= Modulus \div 2)
    OBVIOUS
  <2>. QED
    BY <2>2, <2>3, Zenon DEF Signed
<1>2. CASE x < 0
  <2>1. x + Modulus \in 0 .. Modulus - 1
    BY <1>0, <1>2
  <2>2. ((-1) * Modulus + (x + Modulus)) % Modulus = x + Modulus
    BY <1>0, <2>1, ModOfMultiplePlus
  <2>3. x % Modulus = x + Modulus
    BY <2>2, <1>0
  <2>4. x + Modulus >= Modulus \div 2
    BY <1>0, <1>2, ModulusAssumption
  <2>5. (x + Modulus) - Modulus = x
    BY <1>0
  <2>. QED
    BY <2>3, <2>4, <2>5, Zenon DEF Signed
<1>. QED
  BY <1>1, <1>2

(* Inserting e where the elements before are not above it and those after *)
(* are not below it keeps a sequence sorted: parcSortedList_Add.          *)
LEMMA InsertBeforeSorted ==
  ASSUME NEW S, NEW s \in Seq(S), NEW f \in [S -> Int],
         NEW i \in 1 .. Len(s) + 1, NEW e \in S, SortedBy(s, f),
         \A j \in 1 .. i - 1 : f[s[j]] <= f[e],
         \A j \in i .. Len(s) : f[e] <= f[s[j]]
  PROVE  SortedBy(InsertBefore(s, i, e), f)
<1>1. Len(InsertBefore(s, i, e)) = Len(s) + 1
  BY InsertBeforeType
<1> SUFFICES ASSUME NEW a \in 1 .. Len(s) + 1, NEW b \in 1 .. Len(s) + 1, a <= b
             PROVE  f[InsertBefore(s, i, e)[a]] <= f[InsertBefore(s, i, e)[b]]
  BY <1>1 DEF SortedBy
<1>2. Len(s) \in Nat
  BY LenProperties
<1>3. /\ \A c \in 1 .. i - 1 : InsertBefore(s, i, e)[c] = s[c]
      /\ InsertBefore(s, i, e)[i] = e
      /\ \A c \in i + 1 .. Len(s) + 1 : InsertBefore(s, i, e)[c] = s[c - 1]
  BY <1>2 DEF InsertBefore
<1>4. \A c, c2 \in 1 .. Len(s) : c <= c2 => f[s[c]] <= f[s[c2]]
  BY DEF SortedBy
<1>5. \A c \in 1 .. Len(s) : f[s[c]] \in Int
  BY <1>2, ElementOfSeq
<1>6. f[e] \in Int
  OBVIOUS
<1>7. CASE b < i
  <2>1. InsertBefore(s, i, e)[a] = s[a] /\ InsertBefore(s, i, e)[b] = s[b]
    BY <1>3, <1>7
  <2>. QED
    BY <1>2, <1>4, <1>7, <2>1
<1>8. CASE b = i /\ a < i
  <2>1. InsertBefore(s, i, e)[a] = s[a] /\ InsertBefore(s, i, e)[b] = e
    BY <1>3, <1>8
  <2>. QED
    BY <1>2, <1>8, <2>1
<1>9. CASE a = i
  <2>1. CASE b = i
    BY <2>1, <1>9, <1>3, <1>6
  <2>2. CASE b > i
    <3>1. InsertBefore(s, i, e)[a] = e /\ InsertBefore(s, i, e)[b] = s[b - 1]
      BY <1>3, <1>9, <2>2
    <3>. QED
      BY <1>2, <1>9, <2>2, <3>1
  <2>. QED
    BY <2>1, <2>2, <1>9
<1>10. CASE b > i /\ a < i
  <2>1. InsertBefore(s, i, e)[a] = s[a] /\ InsertBefore(s, i, e)[b] = s[b - 1]
    BY <1>3, <1>10
  <2>2. f[s[a]] <= f[e] /\ f[e] <= f[s[b - 1]]
    BY <1>2, <1>10
  <2>. QED
    BY <1>2, <1>5, <1>6, <1>10, <2>1, <2>2
<1>11. CASE b > i /\ a > i
  <2>1. InsertBefore(s, i, e)[a] = s[a - 1] /\ InsertBefore(s, i, e)[b] = s[b - 1]
    BY <1>3, <1>11
  <2>2. a - 1 \in 1 .. Len(s) /\ b - 1 \in 1 .. Len(s) /\ a - 1 <= b - 1
    BY <1>2, <1>11
  <2>. QED
    BY <1>4, <2>1, <2>2
<1>. QED
  BY <1>7, <1>8, <1>9, <1>10, <1>11

(* Removing the first element keeps a sequence sorted: RemoveFirst.       *)
LEMMA TailSorted ==
  ASSUME NEW S, NEW s \in Seq(S), s /= << >>, NEW f \in [S -> Int], SortedBy(s, f)
  PROVE  SortedBy(Tail(s), f)
<1>1. Len(s) \in Nat \ {0} /\ Len(Tail(s)) = Len(s) - 1
      /\ \A k \in 1 .. Len(s) - 1 : Tail(s)[k] = s[k + 1]
  BY HeadTailProperties, EmptySeq, LenProperties
<1>. QED
  BY <1>1 DEF SortedBy

(* The created tasks are a finite subset of the tasks.                     *)
LEMMA CreatedFinite ==
  ASSUME IsFiniteSet(Tasks)
  PROVE  /\ IsFiniteSet(Created)
         /\ Cardinality(Created) \in Nat
         /\ Cardinality(Created) <= Cardinality(Tasks)
<1>1. Created \subseteq Tasks
  BY DEF Created
<1>. QED
  BY <1>1, FS_Subset, FS_CardinalityType

(* A bound for fewer created tasks is below the bound for all of them,   *)
(* and so below half the range.                                           *)
LEMMA ClockBoundBelowHalf ==
  ASSUME NEW D \in Nat, ClockNeverWraps(D),
         NEW k \in Nat, k <= Cardinality(Tasks)
  PROVE  /\ ClockBound(D, k) \in Nat
         /\ ClockBound(D, k) < Modulus \div 2
<1>1. Cardinality(Tasks) \in Nat /\ MaxTime \in Nat
  BY FS_CardinalityType, Assumptions DEF ClockNeverWraps
<1>2. k * D <= Cardinality(Tasks) * D /\ k * D \in Nat
  BY <1>1
<1>3. MaxTime + Cardinality(Tasks) * D < Modulus \div 2
  BY DEF ClockNeverWraps
<1>4. Modulus \div 2 \in Int
  BY ModulusAssumption
<1>. QED
  BY <1>1, <1>2, <1>3, <1>4 DEF ClockBound


(* A queued task has been created: its caller's Schedule has returned.    *)
LEMMA QueuedCreated ==
  ASSUME TaskInv
  PROVE  QueuedSet \subseteq Created
<1> SUFFICES ASSUME NEW t \in QueuedSet PROVE t \in Created
  OBVIOUS
<1>1. t \in Tasks
  BY ElementOfSeq DEF TaskInv, TypeInv, TypeOK, QueuedSet
<1>2. caller[t] = "done"
  BY <1>1 DEF TaskInv, NoTaskLostOrDuplicated
<1>. QED
  BY <1>1, <1>2 DEF Created

(* Create starts with an empty queue, the clock at 0 and no task created. *)
LEMMA OrderInvInit ==
  ASSUME NEW D \in Nat, ClockNeverWraps(D)
  PROVE  Init => OrderInv(D)
<1> SUFFICES ASSUME Init PROVE OrderInv(D)
  OBVIOUS
<1>1. TaskInv
  BY TaskInvInit
<1>2. Created = {} /\ Cardinality(Created) = 0
  BY FS_EmptySet DEF Init, Created
<1>3. ClockBound(D, 0) \in Nat /\ 0 <= ClockBound(D, 0)
  BY Assumptions DEF ClockBound
<1>4. SortedByExecTime
  BY EmptySeq DEF Init, SortedByExecTime, SortedBy
<1>. QED
  BY <1>1, <1>2, <1>3, <1>4 DEF Init, OrderInv

(* The steps that leave the clock, the queue, the times, the callers and  *)
(* the wake-up time alone, and enter no timed wait, keep OrderInv.        *)
LEMMA OrderInvQuiet ==
  ASSUME NEW D \in Nat, OrderInv(D), TaskInv',
         UNCHANGED <<now, workQueue, execTime, due, caller, wakeAt>>,
         dispatcher' = "timedwait" => dispatcher = "timedwait"
  PROVE  OrderInv(D)'
<1>1. Created' = Created
  BY DEF Created
<1>. QED
  BY <1>1 DEF OrderInv, SortedByExecTime, SortedBy, ClockBound

(* Every step keeps OrderInv when no caller uses Submit and the clock     *)
(* never wraps.                                                            *)
LEMMA OrderInvStep ==
  ASSUME Submitters = {}, NEW D \in Nat, ClockNeverWraps(D), OrderInv(D),
         [Next]_vars
  PROVE  OrderInv(D)'
<1> USE ModulusAssumption
<1>0. /\ TaskInv /\ TaskInv'
      /\ TypeInv /\ TypeInv'
      /\ IsFiniteSet(Created)
      /\ Cardinality(Created) \in Nat
      /\ Cardinality(Created) <= Cardinality(Tasks)
  <2>1. TaskInv /\ TaskInv'
    BY TaskInvStep DEF OrderInv
  <2>2. IsFiniteSet(Tasks)
    BY DEF ClockNeverWraps
  <2>. QED
    BY <2>1, <2>2, CreatedFinite DEF TaskInv
<1> DEFINE B == ClockBound(D, Cardinality(Created))
<1>1. B \in Nat /\ B < Modulus \div 2
  BY <1>0, ClockBoundBelowHalf
<1>2. /\ now <= B
      /\ \A t \in Created : execTime[t] = due[t] /\ due[t] <= B
      /\ dispatcher = "timedwait" => wakeAt <= B
      /\ SortedByExecTime
  BY DEF OrderInv
<1>3. execTime \in [Tasks -> Int] /\ now \in Nat /\ due \in [Tasks -> Nat]
  <2>1. execTime \in [Tasks -> 0 .. Modulus - 1] /\ now \in Nat /\ due \in [Tasks -> Nat]
    BY <1>0 DEF TypeInv, TypeOK
  <2>2. 0 .. Modulus - 1 \subseteq Int
    BY ModulusAssumption
  <2>. QED
    BY <2>1, <2>2, Zenon
<1>. USE <1>0
<1>4. CASE DispatcherExit \/ DispatcherLoop \/ DispatcherWait \/ DispatcherDue
             \/ DispatcherTimeout \/ DispatcherExecute
  BY <1>4, OrderInvQuiet DEF DispatcherExit, DispatcherLoop, DispatcherWait,
     DispatcherDue, DispatcherTimeout, DispatcherExecute
<1>5. CASE DispatcherTimedWait
  <2>1. workQueue /= << >> /\ workQueue \in Seq(Tasks)
    BY <1>5 DEF DispatcherTimedWait, TypeInv, TypeOK
  <2>2. Head(workQueue) \in QueuedSet /\ Head(workQueue) \in Tasks
    BY <2>1, HeadTailProperties, EmptySeq, LenProperties DEF QueuedSet
  <2>3. Head(workQueue) \in Created
    BY <2>2, QueuedCreated
  <2> DEFINE h == Head(workQueue)
  <2>4. execTime[h] = due[h] /\ due[h] <= B /\ due[h] \in Nat
    BY <1>2, <1>3, <2>2, <2>3
  <2>5. ExecutionDelay(h) = due[h] - now
    <3>1. due[h] - now \in Int /\ -(Modulus \div 2) < due[h] - now
          /\ due[h] - now < Modulus \div 2
      BY <1>1, <1>2, <1>3, <2>4
    <3>2. Signed((due[h] - now) % Modulus) = due[h] - now
      BY <3>1, SignedExact
    <3>. QED
      BY <2>4, <3>2 DEF ExecutionDelay
  <2>6. wakeAt' <= B
    BY <1>5, <2>4, <2>5, <1>3 DEF DispatcherTimedWait
  <2>7. Created' = Created
    BY <1>5 DEF DispatcherTimedWait, Created
  <2>. QED
    BY <1>5, <1>2, <2>6, <2>7 DEF DispatcherTimedWait, OrderInv, SortedByExecTime,
       SortedBy
<1>6. CASE DispatcherRemove
  <2>1. workQueue /= << >> /\ workQueue \in Seq(Tasks)
    BY <1>6 DEF DispatcherRemove, TypeInv, TypeOK
  <2>2. SortedBy(Tail(workQueue), execTime)
    BY <2>1, <1>2, <1>3, TailSorted DEF SortedByExecTime
  <2>3. Created' = Created
    BY <1>6 DEF DispatcherRemove, Created
  <2>. QED
    BY <1>6, <1>2, <2>2, <2>3 DEF DispatcherRemove, OrderInv, SortedByExecTime
<1>7. ASSUME NEW t \in Tasks, NEW d \in Delays, ScheduleBegin(t, d)
      PROVE  OrderInv(D)'
  <2>1. caller[t] = "idle" /\ t \notin Created /\ t \notin QueuedSet
    BY <1>7, QueuedCreated DEF ScheduleBegin, Created
  <2>2. Created' = Created \cup {t}
    BY <1>7 DEF ScheduleBegin, Created, TypeInv, TypeOK
  <2>3. Cardinality(Created') = Cardinality(Created) + 1
        /\ Cardinality(Created') <= Cardinality(Tasks)
    <3>1. Cardinality(Created \cup {t}) = Cardinality(Created) + 1
      BY <2>1, FS_AddElement
    <3>2. IsFiniteSet(Tasks) /\ Created' \subseteq Tasks
      BY DEF ClockNeverWraps, Created
    <3>. QED
      BY <2>2, <3>1, <3>2, FS_Subset
  <2> DEFINE B1 == ClockBound(D, Cardinality(Created) + 1)
  <2>4. B1 = B + D /\ B1 < Modulus \div 2
    <3>1. Cardinality(Created) + 1 \in Nat
      OBVIOUS
    <3>2. ClockBound(D, Cardinality(Created) + 1) < Modulus \div 2
      BY <2>3, <3>1, ClockBoundBelowHalf
    <3>3. MaxTime + (Cardinality(Created) + 1) * D
            = (MaxTime + Cardinality(Created) * D) + D
      BY <3>1, Assumptions
    <3>. QED
      BY <3>2, <3>3 DEF ClockBound, B, B1
  <2>5. d \in Nat /\ d <= D
    BY Assumptions DEF ClockNeverWraps
  <2>6. now + d <= B1 /\ now + d \in Nat /\ now + d < Modulus
    BY <1>1, <1>2, <1>3, <2>4, <2>5, ModulusAssumption DEF B
  <2>7. (now + d) % Modulus = now + d
    <3>1. (0 * Modulus + (now + d)) % Modulus = now + d
      <4>1. now + d \in 0 .. Modulus - 1 /\ Modulus \in Nat \ {0} /\ 0 \in Int
        BY <2>6, ModulusAssumption
      <4>. QED
        BY <4>1, ModOfMultiplePlus
    <3>2. 0 * Modulus + (now + d) = now + d
      BY <2>6, ModulusAssumption
    <3>. QED
      BY <3>1, <3>2
  <2>8. execTime'[t] = due'[t] /\ due'[t] <= B1
    BY <1>7, <1>3, <2>6, <2>7 DEF ScheduleBegin
  <2>9. \A u \in Created : execTime'[u] = due'[u] /\ due'[u] <= B1
    <3> SUFFICES ASSUME NEW u \in Created
                 PROVE  execTime'[u] = due'[u] /\ due'[u] <= B1
      OBVIOUS
    <3>1. u \in Tasks /\ u /= t
      BY <2>1 DEF Created
    <3>2. execTime'[u] = execTime[u] /\ due'[u] = due[u]
      BY <1>7, <1>3, <3>1 DEF ScheduleBegin
    <3>3. execTime[u] = due[u] /\ due[u] <= B /\ due[u] \in Nat
      BY <1>2, <1>3, <3>1
    <3>. QED
      BY <1>1, <2>4, <2>5, <3>2, <3>3
  <2>10. SortedByExecTime'
    <3>1. \A j \in 1 .. Len(workQueue) : workQueue[j] /= t
      BY <2>1 DEF QueuedSet
    <3>. QED
      BY <1>7, <1>2, <3>1 DEF ScheduleBegin, SortedByExecTime, SortedBy
  <2>11. now' <= B1 /\ (dispatcher' = "timedwait" => wakeAt' <= B1)
    <3>1. now' = now /\ dispatcher' = dispatcher /\ wakeAt' = wakeAt
      BY <1>7 DEF ScheduleBegin
    <3>2. dispatcher = "timedwait" => wakeAt \in Nat
      BY DEF TypeInv, TypeOK
    <3>. QED
      BY <1>1, <1>2, <1>3, <2>4, <2>5, <3>1, <3>2
  <2>. QED
    BY <2>2, <2>3, <2>8, <2>9, <2>10, <2>11 DEF OrderInv
<1>8. ASSUME NEW t \in Tasks, ScheduleAdd(t) PROVE OrderInv(D)'
  <2>1. PICK i \in 1 .. Len(workQueue) + 1 :
             /\ \A j \in 1 .. i - 1 : execTime[workQueue[j]] <= execTime[t]
             /\ \A j \in i .. Len(workQueue) : execTime[t] <= execTime[workQueue[j]]
             /\ workQueue' = InsertBefore(workQueue, i, t)
    BY <1>8 DEF ScheduleAdd, SortedAdd
  <2>2. SortedBy(InsertBefore(workQueue, i, t), execTime)
    BY <2>1, <1>2, <1>3, InsertBeforeSorted DEF SortedByExecTime, TypeInv, TypeOK
  <2>3. Created' = Created
    BY <1>8 DEF ScheduleAdd, Created, TypeInv, TypeOK
  <2>4. dispatcher' = "timedwait" => dispatcher = "timedwait"
    BY <1>8 DEF ScheduleAdd, WakeDispatcher
  <2>. QED
    BY <1>8, <1>2, <2>1, <2>2, <2>3, <2>4 DEF ScheduleAdd, OrderInv, SortedByExecTime
<1>9. ASSUME NEW t \in Tasks, Submit(t) PROVE OrderInv(D)'
  BY <1>9 DEF Submit
<1>10. CASE ShutdownCancel \/ ShutdownPool \/ ShutdownNotify \/ ShutdownJoin
  BY <1>10, OrderInvQuiet DEF ShutdownCancel, ShutdownPool, ShutdownNotify,
     ShutdownJoin, WakeDispatcher
<1>11. CASE Tick
  <2>1. now' = now + 1 /\ now + 1 <= B
    <3>1. Cardinality(Created) * D \in Nat /\ MaxTime \in Nat
      BY Assumptions
    <3>2. wakeAt \in Nat
      BY DEF TypeInv, TypeOK
    <3>. QED
      BY <1>11, <1>2, <1>3, <3>1, <3>2 DEF Tick, ClockBound, B
  <2>2. Created' = Created
    BY <1>11 DEF Tick, Created
  <2>. QED
    BY <1>11, <1>2, <2>1, <2>2 DEF Tick, OrderInv, SortedByExecTime, SortedBy
<1>12. CASE UNCHANGED vars
  BY <1>12, OrderInvQuiet DEF vars
<1>. QED
  BY <1>4, <1>5, <1>6, <1>7, <1>8, <1>9, <1>10, <1>11, <1>12
  DEF Next, Dispatcher, Callers, Closer


(* When no caller uses Submit and the clock never wraps, the task the      *)
(* dispatcher takes out of the queue (lines 90-93) has the earliest        *)
(* deadline of all queued tasks: parcSortedList_Add keeps the queue in     *)
(* order of execution time, the lock keeps the peeked task first, and      *)
(* below the wrap the execution time is the deadline.                      *)
THEOREM DeadlineOrderProved ==
  ASSUME Submitters = {}, NEW D \in Nat, ClockNeverWraps(D)
  PROVE  Spec => []DispatchInDeadlineOrder
<1>1. OrderInv(D) => DispatchInDeadlineOrder
  <2> SUFFICES ASSUME OrderInv(D), dispatcher = "remove", NEW u \in QueuedSet
               PROVE  due[peeked] <= due[u]
    BY DEF DispatchInDeadlineOrder
  <2>1. TaskInv /\ workQueue /= << >> /\ workQueue \in Seq(Tasks)
        /\ peeked = Head(workQueue)
    BY DEF OrderInv, TaskInv, TypeInv, TypeOK
  <2>2. PICK j \in 1 .. Len(workQueue) : u = workQueue[j]
    BY DEF QueuedSet
  <2>3. Len(workQueue) \in Nat \ {0} /\ peeked = workQueue[1]
    BY <2>1, EmptySeq, LenProperties
  <2>4. execTime[workQueue[1]] <= execTime[workQueue[j]]
    BY <2>3 DEF OrderInv, SortedByExecTime, SortedBy
  <2>5. peeked \in Created /\ u \in Created
    <3>1. peeked \in QueuedSet
      BY <2>3 DEF QueuedSet
    <3>. QED
      BY <2>1, <3>1, QueuedCreated
  <2>6. execTime[peeked] = due[peeked] /\ execTime[u] = due[u]
    BY <2>5 DEF OrderInv
  <2>. QED
    BY <2>2, <2>3, <2>4, <2>6
<1>2. OrderInv(D) /\ [Next]_vars => OrderInv(D)'
  BY OrderInvStep
<1>. QED
  BY OrderInvInit, <1>1, <1>2, PTL DEF Spec

=============================================================================
