-------------------------- MODULE ThreadPool_proofs --------------------------
(***************************************************************************)
(* Proofs about ThreadPool, for any numbers of producers, workers and      *)
(* tasks, any queue size and either reading of _flag.  The safety          *)
(* properties are consequences of one inductive invariant, IInv.           *)
(***************************************************************************)
EXTENDS ThreadPool, FiniteSetTheorems, TLAPS

(* The program counters tell who has a task in hand, and a task that is in  *)
(* nobody's hands is None.                                                  *)
HandsMatch ==
  /\ \A p \in Producers : ppc[p] = "idle" <=> pend[p] = None
  /\ \A w \in Workers : wpc[w] = "run" <=> held[w] # None

(* A task is given to AddTask once.                                         *)
TasksDistinct ==
  /\ \A i, j \in 1..Len(log) : log[i] = log[j] => i = j
  /\ \A p \in Producers : \A i \in 1..Len(log) : pend[p] # log[i]
  /\ \A p, q \in Producers : pend[p] = pend[q] /\ pend[p] # None => p = q

(* What is being executed, or has been, came from the front of the queue.   *)
Popped(t) == \E i \in 1..head : log[i] = t
OnlyPopped ==
  /\ \A t \in done : Popped(t)
  /\ \A w \in Workers : held[w] # None => Popped(held[w])

(* How far Stop has come, and which threads it leaves behind: those that    *)
(* pthread_create never started and those that left ThreadFunc.             *)
StopPhase ==
  /\ spc # "serving" => toStart = {}
  /\ spc \notin {"serving", "drainTail", "drainHead"} => tailSeen <= head
  /\ \A w \in Workers : w \notin running =>
       \/ wpc[w] = "unborn"
       \/ spc = "stopped" /\ wpc[w] = "exited"
  /\ \A w \in toStart : w \notin running
  /\ spc = "stopped" => running = {}

IInv ==
  /\ TypeOK /\ LockOwned /\ QueueBounded /\ FrontExists
  /\ HandsMatch /\ TasksDistinct /\ OnlyPopped /\ StopPhase /\ EachTaskOnce
-----------------------------------------------------------------------------
LEMMA BacklogType ==
  ASSUME TypeOK
  PROVE  /\ Len(log) \in Nat /\ head \in Nat /\ head <= Len(log)
         /\ Backlog \in Nat
         /\ Empty <=> head = Len(log)
BY DEF TypeOK, Backlog, Empty

(* pthread_cond_signal moves at most one sleeper, and nobody else.          *)
LEMMA NotifyWorker ==
  ASSUME TypeOK, wpc' \in Notify(wpc, "popSleep", "popWake")
  PROVE  /\ wpc' \in [Workers -> WorkerAt]
         /\ \A w \in Workers :
              wpc'[w] = wpc[w] \/ (wpc[w] = "popSleep" /\ wpc'[w] = "popWake")
<1>1. CASE Asleep(wpc, "popSleep") = {}
  BY <1>1 DEF Notify, TypeOK
<1>2. CASE Asleep(wpc, "popSleep") # {}
  BY <1>2 DEF Notify, Asleep, TypeOK, WorkerAt
<1>3. QED
  BY <1>1, <1>2

LEMMA NotifyProducer ==
  ASSUME TypeOK, ppc' \in Notify(ppc, "pushSleep", "pushWake")
  PROVE  /\ ppc' \in [Producers -> ProducerAt]
         /\ \A p \in Producers :
              ppc'[p] = ppc[p] \/ (ppc[p] = "pushSleep" /\ ppc'[p] = "pushWake")
<1>1. CASE Asleep(ppc, "pushSleep") = {}
  BY <1>1 DEF Notify, TypeOK
<1>2. CASE Asleep(ppc, "pushSleep") # {}
  BY <1>2 DEF Notify, Asleep, TypeOK, ProducerAt
<1>3. QED
  BY <1>1, <1>2

LEMMA AppendEffect ==
  ASSUME NEW S, NEW s \in Seq(S), NEW e \in S
  PROVE  /\ Append(s, e) \in Seq(S)
         /\ Len(Append(s, e)) = Len(s) + 1
         /\ \A i \in 1..Len(s) : Append(s, e)[i] = s[i]
         /\ Append(s, e)[Len(s) + 1] = e
OBVIOUS

LEMMA InitIInv == Init => IInv
<1> SUFFICES ASSUME Init PROVE IInv
  OBVIOUS
<1> USE PoolAssumption DEF Init
<1>1. TypeOK
  <2>1. flag \in BOOLEAN /\ isExit \in BOOLEAN
    BY Zenon
  <2>2. log \in Seq(Tasks) /\ Len(log) = 0
    OBVIOUS
  <2>3. QED
    BY <2>1, <2>2 DEF TypeOK, ProducerAt, WorkerAt, StopperAt
<1>2. LockOwned
  BY DEF LockOwned, InPush, InPop
<1>3. QueueBounded /\ FrontExists
  BY DEF QueueBounded, FrontExists, Backlog
<1>4. HandsMatch /\ TasksDistinct /\ OnlyPopped /\ StopPhase /\ EachTaskOnce
  BY DEF HandsMatch, TasksDistinct, OnlyPopped, StopPhase, EachTaskOnce
<1>5. QED
  BY <1>1, <1>2, <1>3, <1>4 DEF IInv
-----------------------------------------------------------------------------
LEMMA TypeStep == IInv /\ [Next]_vars => TypeOK'
<1> SUFFICES ASSUME IInv, [Next]_vars PROVE TypeOK'
  OBVIOUS
<1> USE PoolAssumption DEF ProducerAt, WorkerAt, StopperAt, queueVars
<1>0. TypeOK
  BY DEF IInv
<1>1. ASSUME NEW w \in Workers,
             StartThread(w) \/ ReadIsExit(w) \/ PopLock(w) \/ PopTest(w) \/ PopWait(w) \/ PopNull(w)
      PROVE TypeOK'
  BY <1>0, <1>1 DEF TypeOK, StartThread, ReadIsExit, PopLock, PopTest, PopWait, PopNull
<1>2. ASSUME NEW w \in Workers, PopTake(w)
      PROVE TypeOK'
  <2>1. head + 1 \in 1..Len(log)
    BY <1>0, <1>2, BacklogType DEF IInv, FrontExists, PopTake
  <2>2. ppc' \in [Producers -> ProducerAt]
    BY <1>0, <1>2, NotifyProducer DEF PopTake
  <2>3. held' \in [Workers -> Tasks \cup {None}]
    BY <1>0, <1>2, <2>1 DEF TypeOK, PopTake
  <2>4. head' \in 0..Len(log')
    BY <1>0, <1>2, <2>1 DEF TypeOK, PopTake
  <2>5. QED
    BY <1>0, <1>2, <2>2, <2>3, <2>4 DEF TypeOK, PopTake
<1>3. ASSUME NEW w \in Workers, RunTask(w)
      PROVE TypeOK'
  BY <1>0, <1>3 DEF TypeOK, RunTask, IInv, HandsMatch
<1>4. ASSUME NEW p \in Producers, PushLock(p) \/ PushWait(p)
      PROVE TypeOK'
  BY <1>0, <1>4 DEF TypeOK, PushLock, PushWait
<1>5. ASSUME NEW p \in Producers, PushEnqueue(p)
      PROVE TypeOK'
  <2>1. pend[p] \in Tasks
    BY <1>0, <1>5 DEF TypeOK, PushEnqueue, IInv, HandsMatch
  <2>2. log' \in Seq(Tasks) /\ Len(log') = Len(log) + 1
    BY <1>0, <1>5, <2>1, AppendEffect DEF TypeOK, PushEnqueue
  <2>3. wpc' \in [Workers -> WorkerAt]
    BY <1>0, <1>5, NotifyWorker DEF PushEnqueue
  <2>4. head' \in 0..Len(log') /\ tailSeen' \in 0..Len(log')
    BY <1>0, <1>5, <2>2, BacklogType DEF TypeOK, PushEnqueue
  <2>5. QED
    BY <1>0, <1>5, <2>2, <2>3, <2>4 DEF TypeOK, PushEnqueue
<1>6. ASSUME NEW p \in Producers, NEW t \in Tasks, AddTask(p, t)
      PROVE TypeOK'
  BY <1>0, <1>6 DEF TypeOK, AddTask
<1>7. CASE SpuriousWakeup
  BY <1>0, <1>7 DEF TypeOK, SpuriousWakeup, Asleep
<1>8. CASE StopCall \/ StopperStep
  <2>1. CASE DrainReadTail
    BY <1>0, <2>1 DEF TypeOK, StopperGoes, DrainReadTail
  <2>2. CASE SetExit \/ ClearFlag
    BY <1>0, <2>2 DEF TypeOK, StopperGoes, SetExit, ClearFlag
  <2>3. CASE StopCall \/ DrainReadHead \/ NotifyAll \/ Join
    BY <1>0, <2>3 DEF TypeOK, StopperGoes, StopCall, DrainReadHead, NotifyAll, Join
  <2>4. QED
    BY <1>8, <2>1, <2>2, <2>3 DEF StopperStep
<1>9. CASE UNCHANGED vars
  BY <1>0, <1>9 DEF TypeOK, vars
<1>10. QED
  BY <1>1, <1>2, <1>3, <1>4, <1>5, <1>6, <1>7, <1>8, <1>9
     DEF Next, ProducerStep, WorkerStep
-----------------------------------------------------------------------------
(* The mutex: only PushLock and PopLock take it, when it is free, and every *)
(* way out of the critical section gives it back.                           *)
LEMMA LockStep == IInv /\ [Next]_vars => LockOwned'
<1> SUFFICES ASSUME IInv, [Next]_vars PROVE LockOwned'
  OBVIOUS
<1> USE PoolAssumption DEF LockOwned, InPush, InPop, TypeOK, queueVars
<1>0. TypeOK /\ LockOwned
  BY DEF IInv
<1>1. ASSUME NEW w \in Workers, PopLock(w) \/ PopTest(w) \/ PopWait(w) \/ PopNull(w)
      PROVE LockOwned'
  BY <1>0, <1>1 DEF PopLock, PopTest, PopWait, PopNull
<1>2. ASSUME NEW w \in Workers, StartThread(w) \/ ReadIsExit(w) \/ RunTask(w)
      PROVE LockOwned'
  <2>1. wpc[w] \notin {"popTest", "popBlock", "popTake"} /\ wpc'[w] \notin {"popTest", "popBlock", "popTake"}
    BY <1>0, <1>2 DEF StartThread, ReadIsExit, RunTask, IInv, StopPhase
  <2>2. QED
    BY <1>0, <1>2, <2>1 DEF StartThread, ReadIsExit, RunTask
<1>3. ASSUME NEW w \in Workers, PopTake(w)
      PROVE LockOwned'
  BY <1>0, <1>3, NotifyProducer DEF PopTake
<1>4. ASSUME NEW p \in Producers, PushLock(p) \/ PushWait(p)
      PROVE LockOwned'
  BY <1>0, <1>4 DEF PushLock, PushWait
<1>5. ASSUME NEW p \in Producers, PushEnqueue(p)
      PROVE LockOwned'
  BY <1>0, <1>5, NotifyWorker DEF PushEnqueue
<1>6. ASSUME NEW p \in Producers, NEW t \in Tasks, AddTask(p, t)
      PROVE LockOwned'
  BY <1>0, <1>6 DEF AddTask
<1>7. CASE SpuriousWakeup
  BY <1>0, <1>7 DEF SpuriousWakeup, Asleep
<1>8. CASE StopCall \/ StopperStep
  BY <1>0, <1>8 DEF StopCall, StopperStep, StopperGoes, DrainReadTail,
     DrainReadHead, SetExit, ClearFlag, NotifyAll, Join
<1>9. CASE UNCHANGED vars
  BY <1>0, <1>9 DEF vars
<1>10. QED
  BY <1>1, <1>2, <1>3, <1>4, <1>5, <1>6, <1>7, <1>8, <1>9
     DEF Next, ProducerStep, WorkerStep

(* Only PushEnqueue adds to the queue, after it has tested Full() under the *)
(* mutex.                                                                   *)
LEMMA BoundStep == IInv /\ [Next]_vars => QueueBounded'
<1> SUFFICES ASSUME IInv, [Next]_vars PROVE QueueBounded'
  OBVIOUS
<1> USE PoolAssumption DEF QueueBounded, Backlog, TypeOK
<1>0. TypeOK /\ QueueBounded
  BY DEF IInv
<1>1. ASSUME NEW p \in Producers, PushEnqueue(p)
      PROVE QueueBounded'
  BY <1>0, <1>1 DEF PushEnqueue, Full, IInv, HandsMatch
<1>2. ASSUME NEW w \in Workers, PopTake(w)
      PROVE QueueBounded'
  BY <1>0, <1>2 DEF PopTake
<1>3. CASE UNCHANGED <<log, head>>
  BY <1>0, <1>3
<1>4. QED
  BY <1>1, <1>2, <1>3
     DEF Next, ProducerStep, WorkerStep, StartThread, PopLock, ReadIsExit,
         PopTest, PopWait, PopNull, RunTask, PushLock, PushWait, AddTask,
         SpuriousWakeup, StopCall, StopperStep, StopperGoes, DrainReadTail,
         DrainReadHead, SetExit, ClearFlag, NotifyAll, Join, queueVars, vars

(* A worker past the wait loop owns the mutex, so nobody else pops before   *)
(* it does, and _flag is never set again once it reads false.               *)
LEMMA FrontStep == IInv /\ [Next]_vars => FrontExists'
<1> SUFFICES ASSUME IInv, [Next]_vars, NEW v \in Workers,
                    wpc'[v] = "popTake", flag'
             PROVE  ~Empty'
  BY DEF FrontExists
<1> USE PoolAssumption DEF Empty, Backlog, TypeOK, queueVars
<1>0. TypeOK /\ FrontExists /\ LockOwned
  BY DEF IInv
<1>1. ASSUME NEW w \in Workers, PopTake(w)
      PROVE FALSE
  BY <1>0, <1>1 DEF PopTake, LockOwned, InPop
<1>2. ASSUME NEW w \in Workers, PopTest(w)
      PROVE ~Empty'
  BY <1>0, <1>2 DEF PopTest, LockOwned, InPop
<1>3. ASSUME NEW p \in Producers, PushEnqueue(p)
      PROVE ~Empty'
  BY <1>0, <1>3 DEF PushEnqueue, IInv, HandsMatch
<1>4. ASSUME UNCHANGED <<log, head>>, flag' => flag, wpc'[v] = "popTake" => wpc[v] = "popTake"
      PROVE ~Empty'
  BY <1>0, <1>4 DEF FrontExists
<1>5. ASSUME NEW w \in Workers,
             StartThread(w) \/ ReadIsExit(w) \/ PopLock(w) \/ PopWait(w) \/ PopNull(w) \/ RunTask(w)
      PROVE ~Empty'
  BY <1>0, <1>4, <1>5 DEF StartThread, ReadIsExit, PopLock, PopWait, PopNull, RunTask
<1>6. CASE (\E p \in Producers : PushLock(p) \/ PushWait(p)) \/ (\E p \in Producers, t \in Tasks : AddTask(p, t))
           \/ SpuriousWakeup \/ StopCall \/ StopperStep \/ UNCHANGED vars
  BY <1>0, <1>4, <1>6 DEF PushLock, PushWait, AddTask, SpuriousWakeup, Asleep,
     StopCall, StopperStep, StopperGoes, DrainReadTail, DrainReadHead, SetExit,
     ClearFlag, NotifyAll, Join, vars
<1>7. QED
  BY <1>1, <1>2, <1>3, <1>5, <1>6 DEF Next, ProducerStep, WorkerStep

LEMMA HandsStep == IInv /\ [Next]_vars => HandsMatch'
<1> SUFFICES ASSUME IInv, [Next]_vars PROVE HandsMatch'
  OBVIOUS
<1> USE PoolAssumption DEF HandsMatch, TypeOK, queueVars
<1>0. TypeOK /\ HandsMatch
  BY DEF IInv
<1>1. ASSUME NEW w \in Workers, PopTake(w)
      PROVE HandsMatch'
  <2>1. head + 1 \in 1..Len(log)
    BY <1>0, <1>1, BacklogType DEF IInv, FrontExists, PopTake
  <2>2. log[head + 1] \in Tasks
    BY <1>0, <2>1
  <2>3. QED
    BY <1>0, <1>1, <2>2, NotifyProducer DEF PopTake
<1>2. ASSUME NEW p \in Producers, PushEnqueue(p)
      PROVE HandsMatch'
  BY <1>0, <1>2, NotifyWorker DEF PushEnqueue
<1>3. ASSUME NEW w \in Workers, StartThread(w)
      PROVE HandsMatch'
  BY <1>0, <1>3 DEF StartThread, IInv, StopPhase
<1>4. ASSUME NEW w \in Workers,
             ReadIsExit(w) \/ PopLock(w) \/ PopTest(w) \/ PopWait(w) \/ PopNull(w) \/ RunTask(w)
      PROVE HandsMatch'
  BY <1>0, <1>4 DEF ReadIsExit, PopLock, PopTest, PopWait, PopNull, RunTask
<1>5. ASSUME NEW p \in Producers, PushLock(p) \/ PushWait(p)
      PROVE HandsMatch'
  BY <1>0, <1>5 DEF PushLock, PushWait
<1>6. ASSUME NEW p \in Producers, NEW t \in Tasks, AddTask(p, t)
      PROVE HandsMatch'
  BY <1>0, <1>6 DEF AddTask
<1>7. CASE SpuriousWakeup \/ StopCall \/ StopperStep \/ UNCHANGED vars
  BY <1>0, <1>7 DEF SpuriousWakeup, Asleep, StopCall, StopperStep, StopperGoes,
     DrainReadTail, DrainReadHead, SetExit, ClearFlag, NotifyAll, Join, vars
<1>8. QED
  BY <1>1, <1>2, <1>3, <1>4, <1>5, <1>6, <1>7 DEF Next, ProducerStep, WorkerStep

LEMMA DistinctStep == IInv /\ [Next]_vars => TasksDistinct'
<1> SUFFICES ASSUME IInv, [Next]_vars PROVE TasksDistinct'
  OBVIOUS
<1> USE PoolAssumption DEF TasksDistinct, TypeOK
<1>0. TypeOK /\ TasksDistinct /\ HandsMatch
  BY DEF IInv
<1>1. ASSUME NEW p \in Producers, PushEnqueue(p)
      PROVE TasksDistinct'
  <2>1. pend[p] \in Tasks
    BY <1>0, <1>1 DEF PushEnqueue, HandsMatch
  <2>2. /\ Len(log') = Len(log) + 1 /\ log'[Len(log) + 1] = pend[p]
        /\ \A i \in 1..Len(log) : log'[i] = log[i]
        /\ Len(log) \in Nat
    BY <1>0, <1>1, <2>1, AppendEffect DEF PushEnqueue
  <2>3. \A i, j \in 1..Len(log') : log'[i] = log'[j] => i = j
    BY <1>0, <2>2, SMTT(30)
  <2>4. \A q \in Producers : \A i \in 1..Len(log') : pend'[q] # log'[i]
    <3> SUFFICES ASSUME NEW q \in Producers, NEW i \in 1..Len(log')
                 PROVE  pend'[q] # log'[i]
      OBVIOUS
    <3>1. log'[i] \in Tasks
      BY <1>0, <2>1, <2>2
    <3>2. QED
      BY <1>0, <1>1, <2>1, <2>2, <3>1 DEF PushEnqueue
  <2>5. \A q, r \in Producers : pend'[q] = pend'[r] /\ pend'[q] # None => q = r
    BY <1>0, <1>1 DEF PushEnqueue
  <2>6. QED
    BY <2>3, <2>4, <2>5
<1>2. ASSUME NEW p \in Producers, NEW t \in Tasks, AddTask(p, t)
      PROVE TasksDistinct'
  BY <1>0, <1>2 DEF AddTask, Pushed, queueVars
<1>3. CASE UNCHANGED <<log, pend>>
  BY <1>0, <1>3
<1>4. QED
  BY <1>1, <1>2, <1>3
     DEF Next, ProducerStep, WorkerStep, StartThread, PopLock, ReadIsExit,
         PopTest, PopWait, PopTake, PopNull, RunTask, PushLock, PushWait,
         SpuriousWakeup, StopCall, StopperStep, StopperGoes, DrainReadTail,
         DrainReadHead, SetExit, ClearFlag, NotifyAll, Join, queueVars, vars

LEMMA PhaseStep == IInv /\ [Next]_vars => StopPhase'
<1> SUFFICES ASSUME IInv, [Next]_vars PROVE StopPhase'
  OBVIOUS
<1> USE PoolAssumption DEF StopPhase, TypeOK, StopperAt, queueVars
<1>0. TypeOK /\ StopPhase
  BY DEF IInv
<1>1. ASSUME NEW w \in Workers, StartThread(w)
      PROVE StopPhase'
  BY <1>0, <1>1 DEF StartThread
<1>2. ASSUME NEW w \in Workers,
             ReadIsExit(w) \/ PopLock(w) \/ PopTest(w) \/ PopWait(w) \/ PopNull(w) \/ RunTask(w)
      PROVE StopPhase'
  BY <1>0, <1>2 DEF ReadIsExit, PopLock, PopTest, PopWait, PopNull, RunTask
<1>3. ASSUME NEW w \in Workers, PopTake(w)
      PROVE StopPhase'
  BY <1>0, <1>3 DEF PopTake
<1>4. ASSUME NEW p \in Producers, PushEnqueue(p)
      PROVE StopPhase'
  BY <1>0, <1>4, NotifyWorker DEF PushEnqueue
<1>5. ASSUME NEW p \in Producers, PushLock(p) \/ PushWait(p) \/ \E t \in Tasks : AddTask(p, t)
      PROVE StopPhase'
  BY <1>0, <1>5 DEF PushLock, PushWait, AddTask
<1>6. CASE SpuriousWakeup
  BY <1>0, <1>6 DEF SpuriousWakeup, Asleep
<1>7. CASE StopCall \/ StopperStep
  BY <1>0, <1>7 DEF StopCall, StopperStep, StopperGoes, DrainReadTail,
     DrainReadHead, SetExit, ClearFlag, NotifyAll, Join
<1>8. CASE UNCHANGED vars
  BY <1>0, <1>8 DEF vars
<1>9. QED
  BY <1>1, <1>2, <1>3, <1>4, <1>5, <1>6, <1>7, <1>8
     DEF Next, ProducerStep, WorkerStep

LEMMA PoppedStep == IInv /\ [Next]_vars => OnlyPopped'
<1> SUFFICES ASSUME IInv, [Next]_vars PROVE OnlyPopped'
  OBVIOUS
<1> USE PoolAssumption DEF OnlyPopped, Popped, TypeOK
<1>0. TypeOK /\ OnlyPopped /\ HandsMatch
  BY DEF IInv
<1>1. ASSUME NEW w \in Workers, PopTake(w)
      PROVE OnlyPopped'
  <2>1. head \in Nat /\ head' = head + 1 /\ log' = log /\ done' = done
    BY <1>0, <1>1, BacklogType DEF PopTake
  <2>2. held' = [held EXCEPT ![w] = log[head + 1]]
    BY <1>1, <2>1 DEF PopTake
  <2>3. QED
    BY <1>0, <2>1, <2>2
<1>2. ASSUME NEW p \in Producers, PushEnqueue(p)
      PROVE OnlyPopped'
  <2>1. \A i \in 1..Len(log) : log'[i] = log[i]
    BY <1>0, <1>2, AppendEffect DEF PushEnqueue, HandsMatch
  <2>2. head \in 0..Len(log) /\ UNCHANGED <<head, held, done>>
    BY <1>0, <1>2 DEF PushEnqueue
  <2>3. QED
    BY <1>0, <2>1, <2>2, BacklogType
<1>3. ASSUME NEW w \in Workers, RunTask(w)
      PROVE OnlyPopped'
  BY <1>0, <1>3 DEF RunTask, HandsMatch, queueVars
<1>4. CASE UNCHANGED <<log, head, held, done>>
  BY <1>0, <1>4
<1>5. QED
  BY <1>1, <1>2, <1>3, <1>4
     DEF Next, ProducerStep, WorkerStep, StartThread, PopLock, ReadIsExit,
         PopTest, PopWait, PopNull, PushLock, PushWait, AddTask,
         SpuriousWakeup, StopCall, StopperStep, StopperGoes, DrainReadTail,
         DrainReadHead, SetExit, ClearFlag, NotifyAll, Join, queueVars, vars

LEMMA OnceStep == IInv /\ [Next]_vars => EachTaskOnce'
<1> SUFFICES ASSUME IInv, [Next]_vars PROVE EachTaskOnce'
  OBVIOUS
<1> USE PoolAssumption DEF EachTaskOnce, TypeOK
<1>0. TypeOK /\ EachTaskOnce /\ HandsMatch /\ TasksDistinct
  BY DEF IInv
<1>1. ASSUME NEW w \in Workers, PopTake(w)
      PROVE EachTaskOnce'
  <2>1. /\ head \in Nat /\ head + 1 \in 1..Len(log) /\ head' = head + 1
        /\ log' = log /\ done' = done
    BY <1>0, <1>1, BacklogType DEF IInv, FrontExists, PopTake
  <2>2. held' = [held EXCEPT ![w] = log[head + 1]] /\ held[w] = None
    BY <1>0, <1>1, <2>1 DEF PopTake, HandsMatch
  <2>3. log[head + 1] \notin done /\ \A v \in Workers : held[v] # log[head + 1]
    BY <1>0, <2>1
  <2>4. \A i \in 1..head' : log'[i] \in done' \/ \E v \in Workers : held'[v] = log'[i]
    <3> SUFFICES ASSUME NEW i \in 1..head'
                 PROVE  log[i] \in done \/ \E v \in Workers : held'[v] = log[i]
      BY <2>1
    <3>1. CASE i = head + 1
      BY <1>0, <2>2, <3>1
    <3>2. CASE i \in 1..head
      <4>1. log[i] # None
        BY <1>0, <2>1, <3>2
      <4>2. QED
        BY <1>0, <2>2, <3>2, <4>1
    <3>3. QED
      BY <2>1, <3>1, <3>2
  <2>5. \A i \in (head' + 1)..Len(log') :
          log'[i] \notin done' /\ \A v \in Workers : held'[v] # log'[i]
    BY <1>0, <2>1, <2>2 DEF TasksDistinct
  <2>6. /\ \A v \in Workers : held'[v] # None => held'[v] \notin done'
        /\ \A u, v \in Workers : held'[u] = held'[v] /\ held'[u] # None => u = v
    BY <1>0, <2>1, <2>2, <2>3
  <2>7. QED
    BY <2>4, <2>5, <2>6
<1>2. ASSUME NEW p \in Producers, PushEnqueue(p)
      PROVE EachTaskOnce'
  <2>1. pend[p] \in Tasks
    BY <1>0, <1>2 DEF PushEnqueue, HandsMatch
  <2>2. /\ Len(log') = Len(log) + 1 /\ log'[Len(log) + 1] = pend[p]
        /\ \A i \in 1..Len(log) : log'[i] = log[i]
        /\ Len(log) \in Nat /\ head \in 0..Len(log)
        /\ UNCHANGED <<head, held, done>>
    BY <1>0, <1>2, <2>1, AppendEffect DEF PushEnqueue
  <2>3. pend[p] \notin done /\ \A v \in Workers : held[v] # pend[p]
    <3>1. \A i \in 1..head : log[i] # pend[p]
      BY <1>0, <2>2 DEF TasksDistinct
    <3>2. ~Popped(pend[p]) /\ pend[p] # None
      BY <2>1, <3>1 DEF Popped
    <3>3. QED
      BY <3>2 DEF IInv, OnlyPopped
  <2>4. QED
    BY <1>0, <2>2, <2>3, SMTT(30)
<1>3. ASSUME NEW w \in Workers, RunTask(w)
      PROVE EachTaskOnce'
  BY <1>0, <1>3 DEF RunTask, HandsMatch, queueVars
<1>4. CASE UNCHANGED <<log, head, held, done>>
  BY <1>0, <1>4
<1>5. QED
  BY <1>1, <1>2, <1>3, <1>4
     DEF Next, ProducerStep, WorkerStep, StartThread, PopLock, ReadIsExit,
         PopTest, PopWait, PopNull, PushLock, PushWait, AddTask,
         SpuriousWakeup, StopCall, StopperStep, StopperGoes, DrainReadTail,
         DrainReadHead, SetExit, ClearFlag, NotifyAll, Join, queueVars, vars
-----------------------------------------------------------------------------
LEMMA Invariance == Spec => []IInv
<1>1. IInv /\ [Next]_vars => IInv'
  BY TypeStep, LockStep, BoundStep, FrontStep, HandsStep, DistinctStep,
     PoppedStep, PhaseStep, OnceStep DEF IInv
<1>2. QED
  BY <1>1, InitIInv, PTL DEF Spec

(* The pool's variables keep their types; among them, head never passes the *)
(* queue's tail and every task executed is one that was given.              *)
THEOREM TypeCorrect == Spec => []TypeOK
BY Invariance, PTL DEF IInv

(* Push and Pop exclude one another whatever threads call them: exactly the *)
(* thread that owns the mutex is between Lock and Unlock.                   *)
THEOREM MutualExclusion == Spec => []LockOwned
BY Invariance, PTL DEF IInv

(* The queue never holds more than _queue_size tasks, for any number of     *)
(* producers and any size, 0 included.                                      *)
THEOREM Bounded == Spec => []QueueBounded
BY Invariance, PTL DEF IInv

(* Pop never takes the front of an empty queue.                             *)
THEOREM NoUnderflow == Spec => []FrontExists
BY Invariance, PTL DEF IInv

(* So the deque is never over- or underrun.                                 *)
THEOREM QueueIsAlwaysSafe == Spec => []QueueIsSafe
BY Bounded, NoUnderflow, PTL DEF QueueIsSafe

(* No task that was popped is lost, executed twice or held by two workers,  *)
(* and none is executed before it is popped.                                *)
THEOREM ExactlyOnce == Spec => []EachTaskOnce
BY Invariance, PTL DEF IInv

(* Stop returns with every task executed, provided none was pushed after it *)
(* last looked at the queue; whether or not every thread was started, and   *)
(* however _flag read.                                                      *)
THEOREM StopIsGraceful == Spec => []StopCompletesWork
<1>1. ASSUME IInv
      PROVE  StopCompletesWork
  <2> SUFFICES ASSUME spc = "stopped", Len(log) = tailSeen, NEW i \in 1..Len(log)
               PROVE  log[i] \in done
    BY DEF StopCompletesWork
  <2>1. i \in 1..head /\ log[i] \in Tasks
    BY <1>1 DEF IInv, TypeOK, StopPhase
  <2>2. \A w \in Workers : held[w] = None
    BY <1>1 DEF IInv, StopPhase, HandsMatch
  <2>3. QED
    BY <1>1, <2>1, <2>2, PoolAssumption DEF IInv, EachTaskOnce
<1>2. QED
  BY <1>1, Invariance, PTL
-----------------------------------------------------------------------------
(* No lost signal.  A worker that is about to sleep holds the mutex since   *)
(* it saw the queue empty, so nothing has been queued since.                *)
BlockedSawEmpty == \A w \in Workers : wpc[w] = "popBlock" /\ flag => Empty

SignalInv == BlockedSawEmpty /\ NoSignalIsLost

AwakeWorkers == {w \in Workers : wpc[w] = "popWake" \/ InPop(w)}
AwakeProducers == {p \in Producers : ppc[p] = "pushWake" \/ InPush(p)}

LEMMA CountOneMore ==
  ASSUME NEW S, NEW T, IsFiniteSet(T), NEW x \in T \ S, S \cup {x} \subseteq T
  PROVE  Cardinality(T) >= Cardinality(S) + 1 /\ Cardinality(S) \in Nat
<1>1. IsFiniteSet(S) /\ Cardinality(S) \in Nat
  BY FS_Subset, FS_CardinalityType
<1>2. Cardinality(S \cup {x}) = Cardinality(S) + 1
  BY <1>1, FS_AddElement
<1>3. Cardinality(S \cup {x}) <= Cardinality(T)
  BY FS_Subset
<1>4. Cardinality(T) \in Nat
  BY FS_CardinalityType
<1>5. QED
  BY <1>1, <1>2, <1>3, <1>4

LEMMA CountOneLess ==
  ASSUME NEW S, NEW T, IsFiniteSet(S), IsFiniteSet(T), NEW x, S \ {x} \subseteq T
  PROVE  Cardinality(T) >= Cardinality(S) - 1
<1>1. /\ IsFiniteSet(S \ {x})
      /\ Cardinality(S \ {x}) = IF x \in S THEN Cardinality(S) - 1 ELSE Cardinality(S)
  BY FS_RemoveElement
<1>2. Cardinality(S \ {x}) <= Cardinality(T)
  BY FS_Subset
<1>3. Cardinality(S) \in Nat /\ Cardinality(T) \in Nat
  BY FS_CardinalityType
<1>4. QED
  BY <1>1, <1>2, <1>3

LEMMA AwakeFinite ==
  /\ IsFiniteSet(AwakeWorkers) /\ Cardinality(AwakeWorkers) \in Nat
  /\ IsFiniteSet(AwakeProducers) /\ Cardinality(AwakeProducers) \in Nat
BY PoolAssumption, FS_Subset, FS_CardinalityType DEF AwakeWorkers, AwakeProducers

(* A signal that finds a sleeper makes one more thread awake.               *)
LEMMA NotifyWakesWorker ==
  ASSUME TypeOK, wpc' \in Notify(wpc, "popSleep", "popWake"),
         Asleep(wpc, "popSleep") # {}
  PROVE  Cardinality(AwakeWorkers') >= Cardinality(AwakeWorkers) + 1
<1>1. PICK w \in Asleep(wpc, "popSleep") : wpc' = [wpc EXCEPT ![w] = "popWake"]
  BY DEF Notify
<1>2. w \in Workers /\ wpc[w] = "popSleep" /\ wpc \in [Workers -> WorkerAt]
  BY <1>1 DEF Asleep, TypeOK
<1>3. w \in AwakeWorkers' \ AwakeWorkers /\ AwakeWorkers \cup {w} \subseteq AwakeWorkers'
  BY <1>1, <1>2 DEF AwakeWorkers, InPop
<1>4. IsFiniteSet(AwakeWorkers')
  BY PoolAssumption, FS_Subset DEF AwakeWorkers
<1>5. QED
  BY <1>3, <1>4, CountOneMore

LEMMA NotifyWakesProducer ==
  ASSUME TypeOK, ppc' \in Notify(ppc, "pushSleep", "pushWake"),
         Asleep(ppc, "pushSleep") # {}
  PROVE  Cardinality(AwakeProducers') >= Cardinality(AwakeProducers) + 1
<1>1. PICK p \in Asleep(ppc, "pushSleep") : ppc' = [ppc EXCEPT ![p] = "pushWake"]
  BY DEF Notify
<1>2. p \in Producers /\ ppc[p] = "pushSleep" /\ ppc \in [Producers -> ProducerAt]
  BY <1>1 DEF Asleep, TypeOK
<1>3. p \in AwakeProducers' \ AwakeProducers /\ AwakeProducers \cup {p} \subseteq AwakeProducers'
  BY <1>1, <1>2 DEF AwakeProducers, InPush
<1>4. IsFiniteSet(AwakeProducers')
  BY PoolAssumption, FS_Subset DEF AwakeProducers
<1>5. QED
  BY <1>3, <1>4, CountOneMore

LEMMA BlockedStep == IInv /\ BlockedSawEmpty /\ [Next]_vars => BlockedSawEmpty'
<1> SUFFICES ASSUME IInv, BlockedSawEmpty, [Next]_vars, NEW v \in Workers,
                    wpc'[v] = "popBlock", flag'
             PROVE  Empty'
  BY DEF BlockedSawEmpty
<1> USE PoolAssumption DEF Empty, Backlog, TypeOK, queueVars
<1>0. TypeOK /\ LockOwned
  BY DEF IInv
<1>1. ASSUME NEW w \in Workers, PopTake(w)
      PROVE FALSE
  BY <1>0, <1>1 DEF PopTake, LockOwned, InPop
<1>2. ASSUME NEW w \in Workers, PopTest(w)
      PROVE Empty'
  BY <1>0, <1>2 DEF PopTest, LockOwned, InPop
<1>3. ASSUME NEW p \in Producers, PushEnqueue(p)
      PROVE FALSE
  <2>1. wpc[v] = "popBlock"
    BY <1>0, <1>3, NotifyWorker DEF PushEnqueue
  <2>2. QED
    BY <1>0, <1>3, <2>1 DEF PushEnqueue, LockOwned, InPop, InPush
<1>4. ASSUME UNCHANGED <<log, head>>, flag' => flag, wpc'[v] = "popBlock" => wpc[v] = "popBlock"
      PROVE Empty'
  BY <1>0, <1>4 DEF BlockedSawEmpty
<1>5. ASSUME NEW w \in Workers,
             StartThread(w) \/ ReadIsExit(w) \/ PopLock(w) \/ PopWait(w) \/ PopNull(w) \/ RunTask(w)
      PROVE Empty'
  BY <1>0, <1>4, <1>5 DEF StartThread, ReadIsExit, PopLock, PopWait, PopNull, RunTask
<1>6. CASE (\E p \in Producers : PushLock(p) \/ PushWait(p)) \/ (\E p \in Producers, t \in Tasks : AddTask(p, t))
           \/ SpuriousWakeup \/ StopCall \/ StopperStep \/ UNCHANGED vars
  BY <1>0, <1>4, <1>6 DEF PushLock, PushWait, AddTask, SpuriousWakeup, Asleep,
     StopCall, StopperStep, StopperGoes, DrainReadTail, DrainReadHead, SetExit,
     ClearFlag, NotifyAll, Join, vars
<1>7. QED
  BY <1>1, <1>2, <1>3, <1>5, <1>6 DEF Next, ProducerStep, WorkerStep

(* The steps that cannot lose a signal: no task comes or goes, nobody falls *)
(* asleep and nobody who was awake leaves.                                  *)
LEMMA HarmlessForWorkers ==
  ASSUME TypeOK, QueuedTasksHaveWorkers, UNCHANGED <<log, head>>, flag' => flag,
         wpc' \in [Workers -> WorkerAt],
         \A w \in Workers : /\ wpc'[w] = "popSleep" => wpc[w] = "popSleep"
                            /\ w \in AwakeWorkers => w \in AwakeWorkers'
  PROVE  QueuedTasksHaveWorkers'
<1> SUFFICES ASSUME flag', Asleep(wpc', "popSleep") # {}
             PROVE  Backlog' <= Cardinality(AwakeWorkers')
  BY DEF QueuedTasksHaveWorkers, AwakeWorkers
<1>1. Asleep(wpc, "popSleep") # {} /\ flag
  BY DEF Asleep, TypeOK
<1>2. AwakeWorkers \subseteq AwakeWorkers'
  BY DEF AwakeWorkers
<1>3. IsFiniteSet(AwakeWorkers')
  BY PoolAssumption, FS_Subset DEF AwakeWorkers
<1>4. Cardinality(AwakeWorkers) <= Cardinality(AwakeWorkers') /\ Cardinality(AwakeWorkers') \in Nat
  BY <1>2, <1>3, FS_Subset, FS_CardinalityType
<1>5. Backlog <= Cardinality(AwakeWorkers) /\ Backlog' = Backlog
  BY <1>1 DEF QueuedTasksHaveWorkers, AwakeWorkers, Backlog
<1>6. QED
  BY <1>4, <1>5, AwakeFinite, BacklogType

LEMMA WorkersSignalled == IInv /\ SignalInv /\ [Next]_vars => QueuedTasksHaveWorkers'
<1> SUFFICES ASSUME IInv, SignalInv, [Next]_vars PROVE QueuedTasksHaveWorkers'
  OBVIOUS
<1> USE PoolAssumption DEF queueVars
<1>0. /\ TypeOK /\ TypeOK' /\ LockOwned /\ QueuedTasksHaveWorkers
      /\ wpc \in [Workers -> WorkerAt] /\ wpc' \in [Workers -> WorkerAt]
  BY TypeStep DEF IInv, SignalInv, NoSignalIsLost, TypeOK
<1>1. ASSUME NEW p \in Producers, PushEnqueue(p)
      PROVE  QueuedTasksHaveWorkers'
  <2> SUFFICES ASSUME flag', Asleep(wpc', "popSleep") # {}
               PROVE  Backlog' <= Cardinality(AwakeWorkers')
    BY DEF QueuedTasksHaveWorkers, AwakeWorkers
  <2>1. Backlog' = Backlog + 1
    <3>1. pend[p] \in Tasks
      BY <1>0, <1>1 DEF PushEnqueue, IInv, HandsMatch, TypeOK
    <3>2. Len(log') = Len(log) + 1
      BY <1>0, <1>1, <3>1, AppendEffect DEF PushEnqueue, TypeOK
    <3>3. QED
      BY <1>0, <1>1, <3>2, BacklogType DEF PushEnqueue, Backlog
  <2>2. Asleep(wpc, "popSleep") # {} /\ flag
    BY <1>0, <1>1, NotifyWorker DEF PushEnqueue, Asleep
  <2>3. Backlog <= Cardinality(AwakeWorkers)
    BY <1>0, <2>2 DEF QueuedTasksHaveWorkers, AwakeWorkers
  <2>4. Cardinality(AwakeWorkers') >= Cardinality(AwakeWorkers) + 1
    BY <1>0, <1>1, <2>2, NotifyWakesWorker DEF PushEnqueue
  <2>5. Cardinality(AwakeWorkers') \in Nat
    BY FS_Subset, FS_CardinalityType DEF AwakeWorkers
  <2>6. QED
    BY <1>0, <2>1, <2>3, <2>4, <2>5, AwakeFinite, BacklogType
<1>2. ASSUME NEW w \in Workers, PopTake(w)
      PROVE  QueuedTasksHaveWorkers'
  <2> SUFFICES ASSUME flag', Asleep(wpc', "popSleep") # {}
               PROVE  Backlog' <= Cardinality(AwakeWorkers')
    BY DEF QueuedTasksHaveWorkers, AwakeWorkers
  <2>1. Backlog' = Backlog - 1
    BY <1>0, <1>2, BacklogType DEF PopTake, Backlog
  <2>2. Asleep(wpc, "popSleep") # {} /\ flag
    BY <1>0, <1>2 DEF PopTake, Asleep
  <2>3. Backlog <= Cardinality(AwakeWorkers)
    BY <1>0, <2>2 DEF QueuedTasksHaveWorkers, AwakeWorkers
  <2>4. AwakeWorkers \ {w} \subseteq AwakeWorkers' /\ IsFiniteSet(AwakeWorkers')
    BY <1>0, <1>2, FS_Subset DEF PopTake, AwakeWorkers, InPop
  <2>5. Cardinality(AwakeWorkers') >= Cardinality(AwakeWorkers) - 1
    BY <2>4, AwakeFinite, CountOneLess
  <2>6. QED
    BY <1>0, <2>1, <2>3, <2>4, <2>5, AwakeFinite, BacklogType, FS_CardinalityType
<1>3. ASSUME NEW w \in Workers, PopWait(w)
      PROVE  QueuedTasksHaveWorkers'
  <2> SUFFICES ASSUME flag'
               PROVE  Backlog' <= Cardinality(AwakeWorkers')
    BY DEF QueuedTasksHaveWorkers, AwakeWorkers
  <2>1. Backlog' = 0
    BY <1>3 DEF PopWait, SignalInv, BlockedSawEmpty, Empty, Backlog
  <2>2. Cardinality(AwakeWorkers') \in Nat
    BY FS_Subset, FS_CardinalityType DEF AwakeWorkers
  <2>3. QED
    BY <2>1, <2>2
<1>4. ASSUME NEW w \in Workers, PopNull(w)
      PROVE  QueuedTasksHaveWorkers'
  BY <1>4 DEF PopNull, QueuedTasksHaveWorkers
<1>5. ASSUME NEW w \in Workers, StartThread(w)
      PROVE  QueuedTasksHaveWorkers'
  BY <1>0, <1>5, HarmlessForWorkers DEF StartThread, AwakeWorkers, InPop, IInv, StopPhase
<1>6. ASSUME NEW w \in Workers, ReadIsExit(w) \/ PopLock(w) \/ PopTest(w) \/ RunTask(w)
      PROVE  QueuedTasksHaveWorkers'
  BY <1>0, <1>6, HarmlessForWorkers
     DEF ReadIsExit, PopLock, PopTest, RunTask, AwakeWorkers, InPop
<1>7. CASE SpuriousWakeup
  BY <1>0, <1>7, HarmlessForWorkers DEF SpuriousWakeup, Asleep, AwakeWorkers, InPop
<1>8. CASE NotifyAll
  BY <1>0, <1>8, HarmlessForWorkers DEF NotifyAll, StopperGoes, AwakeWorkers, InPop
<1>9. CASE (\E p \in Producers : PushLock(p) \/ PushWait(p)) \/ (\E p \in Producers, t \in Tasks : AddTask(p, t))
           \/ StopCall \/ DrainReadTail \/ DrainReadHead \/ SetExit \/ ClearFlag \/ Join \/ UNCHANGED vars
  <2>1. UNCHANGED <<log, head, wpc>> /\ (flag' => flag)
    BY <1>9 DEF PushLock, PushWait, AddTask, StopCall, StopperGoes, DrainReadTail,
       DrainReadHead, SetExit, ClearFlag, Join, vars
  <2>2. QED
    BY <1>0, <2>1, HarmlessForWorkers DEF AwakeWorkers, InPop
<1>10. QED
  BY <1>1, <1>2, <1>3, <1>4, <1>5, <1>6, <1>7, <1>8, <1>9
     DEF Next, ProducerStep, WorkerStep, StopperStep

LEMMA HarmlessForProducers ==
  ASSUME TypeOK, FreeSlotsHaveProducers, UNCHANGED <<log, head>>,
         ppc' \in [Producers -> ProducerAt],
         \A p \in Producers : /\ ppc'[p] = "pushSleep" => ppc[p] = "pushSleep"
                              /\ p \in AwakeProducers => p \in AwakeProducers'
  PROVE  FreeSlotsHaveProducers'
<1> SUFFICES ASSUME Asleep(ppc', "pushSleep") # {}
             PROVE  QueueSize - Backlog' <= Cardinality(AwakeProducers')
  BY DEF FreeSlotsHaveProducers, AwakeProducers
<1>1. Asleep(ppc, "pushSleep") # {}
  BY DEF Asleep, TypeOK
<1>2. AwakeProducers \subseteq AwakeProducers'
  BY DEF AwakeProducers
<1>3. IsFiniteSet(AwakeProducers')
  BY PoolAssumption, FS_Subset DEF AwakeProducers
<1>4. Cardinality(AwakeProducers) <= Cardinality(AwakeProducers') /\ Cardinality(AwakeProducers') \in Nat
  BY <1>2, <1>3, FS_Subset, FS_CardinalityType
<1>5. QueueSize - Backlog <= Cardinality(AwakeProducers) /\ Backlog' = Backlog
  BY <1>1 DEF FreeSlotsHaveProducers, AwakeProducers, Backlog
<1>6. QED
  BY <1>4, <1>5, AwakeFinite, BacklogType, PoolAssumption

LEMMA ProducersSignalled == IInv /\ SignalInv /\ [Next]_vars => FreeSlotsHaveProducers'
<1> SUFFICES ASSUME IInv, SignalInv, [Next]_vars PROVE FreeSlotsHaveProducers'
  OBVIOUS
<1> USE PoolAssumption DEF queueVars
<1>0. /\ TypeOK /\ TypeOK' /\ FreeSlotsHaveProducers
      /\ ppc \in [Producers -> ProducerAt] /\ ppc' \in [Producers -> ProducerAt]
  BY TypeStep DEF IInv, SignalInv, NoSignalIsLost, TypeOK
<1>1. ASSUME NEW w \in Workers, PopTake(w)
      PROVE  FreeSlotsHaveProducers'
  <2> SUFFICES ASSUME Asleep(ppc', "pushSleep") # {}
               PROVE  QueueSize - Backlog' <= Cardinality(AwakeProducers')
    BY DEF FreeSlotsHaveProducers, AwakeProducers
  <2>1. Backlog' = Backlog - 1
    BY <1>0, <1>1, BacklogType DEF PopTake, Backlog
  <2>2. Asleep(ppc, "pushSleep") # {}
    BY <1>0, <1>1, NotifyProducer DEF PopTake, Asleep
  <2>3. QueueSize - Backlog <= Cardinality(AwakeProducers)
    BY <1>0, <2>2 DEF FreeSlotsHaveProducers, AwakeProducers
  <2>4. Cardinality(AwakeProducers') >= Cardinality(AwakeProducers) + 1
    BY <1>0, <1>1, <2>2, NotifyWakesProducer DEF PopTake
  <2>5. Cardinality(AwakeProducers') \in Nat
    BY FS_Subset, FS_CardinalityType DEF AwakeProducers
  <2>6. QED
    BY <1>0, <2>1, <2>3, <2>4, <2>5, AwakeFinite, BacklogType
<1>2. ASSUME NEW p \in Producers, PushEnqueue(p)
      PROVE  FreeSlotsHaveProducers'
  <2> SUFFICES ASSUME Asleep(ppc', "pushSleep") # {}
               PROVE  QueueSize - Backlog' <= Cardinality(AwakeProducers')
    BY DEF FreeSlotsHaveProducers, AwakeProducers
  <2>1. Backlog' = Backlog + 1
    <3>1. pend[p] \in Tasks
      BY <1>0, <1>2 DEF PushEnqueue, IInv, HandsMatch, TypeOK
    <3>2. Len(log') = Len(log) + 1
      BY <1>0, <1>2, <3>1, AppendEffect DEF PushEnqueue, TypeOK
    <3>3. QED
      BY <1>0, <1>2, <3>2, BacklogType DEF PushEnqueue, Backlog
  <2>2. Asleep(ppc, "pushSleep") # {}
    BY <1>0, <1>2 DEF PushEnqueue, Asleep
  <2>3. QueueSize - Backlog <= Cardinality(AwakeProducers)
    BY <1>0, <2>2 DEF FreeSlotsHaveProducers, AwakeProducers
  <2>4. AwakeProducers \ {p} \subseteq AwakeProducers' /\ IsFiniteSet(AwakeProducers')
    BY <1>0, <1>2, FS_Subset DEF PushEnqueue, AwakeProducers, InPush
  <2>5. Cardinality(AwakeProducers') >= Cardinality(AwakeProducers) - 1
    BY <2>4, AwakeFinite, CountOneLess
  <2>6. QED
    BY <1>0, <2>1, <2>3, <2>4, <2>5, AwakeFinite, BacklogType, FS_CardinalityType
<1>3. ASSUME NEW p \in Producers, PushWait(p)
      PROVE  FreeSlotsHaveProducers'
  <2>1. QueueSize - Backlog' = 0
    BY <1>0, <1>3, BacklogType DEF PushWait, Full, Backlog
  <2>2. Cardinality(AwakeProducers') \in Nat
    BY FS_Subset, FS_CardinalityType DEF AwakeProducers
  <2>3. QED
    BY <2>1, <2>2 DEF FreeSlotsHaveProducers, AwakeProducers
<1>4. ASSUME NEW p \in Producers, PushLock(p) \/ \E t \in Tasks : AddTask(p, t)
      PROVE  FreeSlotsHaveProducers'
  BY <1>0, <1>4, HarmlessForProducers DEF PushLock, AddTask, AwakeProducers, InPush
<1>5. CASE SpuriousWakeup
  BY <1>0, <1>5, HarmlessForProducers DEF SpuriousWakeup, Asleep, AwakeProducers, InPush
<1>6. CASE UNCHANGED <<log, head, ppc>>
  BY <1>0, <1>6, HarmlessForProducers DEF AwakeProducers, InPush
<1>7. QED
  BY <1>1, <1>2, <1>3, <1>4, <1>5, <1>6
     DEF Next, ProducerStep, WorkerStep, StartThread, PopLock, ReadIsExit, PopTest,
         PopWait, PopNull, RunTask, StopCall, StopperStep, StopperGoes,
         DrainReadTail, DrainReadHead, SetExit, ClearFlag, NotifyAll, Join, vars

(* No signal is lost in either direction, for any number of threads: one    *)
(* Notify for each Push and each Pop is enough, because who is woken tests  *)
(* the queue again under the mutex.                                         *)
THEOREM SignalsSuffice == Spec => []NoSignalIsLost
<1>1. Init => SignalInv
  BY DEF Init, SignalInv, BlockedSawEmpty, NoSignalIsLost, QueuedTasksHaveWorkers,
     FreeSlotsHaveProducers, Asleep
<1>2. IInv /\ SignalInv /\ [Next]_vars => SignalInv'
  BY BlockedStep, WorkersSignalled, ProducersSignalled DEF SignalInv, NoSignalIsLost
<1>3. SignalInv => NoSignalIsLost
  BY DEF SignalInv
<1>4. QED
  BY <1>1, <1>2, <1>3, Invariance, PTL DEF Spec
-----------------------------------------------------------------------------
LEMMA RefineStep == IInv /\ [Next]_vars => [Pool!Next]_(Pool!poolVars)
<1> SUFFICES ASSUME IInv, [Next]_vars
             PROVE  Pool!Next \/ UNCHANGED <<log, head, flag, held, done>>
  BY DEF Pool!poolVars
<1> USE PoolAssumption
<1>0. TypeOK
  BY DEF IInv
<1>1. ASSUME NEW p \in Producers, PushEnqueue(p)
      PROVE  Pool!Next
  <2>1. pend[p] \in Tasks /\ ~Pool!Pushed(pend[p])
    BY <1>0, <1>1 DEF PushEnqueue, IInv, HandsMatch, TasksDistinct, TypeOK, Pool!Pushed
  <2>2. Pool!Backlog < QueueSize
    BY <1>0, <1>1, BacklogType
       DEF PushEnqueue, Full, IInv, QueueBounded, Backlog, Pool!Backlog
  <2>3. Pool!Submit(pend[p])
    BY <1>1, <2>1, <2>2 DEF PushEnqueue, Pool!Submit
  <2>4. QED
    BY <2>1, <2>3 DEF Pool!Next
<1>2. ASSUME NEW w \in Workers, PopTake(w)
      PROVE  Pool!Next
  <2>1. held[w] = None
    BY <1>2 DEF PopTake, IInv, HandsMatch
  <2>2. Pool!Backlog > 0
    BY <1>0, <1>2, BacklogType DEF PopTake, IInv, FrontExists, Backlog, Empty, Pool!Backlog
  <2>3. Pool!Take(w)
    BY <1>2, <2>1, <2>2 DEF PopTake, Pool!Take
  <2>4. QED
    BY <2>3 DEF Pool!Next
<1>3. ASSUME NEW w \in Workers, RunTask(w)
      PROVE  Pool!Next
  <2>1. Pool!Finish(w)
    BY <1>3 DEF RunTask, IInv, HandsMatch, Pool!Finish, queueVars
  <2>2. QED
    BY <2>1 DEF Pool!Next
<1>4. CASE ClearFlag
  BY <1>4 DEF ClearFlag, StopperGoes, Pool!Next, Pool!Close
<1>5. CASE UNCHANGED <<log, head, flag, held, done>>
  BY <1>5
<1>6. QED
  BY <1>1, <1>2, <1>3, <1>4, <1>5
     DEF Next, ProducerStep, WorkerStep, StartThread, PopLock, ReadIsExit,
         PopTest, PopWait, PopNull, PushLock, PushWait, AddTask,
         SpuriousWakeup, StopCall, StopperStep, StopperGoes, DrainReadTail,
         DrainReadHead, SetExit, NotifyAll, Join, queueVars, vars

(* The pool with its mutex, its condition variables and its threads is the  *)
(* abstract pool the servers rely on: tasks leave in the order they were    *)
(* queued, once each, and none leaves after _flag was cleared.              *)
THEOREM Refinement == Spec => PoolSpec
<1>1. Init => Pool!Init
  BY DEF Init, Pool!Init
<1>2. QED
  BY <1>1, RefineStep, Invariance, PTL DEF Spec, PoolSpec, Pool!Spec
=============================================================================
