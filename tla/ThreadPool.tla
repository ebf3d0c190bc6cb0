----------------------------- MODULE ThreadPool -----------------------------
(***************************************************************************)
(* ThreadPool, TaskQueue, Thread, MutexLock and Condition, at the grain    *)
(* at which two threads can interfere.  Code under TaskQueue's mutex is    *)
(* one step unless it reads _flag, which Wakeup writes without the mutex.  *)
(* ThreadPool::Stop calls Empty() and writes _isExit and _flag without it. *)
(***************************************************************************)
EXTENDS Naturals, Sequences, FiniteSets

CONSTANTS
  Tasks, Workers, QueueSize, FlagReads, None,  \* as in TaskPool
  Producers,      \* the threads that call AddTask (a server has one: its loop)
  Free,           \* the owner of an unlocked mutex
  CreateMayFail   \* whether pthread_create may return an error

ASSUME PoolAssumption ==
  /\ QueueSize \in Nat
  /\ IsFiniteSet(Workers) /\ IsFiniteSet(Producers)
  /\ FlagReads \in SUBSET BOOLEAN /\ FlagReads # {}
  /\ None \notin Tasks
  /\ Producers \cap Workers = {}
  /\ Free \notin Producers \cup Workers
  /\ CreateMayFail \in BOOLEAN

VARIABLES
  log, head,   \* TaskQueue's _que: every task pushed, and how many were popped
  flag,        \* TaskQueue's _flag
  isExit,      \* ThreadPool's _isExit
  mutex,       \* the owner of TaskQueue's _mutex
  toStart,     \* the Thread objects ThreadPool::Start has not started yet
  running,     \* the Thread objects whose _is_running is true
  ppc, pend,   \* where each producer is in AddTask, and the task it brings
  wpc, held,   \* where each worker is in ThreadFunc, and its taskcb
  spc,         \* where the thread that calls Stop is
  tailSeen,    \* what Stop's Empty() read of the queue's tail
  done         \* the tasks that have been executed

queueVars == <<log, head, flag, mutex>>
vars == <<log, head, flag, isExit, mutex, toStart, running, ppc, pend, wpc,
          held, spc, tailSeen, done>>

ProducerAt == {"idle", "pushLock", "pushTest", "pushSleep", "pushWake"}
WorkerAt == {"unborn", "loop", "popLock", "popTest", "popBlock", "popSleep",
             "popWake", "popTake", "run", "exited"}
StopperAt == {"serving", "drainTail", "drainHead", "setExit", "clearFlag",
              "broadcast", "join", "stopped"}

Backlog == Len(log) - head
Empty == Backlog = 0
Full == Backlog = QueueSize
Pushed(t) == \E i \in 1..Len(log) : log[i] = t

Asleep(pc, label) == {t \in DOMAIN pc : pc[t] = label}

(* pthread_cond_signal: one of the threads asleep, if any, is woken.       *)
Notify(pc, asleep, woken) ==
  IF Asleep(pc, asleep) = {} THEN {pc}
  ELSE {[pc EXCEPT ![t] = woken] : t \in Asleep(pc, asleep)}

Init ==
  /\ log = <<>> /\ head = 0
  /\ flag \in FlagReads
  /\ isExit = FALSE
  /\ mutex = Free
  /\ toStart = Workers /\ running = {}
  /\ ppc = [p \in Producers |-> "idle"]
  /\ pend = [p \in Producers |-> None]
  /\ wpc = [w \in Workers |-> "unborn"]
  /\ held = [w \in Workers |-> None]
  /\ spc = "serving" /\ tailSeen = 0
  /\ done = {}
-----------------------------------------------------------------------------
(* ThreadPool::Start.  A pthread_create that fails is reported and ignored. *)
StartThread(w) ==
  /\ w \in toStart
  /\ toStart' = toStart \ {w}
  /\ \/ /\ running' = running \cup {w}
        /\ wpc' = [wpc EXCEPT ![w] = "loop"]
     \/ /\ CreateMayFail
        /\ UNCHANGED <<running, wpc>>
  /\ UNCHANGED <<queueVars, isExit, ppc, pend, held, spc, tailSeen, done>>
-----------------------------------------------------------------------------
(* AddTask and TaskQueue::Push, by a producer.  The servers add tasks only  *)
(* from their event loop, which they enter after ThreadPool::Start.         *)
AddTask(p, t) ==
  /\ toStart = {}
  /\ ppc[p] = "idle"
  /\ ~Pushed(t) /\ \A q \in Producers : pend[q] # t
  /\ ppc' = [ppc EXCEPT ![p] = "pushLock"]
  /\ pend' = [pend EXCEPT ![p] = t]
  /\ UNCHANGED <<queueVars, isExit, toStart, running, wpc, held, spc,
                 tailSeen, done>>

(* Mutant: Push does not lock the mutex.                                    *)
PushLockUnguarded(p) ==
  /\ ppc[p] \in {"pushLock", "pushWake"}
  /\ mutex' = p
  /\ ppc' = [ppc EXCEPT ![p] = "pushTest"]
  /\ UNCHANGED <<log, head, flag, isExit, toStart, running, pend, wpc, held,
                 spc, tailSeen, done>>

PushLock(p) ==
  /\ ppc[p] \in {"pushLock", "pushWake"}
  /\ mutex = Free
  /\ mutex' = p
  /\ ppc' = [ppc EXCEPT ![p] = "pushTest"]
  /\ UNCHANGED <<log, head, flag, isExit, toStart, running, pend, wpc, held,
                 spc, tailSeen, done>>

PushWait(p) ==
  /\ ppc[p] = "pushTest"
  /\ Full
  /\ mutex' = Free
  /\ ppc' = [ppc EXCEPT ![p] = "pushSleep"]
  /\ UNCHANGED <<log, head, flag, isExit, toStart, running, pend, wpc, held,
                 spc, tailSeen, done>>

(* Mutant: Push does not signal _not_empty.                                 *)
PushEnqueueSilent(p) ==
  /\ ppc[p] = "pushTest"
  /\ ~Full
  /\ log' = Append(log, pend[p])
  /\ mutex' = Free
  /\ ppc' = [ppc EXCEPT ![p] = "idle"]
  /\ pend' = [pend EXCEPT ![p] = None]
  /\ UNCHANGED <<head, flag, isExit, toStart, running, wpc, held, spc, tailSeen, done>>

PushEnqueue(p) ==
  /\ ppc[p] = "pushTest"
  /\ ~Full
  /\ log' = Append(log, pend[p])
  /\ wpc' \in Notify(wpc, "popSleep", "popWake")
  /\ mutex' = Free
  /\ ppc' = [ppc EXCEPT ![p] = "idle"]
  /\ pend' = [pend EXCEPT ![p] = None]
  /\ UNCHANGED <<head, flag, isExit, toStart, running, held, spc, tailSeen, done>>
-----------------------------------------------------------------------------
(* ThreadFunc, GetTask and TaskQueue::Pop, by a worker.                     *)
(* Mutant: ThreadFunc loops whatever _isExit says.                          *)
ReadIsExitForever(w) ==
  /\ wpc[w] = "loop"
  /\ wpc' = [wpc EXCEPT ![w] = "popLock"]
  /\ UNCHANGED <<queueVars, isExit, toStart, running, ppc, pend, held, spc,
                 tailSeen, done>>

ReadIsExit(w) ==
  /\ wpc[w] = "loop"
  /\ wpc' = [wpc EXCEPT ![w] = IF isExit THEN "exited" ELSE "popLock"]
  /\ UNCHANGED <<queueVars, isExit, toStart, running, ppc, pend, held, spc,
                 tailSeen, done>>

(* Mutant: Pop tests Empty() in an if instead of a while.                   *)
PopLockNoRetest(w) ==
  /\ wpc[w] \in {"popLock", "popWake"}
  /\ mutex = Free
  /\ mutex' = w
  /\ wpc' = [wpc EXCEPT ![w] = IF @ = "popWake" THEN "popTake" ELSE "popTest"]
  /\ UNCHANGED <<log, head, flag, isExit, toStart, running, ppc, pend, held,
                 spc, tailSeen, done>>

PopLock(w) ==
  /\ wpc[w] \in {"popLock", "popWake"}
  /\ mutex = Free
  /\ mutex' = w
  /\ wpc' = [wpc EXCEPT ![w] = "popTest"]
  /\ UNCHANGED <<log, head, flag, isExit, toStart, running, ppc, pend, held,
                 spc, tailSeen, done>>

PopTest(w) ==
  /\ wpc[w] = "popTest"
  /\ wpc' = [wpc EXCEPT ![w] = IF flag /\ Empty THEN "popBlock" ELSE "popTake"]
  /\ UNCHANGED <<queueVars, isExit, toStart, running, ppc, pend, held, spc,
                 tailSeen, done>>

PopWait(w) ==
  /\ wpc[w] = "popBlock"
  /\ wpc' = [wpc EXCEPT ![w] = "popSleep"]
  /\ mutex' = Free
  /\ UNCHANGED <<log, head, flag, isExit, toStart, running, ppc, pend, held,
                 spc, tailSeen, done>>

(* Mutant: Pop copies the front element and does not pop it.                *)
PopTakeNoPop(w) ==
  /\ wpc[w] = "popTake"
  /\ flag
  /\ held' = [held EXCEPT ![w] = log[head + 1]]
  /\ ppc' \in Notify(ppc, "pushSleep", "pushWake")
  /\ wpc' = [wpc EXCEPT ![w] = "run"]
  /\ mutex' = Free
  /\ UNCHANGED <<log, head, flag, isExit, toStart, running, pend, spc, tailSeen, done>>

(* Mutant: Pop does not signal _not_full.                                   *)
PopTakeSilent(w) ==
  /\ wpc[w] = "popTake"
  /\ flag
  /\ head' = head + 1
  /\ held' = [held EXCEPT ![w] = log[head']]
  /\ wpc' = [wpc EXCEPT ![w] = "run"]
  /\ mutex' = Free
  /\ UNCHANGED <<log, flag, isExit, toStart, running, ppc, pend, spc, tailSeen, done>>

(* Mutant: Pop pops whatever is there, open or not.                         *)
PopTakeClosed(w) ==
  /\ wpc[w] = "popTake"
  /\ flag \/ ~Empty
  /\ head' = head + 1
  /\ held' = [held EXCEPT ![w] = log[head']]
  /\ ppc' \in Notify(ppc, "pushSleep", "pushWake")
  /\ wpc' = [wpc EXCEPT ![w] = "run"]
  /\ mutex' = Free
  /\ UNCHANGED <<log, flag, isExit, toStart, running, pend, spc, tailSeen, done>>

(* The second read of _flag: front() and pop(), and a signal to one        *)
(* producer.                                                               *)
PopTake(w) ==
  /\ wpc[w] = "popTake"
  /\ flag
  /\ head' = head + 1
  /\ held' = [held EXCEPT ![w] = log[head']]
  /\ ppc' \in Notify(ppc, "pushSleep", "pushWake")
  /\ wpc' = [wpc EXCEPT ![w] = "run"]
  /\ mutex' = Free
  /\ UNCHANGED <<log, flag, isExit, toStart, running, pend, spc, tailSeen, done>>

(* Mutant: ThreadFunc calls the task Pop returned without testing it.       *)
PopNullCalled(w) ==
  /\ wpc[w] = "popTake"
  /\ ~flag
  /\ wpc' = [wpc EXCEPT ![w] = "run"]
  /\ mutex' = Free
  /\ UNCHANGED <<log, head, flag, isExit, toStart, running, ppc, pend, held,
                 spc, tailSeen, done>>

(* ... or a null task, which ThreadFunc does not call.                     *)
PopNull(w) ==
  /\ wpc[w] = "popTake"
  /\ ~flag
  /\ wpc' = [wpc EXCEPT ![w] = "loop"]
  /\ mutex' = Free
  /\ UNCHANGED <<log, head, flag, isExit, toStart, running, ppc, pend, held,
                 spc, tailSeen, done>>

RunTask(w) ==
  /\ wpc[w] = "run"
  /\ done' = done \cup {held[w]}
  /\ held' = [held EXCEPT ![w] = None]
  /\ wpc' = [wpc EXCEPT ![w] = "loop"]
  /\ UNCHANGED <<queueVars, isExit, toStart, running, ppc, pend, spc, tailSeen>>

(* pthread_cond_wait may return without a signal.                          *)
SpuriousWakeup ==
  /\ \/ \E w \in Asleep(wpc, "popSleep") :
          wpc' = [wpc EXCEPT ![w] = "popWake"] /\ UNCHANGED ppc
     \/ \E p \in Asleep(ppc, "pushSleep") :
          ppc' = [ppc EXCEPT ![p] = "pushWake"] /\ UNCHANGED wpc
  /\ UNCHANGED <<queueVars, isExit, toStart, running, pend, held, spc,
                 tailSeen, done>>
-----------------------------------------------------------------------------
(* ThreadPool::Stop, called from a thread other than the loop's while the   *)
(* loop may still be adding tasks: the servers stop the pool before the     *)
(* loop.  Empty() runs without the mutex and loads the queue's tail and its *)
(* head one after the other.                                                *)
StopperGoes(from, to) ==
  /\ spc = from
  /\ spc' = to
  /\ UNCHANGED <<log, head, mutex, toStart, ppc, pend, held, done>>

StopCall ==
  /\ toStart = {}
  /\ StopperGoes("serving", "drainTail")
  /\ UNCHANGED <<flag, isExit, running, wpc, tailSeen>>

DrainReadTail ==
  /\ StopperGoes("drainTail", "drainHead")
  /\ tailSeen' = Len(log)
  /\ UNCHANGED <<flag, isExit, running, wpc>>

DrainReadHead ==
  /\ StopperGoes("drainHead", IF head = tailSeen THEN "setExit" ELSE "drainTail")
  /\ UNCHANGED <<flag, isExit, running, wpc, tailSeen>>

SetExit ==
  /\ StopperGoes("setExit", "clearFlag")
  /\ isExit' = TRUE
  /\ UNCHANGED <<flag, running, wpc, tailSeen>>

ClearFlag ==
  /\ StopperGoes("clearFlag", "broadcast")
  /\ flag' = FALSE
  /\ UNCHANGED <<isExit, running, wpc, tailSeen>>

NotifyAll ==
  /\ StopperGoes("broadcast", "join")
  /\ wpc' = [w \in Workers |-> IF wpc[w] = "popSleep" THEN "popWake" ELSE wpc[w]]
  /\ UNCHANGED <<flag, isExit, running, tailSeen>>

(* Mutant: Stop does not wait for the threads.                              *)
JoinNobody ==
  /\ StopperGoes("join", "stopped")
  /\ running' = {}
  /\ UNCHANGED <<flag, isExit, wpc, tailSeen>>

Join ==
  /\ \A w \in running : wpc[w] = "exited"
  /\ StopperGoes("join", "stopped")
  /\ running' = {}
  /\ UNCHANGED <<flag, isExit, wpc, tailSeen>>
-----------------------------------------------------------------------------
ProducerStep(p) == PushWait(p) \/ PushEnqueue(p)
WorkerStep(w) ==
  \/ ReadIsExit(w) \/ PopTest(w) \/ PopWait(w) \/ PopTake(w) \/ PopNull(w)
  \/ RunTask(w)
StopperStep ==
  \/ DrainReadTail \/ DrainReadHead \/ SetExit \/ ClearFlag \/ NotifyAll \/ Join

Next ==
  \/ \E w \in Workers : StartThread(w) \/ PopLock(w) \/ WorkerStep(w)
  \/ \E p \in Producers : PushLock(p) \/ ProducerStep(p)
  \/ \E p \in Producers, t \in Tasks : AddTask(p, t)
  \/ SpuriousWakeup
  \/ StopCall \/ StopperStep

(* Every thread that can run does, and a thread that finds the mutex free   *)
(* again and again gets it in the end.  Nobody is obliged to add a task, to *)
(* stop the pool or to be woken without a signal.                           *)
Fairness ==
  /\ \A w \in Workers : WF_vars(StartThread(w) \/ WorkerStep(w)) /\ SF_vars(PopLock(w))
  /\ \A p \in Producers : WF_vars(ProducerStep(p)) /\ SF_vars(PushLock(p))
  /\ WF_vars(StopperStep)

Spec == Init /\ [][Next]_vars
FairSpec == Spec /\ Fairness
-----------------------------------------------------------------------------
TypeOK ==
  /\ log \in Seq(Tasks) /\ head \in 0..Len(log)
  /\ flag \in BOOLEAN /\ isExit \in BOOLEAN
  /\ mutex \in Producers \cup Workers \cup {Free}
  /\ toStart \subseteq Workers /\ running \subseteq Workers
  /\ ppc \in [Producers -> ProducerAt] /\ pend \in [Producers -> Tasks \cup {None}]
  /\ wpc \in [Workers -> WorkerAt] /\ held \in [Workers -> Tasks \cup {None}]
  /\ spc \in StopperAt /\ tailSeen \in 0..Len(log)
  /\ done \subseteq Tasks

InPush(p) == ppc[p] = "pushTest"
InPop(w) == wpc[w] \in {"popTest", "popBlock", "popTake"}

(* The code between Lock and Unlock of TaskQueue's mutex is run by one      *)
(* thread at a time, the one that owns it: Condition::Wait gives the mutex  *)
(* up and takes it again before Push or Pop look at the queue.              *)
LockOwned ==
  /\ \A p \in Producers : InPush(p) <=> mutex = p
  /\ \A w \in Workers : InPop(w) <=> mutex = w

(* Push never lets the queue grow beyond _queue_size, whichever producers   *)
(* are woken and in whatever order they get the mutex back.                 *)
QueueBounded == Backlog <= QueueSize

(* Pop never calls front() on an empty deque: a worker that leaves the wait *)
(* loop finds a task, unless Wakeup cleared _flag, even when it was woken   *)
(* for a task that another worker has taken.                                *)
FrontExists == \A w \in Workers : wpc[w] = "popTake" /\ flag => ~Empty

(* Neither a push too many nor a pop too many ever happens to the deque,    *)
(* although several threads may be woken for one slot or one task.          *)
QueueIsSafe == QueueBounded /\ FrontExists

(* Every task popped is in exactly one worker's hands or has been executed, *)
(* never both and never twice; a task still queued has not been executed.   *)
EachTaskOnce ==
  /\ \A i \in 1..head : log[i] \in done \/ \E w \in Workers : held[w] = log[i]
  /\ \A i \in (head + 1)..Len(log) :
       log[i] \notin done /\ \A w \in Workers : held[w] # log[i]
  /\ \A w \in Workers : held[w] # None => held[w] \notin done
  /\ \A v, w \in Workers : held[v] = held[w] /\ held[v] # None => v = w

(* No signal is lost: while a worker sleeps on _not_empty and the queue is  *)
(* open, every queued task has a worker that is awake in Pop to fetch it.   *)
QueuedTasksHaveWorkers ==
  flag /\ Asleep(wpc, "popSleep") # {} =>
    Backlog <= Cardinality({w \in Workers : wpc[w] = "popWake" \/ InPop(w)})

(* While a producer sleeps on _not_full, every free slot has a producer     *)
(* that is awake in Push to fill it.                                        *)
FreeSlotsHaveProducers ==
  Asleep(ppc, "pushSleep") # {} =>
    QueueSize - Backlog <= Cardinality({p \in Producers : ppc[p] = "pushWake" \/ InPush(p)})

(* One Notify per Push and per Pop is enough in both directions.            *)
NoSignalIsLost == QueuedTasksHaveWorkers /\ FreeSlotsHaveProducers

(* If no task was pushed after Stop's last look at the queue, Stop does not *)
(* return before every task has been executed, although that look was not   *)
(* taken under the mutex and workers may still have been busy.              *)
StopCompletesWork ==
  spc = "stopped" /\ Len(log) = tailSeen => \A i \in 1..Len(log) : log[i] \in done

(* Every task that was queued is executed, unless the pool is stopped or no *)
(* thread could be created: Tasks being finite, it is enough that whatever  *)
(* is queued is always caught up with.                                      *)
QueuedTasksRun ==
  []<>(~flag \/ running = {} \/ \A t \in Tasks : Pushed(t) => t \in done)

(* A worker that tested the queue before Wakeup cleared _flag and went to   *)
(* sleep after its NotifyAll is not woken by Stop.                          *)
MissedBroadcast == spc = "join" /\ Asleep(wpc, "popSleep") # {}

(* Once the queue looked empty Stop returns, or the broadcast was missed:   *)
(* nothing else can keep Join waiting.                                      *)
StopReturns == spc = "setExit" ~> spc = "stopped" \/ MissedBroadcast

(* The pool is a TaskPool.                                                  *)
Pool == INSTANCE TaskPool
PoolSpec == Pool!Spec
=============================================================================
