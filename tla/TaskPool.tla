------------------------------ MODULE TaskPool ------------------------------
(***************************************************************************)
(* What ThreadPool promises the servers, without its lock, its condition   *)
(* variables or its threads' program counters: tasks are taken once each,  *)
(* in the order AddTask queued them, from a queue that never holds more    *)
(* than QueueSize of them, and none is taken once the queue is closed.     *)
(* ThreadPool.tla implements this module.  The queue is kept as the log of *)
(* everything ever pushed with the number of tasks popped.                 *)
(***************************************************************************)
EXTENDS Naturals, Sequences

CONSTANTS
  Tasks,      \* the closures given to AddTask; no closure is given twice
  Workers,    \* the pool's threads
  QueueSize,  \* TaskQueue's _queue_size
  FlagReads,  \* what the byte of _flag, which no constructor writes, may read as
  None        \* an empty std::function

VARIABLES
  log,   \* every task ever pushed, in order
  head,  \* how many of them have been popped
  flag,  \* TaskQueue's _flag
  held,  \* the task each worker is executing
  done   \* the tasks that have been executed

poolVars == <<log, head, flag, held, done>>

Backlog == Len(log) - head
Pushed(t) == \E i \in 1..Len(log) : log[i] = t

Init ==
  /\ log = <<>>
  /\ head = 0
  /\ flag \in FlagReads
  /\ held = [w \in Workers |-> None]
  /\ done = {}

Submit(t) ==
  /\ ~Pushed(t)
  /\ Backlog < QueueSize
  /\ log' = Append(log, t)
  /\ UNCHANGED <<head, flag, held, done>>

Take(w) ==
  /\ flag
  /\ held[w] = None
  /\ Backlog > 0
  /\ head' = head + 1
  /\ held' = [held EXCEPT ![w] = log[head']]
  /\ UNCHANGED <<log, flag, done>>

Finish(w) ==
  /\ held[w] # None
  /\ done' = done \cup {held[w]}
  /\ held' = [held EXCEPT ![w] = None]
  /\ UNCHANGED <<log, head, flag>>

Close ==
  /\ flag' = FALSE
  /\ UNCHANGED <<log, head, held, done>>

Next ==
  \/ \E t \in Tasks : Submit(t)
  \/ \E w \in Workers : Take(w) \/ Finish(w)
  \/ Close

Spec == Init /\ [][Next]_poolVars
=============================================================================
