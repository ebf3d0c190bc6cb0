-------------------------------- MODULE Server --------------------------------
(***************************************************************************)
(* KeyServer and WebServer: the event loop of EventLoop.tla, the thread    *)
(* pool as TaskPool.tla promises it, and the callbacks and tasks that join *)
(* them.  The loop reads a line and queues a task with a copy of the       *)
(* connection's shared_ptr; a worker looks the answer up and, in the web   *)
(* server, posts a functor that writes it to the loop and drops its copy.  *)
(***************************************************************************)
EXTENDS EventLoop

CONSTANTS
  Workers, QueueSize, FlagReads,  \* as in TaskPool
  Service                         \* which of the two servers: "web" or "key"

ASSUME ServerAssumption ==
  /\ Service \in {"web", "key"}
  /\ QueueSize \in Nat
  /\ FlagReads \in SUBSET BOOLEAN /\ FlagReads # {}
  /\ None \notin Queries

VARIABLES
  log, head, flag, held, done,    \* the pool, as in TaskPool
  wpc,                            \* where each worker is in its task's Process
  spc                             \* where the thread that calls Stop is

Pool == INSTANCE TaskPool WITH Tasks <- Queries

poolVars == <<log, head, flag, held, done>>
vars == <<loopVars, poolVars, wpc, spc>>

WorkerAt == {"idle", "query", "post", "wake", "release"}
StopperAt == {"serving", "drain", "close", "join", "unloop", "stopped"}

Init ==
  /\ LoopInit
  /\ Pool!Init
  /\ wpc = [w \in Workers |-> "idle"]
  /\ spc = "serving"

Goes(w, from, to) == wpc[w] = from /\ wpc' = [wpc EXCEPT ![w] = to]
-----------------------------------------------------------------------------
(* OnMessage: AddTask blocks the loop while the queue is full.              *)
OnMessage ==
  /\ MessageHandled
  /\ Pool!Submit(CurrentQuery)
  /\ UNCHANGED <<wpc, spc>>

(* Mutant: a lock of OnMessage's keeps the workers from the queue.          *)
TakeTaskLocked(w) ==
  /\ lpc # "push"
  /\ Pool!Take(w)
  /\ Goes(w, "idle", "query")
  /\ UNCHANGED <<loopVars, spc>>

TakeTask(w) ==
  /\ Pool!Take(w)
  /\ Goes(w, "idle", "query")
  /\ UNCHANGED <<loopVars, spc>>

(* Process: the redis lookup, the query itself and the setex that follows.  *)
Process(w) ==
  /\ Goes(w, "query", IF Service = "web" THEN "post" ELSE "release")
  /\ UNCHANGED <<loopVars, poolVars, spc>>

(* ... any of which may throw: redis may be away, and the edit distance     *)
(* KeyRecommander computes for a candidate word reads before its string.    *)
ProcessThrows(w) ==
  /\ wpc[w] = "query"
  /\ Terminate
  /\ UNCHANGED <<poolVars, wpc, spc>>

SendInLoop(w) ==
  /\ Goes(w, "post", "wake")
  /\ PushPending(held[w])
  /\ UNCHANGED <<poolVars, spc>>

WakeLoop(w) ==
  /\ Goes(w, "wake", "release")
  /\ WakeUp
  /\ UNCHANGED <<poolVars, spc>>

FinishTask(w) ==
  /\ Goes(w, "release", "idle")
  /\ Release(held[w][1])
  /\ Pool!Finish(w)
  /\ UNCHANGED spc
-----------------------------------------------------------------------------
(* Stop, from another thread: the pool first, then the loop.                *)
StopperGoes(from, to) == spc = from /\ spc' = to /\ UNCHANGED wpc

StopCall == StopperGoes("serving", "drain") /\ UNCHANGED <<loopVars, poolVars>>

StopDrain ==
  /\ Pool!Backlog = 0
  /\ StopperGoes("drain", "close")
  /\ UNCHANGED <<loopVars, poolVars>>

StopClose == StopperGoes("close", "join") /\ Pool!Close /\ UNCHANGED loopVars

StopJoin ==
  /\ \A w \in Workers : wpc[w] = "idle"
  /\ StopperGoes("join", "unloop")
  /\ UNCHANGED <<loopVars, poolVars>>

StopLoop == StopperGoes("unloop", "stopped") /\ Unloop /\ UNCHANGED poolVars

StopperStep == StopDrain \/ StopClose \/ StopJoin \/ StopLoop
-----------------------------------------------------------------------------
ServerLoopStep ==
  \/ OnMessage
  \/ LoopStep /\ UNCHANGED <<poolVars, wpc, spc>>

WorkerStep(w) ==
  TakeTask(w) \/ Process(w) \/ SendInLoop(w) \/ WakeLoop(w) \/ FinishTask(w)

Next ==
  /\ up
  /\ \/ ServerLoopStep
     \/ \E w \in Workers : WorkerStep(w) \/ ProcessThrows(w)
     \/ StopCall \/ StopperStep
     \/ ClientStep /\ UNCHANGED <<poolVars, wpc, spc>>

(* The loop, every worker and a thread that has called Stop go on while     *)
(* they can.  Clients owe nothing.                                          *)
Fairness ==
  /\ WF_vars(up /\ ServerLoopStep)
  /\ \A w \in Workers : WF_vars(up /\ WorkerStep(w))
  /\ WF_vars(up /\ StopperStep)

Spec == Init /\ [][Next]_vars
FairSpec == Spec /\ Fairness
-----------------------------------------------------------------------------
TypeOK ==
  /\ LoopTypeOK
  /\ log \in Seq(Queries) /\ head \in 0..Len(log) /\ flag \in BOOLEAN
  /\ held \in [Workers -> Queries \cup {None}] /\ done \subseteq Queries
  /\ wpc \in [Workers -> WorkerAt] /\ spc \in StopperAt

(* No wakeup is lost: while functors are pending the eventfd is readable,   *)
(* or a worker is about to write it, or the loop is about to swap.          *)
PendingIsAnnounced ==
  pending # <<>> =>
    signalled \/ lpc = "swap" \/ \E w \in Workers : wpc[w] = "wake"

InHand(c) == {q \in Queries : q[1] = c /\ \E w \in Workers : held[w] = q}
Queued(c) == {i \in (head + 1)..Len(log) : log[i][1] = c}

(* A connection lives as long as a query of its is queued or in a worker's  *)
(* hands, and no longer unless the loop still has it.                       *)
RefsAreExact ==
  /\ TypeOK
  /\ \A c \in Clients : refs[c] = Cardinality(Queued(c)) + Cardinality(InHand(c))

(* Every line the loop read became one query, in the order of the lines.    *)
LinesBecomeQueries ==
  \A c \in Clients :
    LET lines == IF lpc = "push" /\ cur = c THEN LinesRead(c) - 1 ELSE LinesRead(c)
        asked == {i \in 1..Len(log) : log[i][1] = c}
    IN /\ {log[i][2] : i \in asked} = 1..lines
       /\ \A i, j \in asked : i < j => log[i][2] < log[j][2]

Posted == pending \o todo

(* The web server's functor for a query is queued once, after the query was *)
(* taken and before it has run, and every query done is somewhere on that   *)
(* way: none is dropped between RunInLoop and the swap.                     *)
AnswersAreConserved ==
  /\ \A i, j \in 1..Len(Posted) : Posted[i] = Posted[j] => i = j
  /\ \A i \in 1..Len(Posted) : Posted[i] \notin ran
  /\ Service = "web" => \A q \in done : q \in ran \/ \E i \in 1..Len(Posted) : Posted[i] = q

(* From line to query to answer nothing is lost, invented or doubled.       *)
QueriesAreConserved == LinesBecomeQueries /\ AnswersAreConserved

(* With one worker the answers come in the order in which the loop queued   *)
(* the queries, and so in the order of a client's lines.                    *)
InOrder ==
  \A i, j \in 1..Len(log) : i < j /\ log[j] \in ran => log[i] \in ran

(* What is sent to a client is the answer to its own query.                 *)
AnswerGoesToAsker == \A c \in Clients : \A q \in got[c] : q[1] = c
-----------------------------------------------------------------------------
(* What may legitimately stop the service.                                  *)
Stuck == lpc = "receive" /\ ~LineReady(cur) /\ ended[cur] = "no"
OutOfService == ~up \/ spc # "serving" \/ Stuck

(* A line sent whole is answered, unless its sender hangs up, there is no   *)
(* descriptor for it, the server is stopped or has died, or it waits for    *)
(* the rest of somebody's line.                                             *)
LinesAreAnswered ==
  \A c \in Clients : \A k \in 1..MaxLines :
    (peer[c] = "accepted" /\ sent[c] >= 2 * k)
      ~> (<<c, k>> \in got[c] \/ ended[c] # "no" \/ OutOfService)

(* A query that was queued is processed by a worker.                        *)
LinesAreProcessed ==
  \A q \in Queries : Pool!Pushed(q) ~> (q \in done \/ OutOfService)

(* The loop does not stay in AddTask: workers never wait for the loop.      *)
PushReturns == lpc = "push" ~> (lpc # "push" \/ ~up \/ ~flag)

(* After Stop the loop ends, unless it waits for the rest of a line, waits  *)
(* for a slot in a queue nobody empties any more, or entered Loop() after   *)
(* Unloop().                                                                *)
LoopEnds == spc = "stopped" ~> (lpc = "ended" \/ ~up \/ Stuck \/ lpc = "push" \/ looping)
=============================================================================
