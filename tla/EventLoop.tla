------------------------------ MODULE EventLoop ------------------------------
(***************************************************************************)
(* EventLoop with the Acceptor, the TcpConnections and the sockets it      *)
(* owns, at the grain of one kernel call or one callback per step.  The    *)
(* server that hands out the callbacks is in Server.tla, which extends     *)
(* this module: OnMessage's call of AddTask and the threads that call      *)
(* RunInLoop are its actions.                                              *)
(*                                                                         *)
(* A client connects once, so a client stands for its connection and its   *)
(* TcpConnection.  It sends lines in two halves; half a line is what a     *)
(* read may find.                                                          *)
(***************************************************************************)
EXTENDS Naturals, Sequences, FiniteSets

CONSTANTS
  Clients,
  MaxLines,   \* how many lines a client sends (bound)
  NumFds,     \* how many descriptors accept() may have in use at once
  None

ASSUME LoopAssumption ==
  /\ MaxLines \in Nat /\ NumFds \in Nat
  /\ None \notin Clients

Fds == 1..NumFds
NoFd == 0       \* what a failed accept() leaves in a TcpConnection
Queries == Clients \X (1..MaxLines)   \* the k-th line of a client

VARIABLES
  (* the clients and the kernel *)
  peer,      \* where a client's connection is
  sent,      \* how many half lines the client has written
  ended,     \* what it has sent after them
  got,       \* the answers written to its socket
  (* the server *)
  fdOf,      \* the descriptor of a client's TcpConnection
  conns,     \* EventLoop's _conns; the same descriptors are in the epoll set
  refs,      \* copies of a TcpConnection's shared_ptr outside _conns
  consumed,  \* how many half lines ReadLine has taken from the socket
  signalled, \* whether the eventfd's counter is positive
  pending,   \* _pengings_callback; a functor holds a raw pointer and an answer
  todo,      \* the functors DoPengingFunctors has swapped out
  ran,       \* the functors that have run
  events,    \* the events epoll_wait returned that are not handled yet
  cur,       \* the connection whose message is being handled
  lpc,       \* where the loop thread is
  looping,   \* _is_looping
  up         \* whether the process is alive

socketVars == <<peer, sent, ended>>
loopVars == <<peer, sent, ended, got, fdOf, conns, refs, consumed, signalled,
              pending, todo, ran, events, cur, lpc, looping, up>>

LoopAt == {"start", "test", "wait", "dispatch", "receive", "push", "swap",
           "functors", "ended"}

LoopInit ==
  /\ peer = [c \in Clients |-> "away"]
  /\ sent = [c \in Clients |-> 0] /\ consumed = [c \in Clients |-> 0]
  /\ ended = [c \in Clients |-> "no"]
  /\ got = [c \in Clients |-> {}]
  /\ fdOf = [c \in Clients |-> NoFd]
  /\ conns = [fd \in Fds |-> None]
  /\ refs = [c \in Clients |-> 0]
  /\ signalled = TRUE                     \* eventfd(10, 0)
  /\ pending = <<>> /\ todo = <<>> /\ ran = {}
  /\ events = {} /\ cur = None
  /\ lpc = "start" /\ looping = FALSE /\ up = TRUE

InMap(c) == \E fd \in Fds : conns[fd] = c
(* The TcpConnection exists, and its Socket's descriptor is open, as long   *)
(* as a shared_ptr to it does.                                              *)
Alive(c) == InMap(c) \/ refs[c] > 0
(* Mutant: HandleMessage closes the descriptor itself.                      *)
FreeFdsClosedEarly == {fd \in Fds : conns[fd] = None}

FreeFds == {fd \in Fds : \A c \in Clients : Alive(c) => fdOf[c] # fd}
Waiting == {c \in Clients : peer[c] = "waiting"}
Unread(c) == sent[c] - consumed[c]
-----------------------------------------------------------------------------
(* The clients: outside the program, and free to do any of this.            *)
Connect(c) ==
  /\ peer[c] = "away"
  /\ peer' = [peer EXCEPT ![c] = "waiting"]
  /\ UNCHANGED <<sent, ended>>

SendHalfLine(c) ==
  /\ peer[c] # "away" /\ ended[c] = "no"
  /\ sent[c] < 2 * MaxLines
  /\ sent' = [sent EXCEPT ![c] = @ + 1]
  /\ UNCHANGED <<peer, ended>>

HangUp(c) ==
  /\ peer[c] # "away" /\ ended[c] = "no"
  /\ \E how \in {"fin", "rst"} : ended' = [ended EXCEPT ![c] = how]
  /\ UNCHANGED <<peer, sent>>

ClientStep ==
  /\ \E c \in Clients : Connect(c) \/ SendHalfLine(c) \/ HangUp(c)
  /\ UNCHANGED <<got, fdOf, conns, refs, consumed, signalled, pending, todo,
                 ran, events, cur, lpc, looping, up>>
-----------------------------------------------------------------------------
(* Loop and WaitEpollFd.  epoll_wait is level triggered and reports every   *)
(* ready descriptor; with none ready it returns after five seconds.         *)
Start ==
  /\ lpc = "start"
  /\ looping' = TRUE /\ lpc' = "test"
  /\ UNCHANGED <<events, cur>>

(* Mutant: Loop does not test _is_looping again.                            *)
TestLoopingOnce ==
  /\ lpc = "test"
  /\ lpc' = "wait"
  /\ UNCHANGED <<looping, events, cur>>

TestLooping ==
  /\ lpc = "test"
  /\ lpc' = IF looping THEN "wait" ELSE "ended"
  /\ UNCHANGED <<looping, events, cur>>

Accepts == [kind : {"accept"}]
Wakes == [kind : {"wake"}]
Message(fd, c) == [kind |-> "message", fd |-> fd, of |-> c]
Readable(c) == Unread(c) > 0 \/ ended[c] # "no"
Ready ==
  (IF Waiting = {} THEN {} ELSE Accepts) \cup (IF signalled THEN Wakes ELSE {})
    \cup {Message(fd, conns[fd]) : fd \in {f \in Fds : conns[f] # None /\ Readable(conns[f])}}

EpollWait ==
  /\ lpc = "wait"
  /\ events' = Ready
  /\ lpc' = IF Ready = {} THEN "test" ELSE "dispatch"
  /\ UNCHANGED <<looping, cur>>

LoopControl ==
  /\ Start \/ TestLooping \/ EpollWait
  /\ UNCHANGED <<socketVars, got, fdOf, conns, refs, consumed, signalled,
                 pending, todo, ran, up>>

(* The dispatch loop takes the events in the order epoll_wait gave them,    *)
(* which may be any.                                                        *)
Handle(e) == lpc = "dispatch" /\ e \in events /\ events' = events \ {e}
After(rest) == IF rest = {} THEN "test" ELSE "dispatch"
-----------------------------------------------------------------------------
(* HandleNewConnection.  accept() gives the lowest free descriptor; without *)
(* one it fails, and _conns gets an entry under -1 that no event ever names. *)
HandleNewConnection ==
  /\ \E e \in Accepts : Handle(e)
  /\ lpc' = After(events')
  /\ \/ \E fd \in FreeFds, c \in Waiting :
          /\ \A f \in FreeFds : fd <= f
          /\ peer' = [peer EXCEPT ![c] = "accepted"]
          /\ fdOf' = [fdOf EXCEPT ![c] = fd]
          /\ conns' = [conns EXCEPT ![fd] = c]
     \/ FreeFds = {} /\ UNCHANGED <<peer, fdOf, conns>>
  /\ UNCHANGED <<sent, ended, got, refs, consumed, signalled, pending, todo,
                 ran, cur, looping, up>>

(* HandleMessage: IsClosed() peeks.  End of file closes the connection.  A  *)
(* reset is not closure: Receive() then returns "", and erase() throws out  *)
(* of OnMessage and of Loop.                                                *)
HandleMessage(fd) ==
  /\ \E c \in Clients : Handle(Message(fd, c))
  /\ LET c == conns[fd]
         closed == c # None /\ Unread(c) = 0 /\ ended[c] = "fin"
         reset == c # None /\ Unread(c) = 0 /\ ended[c] = "rst"
     IN /\ conns' = IF closed THEN [conns EXCEPT ![fd] = None] ELSE conns
        /\ up' = ~reset
        /\ IF c = None \/ closed \/ reset THEN cur' = None /\ lpc' = After(events')
           ELSE cur' = c /\ lpc' = "receive"
  /\ UNCHANGED <<socketVars, got, fdOf, refs, consumed, signalled, pending,
                 todo, ran, looping>>

(* Receive() and ReadLine: the loop blocks until the socket has a whole     *)
(* line, or its peer has hung up after part of one.  The recv() that        *)
(* reports a reset clears it: the next one reports end of file.             *)
LineReady(c) == Unread(c) >= 2
ReadLine ==
  /\ lpc = "receive"
  /\ \/ /\ LineReady(cur)
        /\ consumed' = [consumed EXCEPT ![cur] = @ + 2]
        /\ UNCHANGED ended
     \/ /\ ~LineReady(cur) /\ ended[cur] # "no"
        /\ consumed' = [consumed EXCEPT ![cur] = sent[cur]]
        /\ ended' = [ended EXCEPT ![cur] = "fin"]
  /\ lpc' = "push"
  /\ UNCHANGED <<peer, sent, got, fdOf, conns, refs, signalled, pending, todo,
                 ran, events, cur, looping, up>>

LinesRead(c) == (consumed[c] + 1) \div 2
CurrentQuery == <<cur, LinesRead(cur)>>

(* OnMessage's task has been queued with its copy of the shared_ptr.        *)
MessageHandled ==
  /\ lpc = "push"
  /\ refs' = [refs EXCEPT ![cur] = @ + 1]
  /\ cur' = None
  /\ lpc' = After(events)
  /\ UNCHANGED <<socketVars, got, fdOf, conns, consumed, signalled, pending,
                 todo, ran, events, looping, up>>
-----------------------------------------------------------------------------
(* HandleRead, then DoPengingFunctors.                                      *)
HandleRead ==
  /\ \E e \in Wakes : Handle(e)
  /\ signalled' = FALSE
  /\ lpc' = "swap"
  /\ UNCHANGED <<socketVars, got, fdOf, conns, refs, consumed, pending, todo,
                 ran, cur, looping, up>>

(* Mutant: one functor per wakeup.                                          *)
SwapOnePending ==
  /\ lpc = "swap"
  /\ todo' = IF pending = <<>> THEN <<>> ELSE <<Head(pending)>>
  /\ pending' = IF pending = <<>> THEN <<>> ELSE Tail(pending)
  /\ lpc' = IF pending = <<>> THEN After(events) ELSE "functors"
  /\ UNCHANGED <<socketVars, got, fdOf, conns, refs, consumed, signalled, ran,
                 events, cur, looping, up>>

(* Mutant: the functors are copied out and stay where they were.            *)
CopyPending ==
  /\ lpc = "swap"
  /\ todo' = pending
  /\ lpc' = IF pending = <<>> THEN After(events) ELSE "functors"
  /\ UNCHANGED <<socketVars, got, fdOf, conns, refs, consumed, signalled,
                 pending, ran, events, cur, looping, up>>

SwapPending ==
  /\ lpc = "swap"
  /\ todo' = pending /\ pending' = <<>>
  /\ lpc' = IF pending = <<>> THEN After(events) ELSE "functors"
  /\ UNCHANGED <<socketVars, got, fdOf, conns, refs, consumed, signalled, ran,
                 events, cur, looping, up>>

(* Send through a raw pointer.  A destroyed TcpConnection's memory may still *)
(* hold its descriptor, which may be closed or another connection's by now, *)
(* may hold another TcpConnection, or may be anything.  Writing to a peer   *)
(* that is gone may raise SIGPIPE.                                          *)
WrittenTo(c) == IF Alive(c) THEN {c} ELSE {d \in Clients : Alive(d)}
RunFunctor ==
  /\ lpc = "functors"
  /\ todo' = Tail(todo)
  /\ ran' = ran \cup {Head(todo)}
  /\ LET c == Head(todo)[1] IN
     \/ /\ \E d \in WrittenTo(c) : got' = [got EXCEPT ![d] = @ \cup {Head(todo)}]
        /\ UNCHANGED up
     \/ /\ ~Alive(c) \/ ended[c] # "no"
        /\ up' \in BOOLEAN
        /\ UNCHANGED got
  /\ lpc' = IF Len(todo) = 1 THEN After(events) ELSE "functors"
  /\ UNCHANGED <<socketVars, fdOf, conns, refs, consumed, signalled, pending,
                 events, cur, looping>>

LoopStep ==
  \/ LoopControl \/ HandleNewConnection \/ ReadLine \/ HandleRead
  \/ SwapPending \/ RunFunctor
  \/ \E fd \in Fds : HandleMessage(fd)
-----------------------------------------------------------------------------
(* RunInLoop, by another thread: the functor is queued under _mutex, then   *)
(* the eventfd is written.                                                  *)
(* Mutant: the newest functor goes first.                                   *)
PushPendingFirst(f) ==
  /\ pending' = <<f>> \o pending
  /\ UNCHANGED <<socketVars, got, fdOf, conns, refs, consumed, signalled, todo,
                 ran, events, cur, lpc, looping, up>>

PushPending(f) ==
  /\ pending' = Append(pending, f)
  /\ UNCHANGED <<socketVars, got, fdOf, conns, refs, consumed, signalled, todo,
                 ran, events, cur, lpc, looping, up>>

(* Mutant: RunInLoop does not wake the loop.                                *)
WakeNobody == UNCHANGED loopVars

WakeUp ==
  /\ signalled' = TRUE
  /\ UNCHANGED <<socketVars, got, fdOf, conns, refs, consumed, pending, todo,
                 ran, events, cur, lpc, looping, up>>

(* The end of a task that held a connection.                                *)
(* Mutant: the functor's owner keeps its copy.                              *)
ReleaseNothing(c) == UNCHANGED loopVars

Release(c) ==
  /\ refs' = [refs EXCEPT ![c] = @ - 1]
  /\ UNCHANGED <<socketVars, got, fdOf, conns, consumed, signalled, pending,
                 todo, ran, events, cur, lpc, looping, up>>

(* An uncaught exception in any thread.                                     *)
Terminate ==
  /\ up' = FALSE
  /\ UNCHANGED <<socketVars, got, fdOf, conns, refs, consumed, signalled,
                 pending, todo, ran, events, cur, lpc, looping>>

(* Unloop sets the flag and does not wake the loop.                         *)
Unloop ==
  /\ looping' = FALSE
  /\ UNCHANGED <<socketVars, got, fdOf, conns, refs, consumed, signalled,
                 pending, todo, ran, events, cur, lpc, up>>
-----------------------------------------------------------------------------
LoopTypeOK ==
  /\ peer \in [Clients -> {"away", "waiting", "accepted"}]
  /\ sent \in [Clients -> 0..2 * MaxLines] /\ consumed \in [Clients -> 0..2 * MaxLines]
  /\ ended \in [Clients -> {"no", "fin", "rst"}]
  /\ got \in [Clients -> SUBSET Queries]
  /\ fdOf \in [Clients -> Fds \cup {NoFd}]
  /\ conns \in [Fds -> Clients \cup {None}]
  /\ refs \in [Clients -> Nat]
  /\ signalled \in BOOLEAN
  /\ pending \in Seq(Queries) /\ todo \in Seq(Queries) /\ ran \subseteq Queries
  /\ events \subseteq Accepts \cup Wakes \cup {Message(fd, c) : fd \in Fds, c \in Clients}
  /\ cur \in Clients \cup {None}
  /\ lpc \in LoopAt /\ looping \in BOOLEAN /\ up \in BOOLEAN

(* Every event still to be handled is about the connection that is in       *)
(* _conns under its descriptor: an event handled before it in the batch, or *)
(* a descriptor that another thread closed and accept() gave out again,     *)
(* never makes the loop read the wrong socket or find none ("连接不存在").    *)
EventsAreFresh ==
  \A e \in events : e.kind = "message" => conns[e.fd] = e.of

(* _conns names a connection under its own descriptor, whose number nobody  *)
(* else has while it is open.                                               *)
DescriptorsAreUnique ==
  /\ \A fd \in Fds : conns[fd] # None => fdOf[conns[fd]] = fd
  /\ \A c, d \in Clients : Alive(c) /\ Alive(d) /\ fdOf[c] = fdOf[d] => c = d

(* A descriptor stands for one connection wherever it is kept: in an event, *)
(* in _conns, in a task.                                                    *)
DescriptorsAreCurrent == EventsAreFresh /\ DescriptorsAreUnique
=============================================================================
