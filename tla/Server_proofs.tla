----------------------------- MODULE Server_proofs -----------------------------
(***************************************************************************)
(* Proofs about Server, for either service, any clients and workers, any   *)
(* number of lines, descriptors and slots, and any reading of _flag.  The  *)
(* invariant is proved in parts, each from the parts before it: the loop's *)
(* own state, the descriptors, the pool's tasks, the references to the     *)
(* connections, the lines, and the answers on their way to the loop.       *)
(***************************************************************************)
EXTENDS Server, FiniteSetTheorems, TLAPS

(* The connection whose message is being handled is in _conns until the     *)
(* message is handled; a message that is to be handled will find something  *)
(* in the socket, and each line is read off whole, unless it is the last.   *)
LoopInv ==
  /\ lpc \in {"receive", "push"} => cur \in Clients /\ InMap(cur)
  /\ lpc = "push" => consumed[cur] > 0
  /\ lpc = "receive" => Unread(cur) > 0
  /\ lpc = "receive" => \A e \in events : e.kind = "message" => e.of # cur
  /\ \A e \in events : e.kind = "message" => Readable(e.of)
  /\ \A c \in Clients :
       /\ consumed[c] <= sent[c]
       /\ consumed[c] % 2 = 1 => consumed[c] = sent[c] /\ ended[c] # "no"
  /\ todo # <<>> <=> lpc = "functors"

OnlyAcceptedAlive == \A c \in Clients : Alive(c) => peer[c] = "accepted"

(* A task is in one place: in the queue, with a worker, or done.            *)
Popped(q) == \E i \in 1..head : log[i] = q
InHands(q) == \E w \in Workers : held[w] = q
TaskInv ==
  /\ \A i, j \in 1..Len(log) : log[i] = log[j] => i = j
  /\ \A w \in Workers : wpc[w] = "idle" <=> held[w] = None
  /\ \A w \in Workers : held[w] # None => Popped(held[w]) /\ held[w] \notin done
  /\ \A v, w \in Workers : held[v] = held[w] /\ held[v] # None => v = w
  /\ \A q \in done : Popped(q)
  /\ \A i \in 1..head : log[i] \in done \/ InHands(log[i])

(* RefsAreExact, with refs as the function it is.                           *)
RefsInv ==
  refs = [c \in Clients |-> Cardinality(Queued(c)) + Cardinality(InHand(c))]

(* LinesBecomeQueries, element by element.                                  *)
Lines(c) == IF lpc = "push" /\ cur = c THEN LinesRead(c) - 1 ELSE LinesRead(c)
LinesInv ==
  \A c \in Clients :
    /\ \A i \in 1..Len(log) : log[i][1] = c => log[i][2] \in 1..Lines(c)
    /\ \A k \in 1..Lines(c) : \E i \in 1..Len(log) : log[i][1] = c /\ log[i][2] = k
    /\ \A i, j \in 1..Len(log) :
         log[i][1] = c /\ log[j][1] = c /\ i < j => log[i][2] < log[j][2]

(* A functor is on its way from the post to the run.                        *)
Among(q, s) == \E i \in 1..Len(s) : s[i] = q
Answered(q) == q \in ran \/ Among(q, todo) \/ Among(q, pending)
AnswerInv ==
  /\ \A i, j \in 1..Len(pending) : pending[i] = pending[j] => i = j
  /\ \A i, j \in 1..Len(todo) : todo[i] = todo[j] => i = j
  /\ \A i \in 1..Len(pending) : ~Among(pending[i], todo) /\ pending[i] \notin ran
  /\ \A i \in 1..Len(todo) : todo[i] \notin ran
  /\ \A q \in Queries : Answered(q) => Popped(q)
  /\ \A w \in Workers : wpc[w] \in {"query", "post"} => ~Answered(held[w])
  /\ Service = "web" =>
       /\ \A w \in Workers : wpc[w] \in {"wake", "release"} => Answered(held[w])
       /\ \A q \in done : Answered(q)
  /\ Service = "key" => \A w \in Workers : wpc[w] \notin {"post", "wake"}

(* With one worker a query is posted, swapped out and run after the ones    *)
(* queued before it.                                                        *)
OrderInv ==
  /\ InOrder
  /\ \A a \in 1..Len(todo) : \A i, j \in 1..Len(log) :
       log[j] = todo[a] /\ i < j =>
         log[i] \in ran \/ \E b \in 1..(a - 1) : todo[b] = log[i]
  /\ \A a \in 1..Len(pending) : \A i, j \in 1..Len(log) :
       log[j] = pending[a] /\ i < j =>
         log[i] \in ran \/ Among(log[i], todo) \/ \E b \in 1..(a - 1) : pending[b] = log[i]

IInv ==
  /\ TypeOK /\ LoopInv /\ OnlyAcceptedAlive /\ DescriptorsAreCurrent
  /\ TaskInv /\ RefsInv /\ LinesInv /\ AnswerInv /\ PendingIsAnnounced
-----------------------------------------------------------------------------
LEMMA AppendEffect ==
  ASSUME NEW S, NEW s \in Seq(S), NEW e \in S
  PROVE  /\ Append(s, e) \in Seq(S)
         /\ Len(Append(s, e)) = Len(s) + 1
         /\ \A i \in 1..Len(s) : Append(s, e)[i] = s[i]
         /\ Append(s, e)[Len(s) + 1] = e
OBVIOUS

LEMMA ConcatEffect ==
  ASSUME NEW S, NEW s \in Seq(S), NEW t \in Seq(S)
  PROVE  /\ Len(s \o t) = Len(s) + Len(t)
         /\ \A i \in 1..(Len(s) + Len(t)) :
              (s \o t)[i] = IF i <= Len(s) THEN s[i] ELSE t[i - Len(s)]
OBVIOUS

LEMMA TailEffect ==
  ASSUME NEW S, NEW s \in Seq(S), s # <<>>
  PROVE  /\ Tail(s) \in Seq(S) /\ Len(s) > 0 /\ Len(Tail(s)) = Len(s) - 1
         /\ \A i \in 1..Len(Tail(s)) : Tail(s)[i] = s[i + 1]
         /\ Head(s) = s[1] /\ Head(s) \in S
OBVIOUS

LEMMA TailEmpty ==
  ASSUME NEW S, NEW s \in Seq(S), s # <<>> PROVE Tail(s) = <<>> <=> Len(s) = 1
<1>1. Tail(s) \in Seq(S) /\ Len(s) \in Nat /\ Len(Tail(s)) = Len(s) - 1
  BY TailEffect
<1>2. PICK rest \in Seq(S) : rest = Tail(s)
  BY <1>1
<1>3. rest = <<>> <=> Len(rest) = 0
  OBVIOUS
<1>4. QED
  BY <1>1, <1>2, <1>3

(* The steps of Next, each with what its component leaves to the others.    *)
Others == UNCHANGED <<poolVars, wpc, spc>>
LEMMA NextCases ==
  ASSUME [Next]_vars
  PROVE  \/ LoopControl /\ Others
         \/ HandleNewConnection /\ Others
         \/ \E fd \in Fds : HandleMessage(fd) /\ Others
         \/ ReadLine /\ Others
         \/ OnMessage
         \/ HandleRead /\ Others
         \/ SwapPending /\ Others
         \/ RunFunctor /\ Others
         \/ \E w \in Workers :
              \/ TakeTask(w) \/ Process(w) \/ SendInLoop(w) \/ WakeLoop(w)
              \/ FinishTask(w) \/ ProcessThrows(w)
         \/ StopCall \/ StopperStep
         \/ ClientStep /\ Others
         \/ UNCHANGED vars
BY DEF Next, ServerLoopStep, LoopStep, WorkerStep, Others
-----------------------------------------------------------------------------
(* The references.                                                          *)
LEMMA CountOneMore ==
  ASSUME NEW S, NEW x, IsFiniteSet(S), x \notin S
  PROVE  IsFiniteSet(S \cup {x}) /\ Cardinality(S \cup {x}) = Cardinality(S) + 1
BY FS_AddElement

LEMMA CountOneLess ==
  ASSUME NEW S, NEW x, IsFiniteSet(S), x \in S
  PROVE  /\ IsFiniteSet(S \ {x}) /\ Cardinality(S \ {x}) = Cardinality(S) - 1
         /\ Cardinality(S) \in Nat /\ Cardinality(S) > 0
<1>1. IsFiniteSet(S \ {x}) /\ Cardinality(S \ {x}) = Cardinality(S) - 1
  BY FS_RemoveElement
<1>2. Cardinality(S) \in Nat /\ Cardinality(S \ {x}) \in Nat
  BY <1>1, FS_CardinalityType
<1>3. QED
  BY <1>1, <1>2

LEMMA CountsAreFinite ==
  ASSUME TypeOK, TaskInv, NEW c \in Clients
  PROVE  /\ IsFiniteSet(Queued(c)) /\ Cardinality(Queued(c)) \in Nat
         /\ IsFiniteSet(InHand(c)) /\ Cardinality(InHand(c)) \in Nat
<1>1. head \in Nat /\ Len(log) \in Nat /\ head <= Len(log)
  BY DEF TypeOK
<1>2. IsFiniteSet(Queued(c))
  <2>1. IsFiniteSet((head + 1)..Len(log))
    BY <1>1, FS_Interval
  <2>2. Queued(c) \in SUBSET ((head + 1)..Len(log))
    BY DEF Queued
  <2>3. QED
    BY <2>1, <2>2, FS_Subset
<1>3. IsFiniteSet(InHand(c))
  <2> DEFINE T == {log[i] : i \in 1..head}
             f == [i \in 1..head |-> log[i]]
  <2>1. IsFiniteSet(1..head)
    BY <1>1, FS_Interval
  <2>2. f \in Surjection(1..head, T)
    BY DEF Surjection
  <2>3. IsFiniteSet(T)
    BY <2>1, <2>2, FS_Surjection
  <2>4. InHand(c) \in SUBSET T
    <3>1. ASSUME NEW q \in InHand(c) PROVE q \in T
      <4>1. q \in Queries /\ \E w \in Workers : held[w] = q
        BY DEF InHand
      <4>2. q # None
        BY <4>1, ServerAssumption
      <4>3. QED
        BY <4>1, <4>2 DEF TaskInv, Popped
    <3>2. QED
      BY <3>1
  <2>5. QED
    BY <2>3, <2>4, FS_Subset
<1>4. QED
  BY <1>2, <1>3, FS_CardinalityType

(* A worker's task keeps its connection's TcpConnection.                    *)
LEMMA HeldIsReferenced ==
  ASSUME TypeOK, TaskInv, RefsInv, NEW w \in Workers, held[w] # None
  PROVE  /\ held[w] \in Queries /\ held[w][1] \in Clients
         /\ held[w] \in InHand(held[w][1])
         /\ refs[held[w][1]] \in Nat /\ refs[held[w][1]] > 0
<1> DEFINE c == held[w][1]
<1>1. held[w] \in Queries /\ c \in Clients
  BY DEF TypeOK, Queries
<1>2. held[w] \in InHand(c)
  BY <1>1 DEF InHand
<1> HIDE DEF c
<1>3. /\ Cardinality(InHand(c)) \in Nat /\ Cardinality(InHand(c)) > 0
      /\ Cardinality(Queued(c)) \in Nat
  BY <1>1, <1>2, CountsAreFinite, CountOneLess
<1>4. refs[c] = Cardinality(Queued(c)) + Cardinality(InHand(c))
  BY <1>1 DEF RefsInv
<1>5. QED
  BY <1>1, <1>2, <1>3, <1>4 DEF c
-----------------------------------------------------------------------------
(* Types.                                                                   *)
AllEvents == Accepts \cup Wakes \cup {Message(fd, c) : fd \in Fds, c \in Clients}

LEMMA LoopTypes ==
  LoopTypeOK <=>
    /\ peer \in [Clients -> {"away", "waiting", "accepted"}]
    /\ sent \in [Clients -> 0..2 * MaxLines] /\ consumed \in [Clients -> 0..2 * MaxLines]
    /\ ended \in [Clients -> {"no", "fin", "rst"}]
    /\ got \in [Clients -> SUBSET Queries]
    /\ fdOf \in [Clients -> Fds \cup {NoFd}]
    /\ conns \in [Fds -> Clients \cup {None}]
    /\ refs \in [Clients -> Nat]
    /\ signalled \in BOOLEAN
    /\ pending \in Seq(Queries) /\ todo \in Seq(Queries) /\ ran \subseteq Queries
    /\ events \subseteq AllEvents
    /\ cur \in Clients \cup {None}
    /\ lpc \in LoopAt /\ looping \in BOOLEAN /\ up \in BOOLEAN
BY DEF LoopTypeOK, AllEvents

LEMMA FlagTypes ==
  TypeOK => /\ signalled \in BOOLEAN /\ looping \in BOOLEAN
            /\ up \in BOOLEAN /\ flag \in BOOLEAN
BY DEF TypeOK, LoopTypeOK

LEMMA MessageFields ==
  ASSUME NEW e \in AllEvents
  PROVE  /\ e.kind = "message" =>
              e.fd \in Fds /\ e.of \in Clients /\ e = Message(e.fd, e.of)
         /\ e \in Accepts => e.kind = "accept"
         /\ e \in Wakes => e.kind = "wake"
BY DEF AllEvents, Accepts, Wakes, Message

LEMMA LinesType ==
  ASSUME TypeOK, NEW c \in Clients
  PROVE  /\ sent[c] \in Nat /\ consumed[c] \in Nat
         /\ sent[c] <= 2 * MaxLines /\ consumed[c] <= 2 * MaxLines /\ MaxLines \in Nat
         /\ LinesRead(c) \in 0..MaxLines
         /\ consumed[c] > 0 => LinesRead(c) > 0
<1>1. sent[c] \in 0..2 * MaxLines /\ consumed[c] \in 0..2 * MaxLines /\ MaxLines \in Nat
  BY LoopAssumption DEF TypeOK, LoopTypeOK
<1>2. QED
  BY <1>1 DEF LinesRead

LEMMA CurrentQueryTyped ==
  ASSUME TypeOK, LoopInv, lpc = "push"
  PROVE  cur \in Clients /\ CurrentQuery \in Queries
<1>1. cur \in Clients
  BY DEF LoopInv
<1>2. QED
  BY <1>1, LinesType DEF CurrentQuery, Queries, LoopInv

LEMMA ReadyTyped ==
  ASSUME TypeOK
  PROVE  /\ Ready \subseteq AllEvents
         /\ \A e \in Ready : e.kind = "message" => Readable(e.of) /\ conns[e.fd] = e.of
<1> DEFINE M == {Message(fd, conns[fd]) : fd \in {f \in Fds : conns[f] # None /\ Readable(conns[f])}}
<1>1. ASSUME NEW e \in M
      PROVE  e \in AllEvents /\ Readable(e.of) /\ conns[e.fd] = e.of
  <2>1. PICK fd \in Fds : conns[fd] # None /\ Readable(conns[fd]) /\ e = Message(fd, conns[fd])
    BY <1>1
  <2>2. conns[fd] \in Clients
    BY <2>1 DEF TypeOK, LoopTypeOK
  <2>3. QED
    BY <2>1, <2>2 DEF AllEvents, Message
<1> HIDE DEF M
<1>2. Ready \subseteq Accepts \cup Wakes \cup M
  BY DEF Ready, M
<1>3. QED
  BY <1>1, <1>2, MessageFields DEF AllEvents, Accepts, Wakes

LEMMA LoopControlTypes ==
  ASSUME TypeOK, LoopControl
  PROVE  LoopTypeOK'
<1>1. /\ peer' = peer /\ sent' = sent /\ ended' = ended /\ got' = got /\ fdOf' = fdOf
      /\ conns' = conns /\ refs' = refs /\ consumed' = consumed /\ signalled' = signalled
      /\ pending' = pending /\ todo' = todo /\ ran' = ran /\ up' = up /\ cur' = cur
  BY DEF LoopControl, socketVars, Start, TestLooping, EpollWait
<1>2. lpc' \in LoopAt /\ looping' \in BOOLEAN
  <2>1. lpc' \in LoopAt
    BY DEF LoopControl, Start, TestLooping, EpollWait, LoopAt
  <2>2. looping' = TRUE \/ looping' = looping
    BY DEF LoopControl, Start, TestLooping, EpollWait
  <2>3. looping' \in BOOLEAN
    BY <2>2, FlagTypes
  <2>4. QED
    BY <2>1, <2>3
<1>3. events' = events \/ events' = Ready
  BY DEF LoopControl, Start, TestLooping, EpollWait
<1>4. events' \subseteq AllEvents
  BY <1>3, ReadyTyped, LoopTypes DEF TypeOK
<1>5. QED
  BY <1>1, <1>2, <1>4 DEF TypeOK, LoopTypeOK, AllEvents

LEMMA AfterType == \A rest : After(rest) \in LoopAt
BY DEF After, LoopAt

LEMMA NextLoopTypes ==
  ASSUME peer' \in [Clients -> {"away", "waiting", "accepted"}],
         sent' \in [Clients -> 0..2 * MaxLines], consumed' \in [Clients -> 0..2 * MaxLines],
         ended' \in [Clients -> {"no", "fin", "rst"}],
         got' \in [Clients -> SUBSET Queries],
         fdOf' \in [Clients -> Fds \cup {NoFd}],
         conns' \in [Fds -> Clients \cup {None}],
         refs' \in [Clients -> Nat],
         signalled' \in BOOLEAN,
         pending' \in Seq(Queries), todo' \in Seq(Queries), ran' \subseteq Queries,
         events' \subseteq AllEvents,
         cur' \in Clients \cup {None},
         lpc' \in LoopAt, looping' \in BOOLEAN, up' \in BOOLEAN
  PROVE  LoopTypeOK'
BY DEF LoopTypeOK, AllEvents

LEMMA HandlerTypes ==
  ASSUME TypeOK,
         HandleNewConnection \/ (\E fd \in Fds : HandleMessage(fd)) \/ HandleRead
  PROVE  LoopTypeOK'
<1>1. events' \subseteq AllEvents
  BY LoopTypes DEF TypeOK, HandleNewConnection, HandleMessage, HandleRead, Handle
<1>2. CASE HandleNewConnection
  <2>1. /\ sent' = sent /\ ended' = ended /\ got' = got /\ refs' = refs /\ consumed' = consumed
        /\ signalled' = signalled /\ pending' = pending /\ todo' = todo /\ ran' = ran
        /\ cur' = cur /\ looping' = looping /\ up' = up /\ lpc' = After(events')
    BY <1>2 DEF HandleNewConnection
  <2>2. \/ peer' = peer /\ fdOf' = fdOf /\ conns' = conns
        \/ \E fd \in Fds, c \in Clients :
             /\ peer' = [peer EXCEPT ![c] = "accepted"]
             /\ fdOf' = [fdOf EXCEPT ![c] = fd]
             /\ conns' = [conns EXCEPT ![fd] = c]
    BY <1>2 DEF HandleNewConnection, Waiting, FreeFds
  <2>3. /\ peer' \in [Clients -> {"away", "waiting", "accepted"}]
        /\ fdOf' \in [Clients -> Fds \cup {NoFd}]
        /\ conns' \in [Fds -> Clients \cup {None}]
    <3>1. CASE peer' = peer /\ fdOf' = fdOf /\ conns' = conns
      BY <3>1, LoopTypes DEF TypeOK
    <3>2. ASSUME NEW fd \in Fds, NEW c \in Clients,
                 peer' = [peer EXCEPT ![c] = "accepted"],
                 fdOf' = [fdOf EXCEPT ![c] = fd],
                 conns' = [conns EXCEPT ![fd] = c]
          PROVE  /\ peer' \in [Clients -> {"away", "waiting", "accepted"}]
                 /\ fdOf' \in [Clients -> Fds \cup {NoFd}]
                 /\ conns' \in [Fds -> Clients \cup {None}]
      <4>1. /\ peer \in [Clients -> {"away", "waiting", "accepted"}]
            /\ fdOf \in [Clients -> Fds \cup {NoFd}]
            /\ conns \in [Fds -> Clients \cup {None}]
        BY LoopTypes DEF TypeOK
      <4>2. QED
        BY <3>2, <4>1
    <3>3. QED
      BY <2>2, <3>1, <3>2
  <2>4. QED
    BY <1>1, <2>1, <2>3, AfterType, LoopTypes, NextLoopTypes DEF TypeOK
<1>3. CASE \E fd \in Fds : HandleMessage(fd)
  <2>1. PICK fd \in Fds : HandleMessage(fd)
    BY <1>3
  <2>2. /\ peer' = peer /\ sent' = sent /\ ended' = ended /\ got' = got /\ fdOf' = fdOf
        /\ refs' = refs /\ consumed' = consumed /\ signalled' = signalled
        /\ pending' = pending /\ todo' = todo /\ ran' = ran /\ looping' = looping
    BY <2>1 DEF HandleMessage, socketVars
  <2>3. conns' = conns \/ conns' = [conns EXCEPT ![fd] = None]
    BY <2>1 DEF HandleMessage
  <2>4. cur' = None \/ (cur' = conns[fd] /\ conns[fd] # None)
    BY <2>1 DEF HandleMessage
  <2>5. lpc' = After(events') \/ lpc' = "receive"
    BY <2>1 DEF HandleMessage
  <2>6. lpc' \in LoopAt
    BY <2>5, AfterType DEF LoopAt
  <2>7. up' \in BOOLEAN
    BY <2>1 DEF HandleMessage
  <2>8. conns' \in [Fds -> Clients \cup {None}] /\ cur' \in Clients \cup {None}
    BY <2>3, <2>4, LoopTypes DEF TypeOK
  <2>9. QED
    BY <1>1, <2>2, <2>6, <2>7, <2>8, LoopTypes, NextLoopTypes DEF TypeOK
<1>4. CASE HandleRead
  <2>1. /\ peer' = peer /\ sent' = sent /\ ended' = ended /\ got' = got /\ fdOf' = fdOf
        /\ conns' = conns /\ refs' = refs /\ consumed' = consumed
        /\ pending' = pending /\ todo' = todo /\ ran' = ran
        /\ cur' = cur /\ looping' = looping /\ up' = up /\ lpc' = "swap" /\ signalled' = FALSE
    BY <1>4 DEF HandleRead, socketVars
  <2>2. lpc' \in LoopAt /\ signalled' \in BOOLEAN
    BY <2>1 DEF LoopAt
  <2>3. QED
    BY <1>1, <2>1, <2>2, LoopTypes, NextLoopTypes DEF TypeOK
<1>5. QED
  BY <1>2, <1>3, <1>4

(* The handlers' steps that touch one variable or two.                      *)
LEMMA OtherLoopTypes ==
  ASSUME TypeOK, LoopInv,
         ReadLine \/ MessageHandled \/ SwapPending \/ RunFunctor \/ Terminate \/ Unloop \/ WakeUp
  PROVE  LoopTypeOK'
<1>1. CASE ReadLine
  <2>1. /\ peer' = peer /\ sent' = sent /\ got' = got /\ fdOf' = fdOf /\ conns' = conns
        /\ refs' = refs /\ signalled' = signalled /\ pending' = pending /\ todo' = todo
        /\ ran' = ran /\ events' = events /\ cur' = cur /\ looping' = looping /\ up' = up
        /\ lpc' = "push" /\ lpc = "receive"
    BY <1>1 DEF ReadLine
  <2>2. cur \in Clients /\ sent[cur] \in 0..2 * MaxLines /\ consumed[cur] \in 0..2 * MaxLines
    BY <2>1, LoopTypes DEF TypeOK, LoopInv
  <2>3. ended' = ended \/ ended' = [ended EXCEPT ![cur] = "fin"]
    BY <1>1 DEF ReadLine
  <2>4. ended' \in [Clients -> {"no", "fin", "rst"}]
    BY <2>2, <2>3, LoopTypes DEF TypeOK
  <2>5. \E n \in 0..2 * MaxLines : consumed' = [consumed EXCEPT ![cur] = n]
    <3>1. CASE LineReady(cur) /\ consumed' = [consumed EXCEPT ![cur] = @ + 2]
      <4>1. consumed[cur] + 2 \in 0..2 * MaxLines
        BY <2>2, <3>1, LoopAssumption DEF LineReady, Unread
      <4>2. QED
        BY <3>1, <4>1
    <3>2. CASE consumed' = [consumed EXCEPT ![cur] = sent[cur]]
      BY <2>2, <3>2
    <3>3. QED
      BY <1>1, <3>1, <3>2 DEF ReadLine
  <2>6. consumed' \in [Clients -> 0..2 * MaxLines]
    BY <2>2, <2>5, LoopTypes DEF TypeOK
  <2>7. lpc' \in LoopAt
    BY <2>1 DEF LoopAt
  <2>8. QED
    BY <2>1, <2>4, <2>6, <2>7, LoopTypes, NextLoopTypes DEF TypeOK
<1>2. CASE MessageHandled
  <2>1. /\ peer' = peer /\ sent' = sent /\ ended' = ended /\ got' = got /\ fdOf' = fdOf
        /\ conns' = conns /\ consumed' = consumed /\ signalled' = signalled
        /\ pending' = pending /\ todo' = todo /\ ran' = ran /\ events' = events
        /\ looping' = looping /\ up' = up /\ lpc' = After(events) /\ cur' = None
        /\ refs' = [refs EXCEPT ![cur] = @ + 1]
    BY <1>2 DEF MessageHandled, socketVars
  <2>2. refs' \in [Clients -> Nat]
    <3>1. refs \in [Clients -> Nat]
      BY LoopTypes DEF TypeOK
    <3>2. cur \in Clients
      BY <1>2 DEF LoopInv, MessageHandled
    <3>3. refs[cur] + 1 \in Nat
      BY <3>1, <3>2
    <3>4. QED
      BY <2>1, <3>1, <3>3
  <2>3. QED
    BY <2>1, <2>2, AfterType, LoopTypes, NextLoopTypes DEF TypeOK
<1>3. CASE SwapPending
  <2>1. /\ peer' = peer /\ sent' = sent /\ ended' = ended /\ got' = got /\ fdOf' = fdOf
        /\ conns' = conns /\ refs' = refs /\ consumed' = consumed /\ signalled' = signalled
        /\ ran' = ran /\ events' = events /\ cur' = cur /\ looping' = looping /\ up' = up
        /\ todo' = pending /\ pending' = <<>>
        /\ lpc' = After(events) \/ lpc' = "functors"
    BY <1>3 DEF SwapPending, socketVars
  <2>2. lpc' \in LoopAt /\ pending' \in Seq(Queries)
    BY <2>1, AfterType DEF LoopAt
  <2>3. QED
    BY <2>1, <2>2, LoopTypes, NextLoopTypes DEF TypeOK
<1>4. CASE RunFunctor
  <2>1. /\ peer' = peer /\ sent' = sent /\ ended' = ended /\ fdOf' = fdOf
        /\ conns' = conns /\ refs' = refs /\ consumed' = consumed /\ signalled' = signalled
        /\ pending' = pending /\ events' = events /\ cur' = cur /\ looping' = looping
        /\ todo' = Tail(todo) /\ ran' = ran \cup {Head(todo)}
        /\ lpc' = After(events) \/ lpc' = "functors"
    BY <1>4 DEF RunFunctor, socketVars
  <2>2. up' = up \/ up' \in BOOLEAN
    BY <1>4 DEF RunFunctor
  <2>3. up' \in BOOLEAN
    BY <2>2, FlagTypes
  <2>4. todo \in Seq(Queries) /\ todo # <<>>
    BY <1>4, LoopTypes DEF TypeOK, LoopInv, RunFunctor
  <2>5. Head(todo) \in Queries /\ todo' \in Seq(Queries)
    BY <2>1, <2>4, TailEffect
  <2>6. \/ got' = got
        \/ \E d \in Clients : got' = [got EXCEPT ![d] = @ \cup {Head(todo)}]
    <3>1. \A c : WrittenTo(c) \cap Clients = WrittenTo(c) \/ WrittenTo(c) = {c}
      BY DEF WrittenTo
    <3>2. Head(todo)[1] \in Clients
      BY <2>5 DEF Queries
    <3>3. WrittenTo(Head(todo)[1]) \subseteq Clients
      BY <3>1, <3>2
    <3>4. QED
      BY <1>4, <3>3 DEF RunFunctor
  <2>7. got' \in [Clients -> SUBSET Queries]
    <3>1. got \in [Clients -> SUBSET Queries]
      BY LoopTypes DEF TypeOK
    <3>2. ASSUME NEW d \in Clients, got' = [got EXCEPT ![d] = @ \cup {Head(todo)}]
          PROVE  got' \in [Clients -> SUBSET Queries]
      <4>1. got[d] \cup {Head(todo)} \in SUBSET Queries
        BY <2>5, <3>1
      <4>2. QED
        BY <3>1, <3>2, <4>1
    <3>3. QED
      BY <2>6, <3>1, <3>2
  <2>8. lpc' \in LoopAt
    BY <2>1, AfterType DEF LoopAt
  <2>9. ran' \subseteq Queries
    BY <2>1, <2>5, LoopTypes DEF TypeOK
  <2>10. QED
    BY <2>1, <2>3, <2>5, <2>7, <2>8, <2>9, LoopTypes, NextLoopTypes DEF TypeOK
<1>5. CASE Terminate \/ Unloop \/ WakeUp
  <2>1. /\ peer' = peer /\ sent' = sent /\ ended' = ended /\ got' = got /\ fdOf' = fdOf
        /\ conns' = conns /\ refs' = refs /\ consumed' = consumed
        /\ pending' = pending /\ todo' = todo /\ ran' = ran /\ events' = events
        /\ cur' = cur /\ lpc' = lpc
    BY <1>5 DEF Terminate, Unloop, WakeUp, socketVars
  <2>2. /\ up' = up \/ up' = FALSE
        /\ looping' = looping \/ looping' = FALSE
        /\ signalled' = signalled \/ signalled' = TRUE
    BY <1>5 DEF Terminate, Unloop, WakeUp, socketVars
  <2>3. up' \in BOOLEAN /\ looping' \in BOOLEAN /\ signalled' \in BOOLEAN
    BY <2>2, FlagTypes
  <2>4. QED
    BY <2>1, <2>3, LoopTypes, NextLoopTypes DEF TypeOK
<1>6. QED
  BY <1>1, <1>2, <1>3, <1>4, <1>5

LEMMA WorkerLoopTypes ==
  ASSUME TypeOK, NEW q \in Queries, NEW c \in Clients, refs[c] > 0,
         PushPending(q) \/ Release(c)
  PROVE  LoopTypeOK'
<1>1. /\ peer' = peer /\ sent' = sent /\ ended' = ended /\ got' = got /\ fdOf' = fdOf
      /\ conns' = conns /\ consumed' = consumed /\ signalled' = signalled
      /\ todo' = todo /\ ran' = ran /\ events' = events
      /\ cur' = cur /\ lpc' = lpc /\ looping' = looping /\ up' = up
  BY DEF PushPending, Release, socketVars
<1>2. \/ refs' = refs /\ pending' = Append(pending, q)
      \/ refs' = [refs EXCEPT ![c] = @ - 1] /\ pending' = pending
  BY DEF PushPending, Release
<1>3. refs \in [Clients -> Nat] /\ pending \in Seq(Queries)
  BY LoopTypes DEF TypeOK
<1>4. refs' \in [Clients -> Nat]
  BY <1>2, <1>3
<1>5. pending' \in Seq(Queries)
  BY <1>2, <1>3
<1>6. QED
  BY <1>1, <1>4, <1>5, LoopTypes, NextLoopTypes DEF TypeOK

LEMMA ClientTypes ==
  ASSUME TypeOK, ClientStep
  PROVE  LoopTypeOK'
<1>1. /\ got' = got /\ fdOf' = fdOf /\ conns' = conns /\ refs' = refs /\ consumed' = consumed
      /\ signalled' = signalled /\ pending' = pending /\ todo' = todo /\ ran' = ran
      /\ events' = events /\ cur' = cur /\ lpc' = lpc /\ looping' = looping /\ up' = up
  BY DEF ClientStep
<1>2. PICK c \in Clients : Connect(c) \/ SendHalfLine(c) \/ HangUp(c)
  BY DEF ClientStep
<1>3. /\ peer \in [Clients -> {"away", "waiting", "accepted"}]
      /\ sent \in [Clients -> 0..2 * MaxLines] /\ ended \in [Clients -> {"no", "fin", "rst"}]
  BY LoopTypes DEF TypeOK
<1>4. peer' \in [Clients -> {"away", "waiting", "accepted"}]
  BY <1>2, <1>3 DEF Connect, SendHalfLine, HangUp
<1>5. sent' \in [Clients -> 0..2 * MaxLines]
  BY <1>2, <1>3, LoopAssumption DEF Connect, SendHalfLine, HangUp
<1>6. ended' \in [Clients -> {"no", "fin", "rst"}]
  BY <1>2, <1>3 DEF Connect, SendHalfLine, HangUp
<1>7. QED
  BY <1>1, <1>4, <1>5, <1>6, LoopTypes, NextLoopTypes DEF TypeOK

LEMMA StepTypeOK ==
  ASSUME TypeOK, LoopInv, TaskInv, RefsInv, [Next]_vars
  PROVE  TypeOK'
<1>1. /\ log \in Seq(Queries) /\ head \in 0..Len(log) /\ flag \in BOOLEAN
      /\ held \in [Workers -> Queries \cup {None}] /\ done \subseteq Queries
      /\ wpc \in [Workers -> WorkerAt] /\ spc \in StopperAt
  BY DEF TypeOK
<1>2. ASSUME LoopTypeOK', Others PROVE TypeOK'
  BY <1>1, <1>2 DEF Others, poolVars, TypeOK
<1>3. CASE (LoopControl \/ HandleNewConnection \/ (\E fd \in Fds : HandleMessage(fd))
              \/ ReadLine \/ HandleRead \/ SwapPending \/ RunFunctor \/ ClientStep) /\ Others
  BY <1>2, <1>3, LoopControlTypes, HandlerTypes, OtherLoopTypes, ClientTypes
<1>4. CASE OnMessage
  <2>1. LoopTypeOK'
    BY <1>4, OtherLoopTypes DEF OnMessage
  <2>2. CurrentQuery \in Queries
    BY <1>4, CurrentQueryTyped DEF OnMessage, MessageHandled
  <2>3. /\ log' = Append(log, CurrentQuery) /\ head' = head /\ flag' = flag
        /\ held' = held /\ done' = done /\ wpc' = wpc /\ spc' = spc
    BY <1>4 DEF OnMessage, Pool!Submit
  <2>4. log' \in Seq(Queries) /\ Len(log') = Len(log) + 1
    BY <1>1, <2>2, <2>3, AppendEffect
  <2>5. head' \in 0..Len(log')
    BY <1>1, <2>3, <2>4
  <2>6. QED
    BY <1>1, <2>1, <2>3, <2>4, <2>5 DEF TypeOK
<1>5. ASSUME NEW w \in Workers,
             \/ TakeTask(w) \/ Process(w) \/ SendInLoop(w) \/ WakeLoop(w)
             \/ FinishTask(w) \/ ProcessThrows(w)
      PROVE  TypeOK'
  <2>1. CASE TakeTask(w)
    <3>1. /\ LoopTypeOK' /\ log' = log /\ flag' = flag /\ done' = done /\ spc' = spc
          /\ head' = head + 1 /\ held' = [held EXCEPT ![w] = log[head + 1]]
          /\ wpc' = [wpc EXCEPT ![w] = "query"] /\ Len(log) - head > 0
      <4>1. UNCHANGED loopVars
        BY <2>1 DEF TakeTask
      <4>2. LoopTypeOK'
        BY <4>1 DEF TypeOK, LoopTypeOK, loopVars
      <4>3. QED
        BY <2>1, <4>2 DEF TakeTask, Goes, Pool!Take, Pool!Backlog
    <3>2. head + 1 \in 1..Len(log) /\ head' \in 0..Len(log')
      BY <1>1, <3>1
    <3>3. held' \in [Workers -> Queries \cup {None}]
      BY <1>1, <3>1, <3>2
    <3>4. wpc' \in [Workers -> WorkerAt]
      BY <1>1, <3>1 DEF WorkerAt
    <3>5. QED
      BY <1>1, <3>1, <3>2, <3>3, <3>4 DEF TypeOK
  <2>2. CASE Process(w) \/ SendInLoop(w) \/ WakeLoop(w) \/ ProcessThrows(w)
    <3>1. LoopTypeOK'
      <4>1. CASE Process(w)
        BY <4>1 DEF Process, TypeOK, LoopTypeOK, loopVars
      <4>2. CASE SendInLoop(w)
        <5>1. held[w] # None
          BY <4>2 DEF SendInLoop, Goes, TaskInv
        <5>2. /\ held[w] \in Queries /\ held[w][1] \in Clients
              /\ refs[held[w][1]] \in Nat /\ refs[held[w][1]] > 0
          BY <5>1, HeldIsReferenced
        <5>3. QED
          BY <4>2, <5>2, WorkerLoopTypes DEF SendInLoop
      <4>3. CASE WakeLoop(w) \/ ProcessThrows(w)
        BY <4>3, OtherLoopTypes DEF WakeLoop, ProcessThrows
      <4>4. QED
        BY <2>2, <4>1, <4>2, <4>3
    <3>2. log' = log /\ head' = head /\ flag' = flag /\ held' = held /\ done' = done /\ spc' = spc
      BY <2>2 DEF Process, SendInLoop, WakeLoop, ProcessThrows, poolVars
    <3>3. wpc' = wpc \/ \E at \in WorkerAt : wpc' = [wpc EXCEPT ![w] = at]
      BY <2>2 DEF Process, SendInLoop, WakeLoop, ProcessThrows, Goes, WorkerAt
    <3>4. wpc' \in [Workers -> WorkerAt]
      BY <1>1, <3>3
    <3>5. QED
      BY <1>1, <3>1, <3>2, <3>4 DEF TypeOK
  <2>3. CASE FinishTask(w)
    <3>1. held[w] # None
      BY <2>3 DEF FinishTask, Goes, TaskInv
    <3>2. /\ held[w] \in Queries /\ held[w][1] \in Clients
          /\ refs[held[w][1]] \in Nat /\ refs[held[w][1]] > 0
      BY <3>1, HeldIsReferenced
    <3>3. LoopTypeOK'
      BY <2>3, <3>2, WorkerLoopTypes DEF FinishTask
    <3>4. /\ log' = log /\ head' = head /\ flag' = flag /\ spc' = spc
          /\ held' = [held EXCEPT ![w] = None] /\ done' = done \cup {held[w]}
          /\ wpc' = [wpc EXCEPT ![w] = "idle"]
      BY <2>3 DEF FinishTask, Goes, Pool!Finish
    <3>5. /\ held' \in [Workers -> Queries \cup {None}] /\ done' \subseteq Queries
          /\ wpc' \in [Workers -> WorkerAt]
      BY <1>1, <3>2, <3>4 DEF WorkerAt
    <3>6. QED
      BY <1>1, <3>3, <3>4, <3>5 DEF TypeOK
  <2>4. QED
    BY <1>5, <2>1, <2>2, <2>3
<1>6. CASE StopCall \/ StopperStep
  <2>1. LoopTypeOK'
    <3>1. CASE Unloop
      BY <3>1, OtherLoopTypes
    <3>2. CASE UNCHANGED loopVars
      BY <3>2 DEF TypeOK, LoopTypeOK, loopVars
    <3>3. QED
      BY <1>6, <3>1, <3>2
      DEF StopCall, StopperStep, StopDrain, StopClose, StopJoin, StopLoop
  <2>2. /\ log' = log /\ head' = head /\ held' = held /\ done' = done /\ wpc' = wpc
    BY <1>6 DEF StopCall, StopperStep, StopDrain, StopClose, StopJoin, StopLoop,
                StopperGoes, Pool!Close, poolVars
  <2>3. flag' = flag \/ flag' = FALSE
    BY <1>6 DEF StopCall, StopperStep, StopDrain, StopClose, StopJoin, StopLoop,
                Pool!Close, poolVars
  <2>4. flag' \in BOOLEAN
    BY <2>3, FlagTypes
  <2>5. spc' \in StopperAt
    BY <1>6 DEF StopCall, StopperStep, StopDrain, StopClose, StopJoin, StopLoop,
                StopperGoes, StopperAt
  <2>6. QED
    BY <1>1, <2>1, <2>2, <2>4, <2>5 DEF TypeOK
<1>7. CASE UNCHANGED vars
  <2>1. UNCHANGED loopVars /\ Others
    BY <1>7 DEF vars, Others
  <2>2. LoopTypeOK'
    BY <2>1 DEF TypeOK, LoopTypeOK, loopVars
  <2>3. QED
    BY <1>2, <2>1, <2>2
<1>8. QED
  BY <1>3, <1>4, <1>5, <1>6, <1>7, NextCases
-----------------------------------------------------------------------------
(* The loop.                                                                *)
WorkerOrStopper ==
  \/ \E w \in Workers :
       \/ TakeTask(w) \/ Process(w) \/ SendInLoop(w) \/ WakeLoop(w)
       \/ FinishTask(w) \/ ProcessThrows(w)
  \/ StopCall \/ StopperStep

(* The other threads leave the loop's own state alone.                      *)
LEMMA LoopLeftAlone ==
  ASSUME WorkerOrStopper \/ UNCHANGED vars
  PROVE  /\ peer' = peer /\ sent' = sent /\ ended' = ended /\ got' = got /\ fdOf' = fdOf
         /\ conns' = conns /\ consumed' = consumed /\ todo' = todo /\ ran' = ran
         /\ events' = events /\ cur' = cur /\ lpc' = lpc
<1>1. ASSUME UNCHANGED loopVars
      PROVE  /\ peer' = peer /\ sent' = sent /\ ended' = ended /\ got' = got /\ fdOf' = fdOf
             /\ conns' = conns /\ consumed' = consumed /\ todo' = todo /\ ran' = ran
             /\ events' = events /\ cur' = cur /\ lpc' = lpc
  BY <1>1 DEF loopVars
<1>2. CASE UNCHANGED vars
  BY <1>1, <1>2 DEF vars
<1>3. ASSUME NEW w \in Workers,
             \/ TakeTask(w) \/ Process(w) \/ SendInLoop(w) \/ WakeLoop(w)
             \/ FinishTask(w) \/ ProcessThrows(w)
      PROVE  \/ UNCHANGED loopVars
             \/ PushPending(held[w]) \/ WakeUp \/ Release(held[w][1]) \/ Terminate
  BY <1>3 DEF TakeTask, Process, SendInLoop, WakeLoop, FinishTask, ProcessThrows
<1>4. StopCall \/ StopperStep => UNCHANGED loopVars \/ Unloop
  BY DEF StopCall, StopperStep, StopDrain, StopClose, StopJoin, StopLoop
<1>5. ASSUME \/ WakeUp \/ Terminate \/ Unloop
             \/ \E q : PushPending(q)
             \/ \E c : Release(c)
      PROVE  /\ peer' = peer /\ sent' = sent /\ ended' = ended /\ got' = got /\ fdOf' = fdOf
             /\ conns' = conns /\ consumed' = consumed /\ todo' = todo /\ ran' = ran
             /\ events' = events /\ cur' = cur /\ lpc' = lpc
  BY <1>5 DEF WakeUp, Terminate, Unloop, PushPending, Release, socketVars
<1>6. QED
  BY <1>1, <1>2, <1>3, <1>4, <1>5 DEF WorkerOrStopper

LEMMA NextCasesByThread ==
  ASSUME [Next]_vars
  PROVE  \/ LoopControl /\ Others
         \/ HandleNewConnection /\ Others
         \/ \E fd \in Fds : HandleMessage(fd) /\ Others
         \/ ReadLine /\ Others
         \/ OnMessage
         \/ HandleRead /\ Others
         \/ SwapPending /\ Others
         \/ RunFunctor /\ Others
         \/ ClientStep /\ Others
         \/ WorkerOrStopper \/ UNCHANGED vars
BY NextCases DEF WorkerOrStopper

LEMMA HandledMessage ==
  ASSUME TypeOK, LoopInv, DescriptorsAreCurrent, NEW fd \in Fds, HandleMessage(fd)
  PROVE  /\ conns[fd] \in Clients /\ fdOf[conns[fd]] = fd
         /\ Message(fd, conns[fd]) \in events
         /\ events' = events \ {Message(fd, conns[fd])}
         /\ Readable(conns[fd])
         /\ \A e \in events' : e.kind = "message" => e.of # conns[fd] /\ e.fd # fd
<1>1. PICK c \in Clients : Handle(Message(fd, c))
  BY DEF HandleMessage
<1>2. Message(fd, c) \in events /\ events' = events \ {Message(fd, c)}
  BY <1>1 DEF Handle
<1>3. Message(fd, c).kind = "message" /\ Message(fd, c).fd = fd /\ Message(fd, c).of = c
  BY DEF Message
<1>4. conns[fd] = c /\ Readable(c) /\ c # None
  BY <1>2, <1>3, LoopAssumption DEF DescriptorsAreCurrent, EventsAreFresh, LoopInv
<1>5. fdOf[c] = fd
  BY <1>4 DEF DescriptorsAreCurrent, DescriptorsAreUnique
<1>6. ASSUME NEW e \in events', e.kind = "message"
      PROVE  e.of # c /\ e.fd # fd
  <2>1. e \in events /\ e # Message(fd, c)
    BY <1>2
  <2>2. e \in AllEvents
    BY <2>1, LoopTypes DEF TypeOK
  <2>3. e.fd \in Fds /\ e.of \in Clients /\ e = Message(e.fd, e.of)
    BY <1>6, <2>2, MessageFields
  <2>4. conns[e.fd] = e.of
    BY <1>6, <2>1 DEF DescriptorsAreCurrent, EventsAreFresh
  <2>5. fdOf[e.of] = e.fd
    BY <2>3, <2>4, LoopAssumption DEF DescriptorsAreCurrent, DescriptorsAreUnique
  <2>6. e.of = c <=> e.fd = fd
    BY <1>4, <1>5, <2>4, <2>5
  <2>7. QED
    BY <2>1, <2>3, <2>6
<1>7. QED
  BY <1>2, <1>4, <1>5, <1>6

(* When the loop's own state stands still but for the phase it is in.       *)
LEMMA LoopInvMoves ==
  ASSUME LoopInv, lpc' \notin {"receive", "push"},
         sent' = sent, consumed' = consumed, ended' = ended,
         \A e \in events' : e \in events \/ e.kind # "message" \/ Readable(e.of),
         todo' # <<>> <=> lpc' = "functors"
  PROVE  LoopInv'
BY DEF LoopInv, Readable, Unread

LEMMA StepLoopInv ==
  ASSUME TypeOK, LoopInv, DescriptorsAreCurrent, [Next]_vars
  PROVE  LoopInv'
<1>1. \A rest : After(rest) \in {"test", "dispatch"}
  BY DEF After
<1>2. CASE LoopControl
  <2>1. /\ sent' = sent /\ consumed' = consumed /\ ended' = ended /\ todo' = todo
        /\ lpc \notin {"receive", "push", "functors"}
        /\ lpc' \notin {"receive", "push", "functors"}
        /\ events' = events \/ events' = Ready
    BY <1>2 DEF LoopControl, socketVars, Start, TestLooping, EpollWait
  <2>2. todo' = <<>>
    BY <2>1 DEF LoopInv
  <2>3. \A e \in events' : e \in events \/ e.kind # "message" \/ Readable(e.of)
    BY <2>1, ReadyTyped
  <2>4. QED
    BY <2>1, <2>2, <2>3, LoopInvMoves
<1>3. CASE HandleNewConnection \/ HandleRead \/ MessageHandled
  <2>1. /\ sent' = sent /\ consumed' = consumed /\ ended' = ended /\ todo' = todo
        /\ lpc # "functors"
        /\ lpc' \in {"test", "dispatch", "swap"}
        /\ events' \subseteq events
    BY <1>1, <1>3 DEF HandleNewConnection, HandleRead, MessageHandled, Handle, socketVars
  <2>2. todo' = <<>> /\ lpc' # "functors"
    BY <2>1 DEF LoopInv
  <2>3. QED
    BY <2>1, <2>2, LoopInvMoves
<1>4. ASSUME NEW fd \in Fds, HandleMessage(fd)
      PROVE  LoopInv'
  <2> DEFINE c == conns[fd]
  <2>1. /\ c \in Clients /\ events' = events \ {Message(fd, c)} /\ Readable(c)
        /\ \A e \in events' : e.kind = "message" => e.of # c
    BY <1>4, HandledMessage
  <2>2. /\ sent' = sent /\ consumed' = consumed /\ ended' = ended /\ todo' = todo
        /\ lpc = "dispatch"
    BY <1>4 DEF HandleMessage, Handle, socketVars
  <2>3. todo' = <<>>
    BY <2>2 DEF LoopInv
  <2>4. CASE lpc' # "receive"
    <3>1. lpc' = After(events')
      BY <1>4, <2>4 DEF HandleMessage
    <3>2. lpc' \notin {"receive", "push", "functors"}
      BY <1>1, <3>1
    <3>3. QED
      BY <2>1, <2>2, <2>3, <3>2, LoopInvMoves
  <2>5. CASE lpc' = "receive"
    <3>1. lpc' # After(events')
      BY <1>1, <2>5
    <3>2. /\ ~(Unread(c) = 0 /\ ended[c] = "fin") /\ ~(Unread(c) = 0 /\ ended[c] = "rst")
          /\ cur' = c /\ conns' = conns
      BY <1>4, <2>1, <3>1, LoopAssumption DEF HandleMessage
    <3>3. sent[c] \in Nat /\ consumed[c] \in Nat /\ consumed[c] <= sent[c]
      BY <2>1, LinesType DEF LoopInv
    <3>4. ended[c] \in {"no", "fin", "rst"}
      BY <2>1, LoopTypes DEF TypeOK
    <3>5. Unread(c) > 0
      BY <2>1, <3>2, <3>3, <3>4 DEF Readable, Unread
    <3>6. Unread(c)' = Unread(c)
      BY <2>2, <3>2 DEF Unread
    <3>7. cur' \in Clients /\ InMap(cur)'
      BY <2>1, <3>2 DEF InMap
    <3>8. /\ Unread(cur)' > 0
          /\ \A e \in events' : e.kind = "message" => e.of # cur'
      BY <2>1, <3>2, <3>5, <3>6 DEF Unread
    <3>9. \A e \in events' : e.kind = "message" => Readable(e.of)'
      BY <2>1, <2>2 DEF LoopInv, Readable, Unread
    <3>10. \A d \in Clients :
             /\ consumed'[d] <= sent'[d]
             /\ consumed'[d] % 2 = 1 => consumed'[d] = sent'[d] /\ ended'[d] # "no"
      BY <2>2 DEF LoopInv
    <3>11. QED
      BY <2>3, <2>5, <3>7, <3>8, <3>9, <3>10 DEF LoopInv
  <2>6. QED
    BY <2>4, <2>5
<1>5. CASE ReadLine
  <2>1. /\ sent' = sent /\ todo' = todo /\ conns' = conns /\ cur' = cur /\ events' = events
        /\ lpc = "receive" /\ lpc' = "push"
    BY <1>5 DEF ReadLine
  <2>2. cur \in Clients /\ InMap(cur) /\ todo = <<>> /\ Unread(cur) > 0
    BY <2>1 DEF LoopInv
  <2>3. /\ sent[cur] \in Nat /\ consumed[cur] \in Nat /\ consumed[cur] < sent[cur]
        /\ sent \in [Clients -> 0..2 * MaxLines] /\ consumed \in [Clients -> 0..2 * MaxLines]
        /\ ended \in [Clients -> {"no", "fin", "rst"}] /\ ended[cur] \in {"no", "fin", "rst"}
    BY <2>2, LinesType, LoopTypes DEF TypeOK, Unread
  <2>4. consumed[cur] % 2 # 1
    BY <2>2, <2>3 DEF LoopInv
  <2>5. /\ consumed'[cur] > 0 /\ consumed'[cur] <= sent[cur]
        /\ consumed'[cur] % 2 = 1 => consumed'[cur] = sent[cur] /\ ended'[cur] # "no"
    <3>1. CASE LineReady(cur) /\ consumed' = [consumed EXCEPT ![cur] = @ + 2]
      <4>1. consumed'[cur] = consumed[cur] + 2 /\ sent[cur] - consumed[cur] >= 2
        BY <2>2, <2>3, <3>1 DEF LineReady, Unread
      <4>2. QED
        BY <2>3, <2>4, <4>1
    <3>2. CASE /\ consumed' = [consumed EXCEPT ![cur] = sent[cur]]
               /\ ended' = [ended EXCEPT ![cur] = "fin"]
      <4>1. consumed'[cur] = sent[cur] /\ ended'[cur] = "fin"
        BY <2>2, <2>3, <3>2
      <4>2. QED
        BY <2>3, <4>1
    <3>3. QED
      BY <1>5, <3>1, <3>2 DEF ReadLine
  <2>6. \A d \in Clients : d # cur => consumed'[d] = consumed[d] /\ ended'[d] = ended[d]
    BY <1>5, <2>3 DEF ReadLine
  <2>7. ASSUME NEW e \in events', e.kind = "message" PROVE Readable(e.of)'
    <3>1. e \in AllEvents
      BY <2>1, <2>7, LoopTypes DEF TypeOK
    <3>2. e.of \in Clients /\ e.of # cur /\ Readable(e.of)
      BY <2>1, <2>7, <3>1, MessageFields DEF LoopInv
    <3>3. QED
      BY <2>1, <2>6, <3>2 DEF Readable, Unread
  <2>8. \A d \in Clients :
          /\ consumed'[d] <= sent'[d]
          /\ consumed'[d] % 2 = 1 => consumed'[d] = sent'[d] /\ ended'[d] # "no"
    BY <2>1, <2>5, <2>6 DEF LoopInv
  <2>9. InMap(cur)'
    BY <2>1, <2>2 DEF InMap
  <2>10. QED
    BY <2>1, <2>2, <2>5, <2>7, <2>8, <2>9 DEF LoopInv
<1>6. CASE SwapPending \/ RunFunctor
  <2>1. /\ sent' = sent /\ consumed' = consumed /\ ended' = ended /\ events' = events
        /\ lpc' \in {"test", "dispatch", "functors"}
    BY <1>1, <1>6 DEF SwapPending, RunFunctor, socketVars
  <2>2. todo' # <<>> <=> lpc' = "functors"
    <3>1. CASE SwapPending
      BY <1>1, <3>1 DEF SwapPending
    <3>2. CASE RunFunctor
      <4>1. /\ todo' = Tail(todo)
            /\ lpc' = IF Len(todo) = 1 THEN After(events) ELSE "functors"
            /\ todo # <<>> /\ todo \in Seq(Queries)
        BY <3>2, LoopTypes DEF RunFunctor, LoopInv, TypeOK
      <4>2. Len(todo) > 0 /\ Len(todo') = Len(todo) - 1 /\ todo' \in Seq(Queries)
        BY <4>1, TailEffect
      <4>3. todo' = <<>> <=> Len(todo) = 1
        BY <4>1, TailEmpty
      <4>4. After(events) # "functors"
        BY <1>1
      <4>5. QED
        BY <4>1, <4>3, <4>4
    <3>3. QED
      BY <1>6, <3>1, <3>2
  <2>3. QED
    BY <2>1, <2>2, LoopInvMoves
<1>7. CASE ClientStep
  <2>1. /\ consumed' = consumed /\ conns' = conns /\ cur' = cur /\ events' = events
        /\ lpc' = lpc /\ todo' = todo
    BY <1>7 DEF ClientStep
  <2>2. PICK c \in Clients : Connect(c) \/ SendHalfLine(c) \/ HangUp(c)
    BY <1>7 DEF ClientStep
  <2>3. \A d \in Clients : sent[d] \in Nat /\ consumed[d] \in Nat /\ sent'[d] \in Nat
                           /\ sent'[d] >= sent[d]
    <3>1. sent' = sent \/ sent' = [sent EXCEPT ![c] = @ + 1]
      BY <2>2 DEF Connect, SendHalfLine, HangUp
    <3>2. sent \in [Clients -> 0..2 * MaxLines]
      BY LoopTypes DEF TypeOK
    <3>3. \A d \in Clients : sent[d] \in Nat /\ consumed[d] \in Nat
      BY LinesType
    <3>4. \A d \in Clients : sent'[d] = sent[d] \/ sent'[d] = sent[d] + 1
      BY <3>1, <3>2
    <3>5. QED
      BY <3>3, <3>4
  <2>4. \A d \in Clients : /\ ended'[d] = ended[d] \/ (ended[d] = "no" /\ ended'[d] # "no")
                           /\ ended[d] # "no" => sent'[d] = sent[d]
    BY <2>2, LoopTypes DEF TypeOK, Connect, SendHalfLine, HangUp
  <2>5. \A d \in Clients :
          /\ consumed'[d] <= sent'[d]
          /\ consumed'[d] % 2 = 1 => consumed'[d] = sent'[d] /\ ended'[d] # "no"
    BY <2>1, <2>3, <2>4 DEF LoopInv
  <2>6. \A d \in Clients : /\ Readable(d) => Readable(d)'
                           /\ Unread(d) > 0 => Unread(d)' > 0
    BY <2>1, <2>3, <2>4 DEF Readable, Unread
  <2>7. \A e \in events' : e.kind = "message" => e.of \in Clients
    BY <2>1, MessageFields, LoopTypes DEF TypeOK
  <2>8. QED
    BY <2>1, <2>5, <2>6, <2>7 DEF LoopInv, InMap
<1>8. CASE WorkerOrStopper \/ UNCHANGED vars
  <2>1. /\ sent' = sent /\ ended' = ended /\ conns' = conns /\ consumed' = consumed
        /\ todo' = todo /\ events' = events /\ cur' = cur /\ lpc' = lpc
    BY <1>8, LoopLeftAlone
  <2>2. QED
    BY <2>1 DEF LoopInv, InMap, Readable, Unread
<1>9. QED
  BY <1>2, <1>3, <1>4, <1>5, <1>6, <1>7, <1>8, NextCasesByThread DEF OnMessage
-----------------------------------------------------------------------------
(* The descriptors.                                                         *)
Owned == OnlyAcceptedAlive /\ DescriptorsAreCurrent

LEMMA FewerAlive ==
  ASSUME Owned,
         \A c \in Clients : Alive(c)' => Alive(c),
         \A c \in Clients : peer[c] = "accepted" => peer'[c] = "accepted",
         fdOf' = fdOf,
         \A e \in events' : e.kind = "message" => conns'[e.fd] = e.of,
         \A fd \in Fds : conns'[fd] # None => conns'[fd] = conns[fd]
  PROVE  Owned'
<1>1. OnlyAcceptedAlive'
  BY DEF Owned, OnlyAcceptedAlive
<1>2. EventsAreFresh'
  BY DEF EventsAreFresh
<1>3. DescriptorsAreUnique'
  BY DEF Owned, DescriptorsAreCurrent, DescriptorsAreUnique
<1>4. QED
  BY <1>1, <1>2, <1>3 DEF Owned, DescriptorsAreCurrent

LEMMA StepOwned ==
  ASSUME TypeOK, TypeOK', LoopInv, Owned, [Next]_vars
  PROVE  Owned'
<1>1. CASE HandleNewConnection
  <2>1. refs' = refs /\ events' \subseteq events
    BY <1>1 DEF HandleNewConnection, Handle
  <2>2. ASSUME NEW fd \in FreeFds, NEW c \in Waiting,
               peer' = [peer EXCEPT ![c] = "accepted"],
               fdOf' = [fdOf EXCEPT ![c] = fd],
               conns' = [conns EXCEPT ![fd] = c]
        PROVE  Owned'
    <3>1. c \in Clients /\ peer[c] = "waiting" /\ fd \in Fds
      BY DEF Waiting, FreeFds
    <3>2. ~Alive(c)
      BY <3>1 DEF Owned, OnlyAcceptedAlive
    <3>3. \A d \in Clients : Alive(d) => fdOf[d] # fd
      BY DEF FreeFds
    <3>4. /\ conns \in [Fds -> Clients \cup {None}]
          /\ fdOf \in [Clients -> Fds \cup {NoFd}]
          /\ peer \in [Clients -> {"away", "waiting", "accepted"}]
      BY LoopTypes DEF TypeOK
    <3>5. /\ conns'[fd] = c /\ \A f \in Fds : f # fd => conns'[f] = conns[f]
          /\ fdOf'[c] = fd /\ \A d \in Clients : d # c => fdOf'[d] = fdOf[d]
          /\ peer'[c] = "accepted" /\ \A d \in Clients : d # c => peer'[d] = peer[d]
      BY <2>2, <3>1, <3>4
    <3>6. \A f \in Fds : conns[f] # None => conns[f] \in Clients /\ Alive(conns[f]) /\ fdOf[conns[f]] = f
      BY <3>4 DEF Alive, InMap, Owned, DescriptorsAreCurrent, DescriptorsAreUnique
    <3>7. conns[fd] = None
      BY <3>1, <3>3, <3>6
    <3>8. \A d \in Clients : d # c => (Alive(d)' <=> Alive(d))
      BY <2>1, <3>1, <3>5, <3>7, LoopAssumption DEF Alive, InMap
    <3>9. \A d \in Clients : d # c /\ Alive(d)' => fdOf'[d] = fdOf[d] /\ fdOf'[d] # fd
      BY <3>3, <3>5, <3>8
    <3>10. OnlyAcceptedAlive'
      BY <3>5, <3>8 DEF Owned, OnlyAcceptedAlive
    <3>11. ASSUME NEW e \in events', e.kind = "message"
           PROVE  conns'[e.fd] = e.of
      <4>1. e \in AllEvents /\ conns[e.fd] = e.of
        BY <2>1, <3>11, LoopTypes DEF TypeOK, Owned, DescriptorsAreCurrent, EventsAreFresh
      <4>2. e.fd \in Fds /\ e.of # None
        BY <3>11, <4>1, MessageFields, LoopAssumption
      <4>3. QED
        BY <3>5, <3>7, <4>1, <4>2
    <3>12. \A f \in Fds : conns'[f] # None => fdOf'[conns'[f]] = f
      <4>1. ASSUME NEW f \in Fds, f # fd, conns'[f] # None
            PROVE  fdOf'[conns'[f]] = f
        <5>1. conns'[f] = conns[f] /\ conns[f] \in Clients /\ Alive(conns[f]) /\ fdOf[conns[f]] = f
          BY <3>5, <3>6, <4>1
        <5>2. conns[f] # c
          BY <3>2, <5>1
        <5>3. QED
          BY <3>5, <5>1, <5>2
      <4>2. QED
        BY <3>5, <4>1
    <3>13. \A d, b \in Clients : Alive(d)' /\ Alive(b)' /\ fdOf'[d] = fdOf'[b] => d = b
      BY <3>5, <3>8, <3>9 DEF Owned, DescriptorsAreCurrent, DescriptorsAreUnique
    <3>14. QED
      BY <3>10, <3>11, <3>12, <3>13
      DEF Owned, DescriptorsAreCurrent, DescriptorsAreUnique, EventsAreFresh
  <2>3. CASE UNCHANGED <<peer, fdOf, conns>>
    BY <2>1, <2>3
    DEF Owned, OnlyAcceptedAlive, DescriptorsAreCurrent, DescriptorsAreUnique,
        EventsAreFresh, Alive, InMap
  <2>4. QED
    BY <1>1, <2>2, <2>3 DEF HandleNewConnection
<1>2. ASSUME NEW fd \in Fds, HandleMessage(fd)
      PROVE  Owned'
  <2>1. /\ peer' = peer /\ fdOf' = fdOf /\ refs' = refs
        /\ conns' = conns \/ conns' = [conns EXCEPT ![fd] = None]
    BY <1>2 DEF HandleMessage, socketVars
  <2>2. /\ events' \subseteq events
        /\ \A e \in events' : e.kind = "message" => e.fd # fd
    BY <1>2, HandledMessage DEF Owned
  <2>3. conns \in [Fds -> Clients \cup {None}]
    BY LoopTypes DEF TypeOK
  <2>4. \A f \in Fds : f # fd \/ conns'[f] # None => conns'[f] = conns[f]
    BY <2>1, <2>3
  <2>5. \A c \in Clients : Alive(c)' => Alive(c)
    BY <2>1, <2>4, LoopAssumption DEF Alive, InMap
  <2>6. ASSUME NEW e \in events', e.kind = "message" PROVE conns'[e.fd] = e.of
    <3>1. e \in AllEvents /\ conns[e.fd] = e.of /\ e.fd # fd
      BY <2>2, <2>6, LoopTypes DEF TypeOK, Owned, DescriptorsAreCurrent, EventsAreFresh
    <3>2. e.fd \in Fds
      BY <2>6, <3>1, MessageFields
    <3>3. QED
      BY <2>4, <3>1, <3>2
  <2>7. QED
    BY <2>1, <2>4, <2>5, <2>6, FewerAlive
<1>3. CASE LoopControl
  <2>1. /\ peer' = peer /\ fdOf' = fdOf /\ refs' = refs /\ conns' = conns
        /\ events' = events \/ events' = Ready
    BY <1>3 DEF LoopControl, socketVars, Start, TestLooping, EpollWait
  <2>2. \A e \in events' : e.kind = "message" => conns'[e.fd] = e.of
    BY <2>1, ReadyTyped DEF Owned, DescriptorsAreCurrent, EventsAreFresh
  <2>3. \A c \in Clients : Alive(c)' => Alive(c)
    BY <2>1 DEF Alive, InMap
  <2>4. QED
    BY <2>1, <2>2, <2>3, FewerAlive
<1>4. CASE MessageHandled
  <2>1. /\ peer' = peer /\ fdOf' = fdOf /\ conns' = conns /\ events' = events
        /\ refs' = [refs EXCEPT ![cur] = @ + 1]
    BY <1>4 DEF MessageHandled, socketVars
  <2>2. cur \in Clients /\ Alive(cur)
    BY <1>4 DEF MessageHandled, LoopInv, Alive
  <2>3. refs \in [Clients -> Nat]
    BY LoopTypes DEF TypeOK
  <2>4. \A c \in Clients : Alive(c)' => Alive(c)
    BY <2>1, <2>2, <2>3 DEF Alive, InMap
  <2>5. QED
    BY <2>1, <2>4, FewerAlive DEF Owned, DescriptorsAreCurrent, EventsAreFresh
<1>5. CASE ReadLine \/ HandleRead \/ SwapPending \/ RunFunctor
  <2>1. /\ peer' = peer /\ fdOf' = fdOf /\ conns' = conns /\ events' \subseteq events
        /\ refs' = refs
    BY <1>5 DEF ReadLine, HandleRead, SwapPending, RunFunctor, Handle, socketVars
  <2>2. \A c \in Clients : Alive(c)' => Alive(c)
    BY <2>1 DEF Alive, InMap
  <2>3. QED
    BY <2>1, <2>2, FewerAlive DEF Owned, DescriptorsAreCurrent, EventsAreFresh
<1>6. CASE ClientStep
  <2>1. fdOf' = fdOf /\ conns' = conns /\ events' = events /\ refs' = refs
    BY <1>6 DEF ClientStep
  <2>2. \A c \in Clients : peer[c] = "accepted" => peer'[c] = "accepted"
    <3>1. PICK d \in Clients : Connect(d) \/ SendHalfLine(d) \/ HangUp(d)
      BY <1>6 DEF ClientStep
    <3>2. peer' = peer \/ (peer[d] = "away" /\ peer' = [peer EXCEPT ![d] = "waiting"])
      BY <3>1 DEF Connect, SendHalfLine, HangUp
    <3>3. peer \in [Clients -> {"away", "waiting", "accepted"}]
      BY LoopTypes DEF TypeOK
    <3>4. QED
      BY <3>2, <3>3
  <2>3. \A c \in Clients : Alive(c)' => Alive(c)
    BY <2>1 DEF Alive, InMap
  <2>4. QED
    BY <2>1, <2>2, <2>3, FewerAlive DEF Owned, DescriptorsAreCurrent, EventsAreFresh
<1>7. CASE WorkerOrStopper \/ UNCHANGED vars
  <2>1. peer' = peer /\ fdOf' = fdOf /\ conns' = conns /\ events' = events
    BY <1>7, LoopLeftAlone
  <2>2. refs' = refs \/ \E c : refs' = [refs EXCEPT ![c] = @ - 1]
    BY <1>7 DEF WorkerOrStopper, StopCall, StopperStep, StopDrain, StopClose, StopJoin,
       StopLoop, Unloop, TakeTask, Process, SendInLoop, PushPending, WakeLoop, WakeUp,
       FinishTask, Release, ProcessThrows, Terminate, vars, loopVars, socketVars
  <2>3. refs \in [Clients -> Nat] /\ refs' \in [Clients -> Nat]
    <3>1. LoopTypeOK /\ LoopTypeOK'
      BY DEF TypeOK
    <3>2. refs \in [Clients -> Nat]
      BY <3>1, LoopTypes
    <3>3. refs' \in [Clients -> Nat]
      BY <3>1 DEF LoopTypeOK
    <3>4. QED
      BY <3>2, <3>3
  <2>4. \A c \in Clients : refs'[c] > 0 => refs[c] > 0
    <3>1. CASE refs' = refs
      BY <3>1
    <3>2. CASE \E c : refs' = [refs EXCEPT ![c] = @ - 1]
      <4>1. PICK d : refs' = [refs EXCEPT ![d] = @ - 1]
        BY <3>2
      <4>2. \A c \in Clients : refs[c] \in Nat /\ refs'[c] = IF c = d THEN refs[c] - 1 ELSE refs[c]
        BY <2>3, <4>1
      <4>3. QED
        BY <4>2
    <3>3. QED
      BY <2>2, <3>1, <3>2
  <2>5. \A c \in Clients : Alive(c)' => Alive(c)
    BY <2>1, <2>4 DEF Alive, InMap
  <2>6. QED
    BY <2>1, <2>5, FewerAlive DEF Owned, DescriptorsAreCurrent, EventsAreFresh
<1>8. QED
  BY <1>1, <1>2, <1>3, <1>4, <1>5, <1>6, <1>7, NextCasesByThread DEF OnMessage
-----------------------------------------------------------------------------
(* The pool's tasks.                                                        *)
LEMMA PoolTypes ==
  ASSUME TypeOK
  PROVE  /\ log \in Seq(Queries) /\ Len(log) \in Nat
         /\ head \in Nat /\ head <= Len(log)
         /\ held \in [Workers -> Queries \cup {None}] /\ done \subseteq Queries
         /\ wpc \in [Workers -> WorkerAt]
         /\ None \notin Queries
BY ServerAssumption DEF TypeOK

LEMMA Submitted ==
  ASSUME TypeOK, LoopInv, OnMessage
  PROVE  /\ cur \in Clients /\ CurrentQuery \in Queries
         /\ \A i \in 1..Len(log) : log[i] # CurrentQuery
         /\ log' \in Seq(Queries) /\ Len(log') = Len(log) + 1
         /\ \A i \in 1..Len(log) : log'[i] = log[i]
         /\ log'[Len(log) + 1] = CurrentQuery
         /\ head' = head /\ held' = held /\ done' = done /\ wpc' = wpc
<1>1. cur \in Clients /\ CurrentQuery \in Queries
  BY CurrentQueryTyped DEF OnMessage, MessageHandled
<1>2. /\ \A i \in 1..Len(log) : log[i] # CurrentQuery
      /\ log' = Append(log, CurrentQuery)
      /\ head' = head /\ held' = held /\ done' = done /\ wpc' = wpc
  BY DEF OnMessage, Pool!Submit, Pool!Pushed
<1>3. QED
  BY <1>1, <1>2, AppendEffect, PoolTypes

LEMMA Taken ==
  ASSUME TypeOK, TaskInv, NEW w \in Workers, TakeTask(w)
  PROVE  /\ held[w] = None /\ head' = head + 1 /\ head + 1 \in 1..Len(log)
         /\ log[head + 1] \in Queries /\ ~Popped(log[head + 1])
         /\ log' = log /\ done' = done
         /\ held' = [held EXCEPT ![w] = log[head + 1]]
         /\ wpc' = [wpc EXCEPT ![w] = "query"]
<1>1. /\ held[w] = None /\ head' = head + 1 /\ Len(log) - head > 0
      /\ log' = log /\ done' = done
      /\ held' = [held EXCEPT ![w] = log[head + 1]]
      /\ wpc' = [wpc EXCEPT ![w] = "query"]
  BY DEF TakeTask, Goes, Pool!Take, Pool!Backlog
<1>2. head + 1 \in 1..Len(log)
  BY <1>1, PoolTypes
<1>3. log[head + 1] \in Queries
  BY <1>2, PoolTypes
<1>4. ASSUME NEW i \in 1..head, log[i] = log[head + 1] PROVE FALSE
  <2>1. i \in 1..Len(log) /\ i # head + 1
    BY PoolTypes
  <2>2. QED
    BY <1>2, <1>4, <2>1 DEF TaskInv
<1>5. QED
  BY <1>1, <1>2, <1>3, <1>4 DEF Popped

(* The steps between a worker's task's first and its last.                  *)
LEMMA InProcess ==
  ASSUME TypeOK, NEW w \in Workers,
         Process(w) \/ SendInLoop(w) \/ WakeLoop(w) \/ ProcessThrows(w)
  PROVE  /\ log' = log /\ head' = head /\ held' = held /\ done' = done /\ wpc[w] # "idle"
         /\ wpc'[w] # "idle" /\ \A v \in Workers : v # w => wpc'[v] = wpc[v]
<1>1. log' = log /\ head' = head /\ held' = held /\ done' = done
  BY DEF Process, SendInLoop, WakeLoop, ProcessThrows, poolVars
<1>2. \/ wpc' = wpc /\ wpc[w] = "query"
      \/ wpc[w] # "idle"
         /\ \E at \in {"post", "release", "wake"} : wpc' = [wpc EXCEPT ![w] = at]
  BY DEF Process, SendInLoop, WakeLoop, ProcessThrows, Goes
<1>3. QED
  BY <1>1, <1>2, PoolTypes

LEMMA Finished ==
  ASSUME TypeOK, TaskInv, NEW w \in Workers, FinishTask(w)
  PROVE  /\ held[w] \in Queries /\ wpc[w] = "release"
         /\ log' = log /\ head' = head /\ done' = done \cup {held[w]}
         /\ held' = [held EXCEPT ![w] = None]
         /\ wpc' = [wpc EXCEPT ![w] = "idle"]
         /\ refs' = [refs EXCEPT ![held[w][1]] = @ - 1]
<1>1. /\ held[w] # None /\ wpc[w] = "release"
      /\ log' = log /\ head' = head /\ done' = done \cup {held[w]}
      /\ held' = [held EXCEPT ![w] = None]
      /\ wpc' = [wpc EXCEPT ![w] = "idle"]
      /\ refs' = [refs EXCEPT ![held[w][1]] = @ - 1]
  BY DEF FinishTask, Goes, Pool!Finish, Release
<1>2. QED
  BY <1>1, PoolTypes

LEMMA TasksLeftAlone ==
  ASSUME Others \/ StopCall \/ StopperStep \/ UNCHANGED vars
  PROVE  /\ log' = log /\ head' = head /\ held' = held /\ done' = done /\ wpc' = wpc
BY DEF Others, StopCall, StopperStep, StopDrain, StopClose, StopJoin, StopLoop,
       StopperGoes, Pool!Close, vars, poolVars

LEMMA StepTaskInv ==
  ASSUME TypeOK, LoopInv, TaskInv, [Next]_vars
  PROVE  TaskInv'
<1>1. CASE OnMessage
  <2>1. /\ \A i \in 1..Len(log) : log[i] # CurrentQuery
        /\ Len(log') = Len(log) + 1
        /\ \A i \in 1..Len(log) : log'[i] = log[i]
        /\ log'[Len(log) + 1] = CurrentQuery
        /\ head' = head /\ held' = held /\ done' = done /\ wpc' = wpc
    BY <1>1, Submitted
  <2>2. Len(log) \in Nat /\ head \in Nat /\ head <= Len(log)
    BY PoolTypes
  <2>3. \A i, j \in 1..Len(log') : log'[i] = log'[j] => i = j
    <3>1. \A i \in 1..Len(log') : i \in 1..Len(log) \/ i = Len(log) + 1
      BY <2>1, <2>2
    <3>2. QED
      BY <2>1, <3>1 DEF TaskInv
  <2>4. \A i \in 1..head : i \in 1..Len(log) /\ log'[i] = log[i]
    BY <2>1, <2>2
  <2>5. \A q : Popped(q)' <=> Popped(q)
    BY <2>1, <2>4 DEF Popped
  <2>6. QED
    BY <2>1, <2>3, <2>4, <2>5 DEF TaskInv, InHands
<1>2. ASSUME NEW w \in Workers, TakeTask(w) PROVE TaskInv'
  <2>0. PICK q : q = log[head + 1]
    OBVIOUS
  <2>1. /\ held[w] = None /\ head' = head + 1 /\ head + 1 \in 1..Len(log)
        /\ q \in Queries /\ ~Popped(q) /\ log' = log /\ done' = done
        /\ held' = [held EXCEPT ![w] = q] /\ wpc' = [wpc EXCEPT ![w] = "query"]
    BY <1>2, <2>0, Taken
  <2>2. /\ held'[w] = q /\ \A v \in Workers : v # w => held'[v] = held[v]
        /\ wpc'[w] = "query" /\ \A v \in Workers : v # w => wpc'[v] = wpc[v]
        /\ q # None /\ head \in Nat
    BY <2>1, PoolTypes
  <2>3. \A r : Popped(r)' <=> Popped(r) \/ r = q
    <3>1. \A i : i \in 1..head' <=> i \in 1..head \/ i = head + 1
      BY <2>1, <2>2
    <3>2. QED
      BY <2>0, <2>1, <3>1 DEF Popped
  <2>4. q \notin done
    BY <2>1 DEF TaskInv
  <2>5. \A v \in Workers : held[v] # q
    BY <2>1, <2>2 DEF TaskInv
  <2>6. \A i \in 1..head' : log'[i] \in done' \/ InHands(log[i])'
    <3>1. ASSUME NEW i \in 1..head PROVE log[i] \in done \/ InHands(log[i])'
      <4>1. i \in 1..Len(log) /\ log[i] # None
        BY PoolTypes
      <4>2. ASSUME NEW v \in Workers, held[v] = log[i] PROVE InHands(log[i])'
        BY <2>1, <2>2, <4>1, <4>2 DEF InHands
      <4>3. QED
        BY <2>1, <4>2 DEF TaskInv, InHands
    <3>2. InHands(q)'
      BY <2>2 DEF InHands
    <3>3. \A i : i \in 1..head' <=> i \in 1..head \/ i = head + 1
      BY <2>1, <2>2
    <3>4. QED
      BY <2>0, <2>1, <3>1, <3>2, <3>3
  <2>7. QED
    BY <2>1, <2>2, <2>3, <2>4, <2>5, <2>6 DEF TaskInv, Popped
<1>3. ASSUME NEW w \in Workers,
             Process(w) \/ SendInLoop(w) \/ WakeLoop(w) \/ ProcessThrows(w)
      PROVE  TaskInv'
  <2>1. /\ log' = log /\ head' = head /\ held' = held /\ done' = done /\ wpc[w] # "idle"
        /\ wpc'[w] # "idle" /\ \A v \in Workers : v # w => wpc'[v] = wpc[v]
    BY <1>3, InProcess
  <2>2. QED
    BY <2>1 DEF TaskInv, Popped, InHands
<1>4. ASSUME NEW w \in Workers, FinishTask(w) PROVE TaskInv'
  <2>1. /\ held[w] \in Queries /\ log' = log /\ head' = head /\ done' = done \cup {held[w]}
        /\ held' = [held EXCEPT ![w] = None] /\ wpc' = [wpc EXCEPT ![w] = "idle"]
        /\ wpc[w] = "release"
    BY <1>4, Finished
  <2>2. /\ held'[w] = None /\ \A v \in Workers : v # w => held'[v] = held[v]
        /\ wpc'[w] = "idle" /\ \A v \in Workers : v # w => wpc'[v] = wpc[v]
        /\ held[w] # None
    BY <2>1, PoolTypes
  <2>3. \A r : Popped(r)' <=> Popped(r)
    BY <2>1 DEF Popped
  <2>4. Popped(held[w]) /\ \A v \in Workers : v # w => held[v] # held[w]
    BY <2>2 DEF TaskInv
  <2>5. \A i \in 1..head' : log'[i] \in done' \/ InHands(log[i])'
    <3>1. ASSUME NEW i \in 1..head, NEW v \in Workers, held[v] = log[i]
          PROVE  log[i] \in done' \/ \E u \in Workers : held'[u] = log[i]
      BY <2>1, <2>2, <3>1
    <3>2. \A i \in 1..head : log[i] \in done \/ \E v \in Workers : held[v] = log[i]
      BY DEF TaskInv, InHands
    <3>3. \A i \in 1..head : log[i] \in done' \/ \E u \in Workers : held'[u] = log[i]
      BY <2>1, <3>1, <3>2
    <3>4. QED
      BY <2>1, <3>3 DEF InHands
  <2>6. QED
    BY <2>1, <2>2, <2>3, <2>4, <2>5 DEF TaskInv, Popped
<1>5. CASE Others \/ StopCall \/ StopperStep \/ UNCHANGED vars
  BY <1>5, TasksLeftAlone DEF TaskInv, Popped, InHands
<1>6. QED
  BY <1>1, <1>2, <1>3, <1>4, <1>5, NextCases

LEMMA StepRefsInv ==
  ASSUME TypeOK, TypeOK', LoopInv, TaskInv, TaskInv', RefsInv, [Next]_vars
  PROVE  RefsInv'
<1> SUFFICES ASSUME refs' \in [Clients -> Nat],
                    NEW c \in Clients
             PROVE  refs'[c] = Cardinality(Queued(c)') + Cardinality(InHand(c)')
  <2>1. refs' \in [Clients -> Nat]
    BY DEF TypeOK, LoopTypeOK
  <2>2. QED
    BY <2>1 DEF RefsInv
<1>1. /\ refs \in [Clients -> Nat] /\ refs[c] \in Nat
      /\ refs[c] = Cardinality(Queued(c)) + Cardinality(InHand(c))
  BY DEF TypeOK, LoopTypeOK, RefsInv
<1>2. /\ IsFiniteSet(Queued(c)) /\ Cardinality(Queued(c)) \in Nat
      /\ IsFiniteSet(InHand(c)) /\ Cardinality(InHand(c)) \in Nat
  BY CountsAreFinite
<1>3. ASSUME log' = log, head' = head, held' = held, refs' = refs
      PROVE  refs'[c] = Cardinality(Queued(c)') + Cardinality(InHand(c)')
  BY <1>1, <1>3 DEF Queued, InHand
<1>4. CASE OnMessage
  <2>1. /\ cur \in Clients
        /\ Len(log') = Len(log) + 1
        /\ \A i \in 1..Len(log) : log'[i] = log[i]
        /\ log'[Len(log) + 1] = CurrentQuery
        /\ head' = head /\ held' = held
    BY <1>4, Submitted
  <2>2. refs' = [refs EXCEPT ![cur] = @ + 1]
    BY <1>4 DEF OnMessage, MessageHandled
  <2>3. InHand(c)' = InHand(c)
    BY <2>1 DEF InHand
  <2>4. Len(log) \in Nat /\ head \in Nat /\ head <= Len(log)
    BY PoolTypes
  <2>5. \A i : i \in (head' + 1)..Len(log') <=> i \in (head + 1)..Len(log) \/ i = Len(log) + 1
    BY <2>1, <2>4
  <2>6. \A i \in (head + 1)..Len(log) : log'[i] = log[i]
    BY <2>1, <2>4
  <2>7. CurrentQuery[1] = cur
    BY DEF CurrentQuery
  <2>8. CASE cur = c
    <3>1. Queued(c)' = Queued(c) \cup {Len(log) + 1}
      BY <2>1, <2>5, <2>6, <2>7, <2>8 DEF Queued
    <3>2. Len(log) + 1 \notin Queued(c)
      BY <2>4 DEF Queued
    <3>3. Cardinality(Queued(c)') = Cardinality(Queued(c)) + 1
      BY <1>2, <3>1, <3>2, CountOneMore
    <3>4. refs'[c] = refs[c] + 1
      BY <1>1, <2>2, <2>8
    <3>5. QED
      BY <1>1, <1>2, <2>3, <3>3, <3>4
  <2>9. CASE cur # c
    <3>1. Queued(c)' = Queued(c)
      BY <2>1, <2>5, <2>6, <2>7, <2>9 DEF Queued
    <3>2. refs'[c] = refs[c]
      BY <1>1, <2>2, <2>9
    <3>3. QED
      BY <1>1, <2>3, <3>1, <3>2
  <2>10. QED
    BY <2>8, <2>9
<1>5. ASSUME NEW w \in Workers, TakeTask(w)
      PROVE  refs'[c] = Cardinality(Queued(c)') + Cardinality(InHand(c)')
  <2> DEFINE q == log[head + 1]
  <2>1. /\ held[w] = None /\ head' = head + 1 /\ head + 1 \in 1..Len(log)
        /\ q \in Queries /\ ~Popped(q) /\ log' = log
        /\ held' = [held EXCEPT ![w] = q]
    BY <1>5, Taken
  <2>2. refs' = refs
    BY <1>5 DEF TakeTask, loopVars
  <2>3. /\ held'[w] = q /\ \A v \in Workers : v # w => held'[v] = held[v]
        /\ q # None /\ head \in Nat /\ Len(log) \in Nat
    BY <2>1, PoolTypes
  <2>4. \A i : i \in (head + 1)..Len(log) <=> i \in (head' + 1)..Len(log') \/ i = head + 1
    BY <2>1, <2>3
  <2>5. head + 1 \notin (head' + 1)..Len(log')
    BY <2>1, <2>3
  <2>6. Queued(c)' = Queued(c) \ {head + 1} /\ (head + 1 \in Queued(c) <=> q[1] = c)
    BY <2>1, <2>4, <2>5 DEF Queued
  <2>7. None \notin Queries
    BY PoolTypes
  <2>8. InHand(c)' = IF q[1] = c THEN InHand(c) \cup {q} ELSE InHand(c)
    <3>1. \A r \in Queries : (\E v \in Workers : held'[v] = r)
                             <=> (\E v \in Workers : held[v] = r) \/ r = q
      BY <2>1, <2>3, <2>7
    <3>2. QED
      BY <2>1, <3>1 DEF InHand
  <2>9. q \notin InHand(c)
    BY <2>1, <2>3 DEF InHand, TaskInv
  <2>10. CASE q[1] = c
    <3>1. Cardinality(Queued(c)') = Cardinality(Queued(c)) - 1
      BY <1>2, <2>6, <2>10, CountOneLess
    <3>2. Cardinality(InHand(c)') = Cardinality(InHand(c)) + 1
      BY <1>2, <2>8, <2>9, <2>10, CountOneMore
    <3>3. QED
      BY <1>1, <1>2, <2>2, <3>1, <3>2
  <2>11. CASE q[1] # c
    <3>1. Queued(c)' = Queued(c)
      BY <2>6, <2>11
    <3>2. QED
      BY <1>1, <2>2, <2>8, <2>11, <3>1
  <2>12. QED
    BY <2>10, <2>11
<1>6. ASSUME NEW w \in Workers,
             Process(w) \/ SendInLoop(w) \/ WakeLoop(w) \/ ProcessThrows(w)
      PROVE  refs'[c] = Cardinality(Queued(c)') + Cardinality(InHand(c)')
  <2>1. log' = log /\ head' = head /\ held' = held
    BY <1>6, InProcess
  <2>2. refs' = refs
    BY <1>6 DEF Process, SendInLoop, WakeLoop, ProcessThrows, PushPending, WakeUp,
                Terminate, loopVars
  <2>3. QED
    BY <1>3, <2>1, <2>2
<1>7. ASSUME NEW w \in Workers, FinishTask(w)
      PROVE  refs'[c] = Cardinality(Queued(c)') + Cardinality(InHand(c)')
  <2> DEFINE q == held[w]
  <2>1. /\ q \in Queries /\ log' = log /\ head' = head
        /\ held' = [held EXCEPT ![w] = None]
        /\ refs' = [refs EXCEPT ![q[1]] = @ - 1]
    BY <1>7, Finished
  <2>2. /\ held'[w] = None /\ \A v \in Workers : v # w => held'[v] = held[v]
        /\ q # None /\ None \notin Queries
    BY <2>1, PoolTypes
  <2>3. Queued(c)' = Queued(c)
    BY <2>1 DEF Queued
  <2>4. \A v \in Workers : v # w => held[v] # q
    BY <2>2 DEF TaskInv
  <2>5. InHand(c)' = InHand(c) \ {q}
    <3>1. \A r \in Queries : (\E v \in Workers : held'[v] = r)
                             <=> (\E v \in Workers : held[v] = r) /\ r # q
      BY <2>1, <2>2, <2>4
    <3>2. QED
      BY <3>1 DEF InHand
  <2>6. CASE q[1] = c
    <3>1. q \in InHand(c)
      BY <2>1, <2>6 DEF InHand
    <3>2. Cardinality(InHand(c)') = Cardinality(InHand(c)) - 1
      BY <1>2, <2>5, <3>1, CountOneLess
    <3>3. refs'[c] = refs[c] - 1
      BY <1>1, <2>1, <2>6
    <3>4. QED
      BY <1>1, <1>2, <2>3, <3>2, <3>3
  <2>7. CASE q[1] # c
    <3>1. q \notin InHand(c)
      BY <2>7 DEF InHand
    <3>2. InHand(c)' = InHand(c) /\ refs'[c] = refs[c]
      BY <1>1, <2>1, <2>5, <2>7, <3>1
    <3>3. QED
      BY <1>1, <2>3, <3>2
  <2>8. QED
    BY <2>6, <2>7
<1>8. CASE \/ LoopControl /\ Others
           \/ HandleNewConnection /\ Others
           \/ (\E fd \in Fds : HandleMessage(fd) /\ Others)
           \/ ReadLine /\ Others
           \/ HandleRead /\ Others
           \/ SwapPending /\ Others
           \/ RunFunctor /\ Others
           \/ ClientStep /\ Others
           \/ StopCall \/ StopperStep \/ UNCHANGED vars
  <2>1. log' = log /\ head' = head /\ held' = held
    BY <1>8, TasksLeftAlone
  <2>2. refs' = refs
    BY <1>8 DEF LoopControl, HandleNewConnection, HandleMessage, ReadLine, HandleRead,
       SwapPending, RunFunctor, ClientStep, StopCall, StopperStep, StopDrain, StopClose,
       StopJoin, StopLoop, Unloop, vars, loopVars
  <2>3. QED
    BY <1>3, <2>1, <2>2
<1>9. QED
  BY <1>4, <1>5, <1>6, <1>7, <1>8, NextCases
-----------------------------------------------------------------------------
(* The lines.                                                               *)
LEMMA LinesInvIsLinesBecomeQueries ==
  ASSUME TypeOK, LinesInv
  PROVE  LinesBecomeQueries
<1> SUFFICES ASSUME NEW c \in Clients
             PROVE  LET asked == {i \in 1..Len(log) : log[i][1] = c}
                    IN /\ {log[i][2] : i \in asked} = 1..Lines(c)
                       /\ \A i, j \in asked : i < j => log[i][2] < log[j][2]
  BY DEF LinesBecomeQueries, Lines
<1> DEFINE asked == {i \in 1..Len(log) : log[i][1] = c}
<1>1. \A i \in asked : log[i][2] \in 1..Lines(c)
  BY DEF LinesInv
<1>2. \A k \in 1..Lines(c) : \E i \in asked : log[i][2] = k
  BY DEF LinesInv
<1>3. \A i, j \in asked : i < j => log[i][2] < log[j][2]
  BY DEF LinesInv
<1> HIDE DEF asked
<1>4. {log[i][2] : i \in asked} = 1..Lines(c)
  BY <1>1, <1>2
<1>5. QED
  BY <1>3, <1>4 DEF asked

LEMMA OneMoreHalf ==
  ASSUME NEW n \in Nat, n % 2 # 1
  PROVE  /\ (n + 2 + 1) \div 2 = (n + 1) \div 2 + 1
         /\ (n + 1 + 1) \div 2 = (n + 1) \div 2 + 1
OBVIOUS

LEMMA LineTaken ==
  ASSUME TypeOK, LoopInv, ReadLine
  PROVE  /\ cur \in Clients /\ LinesRead(cur)' = LinesRead(cur) + 1
         /\ \A c \in Clients : c # cur => LinesRead(c)' = LinesRead(c)
<1>1. cur \in Clients /\ cur' = cur /\ Unread(cur) > 0
  BY DEF ReadLine, LoopInv
<1>2. /\ sent[cur] \in Nat /\ consumed[cur] \in Nat
      /\ consumed \in [Clients -> 0..2 * MaxLines]
  BY <1>1, LinesType, LoopTypes DEF TypeOK
<1>3. consumed[cur] % 2 # 1
  BY <1>1, <1>2 DEF LoopInv, Unread
<1>4. \/ consumed' = [consumed EXCEPT ![cur] = @ + 2]
      \/ consumed' = [consumed EXCEPT ![cur] = @ + 1]
  <2>1. CASE ~LineReady(cur) /\ consumed' = [consumed EXCEPT ![cur] = sent[cur]]
    <3>1. sent[cur] = consumed[cur] + 1
      BY <1>1, <1>2, <2>1 DEF LineReady, Unread
    <3>2. QED
      BY <2>1, <3>1
  <2>2. QED
    BY <2>1 DEF ReadLine
<1>5. consumed'[cur] = consumed[cur] + 2 \/ consumed'[cur] = consumed[cur] + 1
  BY <1>1, <1>2, <1>4
<1>6. \A c \in Clients : c # cur => consumed'[c] = consumed[c]
  BY <1>2, <1>4
<1>7. (consumed'[cur] + 1) \div 2 = (consumed[cur] + 1) \div 2 + 1
  BY <1>2, <1>3, <1>5, OneMoreHalf
<1>8. QED
  BY <1>1, <1>6, <1>7 DEF LinesRead

LEMMA StepLinesInv ==
  ASSUME TypeOK, LoopInv, LinesInv, [Next]_vars
  PROVE  LinesInv'
<1>1. ASSUME log' = log, \A c \in Clients : Lines(c)' = Lines(c)
      PROVE  LinesInv'
  BY <1>1 DEF LinesInv
<1>2. CASE OnMessage
  <2>1. /\ cur \in Clients
        /\ Len(log') = Len(log) + 1 /\ Len(log) \in Nat
        /\ \A i \in 1..Len(log) : log'[i] = log[i]
        /\ log'[Len(log) + 1] = CurrentQuery
    BY <1>2, Submitted, PoolTypes
  <2>2. CurrentQuery[1] = cur /\ CurrentQuery[2] = LinesRead(cur)
    BY DEF CurrentQuery
  <2>3. lpc = "push" /\ lpc' # "push" /\ consumed' = consumed
    BY <1>2 DEF OnMessage, MessageHandled, After
  <2>4. /\ \A c \in Clients : Lines(c)' = LinesRead(c)
        /\ \A c \in Clients : c # cur => Lines(c) = LinesRead(c)
        /\ Lines(cur) = LinesRead(cur) - 1
    BY <2>3 DEF Lines, LinesRead
  <2>5. LinesRead(cur) \in Nat /\ LinesRead(cur) > 0
    BY <2>1, <2>3, LinesType DEF LoopInv
  <2>6. \A i \in 1..Len(log') : i \in 1..Len(log) \/ i = Len(log) + 1
    BY <2>1
  <2>7. ASSUME NEW c \in Clients
        PROVE  /\ \A i \in 1..Len(log') : log'[i][1] = c => log'[i][2] \in 1..LinesRead(c)
               /\ \A k \in 1..LinesRead(c) :
                    \E i \in 1..Len(log') : log'[i][1] = c /\ log'[i][2] = k
               /\ \A i, j \in 1..Len(log') :
                    log'[i][1] = c /\ log'[j][1] = c /\ i < j => log'[i][2] < log'[j][2]
    <3>0. LinesRead(c) \in Nat
      BY LinesType
    <3>1. CASE c # cur
      <4>1. \A i \in 1..Len(log') :
              log'[i][1] = c => i \in 1..Len(log) /\ log'[i] = log[i]
        BY <2>1, <2>2, <2>6, <3>1
      <4>2. \A i \in 1..Len(log) : i \in 1..Len(log') /\ log'[i] = log[i]
        BY <2>1
      <4>3. Lines(c) = LinesRead(c)
        BY <2>4, <3>1
      <4>4. QED
        BY <4>1, <4>2, <4>3, SMTT(30) DEF LinesInv
    <3>2. CASE c = cur
      <4>1. \A i \in 1..Len(log) : log[i][1] = c => log[i][2] \in 1..(LinesRead(c) - 1)
        BY <2>4, <3>2 DEF LinesInv
      <4>2. \A i \in 1..Len(log') : log'[i][1] = c => log'[i][2] \in 1..LinesRead(c)
        BY <2>1, <2>2, <2>5, <2>6, <3>0, <3>2, <4>1
      <4>3. ASSUME NEW k \in 1..LinesRead(c)
            PROVE  \E i \in 1..Len(log') : log'[i][1] = c /\ log'[i][2] = k
        <5>1. CASE k = LinesRead(c)
          <6>1. Len(log) + 1 \in 1..Len(log')
            BY <2>1
          <6>2. QED
            BY <2>1, <2>2, <3>2, <5>1, <6>1
        <5>2. CASE k # LinesRead(c)
          <6>1. k \in 1..Lines(c)
            BY <2>4, <3>0, <3>2, <5>2
          <6>2. PICK i \in 1..Len(log) : log[i][1] = c /\ log[i][2] = k
            BY <6>1 DEF LinesInv
          <6>3. i \in 1..Len(log')
            BY <2>1
          <6>4. QED
            BY <2>1, <6>2, <6>3
        <5>3. QED
          BY <5>1, <5>2
      <4>4. ASSUME NEW i \in 1..Len(log'), NEW j \in 1..Len(log'),
                   log'[i][1] = c, log'[j][1] = c, i < j
            PROVE  log'[i][2] < log'[j][2]
        <5>1. i \in 1..Len(log) /\ log'[i] = log[i]
          BY <2>1, <4>4
        <5>2. CASE j \in 1..Len(log)
          BY <2>1, <4>4, <5>1, <5>2 DEF LinesInv
        <5>3. CASE j = Len(log) + 1
          <6>1. log'[j][2] = LinesRead(c)
            BY <2>1, <2>2, <3>2, <5>3
          <6>2. log'[i][2] \in 1..(LinesRead(c) - 1)
            BY <4>1, <4>4, <5>1
          <6>3. QED
            BY <3>0, <6>1, <6>2
        <5>4. QED
          BY <2>6, <5>2, <5>3
      <4>5. QED
        BY <4>2, <4>3, <4>4
    <3>3. QED
      BY <3>1, <3>2
  <2>8. QED
    BY <2>4, <2>7 DEF LinesInv
<1>3. CASE ReadLine /\ Others
  <2>1. log' = log /\ lpc = "receive" /\ lpc' = "push" /\ cur' = cur
    BY <1>3, TasksLeftAlone DEF ReadLine
  <2>2. /\ LinesRead(cur)' = LinesRead(cur) + 1 /\ cur \in Clients
        /\ \A c \in Clients : c # cur => LinesRead(c)' = LinesRead(c)
    BY <1>3, LineTaken
  <2>3. LinesRead(cur) \in Nat
    BY <2>2, LinesType
  <2>4. \A c \in Clients : Lines(c)' = Lines(c)
    BY <2>1, <2>2, <2>3 DEF Lines
  <2>5. QED
    BY <1>1, <2>1, <2>4
<1>4. CASE \/ LoopControl /\ Others
           \/ HandleNewConnection /\ Others
           \/ (\E fd \in Fds : HandleMessage(fd) /\ Others)
           \/ HandleRead /\ Others
           \/ SwapPending /\ Others
           \/ RunFunctor /\ Others
  <2>1. log' = log
    BY <1>4, TasksLeftAlone
  <2>2. consumed' = consumed /\ lpc # "push" /\ lpc' # "push"
    BY <1>4 DEF LoopControl, Start, TestLooping, EpollWait, HandleNewConnection, Handle,
       HandleMessage, HandleRead, SwapPending, RunFunctor, After
  <2>3. QED
    BY <1>1, <2>1, <2>2 DEF Lines, LinesRead
<1>5. CASE ClientStep /\ Others
  <2>1. log' = log /\ consumed' = consumed /\ lpc' = lpc /\ cur' = cur
    BY <1>5, TasksLeftAlone DEF ClientStep
  <2>2. QED
    BY <1>1, <2>1 DEF Lines, LinesRead
<1>6. CASE WorkerOrStopper \/ UNCHANGED vars
  <2>1. consumed' = consumed /\ lpc' = lpc /\ cur' = cur
    BY <1>6, LoopLeftAlone
  <2>2. log' = log
    BY <1>6, TasksLeftAlone
    DEF WorkerOrStopper, TakeTask, Process, SendInLoop, WakeLoop, FinishTask, ProcessThrows,
        Pool!Take, Pool!Finish, poolVars
  <2>3. QED
    BY <1>1, <2>1, <2>2 DEF Lines, LinesRead
<1>7. QED
  BY <1>2, <1>3, <1>4, <1>5, <1>6, NextCasesByThread
-----------------------------------------------------------------------------
(* The answers.                                                             *)
LEMMA AnswerTypes ==
  ASSUME TypeOK
  PROVE  /\ pending \in Seq(Queries) /\ todo \in Seq(Queries)
         /\ Len(pending) \in Nat /\ Len(todo) \in Nat
         /\ \A i \in 1..Len(pending) : pending[i] \in Queries
         /\ \A i \in 1..Len(todo) : todo[i] \in Queries
         /\ ran \subseteq Queries
BY LoopTypes DEF TypeOK

LEMMA AnswersLeftAlone ==
  ASSUME \/ (LoopControl \/ HandleNewConnection \/ (\E fd \in Fds : HandleMessage(fd))
               \/ ReadLine \/ HandleRead \/ ClientStep) /\ Others
         \/ StopCall \/ StopperStep
         \/ UNCHANGED vars
  PROVE  /\ pending' = pending /\ todo' = todo /\ ran' = ran
         /\ log' = log /\ head' = head /\ held' = held /\ done' = done /\ wpc' = wpc
<1>1. pending' = pending /\ todo' = todo /\ ran' = ran
  BY DEF LoopControl, HandleNewConnection, HandleMessage, ReadLine, HandleRead, ClientStep,
     StopCall, StopperStep, StopDrain, StopClose, StopJoin, StopLoop, Unloop, vars, loopVars
<1>2. QED
  BY <1>1, TasksLeftAlone

(* Posting puts the answer to a worker's query at the end of pending.       *)
LEMMA PostedLast ==
  ASSUME TypeOK, TaskInv, NEW w \in Workers, SendInLoop(w)
  PROVE  /\ held[w] \in Queries
         /\ pending' \in Seq(Queries) /\ Len(pending') = Len(pending) + 1
         /\ \A i \in 1..Len(pending) : pending'[i] = pending[i]
         /\ pending'[Len(pending) + 1] = held[w]
         /\ todo' = todo /\ ran' = ran
         /\ wpc[w] = "post" /\ wpc'[w] = "wake"
         /\ \A v \in Workers : v # w => wpc'[v] = wpc[v]
<1>1. /\ wpc[w] = "post" /\ wpc' = [wpc EXCEPT ![w] = "wake"]
      /\ pending' = Append(pending, held[w]) /\ todo' = todo /\ ran' = ran
  BY DEF SendInLoop, Goes, PushPending
<1>2. held[w] \in Queries
  BY <1>1, PoolTypes DEF TaskInv
<1>3. pending \in Seq(Queries)
  BY AnswerTypes
<1>4. QED
  BY <1>1, <1>2, <1>3, AppendEffect, PoolTypes

LEMMA FunctorRun ==
  ASSUME TypeOK, LoopInv, RunFunctor
  PROVE  /\ Len(todo) > 0 /\ Len(todo') = Len(todo) - 1
         /\ \A i \in 1..Len(todo') : i + 1 \in 1..Len(todo) /\ todo'[i] = todo[i + 1]
         /\ \A i \in 1..Len(todo) : i = 1 \/ (i - 1 \in 1..Len(todo') /\ todo'[i - 1] = todo[i])
         /\ 1 \in 1..Len(todo)
         /\ ran' = ran \cup {todo[1]} /\ todo[1] \in Queries /\ pending' = pending
<1>1. /\ todo \in Seq(Queries) /\ todo # <<>> /\ todo' = Tail(todo)
      /\ ran' = ran \cup {Head(todo)} /\ pending' = pending
  BY AnswerTypes DEF RunFunctor, LoopInv
<1>2. /\ Len(todo) > 0 /\ Len(todo') = Len(todo) - 1 /\ Len(todo) \in Nat
      /\ \A i \in 1..Len(todo') : todo'[i] = todo[i + 1]
      /\ Head(todo) = todo[1] /\ Head(todo) \in Queries
  BY <1>1, TailEffect
<1>3. \A i \in 1..Len(todo) : i = 1 \/ (i - 1 \in 1..Len(todo') /\ todo'[i - 1] = todo[i])
  BY <1>2
<1>4. QED
  BY <1>1, <1>2, <1>3

LEMMA StepAnswerInv ==
  ASSUME TypeOK, LoopInv, TaskInv, AnswerInv, [Next]_vars
  PROVE  AnswerInv'
<1> USE DEF Answered, Among
<1>1. CASE OnMessage
  <2>1. /\ \A i \in 1..Len(log) : log'[i] = log[i]
        /\ head' = head /\ held' = held /\ done' = done /\ wpc' = wpc
    BY <1>1, Submitted
  <2>2. pending' = pending /\ todo' = todo /\ ran' = ran
    BY <1>1 DEF OnMessage, MessageHandled
  <2>3. \A i \in 1..head : i \in 1..Len(log)
    BY PoolTypes
  <2>4. \A q : Popped(q) => Popped(q)'
    BY <2>1, <2>3 DEF Popped
  <2>5. QED
    BY <2>1, <2>2, <2>4 DEF AnswerInv
<1>2. ASSUME NEW w \in Workers, TakeTask(w) PROVE AnswerInv'
  <2>1. /\ head' = head + 1 /\ log' = log /\ done' = done
        /\ log[head + 1] \in Queries /\ ~Popped(log[head + 1])
        /\ held' = [held EXCEPT ![w] = log[head + 1]] /\ wpc' = [wpc EXCEPT ![w] = "query"]
    BY <1>2, Taken
  <2>2. pending' = pending /\ todo' = todo /\ ran' = ran
    BY <1>2 DEF TakeTask, loopVars
  <2>3. /\ held'[w] = log[head + 1] /\ \A v \in Workers : v # w => held'[v] = held[v]
        /\ wpc'[w] = "query" /\ \A v \in Workers : v # w => wpc'[v] = wpc[v]
    BY <2>1, PoolTypes
  <2>4. \A q : Popped(q) => Popped(q)'
    BY <2>1, PoolTypes DEF Popped
  <2>5. ~Answered(log[head + 1])
    BY <2>1 DEF AnswerInv
  <2>6. \A q \in Queries : Answered(q) => Popped(q)'
    BY <2>4 DEF AnswerInv
  <2>7. \A v \in Workers : wpc'[v] \in {"query", "post"} => ~Answered(held'[v])
    BY <2>3, <2>5 DEF AnswerInv
  <2>8. Service = "web" => \A v \in Workers : wpc'[v] \in {"wake", "release"} => Answered(held'[v])
    BY <2>3 DEF AnswerInv
  <2>9. Service = "key" => \A v \in Workers : wpc'[v] \notin {"post", "wake"}
    BY <2>3 DEF AnswerInv
  <2>10. QED
    BY <2>1, <2>2, <2>6, <2>7, <2>8, <2>9 DEF AnswerInv
<1>3. ASSUME NEW w \in Workers, Process(w) \/ WakeLoop(w) \/ ProcessThrows(w)
      PROVE  AnswerInv'
  <2>1. log' = log /\ head' = head /\ held' = held /\ done' = done
    BY <1>3, InProcess
  <2>2. pending' = pending /\ todo' = todo /\ ran' = ran
    BY <1>3 DEF Process, WakeLoop, WakeUp, ProcessThrows, Terminate, loopVars
  <2>3. /\ \A v \in Workers : v # w => wpc'[v] = wpc[v]
        /\ \/ wpc'[w] = wpc[w]
           \/ wpc[w] = "query" /\ wpc'[w] = IF Service = "web" THEN "post" ELSE "release"
           \/ wpc[w] = "wake" /\ wpc'[w] = "release"
    BY <1>3, PoolTypes DEF Process, WakeLoop, ProcessThrows, Goes
  <2>4. Service \in {"web", "key"}
    BY ServerAssumption
  <2>5. \A q \in Queries : Popped(q) => Popped(q)'
    BY <2>1 DEF Popped
  <2>6. /\ \A v \in Workers : wpc'[v] \in {"query", "post"} => wpc[v] \in {"query", "post"}
        /\ Service = "web" =>
             \A v \in Workers : wpc'[v] \in {"wake", "release"} => wpc[v] \in {"wake", "release"}
        /\ Service = "key" => \A v \in Workers : wpc'[v] \in {"post", "wake"} => wpc[v] \in {"post", "wake"}
    BY <2>3, <2>4
  <2>7. QED
    BY <2>1, <2>2, <2>5, <2>6 DEF AnswerInv
<1>4. ASSUME NEW w \in Workers, SendInLoop(w) PROVE AnswerInv'
  <2>0. PICK q : q = held[w]
    OBVIOUS
  <2>1. log' = log /\ head' = head /\ held' = held /\ done' = done
    BY <1>4, InProcess
  <2>2. /\ q \in Queries /\ Len(pending) \in Nat
        /\ Len(pending') = Len(pending) + 1
        /\ \A i \in 1..Len(pending) : pending'[i] = pending[i]
        /\ pending'[Len(pending) + 1] = q /\ todo' = todo /\ ran' = ran
        /\ wpc[w] = "post" /\ wpc'[w] = "wake"
        /\ \A v \in Workers : v # w => wpc'[v] = wpc[v]
    BY <1>4, <2>0, PostedLast, AnswerTypes
  <2>3. \A i : i \in 1..Len(pending') <=> i \in 1..Len(pending) \/ i = Len(pending) + 1
    BY <2>2
  <2>4. ~Answered(q) /\ Popped(q) /\ Service = "web"
    <3>1. q # None /\ Service \in {"web", "key"}
      BY <2>2, PoolTypes, ServerAssumption
    <3>2. QED
      BY <2>0, <2>2, <3>1 DEF AnswerInv, TaskInv
  <2>5. \A r : Answered(r)' <=> Answered(r) \/ r = q
    BY <2>2, <2>3
  <2>6. \A i \in 1..Len(pending) : pending'[i] = pending[i] /\ pending[i] # q
    BY <2>2, <2>4
  <2>7. \A i, j \in 1..Len(pending') : pending'[i] = pending'[j] => i = j
    BY <2>2, <2>3, <2>6 DEF AnswerInv
  <2>8. \A i \in 1..Len(pending') : ~Among(pending'[i], todo) /\ pending'[i] \notin ran
    BY <2>2, <2>3, <2>4, <2>6 DEF AnswerInv
  <2>9. \A r \in Queries : Answered(r)' => Popped(r)'
    BY <2>1, <2>4, <2>5 DEF AnswerInv, Popped
  <2>10. \A v \in Workers : wpc'[v] \in {"query", "post"} =>
           wpc[v] \in {"query", "post"} /\ ~Answered(held[v]) /\ held[v] # q
    <3>1. \A v \in Workers : wpc[v] \in {"query", "post"} /\ v # w => held[v] # None /\ held[v] # q
      BY <2>0 DEF TaskInv
    <3>2. QED
      BY <2>2, <3>1 DEF AnswerInv
  <2>11. \A v \in Workers : wpc'[v] \in {"wake", "release"} => Answered(held[v]) \/ held[v] = q
    BY <2>0, <2>2, <2>4 DEF AnswerInv
  <2>12. \A r \in done : Answered(r)
    BY <2>4 DEF AnswerInv
  <2>13. \A v \in Workers : wpc'[v] \in {"query", "post"} => ~Answered(held[v])'
    BY <2>1, <2>5, <2>10
  <2>14. \A v \in Workers : wpc'[v] \in {"wake", "release"} => Answered(held[v])'
    BY <2>1, <2>5, <2>11
  <2>15. \A r \in done' : Answered(r)'
    BY <2>1, <2>5, <2>12
  <2>16. Service # "key"
    BY <2>4
  <2>17. /\ \A i, j \in 1..Len(todo') : todo'[i] = todo'[j] => i = j
         /\ \A i \in 1..Len(todo') : todo'[i] \notin ran'
    BY <2>2 DEF AnswerInv
  <2>18. \A i \in 1..Len(pending') : ~Among(pending[i], todo)' /\ pending'[i] \notin ran'
    BY <2>2, <2>8
  <2>19. QED
    BY <2>7, <2>9, <2>13, <2>14, <2>15, <2>16, <2>17, <2>18 DEF AnswerInv
<1>5. ASSUME NEW w \in Workers, FinishTask(w) PROVE AnswerInv'
  <2>1. /\ held[w] \in Queries /\ wpc[w] = "release"
        /\ log' = log /\ head' = head /\ done' = done \cup {held[w]}
        /\ held' = [held EXCEPT ![w] = None] /\ wpc' = [wpc EXCEPT ![w] = "idle"]
    BY <1>5, Finished
  <2>2. pending' = pending /\ todo' = todo /\ ran' = ran
    BY <1>5 DEF FinishTask, Release
  <2>3. /\ wpc'[w] = "idle"
        /\ \A v \in Workers : v # w => wpc'[v] = wpc[v] /\ held'[v] = held[v]
    BY <2>1, PoolTypes
  <2>4. \A q : Popped(q) => Popped(q)'
    BY <2>1 DEF Popped
  <2>5. Service = "web" => Answered(held[w])
    BY <2>1 DEF AnswerInv
  <2>6. \A v \in Workers : wpc'[v] # "idle" => wpc'[v] = wpc[v] /\ held'[v] = held[v]
    BY <2>3
  <2>7. /\ \A v \in Workers : wpc'[v] \in {"query", "post"} => ~Answered(held'[v])
        /\ Service = "web" => \A v \in Workers : wpc'[v] \in {"wake", "release"} => Answered(held'[v])
        /\ Service = "key" => \A v \in Workers : wpc'[v] \notin {"post", "wake"}
    BY <2>6 DEF AnswerInv
  <2>8. Service = "web" => \A q \in done' : Answered(q)
    BY <2>1, <2>5 DEF AnswerInv
  <2>9. QED
    BY <2>2, <2>4, <2>7, <2>8 DEF AnswerInv
<1>6. CASE SwapPending /\ Others
  <2>1. log' = log /\ head' = head /\ held' = held /\ done' = done /\ wpc' = wpc
    BY <1>6, TasksLeftAlone
  <2>2. todo = <<>> /\ todo' = pending /\ pending' = <<>> /\ ran' = ran
    BY <1>6 DEF SwapPending, LoopInv
  <2>3. \A q : Answered(q)' <=> Answered(q)
    BY <2>2
  <2>4. \A q : Popped(q)' <=> Popped(q)
    BY <2>1 DEF Popped
  <2>5. /\ \A i, j \in 1..Len(todo') : todo'[i] = todo'[j] => i = j
        /\ \A i \in 1..Len(todo') : todo'[i] \notin ran'
        /\ \A i : i \notin 1..Len(pending')
    BY <2>2 DEF AnswerInv
  <2>6. /\ \A q \in Queries : Answered(q)' => Popped(q)'
        /\ \A w \in Workers : wpc'[w] \in {"query", "post"} => ~Answered(held[w])'
        /\ Service = "web" =>
             /\ \A w \in Workers : wpc'[w] \in {"wake", "release"} => Answered(held[w])'
             /\ \A q \in done' : Answered(q)'
        /\ Service = "key" => \A w \in Workers : wpc'[w] \notin {"post", "wake"}
    BY <2>1, <2>3, <2>4 DEF AnswerInv
  <2>7. QED
    BY <2>5, <2>6 DEF AnswerInv
<1>7. CASE RunFunctor /\ Others
  <2>1. log' = log /\ head' = head /\ held' = held /\ done' = done /\ wpc' = wpc
    BY <1>7, TasksLeftAlone
  <2>2. /\ \A i \in 1..Len(todo') : i + 1 \in 1..Len(todo) /\ todo'[i] = todo[i + 1]
        /\ \A i \in 1..Len(todo) : i = 1 \/ (i - 1 \in 1..Len(todo') /\ todo'[i - 1] = todo[i])
        /\ 1 \in 1..Len(todo) /\ ran' = ran \cup {todo[1]} /\ pending' = pending
    BY <1>7, FunctorRun
  <2>3. \A q : Answered(q)' <=> Answered(q)
    BY <2>2, SMTT(30)
  <2>4. \A q : Popped(q)' <=> Popped(q)
    BY <2>1 DEF Popped
  <2>5. /\ \A i, j \in 1..Len(todo') : todo'[i] = todo'[j] => i = j
        /\ \A i \in 1..Len(todo') : todo'[i] \notin ran'
    <3>1. ASSUME NEW i \in 1..Len(todo'), NEW j \in 1..Len(todo'), todo'[i] = todo'[j]
          PROVE  i = j
      <4>1. i + 1 \in 1..Len(todo) /\ j + 1 \in 1..Len(todo) /\ todo[i + 1] = todo[j + 1]
        BY <2>2, <3>1
      <4>2. i + 1 = j + 1
        BY <4>1 DEF AnswerInv
      <4>3. QED
        BY <4>2
    <3>2. ASSUME NEW i \in 1..Len(todo') PROVE todo'[i] \notin ran'
      <4>1. i + 1 \in 1..Len(todo) /\ todo'[i] = todo[i + 1] /\ i + 1 # 1
        BY <2>2
      <4>2. todo[i + 1] \notin ran /\ todo[i + 1] # todo[1]
        BY <2>2, <4>1 DEF AnswerInv
      <4>3. QED
        BY <2>2, <4>1, <4>2
    <3>3. QED
      BY <3>1, <3>2
  <2>6. /\ \A i, j \in 1..Len(pending') : pending'[i] = pending'[j] => i = j
        /\ \A i \in 1..Len(pending') : ~Among(pending[i], todo)' /\ pending'[i] \notin ran'
    BY <2>2 DEF AnswerInv
  <2>7. /\ \A q \in Queries : Answered(q)' => Popped(q)'
        /\ \A w \in Workers : wpc'[w] \in {"query", "post"} => ~Answered(held[w])'
        /\ Service = "web" =>
             /\ \A w \in Workers : wpc'[w] \in {"wake", "release"} => Answered(held[w])'
             /\ \A q \in done' : Answered(q)'
        /\ Service = "key" => \A w \in Workers : wpc'[w] \notin {"post", "wake"}
    BY <2>1, <2>3, <2>4 DEF AnswerInv
  <2>8. QED
    BY <2>5, <2>6, <2>7 DEF AnswerInv
<1>8. CASE \/ (LoopControl \/ HandleNewConnection \/ (\E fd \in Fds : HandleMessage(fd))
                 \/ ReadLine \/ HandleRead \/ ClientStep) /\ Others
           \/ StopCall \/ StopperStep \/ UNCHANGED vars
  BY <1>8, AnswersLeftAlone DEF AnswerInv, Popped
<1>9. QED
  BY <1>1, <1>2, <1>3, <1>4, <1>5, <1>6, <1>7, <1>8, NextCases

LEMMA StepPendingIsAnnounced ==
  ASSUME TypeOK, PendingIsAnnounced, [Next]_vars
  PROVE  PendingIsAnnounced'
<1>1. wpc \in [Workers -> WorkerAt]
  BY PoolTypes
<1>2. ASSUME pending' = pending, lpc = "swap" => lpc' = "swap",
             signalled => signalled' \/ lpc' = "swap",
             \A w \in Workers : wpc[w] = "wake" => wpc'[w] = "wake" \/ signalled'
      PROVE  PendingIsAnnounced'
  BY <1>2 DEF PendingIsAnnounced
<1>3. ASSUME NEW w \in Workers,
             TakeTask(w) \/ Process(w) \/ WakeLoop(w) \/ FinishTask(w) \/ ProcessThrows(w)
      PROVE  PendingIsAnnounced'
  <2>1. pending' = pending /\ lpc' = lpc /\ (signalled' = signalled \/ signalled' = TRUE)
    BY <1>3 DEF TakeTask, Process, WakeLoop, WakeUp, FinishTask, Release, ProcessThrows,
       Terminate, loopVars
  <2>2. \A v \in Workers : wpc[v] = "wake" => wpc'[v] = "wake" \/ signalled'
    BY <1>1, <1>3 DEF TakeTask, Process, WakeLoop, WakeUp, FinishTask, ProcessThrows, Goes
  <2>3. QED
    BY <1>2, <2>1, <2>2
<1>4. ASSUME NEW w \in Workers, SendInLoop(w) PROVE PendingIsAnnounced'
  BY <1>1, <1>4 DEF SendInLoop, Goes, PendingIsAnnounced
<1>5. CASE SwapPending
  BY <1>5 DEF SwapPending, PendingIsAnnounced
<1>6. CASE HandleRead
  BY <1>6 DEF HandleRead, PendingIsAnnounced
<1>7. CASE \/ (LoopControl \/ HandleNewConnection \/ (\E fd \in Fds : HandleMessage(fd))
                 \/ ReadLine \/ RunFunctor \/ ClientStep) /\ Others
           \/ OnMessage \/ StopCall \/ StopperStep
           \/ UNCHANGED vars
  <2>1. pending' = pending /\ signalled' = signalled /\ (lpc = "swap" => lpc' = "swap")
    BY <1>7 DEF LoopControl, Start, TestLooping, EpollWait, HandleNewConnection,
       HandleMessage, Handle, ReadLine, OnMessage, MessageHandled, RunFunctor, ClientStep,
       StopCall, StopperStep, StopDrain, StopClose, StopJoin, StopLoop, Unloop, vars, loopVars
  <2>2. wpc' = wpc
    BY <1>7, TasksLeftAlone DEF OnMessage
  <2>3. QED
    BY <1>2, <2>1, <2>2
<1>8. QED
  BY <1>3, <1>4, <1>5, <1>6, <1>7, NextCases
-----------------------------------------------------------------------------
LEMMA InitIInv == Init => IInv
<1> SUFFICES ASSUME Init PROVE IInv
  OBVIOUS
<1> USE DEF Init, LoopInit, Pool!Init
<1>1. /\ log = <<>> /\ Len(log) = 0 /\ head = 0 /\ done = {} /\ 1..head = {}
      /\ pending = <<>> /\ Len(pending) = 0 /\ todo = <<>> /\ Len(todo) = 0
      /\ \A w \in Workers : held[w] = None /\ wpc[w] = "idle"
      /\ lpc = "start" /\ events = {} /\ cur = None /\ ran = {}
  OBVIOUS
<1>2. TypeOK
  <2>1. LoopTypeOK
    <3>1. 0 \in 0..2 * MaxLines
      BY LoopAssumption
    <3>2. /\ sent \in [Clients -> 0..2 * MaxLines] /\ consumed \in [Clients -> 0..2 * MaxLines]
          /\ refs \in [Clients -> Nat] /\ fdOf \in [Clients -> Fds \cup {NoFd}]
          /\ conns \in [Fds -> Clients \cup {None}] /\ got \in [Clients -> SUBSET Queries]
          /\ peer \in [Clients -> {"away", "waiting", "accepted"}]
          /\ ended \in [Clients -> {"no", "fin", "rst"}]
      BY <3>1
    <3>3. /\ pending \in Seq(Queries) /\ todo \in Seq(Queries) /\ ran \subseteq Queries
          /\ events \subseteq AllEvents /\ cur \in Clients \cup {None} /\ lpc \in LoopAt
      BY <1>1 DEF LoopAt
    <3>4. signalled \in BOOLEAN /\ looping \in BOOLEAN /\ up \in BOOLEAN
      OBVIOUS
    <3>5. QED
      BY <3>2, <3>3, <3>4, LoopTypes
  <2>2. flag \in BOOLEAN
    BY ServerAssumption
  <2>3. QED
    BY <2>1, <2>2 DEF TypeOK, WorkerAt, StopperAt
<1>3. LoopInv
  BY <1>1 DEF LoopInv
<1>4. \A c \in Clients : ~Alive(c)
  BY LoopAssumption DEF Alive, InMap
<1>5. Owned
  BY <1>1, <1>4 DEF Owned, OnlyAcceptedAlive, DescriptorsAreCurrent, DescriptorsAreUnique,
     EventsAreFresh
<1>6. TaskInv
  BY <1>1 DEF TaskInv, Popped, InHands
<1>7. RefsInv
  <2>1. ASSUME NEW c \in Clients PROVE Queued(c) = {} /\ InHand(c) = {}
    BY <1>1, PoolTypes, <1>2 DEF Queued, InHand
  <2>2. Cardinality({}) + Cardinality({}) = 0
    BY FS_EmptySet
  <2>3. QED
    BY <2>1, <2>2 DEF RefsInv
<1>8. LinesInv
  BY <1>1 DEF LinesInv, Lines, LinesRead
<1>9. AnswerInv
  BY <1>1 DEF AnswerInv, Answered, Among
<1>10. PendingIsAnnounced
  BY <1>1 DEF PendingIsAnnounced
<1>11. QED
  BY <1>2, <1>3, <1>5, <1>6, <1>7, <1>8, <1>9, <1>10 DEF IInv, Owned

LEMMA Invariance == Spec => []IInv
<1>1. IInv /\ [Next]_vars => IInv'
  <2> SUFFICES ASSUME IInv, [Next]_vars PROVE IInv'
    OBVIOUS
  <2>1. /\ TypeOK /\ LoopInv /\ Owned /\ DescriptorsAreCurrent
        /\ TaskInv /\ RefsInv /\ LinesInv /\ AnswerInv /\ PendingIsAnnounced
    BY DEF IInv, Owned
  <2>2. TypeOK'
    BY <2>1, StepTypeOK
  <2>3. LoopInv'
    BY <2>1, StepLoopInv
  <2>4. Owned'
    BY <2>1, <2>2, StepOwned
  <2>5. TaskInv'
    BY <2>1, StepTaskInv
  <2>6. RefsInv'
    BY <2>1, <2>2, <2>5, StepRefsInv
  <2>7. LinesInv'
    BY <2>1, StepLinesInv
  <2>8. AnswerInv'
    BY <2>1, StepAnswerInv
  <2>9. PendingIsAnnounced'
    BY <2>1, StepPendingIsAnnounced
  <2>10. QED
    BY <2>2, <2>3, <2>4, <2>5, <2>6, <2>7, <2>8, <2>9 DEF IInv, Owned
<1>2. QED
  BY <1>1, InitIInv, PTL DEF Spec
-----------------------------------------------------------------------------
(* Whatever the interleaving of the loop, the workers, the thread that      *)
(* stops the server and the clients, an event, an entry of _conns and a     *)
(* task never stand for a connection other than the one they were made for. *)
THEOREM DescriptorsAreCurrentAlways == Spec => []DescriptorsAreCurrent
<1>1. IInv => DescriptorsAreCurrent
  BY DEF IInv
<1>2. QED
  BY <1>1, Invariance, PTL

(* RunInLoop and DoPengingFunctors never leave a functor in                 *)
(* _pengings_callback without an eventfd write that is still to be read or  *)
(* about to be made.                                                        *)
THEOREM PendingIsAlwaysAnnounced == Spec => []PendingIsAnnounced
<1>1. IInv => PendingIsAnnounced
  BY DEF IInv
<1>2. QED
  BY <1>1, Invariance, PTL

(* The shared_ptr count of a connection outside _conns is the number of its *)
(* queries in TaskQueue and in the workers' hands, at every moment.         *)
THEOREM RefsAreAlwaysExact == Spec => []RefsAreExact
<1>1. IInv => RefsAreExact
  BY DEF IInv, RefsInv, RefsAreExact
<1>2. QED
  BY <1>1, Invariance, PTL

(* Each line ReadLine took becomes one task, in the order of the lines, and *)
(* each answer a web worker posts is run once by the loop or still to run.  *)
THEOREM QueriesAreAlwaysConserved == Spec => []QueriesAreConserved
<1>1. IInv => QueriesAreConserved
  <2> SUFFICES ASSUME IInv PROVE QueriesAreConserved
    OBVIOUS
  <2>1. LinesBecomeQueries
    BY LinesInvIsLinesBecomeQueries DEF IInv
  <2>2. AnswersAreConserved
    <3>1. TypeOK /\ AnswerInv
      BY DEF IInv
    <3>2. /\ Len(Posted) = Len(pending) + Len(todo)
          /\ \A i \in 1..(Len(pending) + Len(todo)) :
               Posted[i] = IF i <= Len(pending) THEN pending[i] ELSE todo[i - Len(pending)]
      BY <3>1, AnswerTypes, ConcatEffect DEF Posted
    <3>3. Len(pending) \in Nat /\ Len(todo) \in Nat
      BY <3>1, AnswerTypes
    <3>4. \A i \in 1..Len(Posted) :
            \/ i \in 1..Len(pending) /\ Posted[i] = pending[i]
            \/ /\ i - Len(pending) \in 1..Len(todo) /\ i \notin 1..Len(pending)
               /\ Posted[i] = todo[i - Len(pending)]
      BY <3>2, <3>3
    <3>5. ASSUME NEW i \in 1..Len(Posted), NEW j \in 1..Len(Posted), Posted[i] = Posted[j]
          PROVE  i = j
      <4>1. CASE i \in 1..Len(pending) /\ j \in 1..Len(pending)
        BY <3>1, <3>4, <3>5, <4>1 DEF AnswerInv
      <4>2. CASE i \notin 1..Len(pending) /\ j \notin 1..Len(pending)
        <5>1. /\ i - Len(pending) \in 1..Len(todo) /\ j - Len(pending) \in 1..Len(todo)
              /\ todo[i - Len(pending)] = todo[j - Len(pending)]
          BY <3>4, <3>5, <4>2
        <5>2. i - Len(pending) = j - Len(pending)
          BY <3>1, <5>1 DEF AnswerInv
        <5>3. QED
          BY <3>3, <5>2
      <4>3. CASE i \in 1..Len(pending) /\ j \notin 1..Len(pending)
        <5>1. Posted[j] = pending[i] /\ Among(Posted[j], todo)
          BY <3>4, <3>5, <4>3 DEF Among
        <5>2. QED
          BY <3>1, <4>3, <5>1 DEF AnswerInv
      <4>4. CASE i \notin 1..Len(pending) /\ j \in 1..Len(pending)
        <5>1. Posted[i] = pending[j] /\ Among(Posted[i], todo)
          BY <3>4, <3>5, <4>4 DEF Among
        <5>2. QED
          BY <3>1, <4>4, <5>1 DEF AnswerInv
      <4>5. QED
        BY <4>1, <4>2, <4>3, <4>4
    <3>6. \A i \in 1..Len(Posted) : Posted[i] \notin ran
      BY <3>1, <3>4 DEF AnswerInv
    <3>7. ASSUME NEW q, Among(q, pending) \/ Among(q, todo)
          PROVE  \E i \in 1..Len(Posted) : Posted[i] = q
      <4>1. CASE Among(q, pending)
        <5>1. PICK i \in 1..Len(pending) : pending[i] = q
          BY <4>1 DEF Among
        <5>2. i \in 1..Len(Posted) /\ Posted[i] = q
          BY <3>2, <3>3, <5>1
        <5>3. QED
          BY <5>2
      <4>2. CASE Among(q, todo)
        <5>1. PICK i \in 1..Len(todo) : todo[i] = q
          BY <4>2 DEF Among
        <5>2. /\ i + Len(pending) \in 1..Len(Posted) /\ ~(i + Len(pending) <= Len(pending))
              /\ (i + Len(pending)) - Len(pending) = i
          BY <3>2, <3>3
        <5>3. Posted[i + Len(pending)] = q
          BY <3>2, <5>1, <5>2
        <5>4. QED
          BY <5>2, <5>3
      <4>3. QED
        BY <3>7, <4>1, <4>2
    <3>8. Service = "web" => \A q \in done : q \in ran \/ \E i \in 1..Len(Posted) : Posted[i] = q
      BY <3>1, <3>7 DEF AnswerInv, Answered
    <3>9. QED
      BY <3>5, <3>6, <3>8 DEF AnswersAreConserved
  <2>3. QED
    BY <2>1, <2>2 DEF QueriesAreConserved
<1>2. QED
  BY <1>1, Invariance, PTL
-----------------------------------------------------------------------------
(* The order of the answers, with one worker.                               *)
LEMMA PostsInOrder ==
  ASSUME IInv, OrderInv, \A v, w \in Workers : v = w,
         NEW w \in Workers, SendInLoop(w)
  PROVE  OrderInv'
<1> USE DEF Among
<1>0. TypeOK /\ TaskInv /\ AnswerInv /\ Service = "web"
  <2>1. TypeOK /\ TaskInv /\ AnswerInv /\ Service \in {"web", "key"}
    BY ServerAssumption DEF IInv
  <2>2. wpc[w] = "post"
    BY DEF SendInLoop, Goes
  <2>3. QED
    BY <2>1, <2>2 DEF AnswerInv
<1>1. /\ Len(pending) \in Nat /\ Len(pending') = Len(pending) + 1
      /\ \A a \in 1..Len(pending) : pending'[a] = pending[a]
      /\ pending'[Len(pending) + 1] = held[w] /\ todo' = todo /\ ran' = ran
      /\ held[w] \in Queries /\ wpc[w] = "post"
  BY <1>0, PostedLast, AnswerTypes
<1>2. log' = log
  BY <1>0, InProcess
<1>3. \A a \in 1..Len(pending') : a \in 1..Len(pending) \/ a = Len(pending) + 1
  BY <1>1
<1>4. InOrder'
  BY <1>1, <1>2 DEF OrderInv, InOrder
<1>5. \A a \in 1..Len(todo') : \A i, j \in 1..Len(log') :
        log'[j] = todo'[a] /\ i < j =>
          log'[i] \in ran' \/ \E b \in 1..(a - 1) : todo'[b] = log'[i]
  BY <1>1, <1>2 DEF OrderInv
<1>6. ASSUME NEW i \in 1..Len(log), NEW j \in 1..Len(log), log[j] = held[w], i < j
      PROVE  Answered(log[i])
  <2>1. held[w] # None /\ held[w] \notin done
    BY <1>0, <1>1, PoolTypes DEF TaskInv
  <2>2. PICK k \in 1..head : log[k] = held[w]
    BY <1>0, <2>1 DEF TaskInv, Popped
  <2>3. k \in 1..Len(log)
    BY <1>0, PoolTypes
  <2>4. j = k
    BY <1>0, <1>6, <2>2, <2>3 DEF TaskInv
  <2>5. i \in 1..head
    BY <1>0, <1>6, <2>4, PoolTypes
  <2>6. log[i] # log[j]
    BY <1>0, <1>6 DEF TaskInv
  <2>7. ~InHands(log[i])
    BY <1>6, <2>6 DEF InHands
  <2>8. log[i] \in done
    BY <1>0, <2>5, <2>7 DEF TaskInv
  <2>9. QED
    BY <1>0, <2>8 DEF AnswerInv
<1>7. ASSUME NEW a \in 1..Len(pending'), NEW i \in 1..Len(log), NEW j \in 1..Len(log),
             log[j] = pending'[a], i < j
      PROVE  log[i] \in ran \/ Among(log[i], todo) \/ \E b \in 1..(a - 1) : pending'[b] = log[i]
  <2>1. CASE a \in 1..Len(pending)
    <3>1. log[j] = pending[a]
      BY <1>1, <1>7, <2>1
    <3>2. log[i] \in ran \/ Among(log[i], todo) \/ \E b \in 1..(a - 1) : pending[b] = log[i]
      BY <1>7, <3>1, <2>1 DEF OrderInv
    <3>3. \A b \in 1..(a - 1) : b \in 1..Len(pending)
      BY <1>1, <2>1
    <3>4. QED
      BY <1>1, <3>2, <3>3
  <2>2. CASE a = Len(pending) + 1
    <3>1. Answered(log[i])
      BY <1>1, <1>6, <1>7, <2>2
    <3>2. \A b \in 1..Len(pending) : b \in 1..(a - 1)
      BY <1>1, <2>2
    <3>3. QED
      BY <1>1, <3>1, <3>2 DEF Answered
  <2>3. QED
    BY <1>3, <2>1, <2>2
<1>8. QED
  BY <1>1, <1>2, <1>4, <1>5, <1>7 DEF OrderInv

LEMMA StepOrderInv ==
  ASSUME IInv, OrderInv, \A v, w \in Workers : v = w, [Next]_vars
  PROVE  OrderInv'
<1> USE DEF Among
<1>0. TypeOK /\ LoopInv /\ TaskInv /\ AnswerInv
  BY DEF IInv
<1>1. CASE OnMessage
  <2>1. /\ \A i \in 1..Len(log) : log[i] # CurrentQuery
        /\ Len(log') = Len(log) + 1 /\ Len(log) \in Nat
        /\ \A i \in 1..Len(log) : log'[i] = log[i]
        /\ log'[Len(log) + 1] = CurrentQuery
    BY <1>0, <1>1, Submitted, PoolTypes
  <2>2. pending' = pending /\ todo' = todo /\ ran' = ran
    BY <1>1 DEF OnMessage, MessageHandled
  <2>3. \A q \in Queries : Answered(q) => q # CurrentQuery
    <3>1. \A i \in 1..head : i \in 1..Len(log)
      BY <1>0, PoolTypes
    <3>2. QED
      BY <1>0, <2>1, <3>1 DEF AnswerInv, Popped
  <2>4. \A j \in 1..Len(log') : j \in 1..Len(log) \/ j = Len(log) + 1
    BY <2>1
  <2>5. ASSUME NEW i \in 1..Len(log'), NEW j \in 1..Len(log'), i < j,
               log'[j] \in Queries, Answered(log'[j])
        PROVE  /\ i \in 1..Len(log) /\ j \in 1..Len(log)
               /\ log'[i] = log[i] /\ log'[j] = log[j]
    <3>1. log'[j] # CurrentQuery
      BY <2>3, <2>5
    <3>2. j \in 1..Len(log)
      BY <2>1, <2>4, <3>1
    <3>3. QED
      BY <2>1, <2>5, <3>2
  <2>6. QED
    <3>1. /\ \A a \in 1..Len(todo) : todo[a] \in Queries
          /\ \A a \in 1..Len(pending) : pending[a] \in Queries
          /\ ran \subseteq Queries
      BY <1>0, AnswerTypes
    <3>2. InOrder'
      <4>1. ASSUME NEW i \in 1..Len(log'), NEW j \in 1..Len(log'), i < j, log'[j] \in ran'
            PROVE  log'[i] \in ran'
        <5>1. /\ i \in 1..Len(log) /\ j \in 1..Len(log)
              /\ log'[i] = log[i] /\ log'[j] = log[j]
          BY <2>2, <2>5, <3>1, <4>1 DEF Answered
        <5>2. QED
          BY <2>2, <4>1, <5>1 DEF OrderInv, InOrder
      <4>2. QED
        BY <4>1 DEF InOrder
    <3>3. ASSUME NEW a \in 1..Len(todo), NEW i \in 1..Len(log'), NEW j \in 1..Len(log'),
                 log'[j] = todo[a], i < j
          PROVE  log'[i] \in ran \/ \E b \in 1..(a - 1) : todo[b] = log'[i]
      <4>1. /\ i \in 1..Len(log) /\ j \in 1..Len(log)
            /\ log'[i] = log[i] /\ log'[j] = log[j]
        BY <2>2, <2>5, <3>1, <3>3 DEF Answered
      <4>2. log[j] = todo[a]
        BY <3>3, <4>1
      <4>3. log[i] \in ran \/ \E b \in 1..(a - 1) : todo[b] = log[i]
        BY <3>3, <4>1, <4>2 DEF OrderInv
      <4>4. QED
        BY <4>1, <4>3
    <3>4. ASSUME NEW a \in 1..Len(pending), NEW i \in 1..Len(log'), NEW j \in 1..Len(log'),
                 log'[j] = pending[a], i < j
          PROVE  log'[i] \in ran \/ Among(log'[i], todo)
                 \/ \E b \in 1..(a - 1) : pending[b] = log'[i]
      <4>1. /\ i \in 1..Len(log) /\ j \in 1..Len(log)
            /\ log'[i] = log[i] /\ log'[j] = log[j]
        BY <2>2, <2>5, <3>1, <3>4 DEF Answered
      <4>2. log[j] = pending[a]
        BY <3>4, <4>1
      <4>3. log[i] \in ran \/ Among(log[i], todo) \/ \E b \in 1..(a - 1) : pending[b] = log[i]
        BY <3>4, <4>1, <4>2 DEF OrderInv
      <4>4. QED
        BY <4>1, <4>3
    <3>5. QED
      BY <2>2, <3>2, <3>3, <3>4 DEF OrderInv
<1>2. ASSUME NEW w \in Workers, SendInLoop(w) PROVE OrderInv'
  BY <1>2, PostsInOrder
<1>3. CASE SwapPending /\ Others
  <2>1. log' = log
    BY <1>3, TasksLeftAlone
  <2>2. todo = <<>> /\ todo' = pending /\ pending' = <<>> /\ ran' = ran
    BY <1>0, <1>3 DEF SwapPending, LoopInv
  <2>3. InOrder'
    BY <2>1, <2>2 DEF OrderInv, InOrder
  <2>4. \A a \in 1..Len(pending) : \A i, j \in 1..Len(log) :
          log[j] = pending[a] /\ i < j =>
            log[i] \in ran \/ \E b \in 1..(a - 1) : pending[b] = log[i]
    BY <2>2 DEF OrderInv
  <2>5. QED
    BY <2>1, <2>2, <2>3, <2>4 DEF OrderInv
<1>4. CASE RunFunctor /\ Others
  <2>1. log' = log
    BY <1>4, TasksLeftAlone
  <2>2. /\ \A a \in 1..Len(todo') : a + 1 \in 1..Len(todo) /\ todo'[a] = todo[a + 1]
        /\ \A a \in 1..Len(todo) : a = 1 \/ (a - 1 \in 1..Len(todo') /\ todo'[a - 1] = todo[a])
        /\ 1 \in 1..Len(todo) /\ ran' = ran \cup {todo[1]} /\ pending' = pending
    BY <1>0, <1>4, FunctorRun
  <2>3. \A i, j \in 1..Len(log) : log[j] = todo[1] /\ i < j => log[i] \in ran
    <3>1. \A b : b \notin 1..(1 - 1)
      OBVIOUS
    <3>2. QED
      BY <2>2, <3>1 DEF OrderInv
  <2>4. InOrder'
    <3>1. ASSUME NEW i \in 1..Len(log), NEW j \in 1..Len(log), i < j, log[j] \in ran'
          PROVE  log[i] \in ran'
      <4>1. log[j] \in ran \/ log[j] = todo[1]
        BY <2>2, <3>1
      <4>2. log[i] \in ran
        BY <2>3, <3>1, <4>1 DEF OrderInv, InOrder
      <4>3. QED
        BY <2>2, <4>2
    <3>2. QED
      BY <2>1, <3>1 DEF InOrder
  <2>5. ASSUME NEW a \in 1..Len(todo'), NEW i \in 1..Len(log), NEW j \in 1..Len(log),
               log[j] = todo'[a], i < j
        PROVE  log[i] \in ran' \/ \E b \in 1..(a - 1) : todo'[b] = log[i]
    <3>1. a + 1 \in 1..Len(todo) /\ log[j] = todo[a + 1]
      BY <2>2, <2>5
    <3>2. log[i] \in ran \/ \E b \in 1..((a + 1) - 1) : todo[b] = log[i]
      BY <2>5, <3>1 DEF OrderInv
    <3>3. ASSUME NEW b \in 1..((a + 1) - 1), todo[b] = log[i]
          PROVE  log[i] \in ran' \/ \E d \in 1..(a - 1) : todo'[d] = log[i]
      <4>1. CASE b = 1
        BY <2>2, <3>3, <4>1
      <4>2. CASE b # 1
        <5>1. b \in 1..Len(todo) /\ b - 1 \in 1..(a - 1)
          BY <3>1, <3>3, <4>2
        <5>2. todo'[b - 1] = log[i]
          BY <2>2, <3>3, <4>2, <5>1
        <5>3. QED
          BY <5>1, <5>2
      <4>3. QED
        BY <4>1, <4>2
    <3>4. QED
      BY <2>2, <3>2, <3>3
  <2>6. \A q : Among(q, todo) => q \in ran' \/ Among(q, todo')
    BY <2>2
  <2>7. ASSUME NEW a \in 1..Len(pending), NEW i \in 1..Len(log), NEW j \in 1..Len(log),
               log[j] = pending[a], i < j
        PROVE  log[i] \in ran' \/ Among(log[i], todo')
               \/ \E b \in 1..(a - 1) : pending[b] = log[i]
    <3>1. log[i] \in ran \/ Among(log[i], todo) \/ \E b \in 1..(a - 1) : pending[b] = log[i]
      BY <2>7 DEF OrderInv
    <3>2. QED
      BY <2>2, <2>6, <3>1
  <2>8. QED
    BY <2>1, <2>2, <2>4, <2>5, <2>7 DEF OrderInv
<1>5. ASSUME log' = log, pending' = pending, todo' = todo, ran' = ran
      PROVE  OrderInv'
  BY <1>5 DEF OrderInv, InOrder
<1>6. ASSUME NEW w \in Workers,
             TakeTask(w) \/ Process(w) \/ WakeLoop(w) \/ FinishTask(w) \/ ProcessThrows(w)
      PROVE  OrderInv'
  <2>1. log' = log
    BY <1>6 DEF TakeTask, Process, WakeLoop, FinishTask, ProcessThrows, Pool!Take,
       Pool!Finish, poolVars
  <2>2. pending' = pending /\ todo' = todo /\ ran' = ran
    BY <1>6 DEF TakeTask, Process, WakeLoop, WakeUp, FinishTask, Release, ProcessThrows,
       Terminate, loopVars
  <2>3. QED
    BY <1>5, <2>1, <2>2
<1>7. CASE \/ (LoopControl \/ HandleNewConnection \/ (\E fd \in Fds : HandleMessage(fd))
                 \/ ReadLine \/ HandleRead \/ ClientStep) /\ Others
           \/ StopCall \/ StopperStep \/ UNCHANGED vars
  BY <1>5, <1>7, AnswersLeftAlone
<1>8. QED
  BY <1>1, <1>2, <1>3, <1>4, <1>6, <1>7, NextCases

(* In a web server with one worker the loop writes the answers in the order *)
(* in which it queued the queries.                                          *)
THEOREM AnswersAreInOrder ==
  ASSUME \A v, w \in Workers : v = w
  PROVE  Spec => []InOrder
<1>1. Init => OrderInv
  <2> SUFFICES ASSUME Init PROVE OrderInv
    OBVIOUS
  <2>1. Len(log) = 0 /\ Len(todo) = 0 /\ Len(pending) = 0
    BY DEF Init, LoopInit, Pool!Init
  <2>2. QED
    BY <2>1 DEF OrderInv, InOrder
<1>2. IInv /\ OrderInv /\ [Next]_vars => OrderInv'
  BY StepOrderInv
<1>3. OrderInv => InOrder
  BY DEF OrderInv
<1>4. QED
  BY <1>1, <1>2, <1>3, Invariance, PTL DEF Spec
=============================================================================
