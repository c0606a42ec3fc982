------------------------- MODULE DaemonServerProofs -------------------------
(* Safety of DaemonServer, for any clients, requests, event names and      *)
(* sizes of queues and buffers.                                            *)
EXTENDS DaemonServer, SequenceTheorems, FiniteSetTheorems, TLAPS

(* The k-th subscribe of a connection is a subscription. *)
LEMMA SubsType == \A c \in Clients, k \in 1 .. MaxSubs : <<c, k>> \in Subs
BY DEF Subs

(* The registry's insertion order can be counted. *)
LEMMA StampType == Cardinality({t \in Subs : sender[t] # "none"}) \in Nat
<1>1. IsFiniteSet(1 .. MaxSubs)
  BY ServerAssumption, FS_Interval
<1>2. IsFiniteSet(Subs)
  BY <1>1, ServerAssumption, FS_Product DEF Subs
<1>3. {t \in Subs : sender[t] # "none"} \in SUBSET Subs
  OBVIOUS
<1> QED
  BY <1>2, <1>3, FS_Subset, FS_CardinalityType

-----------------------------------------------------------------------------
(* The parts of a handler.                                                 *)

LEMMA FinallyType ==
  ASSUME TypeOK, NEW c \in Clients, Finally(c)
  PROVE  SubType' /\ pc' \in [Clients -> PCs]
<1>1. mine[c] # 0 => <<c, mine[c]>> \in Subs
  BY SubsType, ServerAssumption DEF TypeOK, SubType
<1> QED
  BY <1>1 DEF Finally, TypeOK, SubType, HandlerType, PCs, Senders

LEMMA RegisterType ==
  ASSUME TypeOK, NEW c \in Clients, NEW k \in 1 .. MaxSubs, Register(c, k)
  PROVE  SubType'
<1>1. <<c, k>> \in Subs
  BY SubsType
<1>2. Len(log) \in Nat
  BY DEF TypeOK, EventType
<1>3. registry' \in SUBSET Subs
  BY <1>1 DEF Register, TypeOK, SubType
<1>6. mine' \in [Clients -> 0 .. MaxSubs]
  <2>1. k \in 0 .. MaxSubs
    BY ServerAssumption
  <2> QED
    BY <2>1 DEF Register, TypeOK, SubType
<1>4. since' \in [Subs -> Nat] /\ sender' \in [Subs -> Senders]
  BY <1>1, <1>2 DEF Register, TypeOK, SubType, Senders
<1>5. stamp' \in [Subs -> Nat]
  <2> DEFINE n == Cardinality({t \in Subs : sender[t] # "none"}) + 1
  <2>1. n \in Nat
    BY StampType
  <2>2. stamp' = [stamp EXCEPT ![<<c, k>>] = n]
    BY DEF Register
  <2> QED
    BY <2>1, <2>2 DEF TypeOK, SubType
<1> QED
  BY <1>3, <1>4, <1>5, <1>6 DEF SubType

LEMMA WriteType ==
  ASSUME TypeOK, NEW c \in Clients, NEW item \in [sub : Nat, ev : Nat], Write(c, item)
  PROVE  WireType'
<1>1. wire[c] \in Seq([sub : Nat, ev : Nat])
  BY DEF TypeOK, WireType
<1>2. Append(wire[c], item) \in Seq([sub : Nat, ev : Nat])
  BY <1>1, AppendProperties
<1> QED
  BY <1>2 DEF Write, TypeOK, WireType

LEMMA TakesType ==
  ASSUME TypeOK, NEW c \in Clients, NEW method, Takes(c, method)
  PROVE  /\ inbox' \in [Clients -> Seq(Requests)]
         /\ Head(inbox[c]) \in Requests /\ Head(inbox[c]).method = method
         /\ PhaseType' /\ ClientType' /\ QueueType' /\ EventType'
<1>1. inbox[c] \in Seq(Requests) /\ inbox[c] # <<>>
  BY DEF Takes, TypeOK, HandlerType
<1>2. Head(inbox[c]) \in Requests /\ Tail(inbox[c]) \in Seq(Requests)
  BY <1>1, HeadTailProperties
<1>3. inbox' \in [Clients -> Seq(Requests)]
  BY <1>2 DEF Takes, TypeOK, HandlerType
<1>4. UNCHANGED <<clientVars, phaseVars, queue, eventVars>> /\ Head(inbox[c]).method = method
  BY DEF Takes
<1> QED
  BY <1>2, <1>3, <1>4
  DEF clientVars, phaseVars, eventVars, TypeOK, PhaseType, ClientType, QueueType, EventType

LEMMA ItemType == \A k, e \in Nat : Item(k, e) \in [sub : Nat, ev : Nat]
BY DEF Item

LEMMA SubscribeType ==
  ASSUME TypeOK, NEW c \in Clients, Subscribe(c)
  PROVE  TypeOK'
<1> DEFINE events == Head(inbox[c]).events
           k == nacks[c] + 1
<1> USE ServerAssumption
<1>1. Takes(c, "subscribe") /\ Accepted(events) /\ k <= MaxSubs
  BY DEF Subscribe
<1>2. k \in 1 .. MaxSubs /\ <<c, k>> \in Subs
  BY <1>1, SubsType DEF TypeOK, ApiType
<1>3. events \in SUBSET (ValidGlobs \cup {Null})
  BY <1>1 DEF Accepted
<1>4. ApiType'
  BY <1>2, <1>3 DEF Subscribe, TypeOK, ApiType
<1>6. Item(k, 0) \in [sub : Nat, ev : Nat]
  <2>1. k \in Nat
    BY <1>2
  <2> QED
    BY <2>1, ItemType
<1>5. SubType' /\ WireType' /\ pc' \in [Clients -> PCs]
  <2>1. CASE Finally(c) /\ UNCHANGED wire
    BY <2>1, FinallyType DEF TypeOK, WireType
  <2>2. CASE Write(c, Item(k, 0)) /\ Register(c, k) /\ UNCHANGED pc
    <3>1. WireType' /\ SubType'
      BY <2>2, <1>2, <1>6, WriteType, RegisterType
    <3> QED
      BY <2>2, <3>1 DEF TypeOK, HandlerType
  <2>3. CASE Write(c, Item(k, 0)) /\ pc' = [pc EXCEPT ![c] = "ack"] /\ UNCHANGED subVars
    <3>1. WireType'
      BY <2>3, <1>6, WriteType
    <3> QED
      BY <2>3, <3>1 DEF TypeOK, HandlerType, SubType, subVars, PCs
  <2> QED
    BY <2>1, <2>2, <2>3 DEF Subscribe, Answer
<1> QED
  BY <1>1, <1>4, <1>5, TakesType DEF TypeOK, HandlerType

LEMMA ReplyType ==
  ASSUME TypeOK, NEW c \in Clients, Reply(c)
  PROVE  TypeOK'
<1>1. PICK method : Takes(c, method)
  BY DEF Reply
<1>2. ApiType'
  BY DEF Reply, TypeOK, ApiType
<1>3. SubType' /\ WireType' /\ pc' \in [Clients -> PCs]
  <2>1. CASE Finally(c) /\ UNCHANGED wire
    BY <2>1, FinallyType DEF TypeOK, WireType
  <2>2. CASE Write(c, Item(0, 0)) /\ UNCHANGED <<pc, subVars>>
    BY <2>2, WriteType, ItemType DEF TypeOK, HandlerType, SubType, subVars
  <2>3. CASE Write(c, Item(0, 0)) /\ pc' = [pc EXCEPT ![c] = "reply"] /\ UNCHANGED subVars
    BY <2>3, WriteType, ItemType DEF TypeOK, HandlerType, SubType, subVars, PCs
  <2> QED
    BY <2>1, <2>2, <2>3 DEF Reply, Answer
<1> QED
  BY <1>1, <1>2, <1>3, TakesType DEF TypeOK, HandlerType

LEMMA TooLargeType ==
  ASSUME TypeOK, NEW c \in Clients, TooLarge(c)
  PROVE  TypeOK'
<1>1. Takes(c, "oversize")
  BY DEF TooLarge
<1>2. ApiType'
  BY DEF TooLarge, TypeOK, ApiType, apiVars
<1>3. SubType' /\ WireType' /\ pc' \in [Clients -> PCs]
  <2>1. CASE Finally(c) /\ UNCHANGED wire
    BY <2>1, FinallyType DEF TypeOK, WireType
  <2>2. CASE Write(c, Item(0, 0)) /\ Finally(c)
    BY <2>2, WriteType, FinallyType, ItemType
  <2>3. CASE Write(c, Item(0, 0)) /\ pc' = [pc EXCEPT ![c] = "bye"] /\ UNCHANGED subVars
    BY <2>3, WriteType, ItemType DEF TypeOK, HandlerType, SubType, subVars, PCs
  <2> QED
    BY <2>1, <2>2, <2>3 DEF TooLarge, Answer
<1> QED
  BY <1>1, <1>2, <1>3, TakesType DEF TypeOK, HandlerType

LEMMA OtherLinesType ==
  ASSUME TypeOK, NEW c \in Clients, SkipLine(c) \/ BadRequest(c)
  PROVE  TypeOK'
<1>1. CASE SkipLine(c)
  <2>1. Takes(c, "badline") /\ UNCHANGED <<pc, wire, apiVars, subVars>>
    BY <1>1 DEF SkipLine
  <2> QED
    BY <2>1, TakesType DEF TypeOK, HandlerType, WireType, ApiType, SubType, apiVars, subVars
<1>2. CASE BadRequest(c)
  <2>1. Takes(c, "nonobject") /\ Finally(c) /\ UNCHANGED <<wire, apiVars>>
    BY <1>2 DEF BadRequest
  <2> QED
    BY <2>1, TakesType, FinallyType DEF TypeOK, HandlerType, WireType, ApiType, apiVars
<1> QED
  BY <1>1, <1>2

(* A handler that waits to go on after a subscribe has counted it. *)
Counted == \A c \in Clients : pc[c] = "ack" => nacks[c] # 0

(* What is left of the handler takes no line. *)
LEMMA GoesOnType ==
  ASSUME TypeOK, Counted, NEW c \in Clients, Drained(c) \/ Leaves(c) \/ Unwind(c) \/ Closed(c)
  PROVE  TypeOK'
<1> USE ServerAssumption
<1>1. UNCHANGED <<phaseVars, inbox, clientVars, wire, apiVars, queue, eventVars>>
  BY DEF Drained, Leaves, Unwind, Closed
<1>2. SubType' /\ pc' \in [Clients -> PCs]
  <2>1. CASE Finally(c)
    BY <2>1, FinallyType
  <2>2. CASE UNCHANGED subVars /\ pc' = [pc EXCEPT ![c] = "read"]
    BY <2>2 DEF TypeOK, HandlerType, SubType, subVars, PCs
  <2>3. CASE pc[c] = "ack" /\ Register(c, nacks[c]) /\ pc' = [pc EXCEPT ![c] = "read"]
    <3>1. nacks[c] \in 1 .. MaxSubs
      BY <2>3 DEF Counted, TypeOK, ApiType
    <3> QED
      BY <2>3, <3>1, RegisterType DEF TypeOK, HandlerType, PCs
  <2>4. CASE Unwind(c)
    BY <2>4 DEF Unwind, TypeOK, HandlerType, SubType, PCs, Senders
  <2>5. CASE Closed(c)
    BY <2>5 DEF Closed, TypeOK, HandlerType, SubType, subVars, PCs
  <2> QED
    BY <2>1, <2>2, <2>3, <2>4, <2>5 DEF Drained, Leaves
<1> QED
  BY <1>1, <1>2
  DEF phaseVars, clientVars, apiVars, eventVars, TypeOK, PhaseType, HandlerType, ClientType,
      WireType, ApiType, QueueType, EventType

-----------------------------------------------------------------------------
(* Senders and broadcasts.                                                 *)

(* A sender takes no more than its queue holds. *)
LEMMA RunLengthType ==
  ASSUME TypeOK, NEW s \in Subs
  PROVE  RunLength(s) \in 0 .. Len(queue[s])
<1>1. s[1] \in Clients /\ Len(queue[s]) \in Nat
  BY DEF Subs, TypeOK, QueueType
<1>2. Len(wire[s[1]]) \in Nat /\ rd[s[1]] \in Nat
  BY <1>1 DEF TypeOK, WireType, ClientType
<1>3. Backlog(s[1]) \in Int
  BY <1>2 DEF Backlog
<1> QED
  BY <1>1, <1>3, ServerAssumption DEF RunLength

(* What is left of a queue, and what goes on the wire. *)
LEMMA SendParts ==
  ASSUME TypeOK, NEW s \in Subs, NEW n \in 0 .. Len(queue[s])
  PROVE  /\ Remaining(queue[s], n) \in Seq(Nat)
         /\ Len(Remaining(queue[s], n)) = Len(queue[s]) - n
         /\ \A i \in 1 .. Len(queue[s]) - n : Remaining(queue[s], n)[i] = queue[s][n + i]
         /\ [i \in 1 .. n |-> Item(s[2], queue[s][i])] \in Seq([sub : Nat, ev : Nat])
         /\ Len([i \in 1 .. n |-> Item(s[2], queue[s][i])]) = n
<1>1. queue[s] \in Seq(Nat) /\ Len(queue[s]) \in Nat /\ n \in Nat /\ s[2] \in Nat
  BY ServerAssumption DEF TypeOK, QueueType, Subs
<1>2. \A i \in n + 1 .. Len(queue[s]) : queue[s][i] \in Nat
  BY <1>1
<1>3. /\ Remaining(queue[s], n) \in Seq(Nat)
      /\ Len(Remaining(queue[s], n)) = Len(queue[s]) - n
      /\ \A i \in 1 .. Len(queue[s]) - n : Remaining(queue[s], n)[i] = queue[s][n + i]
  <2> DEFINE q == queue[s]
             r == SubSeq(q, n + 1, Len(q))
  <2> HIDE DEF q
  <2>1. q \in Seq(Nat) /\ Len(q) \in Nat /\ n \in 0 .. Len(q) /\ \A i \in n + 1 .. Len(q) : q[i] \in Nat
    BY <1>1, <1>2 DEF q
  <2>2. n + 1 \in Int /\ Len(q) \in Int
    BY <2>1
  <2>3. /\ r \in Seq(Nat)
        /\ Len(r) = IF n + 1 <= Len(q) THEN Len(q) - (n + 1) + 1 ELSE 0
        /\ \A i \in 1 .. Len(q) - (n + 1) + 1 : r[i] = q[(n + 1) + i - 1]
    BY <2>1, <2>2, SubSeqProperties
  <2> HIDE DEF r
  <2>4. Len(r) = Len(q) - n /\ \A i \in 1 .. Len(q) - n : r[i] = q[n + i]
    BY <2>1, <2>3
  <2> QED
    BY <2>3, <2>4 DEF r, q, Remaining
<1>4. \A i \in 1 .. n : Item(s[2], queue[s][i]) \in [sub : Nat, ev : Nat]
  <2> SUFFICES ASSUME NEW i \in 1 .. n PROVE Item(s[2], queue[s][i]) \in [sub : Nat, ev : Nat]
    OBVIOUS
  <2>1. i \in 1 .. Len(queue[s])
    BY <1>1
  <2>2. queue[s][i] \in Nat
    BY <1>1, <2>1, ElementOfSeq
  <2> QED
    BY <1>1, <2>2, ItemType
<1> DEFINE R == [sub : Nat, ev : Nat]
           f == [i \in 1 .. n |-> Item(s[2], queue[s][i])]
<1>5. f \in [1 .. n -> R] /\ DOMAIN f = 1 .. n
  BY <1>4
<1> HIDE DEF R, f
<1>6. f \in Seq(R) /\ Len(f) = n
  BY <1>1, <1>5
<1> QED
  BY <1>3, <1>6 DEF f, R

LEMMA SendType ==
  ASSUME TypeOK, NEW s \in Subs, Send(s)
  PROVE  TypeOK'
<1> DEFINE c == s[1]
           n == RunLength(s)
           R == [sub : Nat, ev : Nat]
           f == [i \in 1 .. n |-> Item(s[2], queue[s][i])]
<1>1. c \in Clients /\ n \in 0 .. Len(queue[s]) /\ Len(queue[s]) \in Nat
  BY RunLengthType DEF Subs, TypeOK, QueueType
<1>2. wire' = [wire EXCEPT ![c] = wire[c] \o f] /\ queue' = [queue EXCEPT ![s] = Remaining(queue[s], n)]
  BY DEF Send
<1>3. f \in Seq(R) /\ wire[c] \in Seq(R)
  BY <1>1, SendParts DEF TypeOK, WireType
<1> HIDE DEF f, R, n
<1>4. wire[c] \o f \in Seq(R)
  BY <1>3, ConcatProperties
<1>5. WireType'
  BY <1>1, <1>2, <1>4 DEF TypeOK, WireType, R
<1>6. Remaining(queue[s], n) \in Seq(Nat) /\ Len(Remaining(queue[s], n)) <= QueueSize
  <2>1. Len(Remaining(queue[s], n)) = Len(queue[s]) - n /\ Len(queue[s]) <= QueueSize
    BY <1>1, SendParts DEF TypeOK, QueueType
  <2> QED
    BY <1>1, <2>1, SendParts, ServerAssumption
<1>7. QueueType'
  BY <1>2, <1>6 DEF TypeOK, QueueType
<1>8. SubType'
  BY DEF Send, TypeOK, SubType, Senders
<1> QED
  BY <1>5, <1>7, <1>8
  DEF Send, phaseVars, clientVars, apiVars, eventVars, TypeOK, PhaseType, HandlerType, ClientType,
      ApiType, EventType

LEMMA SendFailsType ==
  ASSUME TypeOK, NEW s \in Subs, SendFails(s)
  PROVE  TypeOK'
<1>1. QueueType'
  <2>1. CASE UNCHANGED queue
    BY <2>1 DEF TypeOK, QueueType
  <2>2. CASE queue[s] # <<>> /\ queue' = [queue EXCEPT ![s] = Tail(queue[s])]
    <3>1. queue[s] \in Seq(Nat) /\ Len(queue[s]) \in Nat /\ Len(queue[s]) <= QueueSize
      BY DEF TypeOK, QueueType
    <3>2. Tail(queue[s]) \in Seq(Nat) /\ Len(Tail(queue[s])) = Len(queue[s]) - 1
      BY <2>2, <3>1, HeadTailProperties
    <3>3. Len(Tail(queue[s])) <= QueueSize
      BY <3>1, <3>2, ServerAssumption
    <3> QED
      BY <2>2, <3>2, <3>3 DEF TypeOK, QueueType
  <2> QED
    BY <2>1, <2>2 DEF SendFails
<1>2. SubType'
  BY DEF SendFails, TypeOK, SubType, Senders
<1> QED
  BY <1>1, <1>2
  DEF SendFails, phaseVars, clientVars, apiVars, eventVars, TypeOK, PhaseType, HandlerType, ClientType,
      WireType, ApiType, EventType

(* Only a queue with room takes the event. *)
LEMMA OfferedQueueType ==
  ASSUME TypeOK, NEW s \in Subs, NEW name
  PROVE  /\ OfferedQueue(s, name) \in Seq(Nat)
         /\ Len(OfferedQueue(s, name)) <= QueueSize
<1>1. queue[s] \in Seq(Nat) /\ Len(queue[s]) \in Nat /\ Len(queue[s]) <= QueueSize /\ QueueSize \in Nat
  BY ServerAssumption DEF TypeOK, QueueType
<1>2. Len(log) + 1 \in Nat
  BY DEF TypeOK, EventType
<1>3. CASE s \in Hit(name) \ Full
  <2>1. OfferedQueue(s, name) = Append(queue[s], Len(log) + 1) /\ ~(Len(queue[s]) >= QueueSize)
    BY <1>3 DEF OfferedQueue, Full
  <2> QED
    BY <1>1, <1>2, <2>1, AppendProperties
<1>4. CASE s \notin Hit(name) \ Full
  BY <1>1, <1>4 DEF OfferedQueue
<1> QED
  BY <1>3, <1>4

LEMMA EventsType ==
  ASSUME TypeOK, Broadcast \/ \E name \in Names : Publish(name)
  PROVE  TypeOK'
<1>1. CASE Broadcast
  <2> DEFINE name == Head(pending)
  <2>1. /\ pending # <<>> /\ log' = Append(log, name) /\ pending' = Tail(pending)
        /\ queue' = [s \in Subs |-> OfferedQueue(s, name)] /\ registry' = registry \ Dropped(name)
    BY <1>1 DEF Broadcast
  <2>2. pending \in Seq(Names) /\ log \in Seq(Names)
    BY DEF TypeOK, EventType
  <2>3. EventType'
    <3>1. name \in Names /\ Tail(pending) \in Seq(Names)
      BY <2>1, <2>2, HeadTailProperties
    <3>2. Append(log, name) \in Seq(Names)
      BY <2>2, <3>1, AppendProperties
    <3> QED
      BY <2>1, <3>1, <3>2 DEF EventType
  <2>4. QueueType'
    BY <2>1, OfferedQueueType DEF QueueType
  <2>5. SubType'
    BY <1>1, <2>1 DEF Broadcast, TypeOK, SubType
  <2> QED
    BY <1>1, <2>3, <2>4, <2>5
    DEF Broadcast, phaseVars, clientVars, apiVars, TypeOK, PhaseType, HandlerType, ClientType,
        WireType, ApiType
<1>2. ASSUME NEW name \in Names, Publish(name) PROVE TypeOK'
  <2>1. EventType'
    BY <1>2, AppendProperties DEF Publish, TypeOK, EventType
  <2> QED
    BY <1>2, <2>1
    DEF Publish, phaseVars, clientVars, apiVars, subVars, TypeOK, PhaseType, HandlerType, ClientType,
        WireType, ApiType, SubType, QueueType
<1> QED
  BY <1>1, <1>2

-----------------------------------------------------------------------------
(* stop() and the clients.                                                 *)

LEMMA StopType ==
  ASSUME TypeOK, Stop \/ Gathered \/ Stopped
  PROVE  TypeOK'
<1>1. CASE Stop
  <2>1. \A p \in PCs : Cancelled(p) \in PCs
    BY DEF Cancelled, PCs
  <2>2. pc' \in [Clients -> PCs]
    BY <1>1, <2>1 DEF Stop, TypeOK, HandlerType
  <2>3. PhaseType'
    BY <1>1 DEF Stop, PhaseType
  <2> QED
    BY <1>1, <2>2, <2>3
    DEF Stop, clientVars, apiVars, subVars, eventVars, TypeOK, HandlerType, ClientType,
        WireType, ApiType, SubType, QueueType, EventType
<1>2. CASE Gathered
  BY <1>2
  DEF Gathered, clientVars, apiVars, subVars, eventVars, TypeOK, PhaseType, HandlerType, ClientType,
      WireType, ApiType, SubType, QueueType, EventType
<1>3. CASE Stopped
  BY <1>3
  DEF Stopped, clientVars, apiVars, eventVars, TypeOK, PhaseType, HandlerType, ClientType,
      WireType, ApiType, SubType, QueueType, EventType
<1> QED
  BY <1>1, <1>2, <1>3

LEMMA ClientsType ==
  ASSUME TypeOK, NEW c \in Clients, Connect(c) \/ Read(c) \/ Disconnect(c) \/ \E r \in Requests : Ask(c, r)
  PROVE  TypeOK'
<1>1. UNCHANGED <<phaseVars, wire, apiVars, subVars, queue, eventVars>>
  BY DEF Connect, Read, Disconnect, Ask
<1>2. HandlerType' /\ ClientType'
  <2>1. CASE Connect(c) \/ Read(c) \/ Disconnect(c)
    <3>1. CASE Connect(c)
      BY <3>1 DEF Connect, TypeOK, HandlerType, ClientType, PCs
    <3>2. CASE Read(c)
      BY <3>2 DEF Read, TypeOK, HandlerType, ClientType
    <3>3. CASE Disconnect(c)
      BY <3>3 DEF Disconnect, TypeOK, HandlerType, ClientType
    <3> QED
      BY <2>1, <3>1, <3>2, <3>3
  <2>2. ASSUME NEW r \in Requests, Ask(c, r) PROVE HandlerType' /\ ClientType'
    <3>1. inbox[c] \in Seq(Requests)
      BY DEF TypeOK, HandlerType
    <3>2. Append(inbox[c], r) \in Seq(Requests)
      BY <3>1, AppendProperties
    <3> QED
      BY <2>2, <3>2 DEF Ask, TypeOK, HandlerType, ClientType
  <2> QED
    BY <2>1, <2>2
<1> QED
  BY <1>1, <1>2
  DEF phaseVars, apiVars, subVars, eventVars, TypeOK, PhaseType, WireType, ApiType, SubType,
      QueueType, EventType

-----------------------------------------------------------------------------

LEMMA InitType == Init => TypeOK /\ Counted
BY ServerAssumption
DEF Init, TypeOK, PhaseType, HandlerType, ClientType, WireType, ApiType, SubType, QueueType,
    EventType, PCs, Senders, Counted

LEMMA NextType == TypeOK /\ Counted /\ [Next]_vars => TypeOK'
<1> SUFFICES ASSUME TypeOK, Counted, [Next]_vars PROVE TypeOK'
  OBVIOUS
<1>1. ASSUME NEW c \in Clients, Handler(c) PROVE TypeOK'
  BY <1>1, SubscribeType, ReplyType, TooLargeType, OtherLinesType, GoesOnType DEF Handler
<1>2. CASE UNCHANGED vars
  BY <1>2
  DEF vars, phaseVars, clientVars, apiVars, subVars, eventVars, TypeOK, PhaseType, HandlerType,
      ClientType, WireType, ApiType, SubType, QueueType, EventType
<1> QED
  BY <1>1, <1>2, SendType, SendFailsType, EventsType, StopType, ClientsType DEF Next

(* A handler gets to "ack" only by counting a subscribe. *)
LEMMA NextCounted == TypeOK /\ Counted /\ [Next]_vars => Counted'
<1> SUFFICES ASSUME TypeOK, Counted, [Next]_vars, NEW c \in Clients, pc'[c] = "ack"
             PROVE  nacks'[c] # 0
  BY DEF Counted
<1>1. ASSUME NEW d \in Clients, Subscribe(d) PROVE nacks'[c] # 0
  <2>1. nacks' = [nacks EXCEPT ![d] = nacks[d] + 1]
    BY <1>1 DEF Subscribe
  <2>2. c # d => pc'[c] = pc[c]
    BY <1>1 DEF Subscribe, Answer, Finally, TypeOK, HandlerType
  <2> QED
    BY <2>1, <2>2 DEF TypeOK, ApiType, Counted
<1>2. CASE nacks' = nacks /\ pc[c] = "ack"
  BY <1>2 DEF Counted
<1>3. ASSUME NEW d \in Clients, Handler(d), ~Subscribe(d) PROVE nacks' = nacks /\ pc[c] = "ack"
  <2>1. nacks' = nacks
    BY <1>3 DEF Handler, Reply, SkipLine, BadRequest, TooLarge, Drained, Leaves, Unwind, Closed, apiVars
  <2>2. pc' = pc \/ Finally(d) \/ \E p \in PCs \ {"ack"} : pc' = [pc EXCEPT ![d] = p]
    BY <1>3 DEF Handler, Reply, SkipLine, BadRequest, TooLarge, Drained, Leaves, Unwind, Closed, Answer, PCs
  <2> QED
    BY <2>1, <2>2 DEF Finally, TypeOK, HandlerType
<1>4. CASE Stop
  BY <1>4 DEF Stop, Cancelled, apiVars, TypeOK, HandlerType, PCs, Counted
<1>5. ASSUME NEW d \in Clients, Connect(d) PROVE nacks' = nacks /\ pc[c] = "ack"
  BY <1>5 DEF Connect, apiVars, TypeOK, HandlerType
<1>6. CASE UNCHANGED <<pc, nacks>>
  BY <1>6 DEF Counted
<1> QED
  BY <1>1, <1>2, <1>3, <1>4, <1>5, <1>6
  DEF Next, vars, apiVars, Send, SendFails, Publish, Broadcast, Gathered, Stopped, Read, Disconnect, Ask

(* Type correctness of the server. *)
THEOREM ServerTypeOK == Spec => []TypeOK
BY InitType, NextType, NextCounted, PTL DEF Spec

-----------------------------------------------------------------------------
(* The end of a handler.                                                   *)

(* What holds of the subscription a handler knows, before it has departed. *)
Departing ==
  \A c \in Clients :
    /\ mine[c] # 0 => sender[<<c, mine[c]>>] # "none"
    /\ pc[c] = "unwind" => mine[c] # 0 /\ <<c, mine[c]>> \notin registry

(* The finally block leaves things so. *)
LEMMA FinallyDeparts ==
  ASSUME TypeOK, Departing, CleansUp, NEW d \in Clients, Finally(d)
  PROVE  Departing' /\ CleansUp'
<1> USE DEF TypeOK, SubType, HandlerType
<1>1. /\ registry' = registry \ {<<d, mine[d]>>} /\ mine' = mine
      /\ \A c \in Clients : c # d => pc'[c] = pc[c] /\ sender'[<<c, mine[c]>>] = sender[<<c, mine[c]>>]
  BY DEF Finally
<1>2. \/ pc'[d] = "unwind" /\ mine[d] # 0
      \/ pc'[d] = "closing" /\ (mine[d] # 0 => sender'[<<d, mine[d]>>] = "dead")
  BY DEF Finally
<1>3. Departing'
  <2>1. \A c \in Clients : sender[<<c, mine[c]>>] # "none" => sender'[<<c, mine[c]>>] # "none"
    BY DEF Finally
  <2> QED
    BY <1>1, <1>2, <2>1 DEF Departing
<1>4. CleansUp'
  BY <1>1, <1>2 DEF CleansUp
<1> QED
  BY <1>3, <1>4

(* A registration concerns a handler that goes on. *)
LEMMA RegisterDeparts ==
  ASSUME TypeOK, Departing, CleansUp, NEW d \in Clients, NEW k \in 1 .. MaxSubs, Register(d, k),
         pc' = pc \/ pc' = [pc EXCEPT ![d] = "read"], pc[d] \in {"read", "ack"}
  PROVE  Departing' /\ CleansUp'
<1> USE DEF TypeOK, SubType, HandlerType
<1>1. /\ registry' = registry \cup {<<d, k>>}
      /\ \A c \in Clients : c # d => /\ pc'[c] = pc[c] /\ mine'[c] = mine[c]
                                     /\ sender'[<<c, mine[c]>>] = sender[<<c, mine[c]>>]
  BY DEF Register
<1>2. pc'[d] \in {"read", "ack"}
  OBVIOUS
<1>3. Departing'
  <2>1. mine'[d] = k /\ <<d, k>> \in Subs /\ sender' = [sender EXCEPT ![<<d, k>>] = "get"]
    BY SubsType DEF Register
  <2>2. sender'[<<d, mine'[d]>>] # "none"
    BY <2>1
  <2> QED
    BY <1>1, <1>2, <2>2 DEF Departing
<1>4. CleansUp'
  BY <1>1, <1>2 DEF CleansUp
<1> QED
  BY <1>3, <1>4

LEMMA NextDeparts ==
  TypeOK /\ Counted /\ Departing /\ CleansUp /\ [Next]_vars => Departing' /\ CleansUp'
<1> SUFFICES ASSUME TypeOK, Counted, Departing, CleansUp, [Next]_vars PROVE Departing' /\ CleansUp'
  OBVIOUS
<1>1. ASSUME NEW d \in Clients, Finally(d) PROVE Departing' /\ CleansUp'
  BY <1>1, FinallyDeparts
<1>2. ASSUME NEW d \in Clients, NEW k \in 1 .. MaxSubs, Register(d, k), pc[d] \in {"read", "ack"},
             pc' = pc \/ pc' = [pc EXCEPT ![d] = "read"]
      PROVE Departing' /\ CleansUp'
  BY <1>2, RegisterDeparts
<1>3. ASSUME UNCHANGED subVars, NEW d \in Clients, NEW p \in {"read", "reply", "ack", "bye"},
             pc' = pc \/ pc' = [pc EXCEPT ![d] = p]
      PROVE Departing' /\ CleansUp'
  BY <1>3 DEF subVars, Departing, CleansUp, TypeOK, HandlerType
<1>4. ASSUME NEW d \in Clients, Handler(d) PROVE Departing' /\ CleansUp'
  <2>1. CASE Subscribe(d) \/ Reply(d) \/ SkipLine(d) \/ BadRequest(d) \/ TooLarge(d)
    <3>1. pc[d] = "read"
      BY <2>1 DEF Subscribe, Reply, SkipLine, BadRequest, TooLarge, Takes
    <3>2. CASE Subscribe(d)
      <4>1. nacks[d] + 1 \in 1 .. MaxSubs
        BY <3>2, ServerAssumption DEF Subscribe, TypeOK, ApiType
      <4> QED
        BY <3>1, <3>2, <4>1, <1>1, <1>2, <1>3 DEF Subscribe, Answer
    <3>3. CASE Reply(d)
      BY <3>3, <1>1, <1>3 DEF Reply, Answer
    <3>4. CASE SkipLine(d) \/ BadRequest(d)
      BY <3>4, <1>1, <1>3 DEF SkipLine, BadRequest
    <3>5. CASE TooLarge(d)
      BY <3>5, <1>1, <1>3 DEF TooLarge, Answer
    <3> QED
      BY <2>1, <3>2, <3>3, <3>4, <3>5
  <2>2. CASE Drained(d)
    <3>1. pc[d] = "ack" => nacks[d] \in 1 .. MaxSubs
      BY ServerAssumption DEF Counted, TypeOK, ApiType
    <3> QED
      BY <2>2, <3>1, <1>1, <1>2, <1>3 DEF Drained
  <2>3. CASE Leaves(d)
    BY <2>3, <1>1 DEF Leaves
  <2>4. CASE Unwind(d)
    <3>1. /\ pc[d] = "unwind" /\ pc' = [pc EXCEPT ![d] = "closing"] /\ registry' = registry /\ mine' = mine
          /\ sender' = [sender EXCEPT ![<<d, mine[d]>>] = "dead"]
      BY <2>4 DEF Unwind
    <3>2. mine[d] # 0 /\ <<d, mine[d]>> \notin registry /\ <<d, mine[d]>> \in Subs
      BY <3>1, SubsType, ServerAssumption DEF Departing, TypeOK, SubType
    <3>3. \A c \in Clients : c # d => pc'[c] = pc[c] /\ sender'[<<c, mine[c]>>] = sender[<<c, mine[c]>>]
      BY <3>1 DEF TypeOK, SubType, HandlerType
    <3>4. pc'[d] = "closing" /\ sender'[<<d, mine[d]>>] = "dead"
      BY <3>1, <3>2 DEF TypeOK, SubType, HandlerType
    <3> QED
      BY <3>1, <3>2, <3>3, <3>4 DEF Departing, CleansUp
  <2>5. CASE Closed(d)
    BY <2>5 DEF Closed, subVars, Departing, CleansUp, TypeOK, HandlerType
  <2> QED
    BY <1>4, <2>1, <2>2, <2>3, <2>4, <2>5 DEF Handler
<1>5. ASSUME NEW s \in Subs, Send(s) \/ SendFails(s) PROVE Departing' /\ CleansUp'
  <2>1. UNCHANGED <<pc, mine, registry>> /\ sender[s] \in {"get", "drain"}
    BY <1>5 DEF Send, SendFails
  <2>3. \A r \in Subs : /\ sender[r] = "dead" => sender'[r] = "dead"
                        /\ sender[r] # "none" => sender'[r] # "none"
    BY <1>5, <2>1 DEF TypeOK, SubType, Send, SendFails
  <2>4. \A c \in Clients : mine[c] # 0 => <<c, mine[c]>> \in Subs
    BY SubsType, ServerAssumption DEF TypeOK, SubType
  <2> QED
    BY <2>1, <2>3, <2>4 DEF Departing, CleansUp
<1>6. CASE Broadcast \/ Stopped
  <2>1. UNCHANGED <<pc, mine, sender>> /\ registry' \subseteq registry
    BY <1>6 DEF Broadcast, Stopped
  <2> QED
    BY <2>1 DEF Departing, CleansUp
<1>7. CASE Stop
  <2>1. UNCHANGED subVars /\ \A c \in Clients :
          /\ pc'[c] = "unwind" => pc[c] = "unwind"
          /\ pc'[c] \in {"closing", "gone"} => pc[c] \in {"closing", "gone"}
    BY <1>7 DEF Stop, Cancelled, TypeOK, HandlerType, PCs
  <2> QED
    BY <2>1 DEF subVars, Departing, CleansUp
<1>8. CASE UNCHANGED <<pc, subVars>>
  BY <1>8 DEF subVars, Departing, CleansUp
<1>9. ASSUME NEW d \in Clients, Connect(d) PROVE Departing' /\ CleansUp'
  BY <1>9, <1>3 DEF Connect
<1> QED
  BY <1>4, <1>5, <1>6, <1>7, <1>8, <1>9 DEF Next, vars, Publish, Gathered, Read, Disconnect, Ask

(* However a handler ends, the queue it knows of has left the registry and *)
(* its sender has ended before the connection is closed.                   *)
THEOREM ServerCleansUp == Spec => []CleansUp
<1>1. Init => Departing /\ CleansUp
  BY DEF Init, Departing, CleansUp
<1> QED
  BY <1>1, InitType, NextType, NextCounted, NextDeparts, PTL DEF Spec

-----------------------------------------------------------------------------
(* Answers come before events.                                             *)

HasAnswer(w, k) == \E i \in 1 .. Len(w) : w[i] = Item(k, 0)
Attributed(w) ==
  \A j \in 1 .. Len(w) : w[j].ev > 0 => \E i \in 1 .. j - 1 : w[i] = Item(w[j].sub, 0)

(* AnswerFirst, and that a subscription that has a sender, or is about to  *)
(* get one, was answered.                                                  *)
AnswerInv ==
  \A c \in Clients :
    /\ Attributed(wire[c])
    /\ \A k \in 1 .. MaxSubs : sender[<<c, k>>] # "none" => HasAnswer(wire[c], k)
    /\ pc[c] = "ack" => HasAnswer(wire[c], nacks[c])

(* Lines that follow their answers may be written after what there is. *)
LEMMA WireExtends ==
  ASSUME NEW w \in Seq([sub : Nat, ev : Nat]), NEW v \in Seq([sub : Nat, ev : Nat]),
         Attributed(w), \A j \in 1 .. Len(v) : v[j].ev > 0 => HasAnswer(w, v[j].sub)
  PROVE  Attributed(w \o v) /\ \A k : HasAnswer(w, k) => HasAnswer(w \o v, k)
<1>1. /\ Len(w) \in Nat /\ Len(v) \in Nat /\ Len(w \o v) = Len(w) + Len(v)
      /\ \A i \in 1 .. Len(w) : (w \o v)[i] = w[i]
      /\ \A i \in 1 .. Len(w) + Len(v) : i > Len(w) => (w \o v)[i] = v[i - Len(w)]
  BY ConcatProperties
<1>2. ASSUME NEW k, HasAnswer(w, k) PROVE HasAnswer(w \o v, k)
  BY <1>1, <1>2 DEF HasAnswer
<1>3. ASSUME NEW j \in 1 .. Len(w \o v), (w \o v)[j].ev > 0
      PROVE  \E i \in 1 .. j - 1 : (w \o v)[i] = Item((w \o v)[j].sub, 0)
  <2>1. CASE j <= Len(w)
    <3>1. PICK i \in 1 .. j - 1 : w[i] = Item(w[j].sub, 0)
      BY <1>1, <1>3, <2>1 DEF Attributed
    <3> QED
      BY <1>1, <2>1, <3>1
  <2>2. CASE j > Len(w)
    <3>1. j - Len(w) \in 1 .. Len(v) /\ (w \o v)[j] = v[j - Len(w)]
      BY <1>1, <2>2
    <3>2. HasAnswer(w, (w \o v)[j].sub)
      BY <1>3, <3>1
    <3>3. PICK i \in 1 .. Len(w) : w[i] = Item((w \o v)[j].sub, 0)
      BY <3>2 DEF HasAnswer
    <3>4. i \in 1 .. j - 1 /\ (w \o v)[i] = w[i]
      BY <1>1, <2>2
    <3> QED
      BY <3>3, <3>4
  <2> QED
    BY <1>1, <2>1, <2>2
<1> QED
  BY <1>2, <1>3 DEF Attributed

(* An answer may always be written. *)
LEMMA WriteAnswers ==
  ASSUME TypeOK, AnswerInv, NEW d \in Clients, NEW n \in Nat, Write(d, Item(n, 0))
  PROVE  /\ \A c \in Clients : Attributed(wire'[c])
         /\ \A c \in Clients : \A k : HasAnswer(wire[c], k) => HasAnswer(wire'[c], k)
         /\ HasAnswer(wire'[d], n)
<1> DEFINE R == [sub : Nat, ev : Nat]
<1>1. wire[d] \in Seq(R) /\ Item(n, 0) \in R /\ Item(n, 0).ev = 0
  BY DEF TypeOK, WireType, Item
<1>2. wire'[d] = Append(wire[d], Item(n, 0)) /\ \A c \in Clients : c # d => wire'[c] = wire[c]
  BY DEF Write, TypeOK, WireType
<1>3. Append(wire[d], Item(n, 0)) = wire[d] \o <<Item(n, 0)>> /\ <<Item(n, 0)>> \in Seq(R)
  <2> DEFINE x == Item(n, 0)
  <2> HIDE DEF x, R
  <2>1. wire[d] \in Seq(R) /\ x \in R
    BY <1>1 DEF x
  <2>2. <<x>> \in Seq(R) /\ Append(wire[d], x) \in Seq(R)
    BY <2>1
  <2>3. Append(wire[d], x) = wire[d] \o <<x>>
    BY <2>1, AppendIsConcat
  <2> QED
    BY <2>2, <2>3 DEF x
<1>4. \A j \in 1 .. Len(<<Item(n, 0)>>) : <<Item(n, 0)>>[j].ev > 0 => HasAnswer(wire[d], <<Item(n, 0)>>[j].sub)
  <2> DEFINE x == Item(n, 0)
  <2> HIDE DEF x
  <2>1. \A j \in 1 .. Len(<<x>>) : <<x>>[j] = x
    OBVIOUS
  <2>2. x.ev = 0
    BY <1>1 DEF x
  <2> QED
    BY <2>1, <2>2 DEF x
<1>5. Attributed(wire'[d]) /\ \A k : HasAnswer(wire[d], k) => HasAnswer(wire'[d], k)
  <2> DEFINE w == wire[d]
             v == <<Item(n, 0)>>
  <2>1. Attributed(w)
    BY DEF AnswerInv
  <2> HIDE DEF w, v
  <2>2. Attributed(w \o v) /\ \A k : HasAnswer(w, k) => HasAnswer(w \o v, k)
    BY <1>1, <1>3, <1>4, <2>1, WireExtends DEF w, v
  <2>3. wire'[d] = w \o v
    BY <1>2, <1>3 DEF w, v
  <2> QED
    BY <2>2, <2>3 DEF w
<1>6. HasAnswer(wire'[d], n)
  <2>1. Len(wire'[d]) = Len(wire[d]) + 1 /\ Len(wire[d]) \in Nat /\ wire'[d][Len(wire[d]) + 1] = Item(n, 0)
    BY <1>1, <1>2, AppendProperties
  <2> QED
    BY <2>1 DEF HasAnswer
<1> QED
  BY <1>2, <1>5, <1>6 DEF AnswerInv

(* What registers a subscription has answered it. *)
LEMMA RegisterAnswers ==
  ASSUME TypeOK, AnswerInv, NEW d \in Clients, NEW n \in 1 .. MaxSubs, Register(d, n),
         \A c \in Clients : Attributed(wire'[c]),
         \A c \in Clients : \A k : HasAnswer(wire[c], k) => HasAnswer(wire'[c], k),
         HasAnswer(wire'[d], n),
         \A c \in Clients : pc'[c] = "ack" => pc[c] = "ack" /\ nacks'[c] = nacks[c]
  PROVE  AnswerInv'
<1> SUFFICES ASSUME NEW c \in Clients, NEW k \in 1 .. MaxSubs, sender'[<<c, k>>] # "none"
             PROVE  HasAnswer(wire'[c], k)
  BY DEF AnswerInv
<1>1. sender' = [sender EXCEPT ![<<d, n>>] = "get"]
  BY DEF Register
<1>2. CASE c = d /\ k = n
  BY <1>2
<1>3. CASE ~(c = d /\ k = n)
  BY <1>1, <1>3 DEF AnswerInv, TypeOK, SubType, Subs
<1> QED
  BY <1>2, <1>3

(* What neither writes to an unanswered subscription nor starts one. *)
LEMMA OthersAnswer ==
  ASSUME TypeOK, AnswerInv,
         \A c \in Clients : Attributed(wire'[c]),
         \A c \in Clients : \A k : HasAnswer(wire[c], k) => HasAnswer(wire'[c], k),
         \A s \in Subs : sender'[s] # "none" => sender[s] # "none",
         \A c \in Clients : pc'[c] = "ack" =>
           HasAnswer(wire'[c], nacks'[c]) \/ (pc[c] = "ack" /\ nacks'[c] = nacks[c])
  PROVE  AnswerInv'
BY SubsType DEF AnswerInv

(* The finally block starts nothing. *)
LEMMA FinallyStarts ==
  ASSUME TypeOK, Departing, NEW d \in Clients, Finally(d)
  PROVE  /\ \A s \in Subs : sender'[s] # "none" => sender[s] # "none"
         /\ \A c \in Clients : pc'[c] = "ack" => pc[c] = "ack" /\ c # d
<1>1. mine[d] # 0 => sender[<<d, mine[d]>>] # "none"
  BY DEF Departing
<1>2. \A s \in Subs : sender'[s] # "none" => sender[s] # "none"
  BY <1>1 DEF Finally, TypeOK, SubType
<1>3. \A c \in Clients : pc'[c] = "ack" => pc[c] = "ack" /\ c # d
  BY DEF Finally, TypeOK, HandlerType
<1> QED
  BY <1>2, <1>3

LEMMA NextAnswers == TypeOK /\ Counted /\ Departing /\ AnswerInv /\ [Next]_vars => AnswerInv'
<1> SUFFICES ASSUME TypeOK, Counted, Departing, AnswerInv, [Next]_vars PROVE AnswerInv'
  OBVIOUS
<1> USE DEF HandlerType, SubType, ApiType
<1>1. ASSUME UNCHANGED wire
      PROVE  /\ \A c \in Clients : Attributed(wire'[c])
             /\ \A c \in Clients : \A k : HasAnswer(wire[c], k) => HasAnswer(wire'[c], k)
  BY <1>1 DEF AnswerInv
<1>2. ASSUME NEW d \in Clients, Subscribe(d) PROVE AnswerInv'
  <2> DEFINE k == nacks[d] + 1
  <2>1. nacks' = [nacks EXCEPT ![d] = k] /\ k <= MaxSubs
    BY <1>2 DEF Subscribe
  <2>2. k \in 1 .. MaxSubs /\ k \in Nat /\ nacks'[d] = k /\ \A c \in Clients : c # d => nacks'[c] = nacks[c]
    BY <2>1, ServerAssumption DEF TypeOK
  <2>3. pc[d] = "read"
    BY <1>2 DEF Subscribe, Takes
  <2>4. CASE Finally(d) /\ UNCHANGED wire
    BY <2>2, <2>3, <2>4, <1>1, FinallyStarts, OthersAnswer
  <2>5. CASE Write(d, Item(k, 0)) /\ Register(d, k) /\ UNCHANGED pc
    BY <2>2, <2>3, <2>5, WriteAnswers, RegisterAnswers
  <2>6. CASE Write(d, Item(k, 0)) /\ pc' = [pc EXCEPT ![d] = "ack"] /\ UNCHANGED subVars
    <3>1. \A c \in Clients : pc'[c] = "ack" => HasAnswer(wire'[c], nacks'[c]) \/ (pc[c] = "ack" /\ nacks'[c] = nacks[c])
      BY <2>2, <2>6, WriteAnswers DEF TypeOK
    <3> QED
      BY <2>2, <2>6, <3>1, WriteAnswers, OthersAnswer DEF subVars
  <2> QED
    BY <1>2, <2>4, <2>5, <2>6 DEF Subscribe, Answer
<1>3. ASSUME NEW d \in Clients, Reply(d) \/ TooLarge(d) PROVE AnswerInv'
  <2>1. nacks' = nacks
    BY <1>3 DEF Reply, TooLarge, apiVars
  <2>2. CASE Finally(d) /\ UNCHANGED wire
    BY <2>1, <2>2, <1>1, FinallyStarts, OthersAnswer
  <2>3. CASE Write(d, Item(0, 0)) /\ Finally(d)
    BY <2>1, <2>3, WriteAnswers, FinallyStarts, OthersAnswer
  <2>4. ASSUME Write(d, Item(0, 0)), UNCHANGED subVars, NEW p \in {"reply", "bye"},
               pc' = pc \/ pc' = [pc EXCEPT ![d] = p]
        PROVE AnswerInv'
    <3>1. \A c \in Clients : pc'[c] = "ack" => pc[c] = "ack"
      BY <2>4 DEF TypeOK
    <3> QED
      BY <2>1, <2>4, <3>1, WriteAnswers, OthersAnswer DEF subVars
  <2> QED
    BY <1>3, <2>2, <2>3, <2>4 DEF Reply, TooLarge, Answer
<1>4. ASSUME NEW d \in Clients, SkipLine(d) \/ BadRequest(d) \/ Leaves(d) \/ Unwind(d) \/ Closed(d)
      PROVE AnswerInv'
  <2>1. nacks' = nacks /\ wire' = wire
    BY <1>4 DEF SkipLine, BadRequest, Leaves, Unwind, Closed, apiVars
  <2>2. CASE Finally(d)
    BY <2>1, <2>2, <1>1, FinallyStarts, OthersAnswer
  <2>3. CASE SkipLine(d) \/ Closed(d)
    <3>1. sender' = sender /\ \A c \in Clients : pc'[c] = "ack" => pc[c] = "ack"
      BY <2>3 DEF SkipLine, Closed, subVars, TypeOK
    <3> QED
      BY <2>1, <3>1, <1>1, OthersAnswer
  <2>4. CASE Unwind(d)
    <3>1. \A c \in Clients : pc'[c] = "ack" => pc[c] = "ack"
      BY <2>4 DEF Unwind, TypeOK
    <3>2. sender' = [sender EXCEPT ![<<d, mine[d]>>] = "dead"]
      BY <2>4 DEF Unwind
    <3>3. sender[<<d, mine[d]>>] # "none"
      BY <2>4 DEF Unwind, Departing
    <3>4. \A s \in Subs : sender'[s] # "none" => sender[s] # "none"
      BY <3>2, <3>3 DEF TypeOK
    <3> QED
      BY <2>1, <3>1, <3>4, <1>1, OthersAnswer
  <2> QED
    BY <1>4, <2>2, <2>3, <2>4 DEF BadRequest, Leaves
<1>5. ASSUME NEW d \in Clients, Drained(d) PROVE AnswerInv'
  <2>1. nacks' = nacks /\ wire' = wire
    BY <1>5 DEF Drained, apiVars
  <2>2. CASE Finally(d)
    BY <2>1, <2>2, <1>1, FinallyStarts, OthersAnswer
  <2>3. CASE UNCHANGED subVars /\ pc' = [pc EXCEPT ![d] = "read"]
    <3>1. sender' = sender /\ \A c \in Clients : pc'[c] = "ack" => pc[c] = "ack"
      BY <2>3 DEF subVars, TypeOK
    <3> QED
      BY <2>1, <3>1, <1>1, OthersAnswer
  <2>4. CASE pc[d] = "ack" /\ Register(d, nacks[d]) /\ pc' = [pc EXCEPT ![d] = "read"]
    <3>1. nacks[d] \in 1 .. MaxSubs
      BY <2>4, ServerAssumption DEF Counted, TypeOK
    <3>2. HasAnswer(wire'[d], nacks[d])
      BY <2>1, <2>4 DEF AnswerInv
    <3>3. \A c \in Clients : pc'[c] = "ack" => pc[c] = "ack" /\ nacks'[c] = nacks[c]
      BY <2>1, <2>4 DEF TypeOK
    <3> QED
      BY <2>1, <2>4, <3>1, <3>2, <3>3, <1>1, RegisterAnswers
  <2> QED
    BY <1>5, <2>2, <2>3, <2>4 DEF Drained
<1>6. ASSUME NEW s \in Subs, Send(s) PROVE AnswerInv'
  <2> DEFINE n == RunLength(s)
             c == s[1]
             f == [i \in 1 .. n |-> Item(s[2], queue[s][i])]
  <2>1. c \in Clients /\ s[2] \in 1 .. MaxSubs /\ s = <<c, s[2]>> /\ n \in 0 .. Len(queue[s])
    BY RunLengthType DEF Subs
  <2>2. wire' = [wire EXCEPT ![c] = wire[c] \o f] /\ nacks' = nacks /\ pc' = pc
    BY <1>6 DEF Send, apiVars
  <2>3. sender[s] # "none"
    BY <1>6 DEF Send
  <2>4. HasAnswer(wire[c], s[2]) /\ Attributed(wire[c])
    BY <2>1, <2>3 DEF AnswerInv
  <2>5. f \in Seq([sub : Nat, ev : Nat]) /\ Len(f) = n
    BY <2>1, SendParts
  <2>6. \A j \in 1 .. Len(f) : f[j].sub = s[2]
    BY <2>5 DEF Item
  <2>7. wire[c] \in Seq([sub : Nat, ev : Nat])
    BY <2>1 DEF TypeOK, WireType
  <2> HIDE DEF f
  <2>8. Attributed(wire[c] \o f) /\ \A k : HasAnswer(wire[c], k) => HasAnswer(wire[c] \o f, k)
    BY <2>4, <2>5, <2>6, <2>7, WireExtends
  <2>9. \A d \in Clients : wire'[d] = IF d = c THEN wire[c] \o f ELSE wire[d]
    BY <2>2 DEF TypeOK, WireType
  <2>10. \A d \in Clients : Attributed(wire'[d])
    BY <2>8, <2>9 DEF AnswerInv
  <2>11. \A d \in Clients : \A k : HasAnswer(wire[d], k) => HasAnswer(wire'[d], k)
    BY <2>8, <2>9
  <2>12. \A r \in Subs : sender'[r] # "none" => sender[r] # "none"
    BY <1>6, <2>3 DEF Send, TypeOK
  <2> QED
    BY <2>2, <2>10, <2>11, <2>12, OthersAnswer
<1>7. ASSUME UNCHANGED <<wire, nacks>>,
             \A s \in Subs : sender'[s] # "none" => sender[s] # "none",
             \A c \in Clients : pc'[c] = "ack" => pc[c] = "ack"
      PROVE AnswerInv'
  BY <1>7, <1>1, OthersAnswer
<1>8. ASSUME NEW s \in Subs, SendFails(s) PROVE AnswerInv'
  BY <1>8, <1>7 DEF SendFails, apiVars, TypeOK
<1>9. CASE Stop
  <2>1. \A c \in Clients : pc'[c] = "ack" => pc[c] = "ack"
    BY <1>9 DEF Stop, Cancelled, TypeOK, PCs
  <2> QED
    BY <1>7, <1>9, <2>1 DEF Stop, apiVars, subVars
<1>10. ASSUME NEW c \in Clients, Connect(c) PROVE AnswerInv'
  BY <1>10, <1>7 DEF Connect, apiVars, subVars, TypeOK
<1>11. CASE UNCHANGED <<pc, wire, nacks, sender>>
  BY <1>7, <1>11
<1> QED
  BY <1>2, <1>3, <1>4, <1>5, <1>6, <1>8, <1>9, <1>10, <1>11
  DEF Next, Handler, vars, apiVars, subVars, Publish, Broadcast, Gathered, Stopped, Read, Disconnect, Ask

(* The answer to a subscribe is on the wire before any event of it. *)
THEOREM ServerAnswersFirst == Spec => []AnswerFirst
<1>1. Init => Departing /\ CleansUp /\ AnswerInv
  BY SubsType DEF Init, Departing, CleansUp, AnswerInv, Attributed, HasAnswer
<1>2. AnswerInv => AnswerFirst
  BY DEF AnswerInv, Attributed, AnswerFirst
<1> QED
  BY <1>1, <1>2, InitType, NextType, NextCounted, NextDeparts, NextAnswers, PTL DEF Spec

-----------------------------------------------------------------------------
(* Events come in order.                                                   *)

(* The lines w and the queue q of subscription k, when n subscribes of its *)
(* connection are answered and e events broadcast: the lines come in       *)
(* order, the queue does, the lines before the queue; nothing is written   *)
(* or queued that has not been broadcast, and nothing is written for a     *)
(* subscribe that is not answered.                                         *)
Rising(w, k) ==
  \A i, j \in 1 .. Len(w) : i < j /\ w[i].sub = k /\ w[j].sub = k => w[i].ev < w[j].ev
Increasing(q) == \A i, j \in 1 .. Len(q) : i < j => q[i] < q[j]
Before(w, k, q) == \A i \in 1 .. Len(w) : \A j \in 1 .. Len(q) : w[i].sub = k => w[i].ev < q[j]
Known(w, k, n, e) == \A i \in 1 .. Len(w) : w[i].sub = k => w[i].ev <= e /\ k <= n

Ordered(w, q, k, n, e) ==
  /\ Rising(w, k) /\ Increasing(q) /\ Before(w, k, q)
  /\ \A i \in 1 .. Len(q) : q[i] \in 1 .. e
  /\ Known(w, k, n, e)

AllOrdered ==
  \A s \in Subs : Ordered(wire[s[1]], queue[s], s[2], nacks[s[1]], Len(log))

Line == [sub : Nat, ev : Nat]

(* z is w and then v. *)
Extends(z, w, v) ==
  /\ Len(w) \in Nat /\ Len(v) \in Nat /\ Len(z) = Len(w) + Len(v)
  /\ \A i \in 1 .. Len(w) : z[i] = w[i]
  /\ \A i \in 1 .. Len(z) :
       \/ i \in 1 .. Len(w)
       \/ i > Len(w) /\ i - Len(w) \in 1 .. Len(v) /\ z[i] = v[i - Len(w)]

LEMMA ConcatExtends ==
  ASSUME NEW w \in Seq(Line), NEW v \in Seq(Line)
  PROVE  Extends(w \o v, w, v)
<1> DEFINE z == w \o v
<1>1. /\ Len(w) \in Nat /\ Len(v) \in Nat /\ Len(z) = Len(w) + Len(v)
      /\ \A i \in 1 .. Len(w) : z[i] = w[i]
      /\ \A i \in 1 .. Len(w) + Len(v) : i > Len(w) => z[i] = v[i - Len(w)]
  BY ConcatProperties
<1> HIDE DEF z
<1>2. \A i \in 1 .. Len(w) + Len(v) : i \in 1 .. Len(w) \/ (i > Len(w) /\ i - Len(w) \in 1 .. Len(v))
  BY <1>1
<1> QED
  BY <1>1, <1>2 DEF Extends, z

LEMMA AppendExtends ==
  ASSUME NEW w \in Seq(Line), NEW x \in Line
  PROVE  Append(w, x) \in Seq(Line) /\ Extends(Append(w, x), w, <<x>>)
<1> HIDE DEF Line
<1>1. <<x>> \in Seq(Line) /\ Append(w, x) \in Seq(Line) /\ Append(w, x) = w \o <<x>>
  BY AppendIsConcat, AppendProperties
<1> QED
  BY <1>1, ConcatExtends

(* Lines after those there are. *)
LEMMA RisingExtends ==
  ASSUME NEW w, NEW v, NEW z, NEW k, Extends(z, w, v), Rising(w, k), Rising(v, k),
         \A i \in 1 .. Len(w) : \A j \in 1 .. Len(v) : w[i].sub = k /\ v[j].sub = k => w[i].ev < v[j].ev
  PROVE  Rising(z, k)
<1> SUFFICES ASSUME NEW i \in 1 .. Len(z), NEW j \in 1 .. Len(z), i < j, z[i].sub = k, z[j].sub = k
             PROVE  z[i].ev < z[j].ev
  BY DEF Rising
<1> USE DEF Extends
<1>1. CASE j \in 1 .. Len(w)
  <2>1. i \in 1 .. Len(w)
    BY <1>1
  <2> QED
    BY <1>1, <2>1 DEF Rising
<1>2. CASE i \in 1 .. Len(w) /\ j \notin 1 .. Len(w)
  BY <1>2
<1>3. CASE i \notin 1 .. Len(w) /\ j \notin 1 .. Len(w)
  <2>1. i - Len(w) \in 1 .. Len(v) /\ j - Len(w) \in 1 .. Len(v) /\ i - Len(w) < j - Len(w)
    BY <1>3
  <2> QED
    BY <1>3, <2>1 DEF Rising
<1> QED
  BY <1>1, <1>2, <1>3

(* An answer to a subscribe that is not answered yet is the first line of  *)
(* its subscription.                                                       *)
LEMMA AnswerOrdered ==
  ASSUME NEW w \in Seq(Line), NEW q \in Seq(Nat), NEW k \in Nat, NEW n \in Nat, NEW e \in Nat,
         NEW x \in Line, NEW m \in Nat, Ordered(w, q, k, n, e),
         x.ev = 0, n <= m, x.sub = k => n < k /\ k <= m
  PROVE  Ordered(Append(w, x), q, k, m, e)
<1> DEFINE z == Append(w, x)
           v == <<x>>
<1>1. Extends(z, w, v)
  BY AppendExtends
<1>2. Len(v) = 1 /\ v[1] = x
  OBVIOUS
<1> HIDE DEF z, v
<1>3. \A i \in 1 .. Len(z) : (i \in 1 .. Len(w) /\ z[i] = w[i]) \/ z[i] = x
  <2>1. \A i \in 1 .. Len(v) : v[i] = x
    BY <1>2
  <2> QED
    BY <1>1, <2>1 DEF Extends
<1>4. \A i \in 1 .. Len(w) : w[i].sub = k => x.sub # k
  BY DEF Ordered, Known
<1>5. Rising(z, k)
  <2>1. Rising(v, k)
    BY <1>2 DEF Rising
  <2>2. \A i \in 1 .. Len(w) : \A j \in 1 .. Len(v) :
          w[i].sub = k /\ v[j].sub = k => w[i].ev < v[j].ev
    BY <1>2, <1>4
  <2> QED
    BY <1>1, <2>1, <2>2, RisingExtends DEF Ordered
<1>6. Before(z, k, q)
  <2>1. \A j \in 1 .. Len(q) : q[j] \in Nat /\ q[j] > 0
    BY DEF Ordered
  <2> QED
    BY <1>3, <2>1 DEF Ordered, Before
<1>7. Known(z, k, m, e)
  <2>1. \A i \in 1 .. Len(w) : w[i].sub = k => w[i].ev <= e /\ k <= m
    BY DEF Ordered, Known
  <2> SUFFICES ASSUME NEW i \in 1 .. Len(z), z[i].sub = k PROVE z[i].ev <= e /\ k <= m
    BY DEF Known
  <2>2. CASE i \in 1 .. Len(w) /\ z[i] = w[i]
    BY <2>1, <2>2
  <2>3. CASE z[i] = x
    BY <2>3
  <2> QED
    BY <1>3, <2>2, <2>3
<1> QED
  BY <1>5, <1>6, <1>7 DEF Ordered, z

(* What a sender writes for another subscription. *)
LEMMA OthersOrdered ==
  ASSUME NEW w \in Seq(Line), NEW v \in Seq(Line), NEW q, NEW k, NEW n, NEW e,
         Ordered(w, q, k, n, e), \A i \in 1 .. Len(v) : v[i].sub # k
  PROVE  Ordered(w \o v, q, k, n, e)
<1> DEFINE z == w \o v
<1>1. Extends(z, w, v)
  BY ConcatExtends
<1> HIDE DEF z
<1>2. Rising(z, k)
  BY <1>1, RisingExtends DEF Ordered, Rising
<1>3. \A i \in 1 .. Len(z) : z[i].sub = k => i \in 1 .. Len(w) /\ z[i] = w[i]
  BY <1>1 DEF Extends
<1>4. Before(z, k, q) /\ Known(z, k, n, e)
  BY <1>3 DEF Ordered, Before, Known
<1> QED
  BY <1>2, <1>4 DEF Ordered, z

(* What it writes for its own, the first r of the queue. *)
LEMMA SentOrdered ==
  ASSUME NEW w \in Seq(Line), NEW q \in Seq(Nat), NEW k \in Nat, NEW n, NEW e \in Nat,
         Ordered(w, q, k, n, e), k <= n,
         NEW r \in 0 .. Len(q), NEW v \in Seq(Line), NEW rest,
         Len(v) = r, \A i \in 1 .. r : v[i] = Item(k, q[i]),
         Len(rest) = Len(q) - r, \A i \in 1 .. Len(q) - r : rest[i] = q[r + i]
  PROVE  Ordered(w \o v, rest, k, n, e)
<1> DEFINE z == w \o v
<1>1. Extends(z, w, v)
  BY ConcatExtends
<1> HIDE DEF z
<1>2. Len(q) \in Nat /\ r \in Nat
  BY LenProperties
<1>3. /\ \A i \in 1 .. r : i \in 1 .. Len(q) /\ v[i].sub = k /\ v[i].ev = q[i]
      /\ \A i \in 1 .. Len(rest) : r + i \in 1 .. Len(q) /\ rest[i] = q[r + i]
  BY <1>2 DEF Item
<1>4. \A i \in 1 .. Len(q) : q[i] \in 1 .. e
  BY DEF Ordered
<1>5. \A i \in 1 .. Len(z) :
        (i \in 1 .. Len(w) /\ z[i] = w[i]) \/ \E j \in 1 .. r : z[i] = v[j]
  BY <1>1 DEF Extends
<1>6. Increasing(rest) /\ \A i \in 1 .. Len(rest) : rest[i] \in 1 .. e
  <2>1. \A i, j \in 1 .. Len(rest) : i < j => r + i < r + j
    BY <1>2
  <2>2. \A i, j \in 1 .. Len(rest) : i < j => q[r + i] < q[r + j]
    BY <1>3, <2>1 DEF Ordered, Increasing
  <2>3. Increasing(rest)
    BY <1>3, <2>2 DEF Increasing
  <2> QED
    BY <1>3, <1>4, <2>3
<1>7. Rising(z, k)
  <2>1. Rising(v, k)
    BY <1>3 DEF Ordered, Increasing, Rising
  <2>2. \A i \in 1 .. Len(w) : \A j \in 1 .. Len(v) :
          w[i].sub = k /\ v[j].sub = k => w[i].ev < v[j].ev
    BY <1>3 DEF Ordered, Before
  <2> QED
    BY <1>1, <2>1, <2>2, RisingExtends DEF Ordered
<1>8. Before(z, k, rest)
  <2> SUFFICES ASSUME NEW i \in 1 .. Len(z), NEW j \in 1 .. Len(rest), z[i].sub = k
               PROVE  z[i].ev < rest[j]
    BY DEF Before
  <2>1. CASE i \in 1 .. Len(w) /\ z[i] = w[i]
    BY <1>3, <2>1 DEF Ordered, Before
  <2>2. ASSUME NEW h \in 1 .. r, z[i] = v[h] PROVE z[i].ev < rest[j]
    <3>1. h < r + j
      BY <1>2, <1>3
    <3> QED
      BY <1>3, <2>2, <3>1 DEF Ordered, Increasing
  <2> QED
    BY <1>5, <2>1, <2>2
<1>9. Known(z, k, n, e)
  <2> SUFFICES ASSUME NEW i \in 1 .. Len(z), z[i].sub = k
               PROVE  z[i].ev <= e /\ k <= n
    BY DEF Known
  <2>1. CASE i \in 1 .. Len(w) /\ z[i] = w[i]
    BY <2>1 DEF Ordered, Known
  <2>2. ASSUME NEW h \in 1 .. r, z[i] = v[h] PROVE z[i].ev <= e /\ k <= n
    BY <1>3, <1>4, <2>2
  <2> QED
    BY <1>5, <2>1, <2>2
<1> QED
  BY <1>6, <1>7, <1>8, <1>9 DEF Ordered, z

(* A queue that loses its first event; one that takes a new event. *)
LEMMA QueueOrdered ==
  ASSUME NEW w \in Seq(Line), NEW q \in Seq(Nat), NEW k, NEW n, NEW e \in Nat, Ordered(w, q, k, n, e)
  PROVE  /\ q # <<>> => Ordered(w, Tail(q), k, n, e)
         /\ Ordered(w, q, k, n, e + 1) /\ Ordered(w, Append(q, e + 1), k, n, e + 1)
<1>1. \A i \in 1 .. Len(w) : w[i].ev \in Nat
  <2>1. \A i \in 1 .. Len(w) : w[i] \in Line
    BY ElementOfSeq
  <2> QED
    BY <2>1 DEF Line
<1>2. ASSUME q # <<>> PROVE Ordered(w, Tail(q), k, n, e)
  <2>1. Len(q) \in Nat /\ Len(Tail(q)) = Len(q) - 1 /\ \A i \in 1 .. Len(Tail(q)) : Tail(q)[i] = q[i + 1]
    BY <1>2, HeadTailProperties, LenProperties
  <2> DEFINE z == Tail(q)
  <2>2. \A i \in 1 .. Len(z) : i + 1 \in 1 .. Len(q) /\ z[i] = q[i + 1]
    BY <2>1
  <2>3. Len(z) \in Nat
    BY <1>2, <2>1, HeadTailProperties, LenProperties
  <2> HIDE DEF z
  <2>4. \A i, j \in 1 .. Len(z) : i < j => i + 1 < j + 1
    BY <2>3
  <2>5. Increasing(z)
    BY <2>2, <2>4 DEF Ordered, Increasing
  <2>6. Before(w, k, z) /\ \A i \in 1 .. Len(z) : z[i] \in 1 .. e
    BY <2>2 DEF Ordered, Before
  <2> QED
    BY <2>5, <2>6 DEF Ordered, z
<1>3. Known(w, k, n, e + 1) /\ \A i \in 1 .. Len(q) : q[i] \in 1 .. e + 1
  BY <1>1 DEF Ordered, Known
<1>4. Ordered(w, Append(q, e + 1), k, n, e + 1)
  <2> DEFINE z == Append(q, e + 1)
  <2>1. /\ Len(q) \in Nat /\ Len(z) = Len(q) + 1 /\ z[Len(q) + 1] = e + 1
        /\ \A i \in 1 .. Len(q) : z[i] = q[i]
    BY AppendProperties
  <2> HIDE DEF z
  <2>2. \A i \in 1 .. Len(q) : q[i] \in Nat /\ q[i] < e + 1
    BY DEF Ordered
  <2>3. Increasing(z)
    <3> SUFFICES ASSUME NEW i \in 1 .. Len(q) + 1, NEW j \in 1 .. Len(q) + 1, i < j PROVE z[i] < z[j]
      BY <2>1 DEF Increasing
    <3>1. i \in 1 .. Len(q) /\ (j \in 1 .. Len(q) \/ j = Len(q) + 1)
      BY <2>1
    <3> QED
      BY <2>1, <2>2, <3>1 DEF Ordered, Increasing
  <2>4. \A i \in 1 .. Len(z) : z[i] \in 1 .. e + 1
    <3>1. e + 1 \in 1 .. e + 1
      OBVIOUS
    <3>2. \A i \in 1 .. Len(q) + 1 : i \in 1 .. Len(q) \/ i = Len(q) + 1
      BY <2>1
    <3> QED
      BY <1>3, <2>1, <3>1, <3>2
  <2>5. Before(w, k, z)
    <3> SUFFICES ASSUME NEW i \in 1 .. Len(w), NEW j \in 1 .. Len(q) + 1, w[i].sub = k PROVE w[i].ev < z[j]
      BY <2>1 DEF Before
    <3>1. w[i].ev \in Nat /\ w[i].ev <= e
      BY <1>1 DEF Ordered, Known
    <3>2. j \in 1 .. Len(q) \/ j = Len(q) + 1
      BY <2>1
    <3> QED
      BY <2>1, <3>1, <3>2 DEF Ordered, Before
  <2> QED
    BY <1>3, <2>3, <2>4, <2>5 DEF Ordered, z
<1> QED
  BY <1>2, <1>3, <1>4 DEF Ordered

LEMMA InOrderIs == TypeOK /\ AllOrdered => InOrder
<1> SUFFICES ASSUME TypeOK, AllOrdered, NEW s \in Subs
             PROVE  LET w == wire[s[1]]
                        q == queue[s]
                    IN  /\ \A j \in 1 .. Len(w) : \A i \in 1 .. j - 1 :
                             w[i].sub = s[2] /\ w[j].sub = s[2] => w[i].ev < w[j].ev
                        /\ \A j \in 1 .. Len(q) : \A i \in 1 .. j - 1 : q[i] < q[j]
                        /\ \A i \in 1 .. Len(w) : \A j \in 1 .. Len(q) :
                             w[i].sub = s[2] => w[i].ev < q[j]
  BY DEF InOrder
<1> DEFINE w == wire[s[1]]
           q == queue[s]
<1>1. Ordered(w, q, s[2], nacks[s[1]], Len(log))
  BY DEF AllOrdered
<1>2. Len(w) \in Nat /\ Len(q) \in Nat
  BY DEF TypeOK, WireType, QueueType, Subs
<1> HIDE DEF w, q
<1>3. \A n \in Nat : \A j \in 1 .. n : \A i \in 1 .. j - 1 : i \in 1 .. n /\ i < j
  OBVIOUS
<1>4. \A j \in 1 .. Len(w) : \A i \in 1 .. j - 1 :
         w[i].sub = s[2] /\ w[j].sub = s[2] => w[i].ev < w[j].ev
  BY <1>1, <1>2, <1>3 DEF Ordered, Rising
<1>5. \A j \in 1 .. Len(q) : \A i \in 1 .. j - 1 : q[i] < q[j]
  BY <1>1, <1>2, <1>3 DEF Ordered, Increasing
<1>6. \A i \in 1 .. Len(w) : \A j \in 1 .. Len(q) : w[i].sub = s[2] => w[i].ev < q[j]
  BY <1>1 DEF Ordered, Before
<1> QED
  BY <1>4, <1>5, <1>6 DEF w, q

(* What writes nothing and queues nothing. *)
LEMMA StaysOrdered ==
  ASSUME TypeOK, AllOrdered, UNCHANGED <<wire, queue, log>>,
         \A c \in Clients : nacks'[c] \in Nat /\ nacks[c] <= nacks'[c]
  PROVE  AllOrdered'
<1> SUFFICES ASSUME NEW s \in Subs
             PROVE  Ordered(wire[s[1]], queue[s], s[2], nacks'[s[1]], Len(log))
  BY DEF AllOrdered
<1>1. s[1] \in Clients /\ s[2] \in Nat /\ nacks[s[1]] \in Nat
  BY ServerAssumption DEF TypeOK, ApiType, Subs
<1> QED
  BY <1>1 DEF AllOrdered, Ordered, Known

(* What writes an answer. *)
LEMMA WriteOrdered ==
  ASSUME TypeOK, AllOrdered, NEW d \in Clients, NEW n \in Nat, Write(d, Item(n, 0)),
         UNCHANGED <<queue, log>>,
         \A c \in Clients : nacks'[c] \in Nat /\ nacks[c] <= nacks'[c],
         n = 0 \/ (nacks[d] < n /\ n <= nacks'[d])
  PROVE  AllOrdered'
<1>1. wire'[d] = Append(wire[d], Item(n, 0)) /\ \A c \in Clients : c # d => wire'[c] = wire[c]
  BY DEF Write, TypeOK, WireType
<1>2. wire[d] \in Seq(Line) /\ Item(n, 0) \in Line /\ Item(n, 0).ev = 0 /\ Item(n, 0).sub = n
  BY DEF TypeOK, WireType, Item, Line
<1> SUFFICES ASSUME NEW s \in Subs
             PROVE  Ordered(wire'[s[1]], queue[s], s[2], nacks'[s[1]], Len(log))
  BY DEF AllOrdered
<1>3. /\ s[1] \in Clients /\ s[2] \in Nat /\ s[2] # 0 /\ nacks[s[1]] \in Nat
      /\ queue[s] \in Seq(Nat) /\ Len(log) \in Nat
      /\ Ordered(wire[s[1]], queue[s], s[2], nacks[s[1]], Len(log))
  BY ServerAssumption DEF TypeOK, ApiType, QueueType, EventType, Subs, AllOrdered
<1>4. CASE s[1] # d
  <2>1. wire'[s[1]] = wire[s[1]] /\ nacks'[s[1]] \in Nat /\ nacks[s[1]] <= nacks'[s[1]]
    BY <1>1, <1>3, <1>4
  <2>2. Known(wire[s[1]], s[2], nacks'[s[1]], Len(log))
    BY <1>3, <2>1 DEF Ordered, Known
  <2> QED
    BY <1>3, <2>1, <2>2 DEF Ordered
<1>5. CASE s[1] = d
  <2> DEFINE w == wire[d]
             q == queue[s]
             k == s[2]
             a == nacks[d]
             m == nacks'[d]
             e == Len(log)
             x == Item(n, 0)
  <2>1. /\ w \in Seq(Line) /\ q \in Seq(Nat) /\ k \in Nat /\ a \in Nat /\ m \in Nat /\ e \in Nat
        /\ x \in Line /\ x.ev = 0 /\ a <= m /\ Ordered(w, q, k, a, e)
    BY <1>2, <1>3, <1>5
  <2>2. x.sub = k => a < k /\ k <= m
    BY <1>2, <1>3
  <2>3. wire'[s[1]] = Append(w, x)
    BY <1>1, <1>5
  <2> HIDE DEF w, q, k, a, m, e, x
  <2>4. Ordered(Append(w, x), q, k, m, e)
    BY <2>1, <2>2, AnswerOrdered
  <2> QED
    BY <1>5, <2>3, <2>4 DEF q, k, m, e
<1> QED
  BY <1>4, <1>5

(* A run of a sender. *)
LEMMA SendOrdered ==
  ASSUME TypeOK, AnswerInv, AllOrdered, NEW s \in Subs, Send(s)
  PROVE  AllOrdered'
<1> DEFINE c == s[1]
           k == s[2]
           r == RunLength(s)
           w == wire[c]
           v == [i \in 1 .. r |-> Item(k, queue[s][i])]
<1>1. c \in Clients /\ k \in 1 .. MaxSubs /\ k \in Nat /\ s = <<c, k>> /\ r \in 0 .. Len(queue[s])
  BY RunLengthType, ServerAssumption DEF Subs
<1>2. /\ wire' = [wire EXCEPT ![c] = w \o v] /\ queue' = [queue EXCEPT ![s] = Remaining(queue[s], r)]
      /\ nacks' = nacks /\ log' = log /\ sender[s] # "none"
  BY DEF Send, apiVars, eventVars
<1>3. /\ w \in Seq(Line) /\ v \in Seq(Line) /\ Len(v) = r
      /\ \A i \in 1 .. r : v[i] = Item(k, queue[s][i])
  BY <1>1, SendParts DEF TypeOK, WireType, Line
<1>4. /\ Len(Remaining(queue[s], r)) = Len(queue[s]) - r
      /\ \A i \in 1 .. Len(queue[s]) - r : Remaining(queue[s], r)[i] = queue[s][r + i]
  BY <1>1, SendParts
<1>5. queue[s] \in Seq(Nat) /\ nacks[c] \in Nat /\ Len(log) \in Nat
      /\ Ordered(w, queue[s], k, nacks[c], Len(log))
  BY <1>1, ServerAssumption DEF TypeOK, QueueType, ApiType, EventType, AllOrdered
<1> HIDE DEF r, v, w
<1>6. k <= nacks[c]
  <2>1. PICK i \in 1 .. Len(w) : w[i] = Item(k, 0)
    BY <1>1, <1>2 DEF AnswerInv, HasAnswer, w
  <2>2. w[i].sub = k
    BY <2>1 DEF Item
  <2> QED
    BY <1>5, <2>2 DEF Ordered, Known
<1>7. wire'[c] = w \o v /\ \A d \in Clients : d # c => wire'[d] = wire[d]
  BY <1>1, <1>2 DEF TypeOK, WireType
<1>8. queue'[s] = Remaining(queue[s], r) /\ \A t \in Subs : t # s => queue'[t] = queue[t]
  BY <1>2 DEF TypeOK, QueueType
<1> SUFFICES ASSUME NEW t \in Subs
             PROVE  Ordered(wire'[t[1]], queue'[t], t[2], nacks[t[1]], Len(log))
  BY <1>2 DEF AllOrdered
<1>9. t[1] \in Clients /\ t = <<t[1], t[2]>> /\ Ordered(wire[t[1]], queue[t], t[2], nacks[t[1]], Len(log))
  BY DEF Subs, AllOrdered
<1>10. CASE t = s
  <2>1. Ordered(w \o v, Remaining(queue[s], r), k, nacks[c], Len(log))
    BY <1>1, <1>3, <1>4, <1>5, <1>6, SentOrdered
  <2> QED
    BY <1>7, <1>8, <1>10, <2>1
<1>11. CASE t # s /\ t[1] = c
  <2>1. \A i \in 1 .. Len(v) : v[i].sub # t[2]
    BY <1>1, <1>3, <1>9, <1>11 DEF Item
  <2>2. Ordered(w \o v, queue[t], t[2], nacks[t[1]], Len(log))
    BY <1>3, <1>9, <1>11, <2>1, OthersOrdered DEF w
  <2> QED
    BY <1>7, <1>8, <1>11, <2>2
<1>12. CASE t # s /\ t[1] # c
  BY <1>7, <1>8, <1>9, <1>12
<1> QED
  BY <1>10, <1>11, <1>12

LEMMA SendFailsOrdered ==
  ASSUME TypeOK, AllOrdered, NEW s \in Subs, SendFails(s)
  PROVE  AllOrdered'
<1>1. UNCHANGED <<wire, log, nacks>>
  BY DEF SendFails, apiVars, eventVars
<1>2. CASE UNCHANGED queue
  BY <1>1, <1>2, StaysOrdered, ServerAssumption DEF TypeOK, ApiType
<1>3. CASE queue[s] # <<>> /\ queue' = [queue EXCEPT ![s] = Tail(queue[s])]
  <2>1. /\ s[1] \in Clients /\ wire[s[1]] \in Seq(Line) /\ queue[s] \in Seq(Nat) /\ Len(log) \in Nat
        /\ Ordered(wire[s[1]], queue[s], s[2], nacks[s[1]], Len(log))
    BY DEF TypeOK, WireType, QueueType, EventType, Subs, AllOrdered, Line
  <2>2. Ordered(wire[s[1]], Tail(queue[s]), s[2], nacks[s[1]], Len(log))
    BY <1>3, <2>1, QueueOrdered
  <2>3. queue'[s] = Tail(queue[s]) /\ \A t \in Subs : t # s => queue'[t] = queue[t]
    BY <1>3 DEF TypeOK, QueueType
  <2> QED
    BY <1>1, <2>2, <2>3 DEF AllOrdered
<1> QED
  BY <1>2, <1>3 DEF SendFails

LEMMA BroadcastOrdered ==
  ASSUME TypeOK, AllOrdered, Broadcast
  PROVE  AllOrdered'
<1> DEFINE name == Head(pending)
           e == Len(log)
<1>1. /\ UNCHANGED <<wire, nacks>> /\ log' = Append(log, name)
      /\ queue' = [s \in Subs |-> OfferedQueue(s, name)]
  BY DEF Broadcast, apiVars
<1>2. e \in Nat /\ Len(log') = e + 1
  BY <1>1 DEF TypeOK, EventType
<1> SUFFICES ASSUME NEW s \in Subs
             PROVE  Ordered(wire[s[1]], OfferedQueue(s, name), s[2], nacks[s[1]], e + 1)
  BY <1>1, <1>2 DEF AllOrdered
<1>3. /\ wire[s[1]] \in Seq(Line) /\ queue[s] \in Seq(Nat)
      /\ Ordered(wire[s[1]], queue[s], s[2], nacks[s[1]], e)
  BY DEF TypeOK, WireType, QueueType, Subs, AllOrdered, Line
<1>4. OfferedQueue(s, name) \in {queue[s], Append(queue[s], e + 1)}
  BY DEF OfferedQueue
<1> HIDE DEF e, name
<1>5. /\ Ordered(wire[s[1]], queue[s], s[2], nacks[s[1]], e + 1)
      /\ Ordered(wire[s[1]], Append(queue[s], e + 1), s[2], nacks[s[1]], e + 1)
  BY <1>2, <1>3, QueueOrdered
<1> QED
  BY <1>4, <1>5

LEMMA NextOrdered == TypeOK /\ AnswerInv /\ AllOrdered /\ [Next]_vars => AllOrdered'
<1> SUFFICES ASSUME TypeOK, AnswerInv, AllOrdered, [Next]_vars PROVE AllOrdered'
  OBVIOUS
<1>1. \A c \in Clients : nacks[c] \in Nat
  BY ServerAssumption DEF TypeOK, ApiType
<1>2. ASSUME UNCHANGED <<wire, queue, log, nacks>> PROVE AllOrdered'
  BY <1>1, <1>2, StaysOrdered
<1>3. ASSUME NEW d \in Clients, UNCHANGED <<queue, log, nacks>>,
             UNCHANGED wire \/ Write(d, Item(0, 0))
      PROVE  AllOrdered'
  BY <1>1, <1>2, <1>3, WriteOrdered
<1>4. ASSUME NEW d \in Clients, Subscribe(d) PROVE AllOrdered'
  <2> DEFINE k == nacks[d] + 1
  <2>1. /\ nacks' = [nacks EXCEPT ![d] = k] /\ UNCHANGED <<queue, log>>
        /\ UNCHANGED wire \/ Write(d, Item(k, 0))
    BY <1>4 DEF Subscribe, Takes, eventVars, Answer
  <2>2. /\ \A c \in Clients : nacks'[c] \in Nat /\ nacks[c] <= nacks'[c]
        /\ nacks[d] < k /\ k <= nacks'[d] /\ k \in Nat
    BY <1>1, <2>1 DEF TypeOK, ApiType
  <2> HIDE DEF k
  <2> QED
    BY <2>1, <2>2, StaysOrdered, WriteOrdered
<1>5. ASSUME NEW d \in Clients, Handler(d), ~Subscribe(d) PROVE AllOrdered'
  <2>1. UNCHANGED <<queue, log, nacks>>
    BY <1>5 DEF Handler, Reply, SkipLine, BadRequest, TooLarge, Drained, Leaves, Unwind, Closed,
         Takes, eventVars, apiVars
  <2>2. UNCHANGED wire \/ Write(d, Item(0, 0))
    BY <1>5 DEF Handler, Reply, SkipLine, BadRequest, TooLarge, Drained, Leaves, Unwind, Closed, Answer
  <2> QED
    BY <1>3, <2>1, <2>2
<1>6. ASSUME NEW s \in Subs, Send(s) \/ SendFails(s) PROVE AllOrdered'
  BY <1>6, SendOrdered, SendFailsOrdered
<1>7. CASE Broadcast
  BY <1>7, BroadcastOrdered
<1> QED
  BY <1>2, <1>4, <1>5, <1>6, <1>7
     DEF Next, vars, apiVars, eventVars, Publish, Stop, Gathered, Stopped, Connect, Ask, Read, Disconnect

(* broadcast and _send_events keep the order: what a client reads of a     *)
(* subscription is in the order of broadcast, each event once, and before  *)
(* all that is still queued for it.                                        *)
THEOREM ServerInOrder == Spec => []InOrder
<1>1. Init => Departing /\ CleansUp /\ AnswerInv /\ AllOrdered
  BY SubsType DEF Init, Departing, CleansUp, AnswerInv, Attributed, HasAnswer,
                  AllOrdered, Ordered, Rising, Increasing, Before, Known, Subs
<1> QED
  BY <1>1, InitType, NextType, NextCounted, NextDeparts, NextAnswers, NextOrdered, InOrderIs, PTL
     DEF Spec

(* A subscriber leaves the registry only when broadcast finds its queue    *)
(* full, when its handler ends, or when stop() returns.                    *)
THEOREM ServerOnlyFullDropped == Spec => OnlyFullDropped
<1>1. ASSUME TypeOK, [Next]_vars, NEW s \in registry, s \notin registry'
      PROVE  \/ Len(queue[s]) = QueueSize
             \/ pc'[s[1]] \in {"unwind", "closing"}
             \/ phase' = "stopped"
  <2> USE <1>1
  <2>1. ASSUME NEW d \in Clients, Finally(d) PROVE pc'[s[1]] \in {"unwind", "closing"}
    <3>1. s = <<d, mine[d]>>
      BY <2>1 DEF Finally
    <3> QED
      BY <2>1, <3>1 DEF Finally, TypeOK, HandlerType
  <2>2. ASSUME NEW d \in Clients, Handler(d) PROVE pc'[s[1]] \in {"unwind", "closing"}
    <3>1. Finally(d)
      BY <2>2 DEF Handler, Subscribe, Reply, SkipLine, BadRequest, TooLarge, Drained, Leaves,
           Unwind, Closed, Answer, Register, subVars
    <3> QED
      BY <2>1, <3>1
  <2>3. CASE Broadcast
    <3>1. s \in Full
      BY <2>3 DEF Broadcast, Dropped
    <3>2. Len(queue[s]) \in Nat /\ Len(queue[s]) <= QueueSize /\ Len(queue[s]) >= QueueSize
      BY <3>1, ServerAssumption DEF Full, TypeOK, QueueType, SubType
    <3> QED
      BY <3>2, ServerAssumption
  <2>4. CASE Stopped
    BY <2>4 DEF Stopped
  <2> QED
    BY <2>2, <2>3, <2>4
       DEF Next, vars, subVars, Send, SendFails, Publish, Stop, Gathered, Connect, Ask, Read, Disconnect
<1>2. TypeOK /\ [Next]_vars =>
        [\A s \in registry \ registry' :
            \/ Len(queue[s]) = QueueSize
            \/ pc'[s[1]] \in {"unwind", "closing"}
            \/ phase' = "stopped"]_vars
  BY <1>1
<1> QED
  BY <1>2, InitType, NextType, NextCounted, PTL DEF Spec, OnlyFullDropped

-----------------------------------------------------------------------------
(* The server implements the bus.                                          *)

(* The state of the bus that the server has (Bus in DaemonServer.tla). *)
Entered == {s \in Subs : sender[s] # "none"}
Asked == [s \in Subs |-> IF sender[s] = "none" THEN {} ELSE globs[s]]
Owed == [s \in Subs |-> IF Running(s) THEN Queued(s) ELSE {}]
Got == [s \in Subs |-> Events(s)]
Ended == {s \in Subs : sender[s] \in {"cancelled", "dead"}}

(* What the mapping rests on. *)

(* The next subscribe of a connection has no sender yet. *)
Unborn ==
  \A c \in Clients, k \in 1 .. MaxSubs :
    k > nacks[c] \/ (k = nacks[c] /\ pc[c] = "ack") => sender[<<c, k>>] = "none"

(* Who is on the registry has a sender; who has none has nothing queued. *)
Attended ==
  /\ \A s \in registry : sender[s] # "none"
  /\ \A s \in Subs : sender[s] = "none" => queue[s] = <<>>

(* No glob is Null. *)
Globbed == \A s \in Subs : globs[s] \subseteq ValidGlobs

Mapped == Unborn /\ Attended /\ Globbed

(* No client sends "events": null. *)
NamesItsEvents == \A r \in Requests : r.method = "subscribe" => r.events # {Null}

(* What subscriptions with a sender have asked for does not change. *)
SameGlobs == \A t \in Subs : sender[t] # "none" => globs'[t] = globs[t]

(* Steps that start or end no delivery. *)
LEMMA SameBus ==
  ASSUME UNCHANGED <<log, registry, since, queue, sender>>, SameGlobs, Got' = Got
  PROVE  UNCHANGED Bus!vars
<1>1. Entered' = Entered /\ Asked' = Asked /\ Ended' = Ended
  BY DEF Entered, Asked, Ended, SameGlobs
<1>2. Owed' = Owed
  BY DEF Owed, Running, Queued
<1> QED
  BY <1>1, <1>2 DEF Bus!vars, Entered, Asked, Owed, Got, Ended

(* A line for no subscription, or an answer, is no event. *)
LEMMA AnswersAreNoEvents ==
  ASSUME TypeOK, NEW d \in Clients, NEW n \in Nat, UNCHANGED log,
         UNCHANGED wire \/ Write(d, Item(n, 0))
  PROVE  Got' = Got
<1>1. CASE UNCHANGED wire
  BY <1>1 DEF Got, Events
<1>2. CASE Write(d, Item(n, 0))
  <2> SUFFICES ASSUME NEW s \in Subs, NEW e \in 1 .. Len(log)
               PROVE  (\E i \in 1 .. Len(wire'[s[1]]) : wire'[s[1]][i] = Item(s[2], e))
                      <=> (\E i \in 1 .. Len(wire[s[1]]) : wire[s[1]][i] = Item(s[2], e))
    BY DEF Got, Events
  <2>1. CASE s[1] # d
    BY <1>2, <2>1 DEF Write, TypeOK, WireType, Subs
  <2>2. CASE s[1] = d
    <3> DEFINE w == wire[d]
               x == Item(n, 0)
    <3>1. w \in Seq(Line) /\ x \in Line /\ wire'[d] = Append(w, x)
      BY <1>2, ItemType DEF Write, TypeOK, WireType, Line
    <3>2. x # Item(s[2], e)
      <4>1. Item(n, 0).ev = 0 /\ Item(s[2], e).ev = e
        BY DEF Item
      <4>2. Len(log) \in Nat
        BY DEF TypeOK, EventType
      <4> QED
        BY <4>1, <4>2
    <3> HIDE DEF w, x
    <3>3. /\ Len(w) \in Nat /\ Len(Append(w, x)) = Len(w) + 1 /\ Append(w, x)[Len(w) + 1] = x
          /\ \A i \in 1 .. Len(w) : Append(w, x)[i] = w[i]
      BY <3>1, AppendProperties
    <3>4. \A i \in 1 .. Len(w) + 1 : i \in 1 .. Len(w) \/ i = Len(w) + 1
      BY <3>3
    <3>5. (\E i \in 1 .. Len(Append(w, x)) : Append(w, x)[i] = Item(s[2], e))
            <=> (\E i \in 1 .. Len(w) : w[i] = Item(s[2], e))
      BY <3>2, <3>3, <3>4
    <3> QED
      BY <2>2, <3>1, <3>5 DEF w
  <2> QED
    BY <2>1, <2>2
<1> QED
  BY <1>1, <1>2

(* The subscription a handler knows is one, unless it knows none. *)
LEMMA MineIs ==
  ASSUME TypeOK, Departing, NEW d \in Clients
  PROVE  /\ mine[d] # 0 => <<d, mine[d]>> \in Subs /\ sender[<<d, mine[d]>>] # "none"
         /\ mine[d] = 0 => <<d, mine[d]>> \notin Subs
BY SubsType, ServerAssumption DEF Departing, TypeOK, SubType, Subs

(* A sender that is cancelled, or returns, ends a delivery. *)
LEMMA EndOnBus ==
  ASSUME TypeOK, NEW s \in Subs, sender[s] # "none", NEW x \in {"cancelled", "dead"},
         sender' = [sender EXCEPT ![s] = x], \A t \in Subs : t # s => queue'[t] = queue[t],
         NEW leaving \in SUBSET registry, registry' = registry \ leaving,
         Got' = Got, SameGlobs, UNCHANGED <<log, since>>
  PROVE  Bus!Next
<1>1. \A t \in Subs : sender'[t] = IF t = s THEN x ELSE sender[t]
  BY DEF TypeOK, SubType
<1>2. Entered' = Entered /\ Asked' = Asked /\ Ended' = Ended \cup {s} /\ s \in Entered
  BY <1>1 DEF Entered, Asked, Ended, SameGlobs
<1>3. Owed' = [Owed EXCEPT ![s] = {}]
  <2>1. \A t \in Subs : Owed'[t] = IF t = s THEN {} ELSE Owed[t]
    <3>1. \A t \in Subs : t # s => Queued(t)' = Queued(t)
      BY DEF Queued
    <3> QED
      BY <1>1, <3>1 DEF Owed, Running
  <2>2. Owed' = [t \in Subs |-> Owed'[t]] /\ Owed = [t \in Subs |-> Owed[t]]
    BY DEF Owed
  <2> HIDE DEF Owed
  <2> QED
    BY <2>1, <2>2
<1>4. Bus!End(s, leaving)
  BY <1>2, <1>3 DEF Bus!End, Entered, Asked, Owed, Got, Ended
<1> QED
  BY <1>4 DEF Bus!Next

(* The finally block takes a subscription off, and ends its delivery. *)
LEMMA FinallyOnBus ==
  ASSUME TypeOK, Departing, NEW d \in Clients, Finally(d),
         Got' = Got, SameGlobs, UNCHANGED <<log, queue>>
  PROVE  Bus!Next
<1> DEFINE s == <<d, mine[d]>>
           leaving == registry \cap {s}
<1>1. registry' = registry \ leaving /\ leaving \in SUBSET registry /\ since' = since
  BY DEF Finally
<1>2. CASE mine[d] # 0 /\ sender[s] # "dead"
  <2>1. s \in Subs /\ sender[s] # "none" /\ sender' = [sender EXCEPT ![s] = "cancelled"]
    BY <1>2, MineIs DEF Finally
  <2> HIDE DEF s, leaving
  <2> QED
    BY <1>1, <2>1, EndOnBus
<1>3. CASE ~(mine[d] # 0 /\ sender[s] # "dead")
  <2>1. sender' = sender
    BY <1>3 DEF Finally
  <2>3. Entered' = Entered /\ Asked' = Asked /\ Ended' = Ended /\ Owed' = Owed
    BY <2>1 DEF Entered, Asked, Ended, SameGlobs, Owed, Running, Queued
  <2>2. Bus!Leave(leaving)
    BY <1>1, <2>3 DEF Bus!Leave, Entered, Asked, Owed, Got, Ended
  <2> HIDE DEF leaving
  <2> QED
    BY <1>1, <2>2 DEF Bus!Next
<1> QED
  BY <1>2, <1>3

(* A subscription that is registered joins. *)
LEMMA RegisterOnBus ==
  ASSUME TypeOK, NEW s \in Subs, sender[s] = "none", queue[s] = <<>>,
         registry' = registry \cup {s}, since' = [since EXCEPT ![s] = Len(log)],
         sender' = [sender EXCEPT ![s] = "get"],
         NEW g \in SUBSET ValidGlobs, globs' = [globs EXCEPT ![s] = g],
         Got' = Got, UNCHANGED <<log, queue>>
  PROVE  Bus!Next
<1>1. \A t \in Subs : sender'[t] = IF t = s THEN "get" ELSE sender[t]
  BY DEF TypeOK, SubType
<1>2. Entered' = Entered \cup {s} /\ Ended' = Ended /\ s \notin Entered
  BY <1>1 DEF Entered, Ended
<1>3. Asked' = [Asked EXCEPT ![s] = g]
  <2>1. \A t \in Subs : Asked'[t] = IF t = s THEN g ELSE Asked[t]
    BY <1>1 DEF Asked, TypeOK, ApiType
  <2>2. Asked' = [t \in Subs |-> Asked'[t]] /\ Asked = [t \in Subs |-> Asked[t]]
    BY DEF Asked
  <2> HIDE DEF Asked
  <2> QED
    BY <2>1, <2>2
<1>4. Owed' = Owed
  <2>1. \A t \in Subs : Owed'[t] = Owed[t]
    <3>1. \A t \in Subs : Queued(t)' = Queued(t)
      BY DEF Queued
    <3>2. Queued(s) = {}
      BY DEF Queued
    <3> QED
      BY <1>1, <3>1, <3>2 DEF Owed, Running
  <2>2. Owed' = [t \in Subs |-> Owed'[t]] /\ Owed = [t \in Subs |-> Owed[t]]
    BY DEF Owed
  <2> HIDE DEF Owed
  <2> QED
    BY <2>1, <2>2
<1>5. g \in Bus!Globs
  BY DEF Bus!Globs, ValidGlobs
<1>6. Bus!Join(s, g)
  BY <1>2, <1>3, <1>4 DEF Bus!Join, Entered, Asked, Owed, Got, Ended
<1> QED
  BY <1>5, <1>6 DEF Bus!Next

(* A run of a sender hands over the oldest events it has.  *)
LEMMA SendOnBus ==
  ASSUME TypeOK, AllOrdered, NEW s \in Subs, Send(s)
  PROVE  [Bus!Next]_Bus!vars
<1> DEFINE n == RunLength(s)
           q == queue[s]
           c == s[1]
           f == [i \in 1 .. n |-> Item(s[2], q[i])]
<1>1. /\ c \in Clients /\ s[2] \in Nat /\ s = <<c, s[2]>> /\ q \in Seq(Nat) /\ Len(q) \in Nat
      /\ n \in 0 .. Len(q) /\ n \in Nat /\ wire[c] \in Seq(Line)
  BY RunLengthType, ServerAssumption DEF Subs, TypeOK, QueueType, WireType, Line
<1>2. /\ wire' = [wire EXCEPT ![c] = wire[c] \o f] /\ queue' = [queue EXCEPT ![s] = Remaining(q, n)]
      /\ Running(s) /\ \A t \in Subs : Running(t)' <=> Running(t)
      /\ \A t \in Subs : (sender'[t] = "none" <=> sender[t] = "none")
      /\ \A t \in Subs : (sender'[t] \in {"cancelled", "dead"} <=> sender[t] \in {"cancelled", "dead"})
      /\ UNCHANGED <<registry, log, globs, since>>
  BY DEF Send, Running, apiVars, eventVars, TypeOK, SubType
<1>3. Entered' = Entered /\ Asked' = Asked /\ Ended' = Ended /\ s \notin Ended
  BY <1>2 DEF Entered, Asked, Ended, Running
<1>4. /\ \A i \in 1 .. Len(q) : q[i] \in 1 .. Len(log)
      /\ \A i, j \in 1 .. Len(q) : i < j => q[i] < q[j]
  BY DEF AllOrdered, Ordered, Increasing
<1>5. Len(log) \in Nat
  BY DEF TypeOK, EventType
<1>6. /\ Len(Remaining(q, n)) = Len(q) - n
      /\ \A i \in 1 .. Len(q) - n : Remaining(q, n)[i] = q[n + i]
  BY <1>1, SendParts
<1>7. /\ f \in Seq(Line) /\ Len(f) = n /\ \A i \in 1 .. n : f[i] = Item(s[2], q[i])
  BY <1>1, SendParts DEF Line
<1> HIDE DEF n, f, q
<1>8. \A t \in Subs : Events(t)' = IF t = s THEN Events(t) \cup {q[i] : i \in 1 .. n} ELSE Events(t)
  <2> SUFFICES ASSUME NEW t \in Subs
               PROVE  Events(t)' = IF t = s THEN Events(t) \cup {q[i] : i \in 1 .. n} ELSE Events(t)
    OBVIOUS
  <2>1. CASE t[1] # c
    <3>1. wire'[t[1]] = wire[t[1]] /\ t # s
      BY <1>2, <2>1 DEF TypeOK, WireType, Subs
    <3>2. Events(t)' = Events(t)
      BY <1>2, <3>1 DEF Events
    <3> QED
      BY <3>1, <3>2
  <2>2. CASE t[1] = c
    <3> DEFINE w == wire[c]
               z == w \o f
    <3>1. wire'[t[1]] = z
      BY <1>1, <1>2, <2>2 DEF TypeOK, WireType
    <3>2. Extends(z, w, f)
      BY <1>1, <1>7, ConcatExtends
    <3>3. Events(t) = {e \in 1 .. Len(log) : \E i \in 1 .. Len(w) : w[i] = Item(t[2], e)}
      BY <2>2 DEF Events
    <3>4. Events(t)' = {e \in 1 .. Len(log) : \E i \in 1 .. Len(z) : z[i] = Item(t[2], e)}
      BY <1>2, <3>1 DEF Events
    <3> HIDE DEF w, z
    <3>5. \A i \in 1 .. n : i + Len(w) \in 1 .. Len(z) /\ z[i + Len(w)] = f[i]
      <4>1. SUFFICES ASSUME NEW i \in 1 .. n PROVE i + Len(w) \in 1 .. Len(z) /\ z[i + Len(w)] = f[i]
        OBVIOUS
      <4>2. i + Len(w) \in 1 .. Len(z) /\ i + Len(w) \notin 1 .. Len(w) /\ (i + Len(w)) - Len(w) = i
        BY <1>1, <1>7, <3>2 DEF Extends
      <4> QED
        BY <3>2, <4>2 DEF Extends
    <3>6. \A e \in 1 .. Len(log) :
            (\E i \in 1 .. Len(z) : z[i] = Item(t[2], e))
            <=> (\E i \in 1 .. Len(w) : w[i] = Item(t[2], e)) \/ (\E i \in 1 .. n : f[i] = Item(t[2], e))
      <4> SUFFICES ASSUME NEW e \in 1 .. Len(log)
                   PROVE  (\E i \in 1 .. Len(z) : z[i] = Item(t[2], e))
                          <=> (\E i \in 1 .. Len(w) : w[i] = Item(t[2], e)) \/ (\E i \in 1 .. n : f[i] = Item(t[2], e))
        OBVIOUS
      <4>1. ASSUME NEW i \in 1 .. Len(z), z[i] = Item(t[2], e)
            PROVE  (\E j \in 1 .. Len(w) : w[j] = Item(t[2], e)) \/ (\E j \in 1 .. n : f[j] = Item(t[2], e))
        BY <1>7, <3>2, <4>1 DEF Extends
      <4>2. ASSUME NEW i \in 1 .. Len(w), w[i] = Item(t[2], e)
            PROVE  \E j \in 1 .. Len(z) : z[j] = Item(t[2], e)
        <5>1. i \in 1 .. Len(z) /\ z[i] = w[i]
          BY <3>2 DEF Extends
        <5> QED
          BY <4>2, <5>1
      <4>3. ASSUME NEW i \in 1 .. n, f[i] = Item(t[2], e)
            PROVE  \E j \in 1 .. Len(z) : z[j] = Item(t[2], e)
        BY <3>5, <4>3
      <4> QED
        BY <4>1, <4>2, <4>3
    <3>7. \A e \in 1 .. Len(log) : (\E i \in 1 .. n : f[i] = Item(t[2], e)) <=> t = s /\ e \in {q[i] : i \in 1 .. n}
      <4>1. t[2] = s[2] <=> t = s
        BY <1>1, <2>2 DEF Subs
      <4>2. \A i \in 1 .. n : \A e \in 1 .. Len(log) : f[i] = Item(t[2], e) <=> t[2] = s[2] /\ e = q[i]
        BY <1>7 DEF Item
      <4> QED
        BY <4>1, <4>2
    <3> DEFINE firsts == {q[i] : i \in 1 .. n}
    <3>8. firsts \subseteq 1 .. Len(log)
      BY <1>1, <1>4
    <3> HIDE DEF firsts
    <3>9. \A e \in 1 .. Len(log) : e \in Events(t)' <=> e \in Events(t) \/ (t = s /\ e \in firsts)
      BY <3>3, <3>4, <3>6, <3>7 DEF firsts
    <3>10. Events(t) \subseteq 1 .. Len(log) /\ Events(t)' \subseteq 1 .. Len(log)
      BY <3>3, <3>4
    <3>11. Events(t)' = IF t = s THEN Events(t) \cup firsts ELSE Events(t)
      BY <3>8, <3>9, <3>10
    <3> QED
      BY <3>11 DEF firsts
  <2> QED
    BY <2>1, <2>2
<1>9. Queued(s) = {q[i] : i \in 1 .. Len(q)} /\ Queued(s)' = {q[i] : i \in n + 1 .. Len(q)}
  <2>1. queue'[s] = Remaining(q, n)
    BY <1>2 DEF TypeOK, QueueType
  <2>2. \A i \in n + 1 .. Len(q) : i - n \in 1 .. Len(q) - n /\ n + (i - n) = i
    BY <1>1
  <2>3. \A i \in 1 .. Len(q) - n : n + i \in n + 1 .. Len(q)
    BY <1>1
  <2>4. {Remaining(q, n)[i] : i \in 1 .. Len(q) - n} = {q[i] : i \in n + 1 .. Len(q)}
    BY <1>6, <2>2, <2>3
  <2> QED
    BY <1>6, <2>1, <2>4 DEF Queued, q
<1>10. CASE n = 0
  <2>1. {q[i] : i \in 1 .. n} = {} /\ {q[i] : i \in n + 1 .. Len(q)} = {q[i] : i \in 1 .. Len(q)}
    BY <1>10
  <2>2. Got' = Got
    BY <1>8, <2>1 DEF Got
  <2>3. \A t \in Subs : Queued(t)' = Queued(t)
    <3>1. \A t \in Subs : t # s => Queued(t)' = Queued(t)
      BY <1>2 DEF Queued, TypeOK, QueueType
    <3> QED
      BY <1>9, <2>1, <3>1
  <2>4. Owed' = Owed
    BY <1>2, <2>3 DEF Owed
  <2> QED
    BY <1>2, <1>3, <2>2, <2>4 DEF Bus!vars, Entered, Asked, Owed, Got, Ended
<1>11. CASE n # 0
  <2> DEFINE batch == {e \in Queued(s) : e <= q[n]}
  <2>1. n \in 1 .. Len(q) /\ q[n] \in 1 .. Len(log)
    BY <1>1, <1>4, <1>11
  <2>10. \A i \in 1 .. Len(q) : q[i] <= q[n] <=> i <= n
    <3> SUFFICES ASSUME NEW i \in 1 .. Len(q) PROVE q[i] <= q[n] <=> i <= n
      OBVIOUS
    <3>1. q[i] \in Nat /\ q[n] \in Nat
      BY <1>4, <1>5, <2>1
    <3>2. (i < n => q[i] < q[n]) /\ (n < i => q[n] < q[i])
      BY <1>4, <2>1
    <3> QED
      BY <1>1, <3>1, <3>2
  <2>11. /\ \A i \in 1 .. n : i \in 1 .. Len(q) /\ i <= n
         /\ \A i \in n + 1 .. Len(q) : i \in 1 .. Len(q) /\ ~(i <= n)
         /\ \A i \in 1 .. Len(q) : IF i <= n THEN i \in 1 .. n ELSE i \in n + 1 .. Len(q)
    BY <1>1
  <2>2. batch = {q[i] : i \in 1 .. n}
    BY <1>9, <2>10, <2>11
  <2>3. Queued(s) \ batch = {q[i] : i \in n + 1 .. Len(q)}
    BY <1>9, <2>10, <2>11
  <2>4. Owed[s] = Queued(s)
    BY <1>2 DEF Owed
  <2> HIDE DEF batch
  <2>5. Got' = [Got EXCEPT ![s] = Got[s] \cup batch]
    <3>1. \A t \in Subs : Got'[t] = IF t = s THEN Got[s] \cup batch ELSE Got[t]
      BY <1>8, <2>2 DEF Got
    <3>2. Got = [t \in Subs |-> Got[t]] /\ Got' = [t \in Subs |-> Got'[t]]
      BY DEF Got
    <3> HIDE DEF Got
    <3> QED
      BY <3>1, <3>2
  <2>6. Owed' = [Owed EXCEPT ![s] = Owed[s] \ batch]
    <3>1. \A t \in Subs : t # s => Queued(t)' = Queued(t)
      BY <1>2 DEF Queued, TypeOK, QueueType
    <3>2. \A t \in Subs : Owed'[t] = IF t = s THEN Owed[s] \ batch ELSE Owed[t]
      BY <1>2, <1>9, <2>3, <2>4, <3>1 DEF Owed
    <3>3. Owed = [t \in Subs |-> Owed[t]] /\ Owed' = [t \in Subs |-> Owed'[t]]
      BY DEF Owed
    <3> HIDE DEF Owed
    <3> QED
      BY <3>2, <3>3
  <2>7. batch = {e \in Owed[s] : e <= q[n]}
    BY <2>4 DEF batch
  <2>8. Bus!Deliver(s, q[n])
    BY <1>2, <1>3, <2>5, <2>6, <2>7 DEF Bus!Deliver, Entered, Asked, Owed, Got, Ended
  <2> QED
    BY <2>1, <2>8 DEF Bus!Next
<1> QED
  BY <1>10, <1>11

(* A broadcast publishes its event; the subscribers it finds with a full   *)
(* queue are dropped.                                                      *)
LEMMA BroadcastOnBus ==
  ASSUME TypeOK, Mapped, AllOrdered, Broadcast
  PROVE  Bus!Next
<1> DEFINE name == Head(pending)
           dropped == Dropped(name)
           e == Len(log) + 1
<1>1. /\ log' = Append(log, name) /\ queue' = [s \in Subs |-> OfferedQueue(s, name)]
      /\ registry' = registry \ dropped /\ UNCHANGED <<wire, globs, since, sender>>
  BY DEF Broadcast, apiVars
<1>2. name \in Names /\ Len(log) \in Nat /\ Len(log') = e
  <2>1. pending \in Seq(Names) /\ pending # <<>> /\ log \in Seq(Names)
    BY DEF Broadcast, TypeOK, EventType
  <2>2. name \in Names
    BY <2>1, HeadTailProperties
  <2> QED
    BY <1>1, <2>1, <2>2, AppendProperties
<1>3. \A s \in registry : s \in Subs /\ Null \notin globs[s]
  BY ServerAssumption DEF Mapped, Unborn, Attended, Globbed, TypeOK, SubType
<1>4. /\ Hit(name) = {s \in registry : Matches(name, globs[s])}
      /\ dropped = Hit(name) \cap Full
  BY <1>3 DEF Hit, Offered, Dropped, Raises
<1> HIDE DEF name, dropped, e
<1>5. Entered' = Entered /\ Asked' = Asked /\ Ended' = Ended
  BY <1>1 DEF Entered, Asked, Ended
<1>6. Got' = Got
  <2> SUFFICES ASSUME NEW s \in Subs PROVE Events(s)' = Events(s)
    BY DEF Got
  <2>1. s[1] \in Clients /\ wire[s[1]] \in Seq(Line)
    BY DEF Subs, TypeOK, WireType, Line
  <2>2. \A i \in 1 .. Len(wire[s[1]]) : wire[s[1]][i] # Item(s[2], e)
    <3> SUFFICES ASSUME NEW i \in 1 .. Len(wire[s[1]]), wire[s[1]][i] = Item(s[2], e) PROVE FALSE
      OBVIOUS
    <3>1. wire[s[1]][i].sub = s[2] /\ wire[s[1]][i].ev = e
      BY DEF Item
    <3>2. wire[s[1]][i].ev <= Len(log)
      BY <3>1 DEF AllOrdered, Ordered, Known
    <3> QED
      BY <1>2, <3>1, <3>2 DEF e
  <2>3. \A m : m \in 1 .. Len(log') <=> m \in 1 .. Len(log) \/ m = e
    BY <1>2 DEF e
  <2>4. Events(s)' = {m \in 1 .. Len(log') : \E i \in 1 .. Len(wire[s[1]]) : wire[s[1]][i] = Item(s[2], m)}
    BY <1>1 DEF Events
  <2> QED
    BY <2>2, <2>3, <2>4 DEF Events
<1>7. Owed' = [s \in Subs |->
                 IF s \in registry \ (dropped \cup Ended) /\ Bus!Wants(Asked[s], name)
                 THEN Owed[s] \cup {e} ELSE Owed[s]]
  <2> SUFFICES ASSUME NEW s \in Subs
               PROVE  Owed'[s] = IF s \in registry \ (dropped \cup Ended) /\ Bus!Wants(Asked[s], name)
                                 THEN Owed[s] \cup {e} ELSE Owed[s]
    <3>1. Owed' = [s \in Subs |-> Owed'[s]]
      BY DEF Owed
    <3> HIDE DEF Owed, Ended
    <3> QED
      BY <3>1
  <2>1. queue'[s] = OfferedQueue(s, name) /\ Running(s)' = Running(s)
    BY <1>1 DEF Running
  <2>2. CASE ~Running(s)
    <3>1. s \notin registry \ Ended
      BY <2>2 DEF Running, Ended, Mapped, Unborn, Attended, Globbed, TypeOK, SubType, Senders
    <3> QED
      BY <2>1, <2>2, <3>1 DEF Owed
  <2>3. CASE Running(s)
    <3>1. s \notin Ended /\ Asked[s] = globs[s] /\ Owed[s] = Queued(s) /\ Owed'[s] = Queued(s)'
      BY <2>1, <2>3 DEF Running, Ended, Asked, Owed
    <3>2. s \in Hit(name) \ Full <=> s \in registry \ (dropped \cup Ended) /\ Bus!Wants(Asked[s], name)
      BY <1>4, <3>1 DEF Matches, Bus!Wants
    <3>3. queue[s] \in Seq(Nat) /\ Len(queue[s]) \in Nat
      BY DEF TypeOK, QueueType
    <3>4. Queued(s)' = IF s \in Hit(name) \ Full THEN Queued(s) \cup {e} ELSE Queued(s)
      <4>1. CASE s \notin Hit(name) \ Full
        BY <2>1, <4>1 DEF Queued, OfferedQueue
      <4>2. CASE s \in Hit(name) \ Full
        <5> DEFINE q == queue[s]
                   z == Append(q, e)
        <5>1. queue'[s] = z
          BY <2>1, <4>2 DEF OfferedQueue, e
        <5>2. Queued(s) = {q[i] : i \in 1 .. Len(q)} /\ Queued(s)' = {z[i] : i \in 1 .. Len(z)}
          BY <5>1 DEF Queued
        <5> HIDE DEF q
        <5>3. /\ Len(q) \in Nat /\ Len(z) = Len(q) + 1 /\ z[Len(q) + 1] = e
              /\ \A i \in 1 .. Len(q) : z[i] = q[i]
          BY <1>2, <3>3, AppendProperties DEF q, e
        <5> HIDE DEF z
        <5>4. \A i : i \in 1 .. Len(z) <=> i \in 1 .. Len(q) \/ i = Len(q) + 1
          BY <5>3
        <5>5. {z[i] : i \in 1 .. Len(z)} = {q[i] : i \in 1 .. Len(q)} \cup {e}
          BY <5>3, <5>4
        <5> QED
          BY <4>2, <5>2, <5>5
      <4> QED
        BY <4>1, <4>2
    <3> QED
      BY <3>1, <3>2, <3>4
  <2> QED
    BY <2>2, <2>3
<1>8. \A s \in dropped : Bus!Wants(Asked[s], name)
  BY <1>3, <1>4 DEF Asked, Bus!Wants, Matches, Mapped, Unborn, Attended, Globbed
<1>9. dropped \in SUBSET registry
  BY <1>4
<1>10. Bus!Publish(name, dropped)
  BY <1>1, <1>5, <1>6, <1>7, <1>8 DEF Bus!Publish, Entered, Asked, Owed, Got, Ended, e
<1> QED
  BY <1>2, <1>9, <1>10 DEF Bus!Next

LEMMA StoppedOnBus ==
  ASSUME TypeOK, Stopped
  PROVE  Bus!Next
<1>1. registry' = registry \ registry /\ UNCHANGED <<wire, log, globs, since, sender, queue>>
  BY DEF Stopped, apiVars, eventVars
<1>2. Bus!Leave(registry)
  BY <1>1 DEF Bus!Leave, Running, Queued, Events
<1> QED
  BY <1>2 DEF Bus!Next

(* Every step of the server is one of the bus, or none. *)
LEMMA NextOnBus ==
  TypeOK /\ Counted /\ Departing /\ AllOrdered /\ Mapped /\ NamesItsEvents /\ [Next]_vars
    => [Bus!Next]_Bus!vars
<1> SUFFICES ASSUME TypeOK, Counted, Departing, AllOrdered, Mapped, NamesItsEvents, [Next]_vars
             PROVE  [Bus!Next]_Bus!vars
  OBVIOUS
<1>1. ASSUME NEW d \in Clients, Subscribe(d) PROVE [Bus!Next]_Bus!vars
  <2> DEFINE k == nacks[d] + 1
             g == Head(inbox[d]).events
             s == <<d, k>>
  <2>1. k \in 1 .. MaxSubs /\ k \in Nat /\ s \in Subs
    BY <1>1, SubsType, ServerAssumption DEF Subscribe, TypeOK, ApiType
  <2>2. g \in SUBSET ValidGlobs
    <3>1. Head(inbox[d]) \in Requests /\ Head(inbox[d]).method = "subscribe"
      BY <1>1, TakesType DEF Subscribe
    <3> QED
      BY <1>1, <3>1 DEF Subscribe, Accepted, NamesItsEvents
  <2>3. globs' = [globs EXCEPT ![s] = g] /\ UNCHANGED <<log, queue>>
    BY <1>1 DEF Subscribe, Takes, eventVars
  <2>4. sender[s] = "none" /\ queue[s] = <<>>
    <3>1. sender[s] = "none"
      BY <2>1 DEF Mapped, Unborn, Attended, Globbed, TypeOK, ApiType
    <3> QED
      BY <2>1, <3>1 DEF Mapped, Unborn, Attended, Globbed
  <2>5. Got' = Got
    BY <1>1, <2>1, <2>3, AnswersAreNoEvents DEF Subscribe, Answer
  <2>6. SameGlobs
    BY <2>3, <2>4 DEF SameGlobs, TypeOK, ApiType
  <2>7. CASE Finally(d)
    BY <2>3, <2>5, <2>6, <2>7, FinallyOnBus
  <2>8. CASE Register(d, k)
    <3>1. /\ registry' = registry \cup {s} /\ since' = [since EXCEPT ![s] = Len(log)]
          /\ sender' = [sender EXCEPT ![s] = "get"]
      BY <2>8 DEF Register
    <3> HIDE DEF s, g
    <3> QED
      BY <2>1, <2>2, <2>3, <2>4, <2>5, <3>1, RegisterOnBus
  <2>9. CASE UNCHANGED subVars
    BY <2>3, <2>5, <2>6, <2>9, SameBus DEF subVars
  <2> QED
    BY <1>1, <2>7, <2>8, <2>9 DEF Subscribe, Answer
<1>2. ASSUME UNCHANGED globs PROVE SameGlobs
  BY <1>2 DEF SameGlobs
<1>3. ASSUME NEW d \in Clients, UNCHANGED <<log, queue, globs>>,
             UNCHANGED wire \/ Write(d, Item(0, 0)), Finally(d) \/ UNCHANGED subVars
      PROVE  [Bus!Next]_Bus!vars
  <2>1. Got' = Got
    BY <1>3, AnswersAreNoEvents
  <2> QED
    BY <1>2, <1>3, <2>1, SameBus, FinallyOnBus DEF subVars
<1>4. ASSUME NEW d \in Clients,
             Reply(d) \/ SkipLine(d) \/ BadRequest(d) \/ TooLarge(d) \/ Leaves(d) \/ Closed(d)
      PROVE  [Bus!Next]_Bus!vars
  <2>1. UNCHANGED <<log, queue, globs>>
    BY <1>4 DEF Reply, SkipLine, BadRequest, TooLarge, Leaves, Closed, Takes, eventVars, apiVars
  <2>2. (UNCHANGED wire \/ Write(d, Item(0, 0))) /\ (Finally(d) \/ UNCHANGED subVars)
    BY <1>4 DEF Reply, SkipLine, BadRequest, TooLarge, Leaves, Closed, Answer, subVars
  <2> QED
    BY <1>3, <2>1, <2>2
<1>5. ASSUME NEW d \in Clients, Drained(d) PROVE [Bus!Next]_Bus!vars
  <2>1. UNCHANGED <<log, queue, globs, wire>>
    BY <1>5 DEF Drained, eventVars, apiVars
  <2>2. CASE Finally(d) \/ UNCHANGED subVars
    BY <1>3, <2>1, <2>2
  <2>3. CASE pc[d] = "ack" /\ Register(d, nacks[d])
    <3> DEFINE s == <<d, nacks[d]>>
    <3>1. nacks[d] \in 1 .. MaxSubs /\ s \in Subs
      BY <2>3, SubsType, ServerAssumption DEF Counted, TypeOK, ApiType
    <3>2. sender[s] = "none"
      BY <2>3, <3>1 DEF Mapped, Unborn, Attended, Globbed
    <3>3. queue[s] = <<>> /\ globs[s] \in SUBSET ValidGlobs /\ globs' = [globs EXCEPT ![s] = globs[s]]
      BY <2>1, <3>1, <3>2 DEF Mapped, Unborn, Attended, Globbed, TypeOK, ApiType
    <3>4. /\ registry' = registry \cup {s} /\ since' = [since EXCEPT ![s] = Len(log)]
          /\ sender' = [sender EXCEPT ![s] = "get"]
      BY <2>3 DEF Register
    <3>5. Got' = Got
      BY <2>1, AnswersAreNoEvents
    <3> HIDE DEF s
    <3> QED
      BY <2>1, <3>1, <3>2, <3>3, <3>4, <3>5, RegisterOnBus
  <2> QED
    BY <1>5, <2>2, <2>3 DEF Drained
<1>6. ASSUME NEW d \in Clients, Unwind(d) PROVE [Bus!Next]_Bus!vars
  <2> DEFINE s == <<d, mine[d]>>
  <2>1. s \in Subs /\ sender[s] # "none"
    BY <1>6, MineIs DEF Unwind, Departing
  <2>2. /\ sender' = [sender EXCEPT ![s] = "dead"]
        /\ UNCHANGED <<wire, log, queue, globs, registry, since>>
    BY <1>6 DEF Unwind, apiVars, eventVars
  <2>3. Got' = Got /\ SameGlobs
    BY <1>2, <1>6, <2>2, AnswersAreNoEvents
  <2> HIDE DEF s
  <2>4. registry' = registry \ {} /\ {} \in SUBSET registry
    BY <2>2
  <2> QED
    BY <2>1, <2>2, <2>3, <2>4, EndOnBus
<1>7. ASSUME NEW s \in Subs, SendFails(s) PROVE [Bus!Next]_Bus!vars
  <2>1. /\ sender[s] # "none" /\ sender' = [sender EXCEPT ![s] = "dead"]
        /\ \A t \in Subs : t # s => queue'[t] = queue[t]
        /\ UNCHANGED <<wire, log, globs, registry, since>>
    BY <1>7 DEF SendFails, apiVars, eventVars, TypeOK, QueueType
  <2>2. Got' = Got /\ SameGlobs
    BY <1>2, <2>1 DEF Got, Events
  <2>3. registry' = registry \ {} /\ {} \in SUBSET registry
    BY <2>1
  <2> QED
    BY <2>1, <2>2, <2>3, EndOnBus
<1>8. CASE UNCHANGED <<wire, log, registry, globs, since, queue, sender>>
  <2>1. Got' = Got
    BY <1>8 DEF Got, Events
  <2> QED
    BY <1>2, <1>8, <2>1, SameBus
<1>9. ASSUME NEW d \in Clients, Handler(d) PROVE [Bus!Next]_Bus!vars
  BY <1>1, <1>4, <1>5, <1>6, <1>9 DEF Handler
<1>10. CASE UNCHANGED vars \/ Stop \/ Gathered
  BY <1>8, <1>10 DEF vars, apiVars, subVars, eventVars, Stop, Gathered
<1>11. CASE \E name \in Names : Publish(name)
  BY <1>8, <1>11 DEF apiVars, subVars, Publish
<1>12. ASSUME NEW d \in Clients, Connect(d) \/ Read(d) \/ Disconnect(d) \/ \E r \in Requests : Ask(d, r)
       PROVE  [Bus!Next]_Bus!vars
  BY <1>8, <1>12 DEF apiVars, subVars, eventVars, Connect, Read, Disconnect, Ask
<1>13. CASE Stopped \/ Broadcast
  BY <1>13, StoppedOnBus, BroadcastOnBus
<1>14. ASSUME NEW s \in Subs, Send(s) PROVE [Bus!Next]_Bus!vars
  BY <1>14, SendOnBus
<1> QED
  BY <1>7, <1>9, <1>10, <1>11, <1>12, <1>13, <1>14 DEF Next

LEMMA NextUnborn == TypeOK /\ Counted /\ Departing /\ Unborn /\ [Next]_vars => Unborn'
<1> SUFFICES ASSUME TypeOK, Counted, Departing, Unborn, [Next]_vars,
                    NEW c \in Clients, NEW k \in 1 .. MaxSubs,
                    k > nacks'[c] \/ (k = nacks'[c] /\ pc'[c] = "ack")
             PROVE  sender'[<<c, k>>] = "none"
  BY DEF Unborn
<1> USE DEF HandlerType, ApiType, SubType
<1>0. <<c, k>> \in Subs /\ nacks[c] \in Nat /\ k \in Nat
  BY SubsType, ServerAssumption DEF TypeOK
<1>1. ASSUME nacks' = nacks, pc'[c] = "ack" => pc[c] = "ack",
             sender[<<c, k>>] = "none" => sender'[<<c, k>>] = "none"
      PROVE  sender'[<<c, k>>] = "none"
  BY <1>1 DEF Unborn
<1>2. ASSUME NEW d \in Clients, Finally(d)
      PROVE  /\ sender[<<c, k>>] = "none" => sender'[<<c, k>>] = "none"
             /\ pc'[c] = "ack" => pc[c] = "ack"
  <2>1. sender[<<c, k>>] = "none" => sender'[<<c, k>>] = "none"
    <3>1. mine[d] # 0 => sender[<<d, mine[d]>>] # "none"
      BY DEF Departing
    <3> QED
      BY <1>0, <1>2, <3>1 DEF Finally, TypeOK
  <2> QED
    BY <1>2, <2>1, FinallyStarts
<1>3. ASSUME NEW d \in Clients, Subscribe(d) PROVE sender'[<<c, k>>] = "none"
  <2> DEFINE n == nacks[d] + 1
  <2>1. nacks' = [nacks EXCEPT ![d] = n] /\ pc[d] = "read"
    BY <1>3 DEF Subscribe, Takes
  <2>2. k >= nacks'[c] /\ nacks'[c] >= nacks[c] /\ (c = d => nacks'[c] = nacks[c] + 1)
    BY <1>0, <2>1 DEF TypeOK
  <2>3. CASE Finally(d) \/ UNCHANGED sender
    <3>1. c # d => pc'[c] = pc[c]
      BY <1>3 DEF Subscribe, Answer, Finally, TypeOK
    <3>2. sender[<<c, k>>] = "none"
      BY <1>0, <2>1, <2>2, <3>1 DEF Unborn, TypeOK
    <3> QED
      BY <1>2, <2>3, <3>2
  <2>4. CASE Register(d, n) /\ pc' = pc
    <3>1. ~(c = d /\ k = n)
      BY <2>1, <2>4 DEF TypeOK
    <3>2. sender'[<<c, k>>] = sender[<<c, k>>]
      BY <1>0, <2>4, <3>1 DEF Register, TypeOK
    <3>3. sender[<<c, k>>] = "none"
      BY <1>0, <2>1, <2>2, <2>4 DEF Unborn, TypeOK
    <3> QED
      BY <3>2, <3>3
  <2> QED
    BY <1>3, <2>3, <2>4 DEF Subscribe, Answer, subVars
<1>4. ASSUME NEW d \in Clients, Drained(d) PROVE sender'[<<c, k>>] = "none"
  <2>1. nacks' = nacks /\ (pc'[c] = "ack" => pc[c] = "ack" /\ c # d)
    BY <1>4 DEF Drained, Finally, apiVars, TypeOK
  <2>2. CASE Finally(d) \/ UNCHANGED subVars
    BY <1>1, <1>2, <2>1, <2>2 DEF subVars
  <2>3. CASE Register(d, nacks[d])
    <3>1. ~(c = d /\ k = nacks[d])
      BY <1>0, <2>1
    <3>2. sender'[<<c, k>>] = sender[<<c, k>>]
      BY <1>0, <2>3, <3>1 DEF Register, TypeOK
    <3> QED
      BY <1>1, <2>1, <3>2
  <2> QED
    BY <1>4, <2>2, <2>3 DEF Drained
<1>5. ASSUME NEW d \in Clients, Handler(d), ~Subscribe(d), ~Drained(d)
      PROVE  sender'[<<c, k>>] = "none"
  <2>1. nacks' = nacks
    BY <1>5 DEF Handler, Reply, SkipLine, BadRequest, TooLarge, Leaves, Unwind, Closed, apiVars
  <2>2. CASE Finally(d)
    BY <1>1, <1>2, <2>1, <2>2
  <2>3. CASE Unwind(d)
    <3>1. sender' = [sender EXCEPT ![<<d, mine[d]>>] = "dead"] /\ pc' = [pc EXCEPT ![d] = "closing"]
      BY <2>3 DEF Unwind
    <3>2. sender[<<d, mine[d]>>] # "none"
      BY <2>3 DEF Unwind, Departing
    <3> QED
      BY <1>0, <1>1, <2>1, <3>1, <3>2 DEF TypeOK
  <2>4. CASE UNCHANGED subVars /\ (pc'[c] = "ack" => pc[c] = "ack")
    BY <1>1, <2>1, <2>4 DEF subVars
  <2>5. Finally(d) \/ Unwind(d) \/ (UNCHANGED subVars /\ (pc'[c] = "ack" => pc[c] = "ack"))
    BY <1>5 DEF Handler, Reply, SkipLine, BadRequest, TooLarge, Leaves, Closed, Answer, subVars, TypeOK
  <2> QED
    BY <2>2, <2>3, <2>4, <2>5
<1>6. ASSUME NEW s \in Subs, Send(s) \/ SendFails(s) PROVE sender'[<<c, k>>] = "none"
  BY <1>0, <1>1, <1>6 DEF Send, SendFails, apiVars, TypeOK
<1>7. CASE Stop
  BY <1>1, <1>7 DEF Stop, Cancelled, apiVars, subVars, TypeOK, PCs
<1>8. ASSUME NEW d \in Clients, Connect(d) PROVE sender'[<<c, k>>] = "none"
  BY <1>1, <1>8 DEF Connect, apiVars, subVars, TypeOK
<1>9. CASE UNCHANGED <<pc, nacks, sender>>
  BY <1>1, <1>9
<1> QED
  BY <1>3, <1>4, <1>5, <1>6, <1>7, <1>8, <1>9
     DEF Next, vars, apiVars, subVars, Publish, Broadcast, Gathered, Stopped, Read, Disconnect, Ask

LEMMA NextAttended == TypeOK /\ Counted /\ Departing /\ Attended /\ [Next]_vars => Attended'
<1> SUFFICES ASSUME TypeOK, Counted, Departing, Attended, [Next]_vars PROVE Attended'
  OBVIOUS
<1> USE DEF SubType, QueueType
<1>1. ASSUME registry' \subseteq registry, \A s \in Subs : sender[s] # "none" => sender'[s] # "none",
             \A s \in Subs : sender'[s] = "none" => queue'[s] = queue[s]
      PROVE  Attended'
  BY <1>1 DEF Attended, TypeOK
<1>2. ASSUME NEW d \in Clients, Finally(d) \/ UNCHANGED subVars, UNCHANGED queue PROVE Attended'
  BY <1>1, <1>2 DEF Finally, subVars, TypeOK
<1>3. ASSUME NEW d \in Clients, NEW n \in 1 .. MaxSubs, Register(d, n), UNCHANGED queue PROVE Attended'
  <2>1. <<d, n>> \in Subs
    BY SubsType
  <2> QED
    BY <1>3, <2>1 DEF Attended, Register, TypeOK
<1>4. ASSUME NEW d \in Clients, Handler(d) PROVE Attended'
  <2>1. queue' = queue
    BY <1>4 DEF Handler, Subscribe, Reply, SkipLine, BadRequest, TooLarge, Drained, Leaves, Unwind, Closed, Takes
  <2>2. CASE Unwind(d)
    BY <1>1, <2>1, <2>2 DEF Unwind, TypeOK
  <2>3. CASE Subscribe(d)
    <3>1. nacks[d] + 1 \in 1 .. MaxSubs
      BY <2>3, ServerAssumption DEF Subscribe, TypeOK, ApiType
    <3> QED
      BY <1>2, <1>3, <2>1, <2>3, <3>1 DEF Subscribe, Answer
  <2>4. CASE Drained(d)
    <3>1. pc[d] = "ack" => nacks[d] \in 1 .. MaxSubs
      BY ServerAssumption DEF Counted, TypeOK, ApiType
    <3> QED
      BY <1>2, <1>3, <2>1, <2>4, <3>1 DEF Drained
  <2>5. CASE Reply(d) \/ SkipLine(d) \/ BadRequest(d) \/ TooLarge(d) \/ Leaves(d) \/ Closed(d)
    <3>1. Finally(d) \/ UNCHANGED subVars
      BY <2>5 DEF Reply, SkipLine, BadRequest, TooLarge, Leaves, Closed, Answer, subVars
    <3> QED
      BY <1>2, <2>1, <3>1
  <2> QED
    BY <1>4, <2>2, <2>3, <2>4, <2>5 DEF Handler
<1>5. ASSUME NEW s \in Subs, Send(s) \/ SendFails(s) PROVE Attended'
  <2>1. registry' = registry /\ \A t \in Subs : t # s => sender'[t] = sender[t] /\ queue'[t] = queue[t]
    BY <1>5 DEF Send, SendFails, TypeOK
  <2>2. sender'[s] # "none"
    BY <1>5 DEF Send, SendFails, TypeOK
  <2> QED
    BY <1>1, <2>1, <2>2
<1>6. CASE Broadcast
  <2>1. registry' \subseteq registry /\ sender' = sender
    BY <1>6 DEF Broadcast
  <2>2. \A s \in Subs : sender[s] = "none" => queue'[s] = queue[s]
    BY <1>6 DEF Broadcast, OfferedQueue, Hit, Attended
  <2> QED
    BY <1>1, <2>1, <2>2
<1>7. CASE UNCHANGED <<sender, queue>> /\ registry' \subseteq registry
  BY <1>1, <1>7
<1> QED
  BY <1>4, <1>5, <1>6, <1>7
     DEF Next, vars, subVars, Publish, Stop, Gathered, Stopped, Connect, Read, Disconnect, Ask

LEMMA NextGlobs ==
  TypeOK /\ NamesItsEvents /\ Globbed /\ [Next]_vars => Globbed'
<1> SUFFICES ASSUME TypeOK, NamesItsEvents, Globbed, [Next]_vars PROVE Globbed'
  OBVIOUS
<1> USE DEF Globbed
<1>1. ASSUME NEW d \in Clients, Subscribe(d) PROVE Globbed'
  <2>1. Head(inbox[d]) \in Requests /\ Head(inbox[d]).method = "subscribe"
    BY <1>1, TakesType DEF Subscribe
  <2>2. Head(inbox[d]).events \subseteq ValidGlobs
    BY <1>1, <2>1 DEF Subscribe, Accepted, NamesItsEvents
  <2>3. globs' = [globs EXCEPT ![<<d, nacks[d] + 1>>] = Head(inbox[d]).events]
    BY <1>1 DEF Subscribe
  <2> QED
    BY <2>2, <2>3 DEF TypeOK, ApiType
<1>2. CASE UNCHANGED globs
  BY <1>2
<1> QED
  BY <1>1, <1>2
     DEF Next, Handler, Reply, SkipLine, BadRequest, TooLarge, Drained, Leaves, Unwind, Closed, Send,
         SendFails, Publish, Broadcast, Stop, Gathered, Stopped, Connect, Read, Disconnect, Ask, vars, apiVars

(* The network layer implements the abstract bus, whatever clients send    *)
(* but "events": null: what EventBus promises, BusPromise in               *)
(* EventBusProofs.tla, holds of what is written to clients.                *)
THEOREM ServerImplementsBus ==
  ASSUME NamesItsEvents
  PROVE  Spec => ImplementsBus
<1> DEFINE Inv == TypeOK /\ Counted /\ Departing /\ CleansUp /\ AnswerInv /\ AllOrdered /\ Mapped
<1>1. Init => Inv /\ Bus!Init
  <2> SUFFICES ASSUME Init PROVE Inv /\ Bus!Init
    OBVIOUS
  <2>1. TypeOK /\ Counted
    BY InitType
  <2>2. Departing /\ CleansUp /\ AnswerInv /\ AllOrdered
    BY SubsType DEF Init, Departing, CleansUp, AnswerInv, Attributed, HasAnswer,
                    AllOrdered, Ordered, Rising, Increasing, Before, Known, Subs
  <2>3. Mapped
    BY SubsType DEF Init, Mapped, Unborn, Attended, Globbed
  <2>4. Bus!Init
    <3>1. \A s \in Subs : Events(s) = {}
      BY DEF Init, Events, Subs
    <3> QED
      BY <3>1 DEF Init, Bus!Init, Running
  <2> QED
    BY <2>1, <2>2, <2>3, <2>4
<1>2. Inv /\ [Next]_vars => Inv'
  <2> SUFFICES ASSUME Inv, [Next]_vars PROVE Inv'
    OBVIOUS
  <2>1. Mapped'
    BY NextUnborn, NextAttended, NextGlobs DEF Mapped
  <2> QED
    BY <2>1, NextType, NextCounted, NextDeparts, NextAnswers, NextOrdered
<1>3. Inv /\ [Next]_vars => [Bus!Next]_Bus!vars
  BY NextOnBus
<1> HIDE DEF Inv
<1> QED
  BY <1>1, <1>2, <1>3, PTL DEF Spec, ImplementsBus, Bus!Spec

BusFacts == INSTANCE EventBusProofs WITH
         joined <- registry,
         entered <- {s \in Subs : sender[s] # "none"},
         globs <- [s \in Subs |-> IF sender[s] = "none" THEN {} ELSE globs[s]],
         owed <- [s \in Subs |-> IF Running(s) THEN Queued(s) ELSE {}],
         got <- [s \in Subs |-> Events(s)],
         ended <- {s \in Subs : sender[s] \in {"cancelled", "dead"}}

(* What is on the wire of a subscription is a gap-free beginning of the    *)
(* matching events broadcast since it was registered, nothing twice, and   *)
(* with what is queued it is all of them while it is on the registry.      *)
THEOREM ServerPromise ==
  ASSUME NamesItsEvents
  PROVE  Spec => [](Bus!NothingMissed /\ Bus!NoGaps /\ Bus!NoRepeats)
<1>1. Spec => Bus!Spec
  BY ServerImplementsBus DEF ImplementsBus
<1>2. /\ Bus!Init => BusFacts!Init
      /\ [Bus!Next]_Bus!vars => [BusFacts!Next]_BusFacts!vars
  BY DEF Bus!Init, Bus!Next, Bus!vars, Bus!Publish, Bus!Join, Bus!Deliver, Bus!End, Bus!Leave,
         Bus!Globs, Bus!Wants, BusFacts!Init, BusFacts!Next, BusFacts!vars, BusFacts!Publish,
         BusFacts!Join, BusFacts!Deliver, BusFacts!End, BusFacts!Leave, BusFacts!Globs, BusFacts!Wants
<1>3. /\ BusFacts!NothingMissed => Bus!NothingMissed
      /\ BusFacts!NoGaps => Bus!NoGaps
      /\ BusFacts!NoRepeats => Bus!NoRepeats
  BY DEF Bus!NothingMissed, Bus!NoGaps, Bus!NoRepeats, Bus!Due, Bus!Wants,
         BusFacts!NothingMissed, BusFacts!NoGaps, BusFacts!NoRepeats, BusFacts!Due, BusFacts!Wants
<1> QED
  BY <1>1, <1>2, <1>3, BusFacts!BusPromise, PTL DEF Bus!Spec, BusFacts!Spec
=============================================================================
