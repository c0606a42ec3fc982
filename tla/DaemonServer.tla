---------------------------- MODULE DaemonServer ----------------------------
(***************************************************************************)
(* ccxd's network layer (ccxd/server.py) with the subscription RPCs of     *)
(* ccxd/api.py: client connections, their handlers, the subscriber queues  *)
(* with their sender tasks, the broadcast tasks, and stop().               *)
(*                                                                         *)
(* asyncio is cooperative, so an action is what one task does from one     *)
(* suspension point to the next.  `await writer.drain()` and               *)
(* `await queue.get()` suspend only when they have to wait, so a handler   *)
(* that finds room in the transport writes and registers in one action.    *)
(*                                                                         *)
(* Lines are counted, not measured: the kernel's socket buffer takes       *)
(* SockBuf lines and drain() waits while more than SockBuf + HighWater     *)
(* lines are unread.                                                       *)
(***************************************************************************)
EXTENDS Naturals, Sequences, FiniteSets

CONSTANTS
  Clients,            \* connections to the control socket
  Names,              \* event names
  Star,               \* the glob "session.*"
  Null,               \* {Null} stands for "events": null in a subscribe
  Requests,           \* what clients may send
  QueueSize,          \* _SUBSCRIBER_QUEUE_SIZE
  SockBuf, HighWater, \* see above
  MaxSubs,            \* bound: subscribes of one connection
  MaxRequests,        \* bound: lines sent on one connection
  MaxEvents,          \* bound: events published
  Readers,            \* the clients that keep reading, for liveness
  WaitsForHandlers    \* does Server.wait_closed() wait for connections? (Python >= 3.12)

(* The k-th subscribe of connection c is the subscription <<c, k>>. *)
Subs == Clients \X (1 .. MaxSubs)
ValidGlobs == Names \cup {Star}

RequestsOK(r) ==
  \/ r.method = "subscribe"   \* its events may hold a stranger: it is refused then
  \/ r.method = "unsubscribe" /\ r.id \in 1 .. MaxSubs
  \/ r.method \in {"query", "badline", "nonobject", "oversize"}

ASSUME ServerAssumption ==
  /\ IsFiniteSet(Clients) /\ \A r \in Requests : RequestsOK(r)
  /\ QueueSize \in Nat \ {0}
  /\ SockBuf \in Nat /\ HighWater \in Nat
  /\ MaxSubs \in Nat /\ MaxRequests \in Nat /\ MaxEvents \in Nat
  /\ WaitsForHandlers \in BOOLEAN /\ Readers \subseteq Clients
  /\ Star \notin Names /\ Null \notin ValidGlobs

VARIABLES
  phase,     \* "running", then stop(): "gather", "closing", "stopped"
  gather,    \* the connections whose handlers stop() cancelled and waits for
  pc,        \* pc[c]: where the handler of c is suspended (see PCs)
  mine,      \* mine[c]: the handler's local `queue`: its last subscription, 0 if None
  peer,      \* peer[c]: is the client still connected?
  inbox,     \* inbox[c]: lines sent and not yet read by the handler
  sent,      \* sent[c]: number of lines sent, for the bound
  wire,      \* wire[c]: every line written to c: [sub |-> k, ev |-> event],
             \*   ev = 0 for the answer to the k-th subscribe, sub = 0 for other answers
  rd,        \* rd[c]: how many of them the client has read
  nacks,     \* nacks[c]: subscribes accepted on c
  globs,     \* globs[s]: the "events" of subscription s
  active,    \* api._subscriptions
  registry,  \* DaemonServer._subscribers
  stamp,     \* stamp[s]: place of s in the registry's insertion order
  since,     \* since[s]: events broadcast when s was registered
  queue,     \* queue[s]: its asyncio.Queue
  sender,    \* sender[s]: its sender task (see Senders)
  pending,   \* names of the events whose broadcast task has not run yet
  log        \* names of the events broadcast; an event is its index here

clientVars == <<peer, sent, rd>>
apiVars == <<nacks, globs, active>>
subVars == <<registry, stamp, since, mine, sender>>
eventVars == <<pending, log>>
phaseVars == <<phase, gather>>
vars == <<phaseVars, pc, inbox, clientVars, wire, apiVars, subVars, queue, eventVars>>

PCs == {"absent",  \* not connected yet
        "read",    \* awaiting readline()
        "reply",   \* awaiting drain() after an answer
        "ack",     \* awaiting drain() after the answer to a subscribe
        "bye",     \* awaiting drain() after payload_too_large
        "cancel",  \* cancelled by stop(), not yet resumed
        "unwind",  \* in the finally block, awaiting the cancelled sender
        "closing", \* in the finally block, awaiting writer.wait_closed()
        "gone"}    \* returned
Senders == {"none", "get", "drain", "cancelled", "dead"}

Item(k, e) == [sub |-> k, ev |-> e]

Init ==
  /\ phase = "running" /\ gather = {}
  /\ pc = [c \in Clients |-> "absent"]
  /\ mine = [c \in Clients |-> 0]
  /\ peer = [c \in Clients |-> FALSE]
  /\ inbox = [c \in Clients |-> <<>>]
  /\ sent = [c \in Clients |-> 0]
  /\ wire = [c \in Clients |-> <<>>]
  /\ rd = [c \in Clients |-> 0]
  /\ nacks = [c \in Clients |-> 0]
  /\ globs = [s \in Subs |-> {}]
  /\ active = {} /\ registry = {}
  /\ stamp = [s \in Subs |-> 0]
  /\ since = [s \in Subs |-> 0]
  /\ queue = [s \in Subs |-> <<>>]
  /\ sender = [s \in Subs |-> "none"]
  /\ pending = <<>> /\ log = <<>>

-----------------------------------------------------------------------------
(* The transport.                                                          *)

Backlog(c) == Len(wire[c]) - rd[c]
Paused(n) == n > SockBuf + HighWater   \* would drain() wait with n lines unread?
Flushed(c) == Backlog(c) <= SockBuf    \* the transport's own buffer is empty

(* Is the connection lost: the peer gone, or closed and flushed?  A write  *)
(* is then discarded and the drain() after it raises ConnectionResetError. *)
Lost(c) == ~peer[c] \/ (pc[c] \in {"closing", "gone"} /\ Flushed(c))

Write(c, item) == wire' = [wire EXCEPT ![c] = Append(@, item)]

-----------------------------------------------------------------------------
(* _handle_client.                                                         *)

(* The finally block up to its first await: the handler's own queue leaves *)
(* the registry and its own sender is cancelled.  Queues and senders of    *)
(* earlier subscribes on this connection are no longer known to it.        *)
Finally(c) ==
  LET s == <<c, mine[c]>>
      hasSender == mine[c] # 0 /\ sender[s] # "dead"
  IN  /\ registry' = registry \ {s}
      /\ sender' = IF hasSender THEN [sender EXCEPT ![s] = "cancelled"] ELSE sender
      /\ pc' = [pc EXCEPT ![c] = IF hasSender THEN "unwind" ELSE "closing"]
      /\ UNCHANGED <<mine, stamp, since>>

(* The subscribe has been answered: queue, registry entry, sender task. *)
Register(c, k) ==
  LET s == <<c, k>>
  IN  /\ registry' = registry \cup {s}
      /\ stamp' = [stamp EXCEPT ![s] = Cardinality({t \in Subs : sender[t] # "none"}) + 1]
      /\ since' = [since EXCEPT ![s] = Len(log)]
      /\ sender' = [sender EXCEPT ![s] = "get"]
      /\ mine' = [mine EXCEPT ![c] = k]

(* readline() returns the next line, which asks for `method`. *)
Takes(c, method) ==
  /\ phase # "stopped" /\ pc[c] = "read"
  /\ inbox[c] # <<>> /\ Head(inbox[c]).method = method
  /\ inbox' = [inbox EXCEPT ![c] = Tail(@)]
  /\ UNCHANGED <<clientVars, phaseVars, queue, eventVars>>

(* The handler writes an answer and awaits drain(), in `next` if it has to *)
(* wait there; if not, it goes on to Then at once.                         *)
Answer(c, item, next, Then) ==
  \/ Lost(c) /\ Finally(c) /\ UNCHANGED wire
  \/ ~Lost(c) /\ ~Paused(Backlog(c) + 1) /\ Write(c, item) /\ Then
  \/ /\ ~Lost(c) /\ Paused(Backlog(c) + 1) /\ Write(c, item)
     /\ pc' = [pc EXCEPT ![c] = next]
     /\ UNCHANGED subVars

(* Mutant: the globs of a subscribe are not validated. *)
AcceptedAll(events) == TRUE
Accepted(events) == events = {Null} \/ events \subseteq ValidGlobs

(* Mutant: the subscription starts without having been answered. *)
SubscribeUnanswered(c) ==
  LET events == Head(inbox[c]).events
      k == nacks[c] + 1
  IN  /\ Takes(c, "subscribe")
      /\ Accepted(events) /\ k <= MaxSubs
      /\ nacks' = [nacks EXCEPT ![c] = k]
      /\ globs' = [globs EXCEPT ![<<c, k>>] = events]
      /\ active' = active \cup {<<c, k>>}
      /\ Register(c, k) /\ UNCHANGED <<pc, wire>>

Subscribe(c) ==
  LET events == Head(inbox[c]).events
      k == nacks[c] + 1
  IN  /\ Takes(c, "subscribe")
      /\ Accepted(events) /\ k <= MaxSubs
      /\ nacks' = [nacks EXCEPT ![c] = k]
      /\ globs' = [globs EXCEPT ![<<c, k>>] = events]
      /\ active' = active \cup {<<c, k>>}
      /\ Answer(c, Item(k, 0), "ack", Register(c, k) /\ UNCHANGED pc)

(* Every other request that is answered: unknown globs, query, unsubscribe. *)
(* An unsubscribe forgets the id in api._subscriptions, and nothing else.  *)
Reply(c) ==
  LET req == Head(inbox[c])
  IN  /\ \/ Takes(c, "subscribe") /\ ~Accepted(req.events) /\ UNCHANGED active
         \/ Takes(c, "query") /\ UNCHANGED active
         \/ Takes(c, "unsubscribe") /\ active' = active \ {<<c, req.id>>}
      /\ UNCHANGED <<nacks, globs>>
      /\ Answer(c, Item(0, 0), "reply", UNCHANGED <<pc, subVars>>)

(* A line that is not JSON is skipped. *)
SkipLine(c) ==
  /\ Takes(c, "badline")
  /\ UNCHANGED <<pc, wire, apiVars, subVars>>

(* A JSON line that is not an object makes handle_rpc raise. *)
BadRequest(c) ==
  /\ Takes(c, "nonobject")
  /\ Finally(c)
  /\ UNCHANGED <<wire, apiVars>>

(* A line over _MAX_LINE is answered with an error, and ends the handler. *)
TooLarge(c) ==
  /\ Takes(c, "oversize")
  /\ UNCHANGED apiVars
  /\ Answer(c, Item(0, 0), "bye", Finally(c))

(* The drain() the handler was waiting in returns, or raises. *)
Drained(c) ==
  /\ phase # "stopped" /\ pc[c] \in {"reply", "ack", "bye"}
  /\ \/ Lost(c) /\ Finally(c)
     \/ /\ ~Lost(c) /\ ~Paused(Backlog(c))
        /\ \/ /\ pc[c] = "reply" /\ UNCHANGED subVars
              /\ pc' = [pc EXCEPT ![c] = "read"]
           \/ /\ pc[c] = "ack" /\ Register(c, nacks[c])
              /\ pc' = [pc EXCEPT ![c] = "read"]
           \/ pc[c] = "bye" /\ Finally(c)
  /\ UNCHANGED <<phaseVars, inbox, clientVars, wire, apiVars, queue, eventVars>>

(* Mutant: the end of the file is not noticed. *)
LeavesOnlyCancelled(c) ==
  /\ phase # "stopped" /\ pc[c] = "cancel"
  /\ Finally(c)
  /\ UNCHANGED <<phaseVars, inbox, clientVars, wire, apiVars, queue, eventVars>>

(* readline() returns b"" (the client closed), or raises CancelledError. *)
Leaves(c) ==
  /\ phase # "stopped"
  /\ \/ pc[c] = "read" /\ inbox[c] = <<>> /\ ~peer[c]
     \/ pc[c] = "cancel"
  /\ Finally(c)
  /\ UNCHANGED <<phaseVars, inbox, clientVars, wire, apiVars, queue, eventVars>>

(* The cancelled sender has ended; writer.close(). *)
Unwind(c) ==
  /\ phase # "stopped" /\ pc[c] = "unwind"
  /\ sender' = [sender EXCEPT ![<<c, mine[c]>>] = "dead"]
  /\ pc' = [pc EXCEPT ![c] = "closing"]
  /\ UNCHANGED <<phaseVars, inbox, clientVars, wire, apiVars, registry, stamp,
                 since, mine, queue, eventVars>>

(* wait_closed() returns: what was written is flushed, or the peer is gone. *)
Closed(c) ==
  /\ phase # "stopped" /\ pc[c] = "closing" /\ Lost(c)
  /\ pc' = [pc EXCEPT ![c] = "gone"]
  /\ UNCHANGED <<phaseVars, inbox, clientVars, wire, apiVars, subVars, queue, eventVars>>

Handler(c) ==
  \/ Subscribe(c) \/ Reply(c) \/ SkipLine(c) \/ BadRequest(c) \/ TooLarge(c)
  \/ Drained(c) \/ Leaves(c) \/ Unwind(c) \/ Closed(c)

-----------------------------------------------------------------------------
(* _send_events: one run of the sender task, from the point where it can   *)
(* go on to the next await that has to wait.                               *)

(* How many queued events one run writes.  On a closing transport drain()  *)
(* always yields, so the run ends after one.                               *)
RunLength(s) ==
  LET room == SockBuf + HighWater + 1
      fits == IF Backlog(s[1]) < room THEN room - Backlog(s[1]) ELSE 1
      most == IF pc[s[1]] \in {"closing", "gone"} THEN 1 ELSE fits
  IN  IF Len(queue[s]) < most THEN Len(queue[s]) ELSE most

(* What is left in a queue of which the first n events were written. *)
(* Mutant: the last one written is not removed. *)
RemainingOneMore(q, n) == SubSeq(q, IF n = 0 THEN 1 ELSE n, Len(q))
Remaining(q, n) == SubSeq(q, n + 1, Len(q))

Send(s) ==
  LET c == s[1]
      n == RunLength(s)
  IN  /\ phase # "stopped" /\ ~Lost(c)
      /\ \/ sender[s] = "get" /\ queue[s] # <<>>
         \/ sender[s] = "drain" /\ ~Paused(Backlog(c))
      /\ wire' = [wire EXCEPT ![c] = @ \o [i \in 1 .. n |-> Item(s[2], queue[s][i])]]
      /\ queue' = [queue EXCEPT ![s] = Remaining(@, n)]
      /\ sender' = [sender EXCEPT ![s] = IF Paused(Backlog(c) + n) THEN "drain" ELSE "get"]
      /\ UNCHANGED <<phaseVars, pc, inbox, clientVars, apiVars, registry, stamp,
                     since, mine, eventVars>>

(* The connection is lost: drain() raises and the sender returns, with the *)
(* event it had taken from its queue.                                      *)
SendFails(s) ==
  /\ phase # "stopped" /\ Lost(s[1])
  /\ \/ sender[s] = "get" /\ queue[s] # <<>> /\ queue' = [queue EXCEPT ![s] = Tail(@)]
     \/ sender[s] = "drain" /\ UNCHANGED queue
  /\ sender' = [sender EXCEPT ![s] = "dead"]
  /\ UNCHANGED <<phaseVars, pc, inbox, clientVars, wire, apiVars, registry, stamp,
                 since, mine, eventVars>>

-----------------------------------------------------------------------------
(* broadcast.                                                              *)

(* A datagram or a transcript change yields an event: create_task(broadcast). *)
Publish(name) ==
  /\ phase # "stopped" /\ Len(log) + Len(pending) < MaxEvents
  /\ pending' = Append(pending, name)
  /\ UNCHANGED <<phaseVars, pc, inbox, clientVars, wire, apiVars, subVars, queue, log>>

(* Mutant: the wildcard is taken for a name. *)
MatchesByName(name, g) == name \in g
Matches(name, g) == Star \in g \/ name \in g

(* Iterating over None raises: entries after it are not offered the event  *)
(* and nothing is dropped.                                                 *)
Raises == \E t \in registry : Null \in globs[t]
Offered(s) == \A t \in registry : stamp[t] <= stamp[s] => Null \notin globs[t]

(* The registered queues that the event is put in, and those with no room. *)
Hit(name) == {s \in registry : Offered(s) /\ Matches(name, globs[s])}
(* Mutant: a queue takes one less than its size. *)
FullEarly == {s \in Subs : Len(queue[s]) + 1 >= QueueSize}
Full == {s \in Subs : Len(queue[s]) >= QueueSize}
Dropped(name) == IF Raises THEN {} ELSE Hit(name) \cap Full

(* Mutant: what a dropped subscriber was owed is thrown away. *)
OfferedQueueLost(s, name) ==
  IF s \in Dropped(name) THEN <<>>
  ELSE IF s \in Hit(name) THEN Append(queue[s], Len(log) + 1)
  ELSE queue[s]
(* The queue of s after the event was offered: put_nowait, or QueueFull. *)
OfferedQueue(s, name) ==
  IF s \in Hit(name) \ Full THEN Append(queue[s], Len(log) + 1) ELSE queue[s]

Broadcast ==
  /\ phase # "stopped" /\ pending # <<>>
  /\ LET name == Head(pending)
     IN  /\ log' = Append(log, name)
         /\ pending' = Tail(pending)
         /\ queue' = [s \in Subs |-> OfferedQueue(s, name)]
         /\ registry' = registry \ Dropped(name)
  /\ UNCHANGED <<phaseVars, pc, inbox, clientVars, wire, apiVars, stamp, since, mine, sender>>

-----------------------------------------------------------------------------
(* stop().  _run reaches it two seconds after the signal; until then the   *)
(* daemon goes on as before.                                               *)

(* Every handler that has not returned is cancelled.  One that is waiting  *)
(* in the finally block for its sender swallows the cancellation; one that *)
(* is waiting in wait_closed() ends there.                                 *)
(* Mutants: the cancellation ends a handler that awaits its sender; it is  *)
(* not delivered to a handler that awaits a line.                          *)
CancelledInUnwind(p) ==
  CASE p \in {"read", "reply", "ack", "bye"} -> "cancel"
    [] p \in {"unwind", "closing"} -> "gone"
    [] OTHER -> p
CancelledNotReading(p) ==
  CASE p \in {"reply", "ack", "bye"} -> "cancel"
    [] p = "closing" -> "gone"
    [] OTHER -> p
Cancelled(p) ==
  CASE p \in {"read", "reply", "ack", "bye"} -> "cancel"
    [] p = "closing" -> "gone"
    [] OTHER -> p

\* gather also stands for the handlers' tasks themselves: with none of them
\* stop() goes on at once, and a client that connects before Gathered is one
\* whose connection is accepted and whose handler has not started.
Stop ==
  /\ phase = "running"
  /\ phase' = "gather"
  /\ gather' = {c \in Clients : pc[c] \notin {"absent", "gone"}}
  /\ pc' = [c \in Clients |-> Cancelled(pc[c])]
  /\ UNCHANGED <<inbox, clientVars, wire, apiVars, subVars, queue, eventVars>>

(* gather() returns; Server.close(). *)
Gathered ==
  /\ phase = "gather"
  /\ \A c \in gather : pc[c] = "gone"
  /\ phase' = "closing"
  /\ UNCHANGED <<gather, pc, inbox, clientVars, wire, apiVars, subVars, queue, eventVars>>

(* Server.wait_closed() returns; the registry is cleared. *)
Stopped ==
  /\ phase = "closing"
  /\ WaitsForHandlers => \A c \in Clients : pc[c] = "absent" \/ Lost(c)
  /\ phase' = "stopped"
  /\ registry' = {}
  /\ UNCHANGED <<gather, pc, inbox, clientVars, wire, apiVars, stamp, since, mine,
                 sender, queue, eventVars>>

-----------------------------------------------------------------------------
(* The clients.                                                            *)

Connect(c) ==
  /\ phase \in {"running", "gather"} /\ pc[c] = "absent"
  /\ pc' = [pc EXCEPT ![c] = "read"]
  /\ peer' = [peer EXCEPT ![c] = TRUE]
  /\ UNCHANGED <<phaseVars, inbox, sent, rd, wire, apiVars, subVars, queue, eventVars>>

Ask(c, r) ==
  /\ peer[c] /\ sent[c] < MaxRequests
  /\ inbox' = [inbox EXCEPT ![c] = Append(@, r)]
  /\ sent' = [sent EXCEPT ![c] = @ + 1]
  /\ UNCHANGED <<phaseVars, pc, peer, rd, wire, apiVars, subVars, queue, eventVars>>

Read(c) ==
  /\ peer[c] /\ rd[c] < Len(wire[c])
  /\ rd' = [rd EXCEPT ![c] = @ + 1]
  /\ UNCHANGED <<phaseVars, pc, inbox, peer, sent, wire, apiVars, subVars, queue, eventVars>>

Disconnect(c) ==
  /\ peer[c]
  /\ peer' = [peer EXCEPT ![c] = FALSE]
  /\ UNCHANGED <<phaseVars, pc, inbox, sent, rd, wire, apiVars, subVars, queue, eventVars>>

Next ==
  \/ \E c \in Clients : Handler(c)
  \/ \E s \in Subs : Send(s) \/ SendFails(s)
  \/ \E name \in Names : Publish(name)
  \/ Broadcast
  \/ Stop \/ Gathered \/ Stopped
  \/ \E c \in Clients : Connect(c) \/ Read(c) \/ Disconnect(c)
  \/ \E c \in Clients, r \in Requests : Ask(c, r)

Spec == Init /\ [][Next]_vars

(* What the event loop guarantees: a task that can go on eventually does.  *)
Progress ==
  /\ \A c \in Clients : WF_vars(Handler(c))
  /\ \A s \in Subs : WF_vars(Send(s) \/ SendFails(s))
  /\ WF_vars(Broadcast) /\ WF_vars(Gathered) /\ WF_vars(Stopped)

(* The clients in Readers keep reading what the daemon sends them. *)
LiveSpec == Spec /\ Progress /\ \A c \in Readers : WF_vars(Read(c))

-----------------------------------------------------------------------------
(* Properties.                                                             *)

PhaseType == phase \in {"running", "gather", "closing", "stopped"} /\ gather \in SUBSET Clients
HandlerType == pc \in [Clients -> PCs] /\ inbox \in [Clients -> Seq(Requests)]
ClientType == peer \in [Clients -> BOOLEAN] /\ sent \in [Clients -> Nat] /\ rd \in [Clients -> Nat]
WireType == wire \in [Clients -> Seq([sub : Nat, ev : Nat])]
ApiType ==
  /\ nacks \in [Clients -> 0 .. MaxSubs] /\ active \in SUBSET Subs
  /\ globs \in [Subs -> SUBSET (ValidGlobs \cup {Null})]
SubType ==
  /\ registry \in SUBSET Subs /\ stamp \in [Subs -> Nat] /\ since \in [Subs -> Nat]
  /\ mine \in [Clients -> 0 .. MaxSubs] /\ sender \in [Subs -> Senders]
QueueType == queue \in [Subs -> Seq(Nat)] /\ \A s \in Subs : Len(queue[s]) <= QueueSize
EventType == pending \in Seq(Names) /\ log \in Seq(Names)

TypeOK ==
  /\ PhaseType /\ HandlerType /\ ClientType /\ WireType
  /\ ApiType /\ SubType /\ QueueType /\ EventType

Events(s) == {e \in 1 .. Len(log) :
                \E i \in 1 .. Len(wire[s[1]]) : wire[s[1]][i] = Item(s[2], e)}
Queued(s) == {queue[s][i] : i \in 1 .. Len(queue[s])}
Running(s) == sender[s] \in {"get", "drain"}

(* The server implements the abstract bus: what is on the wire is what has *)
(* been handed over, what is in the queue of a running sender is owed.     *)
Bus == INSTANCE EventBus WITH
         joined <- registry,
         entered <- {s \in Subs : sender[s] # "none"},
         globs <- [s \in Subs |-> IF sender[s] = "none" THEN {} ELSE globs[s]],
         owed <- [s \in Subs |-> IF Running(s) THEN Queued(s) ELSE {}],
         got <- [s \in Subs |-> Events(s)],
         ended <- {s \in Subs : sender[s] \in {"cancelled", "dead"}}

(* broadcast, _send_events and the finally block together keep the bus's   *)
(* promise through queue limits, backpressure, lost connections and stop().*)
ImplementsBus == Bus!Spec

(* A client reads the events of a subscription in the order they were      *)
(* broadcast, each once, and all of them before those still queued.        *)
InOrder ==
  \A s \in Subs :
    LET w == wire[s[1]]
        q == queue[s]
    IN  /\ \A j \in 1 .. Len(w) : \A i \in 1 .. j - 1 :
             w[i].sub = s[2] /\ w[j].sub = s[2] => w[i].ev < w[j].ev
        /\ \A j \in 1 .. Len(q) : \A i \in 1 .. j - 1 : q[i] < q[j]
        /\ \A i \in 1 .. Len(w) : \A j \in 1 .. Len(q) :
             w[i].sub = s[2] => w[i].ev < q[j]

(* The answer to a subscribe (ev = 0) is on the wire before any event of   *)
(* that subscription: a client never sees an event it cannot attribute.    *)
AnswerFirst ==
  \A c \in Clients : \A j \in 1 .. Len(wire[c]) :
    wire[c][j].ev > 0 =>
      \E i \in 1 .. j - 1 : wire[c][i] = Item(wire[c][j].sub, 0)

(* However a handler ends -- end of file, error, oversized line, or stop() *)
(* at any of its awaits -- the queue it knows of is out of the registry    *)
(* and its sender has ended before the connection is closed.               *)
CleansUp ==
  \A c \in Clients :
    pc[c] \in {"closing", "gone"} /\ mine[c] # 0 =>
      <<c, mine[c]>> \notin registry /\ sender[<<c, mine[c]>>] = "dead"

(* broadcast drops a subscriber only when its queue is full: one that      *)
(* leaves the registry otherwise had its handler end, or stop() return.    *)
OnlyFullDropped ==
  [][\A s \in registry \ registry' :
       \/ Len(queue[s]) = QueueSize
       \/ pc'[s[1]] \in {"unwind", "closing"}
       \/ phase' = "stopped"]_vars

(* Every event put in a queue is read by a client that keeps reading,      *)
(* whatever the other clients do, unless its connection or the daemon ends.*)
ReadBy(s, n) == \E i \in 1 .. rd[s[1]] : wire[s[1]][i] = Item(s[2], n)
Ending(c) == ~peer[c] \/ pc[c] \in {"cancel", "unwind", "closing", "gone"} \/ phase # "running"

Delivers ==
  \A s \in Readers \X (1 .. MaxSubs), n \in 1 .. MaxEvents :
    n \in Queued(s) ~> ReadBy(s, n) \/ Ending(s[1])

(* When a client is gone its handler returns. *)
HandlersEnd ==
  \A c \in Clients : (~peer[c] /\ pc[c] # "absent") ~> (pc[c] = "gone" \/ phase = "stopped")

(* Connections of after stop() has cancelled the handlers: the socket still *)
(* listens while it gathers, and nobody cancels these.                     *)
Late == {c \in Clients \ gather : pc[c] \in {"read", "reply", "ack", "bye"}}

(* stop() returns: it waits for every handler it has cancelled, each for    *)
(* its sender and for the transport to flush to a client that reads; then   *)
(* Server.wait_closed() waits, from Python 3.12 on, for every connection    *)
(* there is, a late one included, which nothing but its client ends.        *)
StopReturns ==
  /\ (phase = "gather") ~> (phase = "closing")
  /\ (phase = "closing" /\ Late = {}) ~> (phase = "stopped")

=============================================================================
