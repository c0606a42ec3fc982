----------------------------- MODULE HooksProofs -----------------------------
(* Safety of Hooks, for any sessions, Tasks, socket size and times.        *)
EXTENDS Hooks, SequenceTheorems, TLAPS

(* What was dispatched last has started.                                   *)
Dispatched == \A s \in Sessions, t \in Tasks : last[s] = t => task[t] # "idle"

(* The subagent in flight is the one dispatched last, and the heartbeat    *)
(* comes before it has been reported for too long, if it comes.            *)
Dated ==
  \A s \in Sessions :
    inflight[s] # None =>
      /\ inflight[s] = last[s]
      /\ heart = "beats" => age[s] + beat <= Timeout + Period

(* A Task's hooks are in the socket in the order it emitted them.          *)
PostBehind(q, i, t) == \E j \in 1 .. Len(q) : i < j /\ q[j] = Post(t)
Ordered(q, st, gone, i) ==
  /\ q[i].event = "PreToolUse" =>
       /\ q[i].task \in Tasks
       /\ q[i].session = Owner[q[i].task]
       /\ st[q[i].task] # "idle"
       /\ st[q[i].task] = "done" => q[i].task \in gone \/ PostBehind(q, i, q[i].task)
  /\ q[i].event = "PostToolUse" =>
       /\ q[i].task \in Tasks
       /\ q[i] = Post(q[i].task)
       /\ st[q[i].task] = "done"
SockOK == \A i \in 1 .. Len(sock) : Ordered(sock, task, lost, i)

-----------------------------------------------------------------------------
(* The socket as a queue.                                                  *)

(* What a hook emits is a datagram. *)
LEMMA DatagramTypes ==
  /\ \A t \in Tasks : Pre(t) \in Datagrams /\ Post(t) \in Datagrams
  /\ \A s \in Sessions, kind \in Kinds : Datagram(s, kind, None) \in Datagrams
BY HooksAssumption DEF Pre, Post, Datagram, Datagrams, TaskOrNone

(* A datagram that finds room is behind all others; one that does not      *)
(* changes nothing.                                                        *)
LEMMA Emitted ==
  ASSUME TypeOK, NEW d \in Datagrams, Emit(d)
  PROVE  /\ sock' \in Seq(Datagrams) /\ Len(sock') <= SockCap
         /\ Len(sock) <= Len(sock')
         /\ \A i \in 1 .. Len(sock) : sock'[i] = sock[i]
         /\ \A i \in 1 .. Len(sock') : i \notin 1 .. Len(sock) => sock'[i] = d
         /\ HasRoom => Len(sock') = Len(sock) + 1
<1>1. sock \in Seq(Datagrams) /\ Len(sock) \in Nat /\ Len(sock) <= SockCap /\ SockCap \in Nat
  BY HooksAssumption DEF TypeOK
<1>2. CASE HasRoom
  <2>1. sock' = Append(sock, d)
    BY <1>2 DEF Emit
  <2>2. sock' \in Seq(Datagrams) /\ Len(sock') = Len(sock) + 1
    BY <1>1, <2>1, AppendProperties
  <2>3. \A i \in 1 .. Len(sock') : sock'[i] = IF i <= Len(sock) THEN sock[i] ELSE d
    BY <1>1, <2>1, AppendProperties
  <2> QED
    BY <1>1, <1>2, <2>2, <2>3 DEF HasRoom
<1>3. CASE ~HasRoom
  BY <1>1, <1>3 DEF Emit
<1> QED
  BY <1>2, <1>3

(* What is received is the first datagram; the others move up. *)
LEMMA Taken ==
  ASSUME TypeOK, sock # <<>>, sock' = Tail(sock)
  PROVE  /\ sock' \in Seq(Datagrams) /\ Len(sock') <= SockCap
         /\ Len(sock) >= 1 /\ Len(sock') = Len(sock) - 1
         /\ Head(sock) = sock[1] /\ Head(sock) \in Datagrams
         /\ \A i \in 1 .. Len(sock') : sock'[i] = sock[i + 1]
<1>1. sock \in Seq(Datagrams) /\ Len(sock) \in Nat /\ Len(sock) <= SockCap /\ SockCap \in Nat
  BY HooksAssumption DEF TypeOK
<1> QED
  BY <1>1, HeadTailProperties, EmptySeq

LEMMA Received ==
  ASSUME TypeOK, NEW event, Receives(event)
  PROVE  /\ sock' \in Seq(Datagrams) /\ Len(sock') <= SockCap
         /\ Len(sock) >= 1 /\ Len(sock') = Len(sock) - 1
         /\ Head(sock) = sock[1] /\ Head(sock) \in Datagrams /\ Head(sock).event = event
         /\ \A i \in 1 .. Len(sock') : sock'[i] = sock[i + 1]
BY Taken DEF Receives

-----------------------------------------------------------------------------

LEMMA InitType == Init => TypeOK
BY HooksAssumption DEF Init, TypeOK, TaskOrNone, Attentions, AgeCap

LEMMA NextType == TypeOK /\ [Next]_vars => TypeOK'
<1> SUFFICES ASSUME TypeOK, [Next]_vars PROVE TypeOK'
  OBVIOUS
<1> USE HooksAssumption DEF TaskOrNone, Attentions, AgeCap
<1>1. ASSUME NEW t \in Tasks, EmitPre(t) PROVE TypeOK'
  BY <1>1, Emitted, DatagramTypes DEF EmitPre, TypeOK, stateVars
<1>2. ASSUME NEW t \in Tasks, Finish(t) PROVE TypeOK'
  BY <1>2 DEF Finish, TypeOK, stateVars
<1>3. ASSUME NEW t \in Tasks, EmitPost(t) PROVE TypeOK'
  BY <1>3, Emitted, DatagramTypes DEF EmitPost, TypeOK, stateVars
<1>4. ASSUME NEW s \in Sessions, NEW kind \in Kinds, EmitHook(s, kind) PROVE TypeOK'
  BY <1>4, Emitted, DatagramTypes DEF EmitHook, TypeOK, stateVars
<1>5. CASE HandlePre
  <2>1. Receives("PreToolUse")
    BY <1>5 DEF HandlePre
  <2>2. Head(sock).session \in Sessions /\ Head(sock).task \in TaskOrNone
    BY <2>1, Received DEF Datagrams
  <2>3. view' \in [Sessions -> [inflight : TaskOrNone, attention : Attentions]]
    BY <1>5, <2>2 DEF HandlePre, TypeOK
  <2>4. UNCHANGED <<attention, emitterVars, beat, heart>> /\ known' \in SUBSET Sessions
    BY <1>5, <2>1, <2>2 DEF HandlePre, Receives, TypeOK
  <2>5. /\ inflight' \in [Sessions -> TaskOrNone] /\ last' \in [Sessions -> TaskOrNone]
        /\ age' \in [Sessions -> 0 .. AgeCap]
    BY <1>5, <2>2 DEF HandlePre, TypeOK
  <2> QED
    BY <2>1, <2>3, <2>4, <2>5, Received DEF TypeOK, emitterVars
<1>6. CASE HandlePost
  <2>1. Receives("PostToolUse")
    BY <1>6 DEF HandlePost
  <2>2. Head(sock).session \in Sessions
    BY <2>1, Received DEF Datagrams
  <2>3. view' \in [Sessions -> [inflight : TaskOrNone, attention : Attentions]]
    <3>1. CASE Ends(Head(sock))
      <4>1. view' = [view EXCEPT ![Head(sock).session].inflight = None]
        BY <1>6, <3>1 DEF HandlePost
      <4> QED
        BY <2>2, <4>1 DEF TypeOK
    <3>2. CASE ~Ends(Head(sock))
      BY <1>6, <3>2 DEF HandlePost, TypeOK
    <3> QED
      BY <3>1, <3>2
  <2>4. UNCHANGED <<attention, emitterVars, beat, heart>> /\ known' \in SUBSET Sessions
    BY <1>6, <2>1, <2>2 DEF HandlePost, Receives, TypeOK
  <2>5. /\ inflight' \in [Sessions -> TaskOrNone] /\ last' \in [Sessions -> TaskOrNone]
        /\ age' \in [Sessions -> 0 .. AgeCap]
    BY <1>6, <2>2 DEF HandlePost, TypeOK
  <2> QED
    BY <2>1, <2>3, <2>4, <2>5, Received DEF TypeOK, emitterVars
<1>7. CASE HandleStop
  <2>1. Receives("Stop")
    BY <1>7 DEF HandleStop
  <2>2. Head(sock).session \in Sessions
    BY <2>1, Received DEF Datagrams
  <2> QED
    BY <1>7, <2>1, <2>2, Received DEF HandleStop, Receives, TypeOK, emitterVars
<1>8. CASE HandleOther
  <2>1. PICK event : Receives(event)
    BY <1>8 DEF HandleOther
  <2>2. Head(sock).session \in Sessions
    BY <2>1, Received DEF Datagrams
  <2> QED
    BY <1>8, <2>1, <2>2, Received DEF HandleOther, Receives, TypeOK, emitterVars
<1>9. ASSUME NEW kind \in {"blocking", "idle"}, HandleNotification(kind) PROVE TypeOK'
  <2>1. Receives(kind)
    BY <1>9 DEF HandleNotification
  <2>2. Head(sock).session \in Sessions
    BY <2>1, Received DEF Datagrams
  <2>3. view' \in [Sessions -> [inflight : TaskOrNone, attention : Attentions]]
    BY <1>9, <2>2 DEF HandleNotification, TypeOK
  <2> QED
    BY <1>9, <2>1, <2>2, <2>3, Received DEF HandleNotification, Receives, TypeOK, emitterVars
<1>10. CASE Heartbeat \/ HeartbeatFails
  BY <1>10 DEF Heartbeat, HeartbeatFails, TypeOK, emitterVars
<1>11. CASE Tick
  BY <1>11 DEF Tick, TypeOK, emitterVars, stateVars
<1>12. CASE UNCHANGED vars
  BY <1>12 DEF vars, TypeOK, emitterVars, stateVars
<1>13. CASE HandleFails
  <2>1. Head(sock).session \in Sessions /\ sock' \in Seq(Datagrams) /\ Len(sock') <= SockCap
    BY <1>13, Taken DEF HandleFails, Datagrams
  <2>2. known' \in SUBSET Sessions /\ lost' \in SUBSET Tasks
    BY <1>13, <2>1 DEF HandleFails, TypeOK
  <2> QED
    BY <1>13, <2>1, <2>2 DEF HandleFails, TypeOK
<1> QED
  BY <1>1, <1>2, <1>3, <1>4, <1>5, <1>6, <1>7, <1>8, <1>9, <1>10, <1>11, <1>12, <1>13
  DEF Next, HandleHook

(* Type correctness: the state the hooks change keeps its types. *)
THEOREM HooksTypeOK == Spec => []TypeOK
BY InitType, NextType, PTL DEF Spec

-----------------------------------------------------------------------------
(* The invariants that only the daemon's own state is about.               *)

(* The subagent in flight keeps being the latest, and in time.             *)
LEMMA NextDated == TypeOK /\ Dated /\ [Next]_vars => Dated'
<1> SUFFICES ASSUME TypeOK, Dated, [Next]_vars, NEW s \in Sessions, inflight'[s] # None
             PROVE  /\ inflight'[s] = last'[s]
                    /\ heart' = "beats" => age'[s] + beat' <= Timeout + Period
  BY DEF Dated
<1> USE HooksAssumption DEF TypeOK, Dated
<1>1. CASE UNCHANGED <<inflight, last, age, beat, heart>>
  BY <1>1
<1>2. CASE HandlePre
  <2>1. /\ Receives("PreToolUse")
        /\ inflight' = [inflight EXCEPT ![Head(sock).session] = Head(sock).task]
        /\ last' = [last EXCEPT ![Head(sock).session] = Head(sock).task]
        /\ age' = [age EXCEPT ![Head(sock).session] = 0]
    BY <1>2 DEF HandlePre
  <2>2. UNCHANGED <<beat, heart>>
    BY <2>1 DEF Receives
  <2> QED
    BY <2>1, <2>2
<1>3. CASE HandlePost
  <2>1. inflight'[s] = inflight[s] /\ UNCHANGED <<last, age, beat, heart>>
    BY <1>3 DEF HandlePost, Receives
  <2> QED
    BY <2>1
<1>4. CASE Heartbeat
  <2>1. inflight'[s] = inflight[s] /\ ~Stale(s) /\ UNCHANGED <<last, age>>
    BY <1>4 DEF Heartbeat
  <2>2. age[s] <= Timeout /\ beat' = Period
    BY <1>4, <2>1 DEF Stale, Heartbeat, AgeCap
  <2> QED
    BY <2>1, <2>2 DEF AgeCap
<1>5. CASE Tick
  <2>1. /\ UNCHANGED <<inflight, last, heart>>
        /\ heart = "beats" => beat' = beat - 1 /\ beat > 0
    BY <1>5 DEF Tick, stateVars
  <2>2. age'[s] = IF age[s] < AgeCap THEN age[s] + 1 ELSE age[s]
    BY <1>5 DEF Tick
  <2>3. age[s] \in Nat /\ beat \in Nat
    BY DEF AgeCap
  <2> QED
    BY <2>1, <2>2, <2>3 DEF AgeCap
<1>6. CASE HeartbeatFails
  BY <1>6 DEF HeartbeatFails
<1> QED
  BY <1>1, <1>2, <1>3, <1>4, <1>5, <1>6
  DEF Next, vars, stateVars, emitterVars, EmitPre, Finish, EmitPost, EmitHook, HandleHook,
      HandleFails, HandleStop, HandleOther, HandleNotification, Receives

(* What the daemon holds, a subscriber has heard of. *)
LEMMA NextHeard == TypeOK /\ Heard /\ [Next]_vars => Heard'
<1> SUFFICES ASSUME TypeOK, Heard, [Next]_vars, NEW s \in Sessions
             PROVE  /\ inflight'[s] # None => view'[s].inflight = inflight'[s]
                    /\ attention'[s] # "none" => view'[s].attention = attention'[s]
                    /\ inflight'[s] # None \/ attention'[s] # "none" => s \in known'
  BY DEF Heard
<1> USE HooksAssumption DEF TypeOK, Heard
<1>1. CASE UNCHANGED <<stateVars, view>>
  BY <1>1 DEF stateVars
<1>2. CASE HandlePre
  BY <1>2 DEF HandlePre, Receives
<1>3. CASE HandlePost
  <2>1. CASE Ends(Head(sock))
    <3>1. /\ view' = [view EXCEPT ![Head(sock).session].inflight = None]
          /\ inflight' = [inflight EXCEPT ![Head(sock).session] = None]
      BY <1>3, <2>1 DEF HandlePost
    <3>2. attention' = attention /\ known \subseteq known'
      BY <1>3 DEF HandlePost, Receives
    <3> QED
      BY <3>1, <3>2
  <2>2. CASE ~Ends(Head(sock))
    BY <1>3, <2>2 DEF HandlePost, Receives
  <2> QED
    BY <2>1, <2>2
<1>4. CASE HandleStop
  BY <1>4 DEF HandleStop, Receives
<1>5. CASE HandleOther
  BY <1>5 DEF HandleOther, Receives
<1>6. ASSUME NEW kind \in {"blocking", "idle"}, HandleNotification(kind)
      PROVE  /\ inflight'[s] # None => view'[s].inflight = inflight'[s]
             /\ attention'[s] # "none" => view'[s].attention = attention'[s]
             /\ inflight'[s] # None \/ attention'[s] # "none" => s \in known'
  BY <1>6 DEF HandleNotification, Receives
<1>7. CASE Heartbeat \/ HeartbeatFails
  <2>1. inflight'[s] = inflight[s] \/ inflight'[s] = None
    BY <1>7 DEF Heartbeat, HeartbeatFails
  <2>2. UNCHANGED <<known, attention, view>>
    BY <1>7 DEF Heartbeat, HeartbeatFails
  <2> QED
    BY <2>1, <2>2
<1>8. CASE HandleFails
  BY <1>8 DEF HandleFails
<1> QED
  BY <1>1, <1>2, <1>3, <1>4, <1>5, <1>6, <1>7, <1>8
  DEF Next, vars, stateVars, emitterVars, EmitPre, Finish, EmitPost, EmitHook, HandleHook, Tick

-----------------------------------------------------------------------------
(* The invariants that relate the daemon's state to the Tasks.             *)

(* The hooks in the socket keep the order of their Task when others come.  *)
LEMMA EmitSockOK ==
  ASSUME TypeOK, SockOK, lost \subseteq lost', NEW d \in Datagrams, Emit(d),
         NEW u \in Tasks \cup {None},
         \A t \in Tasks : t # u => task'[t] = task[t],
         u \in Tasks =>
           /\ task'[u] # "idle"
           /\ task[u] # "done"
           /\ task'[u] = "done" => u \in lost' \/ (HasRoom /\ d = Post(u)),
         d.event = "PreToolUse" => u \in Tasks /\ d = Pre(u) /\ task'[u] # "done",
         d.event = "PostToolUse" => u \in Tasks /\ d = Post(u) /\ task'[u] = "done"
  PROVE  SockOK'
<1> SUFFICES ASSUME NEW i \in 1 .. Len(sock') PROVE Ordered(sock', task', lost', i)
  BY DEF SockOK
<1>1. Len(sock) \in Nat /\ Len(sock') \in Nat
  BY Emitted DEF TypeOK
<1>2. CASE i \in 1 .. Len(sock)
  <2>1. sock'[i] = sock[i] /\ Ordered(sock, task, lost, i)
    BY <1>2, Emitted DEF SockOK
  <2>2. ASSUME NEW t, PostBehind(sock, i, t) PROVE PostBehind(sock', i, t)
    <3>1. PICK j \in 1 .. Len(sock) : i < j /\ sock[j] = Post(t)
      BY <2>2 DEF PostBehind
    <3>2. j \in 1 .. Len(sock') /\ sock'[j] = sock[j]
      BY <1>1, Emitted
    <3> QED
      BY <3>1, <3>2 DEF PostBehind
  <2>3. ASSUME HasRoom PROVE \E j \in 1 .. Len(sock') : i < j /\ sock'[j] = d
    <3>1. Len(sock') = Len(sock) + 1
      BY <2>3, Emitted
    <3>2. Len(sock') \in 1 .. Len(sock') /\ Len(sock') \notin 1 .. Len(sock) /\ i < Len(sock')
      BY <1>1, <1>2, <3>1
    <3>3. sock'[Len(sock')] = d
      BY <3>2, Emitted
    <3> QED
      BY <3>2, <3>3
  <2>4. ASSUME HasRoom, NEW t, d = Post(t) PROVE PostBehind(sock', i, t)
    BY <2>3, <2>4 DEF PostBehind
  <2>5. CASE sock[i].event = "PreToolUse" /\ sock[i].task = u
    BY <2>1, <2>4, <2>5 DEF Ordered
  <2>6. CASE sock[i].event = "PreToolUse" /\ sock[i].task # u
    BY <2>1, <2>2, <2>6 DEF Ordered
  <2>7. CASE sock[i].event # "PreToolUse"
    BY <2>1, <2>7 DEF Ordered
  <2> QED
    BY <2>5, <2>6, <2>7
<1>3. CASE i \notin 1 .. Len(sock)
  <2>1. sock'[i] = d
    BY <1>3, Emitted
  <2>2. /\ d.event = "PreToolUse" => d.task = u /\ d.session = Owner[u]
        /\ d.event = "PostToolUse" => d.task = u
    BY DEF Pre, Post, Datagram
  <2> QED
    BY <2>1, <2>2 DEF Ordered
<1> QED
  BY <1>2, <1>3

(* They keep it when the first is received. *)
LEMMA ReceiveSockOK ==
  ASSUME TypeOK, SockOK, sock # <<>>, sock' = Tail(sock), task' = task, lost \subseteq lost'
  PROVE  SockOK'
<1>2. Len(sock) \in Nat /\ Len(sock') = Len(sock) - 1
  BY Taken DEF TypeOK
<1> SUFFICES ASSUME NEW i \in 1 .. Len(sock') PROVE Ordered(sock', task, lost', i)
  BY DEF SockOK
<1>3. i + 1 \in 1 .. Len(sock) /\ sock'[i] = sock[i + 1]
  BY <1>2, Taken
<1>4. ASSUME NEW t, PostBehind(sock, i + 1, t) PROVE PostBehind(sock', i, t)
  <2>1. PICK j \in 1 .. Len(sock) : i + 1 < j /\ sock[j] = Post(t)
    BY <1>4 DEF PostBehind
  <2>2. j - 1 \in 1 .. Len(sock') /\ i < j - 1 /\ (j - 1) + 1 = j
    BY <1>2, <2>1
  <2>3. sock'[j - 1] = Post(t)
    BY <2>1, <2>2, Taken
  <2> QED
    BY <2>2, <2>3 DEF PostBehind
<1>5. Ordered(sock, task, lost, i + 1)
  BY <1>3 DEF SockOK
<1> QED
  BY <1>3, <1>4, <1>5 DEF Ordered

LEMMA NextSockOK == TypeOK /\ SockOK /\ [Next]_vars => SockOK'
<1> SUFFICES ASSUME TypeOK, SockOK, [Next]_vars PROVE SockOK'
  OBVIOUS
<1> USE HooksAssumption
<1>1. CASE UNCHANGED <<sock, task, lost>>
  BY <1>1 DEF SockOK
<1>2. ASSUME NEW t \in Tasks, EmitPre(t) PROVE SockOK'
  <2>1. Pre(t) \in Datagrams /\ Emit(Pre(t)) /\ lost' = lost /\ task[t] = "idle"
        /\ task' = [task EXCEPT ![t] = "running"]
    BY <1>2, DatagramTypes DEF EmitPre
  <2>2. Pre(t).event = "PreToolUse"
    BY DEF Pre, Datagram
  <2> QED
    BY <2>1, <2>2, EmitSockOK DEF TypeOK
<1>3. ASSUME NEW t \in Tasks, Finish(t) PROVE SockOK'
  BY <1>3 DEF Finish, SockOK, Ordered, TypeOK
<1>4. ASSUME NEW t \in Tasks, EmitPost(t) PROVE SockOK'
  <2>1. Post(t) \in Datagrams /\ Emit(Post(t)) /\ task[t] = "ended"
        /\ task' = [task EXCEPT ![t] = "done"]
        /\ lost' = IF HasRoom THEN lost ELSE lost \cup {t}
    BY <1>4, DatagramTypes DEF EmitPost
  <2>2. Post(t).event = "PostToolUse"
    BY DEF Post, Datagram
  <2> QED
    BY <2>1, <2>2, EmitSockOK DEF TypeOK
<1>5. ASSUME NEW s \in Sessions, NEW kind \in Kinds, EmitHook(s, kind) PROVE SockOK'
  <2>1. Datagram(s, kind, None) \in Datagrams /\ Emit(Datagram(s, kind, None))
        /\ lost' = lost /\ task' = task
    BY <1>5, DatagramTypes DEF EmitHook
  <2>2. Datagram(s, kind, None).event \notin {"PreToolUse", "PostToolUse"}
    BY DEF Datagram, Kinds
  <2> QED
    BY <2>1, <2>2, EmitSockOK
<1>6. ASSUME NEW event, Receives(event) PROVE SockOK'
  BY <1>6, ReceiveSockOK DEF Receives, emitterVars
<1>7. CASE HandleFails
  BY <1>7, ReceiveSockOK DEF HandleFails
<1> QED
  BY <1>1, <1>2, <1>3, <1>4, <1>5, <1>6, <1>7
  DEF Next, vars, stateVars, emitterVars, HandleHook, Heartbeat, HeartbeatFails, Tick,
      HandlePre, HandlePost, HandleStop, HandleOther, HandleNotification

(* The end of a Task that is in the socket stays there until it is handled *)
(* or fails to be.                                                         *)
LEMMA StaysInSock ==
  ASSUME TypeOK, [Next]_vars, NEW t \in Tasks, InSock(Post(t))
  PROVE  InSock(Post(t))' \/ t \in lost' \/ (HandlePost /\ Head(sock) = Post(t))
<1> DEFINE d == Post(t)
<1> HIDE DEF d
<1>1. PICK i \in 1 .. Len(sock) : sock[i] = d
  BY DEF InSock, d
<1>2. ASSUME NEW j \in 1 .. Len(sock'), sock'[j] = d PROVE InSock(Post(t))'
  BY <1>2 DEF InSock, d, Post
<1>3. ASSUME NEW e \in Datagrams, Emit(e) PROVE InSock(Post(t))'
  <2>1. i \in 1 .. Len(sock') /\ sock'[i] = d
    <3>1. sock'[i] = sock[i] /\ Len(sock) <= Len(sock') /\ Len(sock') \in Nat
      BY <1>1, <1>3, Emitted
    <3>2. Len(sock) \in Nat
      BY DEF TypeOK
    <3> QED
      BY <1>1, <3>1, <3>2
  <2> QED
    BY <2>1, <1>2
<1>4. ASSUME sock # <<>>, sock' = Tail(sock)
      PROVE  InSock(Post(t))' \/ Head(sock) = d
  <2>1. CASE i = 1
    BY <1>1, <1>4, <2>1, Taken
  <2>2. CASE i # 1
    <3>1. Len(sock) \in Nat /\ Len(sock') = Len(sock) - 1
      BY <1>4, Taken DEF TypeOK
    <3>2. i - 1 \in 1 .. Len(sock') /\ (i - 1) + 1 = i
      BY <1>1, <2>2, <3>1
    <3>3. sock'[i - 1] = d
      BY <1>1, <1>4, <3>2, Taken
    <3> QED
      BY <3>2, <3>3, <1>2
  <2> QED
    BY <2>1, <2>2
<1>5. CASE UNCHANGED sock
  BY <1>1, <1>2, <1>5
<1>6. ASSUME NEW u \in Tasks, EmitPre(u) \/ EmitPost(u) PROVE InSock(Post(t))'
  BY <1>3, <1>6, DatagramTypes DEF EmitPre, EmitPost
<1>7. ASSUME NEW s \in Sessions, NEW kind \in Kinds, EmitHook(s, kind) PROVE InSock(Post(t))'
  BY <1>3, <1>7, DatagramTypes DEF EmitHook
<1>8. CASE HandlePost
  BY <1>4, <1>8 DEF HandlePost, Receives, d
<1>9. CASE HandlePre \/ HandleStop \/ HandleOther
         \/ \E kind \in {"blocking", "idle"} : HandleNotification(kind)
  <2>1. PICK event : Receives(event) /\ event # "PostToolUse"
    BY <1>9 DEF HandlePre, HandleStop, HandleOther, HandleNotification
  <2>2. d.event = "PostToolUse"
    BY DEF d, Post, Datagram
  <2> QED
    BY <1>4, <2>1, <2>2 DEF Receives
<1>10. CASE HandleFails
  BY <1>4, <1>10 DEF HandleFails, d
<1> QED
  BY <1>5, <1>6, <1>7, <1>8, <1>9, <1>10
  DEF Next, vars, Finish, HandleHook, Heartbeat, HeartbeatFails, Tick

(* A Task that is done stays so, and what is lost stays lost. *)
LEMMA TasksGoOn ==
  ASSUME TypeOK, [Next]_vars
  PROVE  /\ lost \subseteq lost'
         /\ \A t \in Tasks : task[t] # "idle" => task'[t] # "idle"
         /\ \A t \in Tasks : task[t] \in {"running", "ended"} =>
              task'[t] \in {"running", "ended"} \/ t \in lost' \/ InSock(Post(t))'
<1>1. CASE UNCHANGED <<task, lost>>
  BY <1>1
<1>2. ASSUME NEW u \in Tasks, EmitPre(u) \/ Finish(u)
      PROVE  lost' = lost /\ \E st \in {"running", "ended"} : task' = [task EXCEPT ![u] = st]
  BY <1>2 DEF EmitPre, Finish
<1>3. ASSUME NEW u \in Tasks, EmitPost(u)
      PROVE  /\ lost \subseteq lost' /\ task' = [task EXCEPT ![u] = "done"]
             /\ u \in lost' \/ InSock(Post(u))'
  <2>1. CASE HasRoom
    <3>1. Emit(Post(u)) /\ Post(u) \in Datagrams
      BY <1>3, DatagramTypes DEF EmitPost
    <3>2. Len(sock') = Len(sock) + 1 /\ Len(sock) \in Nat
      BY <2>1, <3>1, Emitted DEF TypeOK
    <3>3. Len(sock') \in 1 .. Len(sock') /\ Len(sock') \notin 1 .. Len(sock)
      BY <3>2
    <3>4. sock'[Len(sock')] = Post(u)
      BY <3>1, <3>3, Emitted
    <3>5. InSock(Post(u))'
      BY <3>3, <3>4 DEF InSock, Post
    <3> QED
      BY <1>3, <3>5 DEF EmitPost
  <2>2. CASE ~HasRoom
    BY <1>3, <2>2 DEF EmitPost
  <2> QED
    BY <2>1, <2>2
<1>4. CASE HandleFails
  BY <1>4 DEF HandleFails
<1> QED
  BY <1>1, <1>2, <1>3, <1>4
  DEF TypeOK, Next, vars, emitterVars, EmitHook, HandleHook, Heartbeat, HeartbeatFails, Tick, Receives,
      HandlePre, HandlePost, HandleStop, HandleOther, HandleNotification

(* What is dispatched has started. *)
LEMMA NextDispatched == TypeOK /\ SockOK /\ Dispatched /\ [Next]_vars => Dispatched'
<1> SUFFICES ASSUME TypeOK, SockOK, Dispatched, [Next]_vars,
                    NEW s \in Sessions, NEW t \in Tasks, last'[s] = t
             PROVE  task'[t] # "idle"
  BY DEF Dispatched
<1>1. CASE last'[s] = last[s]
  BY <1>1, TasksGoOn DEF Dispatched
<1>2. CASE last'[s] # last[s]
  <2>1. HandlePre
    BY <1>2 DEF Next, vars, stateVars, EmitPre, Finish, EmitPost, EmitHook, HandleHook,
         HandlePost, HandleStop, HandleOther, HandleNotification, HandleFails, Heartbeat,
         HeartbeatFails, Tick
  <2>2. Head(sock) = sock[1] /\ 1 \in 1 .. Len(sock) /\ Head(sock).event = "PreToolUse"
    BY <2>1, Received DEF HandlePre, TypeOK
  <2>3. t = Head(sock).task /\ task' = task
    BY <1>2, <2>1 DEF HandlePre, TypeOK, Receives, emitterVars
  <2> QED
    BY <2>2, <2>3 DEF SockOK, Ordered
<1> QED
  BY <1>1, <1>2

(* A subagent that is reported runs, or its end is on the way or lost. *)
LEMMA NextNoGhosts == TypeOK /\ SockOK /\ NoGhosts /\ [Next]_vars => NoGhosts'
<1> SUFFICES ASSUME TypeOK, SockOK, NoGhosts, [Next]_vars,
                    NEW s \in Sessions, NEW t \in Tasks, inflight'[s] = t
             PROVE  /\ Owner[t] = s
                    /\ task'[t] \in {"running", "ended"} \/ InSock(Post(t))' \/ t \in lost'
  BY DEF NoGhosts
<1> USE HooksAssumption
<1>1. CASE HandlePre /\ s = Head(sock).session
  <2>1. /\ Head(sock) = sock[1] /\ 1 \in 1 .. Len(sock) /\ Head(sock).event = "PreToolUse"
        /\ Len(sock) \in Nat /\ Len(sock') = Len(sock) - 1
    BY <1>1, Received DEF HandlePre, TypeOK
  <2>2. t = Head(sock).task /\ task' = task /\ lost' = lost
    BY <1>1 DEF HandlePre, TypeOK, Receives, emitterVars
  <2>3. Ordered(sock, task, lost, 1)
    BY <2>1 DEF SockOK
  <2>4. ASSUME PostBehind(sock, 1, t) PROVE InSock(Post(t))'
    <3>1. PICK j \in 1 .. Len(sock) : 1 < j /\ sock[j] = Post(t)
      BY <2>4 DEF PostBehind
    <3>2. j - 1 \in 1 .. Len(sock') /\ (j - 1) + 1 = j
      BY <2>1, <3>1
    <3>3. sock'[j - 1] = Post(t)
      BY <1>1, <3>1, <3>2, Received DEF HandlePre
    <3> QED
      BY <3>2, <3>3 DEF InSock, Post
  <2>5. task[t] \in {"running", "ended", "done"}
    BY <2>1, <2>2, <2>3 DEF Ordered, TypeOK
  <2> QED
    BY <1>1, <2>1, <2>2, <2>3, <2>4, <2>5 DEF Ordered
<1>2. CASE ~(HandlePre /\ s = Head(sock).session)
  <2>1. inflight[s] = t
    <3>1. CASE HandlePre
      BY <1>2, <3>1 DEF HandlePre, TypeOK
    <3>2. CASE HandlePost
      BY <3>2 DEF HandlePost, TypeOK
    <3>3. CASE Heartbeat \/ HeartbeatFails
      BY <3>3 DEF Heartbeat, HeartbeatFails
    <3>4. CASE UNCHANGED inflight
      BY <3>4
    <3> QED
      BY <3>1, <3>2, <3>3, <3>4
      DEF Next, vars, stateVars, EmitPre, Finish, EmitPost, EmitHook, HandleHook,
          HandleStop, HandleOther, HandleNotification, HandleFails, Tick
  <2>2. Owner[t] = s /\ (task[t] \in {"running", "ended"} \/ InSock(Post(t)) \/ t \in lost)
    BY <2>1 DEF NoGhosts
  <2>3. ~(HandlePost /\ Head(sock) = Post(t))
    <3>1. Ends(Post(t)) /\ Post(t).session = s
      BY <2>1, <2>2 DEF Ends, Post, Datagram
    <3> QED
      BY <3>1 DEF HandlePost, TypeOK
  <2> QED
    BY <2>2, <2>3, StaysInSock, TasksGoOn
<1> QED
  BY <1>1, <1>2

(* The subagent dispatched last is reported while it runs. *)
LEMMA NextLatest ==
  TypeOK /\ SockOK /\ Dispatched /\ LatestReported /\ [Next]_vars => LatestReported'
<1> SUFFICES ASSUME TypeOK, SockOK, Dispatched, LatestReported, [Next]_vars,
                    NEW s \in Sessions, NEW t \in Tasks,
                    last'[s] = t, task'[t] = "running", age'[s] <= Timeout
             PROVE  inflight'[s] = t
  BY DEF LatestReported
<1> USE HooksAssumption
<1>1. CASE HandlePre
  <2>1. CASE s = Head(sock).session
    BY <1>1, <2>1 DEF HandlePre, TypeOK
  <2>2. CASE s # Head(sock).session
    BY <1>1, <2>2 DEF HandlePre, TypeOK, Receives, emitterVars, LatestReported
  <2> QED
    BY <2>1, <2>2
<1>2. CASE HandlePost
  <2>1. /\ Head(sock) = sock[1] /\ 1 \in 1 .. Len(sock) /\ Head(sock).event = "PostToolUse"
    BY <1>2, Received DEF HandlePost, TypeOK
  <2>2. inflight[s] = t /\ task[t] = "running"
    BY <1>2 DEF HandlePost, Receives, emitterVars, LatestReported
  <2>3. Ordered(sock, task, lost, 1)
    BY <2>1 DEF SockOK
  <2>4. Head(sock).task # t
    BY <2>1, <2>2, <2>3 DEF Ordered
  <2>5. CASE Ends(Head(sock))
    <3>1. s # Head(sock).session
      BY <2>2, <2>4, <2>5 DEF Ends
    <3>2. inflight' = [inflight EXCEPT ![Head(sock).session] = None]
      BY <1>2, <2>5 DEF HandlePost
    <3> QED
      BY <2>2, <3>1, <3>2 DEF TypeOK
  <2>6. CASE ~Ends(Head(sock))
    BY <1>2, <2>2, <2>6 DEF HandlePost
  <2> QED
    BY <2>5, <2>6
<1>3. CASE Heartbeat \/ HeartbeatFails
  <2>1. last[s] = t /\ task[t] = "running" /\ age[s] <= Timeout
    BY <1>3 DEF Heartbeat, HeartbeatFails, emitterVars
  <2>2. ~Stale(s) /\ inflight[s] = t
    BY <2>1 DEF Stale, LatestReported, TypeOK, AgeCap
  <2> QED
    BY <1>3, <2>2 DEF Heartbeat, HeartbeatFails
<1>4. CASE Tick
  <2>1. last[s] = t /\ task[t] = "running" /\ inflight' = inflight
    BY <1>4 DEF Tick, emitterVars, stateVars
  <2>2. age'[s] = age[s] \/ age'[s] = age[s] + 1
    BY <1>4 DEF Tick
  <2>3. age[s] <= Timeout
    BY <2>2 DEF TypeOK, AgeCap
  <2> QED
    BY <2>1, <2>3 DEF LatestReported
<1>5. CASE UNCHANGED <<inflight, last, age>>
  <2>1. task[t] = "running"
    <3>1. task[t] # "idle"
      BY <1>5 DEF Dispatched
    <3>2. task[t] = "running" \/ task'[t] = task[t] \/ task'[t] \in {"ended", "done"}
      BY <3>1 DEF Next, vars, emitterVars, EmitPre, Finish, EmitPost, EmitHook, HandleHook,
           HandlePre, HandlePost, HandleStop, HandleOther, HandleNotification, HandleFails,
           Receives, Heartbeat, HeartbeatFails, Tick, TypeOK
    <3> QED
      BY <3>2
  <2> QED
    BY <1>5, <2>1 DEF LatestReported
<1> QED
  BY <1>1, <1>2, <1>3, <1>4, <1>5
  DEF Next, vars, stateVars, EmitPre, Finish, EmitPost, EmitHook, HandleHook,
      HandleFails, HandleStop, HandleOther, HandleNotification

-----------------------------------------------------------------------------
(* The inductive invariant.                                                *)

IInv == TypeOK /\ Dated /\ Heard /\ SockOK /\ Dispatched /\ NoGhosts /\ LatestReported

LEMMA InitInv == Init => IInv
BY InitType, HooksAssumption
DEF Init, IInv, Dated, Heard, SockOK, Dispatched, NoGhosts, LatestReported

LEMMA NextInv == IInv /\ [Next]_vars => IInv'
BY NextType, NextDated, NextHeard, NextSockOK, NextDispatched, NextNoGhosts, NextLatest DEF IInv

(* What the daemon reports of the subagents is right, for any sessions and *)
(* Tasks and any way their hooks race, are lost or are late: nothing is    *)
(* reported for longer than the timeout and one heartbeat; what is         *)
(* reported runs, or its end is on the way or lost; the latest is reported *)
(* while it runs; and a subscriber has heard of it.                        *)
THEOREM HooksSafe == Spec => [](StaleBound /\ NoGhosts /\ LatestReported /\ Heard)
<1>1. IInv => StaleBound /\ NoGhosts /\ LatestReported /\ Heard
  <2>1. TypeOK /\ Dated => StaleBound
    BY HooksAssumption DEF TypeOK, Dated, StaleBound, AgeCap
  <2> QED
    BY <2>1 DEF IInv
<1> QED
  BY InitInv, NextInv, <1>1, PTL DEF Spec

(* handle_hook and the heartbeat bound how long a lost PostToolUse leaves  *)
(* a subagent on display.                                                  *)
THEOREM HooksStaleBound == Spec => []StaleBound
BY HooksSafe, PTL

(* The Task dispatched last stays on display while it runs in time: no     *)
(* late or reordered hook of another one takes it away.                    *)
THEOREM HooksLatestReported == Spec => []LatestReported
BY HooksSafe, PTL

(* Whatever the registry holds of a session has been broadcast.            *)
THEOREM HooksHeard == Spec => []Heard
BY HooksSafe, PTL
=============================================================================
