-------------------------------- MODULE Hooks --------------------------------
(***************************************************************************)
(* Claude Code's hooks from the emitter processes to the daemon's session  *)
(* state: hook_emitter.py sends a datagram or drops it, hooks.handle_hook  *)
(* mutates the session and yields broadcasts, and the heartbeat of         *)
(* __main__.py clears a subagent that has been in flight for too long.     *)
(*                                                                         *)
(* The hook of one Task runs before and after that Task; hooks of          *)
(* different Tasks, and of different sessions, race.  A session dispatches *)
(* nested Tasks, and the daemon remembers the latest only.                 *)
(*                                                                         *)
(* A statement of the store may fail: sqlite3.Error leaves what the cache  *)
(* holds as it is, and nobody on the way up catches it.                    *)
(***************************************************************************)
EXTENDS Naturals, Sequences

CONSTANTS
  Sessions,    \* session ids
  Tasks,       \* Task tool uses; each has a tool_use_id of its own
  Owner,       \* Owner[t]: the session that dispatches t
  None,
  Timeout,     \* _STALE_SUBAGENT_TIMEOUT
  Period,      \* the heartbeat's sleep
  SockCap,     \* datagrams the hook socket's buffer holds
  MaxHooks     \* bound: hooks other than those of Tasks

(* What the daemon tells apart in the hooks that are not about a Task:     *)
(* "other" stands for all that only bump last_activity_at.                 *)
Kinds == {"SessionStart", "blocking", "idle", "noise", "Stop", "other"}

ASSUME HooksAssumption ==
  /\ Owner \in [Tasks -> Sessions] /\ None \notin Tasks
  /\ Timeout \in Nat /\ Period \in Nat \ {0}
  /\ SockCap \in Nat \ {0} /\ MaxHooks \in Nat

VARIABLES
  task,       \* task[t]: "idle", "running", "ended" (its PostToolUse hook runs), "done"
  hooks,      \* hooks emitted so far that are not about a Task, for the bound
  sock,       \* datagrams in the hook socket
  lost,       \* Tasks whose PostToolUse the emitter dropped, or failed to be handled
  known,      \* sessions the StateManager holds
  inflight,   \* inflight[s]: subagent_in_flight
  last,       \* last[s]: last_subagent
  age,        \* age[s]: now - dispatched_at of last[s]
  attention,  \* attention[s]: "none", "blocking" or "idle"
  view,       \* view[s]: the session as a subscriber knows it from the broadcasts
  beat,       \* time until the heartbeat wakes up
  heart       \* "beats", or "ended" once a statement in it has failed

emitterVars == <<task, hooks, lost>>
stateVars == <<known, inflight, last, attention>>
vars == <<emitterVars, sock, stateVars, age, view, beat, heart>>

Datagram(s, event, t) == [session |-> s, event |-> event, task |-> t]
Pre(t) == Datagram(Owner[t], "PreToolUse", t)
Post(t) == Datagram(Owner[t], "PostToolUse", t)

AgeCap == Timeout + Period + 1    \* bound: older is not told apart

Init ==
  /\ task = [t \in Tasks |-> "idle"]
  /\ hooks = 0 /\ sock = <<>> /\ lost = {}
  /\ known = {}
  /\ inflight = [s \in Sessions |-> None]
  /\ last = [s \in Sessions |-> None]
  /\ age = [s \in Sessions |-> 0]
  /\ attention = [s \in Sessions |-> "none"]
  /\ view = [s \in Sessions |-> [inflight |-> None, attention |-> "none"]]
  /\ beat = Period /\ heart = "beats"

-----------------------------------------------------------------------------
(* The emitters: sendto() with a timeout.  A datagram that finds no room   *)
(* until the timeout is dropped silently.                                  *)

HasRoom == Len(sock) < SockCap

Emit(d) == sock' = IF HasRoom THEN Append(sock, d) ELSE sock

EmitPre(t) ==
  /\ task[t] = "idle"
  /\ task' = [task EXCEPT ![t] = "running"]
  /\ Emit(Pre(t))
  /\ UNCHANGED <<hooks, lost, stateVars, age, view, beat, heart>>

Finish(t) ==
  /\ task[t] = "running"
  /\ task' = [task EXCEPT ![t] = "ended"]
  /\ UNCHANGED <<hooks, lost, sock, stateVars, age, view, beat, heart>>

EmitPost(t) ==
  /\ task[t] = "ended"
  /\ task' = [task EXCEPT ![t] = "done"]
  /\ Emit(Post(t))
  /\ lost' = IF HasRoom THEN lost ELSE lost \cup {t}
  /\ UNCHANGED <<hooks, stateVars, age, view, beat, heart>>

EmitHook(s, kind) ==
  /\ hooks < MaxHooks
  /\ hooks' = hooks + 1
  /\ Emit(Datagram(s, kind, None))
  /\ UNCHANGED <<task, lost, stateVars, age, view, beat, heart>>

-----------------------------------------------------------------------------
(* handle_hook.  A session it does not know becomes known, whatever the    *)
(* hook (session.added).                                                   *)

Receives(event) ==
  /\ sock # <<>> /\ Head(sock).event = event
  /\ sock' = Tail(sock)
  /\ known' = known \cup {Head(sock).session}
  /\ UNCHANGED <<emitterVars, beat, heart>>

(* session.subagent_start *)
HandlePre ==
  LET s == Head(sock).session
      t == Head(sock).task
  IN  /\ Receives("PreToolUse")
      /\ inflight' = [inflight EXCEPT ![s] = t]
      /\ last' = [last EXCEPT ![s] = t]
      /\ age' = [age EXCEPT ![s] = 0]
      /\ view' = [view EXCEPT ![s].inflight = t]
      /\ UNCHANGED attention

(* Mutant: whichever subagent ended, none is in flight any more. *)
EndsAny(d) == inflight[d.session] # None
(* Is this the PostToolUse of the subagent in flight? *)
Ends(d) == inflight[d.session] = d.task

(* Mutant: the end of a Task is not handled. *)
HandlePostIgnored ==
  /\ Receives("PostToolUse")
  /\ UNCHANGED <<inflight, last, age, attention, view>>
(* session.subagent_end, if it is the one in flight that ended *)
HandlePost ==
  LET s == Head(sock).session
  IN  /\ Receives("PostToolUse")
      /\ IF Ends(Head(sock))
         THEN /\ inflight' = [inflight EXCEPT ![s] = None]
              /\ view' = [view EXCEPT ![s].inflight = None]
         ELSE UNCHANGED <<inflight, view>>
      /\ UNCHANGED <<last, age, attention>>

(* Notification: session.attention *)
(* Mutant: the attention is set without being broadcast. *)
HandleNotificationSilently(kind) ==
  /\ Receives(kind)
  /\ attention' = [attention EXCEPT ![Head(sock).session] = kind]
  /\ UNCHANGED <<inflight, last, age, view>>
HandleNotification(kind) ==
  LET s == Head(sock).session
  IN  /\ Receives(kind)
      /\ attention' = [attention EXCEPT ![s] = kind]
      /\ view' = [view EXCEPT ![s].attention = kind]
      /\ UNCHANGED <<inflight, last, age>>

(* Stop and UserPromptSubmit clear the attention, with no broadcast. *)
HandleStop ==
  /\ Receives("Stop")
  /\ attention' = [attention EXCEPT ![Head(sock).session] = "none"]
  /\ UNCHANGED <<inflight, last, age, view>>

HandleOther ==
  /\ \E event \in {"SessionStart", "noise", "other"} : Receives(event)
  /\ UNCHANGED <<inflight, last, age, attention, view>>

(* A statement fails.  Of what is modelled at most a stub has been stored, *)
(* nothing is broadcast, and the hook is not heard of again.               *)
HandleFails ==
  LET d == Head(sock)
  IN  /\ sock # <<>> /\ sock' = Tail(sock)
      /\ \/ known' = known
         \/ d.event # "SessionStart" /\ known' = known \cup {d.session}
      /\ lost' = lost \cup {t \in Tasks : d = Post(t)}
      /\ UNCHANGED <<task, hooks, inflight, last, age, attention, view, beat, heart>>

HandleHook ==
  \/ HandleFails
  \/ HandlePre \/ HandlePost \/ HandleStop \/ HandleOther
  \/ \E kind \in {"blocking", "idle"} : HandleNotification(kind)

-----------------------------------------------------------------------------
(* _subagent_heartbeat.  It is taken to run when it is due: the event loop *)
(* is never held up for as long as a unit of time.                         *)

(* Mutant: nothing is ever stale. *)
StaleNever(s) == FALSE
Stale(s) == inflight[s] # None /\ age[s] > Timeout

Heartbeat ==
  /\ heart = "beats" /\ beat = 0
  /\ beat' = Period
  /\ inflight' = [s \in Sessions |-> IF Stale(s) THEN None ELSE inflight[s]]
  /\ UNCHANGED <<emitterVars, sock, known, last, age, attention, view, heart>>

(* One of them cannot be stored.  Nobody awaits the task that ends of it. *)
HeartbeatFails ==
  /\ heart = "beats" /\ beat = 0
  /\ \E failing \in Sessions :
       /\ Stale(failing)
       /\ \E cleared \in SUBSET {s \in Sessions \ {failing} : Stale(s)} :
            inflight' = [s \in Sessions |-> IF s \in cleared THEN None ELSE inflight[s]]
  /\ heart' = "ended"
  /\ UNCHANGED <<emitterVars, sock, known, last, age, attention, view, beat>>

Tick ==
  /\ \/ heart = "beats" /\ beat > 0 /\ beat' = beat - 1
     \/ heart = "ended" /\ UNCHANGED beat
  /\ age' = [s \in Sessions |-> IF age[s] < AgeCap THEN age[s] + 1 ELSE age[s]]
  /\ UNCHANGED <<emitterVars, sock, stateVars, view, heart>>

Next ==
  \/ \E t \in Tasks : EmitPre(t) \/ Finish(t) \/ EmitPost(t)
  \/ \E s \in Sessions, kind \in Kinds : EmitHook(s, kind)
  \/ HandleHook \/ Heartbeat \/ HeartbeatFails \/ Tick

Spec == Init /\ [][Next]_vars

(* The daemon reads its socket and time passes; the emitters may stop.     *)
LiveSpec == Spec /\ WF_vars(HandleHook) /\ WF_vars(Heartbeat \/ HeartbeatFails) /\ WF_vars(Tick)

-----------------------------------------------------------------------------
(* Properties.                                                             *)

TaskOrNone == Tasks \cup {None}
Attentions == {"none", "blocking", "idle"}

Datagrams == [session : Sessions, event : Kinds \cup {"PreToolUse", "PostToolUse"},
              task : TaskOrNone]

TypeOK ==
  /\ task \in [Tasks -> {"idle", "running", "ended", "done"}]
  /\ hooks \in Nat
  /\ sock \in Seq(Datagrams) /\ Len(sock) <= SockCap
  /\ lost \in SUBSET Tasks /\ known \in SUBSET Sessions
  /\ inflight \in [Sessions -> TaskOrNone] /\ last \in [Sessions -> TaskOrNone]
  /\ age \in [Sessions -> 0 .. AgeCap]
  /\ attention \in [Sessions -> Attentions]
  /\ view \in [Sessions -> [inflight : TaskOrNone, attention : Attentions]]
  /\ beat \in 0 .. Period /\ heart \in {"beats", "ended"}

(* A subagent is never reported for longer than the timeout and one        *)
(* heartbeat, whatever hooks were lost or failed, while the heartbeat goes *)
(* on: it ends for good with the first statement that fails in it.         *)
StaleBound ==
  heart = "beats" =>
    \A s \in Sessions : inflight[s] # None => age[s] <= Timeout + Period

(* A subagent reported as in flight is one its session runs, or whose end  *)
(* the daemon is still to read or will never hear of.                      *)
InSock(d) == \E i \in 1 .. Len(sock) : sock[i] = d
NoGhosts ==
  \A s \in Sessions, t \in Tasks :
    inflight[s] = t =>
      /\ Owner[t] = s
      /\ task[t] \in {"running", "ended"} \/ InSock(Post(t)) \/ t \in lost

(* The subagent a session dispatched last is reported until it ends, or    *)
(* has run for longer than the timeout: neither the end of another one     *)
(* nor the heartbeat takes it away earlier.                                *)
LatestReported ==
  \A s \in Sessions, t \in Tasks :
    last[s] = t /\ task[t] = "running" /\ age[s] <= Timeout => inflight[s] = t

(* What the daemon holds of a session, a subscriber has heard of: a        *)
(* subagent in flight, or an attention, is never news to a query.          *)
Heard ==
  \A s \in Sessions :
    /\ inflight[s] # None => view[s].inflight = inflight[s]
    /\ attention[s] # "none" => view[s].attention = attention[s]
    /\ inflight[s] # None \/ attention[s] # "none" => s \in known

(* A subagent whose end was lost is eventually no longer reported, while   *)
(* there is a heartbeat.                                                   *)
GhostsVanish ==
  \A s \in Sessions, t \in Tasks :
    (inflight[s] = t /\ task[t] = "done") ~> (inflight[s] # t \/ heart = "ended")

=============================================================================
