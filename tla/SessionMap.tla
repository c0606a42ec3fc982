----------------------------- MODULE SessionMap -----------------------------
(***************************************************************************)
(* What the daemon may expect of its session store, without tables, cache  *)
(* or statements: a map from sessions to what was written last, which      *)
(* reads show and a restart brings back.  A write is one step.  A removal  *)
(* is not: the session is no longer shown, then it is in the history, then *)
(* it is gone for good, and what is cut off between those steps is shown   *)
(* again after a restart.  SqliteStore.tla implements this (Map there).    *)
(***************************************************************************)
EXTENDS Naturals

CONSTANTS Sessions, Revs   \* revisions are positive numbers, each newer than the ones before

VARIABLES kept,    \* kept[s]: revision of s that a restart brings back, 0 if none
          shown,   \* shown[s]: revision of s that reads show, 0 if none
          closed   \* the history: sessions that were removed, with their revision

vars == <<kept, shown, closed>>

Nothing == [s \in Sessions |-> 0]

Init == kept = Nothing /\ shown = Nothing /\ closed = {}

(* A write is kept and shown at once, over an older revision only. *)
Write(s, r) ==
  /\ r > kept[s] /\ \A c \in closed : c.session = s => r > c.rev
  /\ kept' = [kept EXCEPT ![s] = r]
  /\ shown' = [shown EXCEPT ![s] = r]
  /\ UNCHANGED closed

(* A removal, in the three steps it has. *)
Hide(s) ==
  /\ shown[s] # 0
  /\ shown' = [shown EXCEPT ![s] = 0]
  /\ UNCHANGED <<kept, closed>>

Close(s) ==
  /\ kept[s] # 0 /\ shown[s] = 0
  /\ closed' = closed \union {[session |-> s, rev |-> kept[s]]}
  /\ UNCHANGED <<kept, shown>>

Forget(s) ==
  /\ shown[s] = 0 /\ [session |-> s, rev |-> kept[s]] \in closed
  /\ kept' = [kept EXCEPT ![s] = 0]
  /\ UNCHANGED <<shown, closed>>

(* The daemon goes down and comes back, whenever that is. *)
Reopen == shown' = kept /\ UNCHANGED <<kept, closed>>

Next ==
  \/ \E s \in Sessions : Hide(s) \/ Close(s) \/ Forget(s) \/ \E r \in Revs : Write(s, r)
  \/ Reopen

Spec == Init /\ [][Next]_vars
=============================================================================
