----------------------------- MODULE SqliteStore -----------------------------
(***************************************************************************)
(* ccxd's persistent session store (SqliteStore in ccxd/store.py) under    *)
(* the StateManager of ccxd/state.py: a cache that answers every read, the *)
(* `sessions` table behind it, and `sessions_history`.                     *)
(*                                                                         *)
(* The connection is in autocommit mode, so every statement is durable on  *)
(* its own: the daemon may crash, or a statement may raise, between any    *)
(* two of them.  A session's content is a revision number: every write     *)
(* makes a new one.                                                        *)
(***************************************************************************)
EXTENDS Naturals, Sequences

CONSTANTS
  Sessions,
  MaxWrites,   \* bound: revisions
  MaxFaults    \* bound: crashes and failed statements

ASSUME StoreAssumption == MaxWrites \in Nat /\ MaxFaults \in Nat

Missing == 0    \* no such session; revisions are 1, 2, ...

VARIABLES
  up,       \* is the daemon running?
  cache,    \* cache[s]: SqliteStore._cache
  rows,     \* rows[s]: the table sessions
  history,  \* the table sessions_history, oldest first
  next,     \* the next statement of the call in progress, "none" between calls
  who,      \* the session it is about
  new,      \* the revision it writes or removes
  rev,      \* revisions made so far
  acked,    \* acked[s]: revision of s after the last call about it that returned
  removed,  \* removed[s]: revision of s that the last remove that returned took out
  faults    \* for the bound

storeVars == <<up, cache, rows, history, next, who, new, rev, acked, removed, faults>>

Idle == next = "none"
Start(step, s, r) == next' = step /\ who' = s /\ new' = r
Goto(step) == next' = step /\ UNCHANGED <<who, new>>
Return == next' = "none" /\ who' = "none" /\ new' = Missing

StoreInit ==
  /\ up = TRUE
  /\ cache = [s \in Sessions |-> Missing]
  /\ rows = [s \in Sessions |-> Missing]
  /\ history = <<>>
  /\ next = "none" /\ who = "none" /\ new = Missing
  /\ rev = 0
  /\ acked = [s \in Sessions |-> Missing]
  /\ removed = [s \in Sessions |-> Missing]
  /\ faults = 0

-----------------------------------------------------------------------------
(* upsert: the row, then the cache.                                        *)

(* A write of s begins: upsert, or upsert_blank that found no s, or        *)
(* update_fields that found one and replaced some of its fields.           *)
(* Mutant: the cache is written before the row.                            *)
UpsertCachingFirst(s) ==
  /\ up /\ Idle /\ rev < MaxWrites
  /\ rev' = rev + 1
  /\ Start("row", s, rev + 1)
  /\ cache' = [cache EXCEPT ![s] = rev + 1]
  /\ UNCHANGED <<up, rows, history, acked, removed, faults>>
Upsert(s) ==
  /\ up /\ Idle /\ rev < MaxWrites
  /\ rev' = rev + 1
  /\ Start("row", s, rev + 1)
  /\ UNCHANGED <<up, cache, rows, history, acked, removed, faults>>

UpsertRow ==
  /\ up /\ next = "row"
  /\ rows' = [rows EXCEPT ![who] = new]
  /\ Goto("cache")
  /\ UNCHANGED <<up, cache, history, rev, acked, removed, faults>>

UpsertCache ==
  /\ up /\ next = "cache"
  /\ cache' = [cache EXCEPT ![who] = new]
  /\ acked' = [acked EXCEPT ![who] = new]
  /\ Return
  /\ UNCHANGED <<up, rows, history, rev, removed, faults>>

-----------------------------------------------------------------------------
(* remove: the cache, the history, the row.                                *)

(* Mutant: the row is deleted before the history is written. *)
RemoveDeletingFirst(s) ==
  /\ up /\ Idle /\ cache[s] # Missing
  /\ cache' = [cache EXCEPT ![s] = Missing]
  /\ rows' = [rows EXCEPT ![s] = Missing]
  /\ Start("history", s, cache[s])
  /\ UNCHANGED <<up, history, rev, acked, removed, faults>>
Remove(s) ==
  /\ up /\ Idle /\ cache[s] # Missing
  /\ cache' = [cache EXCEPT ![s] = Missing]
  /\ Start("history", s, cache[s])
  /\ UNCHANGED <<up, rows, history, rev, acked, removed, faults>>

RemoveHistory ==
  /\ up /\ next = "history"
  /\ history' = Append(history, [session |-> who, rev |-> new])
  /\ Goto("delete")
  /\ UNCHANGED <<up, cache, rows, rev, acked, removed, faults>>

RemoveRow ==
  /\ up /\ next = "delete"
  /\ rows' = [rows EXCEPT ![who] = Missing]
  /\ removed' = [removed EXCEPT ![who] = new]
  /\ acked' = [acked EXCEPT ![who] = Missing]
  /\ Return
  /\ UNCHANGED <<up, cache, history, rev, faults>>

-----------------------------------------------------------------------------
(* A statement raises sqlite3.Error (database locked, disk full): the call *)
(* ends there and what it did before stays done.                           *)
StatementFails ==
  /\ up /\ next \in {"row", "history", "delete"} /\ faults < MaxFaults
  /\ Return
  /\ faults' = faults + 1
  /\ UNCHANGED <<up, cache, rows, history, rev, acked, removed>>

Crash ==
  /\ up /\ faults < MaxFaults
  /\ up' = FALSE
  /\ Return
  /\ cache' = [s \in Sessions |-> Missing]
  /\ faults' = faults + 1
  /\ UNCHANGED <<rows, history, rev, acked, removed>>

(* __init__: the cache is filled from the table. *)
(* Mutant: the cache is left to fill itself. *)
RestartEmpty ==
  /\ ~up /\ up' = TRUE
  /\ UNCHANGED <<cache, rows, history, next, who, new, rev, acked, removed, faults>>
Restart ==
  /\ ~up /\ up' = TRUE
  /\ cache' = rows
  /\ UNCHANGED <<rows, history, next, who, new, rev, acked, removed, faults>>

StoreNext ==
  \/ \E s \in Sessions : Upsert(s) \/ Remove(s)
  \/ UpsertRow \/ UpsertCache \/ RemoveHistory \/ RemoveRow
  \/ StatementFails \/ Crash \/ Restart

StoreSpec == StoreInit /\ [][StoreNext]_storeVars

-----------------------------------------------------------------------------
(* Properties.                                                             *)

Revs == 0 .. MaxWrites
Record == [session : Sessions, rev : Revs \ {Missing}]

StoreTypeOK ==
  /\ up \in BOOLEAN
  /\ cache \in [Sessions -> Revs] /\ rows \in [Sessions -> Revs]
  /\ history \in Seq(Record)
  /\ next \in {"none", "row", "cache", "history", "delete"} /\ new \in Revs
  /\ Idle \/ (who \in Sessions /\ new # Missing)
  /\ rev \in Revs
  /\ acked \in [Sessions -> Revs] /\ removed \in [Sessions -> Revs]
  /\ faults \in 0 .. MaxFaults

InHistory(s, r) == \E i \in 1 .. Len(history) : history[i] = [session |-> s, rev |-> r]

(* A read is never ahead of the disk: what the cache shows is in the table *)
(* as it is, unless upsert is between the row and the cache.               *)
CacheBacked ==
  \A s \in Sessions :
    cache[s] # Missing => rows[s] = cache[s] \/ (next = "cache" /\ who = s)

(* Whatever crashes or fails, a session whose write returned is in the     *)
(* table or in the history, with that revision or a later one.             *)
NothingLost ==
  \A s \in Sessions :
    acked[s] # Missing =>
      rows[s] >= acked[s] \/ \E r \in Revs : r >= acked[s] /\ InHistory(s, r)

(* A daemon that restarts holds every session it had accepted and not      *)
(* started to remove, as it was last written.                              *)
SurvivesRestart ==
  [][~up /\ up' =>
       \A s \in Sessions :
         acked[s] # Missing =>
           cache'[s] >= acked[s] \/ \E r \in Revs : r >= acked[s] /\ InHistory(s, r)]_storeVars

(* A session whose removal returned does not come back, with a restart or  *)
(* otherwise, unless it is written again.                                  *)
StaysRemoved ==
  \A s \in Sessions : rows[s] # Missing => rows[s] > removed[s]

(* To its callers the store is one map that survives restarts: an upsert is *)
(* one step of it (the cache catches up before anybody reads), a removal    *)
(* moves the row by way of the history, and no failure or crash leaves      *)
(* anything else.  The map of a daemon that is down shows what is kept.     *)
Map == INSTANCE SessionMap WITH
  kept <- rows,
  shown <- [s \in Sessions |->
              IF ~up \/ (next = "cache" /\ who = s) THEN rows[s] ELSE cache[s]],
  closed <- {history[i] : i \in 1 .. Len(history)}

ImplementsMap == Map!Spec
=============================================================================
