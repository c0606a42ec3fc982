------------------------------ MODULE EventBus ------------------------------
(***************************************************************************)
(* What the daemon's event stream promises its subscribers, with no queue  *)
(* bound, socket, handler or shutdown: a subscriber that has joined is     *)
(* owed every matching event published from then on, and is handed what it *)
(* is owed in order and without a gap, until it is dropped or its          *)
(* delivery ends.  DaemonServer.tla implements this (Bus there).           *)
(***************************************************************************)
EXTENDS Naturals, Sequences

CONSTANTS Subs,      \* subscriptions
          Names,     \* event names
          Star       \* the glob "session.*", which every name matches

VARIABLES log,       \* names of the events broadcast so far; an event is its index
          joined,    \* subscriptions the next event is offered to
          entered,   \* subscriptions that have ever joined
          globs,     \* globs[s]: what s asked for
          since,     \* since[s]: Len(log) when s joined
          owed,      \* owed[s]: events accepted for s and not yet handed to it
          got,       \* got[s]: events handed to s
          ended      \* subscriptions whose delivery has ended

vars == <<log, joined, entered, globs, since, owed, got, ended>>

Globs == SUBSET (Names \cup {Star})

(* Does an event of this name match the globs g? *)
Wants(g, name) == Star \in g \/ name \in g

Init ==
  /\ log = <<>>
  /\ joined = {}
  /\ entered = {}
  /\ globs = [s \in Subs |-> {}]
  /\ since = [s \in Subs |-> 0]
  /\ owed = [s \in Subs |-> {}]
  /\ got = [s \in Subs |-> {}]
  /\ ended = {}

(* An event is published.  Every joined subscriber that wants it is owed   *)
(* it, save those the bus drops on this occasion: they leave the bus, and  *)
(* keep what they are owed already.                                        *)
Publish(name, dropped) ==
  /\ \A s \in dropped : Wants(globs[s], name)
  /\ log' = Append(log, name)
  /\ owed' = [s \in Subs |->
                IF s \in joined \ (dropped \cup ended) /\ Wants(globs[s], name)
                THEN owed[s] \cup {Len(log) + 1}
                ELSE owed[s]]
  /\ joined' = joined \ dropped
  /\ UNCHANGED <<entered, globs, since, got, ended>>

Join(s, g) ==
  /\ s \notin entered
  /\ entered' = entered \cup {s}
  /\ globs' = [globs EXCEPT ![s] = g]
  /\ since' = [since EXCEPT ![s] = Len(log)]
  /\ joined' = joined \cup {s}
  /\ UNCHANGED <<log, owed, got, ended>>

(* The oldest events owed to s, up to n, are handed over. *)
Deliver(s, n) ==
  LET batch == {e \in owed[s] : e <= n}
  IN  /\ s \notin ended
      /\ got' = [got EXCEPT ![s] = @ \cup batch]
      /\ owed' = [owed EXCEPT ![s] = @ \ batch]
      /\ UNCHANGED <<log, joined, entered, globs, since, ended>>

(* Delivery to s ends: nothing more is handed to it, whether or not it is  *)
(* taken off the bus at the same time.                                     *)
End(s, leaving) ==
  /\ s \in entered
  /\ ended' = ended \cup {s}
  /\ owed' = [owed EXCEPT ![s] = {}]
  /\ joined' = joined \ leaving
  /\ UNCHANGED <<log, entered, globs, since, got>>

(* Subscriptions are taken off the bus. *)
Leave(leaving) ==
  /\ joined' = joined \ leaving
  /\ UNCHANGED <<log, entered, globs, since, owed, got, ended>>

Next ==
  \/ \E name \in Names, dropped \in SUBSET joined : Publish(name, dropped)
  \/ \E s \in Subs, g \in Globs : Join(s, g)
  \/ \E s \in Subs, n \in 1 .. Len(log) : Deliver(s, n)
  \/ \E s \in Subs, leaving \in SUBSET joined : End(s, leaving)
  \/ \E leaving \in SUBSET joined : Leave(leaving)

Spec == Init /\ [][Next]_vars

-----------------------------------------------------------------------------

TypeOK ==
  /\ log \in Seq(Names)
  /\ joined \in SUBSET Subs
  /\ entered \in SUBSET Subs
  /\ globs \in [Subs -> Globs]
  /\ since \in [Subs -> Nat]
  /\ owed \in [Subs -> SUBSET Nat]
  /\ got \in [Subs -> SUBSET Nat]
  /\ ended \in SUBSET Subs

(* The events s was meant to see. *)
Due(s) == {n \in since[s] + 1 .. Len(log) : Wants(globs[s], log[n])}

(* A subscriber still on the bus has got, or is owed, exactly the matching *)
(* events published since it joined: none missing, none it did not ask     *)
(* for, none from before it joined.                                        *)
NothingMissed ==
  \A s \in joined \ ended : got[s] \cup owed[s] = Due(s)

(* What a subscriber has got is a gap-free beginning of the events it was  *)
(* meant to see, even after it was dropped or cut off.                     *)
NoGaps ==
  \A s \in Subs :
    /\ got[s] \subseteq Due(s)
    /\ \A n \in got[s] : \A m \in Due(s) : m < n => m \in got[s]

(* Nothing is handed over twice: what is owed comes after what was got. *)
NoRepeats == \A s \in Subs : \A n \in got[s], m \in owed[s] : n < m
=============================================================================
