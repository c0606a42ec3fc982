--------------------------- MODULE EventBusProofs ---------------------------
(* What EventBus promises, for any subscriptions and event names.          *)
EXTENDS EventBus, SequenceTheorems, TLAPS

(* Only subscriptions that joined are on the bus, have or are owed         *)
(* anything; after its delivery ended one is owed nothing.                 *)
Members ==
  /\ joined \subseteq entered
  /\ \A s \in Subs : since[s] <= Len(log)
  /\ \A s \in Subs : s \notin entered => got[s] = {} /\ owed[s] = {}
  /\ \A s \in ended : s \in Subs => owed[s] = {}

(* What a subscription has or is owed is a beginning of what it was meant  *)
(* to see.                                                                 *)
Beginning ==
  \A s \in Subs :
    /\ got[s] \cup owed[s] \subseteq Due(s)
    /\ \A n \in got[s] \cup owed[s] : \A m \in Due(s) : m < n => m \in got[s] \cup owed[s]

IInv == TypeOK /\ Members /\ Beginning /\ NothingMissed /\ NoRepeats

-----------------------------------------------------------------------------

LEMMA InitInv == Init => IInv
BY DEF Init, IInv, TypeOK, Members, Beginning, NothingMissed, NoRepeats, Due, Globs

LEMMA NextType == TypeOK /\ [Next]_vars => TypeOK'
<1> SUFFICES ASSUME TypeOK, [Next]_vars PROVE TypeOK'
  OBVIOUS
<1> USE DEF TypeOK
<1>1. ASSUME NEW name \in Names, NEW dropped \in SUBSET joined, Publish(name, dropped)
      PROVE TypeOK'
  <2>1. log' \in Seq(Names) /\ Len(log) \in Nat
    BY <1>1, AppendProperties DEF Publish
  <2>2. owed' \in [Subs -> SUBSET Nat]
    BY <1>1, <2>1 DEF Publish
  <2> QED
    BY <1>1, <2>1, <2>2 DEF Publish
<1>2. ASSUME NEW s \in Subs, NEW g \in Globs, Join(s, g) PROVE TypeOK'
  BY <1>2 DEF Join
<1>3. ASSUME NEW s \in Subs, NEW n \in 1 .. Len(log), Deliver(s, n) PROVE TypeOK'
  BY <1>3 DEF Deliver
<1>4. ASSUME NEW s \in Subs, NEW leaving \in SUBSET joined, End(s, leaving) PROVE TypeOK'
  BY <1>4 DEF End
<1>5. ASSUME NEW leaving \in SUBSET joined, Leave(leaving) PROVE TypeOK'
  BY <1>5 DEF Leave
<1>6. CASE UNCHANGED vars
  BY <1>6 DEF vars
<1> QED
  BY <1>1, <1>2, <1>3, <1>4, <1>5, <1>6 DEF Next

(* Publishing adds one event to what those who want it are meant to see.   *)
LEMMA PublishDue ==
  ASSUME TypeOK, Members, NEW name \in Names, NEW dropped, Publish(name, dropped), NEW s \in Subs
  PROVE  Due(s)' = IF Wants(globs[s], name) THEN Due(s) \cup {Len(log) + 1} ELSE Due(s)
<1>1. log' = Append(log, name) /\ globs' = globs /\ since' = since
  BY DEF Publish
<1>2. log \in Seq(Names) /\ Len(log) \in Nat /\ since[s] \in Nat /\ since[s] <= Len(log)
  BY DEF TypeOK, Members
<1>3. /\ Len(log') = Len(log) + 1 /\ log'[Len(log) + 1] = name
      /\ \A i \in 1 .. Len(log) : log'[i] = log[i]
  BY <1>1, <1>2, AppendProperties
<1>4. Due(s)' = {n \in since[s] + 1 .. Len(log) + 1 : Wants(globs[s], log'[n])}
  BY <1>1, <1>3 DEF Due
<1>5. \A n \in since[s] + 1 .. Len(log) : log'[n] = log[n]
  BY <1>2, <1>3
<1>6. since[s] + 1 .. Len(log) + 1 = (since[s] + 1 .. Len(log)) \cup {Len(log) + 1}
  BY <1>2
<1>7. Due(s)' = Due(s) \cup {n \in {Len(log) + 1} : Wants(globs[s], name)}
  BY <1>3, <1>4, <1>5, <1>6 DEF Due
<1> QED
  BY <1>7

(* Whatever a subscription is meant to see has been published. *)
LEMMA DueBound ==
  ASSUME TypeOK, NEW s \in Subs PROVE Due(s) \subseteq 1 .. Len(log)
BY DEF TypeOK, Due

(* A published event is owed last, by those who are still on the bus. *)
LEMMA PublishInv ==
  ASSUME IInv, NEW name \in Names, NEW dropped \in SUBSET joined, Publish(name, dropped)
  PROVE  Members' /\ Beginning' /\ NothingMissed' /\ NoRepeats'
<1> USE DEF IInv
<1>1. /\ joined' = joined \ dropped /\ entered' = entered /\ since' = since /\ globs' = globs
      /\ got' = got /\ ended' = ended /\ \A s \in dropped : Wants(globs[s], name)
  BY DEF Publish
<1>2. Len(log) \in Nat /\ Len(log') = Len(log) + 1
  BY AppendProperties DEF Publish, TypeOK
<1>3. ASSUME NEW s \in Subs
      PROVE  IF s \in joined \ (dropped \cup ended) /\ Wants(globs[s], name)
             THEN owed'[s] = owed[s] \cup {Len(log) + 1} ELSE owed'[s] = owed[s]
  BY <1>3 DEF Publish
<1>4. Members'
  BY <1>1, <1>2, <1>3 DEF Members, TypeOK
<1>5. NothingMissed'
  <2> SUFFICES ASSUME NEW s \in joined', s \notin ended PROVE got[s] \cup owed'[s] = Due(s)'
    BY <1>1 DEF NothingMissed
  <2>1. s \in Subs /\ s \in joined /\ s \notin dropped /\ got[s] \cup owed[s] = Due(s)
    BY <1>1 DEF NothingMissed, TypeOK
  <2> QED
    BY <2>1, <1>3, PublishDue
<1>6. NoRepeats'
  <2> SUFFICES ASSUME NEW s \in Subs, NEW n \in got[s], NEW m \in owed'[s] PROVE n < m
    BY <1>1 DEF NoRepeats
  <2>1. n \in 1 .. Len(log)
    BY DueBound DEF Beginning
  <2> QED
    BY <1>2, <1>3, <2>1 DEF NoRepeats
<1>7. Beginning'
  <2> SUFFICES ASSUME NEW s \in Subs
               PROVE  /\ got[s] \cup owed'[s] \subseteq Due(s)'
                      /\ \A n \in got[s] \cup owed'[s] : \A m \in Due(s)' :
                           m < n => m \in got[s] \cup owed'[s]
    BY <1>1 DEF Beginning
  <2>1. got[s] \cup owed[s] \subseteq Due(s) /\ Due(s) \subseteq Due(s)' /\ Due(s) \subseteq 1 .. Len(log)
    BY PublishDue, DueBound DEF Beginning
  <2>2. CASE owed'[s] = owed[s]
    <3> SUFFICES ASSUME NEW n \in got[s] \cup owed[s], NEW m \in Due(s)', m < n
                 PROVE  m \in got[s] \cup owed[s]
      BY <2>1, <2>2
    <3>1. m # Len(log) + 1
      BY <1>2, <2>1
    <3>2. m \in Due(s)
      BY <3>1, PublishDue
    <3> QED
      BY <3>2 DEF Beginning
  <2>3. CASE owed'[s] # owed[s]
    <3>1. s \in joined' /\ s \notin ended'
      BY <1>1, <1>3, <2>3
    <3>2. got[s] \cup owed'[s] = Due(s)'
      BY <1>1, <1>5, <3>1 DEF NothingMissed
    <3> QED
      BY <3>2
  <2> QED
    BY <2>2, <2>3
<1> QED
  BY <1>4, <1>5, <1>6, <1>7

(* A subscription that joins is meant to see what comes next. *)
LEMMA JoinInv ==
  ASSUME IInv, NEW s \in Subs, NEW g \in Globs, Join(s, g)
  PROVE  Members' /\ Beginning' /\ NothingMissed' /\ NoRepeats'
<1> USE DEF IInv
<1>1. /\ UNCHANGED <<log, owed, got, ended>> /\ entered' = entered \cup {s} /\ joined' = joined \cup {s}
      /\ s \notin entered /\ got[s] = {} /\ owed[s] = {} /\ Len(log) \in Nat
  BY DEF Join, Members, TypeOK
<1>2. since' = [since EXCEPT ![s] = Len(log)] /\ globs' = [globs EXCEPT ![s] = g]
  BY DEF Join
<1>3. Due(s)' = {}
  BY <1>1, <1>2 DEF TypeOK, Due
<1>4. \A r \in Subs : r # s => Due(r)' = Due(r)
  BY <1>1, <1>2 DEF TypeOK, Due
<1>5. Members'
  BY <1>1, <1>2 DEF Members, TypeOK
<1>6. Beginning'
  BY <1>1, <1>3, <1>4 DEF Beginning
<1>7. NothingMissed'
  BY <1>1, <1>3, <1>4 DEF NothingMissed, TypeOK
<1>8. NoRepeats'
  BY <1>1 DEF NoRepeats
<1> QED
  BY <1>5, <1>6, <1>7, <1>8

(* The oldest of what is owed is handed over. *)
LEMMA DeliverInv ==
  ASSUME IInv, NEW s \in Subs, NEW n \in 1 .. Len(log), Deliver(s, n)
  PROVE  Members' /\ Beginning' /\ NothingMissed' /\ NoRepeats'
<1> USE DEF IInv
<1>1. UNCHANGED <<log, joined, entered, globs, since, ended>> /\ Len(log) \in Nat
  BY DEF Deliver, TypeOK
<1>2. \A r \in Subs : Due(r)' = Due(r)
  BY <1>1 DEF Due
<1>3. /\ got'[s] = got[s] \cup {e \in owed[s] : e <= n}
      /\ owed'[s] = owed[s] \ {e \in owed[s] : e <= n}
      /\ \A r \in Subs : r # s => got'[r] = got[r] /\ owed'[r] = owed[r]
  BY DEF Deliver, TypeOK
<1>4. \A r \in Subs : got'[r] \cup owed'[r] = got[r] \cup owed[r]
  BY <1>3
<1>5. \A e \in owed[s] : e \in Nat
  BY DEF TypeOK
<1>6. \A e \in owed'[s] : e \in owed[s] /\ ~(e <= n)
  BY <1>3
<1>7. NoRepeats'
  <2> SUFFICES ASSUME NEW r \in Subs, NEW e \in got'[r], NEW m \in owed'[r] PROVE e < m
    BY DEF NoRepeats
  <2>1. CASE r # s
    BY <1>3, <2>1 DEF NoRepeats
  <2>2. CASE r = s /\ e \in got[s]
    BY <1>6, <2>2 DEF NoRepeats
  <2>3. CASE r = s /\ e \notin got[s]
    <3>1. e \in Nat /\ e <= n /\ m \in Nat /\ n \in Nat /\ ~(m <= n)
      BY <1>3, <1>5, <1>6, <2>3
    <3> QED
      BY <3>1
  <2> QED
    BY <2>1, <2>2, <2>3
<1>8. Members'
  BY <1>1, <1>3 DEF Members, Deliver
<1>9. Beginning' /\ NothingMissed'
  BY <1>1, <1>2, <1>4 DEF Beginning, NothingMissed, TypeOK
<1> QED
  BY <1>7, <1>8, <1>9

(* When delivery ends, what was got is still a beginning. *)
LEMMA EndInv ==
  ASSUME IInv, NEW s \in Subs, NEW leaving \in SUBSET joined, End(s, leaving)
  PROVE  Members' /\ Beginning' /\ NothingMissed' /\ NoRepeats'
<1> USE DEF IInv
<1>1. /\ UNCHANGED <<log, entered, globs, since, got>> /\ joined' = joined \ leaving
      /\ s \in entered /\ ended' = ended \cup {s}
  BY DEF End
<1>2. \A r \in Subs : Due(r)' = Due(r)
  BY <1>1 DEF Due
<1>3. owed'[s] = {} /\ \A r \in Subs : r # s => owed'[r] = owed[r]
  BY DEF End, TypeOK
<1>4. Members'
  BY <1>1, <1>3 DEF Members
<1>5. NothingMissed'
  BY <1>1, <1>2, <1>3 DEF NothingMissed, TypeOK
<1>6. NoRepeats'
  BY <1>1, <1>3 DEF NoRepeats
<1>7. Beginning'
  <2>1. \A e \in got[s], m \in Due(s) : m < e => m \in got[s]
    <3> SUFFICES ASSUME NEW e \in got[s], NEW m \in Due(s), m < e, m \in owed[s] PROVE FALSE
      BY DEF Beginning
    <3>1. e < m /\ e \in Nat /\ m \in Nat
      BY DEF NoRepeats, TypeOK
    <3> QED
      BY <3>1
  <2> QED
    BY <1>1, <1>2, <1>3, <2>1 DEF Beginning
<1> QED
  BY <1>4, <1>5, <1>6, <1>7

LEMMA NextInv == IInv /\ [Next]_vars => IInv'
<1> SUFFICES ASSUME IInv, [Next]_vars PROVE Members' /\ Beginning' /\ NothingMissed' /\ NoRepeats'
  BY NextType DEF IInv
<1>1. ASSUME NEW leaving \in SUBSET joined, Leave(leaving)
      PROVE Members' /\ Beginning' /\ NothingMissed' /\ NoRepeats'
  <2>1. UNCHANGED <<log, entered, globs, since, owed, got, ended>> /\ joined' \subseteq joined
    BY <1>1 DEF Leave
  <2> QED
    BY <2>1 DEF IInv, Members, Beginning, NothingMissed, NoRepeats, Due
<1>2. CASE UNCHANGED vars
  BY <1>2 DEF vars, IInv, Members, Beginning, NothingMissed, NoRepeats, Due
<1> QED
  BY <1>1, <1>2, PublishInv, JoinInv, DeliverInv, EndInv DEF Next

(* Type correctness of the bus. *)
THEOREM BusTypeOK == Spec => []TypeOK
<1>1. IInv => TypeOK
  BY DEF IInv
<1> QED
  BY InitInv, NextInv, <1>1, PTL DEF Spec

(* The bus's promise: a subscription on it has got or is owed exactly the  *)
(* matching events since it joined, what it got has no gap and nothing is  *)
(* handed over twice, however events, joins, drops and ends follow.        *)
THEOREM BusPromise == Spec => [](NothingMissed /\ NoGaps /\ NoRepeats)
<1>1. IInv => NothingMissed /\ NoGaps /\ NoRepeats
  <2> SUFFICES ASSUME IInv PROVE NoGaps
    BY DEF IInv
  <2> SUFFICES ASSUME NEW s \in Subs, NEW n \in got[s], NEW m \in Due(s), m < n, m \in owed[s]
               PROVE  FALSE
    BY DEF IInv, Beginning, NoGaps
  <2>1. n < m /\ n \in Nat /\ m \in Nat
    BY DEF IInv, NoRepeats, TypeOK
  <2> QED
    BY <2>1
<1> QED
  BY InitInv, NextInv, <1>1, PTL DEF Spec
=============================================================================
