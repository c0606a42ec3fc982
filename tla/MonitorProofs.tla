---------------------------- MODULE MonitorProofs ----------------------------
(* Safety of ccxctl monitor: of its tunnel (Tunnel), for any number of      *)
(* invocations and pids, and of its loop (Monitor), for any agents, *)
(* windows and number of keys.                                              *)
EXTENDS Tunnel, Monitor, SequenceTheorems, TLAPS

(* A run that acts on a pid has one. *)
PidKnown == \A r \in Runs : at[r] \in {"probe", "unlink", "term", "drop"} \union Starting => pid[r] \in Pids

(* Without a race, one run at a time acts on the pidfile ...               *)
OneDecides == \A q, r \in Runs : at[q] \in Deciding /\ at[r] \in Deciding => q = r

(* ... and what it has read is still there. *)
StillThere(r) ==
  /\ at[r] \in {"spawn", "blank"} => pidfile \notin Pids
  /\ at[r] = "record" => pidfile = Blank
  /\ at[r] \in {"probe", "unlink", "term", "drop"} => pidfile = pid[r]
  /\ at[r] \in {"unlink", "drop"} => proc[pid[r]] # "ssh"

Calm == ~raced /\ ~Interrupted

Orderly == Calm => OneDecides /\ \A r \in Runs : StillThere(r)

(* If no tunnel has ended by itself either, the pid in the file is a       *)
(* tunnel's until close drops it.                                          *)
StillMine == Calm /\ ~died =>
  /\ \A r \in Runs : at[r] \in {"blank", "record"} => proc[pid[r]] = "ssh"
  /\ pidfile \in Pids => proc[pidfile] = "ssh" \/ \E r \in Runs : at[r] = "drop"

IInv == TypeOK /\ PidKnown /\ Orderly /\ NoOrphan /\ StillMine

(* The steps of a run, and those of the world around the runs. *)
RunStep(r) ==
  \/ \E c \in {"open", "close"} : Invoke(r, c)
  \/ Read(r) \/ Probe(r) \/ Unlink(r)
  \/ Spawn(r) \/ Empties(r) \/ Records(r)
  \/ Polls(r) \/ Connects(r) \/ Deadline(r)
  \/ Term(r) \/ Drop(r) \/ Interrupt(r)

WorldStep ==
  \/ \E p \in Pids : Forward(p) \/ Fails(p) \/ Terminates(p) \/ Stranger(p)
  \/ OtherListens \/ OtherLeaves
  \/ UNCHANGED vars

LEMMA NextIs == [Next]_vars => (\E r \in Runs : RunStep(r)) \/ WorldStep
BY DEF Next, RunStep, WorldStep

LEMMA Distinct == /\ Nobody \notin Pids /\ Foreign \notin Pids
                  /\ NoFile \notin Pids /\ Blank \notin Pids /\ NoFile # Blank
BY TunnelAssumption DEF NoFile, Blank

LEMMA InitInv == Init => IInv
<1> SUFFICES ASSUME Init PROVE IInv
  OBVIOUS
<1> USE Distinct DEF Init, Deciding, Waiting, Starting
<1>1. TypeOK
  BY DEF TypeOK, Places
<1>2. PidKnown /\ Orderly /\ NoOrphan /\ StillMine
  BY DEF PidKnown, Orderly, NoOrphan, StillMine, OneDecides, StillThere
<1> QED
  BY <1>1, <1>2 DEF IInv

-----------------------------------------------------------------------------
(* The types, in two parts. *)
StateOK ==
  /\ pidfile \in Pids \union {NoFile, Blank}
  /\ at \in [Runs -> Places] /\ cmd \in [Runs -> {"none", "open", "close"}]
  /\ pid \in [Runs -> Pids \union {Nobody}]
  /\ raced \in BOOLEAN /\ died \in BOOLEAN
PortOK ==
  /\ proc \in [Pids -> {"free", "ssh", "ending", "zombie", "mine", "alien"}]
  /\ port \in {Nobody, Foreign} \union {p \in Pids : proc[p] \in {"ssh", "ending"}}

LEMMA TypeParts == TypeOK <=> StateOK /\ PortOK
BY DEF TypeOK, StateOK, PortOK

LEMMA StepStateOK == IInv /\ [Next]_vars => StateOK'
<1> SUFFICES ASSUME IInv, [Next]_vars PROVE StateOK'
  OBVIOUS
<1>1. StateOK /\ PidKnown
  BY TypeParts DEF IInv
<1>2. ASSUME NEW r \in Runs, RunStep(r) PROVE StateOK'
  <2>1. pidfile' \in Pids \union {NoFile, Blank}
    BY <1>1, <1>2 DEF StateOK, RunStep, Invoke, Read, Probe, Unlink, Spawn, Empties, Records,
         Polls, Connects, Deadline, Term, Drop, Interrupt, PidKnown, Starting, Waiting
  <2>2. at' \in [Runs -> Places]
    BY <1>1, <1>2 DEF StateOK, RunStep, Invoke, Read, Probe, Unlink, Spawn, Empties, Records,
         Polls, Connects, Deadline, Term, Drop, Interrupt, Goes, NoneThere, Places, Deciding, Waiting
  <2>3. cmd' \in [Runs -> {"none", "open", "close"}] /\ pid' \in [Runs -> Pids \union {Nobody}]
    BY <1>1, <1>2 DEF StateOK, RunStep, Invoke, Read, Probe, Unlink, Spawn, Empties, Records,
         Polls, Connects, Deadline, Term, Drop, Interrupt
  <2>4. raced' \in BOOLEAN /\ died' \in BOOLEAN
    BY <1>1, <1>2 DEF StateOK, RunStep, Invoke, Read, Probe, Unlink, Spawn, Empties, Records,
         Polls, Connects, Deadline, Term, Drop, Interrupt
  <2> QED
    BY <2>1, <2>2, <2>3, <2>4 DEF StateOK
<1>3. CASE WorldStep
  <2>1. UNCHANGED <<pidfile, at, cmd, pid, raced>>
    BY <1>3 DEF WorldStep, Forward, Fails, Terminates, Ends, Stranger, OtherListens, OtherLeaves, vars
  <2>2. died' \in BOOLEAN
    BY <1>1, <1>3 DEF StateOK, WorldStep, Forward, Fails, Terminates, Stranger, OtherListens,
         OtherLeaves, vars
  <2> QED
    BY <1>1, <2>1, <2>2 DEF StateOK
<1> QED
  BY <1>2, <1>3, NextIs

(* What a run may do to the processes: start an ssh, collect its zombie,   *)
(* or signal the one it acts on.                                           *)
LEMMA RunOnProc ==
  ASSUME IInv, NEW r \in Runs, RunStep(r)
  PROVE  \/ UNCHANGED <<proc, port>>
         \/ /\ proc' = ReapedBy(r) /\ UNCHANGED port
         \/ \E p \in Pids : /\ at[r] = "spawn" /\ proc[p] = "free"
                            /\ proc' = [proc EXCEPT ![p] = "ssh"] /\ UNCHANGED port
         \/ /\ at[r] = "term" /\ UNCHANGED port /\ pid[r] \in Pids
            /\ proc' = [proc EXCEPT ![pid[r]] =
                          CASE @ = "ssh" -> "ending" [] @ = "mine" -> "free" [] OTHER -> @]
BY DEF IInv, PidKnown, RunStep, Invoke, Read, Probe, Unlink, Spawn, Empties, Records,
       Polls, Connects, Deadline, Term, Drop, Interrupt

LEMMA StepPortOK == IInv /\ [Next]_vars => PortOK'
<1> SUFFICES ASSUME IInv, [Next]_vars PROVE PortOK'
  OBVIOUS
<1>1. PortOK
  BY TypeParts DEF IInv
<1>2. ASSUME NEW r \in Runs, RunStep(r) PROVE PortOK'
  BY <1>1, <1>2, RunOnProc DEF PortOK, ReapedBy
<1>3. CASE WorldStep
  <2>1. ASSUME NEW p \in Pids, Forward(p) PROVE PortOK'
    BY <1>1, <2>1 DEF PortOK, Forward
  <2>2. ASSUME NEW p \in Pids, Ends(p) PROVE PortOK'
    BY <1>1, <2>2 DEF PortOK, Ends
  <2>3. ASSUME NEW p \in Pids, Stranger(p) PROVE PortOK'
    BY <1>1, <2>3, Distinct DEF PortOK, Stranger
  <2>4. CASE OtherListens \/ OtherLeaves \/ UNCHANGED vars
    BY <1>1, <2>4 DEF PortOK, OtherListens, OtherLeaves, vars
  <2> QED
    BY <1>3, <2>1, <2>2, <2>3, <2>4 DEF WorldStep, Fails, Terminates
<1> QED
  BY <1>2, <1>3, NextIs

LEMMA StepTypeOK == IInv /\ [Next]_vars => TypeOK'
<1>1. TypeOK' <=> StateOK' /\ PortOK'
  BY TypeParts, PTL
<1> QED
  BY <1>1, StepStateOK, StepPortOK

-----------------------------------------------------------------------------
LEMMA OthersStay ==
  ASSUME IInv, NEW r \in Runs, RunStep(r), NEW q \in Runs, q # r
  PROVE  at'[q] = at[q] /\ pid'[q] = pid[q]
<1>1. StateOK
  BY TypeParts DEF IInv
<1>2. at'[q] = at[q]
  BY <1>1 DEF StateOK, RunStep, Goes, Invoke, Read, Probe, Unlink, Spawn, Empties, Records,
       Polls, Connects, Deadline, Term, Drop, Interrupt
<1>3. pid'[q] = pid[q]
  BY <1>1 DEF StateOK, RunStep, Goes, Invoke, Read, Probe, Unlink, Spawn, Empties, Records,
       Polls, Connects, Deadline, Term, Drop, Interrupt
<1> QED
  BY <1>2, <1>3

(* Around the runs no ssh starts. *)
LEMMA WorldKeeps ==
  ASSUME IInv, WorldStep
  PROVE  /\ UNCHANGED <<pidfile, at, pid, raced>>
         /\ \A p \in Pids : proc'[p] = "ssh" => proc[p] = "ssh"
         /\ ~died' => ~died /\ \A p \in Pids : proc[p] = "ssh" => proc'[p] = "ssh"
<1>1. PortOK /\ StateOK
  BY TypeParts DEF IInv
<1>2. UNCHANGED <<pidfile, at, pid, raced>>
  BY DEF WorldStep, Forward, Fails, Terminates, Ends, Stranger, OtherListens, OtherLeaves, vars
<1>3. \A p \in Pids : proc'[p] = "ssh" => proc[p] = "ssh"
  BY <1>1 DEF PortOK, WorldStep, Forward, Fails, Terminates, Ends, Stranger, OtherListens,
       OtherLeaves, vars
<1>4. ~died' => ~died
  BY DEF WorldStep, Forward, Fails, Terminates, Stranger, OtherListens, OtherLeaves, vars
<1>5. ASSUME ~died', NEW p \in Pids, proc[p] = "ssh" PROVE proc'[p] = "ssh"
  <2>1. CASE UNCHANGED proc
    BY <1>5, <2>1
  <2>2. ASSUME NEW x \in Pids, Terminates(x) \/ Stranger(x) PROVE proc'[p] = "ssh"
    BY <1>1, <1>5, <2>2 DEF PortOK, Terminates, Stranger, Ends
  <2> QED
    BY <1>5, <2>1, <2>2 DEF WorldStep, Forward, Fails, OtherListens, OtherLeaves, vars
<1> QED
  BY <1>2, <1>3, <1>4, <1>5

LEMMA StepPidKnown == IInv /\ [Next]_vars => PidKnown'
<1> SUFFICES ASSUME IInv, [Next]_vars PROVE PidKnown'
  OBVIOUS
<1>1. StateOK /\ PidKnown
  BY TypeParts DEF IInv
<1> USE DEF PidKnown
<1>2. ASSUME NEW r \in Runs, RunStep(r) PROVE PidKnown'
  <2>1. at'[r] \in {"probe", "unlink", "term", "drop"} \union Starting => pid'[r] \in Pids
    BY <1>1, <1>2, Distinct DEF StateOK, RunStep, Goes, Invoke, Read, Probe, Unlink, Spawn,
         Empties, Records, Polls, Connects, Deadline, Term, Drop, Interrupt, NoneThere,
         Starting, Waiting
  <2> QED
    BY <1>1, <1>2, <2>1, OthersStay
<1>3. CASE WorldStep
  BY <1>1, <1>3, WorldKeeps
<1> QED
  BY <1>2, <1>3, NextIs

-----------------------------------------------------------------------------
(* A race and an interrupt are never forgotten. *)
LEMMA CalmBefore == IInv /\ [Next]_vars /\ Calm' => Calm
<1> SUFFICES ASSUME IInv, [Next]_vars, Calm' PROVE Calm
  OBVIOUS
<1>1. StateOK
  BY TypeParts DEF IInv
<1>2. ASSUME NEW r \in Runs, RunStep(r) PROVE Calm
  <2>1. ~raced
    BY <1>1, <1>2 DEF Calm, StateOK, RunStep, Invoke, Read, Probe, Unlink, Spawn, Empties, Records,
         Polls, Connects, Deadline, Term, Drop, Interrupt
  <2>2. at[r] # "cut"
    BY <1>2 DEF RunStep, Invoke, Read, Probe, Unlink, Spawn, Empties, Records,
         Polls, Connects, Deadline, Term, Drop, Interrupt, Deciding, Waiting
  <2>3. \A q \in Runs : at'[q] # "cut"
    BY DEF Calm, Interrupted
  <2>4. \A q \in Runs : at[q] # "cut"
    BY <1>2, <2>2, <2>3, OthersStay
  <2> QED
    BY <2>1, <2>4 DEF Calm, Interrupted
<1>3. CASE WorldStep
  BY <1>3, WorldKeeps DEF Calm, Interrupted
<1> QED
  BY <1>2, <1>3, NextIs

(* Without a race, the run that decides, or begins to, is alone with that, *)
(* and one that does not leaves the pidfile alone and starts no ssh.       *)
LEMMA DecidesAlone ==
  ASSUME IInv, NEW r \in Runs, RunStep(r), [Next]_vars, Calm'
  PROVE  \/ \A q \in Runs : q # r => at[q] \notin Deciding /\ at'[q] \notin Deciding
         \/ /\ at[r] \notin Deciding /\ at'[r] \notin Deciding
            /\ pidfile' = pidfile /\ proc' \in {proc, ReapedBy(r)}
<1>1. StateOK /\ Calm /\ OneDecides
  BY TypeParts, CalmBefore DEF IInv, Orderly
<1>2. \A q \in Runs : q # r => at'[q] = at[q]
  BY OthersStay
<1>3. CASE at[r] \in Deciding
  BY <1>1, <1>2, <1>3 DEF OneDecides
<1>4. CASE Read(r)
  <2>1. \A q \in Runs : at[q] \notin Deciding
    BY <1>4 DEF Read, Calm
  <2> QED
    BY <1>2, <2>1
<1>5. CASE at[r] \notin Deciding /\ ~Read(r)
  <2>1. \/ \E c \in {"open", "close"} : Invoke(r, c)
        \/ Polls(r) \/ Connects(r) \/ Deadline(r) \/ Interrupt(r)
    BY <1>5 DEF RunStep, Probe, Unlink, Spawn, Empties, Records, Term, Drop, Deciding
  <2>2. at'[r] \notin Deciding
    BY <1>1, <2>1 DEF StateOK, Goes, Invoke, Polls, Connects, Deadline, Interrupt, Deciding
  <2>3. pidfile' = pidfile /\ proc' \in {proc, ReapedBy(r)}
    BY <2>1 DEF Invoke, Polls, Connects, Deadline, Interrupt
  <2> QED
    BY <1>5, <2>2, <2>3
<1> QED
  BY <1>3, <1>4, <1>5

(* What a run that acts on the pidfile finds of it in its next step.       *)
LEMMA RunStillThere ==
  ASSUME IInv, NEW r \in Runs, RunStep(r), [Next]_vars, Calm'
  PROVE  StillThere(r)'
<1>1. StateOK /\ PortOK /\ PidKnown /\ StillThere(r) /\ Calm
  BY TypeParts, CalmBefore DEF IInv, Orderly
<1> USE <1>1, Distinct DEF StillThere, StateOK, Goes
<1>2. CASE \E c \in {"open", "close"} : Invoke(r, c)
  BY <1>2 DEF Invoke
<1>3. CASE Read(r)
  BY <1>3 DEF Read, NoneThere
<1>4. CASE Probe(r)
  BY <1>4 DEF Probe
<1>5. CASE Unlink(r)
  BY <1>5 DEF Unlink, NoneThere
<1>6. CASE Spawn(r)
  BY <1>6 DEF Spawn
<1>7. CASE Empties(r)
  BY <1>7 DEF Empties
<1>8. CASE Records(r) \/ Polls(r) \/ Connects(r) \/ Deadline(r) \/ Drop(r) \/ Interrupt(r)
  BY <1>8 DEF Records, Polls, Connects, Deadline, Drop, Interrupt
<1>9. CASE Term(r)
  BY <1>9 DEF Term, PortOK, PidKnown
<1> QED
  BY <1>2, <1>3, <1>4, <1>5, <1>6, <1>7, <1>8, <1>9 DEF RunStep

LEMMA StepOrderly == IInv /\ [Next]_vars => Orderly'
<1> SUFFICES ASSUME IInv, [Next]_vars, Calm'
             PROVE  OneDecides' /\ \A q \in Runs : StillThere(q)'
  BY DEF Orderly
<1>1. StateOK /\ PortOK /\ PidKnown /\ Calm /\ OneDecides /\ \A q \in Runs : StillThere(q)
  BY TypeParts, CalmBefore DEF IInv, Orderly
<1>2. ASSUME NEW r \in Runs, RunStep(r) PROVE OneDecides' /\ \A q \in Runs : StillThere(q)'
  <2>1. OneDecides'
    BY <1>1, <1>2, DecidesAlone, OthersStay DEF OneDecides
  <2>2. ASSUME NEW q \in Runs, q # r PROVE StillThere(q)'
    <3>1. at'[q] = at[q] /\ pid'[q] = pid[q]
      BY <1>2, <2>2, OthersStay
    <3>2. CASE at'[q] \notin Deciding
      BY <3>2 DEF StillThere, Deciding
    <3>3. CASE at'[q] \in Deciding
      <4>1. pidfile' = pidfile /\ proc' \in {proc, ReapedBy(r)}
        BY <1>2, <2>2, <3>1, <3>3, DecidesAlone
      <4>2. at[q] \in {"unlink", "drop"} => proc'[pid[q]] # "ssh"
        BY <1>1, <4>1 DEF StillThere, PidKnown, ReapedBy
      <4> QED
        BY <1>1, <3>1, <4>1, <4>2 DEF StillThere
    <3> QED
      BY <3>2, <3>3
  <2> QED
    BY <1>2, <2>1, <2>2, RunStillThere
<1>3. CASE WorldStep
  <2>1. UNCHANGED <<pidfile, at, pid>> /\ \A p \in Pids : proc'[p] = "ssh" => proc[p] = "ssh"
    BY <1>3, WorldKeeps
  <2>2. OneDecides'
    BY <1>1, <2>1 DEF OneDecides
  <2>3. \A q \in Runs : StillThere(q)'
    BY <1>1, <2>1 DEF StillThere, PidKnown
  <2> QED
    BY <2>2, <2>3
<1> QED
  BY <1>2, <1>3, NextIs

-----------------------------------------------------------------------------
Recording(q) == at[q] \in {"blank", "record"}

(* A step of a run on the pidfile loses no tunnel: it starts one, and has  *)
(* found no other; or it writes or removes the file, and then the tunnel   *)
(* the file named is its own or has ended.                                 *)
LEMMA RunNoOrphan ==
  ASSUME IInv, NEW r \in Runs, RunStep(r), [Next]_vars, Calm',
         \A q \in Runs : q # r => at[q] \notin Deciding,
         NEW p \in Pids, proc'[p] = "ssh"
  PROVE  pidfile' = p \/ \E q \in Runs : pid'[q] = p /\ Recording(q)'
<1>1. StateOK /\ PortOK /\ PidKnown /\ Calm /\ StillThere(r)
  BY TypeParts, CalmBefore DEF IInv, Orderly
<1>2. proc[p] = "ssh" => pidfile = p \/ (pid[r] = p /\ Recording(r))
  BY <1>1 DEF IInv, NoOrphan, Calm, Deciding, Recording
<1> USE <1>1, <1>2, Distinct DEF StillThere, Recording, StateOK, Goes
<1>3. ASSUME UNCHANGED <<pidfile, pid>>, proc' \in {proc, ReapedBy(r)},
             Recording(r) => Recording(r)'
      PROVE  pidfile' = p \/ (pid'[r] = p /\ Recording(r)')
  <2>1. proc[p] = "ssh"
    BY <1>3 DEF ReapedBy
  <2> QED
    BY <1>3, <2>1
<1>4. CASE (\E c \in {"open", "close"} : Invoke(r, c)) \/ Probe(r) \/ Polls(r) \/ Connects(r)
           \/ Deadline(r)
  BY <1>3, <1>4 DEF Invoke, Probe, Polls, Connects, Deadline
<1>5. CASE Read(r)
  BY <1>5 DEF Read
<1>6. CASE Unlink(r) \/ Drop(r)
  BY <1>6 DEF Unlink, Drop
<1>7. CASE Spawn(r)
  BY <1>7 DEF Spawn, PortOK
<1>8. CASE Empties(r)
  BY <1>8 DEF Empties
<1>9. CASE Records(r)
  BY <1>9 DEF Records
<1>10. CASE Term(r)
  BY <1>10 DEF Term, PortOK, PidKnown
<1>11. CASE Interrupt(r)
  BY <1>11 DEF Interrupt, Calm, Interrupted
<1> QED
  BY <1>4, <1>5, <1>6, <1>7, <1>8, <1>9, <1>10, <1>11 DEF RunStep

LEMMA StepNoOrphan == IInv /\ [Next]_vars => NoOrphan'
<1> SUFFICES ASSUME IInv, [Next]_vars, Calm', NEW p \in Pids, proc'[p] = "ssh"
             PROVE  pidfile' = p \/ \E q \in Runs : pid'[q] = p /\ Recording(q)'
  BY DEF NoOrphan, Calm, Recording
<1>1. StateOK /\ PortOK /\ Calm
  BY TypeParts, CalmBefore DEF IInv
<1>2. proc[p] = "ssh" => pidfile = p \/ \E q \in Runs : pid[q] = p /\ Recording(q)
  BY <1>1 DEF IInv, NoOrphan, Calm, Recording
<1>3. ASSUME NEW r \in Runs, RunStep(r)
      PROVE  pidfile' = p \/ \E q \in Runs : pid'[q] = p /\ Recording(q)'
  <2>1. CASE \A q \in Runs : q # r => at[q] \notin Deciding
    BY <1>3, <2>1, RunNoOrphan
  <2>2. CASE /\ at[r] \notin Deciding /\ pidfile' = pidfile /\ proc' \in {proc, ReapedBy(r)}
    <3>1. proc[p] = "ssh"
      BY <2>2 DEF ReapedBy
    <3>2. \A q \in Runs : Recording(q) => q # r
      BY <2>2 DEF Recording, Deciding
    <3>3. \A q \in Runs : Recording(q) => at'[q] = at[q] /\ pid'[q] = pid[q]
      BY <1>3, <3>2, OthersStay
    <3> QED
      BY <1>2, <2>2, <3>1, <3>3 DEF Recording
  <2> QED
    BY <1>3, <2>1, <2>2, DecidesAlone
<1>4. CASE WorldStep
  BY <1>2, <1>4, WorldKeeps DEF Recording
<1> QED
  BY <1>3, <1>4, NextIs

LEMMA StepStillMine == IInv /\ [Next]_vars => StillMine'
<1> DEFINE Held == \A q \in Runs : Recording(q) => proc[pid[q]] = "ssh"
           Named == pidfile \in Pids => proc[pidfile] = "ssh" \/ \E q \in Runs : at[q] = "drop"
<1> SUFFICES ASSUME IInv, [Next]_vars, Calm', ~died' PROVE Held' /\ Named'
  BY DEF StillMine, Recording
<1>1. StateOK /\ PortOK /\ PidKnown /\ Calm /\ OneDecides /\ \A q \in Runs : StillThere(q)
  BY TypeParts, CalmBefore DEF IInv, Orderly
<1>2. ASSUME NEW r \in Runs, RunStep(r) PROVE Held' /\ Named'
  <2>1. ~died
    BY <1>2 DEF RunStep, Invoke, Read, Probe, Unlink, Spawn, Empties, Records,
         Polls, Connects, Deadline, Term, Drop, Interrupt
  <2>2. Held /\ Named
    BY <1>1, <2>1 DEF IInv, StillMine, Recording
  <2>3. CASE /\ at[r] \notin Deciding /\ at'[r] \notin Deciding
             /\ pidfile' = pidfile /\ proc' \in {proc, ReapedBy(r)}
    <3>1. \A p \in Pids : proc[p] = "ssh" => proc'[p] = "ssh"
      BY <1>1, <2>3 DEF ReapedBy, PortOK
    <3>2. Held'
      <4> SUFFICES ASSUME NEW q \in Runs, Recording(q)' PROVE proc'[pid'[q]] = "ssh"
        OBVIOUS
      <4>1. q # r
        BY <2>3 DEF Recording, Deciding
      <4>2. at'[q] = at[q] /\ pid'[q] = pid[q]
        BY <1>2, <4>1, OthersStay
      <4>3. Recording(q) /\ pid[q] \in Pids
        BY <1>1, <4>2 DEF Recording, PidKnown, Starting
      <4> QED
        BY <2>2, <3>1, <4>2, <4>3
    <3>3. Named'
      <4>1. \A q \in Runs : at[q] = "drop" => q # r
        BY <2>3 DEF Deciding
      <4>2. \A q \in Runs : at[q] = "drop" => at'[q] = "drop"
        BY <1>2, <4>1, OthersStay
      <4> QED
        BY <2>2, <2>3, <3>1, <4>2
    <3> QED
      BY <3>2, <3>3
  <2>4. CASE \A q \in Runs : q # r => at[q] \notin Deciding /\ at'[q] \notin Deciding
    <3>1. /\ Held' <=> (Recording(r)' => proc'[pid'[r]] = "ssh")
          /\ Named' <=> (pidfile' \in Pids => proc'[pidfile'] = "ssh" \/ at'[r] = "drop")
          /\ Recording(r) => proc[pid[r]] = "ssh"
          /\ pidfile \in Pids => proc[pidfile] = "ssh" \/ at[r] = "drop"
      BY <2>2, <2>4 DEF Recording, Deciding
    <3>2. StillThere(r)
      BY <1>1
    <3> HIDE DEF Held, Named
    <3> USE <1>1, <3>1, <3>2, Distinct DEF Recording, StateOK, Goes, StillThere
    <3>3. CASE (\E c \in {"open", "close"} : Invoke(r, c)) \/ Probe(r)
      BY <3>3 DEF Invoke, Probe
    <3>4. CASE Read(r)
      BY <3>4 DEF Read, NoneThere
    <3>5. CASE Unlink(r) \/ Drop(r)
      BY <3>5 DEF Unlink, Drop, NoneThere
    <3>6. CASE Spawn(r)
      BY <3>6 DEF Spawn, PortOK
    <3>7. CASE Empties(r)
      BY <3>7 DEF Empties
    <3>8. CASE Records(r)
      BY <3>8 DEF Records
    <3>9. CASE Polls(r) \/ Connects(r) \/ Deadline(r)
      BY <3>9 DEF Polls, Connects, Deadline, ReapedBy, PortOK
    <3>10. CASE Term(r)
      BY <3>10 DEF Term, PortOK, PidKnown
    <3>11. CASE Interrupt(r)
      BY <3>11 DEF Interrupt, Calm, Interrupted
    <3> QED
      BY <1>2, <3>3, <3>4, <3>5, <3>6, <3>7, <3>8, <3>9, <3>10, <3>11 DEF RunStep
  <2> QED
    BY <1>2, <2>3, <2>4, DecidesAlone
<1>3. CASE WorldStep
  <2>1. /\ UNCHANGED <<pidfile, at, pid>> /\ ~died
        /\ \A p \in Pids : proc[p] = "ssh" => proc'[p] = "ssh"
    BY <1>3, WorldKeeps
  <2>2. Held /\ Named
    BY <1>1, <2>1 DEF IInv, StillMine, Recording
  <2>3. \A q \in Runs : Recording(q) => pid[q] \in Pids
    BY <1>1 DEF Recording, PidKnown, Starting
  <2> QED
    BY <2>1, <2>2, <2>3 DEF Recording
<1> QED
  BY <1>2, <1>3, NextIs

-----------------------------------------------------------------------------
LEMMA StepInv == IInv /\ [Next]_vars => IInv'
<1>1. IInv' <=> TypeOK' /\ PidKnown' /\ Orderly' /\ NoOrphan' /\ StillMine'
  BY DEF IInv
<1> QED
  BY <1>1, StepTypeOK, StepPidKnown, StepOrderly, StepNoOrphan, StepStillMine

LEMMA AlwaysInv == Spec => []IInv
BY InitInv, StepInv, PTL DEF Spec

(* Every state has the declared types; the port is listened on by an ssh   *)
(* that lives.                                                             *)
THEOREM TunnelTypeOK == Spec => []TypeOK
<1>1. IInv => TypeOK
  BY DEF IInv
<1> QED
  BY AlwaysInv, <1>1, PTL

(* Unless invocations overlap in _tunnel_pid or one is interrupted, the    *)
(* pidfile names every tunnel that lives: _open and close leave no orphan. *)
THEOREM TunnelNoOrphan == Spec => []NoOrphan
<1>1. IInv => NoOrphan
  BY DEF IInv
<1> QED
  BY AlwaysInv, <1>1, PTL

(* A close that ends without a race or an interrupt leaves no tunnel: none  *)
(* but the one the pidfile named was there, and that has been told to end. *)
THEOREM TunnelNoneLeft == Spec => NoneLeft
<1>1. ASSUME IInv, IInv', [Next]_vars, NEW r \in Runs, Calm',
             at[r] \notin {"closed", "nothing"}, at'[r] \in {"closed", "nothing"},
             NEW p \in Pids, proc'[p] = "ssh"
      PROVE  FALSE
  <2>1. StateOK /\ OneDecides
    BY <1>1, CalmBefore, TypeParts DEF IInv, Orderly
  <2>2. RunStep(r)
    <3>1. ASSUME NEW q \in Runs, q # r, RunStep(q) PROVE FALSE
      BY <1>1, <3>1, OthersStay
    <3>2. CASE WorldStep
      BY <1>1, <3>2, WorldKeeps
    <3> QED
      BY <1>1, <3>1, <3>2, NextIs
  <2>3. Read(r) \/ Unlink(r) \/ Drop(r)
    BY <1>1, <2>1, <2>2 DEF RunStep, Invoke, Probe, Spawn, Empties, Records, Polls, Connects,
         Deadline, Term, Interrupt, Goes, StateOK
  <2>4. pidfile' \notin Pids
    BY <1>1, <2>1, <2>3, Distinct DEF Read, Unlink, Drop, Goes, StateOK
  <2>5. \A q \in Runs : ~Recording(q)'
    <3>1. \A q \in Runs : q # r => at[q] \notin Deciding
      BY <1>1, <2>1, <2>3 DEF Read, Unlink, Drop, Calm, OneDecides, Deciding
    <3>2. \A q \in Runs : q # r => at'[q] = at[q]
      BY <1>1, <2>2, OthersStay
    <3> QED
      BY <1>1, <3>1, <3>2 DEF Recording, Deciding
  <2>6. NoOrphan' /\ Calm'
    BY <1>1 DEF IInv
  <2>7. pidfile' = p \/ \E q \in Runs : pid'[q] = p /\ Recording(q)'
    BY <1>1, <2>6 DEF NoOrphan, Calm, Recording
  <2> QED
    BY <2>4, <2>5, <2>7
<1>2. ASSUME IInv, [Next]_vars, NEW r \in Runs,
             at[r] \notin {"closed", "nothing"}, at'[r] \in {"closed", "nothing"},
             ~raced', ~Interrupted
      PROVE  Calm'
  <2>1. ASSUME NEW q \in Runs, q # r, RunStep(q) PROVE FALSE
    BY <1>2, <2>1, OthersStay
  <2>2. CASE RunStep(r)
    BY <1>2, <2>2, OthersStay DEF Calm, Interrupted
  <2>3. CASE WorldStep
    BY <1>2, <2>3, WorldKeeps
  <2> QED
    BY <1>2, <2>1, <2>2, <2>3, NextIs
<1>3. IInv /\ IInv' /\ [Next]_vars => \A r \in Runs :
        at[r] \notin {"closed", "nothing"} /\ (at'[r] \in {"closed", "nothing"}) /\ ~raced' /\ ~Interrupted
          => \A p \in Pids : proc'[p] # "ssh"
  BY <1>1, <1>2
<1> QED
  BY AlwaysInv, <1>3, PTL DEF Spec, NoneLeft

(* What close sends SIGTERM to is the tunnel it has read of, unless that   *)
(* had ended by itself, or invocations overlapped or were interrupted.     *)
THEOREM TunnelSparesStrangers == Spec => SparesStrangers
<1>1. ASSUME IInv, NEW r \in Runs, at[r] = "term", proc[pid[r]] = "mine", Calm, ~died
      PROVE  FALSE
  <2>1. OneDecides /\ StillThere(r) /\ PidKnown
    BY <1>1 DEF IInv, Orderly
  <2>2. pidfile = pid[r] /\ pid[r] \in Pids
    BY <1>1, <2>1 DEF StillThere, PidKnown
  <2>3. PICK q \in Runs : at[q] = "drop"
    BY <1>1, <2>2 DEF IInv, StillMine
  <2> QED
    BY <1>1, <2>1, <2>3 DEF OneDecides, Deciding
<1>2. IInv /\ [Next]_vars => \A r \in Runs :
        at[r] = "term" /\ (at'[r] = "drop") /\ proc[pid[r]] = "mine"
          => raced \/ died \/ Interrupted
  BY <1>1 DEF Calm
<1> QED
  BY AlwaysInv, <1>2, PTL DEF Spec, SparesStrangers

-----------------------------------------------------------------------------
(* The loop. *)

Gathering == {"windows", "agents", "scan", "ssh", "draw"}

(* What is still to be looked at is of the kind that the loop looks at, and *)
(* no agent that has a row is scanned again.                                *)
TodoOK ==
  /\ stage = "agents" => todo \subseteq Windows
  /\ stage = "scan" => todo \subseteq Agents /\ todo \intersect Shown = {}

(* Whoever is alive has been seen; who was there all the time still is.     *)
HistoryOK ==
  /\ stage \in Gathering => Alive \subseteq seen
  /\ steady \subseteq Alive
  /\ Shown \subseteq seen

(* On the way from /proc to the frame none of the agents that were there    *)
(* all the time gets lost ...                                               *)
NoneLost ==
  /\ stage = "scan" => steady \subseteq Shown \union todo
  /\ stage \in {"ssh", "draw"} /\ filter # "ccx" /\ "local" \notin unreachable
       => steady \subseteq Shown

(* ... and the windows that are shown for them are theirs.                  *)
RowsOK ==
  /\ \A row \in rows : row.window # None /\ row.pid \in steady => where[row.pid] = row.window
  /\ stage \in {"windows", "agents"} => \A row \in rows : row.window # None

(* The terminal is in cbreak mode only from setcbreak to the restoring, and *)
(* the way there is taken only on one.                                     *)
ModeOK ==
  /\ mode = "cbreak" => tty /\ stage \notin {"begin", "guard", "cbreak", "over"}
  /\ stage \in {"guard", "cbreak"} => tty

TuiInv == TuiTypeOK /\ TodoOK /\ HistoryOK /\ NoneLost /\ RowsOK /\ EachOnce /\ ModeOK

(* The steps that leave the gathering as it is: the places before and after *)
(* it, and the ways out of the loop.                                        *)
Aside ==
  \/ Begin \/ Guard \/ Cbreak \/ Draw \/ Key \/ NoKey \/ Restore
  \/ Signal \/ TuiInterrupt

TuiWorldStep ==
  \/ AgentStarts \/ AgentEnds \/ WindowOpens \/ WindowCloses
  \/ NetworkChanges \/ Types
  \/ UNCHANGED tuiVars

LEMMA TuiNextIs ==
  [TuiNext]_tuiVars =>
    \/ Aside
    \/ Gather \/ ListWindows \/ FindAgent \/ ListProcesses
    \/ Scan \/ ScanFails \/ Scanned \/ FetchCcx \/ TuiWorldStep
BY DEF TuiNext, Loop, Aside, TuiWorldStep

(* What the steps aside leave alone.                                        *)
LEMMA AsideKeeps ==
  Aside => /\ UNCHANGED <<world, tty, todo, gathered, steady, seen, typed>>
           /\ stage' \notin Gathering
           /\ stage' \in TuiPlaces
BY DEF Aside, Begin, Guard, Cbreak, Draw, Key, NoKey, Restore,
     Signal, TuiInterrupt, Obeys,
       Quits, world, keys, gathered, Gathering, TuiPlaces

(* What the world does to agents: who was there all the time stays where    *)
(* he is, and whoever is alive has been seen if those before were.          *)
LEMMA TuiWorldKeeps ==
  ASSUME TuiTypeOK, HistoryOK, TuiWorldStep
  PROVE  /\ UNCHANGED <<mode, tty, stage, filter, todo, gathered>>
         /\ steady' \subseteq steady /\ seen \subseteq seen' /\ seen' \subseteq Agents
         /\ \A p \in steady' : where'[p] = where[p]
         /\ steady' \subseteq Alive'
         /\ stage \in Gathering => Alive' \subseteq seen'
<1> USE DEF Alive, gathered
<1>1. CASE AgentStarts
  <2>1. PICK p \in Agents, place \in open \union {Outside} :
          /\ where[p] = Gone /\ where' = [where EXCEPT ![p] = place]
          /\ seen' = seen \union {p}
    BY <1>1 DEF AgentStarts
  <2>2. /\ UNCHANGED <<mode, tty, stage, filter, todo, gathered, steady>>
    BY <1>1 DEF AgentStarts
  <2>3. p \notin steady
    BY <2>1 DEF HistoryOK
  <2> QED
    BY <2>1, <2>2, <2>3 DEF TuiTypeOK, HistoryOK
<1>2. CASE AgentEnds
  <2>1. PICK p \in Alive : where' = [where EXCEPT ![p] = Gone] /\ steady' = steady \ {p}
    BY <1>2 DEF AgentEnds
  <2>2. /\ UNCHANGED <<mode, tty, stage, filter, todo, gathered, seen>>
    BY <1>2 DEF AgentEnds
  <2> QED
    BY <2>1, <2>2 DEF TuiTypeOK, HistoryOK
<1>3. CASE WindowCloses
  <2>1. PICK w \in open :
          /\ where' = [p \in Agents |-> IF where[p] = w THEN Gone ELSE where[p]]
          /\ steady' = steady \ {p \in Agents : where[p] = w}
    BY <1>3 DEF WindowCloses
  <2>2. /\ UNCHANGED <<mode, tty, stage, filter, todo, gathered, seen>>
    BY <1>3 DEF WindowCloses
  <2> QED
    BY <2>1, <2>2 DEF TuiTypeOK, HistoryOK
<1>4. CASE WindowOpens \/ NetworkChanges \/ Types \/ UNCHANGED tuiVars
  BY <1>4 DEF WindowOpens, NetworkChanges, Types, tuiVars, world,
       TuiTypeOK, HistoryOK
<1> QED
  BY <1>1, <1>2, <1>3, <1>4 DEF TuiWorldStep

-----------------------------------------------------------------------------
(* The types, in three parts. *)
PlacesOK ==
  /\ where \in [Agents -> Windows \union {Outside, Gone}]
  /\ open \subseteq Windows /\ \A p \in Agents : where[p] \in open \union {Outside, Gone}
  /\ reach \in BOOLEAN /\ tty \in BOOLEAN
KeysOK ==
  /\ kernel \in Seq(Keys) /\ ahead \in Seq(Keys)
  /\ typed \in 0..MaxKeys /\ Len(kernel) + Len(ahead) <= typed
LoopOK ==
  /\ mode \in {"cooked", "cbreak"} /\ stage \in TuiPlaces
  /\ filter \in {None} \union Sources
  /\ todo \subseteq Windows \union Agents /\ rows \subseteq Rows
  /\ ccx \in {"nothing", "rows", "empty"} /\ unreachable \subseteq Sources
  /\ steady \subseteq seen /\ seen \subseteq Agents

LEMMA TuiTypeParts == TuiTypeOK <=> PlacesOK /\ KeysOK /\ LoopOK
BY DEF TuiTypeOK, PlacesOK, KeysOK, LoopOK

LEMMA StepPlacesOK == TuiInv /\ [TuiNext]_tuiVars => PlacesOK'
<1> SUFFICES ASSUME TuiInv, [TuiNext]_tuiVars PROVE PlacesOK'
  OBVIOUS
<1>1. PlacesOK
  BY TuiTypeParts DEF TuiInv
<1>2. CASE Aside
  BY <1>1, <1>2, AsideKeeps DEF PlacesOK, world
<1>3. CASE \/ Gather \/ ListWindows \/ FindAgent \/ ListProcesses
          \/ Scan \/ ScanFails \/ Scanned \/ FetchCcx
  BY <1>1, <1>3 DEF PlacesOK, world, Gather, ListWindows, FindAgent,
       ListProcesses, Scan, ScanFails, Scanned, FetchCcx
<1>4. CASE AgentStarts
  BY <1>1, <1>4 DEF PlacesOK, AgentStarts
<1>5. CASE AgentEnds
  BY <1>1, <1>5 DEF PlacesOK, AgentEnds, Alive
<1>6. CASE WindowOpens
  BY <1>1, <1>6 DEF PlacesOK, WindowOpens
<1>7. CASE WindowCloses
  <2>1. PICK w \in open :
          /\ open' = open \ {w}
          /\ where' = [p \in Agents |-> IF where[p] = w THEN Gone ELSE where[p]]
    BY <1>7 DEF WindowCloses
  <2>2. UNCHANGED <<reach, tty>>
    BY <1>7 DEF WindowCloses
  <2> QED
    BY <1>1, <2>1, <2>2 DEF PlacesOK
<1>8. CASE NetworkChanges \/ Types \/ UNCHANGED tuiVars
  BY <1>1, <1>8 DEF PlacesOK, NetworkChanges, Types, tuiVars, world
<1> QED
  BY <1>2, <1>3, <1>4, <1>5, <1>6, <1>7, <1>8, TuiNextIs DEF TuiWorldStep

LEMMA StepKeysOK == TuiInv /\ [TuiNext]_tuiVars => KeysOK'
<1> SUFFICES ASSUME TuiInv, [TuiNext]_tuiVars PROVE KeysOK'
  OBVIOUS
<1> USE DEF KeysOK
<1>1. KeysOK
  BY TuiTypeParts DEF TuiInv
<1>2. CASE Key
  <2>1. UNCHANGED typed
    BY <1>2 DEF Key
  <2>2. CASE ahead # <<>> /\ ahead' = Tail(ahead) /\ UNCHANGED kernel
    <3>1. Tail(ahead) \in Seq(Keys) /\ Len(Tail(ahead)) = Len(ahead) - 1
      BY <1>1, <2>2, HeadTailProperties
    <3> QED
      BY <1>1, <2>1, <2>2, <3>1, MonitorAssumption DEF MonitorAssumption
  <2>3. CASE kernel # <<>> /\ ahead = <<>> /\ ahead' = Tail(kernel) /\ kernel' = <<>>
    <3>1. Tail(kernel) \in Seq(Keys) /\ Len(Tail(kernel)) = Len(kernel) - 1
      BY <1>1, <2>3, HeadTailProperties
    <3> QED
      BY <1>1, <2>1, <2>3, <3>1, MonitorAssumption DEF MonitorAssumption
  <2> QED
    BY <1>2, <2>2, <2>3 DEF Key
<1>3. CASE Types
  <2>1. PICK key \in Keys : kernel' = Append(kernel, key)
    BY <1>3 DEF Types
  <2>2. kernel' \in Seq(Keys) /\ Len(kernel') = Len(kernel) + 1
    BY <1>1, <2>1, AppendProperties
  <2> QED
    BY <1>1, <1>3, <2>2, MonitorAssumption DEF MonitorAssumption, Types
<1>4. CASE Cbreak
  BY <1>1, <1>4, MonitorAssumption DEF MonitorAssumption, Cbreak
<1>5. CASE UNCHANGED keys
  BY <1>1, <1>5 DEF keys
<1>6. UNCHANGED keys \/ Key \/ Types \/ Cbreak
  BY DEF TuiNext, Loop, Begin, Guard, Gather, ListWindows,
       FindAgent, ListProcesses, Scan,
         ScanFails, Scanned, FetchCcx, Draw, NoKey, Restore, Signal,
         TuiInterrupt, AgentStarts, AgentEnds,
         WindowOpens, WindowCloses, NetworkChanges, tuiVars
<1> QED
  BY <1>2, <1>3, <1>4, <1>5, <1>6

LEMMA StepLoopOK == TuiInv /\ [TuiNext]_tuiVars => LoopOK'
<1> SUFFICES ASSUME TuiInv, [TuiNext]_tuiVars PROVE LoopOK'
  OBVIOUS
<1> USE DEF LoopOK
<1>1. LoopOK /\ TodoOK /\ HistoryOK /\ TuiTypeOK
  BY TuiTypeParts DEF TuiInv
<1>2. CASE Aside
  <2>1. mode' \in {"cooked", "cbreak"} /\ filter' \in {None} \union Sources
    BY <1>1, <1>2 DEF Aside, Begin, Guard, Cbreak, Draw, Key,
         NoKey, Restore, Signal,
         TuiInterrupt, Obeys, CycleFilter, Sources
  <2> QED
    BY <1>1, <1>2, <2>1, AsideKeeps DEF gathered
<1>3. CASE Gather
  BY <1>1, <1>3 DEF Gather, Alive, TuiPlaces
<1>4. CASE ListWindows \/ ScanFails
  BY <1>1, <1>4 DEF ListWindows, ScanFails, LocalFails, AfterLocal, TuiTypeOK, TuiPlaces, Sources
<1>5. CASE FindAgent
  <2>1. PICK w \in todo, p \in Agents \union {None} :
          todo' = todo \ {w} /\ rows' = rows \union {[pid |-> p, window |-> w]}
    BY <1>5 DEF FindAgent
  <2>2. [pid |-> p, window |-> w] \in Rows
    BY <1>1, <1>5, <2>1 DEF FindAgent, TodoOK, Rows
  <2> QED
    BY <1>1, <1>5, <2>1, <2>2 DEF FindAgent
<1>6. CASE ListProcesses
  BY <1>1, <1>6 DEF ListProcesses, gathered, Alive, TuiPlaces
<1>7. CASE Scan
  <2>1. PICK p \in todo : /\ todo' = todo \ {p}
                          /\ rows' \in {rows, rows \union {[pid |-> p, window |-> None]}}
    BY <1>7 DEF Scan
  <2>2. [pid |-> p, window |-> None] \in Rows
    BY <1>1, <1>7, <2>1 DEF Scan, TodoOK, Rows
  <2> QED
    BY <1>1, <1>7, <2>1, <2>2 DEF Scan
<1>8. CASE Scanned \/ FetchCcx
  BY <1>1, <1>8 DEF Scanned, FetchCcx, gathered, AfterLocal, TuiPlaces, Sources
<1>9. CASE TuiWorldStep
  <2>1. steady' \subseteq seen'
    BY <1>1, <1>9, TuiWorldKeeps
  <2> QED
    BY <1>1, <1>9, <2>1, TuiWorldKeeps DEF gathered
<1> QED
  BY <1>2, <1>3, <1>4, <1>5, <1>6, <1>7, <1>8, <1>9, TuiNextIs

LEMMA StepTuiTypeOK == TuiInv /\ [TuiNext]_tuiVars => TuiTypeOK'
<1>1. PlacesOK' /\ KeysOK' /\ LoopOK' => TuiTypeOK'
  BY DEF TuiTypeOK, PlacesOK, KeysOK, LoopOK
<1> QED
  BY <1>1, StepPlacesOK, StepKeysOK, StepLoopOK

-----------------------------------------------------------------------------
(* A row that is added adds its agent to the shown. *)
LEMMA ShownGrows ==
  ASSUME NEW p, NEW w, rows' = rows \union {[pid |-> p, window |-> w]}
  PROVE  Shown' = Shown \union ({p} \ {None})
<1> DEFINE row == [pid |-> p, window |-> w]
<1>1. row.pid = p
  OBVIOUS
<1> HIDE DEF row
<1>2. rows' = rows \union {row}
  BY DEF row
<1> QED
  BY <1>1, <1>2 DEF Shown

LEMMA StepTodoOK == TuiInv /\ [TuiNext]_tuiVars => TodoOK'
<1> SUFFICES ASSUME TuiInv, [TuiNext]_tuiVars PROVE TodoOK'
  OBVIOUS
<1>1. TuiTypeOK /\ TodoOK /\ HistoryOK
  BY DEF TuiInv
<1>2. CASE Aside
  BY <1>2, AsideKeeps DEF TodoOK, Gathering
<1>3. CASE Gather \/ Scanned \/ FetchCcx
  BY <1>3 DEF Gather, Scanned, FetchCcx, AfterLocal, TodoOK
<1>4. CASE ListWindows \/ ScanFails
  BY <1>1, <1>4 DEF ListWindows, ScanFails, LocalFails, AfterLocal, TodoOK, TuiTypeOK
<1>5. CASE FindAgent
  BY <1>1, <1>5 DEF FindAgent, TodoOK
<1>6. CASE ListProcesses
  BY <1>6 DEF ListProcesses, TodoOK, Alive, Shown, gathered
<1>7. CASE Scan
  <2>1. PICK p \in todo :
          /\ todo' = todo \ {p}
          /\ rows' = rows \/ rows' = rows \union {[pid |-> p, window |-> None]}
    BY <1>7 DEF Scan
  <2>2. Shown' \subseteq Shown \union {p}
    BY <2>1, ShownGrows DEF Shown
  <2>3. UNCHANGED stage
    BY <1>7 DEF Scan
  <2> QED
    BY <1>1, <1>7, <2>1, <2>2, <2>3 DEF Scan, TodoOK
<1>8. CASE TuiWorldStep
  BY <1>1, <1>8, TuiWorldKeeps DEF TodoOK, gathered, Shown
<1> QED
  BY <1>2, <1>3, <1>4, <1>5, <1>6, <1>7, <1>8, TuiNextIs

LEMMA StepHistoryOK == TuiInv /\ [TuiNext]_tuiVars => HistoryOK'
<1> SUFFICES ASSUME TuiInv, [TuiNext]_tuiVars PROVE HistoryOK'
  OBVIOUS
<1>1. TuiTypeOK /\ TodoOK /\ HistoryOK
  BY DEF TuiInv
<1>2. CASE Aside
  BY <1>1, <1>2, AsideKeeps DEF HistoryOK, Alive, Shown, world, gathered
<1>3. CASE Gather
  BY <1>1, <1>3 DEF Gather, HistoryOK, Alive, Shown, world
<1>4. CASE ListWindows \/ ListProcesses \/ ScanFails \/ Scanned \/ FetchCcx
  BY <1>1, <1>4 DEF ListWindows, ListProcesses, ScanFails, LocalFails, Scanned, FetchCcx,
       HistoryOK, Alive, Shown,
       world, gathered, Gathering
<1>5. CASE FindAgent
  <2>1. PICK w \in todo, p \in Agents \union {None} :
          /\ p # None => where[p] = w
          /\ rows' = rows \union {[pid |-> p, window |-> w]}
    BY <1>5 DEF FindAgent
  <2>2. p # None => p \in Alive
    BY <1>1, <1>5, <2>1, MonitorAssumption DEF MonitorAssumption, FindAgent, TodoOK, Alive
  <2>3. Shown' = Shown \union ({p} \ {None})
    BY <2>1, ShownGrows
  <2>4. UNCHANGED <<where, stage, steady, seen>> /\ stage \in Gathering
    BY <1>5 DEF FindAgent, world, Gathering
  <2> QED
    BY <1>1, <2>2, <2>3, <2>4 DEF HistoryOK, Alive
<1>6. CASE Scan
  <2>1. PICK p \in todo :
          rows' = IF where[p] = Gone THEN rows ELSE rows \union {[pid |-> p, window |-> None]}
    BY <1>6 DEF Scan
  <2>2. UNCHANGED <<where, stage, steady, seen>> /\ stage \in Gathering
    BY <1>6 DEF Scan, world, Gathering
  <2>3. CASE where[p] = Gone
    BY <1>1, <2>1, <2>2, <2>3 DEF HistoryOK, Alive, Shown
  <2>4. CASE where[p] # Gone
    <3>1. p \in Alive
      BY <1>1, <1>6, <2>4 DEF Scan, TodoOK, Alive
    <3>2. Shown' = Shown \union ({p} \ {None})
      BY <2>1, <2>4, ShownGrows
    <3> QED
      BY <1>1, <2>2, <3>1, <3>2 DEF HistoryOK, Alive
  <2> QED
    BY <2>3, <2>4
<1>7. CASE TuiWorldStep
  <2>1. Shown' = Shown
    BY <1>1, <1>7, TuiWorldKeeps DEF Shown, gathered
  <2> QED
    BY <1>1, <1>7, <2>1, TuiWorldKeeps DEF HistoryOK
<1> QED
  BY <1>2, <1>3, <1>4, <1>5, <1>6, <1>7, TuiNextIs

-----------------------------------------------------------------------------
LEMMA StepNoneLost == TuiInv /\ [TuiNext]_tuiVars => NoneLost'
<1> SUFFICES ASSUME TuiInv, [TuiNext]_tuiVars PROVE NoneLost'
  OBVIOUS
<1>1. TuiTypeOK /\ TodoOK /\ HistoryOK /\ NoneLost
  BY DEF TuiInv
<1>2. CASE Aside
  BY <1>2, AsideKeeps DEF NoneLost, Gathering
<1>3. CASE Gather
  BY <1>3 DEF Gather, NoneLost
<1>4. CASE ListWindows \/ ScanFails
  BY <1>4 DEF ListWindows, ScanFails, LocalFails, NoneLost, AfterLocal
<1>5. CASE FindAgent
  BY <1>5 DEF FindAgent, NoneLost
<1>6. CASE ListProcesses
  BY <1>1, <1>6 DEF ListProcesses, NoneLost, HistoryOK, Shown, gathered
<1>7. CASE Scan
  <2>1. PICK p \in todo :
          /\ todo' = todo \ {p}
          /\ rows' = IF where[p] = Gone THEN rows ELSE rows \union {[pid |-> p, window |-> None]}
    BY <1>7 DEF Scan
  <2>2. stage = "scan" /\ UNCHANGED <<stage, steady>> /\ p \in Agents
    BY <1>1, <1>7, <2>1 DEF Scan, TodoOK
  <2>3. CASE where[p] = Gone
    BY <1>1, <2>1, <2>2, <2>3 DEF NoneLost, HistoryOK, Alive, Shown
  <2>4. CASE where[p] # Gone
    <3>1. Shown' = Shown \union {p}
      BY <2>1, <2>2, <2>4, ShownGrows, MonitorAssumption DEF MonitorAssumption
    <3> QED
      BY <1>1, <2>1, <2>2, <3>1 DEF NoneLost
  <2> QED
    BY <2>3, <2>4
<1>8. CASE Scanned
  BY <1>1, <1>8 DEF Scanned, NoneLost, AfterLocal, Shown, gathered
<1>9. CASE FetchCcx
  BY <1>1, <1>9 DEF FetchCcx, NoneLost, Shown
<1>10. CASE TuiWorldStep
  <2>1. Shown' = Shown
    BY <1>1, <1>10, TuiWorldKeeps DEF Shown, gathered
  <2> QED
    BY <1>1, <1>10, <2>1, TuiWorldKeeps DEF NoneLost, gathered
<1> QED
  BY <1>2, <1>3, <1>4, <1>5, <1>6, <1>7, <1>8, <1>9, <1>10, TuiNextIs

LEMMA StepRows == TuiInv /\ [TuiNext]_tuiVars => RowsOK' /\ EachOnce'
<1> SUFFICES ASSUME TuiInv, [TuiNext]_tuiVars PROVE RowsOK' /\ EachOnce'
  OBVIOUS
<1> USE DEF RowsOK, EachOnce
<1>1. TuiTypeOK /\ TodoOK /\ HistoryOK /\ RowsOK /\ EachOnce
  BY DEF TuiInv
<1>2. CASE Aside
  BY <1>1, <1>2, AsideKeeps DEF world, gathered, Gathering
<1>3. CASE Gather
  BY <1>3 DEF Gather
<1>4. CASE ListWindows \/ ListProcesses \/ ScanFails \/ Scanned \/ FetchCcx
  BY <1>1, <1>4 DEF ListWindows, ListProcesses, ScanFails, LocalFails, Scanned, FetchCcx,
       AfterLocal, world, gathered
<1>5. CASE FindAgent
  <2>1. PICK w \in todo, p \in Agents \union {None} :
          /\ p # None => where[p] = w
          /\ rows' = rows \union {[pid |-> p, window |-> w]}
    BY <1>5 DEF FindAgent
  <2>2. /\ stage = "agents" /\ w # None
        /\ UNCHANGED <<where, stage, steady>>
    BY <1>1, <1>5, <2>1, MonitorAssumption DEF MonitorAssumption, FindAgent, TodoOK, world
  <2>3. \A row \in rows : row \in Rows
    BY <1>1 DEF TuiTypeOK
  <2>4. p \in steady => p # None
    BY <1>1, MonitorAssumption DEF MonitorAssumption, TuiTypeOK
  <2>5. \A row \in rows : row.pid = p /\ p \in steady => row.window = w
    BY <1>1, <2>1, <2>2, <2>4
  <2>6. \A row \in rows : row.pid = p /\ p \in steady => row = [pid |-> p, window |-> w]
    BY <2>3, <2>5 DEF Rows
  <2> QED
    BY <1>1, <2>1, <2>2, <2>4, <2>6
<1>6. CASE Scan
  <2>1. PICK p \in todo :
          rows' = rows \/ rows' = rows \union {[pid |-> p, window |-> None]}
    BY <1>6 DEF Scan
  <2>2. /\ stage = "scan" /\ p \notin Shown /\ p \in Agents
        /\ UNCHANGED <<where, stage, steady>>
    BY <1>1, <1>6, <2>1 DEF Scan, TodoOK, world
  <2>3. \A row \in rows : row.pid # p
    BY <2>2, MonitorAssumption DEF MonitorAssumption, Shown
  <2> QED
    BY <1>1, <2>1, <2>2, <2>3
<1>7. CASE TuiWorldStep
  BY <1>1, <1>7, TuiWorldKeeps DEF gathered
<1> QED
  BY <1>2, <1>3, <1>4, <1>5, <1>6, <1>7, TuiNextIs

LEMMA StepModeOK == TuiInv /\ [TuiNext]_tuiVars => ModeOK'
<1> SUFFICES ASSUME TuiInv, [TuiNext]_tuiVars PROVE ModeOK'
  OBVIOUS
<1> USE DEF ModeOK
<1>1. TuiTypeOK /\ ModeOK
  BY DEF TuiInv
<1>2. CASE Begin \/ Guard \/ Draw \/ TuiInterrupt
  BY <1>1, <1>2 DEF Begin, Guard, Draw, TuiInterrupt, Quits
<1>3. CASE Key \/ NoKey \/ Restore \/ Signal
  BY <1>1, <1>3 DEF Key, NoKey, Restore, Signal, Obeys
<1>4. CASE Cbreak
  BY <1>1, <1>4 DEF Cbreak
<1>5. CASE \/ Gather \/ ListWindows \/ FindAgent \/ ListProcesses
          \/ Scan \/ ScanFails \/ Scanned \/ FetchCcx
  BY <1>1, <1>5 DEF Gather, ListWindows, FindAgent, ListProcesses,
       Scan, ScanFails, LocalFails, Scanned, FetchCcx, AfterLocal
<1>6. CASE TuiWorldStep
  BY <1>1, <1>6 DEF TuiWorldStep, AgentStarts, AgentEnds, WindowOpens,
       WindowCloses,
       NetworkChanges, Types, tuiVars
<1> QED
  BY <1>2, <1>3, <1>4, <1>5, <1>6, TuiNextIs DEF Aside

-----------------------------------------------------------------------------
LEMMA TuiInitInv == TuiInit => TuiInv
<1> SUFFICES ASSUME TuiInit PROVE TuiInv
  OBVIOUS
<1> USE MonitorAssumption DEF MonitorAssumption, TuiInit
<1>1. TuiTypeOK
  BY DEF TuiTypeOK, TuiPlaces, Sources
<1>2. TodoOK /\ HistoryOK /\ NoneLost /\ RowsOK /\ EachOnce /\ ModeOK
  BY DEF TodoOK, HistoryOK, NoneLost, RowsOK, EachOnce, ModeOK, Shown, Gathering
<1> QED
  BY <1>1, <1>2 DEF TuiInv

LEMMA TuiNextInv == TuiInv /\ [TuiNext]_tuiVars => TuiInv'
BY StepTuiTypeOK, StepTodoOK, StepHistoryOK, StepNoneLost, StepRows, StepModeOK DEF TuiInv

LEMMA TuiInductive == TuiSpec => []TuiInv
<1>1. TuiInit => TuiInv
  BY TuiInitInv
<1>2. TuiInv /\ [TuiNext]_tuiVars => TuiInv'
  BY TuiNextInv
<1> QED
  BY <1>1, <1>2, PTL DEF TuiSpec

(* The monitor's variables keep their types; with them, that an agent's     *)
(* place is a window that is open, and that no key is made up.              *)
THEOREM MonitorTypeOK == TuiSpec => []TuiTypeOK
<1>1. TuiInv => TuiTypeOK
  BY DEF TuiInv
<1>2. TuiSpec => []TuiInv
  BY TuiInductive
<1> QED
  BY <1>1, <1>2, PTL

(* A frame shows every agent that lived while it was gathered and none that *)
(* did not live then, whatever started, ended or closed meanwhile.          *)
THEOREM MonitorFrameTrue == TuiSpec => []FrameTrue
<1>1. TuiInv => FrameTrue
  BY DEF TuiInv, NoneLost, HistoryOK, FrameTrue, HasLocal
<1>2. TuiSpec => []TuiInv
  BY TuiInductive
<1> QED
  BY <1>1, <1>2, PTL

(* No agent that lived while the frame was gathered is in it twice.         *)
THEOREM MonitorEachOnce == TuiSpec => []EachOnce
<1>1. TuiInv => EachOnce
  BY DEF TuiInv
<1>2. TuiSpec => []TuiInv
  BY TuiInductive
<1> QED
  BY <1>1, <1>2, PTL

(* However the monitor ends, the terminal has its mode back.                *)
THEOREM MonitorRestored == TuiSpec => []Restored
<1>1. TuiInv => Restored
  BY DEF TuiInv, ModeOK, Restored, TuiTypeOK
<1>2. TuiSpec => []TuiInv
  BY TuiInductive
<1> QED
  BY <1>1, <1>2, PTL
=============================================================================
