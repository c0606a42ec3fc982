---------------------------- MODULE IngestProofs ----------------------------
(* Safety of Ingest, for any transcripts, directories, kinds of lines,      *)
(* queue size and number of crashes.                                        *)
EXTENDS Ingest, SequenceTheorems, WellFoundedInduction, TLAPS

(* The tailer's offset is at the end of a line. *)
Even == \A f \in Files : \E n \in Nat : offset[f] = 2 * n

(* While the daemon does not watch, nothing tells it of a write, and every *)
(* transcript that has been written to is late.                            *)
Unwatched == daemon # "up" =>
  /\ watched = {} /\ queue = <<>> /\ batch = <<>>
  /\ \A f \in Files : size[f] = 0 \/ f \in late

(* The session is at a turn whose line is complete, or at none. *)
LatestOK == \A f \in Files : latest[f] \in {0} \cup TurnsTo(f, Complete(f))

IInv == TypeOK /\ Even /\ MergedExactly /\ Unwatched /\ OnlyDelayed /\ LatestOK

-----------------------------------------------------------------------------
(* A bounded set of naturals has a largest element: `<` is well-founded on *)
(* the distances to the bound.                                             *)
LEMMA BelowIsWellFounded ==
  IsWellFoundedOn({p \in Nat \X Nat : p[1] < p[2]}, Nat)
BY NatLessThanWellFounded DEF OpToRel

LEMMA LargestIs ==
  ASSUME NEW n \in Nat, NEW S \in SUBSET (0 .. n), S # {}
  PROVE  Largest(S) \in S /\ \A m \in S : m <= Largest(S)
<1> DEFINE R == {p \in Nat \X Nat : p[1] < p[2]}
           T == {n - i : i \in S}
<1>1. T \subseteq Nat /\ T # {}
  <2>1. \A i \in S : n - i \in Nat
    OBVIOUS
  <2>2. PICK i \in S : TRUE
    OBVIOUS
  <2>3. n - i \in T
    OBVIOUS
  <2> QED
    BY <2>1, <2>3
<1>2. \E x \in T : \A y \in T : ~ (<<y, x>> \in R)
  <2> HIDE DEF R, T
  <2> QED
    BY <1>1, BelowIsWellFounded, WFMin DEF R
<1>3. PICK x \in T : \A y \in T : ~ (y < x)
  <2>1. \A x, y \in T : <<y, x>> \in R <=> y < x
    BY <1>1
  <2> HIDE DEF R, T
  <2> QED
    BY <1>2, <2>1
<1>4. PICK i \in S : x = n - i
  OBVIOUS
<1>5. \A m \in S : m <= i
  <2> SUFFICES ASSUME NEW m \in S PROVE m <= i
    OBVIOUS
  <2>1. n - m \in T
    OBVIOUS
  <2>2. ~ (n - m < n - i)
    BY <1>3, <1>4, <2>1
  <2> QED
    BY <2>2
<1> QED
  BY <1>5 DEF Largest

(* What is before an offset, and what a read adds to it. *)
LEMMA CompleteIs ==
  ASSUME TypeOK, NEW f \in Files
  PROVE  /\ Complete(f) \in 0 .. Len(lines[f])
         /\ 2 * Complete(f) <= size[f] /\ size[f] <= 2 * Complete(f) + 1
         /\ Len(lines[f]) \in Nat /\ size[f] \in Nat /\ offset[f] \in Nat
         /\ \A i \in 1 .. Len(lines[f]) : lines[f][i] \in AllKinds
<1>1. lines[f] \in Seq(AllKinds) /\ size[f] \in Nat /\ offset[f] \in Nat
      /\ size[f] \in {2 * Len(lines[f]), 2 * Len(lines[f]) - 1}
  BY DEF TypeOK
<1>2. Len(lines[f]) \in Nat /\ \A i \in 1 .. Len(lines[f]) : lines[f][i] \in AllKinds
  BY <1>1, LenProperties, ElementOfSeq
<1> QED
  BY <1>1, <1>2 DEF Complete

LEMMA NewLinesAre ==
  ASSUME TypeOK, Even, NEW f \in Files
  PROVE  \A i \in Nat : i \in NewLines(f) <=> (offset[f] < 2 * i /\ i <= Complete(f))
<1>1. PICK n \in Nat : offset[f] = 2 * n
  BY DEF Even
<1> QED
  BY <1>1, CompleteIs DEF NewLines, ReadTo

LEMMA MergeableAre ==
  ASSUME TypeOK, Even, NEW f \in Files
  PROVE  /\ Mergeable(f) \subseteq TurnsTo(f, Complete(f))
         /\ Mergeable(f) \in SUBSET (0 .. Complete(f))
         /\ \A i \in Mergeable(f) : offset[f] < 2 * i
<1>1. \A i \in NewLines(f) : i \in 1 .. Complete(f) /\ offset[f] < 2 * i
  <2>1. NewLines(f) \subseteq Nat
    BY CompleteIs DEF NewLines
  <2>2. \A i \in NewLines(f) : i >= 1
    BY DEF NewLines
  <2> QED
    BY <2>1, <2>2, NewLinesAre, CompleteIs
<1> QED
  BY <1>1 DEF Mergeable, NewOf, TurnsTo

LEMMA NewestIs ==
  ASSUME TypeOK, NEW f \in Files
  PROVE  /\ Newest(f) \in {0} \cup TurnsTo(f, Complete(f))
         /\ \A i \in TurnsTo(f, Complete(f)) : i <= Newest(f)
<1>1. TurnsTo(f, Complete(f)) \in SUBSET (0 .. Complete(f)) /\ Complete(f) \in Nat
  BY CompleteIs DEF TurnsTo
<1>2. CASE TurnsTo(f, Complete(f)) = {}
  BY <1>2 DEF Newest
<1>3. CASE TurnsTo(f, Complete(f)) # {}
  BY <1>1, <1>3, LargestIs DEF Newest
<1> QED
  BY <1>2, <1>3

-----------------------------------------------------------------------------
(* Events and queues of them. *)
LEMMA EventsDiffer ==
  /\ \A f \in Files : Modify(f) \in Events /\ Modify(f) # Overflow
                      /\ Modify(f).event = "modify" /\ Modify(f).of = f
  /\ \A d \in Dirs : Mkdir(d) \in Events /\ Mkdir(d).event = "mkdir"
                     /\ \A f \in Files : Mkdir(d) # Modify(f)
  /\ Overflow \in Events /\ Overflow.event = "overflow"
  /\ \A e \in Events : e.event = "modify" => e.of \in Files /\ e = Modify(e.of)
<1>1. \A f \in Files : Modify(f) \in Events /\ Modify(f) # Overflow
                      /\ Modify(f).event = "modify" /\ Modify(f).of = f
  BY DEF Events, Modify, Overflow
<1>2. \A d \in Dirs : Mkdir(d) \in Events /\ Mkdir(d).event = "mkdir"
                     /\ \A f \in Files : Mkdir(d) # Modify(f)
  BY DEF Events, Modify, Mkdir
<1>3. Overflow \in Events /\ Overflow.event = "overflow"
  BY DEF Events, Overflow
<1>4. \A e \in Events : e.event = "modify" => e.of \in Files /\ e = Modify(e.of)
  BY <1>1, <1>2, <1>3 DEF Events
<1> QED
  BY <1>1, <1>2, <1>3, <1>4

(* What is queued stays queued. *)
LEMMA QueuedKeeps ==
  ASSUME queue \in Seq(Events), NEW e \in Events
  PROVE  /\ Queued(e) \in Seq(Events)
         /\ \A x : In(x, queue) => In(x, Queued(e))
<1> DEFINE q == queue
<1>1. \A x \in Events : Append(q, x) \in Seq(Events) /\ Len(Append(q, x)) = Len(q) + 1
                       /\ \A i \in 1 .. Len(q) : Append(q, x)[i] = q[i]
  BY AppendProperties
<1>2. Len(q) \in Nat
  BY LenProperties
<1>3. Queued(e) \in {q, Append(q, Overflow), Append(q, e)}
  BY DEF Queued
<1>4. Overflow \in Events
  BY EventsDiffer
<1>5. \A x \in Events : \A y : In(y, q) => In(y, Append(q, x))
  BY <1>1, <1>2 DEF In
<1> QED
  BY <1>1, <1>3, <1>4, <1>5

(* Of a queue that is not empty, an element is the first or in the rest. *)
LEMMA HeadOrTail ==
  ASSUME NEW q \in Seq(Events), q # <<>>, NEW x, In(x, q)
  PROVE  Tail(q) \in Seq(Events) /\ Head(q) \in Events /\ (x = Head(q) \/ In(x, Tail(q)))
<1>1. /\ Head(q) \in Events /\ Head(q) = q[1]
      /\ Tail(q) \in Seq(Events) /\ Len(Tail(q)) = Len(q) - 1
      /\ \A i \in 1 .. Len(Tail(q)) : Tail(q)[i] = q[i + 1]
  BY HeadTailProperties
<1>2. PICK i \in 1 .. Len(q) : q[i] = x
  BY DEF In
<1>3. CASE i = 1
  BY <1>1, <1>2, <1>3
<1>4. CASE i # 1
  <2>1. i - 1 \in 1 .. Len(Tail(q)) /\ Tail(q)[i - 1] = x
    BY <1>1, <1>2, <1>4, LenProperties
  <2> QED
    BY <1>1, <2>1 DEF In
<1> QED
  BY <1>3, <1>4

LEMMA TailTyped ==
  ASSUME NEW q \in Seq(Events), q # <<>>
  PROVE  Tail(q) \in Seq(Events) /\ Head(q) \in Events
BY HeadTailProperties

(* Nothing is in an empty queue. *)
LEMMA EmptyQueue == \A x : ~In(x, <<>>)
BY DEF In

-----------------------------------------------------------------------------
(* TypeOK, part by part. *)
FilesOK ==
  /\ lines \in [Files -> Seq(AllKinds)] /\ size \in [Files -> Nat]
  /\ \A f \in Files : size[f] \in {2 * Len(lines[f]), 2 * Len(lines[f]) - 1}
QueuesOK == queue \in Seq(Events) /\ batch \in Seq(Events)
TailersOK ==
  /\ offset \in [Files -> Nat] /\ \A f \in Files : offset[f] <= size[f]
  /\ merged \in [Files -> SUBSET Nat] /\ latest \in [Files -> Nat]
RestOK ==
  /\ dirs \in SUBSET Dirs /\ watched \in SUBSET dirs
  /\ daemon \in {"down", "found", "up"}
  /\ late \in SUBSET Files /\ crashes \in 0 .. MaxCrashes

LEMMA TypeParts == TypeOK <=> FilesOK /\ QueuesOK /\ TailersOK /\ RestOK
BY DEF TypeOK, FilesOK, QueuesOK, TailersOK, RestOK

LEMMA InitInv == Init => IInv
<1> SUFFICES ASSUME Init PROVE IInv
  OBVIOUS
<1> USE IngestAssumption DEF Init
<1>1. <<>> \in Seq(AllKinds) /\ <<>> \in Seq(Events) /\ Len(<<>>) = 0
  OBVIOUS
<1>2. FilesOK
  BY <1>1 DEF FilesOK
<1>3. QueuesOK /\ TailersOK /\ RestOK
  BY <1>1 DEF QueuesOK, TailersOK, RestOK
<1>4. TypeOK
  BY <1>2, <1>3, TypeParts
<1>5. Even
  BY DEF Even
<1>6. MergedExactly
  BY <1>1 DEF MergedExactly, TurnsTo
<1>7. Unwatched /\ OnlyDelayed /\ LatestOK
  BY DEF Unwatched, OnlyDelayed, LatestOK
<1> QED
  BY <1>4, <1>5, <1>6, <1>7 DEF IInv

(* A write adds the first half of a line, or the second. *)
LEMMA WriteKeeps ==
  ASSUME IInv, NEW f \in Files, NEW kind \in Kinds[f], WriteHalf(f, kind)
  PROVE  /\ FilesOK'
         /\ \A g \in Files : g # f => lines'[g] = lines[g] /\ size'[g] = size[g]
         /\ size'[f] = size[f] + 1 /\ Complete(f)' \in {Complete(f), Complete(f) + 1}
         /\ Len(lines[f]) <= Len(lines'[f])
         /\ \A i \in 1 .. Len(lines[f]) : lines'[f][i] = lines[f][i]
         /\ \A i \in 1 .. Len(lines'[f]) : i > Len(lines[f]) => 2 * i > size[f]
<1>1. FilesOK /\ kind \in AllKinds
  BY IngestAssumption, TypeParts DEF IInv
<1>2. lines[f] \in Seq(AllKinds) /\ Len(lines[f]) \in Nat /\ size[f] \in Nat
  BY <1>1, LenProperties DEF FilesOK
<1>3. size' = [size EXCEPT ![f] = @ + 1]
  BY DEF WriteHalf
<1>4. /\ size' \in [Files -> Nat] /\ size'[f] = size[f] + 1
      /\ \A g \in Files : g # f => size'[g] = size[g]
  BY <1>1, <1>2, <1>3 DEF FilesOK
<1>5. Complete(f)' \in {Complete(f), Complete(f) + 1}
  <2>1. Complete(f)' = (size[f] + 1) \div 2
    BY <1>4 DEF Complete
  <2> QED
    BY <1>2, <2>1 DEF Complete
<1> DEFINE Kept ==
      /\ lines' \in [Files -> Seq(AllKinds)]
      /\ \A g \in Files : g # f => lines'[g] = lines[g]
      /\ size'[f] \in {2 * Len(lines'[f]), 2 * Len(lines'[f]) - 1}
      /\ Len(lines[f]) <= Len(lines'[f])
      /\ \A i \in 1 .. Len(lines[f]) : lines'[f][i] = lines[f][i]
      /\ \A i \in 1 .. Len(lines'[f]) : i > Len(lines[f]) => 2 * i > size[f]
<1>6. ASSUME size[f] = 2 * Len(lines[f]), lines' = [lines EXCEPT ![f] = Append(@, kind)]
      PROVE  Kept
  <2>1. /\ Append(lines[f], kind) \in Seq(AllKinds)
        /\ Len(Append(lines[f], kind)) = Len(lines[f]) + 1
        /\ \A i \in 1 .. Len(lines[f]) : Append(lines[f], kind)[i] = lines[f][i]
    BY <1>1, <1>2, AppendProperties
  <2>2. /\ lines'[f] = Append(lines[f], kind) /\ lines' \in [Files -> Seq(AllKinds)]
        /\ \A g \in Files : g # f => lines'[g] = lines[g]
    BY <1>1, <1>6, <2>1 DEF FilesOK
  <2>3. size'[f] = 2 * Len(lines'[f]) - 1
    BY <1>2, <1>4, <1>6, <2>1, <2>2
  <2>4. \A i \in 1 .. Len(lines'[f]) : i > Len(lines[f]) => 2 * i > size[f]
    BY <1>2, <1>6
  <2> QED
    BY <1>2, <2>1, <2>2, <2>3, <2>4
<1>7. ASSUME size[f] < 2 * Len(lines[f]), UNCHANGED lines
      PROVE  Kept
  <2>1. size[f] = 2 * Len(lines[f]) - 1
    BY <1>1, <1>2, <1>7 DEF FilesOK
  <2>2. size'[f] = 2 * Len(lines'[f])
    BY <1>2, <1>4, <1>7, <2>1
  <2> QED
    BY <1>1, <1>2, <1>7, <2>2 DEF FilesOK
<1>8. Kept
  BY <1>6, <1>7 DEF WriteHalf
<1>9. FilesOK'
  <2> SUFFICES ASSUME NEW g \in Files
               PROVE  size'[g] \in {2 * Len(lines'[g]), 2 * Len(lines'[g]) - 1}
    BY <1>4, <1>8 DEF FilesOK
  <2>1. CASE g = f
    BY <1>8, <2>1
  <2>2. CASE g # f
    BY <1>1, <1>4, <1>8, <2>2 DEF FilesOK
  <2> QED
    BY <2>1, <2>2
<1> QED
  BY <1>4, <1>5, <1>8, <1>9

LEMMA StepFilesOK == IInv /\ [Next]_vars => FilesOK'
<1> SUFFICES ASSUME IInv, [Next]_vars PROVE FilesOK'
  OBVIOUS
<1>1. FilesOK
  BY TypeParts DEF IInv
<1>2. CASE UNCHANGED fileVars
  BY <1>1, <1>2 DEF FilesOK, fileVars
<1>3. ASSUME NEW f \in Files, NEW kind \in Kinds[f], WriteHalf(f, kind) PROVE FilesOK'
  BY <1>3, WriteKeeps
<1>4. ASSUME NEW d \in Dirs, NewDir(d) PROVE FilesOK'
  BY <1>1, <1>4 DEF FilesOK, NewDir
<1> QED
  BY <1>2, <1>3, <1>4
     DEF Next, vars, Discover, ReadEvents, StartWatching, HandleEvent, Crash

LEMMA StepQueuesOK == IInv /\ [Next]_vars => QueuesOK'
<1> SUFFICES ASSUME IInv, [Next]_vars PROVE QueuesOK'
  OBVIOUS
<1>1. QueuesOK /\ <<>> \in Seq(Events)
  BY TypeParts DEF IInv
<1> USE DEF QueuesOK
<1>2. ASSUME NEW f \in Files, NEW kind \in Kinds[f], WriteHalf(f, kind) PROVE QueuesOK'
  BY <1>1, <1>2, QueuedKeeps, EventsDiffer DEF WriteHalf, Notify
<1>3. ASSUME NEW d \in Dirs, NewDir(d) PROVE QueuesOK'
  BY <1>1, <1>3, QueuedKeeps, EventsDiffer DEF NewDir
<1>4. ASSUME NEW live \in SUBSET Files, Discover(live) PROVE QueuesOK'
  BY <1>1, <1>4 DEF Discover
<1>5. ASSUME NEW live \in SUBSET Files, ReadEvents(live) PROVE QueuesOK'
  BY <1>1, <1>5 DEF ReadEvents, ToHandle
<1>6. CASE StartWatching
  BY <1>1, <1>6 DEF StartWatching
<1>7. CASE HandleEvent
  BY <1>1, <1>7, TailTyped DEF HandleEvent, Apply, ApplyRaises, Lose
<1>8. CASE Crash
  BY <1>1, <1>8 DEF Crash
<1>9. CASE UNCHANGED vars
  BY <1>1, <1>9 DEF vars
<1> QED
  BY <1>2, <1>3, <1>4, <1>5, <1>6, <1>7, <1>8, <1>9 DEF Next

LEMMA StepTailersOK == IInv /\ [Next]_vars => TailersOK'
<1> SUFFICES ASSUME IInv, [Next]_vars PROVE TailersOK'
  OBVIOUS
<1>1. TypeOK /\ Even /\ FilesOK /\ QueuesOK /\ TailersOK
  BY TypeParts DEF IInv
<1> USE DEF TailersOK
<1>2. ASSUME UNCHANGED <<offset, merged, latest, size>> PROVE TailersOK'
  BY <1>1, <1>2
<1>3. ASSUME NEW f \in Files, NEW kind \in Kinds[f], WriteHalf(f, kind) PROVE TailersOK'
  <2>0. /\ size \in [Files -> Nat] /\ size'[f] = size[f] + 1
        /\ \A g \in Files : g # f => size'[g] = size[g]
    BY <1>1, <1>3, WriteKeeps DEF FilesOK
  <2>1. \A g \in Files : size[g] \in Nat /\ size'[g] \in Nat /\ size[g] <= size'[g]
    BY <2>0
  <2>2. UNCHANGED <<offset, merged, latest>>
    BY <1>3 DEF WriteHalf, sessionVars
  <2>3. \A g \in Files : offset[g] \in Nat /\ offset[g] <= size[g]
    BY <1>1
  <2>4. \A g \in Files : offset'[g] <= size'[g]
    BY <2>1, <2>2, <2>3
  <2> QED
    BY <1>1, <2>2, <2>4
<1>4. ASSUME NEW live \in SUBSET Files, Reseed(live), UNCHANGED <<offset, merged, size>>
      PROVE  TailersOK'
  <2>1. \A f \in Files : Newest(f) \in Nat
    BY <1>1, NewestIs DEF TurnsTo
  <2> QED
    BY <1>1, <1>4, <2>1 DEF Reseed
<1>5. ASSUME NEW f \in Files, Apply(f), UNCHANGED size PROVE TailersOK'
  <2>1. ReadTo(f) \in Nat /\ ReadTo(f) <= size[f]
    BY <1>1, CompleteIs DEF ReadTo
  <2>2. Complete(f) \in Nat /\ Mergeable(f) \in SUBSET (0 .. Complete(f))
    BY <1>1, MergeableAre, CompleteIs
  <2>3. ASSUME Mergeable(f) # {} PROVE Largest(Mergeable(f)) \in Nat
    <3>1. Largest(Mergeable(f)) \in Mergeable(f)
      BY <2>2, <2>3, LargestIs
    <3> QED
      BY <2>2, <3>1
  <2>4. offset' \in [Files -> Nat] /\ \A g \in Files : offset'[g] <= size'[g]
    BY <1>1, <1>5, <2>1 DEF Apply
  <2>5. merged' \in [Files -> SUBSET Nat]
    BY <1>1, <1>5, <2>2 DEF Apply
  <2>6. latest' \in [Files -> Nat]
    BY <1>1, <1>5, <2>3 DEF Apply
  <2> QED
    BY <2>4, <2>5, <2>6
<1>6. CASE HandleEvent
  <2>1. Head(batch) \in Events
    BY <1>1, <1>6, TailTyped DEF HandleEvent, QueuesOK
  <2> QED
    BY <1>2, <1>5, <1>6, <2>1, EventsDiffer
       DEF HandleEvent, ApplyRaises, sessionVars, fileVars
<1>7. CASE Crash
  <2>1. \A f \in Files : \A i \in Mergeable(f) : i \in Nat
    BY <1>1, MergeableAre, CompleteIs
  <2>2. latest' \in [Files -> Nat]
    BY <1>1, <1>7, <2>1 DEF Crash
  <2> QED
    BY <1>1, <1>7, <2>2 DEF Crash, fileVars, FilesOK
<1> QED
  BY <1>2, <1>3, <1>4, <1>6, <1>7
     DEF Next, vars, fileVars, sessionVars, NewDir, Discover, ReadEvents, StartWatching

LEMMA StepRestOK == IInv /\ [Next]_vars => RestOK'
<1> SUFFICES ASSUME IInv, [Next]_vars PROVE RestOK'
  OBVIOUS
<1>1. RestOK /\ QueuesOK
  BY TypeParts DEF IInv
<1> USE IngestAssumption DEF RestOK
<1>2. ASSUME NEW f \in Files, NEW kind \in Kinds[f], WriteHalf(f, kind) PROVE RestOK'
  BY <1>1, <1>2 DEF WriteHalf, Notify
<1>3. ASSUME NEW d \in Dirs, NewDir(d) PROVE RestOK'
  BY <1>1, <1>3 DEF NewDir
<1>4. ASSUME NEW live \in SUBSET Files, Discover(live) PROVE RestOK'
  BY <1>1, <1>4 DEF Discover, fileVars
<1>5. ASSUME NEW live \in SUBSET Files, ReadEvents(live) PROVE RestOK'
  BY <1>1, <1>5 DEF ReadEvents, fileVars, NewlyWatched
<1>6. CASE StartWatching
  BY <1>1, <1>6 DEF StartWatching, fileVars
<1>7. CASE HandleEvent
  BY <1>1, <1>7 DEF HandleEvent, fileVars, Apply, ApplyRaises, Lose
<1>8. CASE Crash
  BY <1>1, <1>8 DEF Crash, fileVars
<1>9. CASE UNCHANGED vars
  BY <1>1, <1>9 DEF vars, fileVars
<1> QED
  BY <1>2, <1>3, <1>4, <1>5, <1>6, <1>7, <1>8, <1>9 DEF Next

LEMMA StepTypeOK == IInv /\ [Next]_vars => TypeOK'
<1>1. TypeOK' <=> FilesOK' /\ QueuesOK' /\ TailersOK' /\ RestOK'
  BY TypeParts, PTL
<1> QED
  BY <1>1, StepFilesOK, StepQueuesOK, StepTailersOK, StepRestOK

-----------------------------------------------------------------------------
(* What a write changes for the transcripts: complete lines stay as they    *)
(* are, and what a write adds is after every offset.                        *)
LEMMA WriteAppends ==
  ASSUME IInv, NEW f \in Files, NEW kind \in Kinds[f], WriteHalf(f, kind), NEW g \in Files
  PROVE  /\ TurnsTo(g, Complete(g)) \subseteq TurnsTo(g, Complete(g))'
         /\ Unreadable(g) => Unreadable(g)'
         /\ \A i \in Nat : 2 * i <= offset[g] =>
              (i \in TurnsTo(g, Len(lines[g])) <=> i \in TurnsTo(g, Len(lines[g]))')
<1>1. TypeOK /\ offset[g] <= size[g]
  BY DEF IInv, TypeOK
<1>2. CASE g = f
  <2>1. /\ Complete(f) \in 0 .. Len(lines[f]) /\ Len(lines[f]) \in Nat
        /\ size[f] \in Nat /\ offset[f] \in Nat
    BY <1>1, CompleteIs
  <2>2. /\ Complete(f)' \in {Complete(f), Complete(f) + 1} /\ Len(lines'[f]) \in Nat
        /\ Len(lines[f]) <= Len(lines'[f])
        /\ \A i \in 1 .. Len(lines[f]) : lines'[f][i] = lines[f][i]
        /\ \A i \in 1 .. Len(lines'[f]) : i > Len(lines[f]) => 2 * i > size[f]
    BY WriteKeeps, LenProperties DEF FilesOK
  <2>3. \A i \in 1 .. Complete(f) : i \in 1 .. Complete(f)' /\ lines'[f][i] = lines[f][i]
    BY <2>1, <2>2
  <2>4. \A i \in Nat : 2 * i <= offset[f] =>
          (i \in 1 .. Len(lines[f]) <=> i \in 1 .. Len(lines'[f]))
    BY <1>1, <1>2, <2>1, <2>2
  <2> QED
    BY <1>2, <2>2, <2>3, <2>4 DEF TurnsTo, Unreadable
<1>3. CASE g # f
  <2>1. lines'[g] = lines[g] /\ size'[g] = size[g]
    BY <1>3, WriteKeeps
  <2> QED
    BY <2>1 DEF TurnsTo, Unreadable, Complete
<1> QED
  BY <1>2, <1>3

(* A transcript that is neither written to nor read is as it was. *)
LEMMA Untouched ==
  ASSUME NEW f \in Files, lines'[f] = lines[f], size'[f] = size[f], offset'[f] = offset[f]
  PROVE  /\ Complete(f)' = Complete(f) /\ Stuck(f)' = Stuck(f)
         /\ Unreadable(f)' = Unreadable(f) /\ (offset[f] < 2 * Complete(f))' = (offset[f] < 2 * Complete(f))
BY DEF Complete, Stuck, NewOf, NewLines, ReadTo, Unreadable

LEMMA StepEven == IInv /\ [Next]_vars => Even'
<1> SUFFICES ASSUME IInv, [Next]_vars PROVE Even'
  OBVIOUS
<1>1. Even /\ TypeOK /\ QueuesOK
  BY TypeParts DEF IInv
<1>2. CASE UNCHANGED offset
  BY <1>1, <1>2 DEF Even
<1>3. ASSUME NEW f \in Files, Apply(f) PROVE Even'
  <2>1. Complete(f) \in Nat
    BY <1>1, CompleteIs
  <2>2. \A g \in Files : offset'[g] = IF g = f THEN 2 * Complete(f) ELSE offset[g]
    BY <1>1, <1>3 DEF Apply, ReadTo, TypeOK
  <2> QED
    BY <1>1, <2>1, <2>2 DEF Even
<1>4. CASE HandleEvent
  <2>1. Head(batch) \in Events
    BY <1>1, <1>4, TailTyped DEF HandleEvent, QueuesOK
  <2> QED
    BY <1>2, <1>3, <1>4, <2>1, EventsDiffer DEF HandleEvent, ApplyRaises, sessionVars
<1>5. CASE Crash
  <2>1. \A f \in Files : offset'[f] = 2 * 0
    BY <1>5 DEF Crash
  <2> QED
    BY <2>1 DEF Even
<1> QED
  BY <1>2, <1>4, <1>5
     DEF Next, vars, sessionVars, WriteHalf, NewDir, Discover, StartWatching, ReadEvents

LEMMA StepUnwatched == IInv /\ [Next]_vars => Unwatched'
<1> SUFFICES ASSUME IInv, [Next]_vars PROVE Unwatched'
  OBVIOUS
<1>1. Unwatched /\ TypeOK
  BY DEF IInv
<1> USE DEF Unwatched
<1>2. ASSUME NEW f \in Files, NEW kind \in Kinds[f], WriteHalf(f, kind) PROVE Unwatched'
  <2>1. daemon' = daemon /\ watched' = watched /\ batch' = batch
    BY <1>2 DEF WriteHalf
  <2>2. CASE daemon # "up"
    <3>1. DirOf[f] \notin watched
      BY <1>1, <2>2
    <3>2. queue' = queue /\ late' = late \cup {f}
      BY <1>2, <3>1 DEF WriteHalf, Notify
    <3>3. \A g \in Files : g # f => size'[g] = size[g]
      BY <1>2, WriteKeeps
    <3> QED
      BY <1>1, <2>1, <2>2, <3>2, <3>3
  <2> QED
    BY <2>1, <2>2
<1>3. ASSUME NEW d \in Dirs, NewDir(d) PROVE Unwatched'
  BY <1>1, <1>3 DEF NewDir
<1>4. ASSUME NEW live \in SUBSET Files, Discover(live) PROVE Unwatched'
  BY <1>1, <1>4 DEF Discover, fileVars
<1>5. ASSUME NEW live \in SUBSET Files, ReadEvents(live) PROVE Unwatched'
  BY <1>5 DEF ReadEvents
<1>6. CASE StartWatching
  BY <1>6 DEF StartWatching
<1>7. CASE HandleEvent
  BY <1>7 DEF HandleEvent
<1>8. CASE Crash
  BY <1>8 DEF Crash
<1>9. CASE UNCHANGED vars
  BY <1>1, <1>9 DEF vars, fileVars
<1> QED
  BY <1>2, <1>3, <1>4, <1>5, <1>6, <1>7, <1>8, <1>9 DEF Next

LEMMA StepMergedExactly == IInv /\ [Next]_vars => MergedExactly'
<1> SUFFICES ASSUME IInv, [Next]_vars PROVE MergedExactly'
  OBVIOUS
<1>1. MergedExactly /\ Even /\ TypeOK /\ QueuesOK /\ TailersOK
  BY TypeParts DEF IInv
<1>2. ASSUME UNCHANGED <<lines, size, offset, merged>> PROVE MergedExactly'
  BY <1>1, <1>2 DEF MergedExactly, Unreadable, Complete, TurnsTo
<1>3. ASSUME NEW f \in Files, NEW kind \in Kinds[f], WriteHalf(f, kind) PROVE MergedExactly'
  <2> SUFFICES ASSUME NEW g \in Files, ~Unreadable(g)'
               PROVE  merged'[g] = {i \in TurnsTo(g, Len(lines[g])) : 2 * i <= offset[g]}'
    BY DEF MergedExactly
  <2>1. merged' = merged /\ offset' = offset
    BY <1>3 DEF WriteHalf, sessionVars
  <2>2. merged[g] = {i \in TurnsTo(g, Len(lines[g])) : 2 * i <= offset[g]}
    BY <1>1, <1>3, WriteAppends DEF MergedExactly
  <2>3. \A i \in Nat : 2 * i <= offset[g] =>
              (i \in TurnsTo(g, Len(lines[g])) <=> i \in TurnsTo(g, Len(lines[g]))')
    BY <1>3, WriteAppends
  <2>4. TurnsTo(g, Len(lines[g])) \subseteq Nat /\ TurnsTo(g, Len(lines[g]))' \subseteq Nat
    BY DEF TurnsTo
  <2> QED
    BY <2>1, <2>2, <2>3, <2>4
<1>4. ASSUME NEW f \in Files, Apply(f), UNCHANGED fileVars PROVE MergedExactly'
  <2> SUFFICES ASSUME NEW g \in Files, ~Unreadable(g)'
               PROVE  merged'[g] = {i \in TurnsTo(g, Len(lines[g])) : 2 * i <= offset[g]}'
    BY DEF MergedExactly
  <2>1. lines' = lines /\ size' = size /\ ~Unreadable(g)
    BY <1>4 DEF fileVars, Unreadable, Complete
  <2>2. merged[g] = {i \in TurnsTo(g, Len(lines[g])) : 2 * i <= offset[g]}
    BY <1>1, <2>1 DEF MergedExactly
  <2>3. CASE g # f
    BY <1>1, <1>4, <2>1, <2>2, <2>3 DEF Apply, TailersOK, TurnsTo
  <2>4. CASE g = f
    <3>1. /\ Complete(f) \in 0 .. Len(lines[f]) /\ Len(lines[f]) \in Nat
          /\ offset[f] \in Nat /\ offset[f] <= size[f] /\ size[f] \in Nat
          /\ size[f] <= 2 * Complete(f) + 1
      BY <1>1, CompleteIs DEF TailersOK
    <3>2. \A i \in Nat : i \in NewLines(f) <=> (offset[f] < 2 * i /\ i <= Complete(f))
      BY <1>1, NewLinesAre
    <3>3. NewLines(f) \subseteq 1 .. Complete(f)
      <4>1. NewLines(f) \subseteq 1 .. Len(lines[f])
        BY DEF NewLines
      <4> QED
        BY <3>1, <3>2, <4>1
    <3>4. NewOf(f, "array") = {} /\ Mergeable(f) = NewOf(f, "turn")
      BY <2>1, <2>4, <3>3 DEF Unreadable, NewOf, Mergeable
    <3>5. offset'[f] = 2 * Complete(f) /\ merged'[f] = merged[f] \cup NewOf(f, "turn")
      BY <1>1, <1>4, <3>4 DEF Apply, ReadTo, TailersOK
    <3>6. offset[f] <= 2 * Complete(f)
      <4>1. PICK n \in Nat : offset[f] = 2 * n
        BY <1>1 DEF Even
      <4> QED
        BY <3>1, <4>1
    <3>7. \A i \in 1 .. Len(lines[f]) :
            2 * i <= 2 * Complete(f) <=> (2 * i <= offset[f] \/ i \in NewLines(f))
      BY <3>1, <3>2, <3>6
    <3>8. TurnsTo(f, Len(lines[f])) = {i \in 1 .. Len(lines[f]) : lines[f][i] = "turn"}
      BY DEF TurnsTo
    <3>9. NewOf(f, "turn") = {i \in TurnsTo(f, Len(lines[f])) : i \in NewLines(f)}
      BY <3>8 DEF NewOf, NewLines
    <3>10. merged'[f] = {i \in TurnsTo(f, Len(lines[f])) : 2 * i <= offset'[f]}
      BY <2>2, <2>4, <3>5, <3>7, <3>8, <3>9
    <3> QED
      BY <2>1, <2>4, <3>10 DEF TurnsTo
  <2> QED
    BY <2>3, <2>4
<1>5. CASE HandleEvent
  <2>1. Head(batch) \in Events
    BY <1>1, <1>5, TailTyped DEF HandleEvent, QueuesOK
  <2> QED
    BY <1>2, <1>4, <1>5, <2>1, EventsDiffer
       DEF HandleEvent, ApplyRaises, sessionVars, fileVars
<1>6. CASE Crash
  <2>1. \A f \in Files : offset'[f] = 0 /\ merged'[f] = {}
    BY <1>6 DEF Crash
  <2> QED
    BY <2>1 DEF MergedExactly, TurnsTo
<1> QED
  BY <1>2, <1>3, <1>5, <1>6
     DEF Next, vars, fileVars, sessionVars, NewDir, Discover, ReadEvents, StartWatching

(* A transcript that a step leaves alone stays due to be read, if the step *)
(* keeps what is queued for it.                                            *)
Due(f) == In(Modify(f), queue) \/ In(Modify(f), batch) \/ f \in late

LEMMA StillDue ==
  ASSUME OnlyDelayed, daemon = "up", NEW f \in Files,
         lines'[f] = lines[f], size'[f] = size[f], offset'[f] = offset[f],
         Due(f) => Due(f)', (offset[f] < 2 * Complete(f))', ~Stuck(f)'
  PROVE  Due(f)'
<1>1. offset[f] < 2 * Complete(f) /\ ~Stuck(f)
  BY Untouched
<1> QED
  BY <1>1 DEF OnlyDelayed, Due

LEMMA StepOnlyDelayed == IInv /\ [Next]_vars => OnlyDelayed'
<1> SUFFICES ASSUME IInv, [Next]_vars, NEW g \in Files,
                    daemon' = "up", (offset[g] < 2 * Complete(g))', ~Stuck(g)'
             PROVE  Due(g)'
  BY DEF OnlyDelayed, Due
<1>1. OnlyDelayed /\ Unwatched /\ TypeOK /\ QueuesOK
  BY TypeParts DEF IInv
<1>2. ASSUME NEW f \in Files, NEW kind \in Kinds[f], WriteHalf(f, kind) PROVE Due(g)'
  <2>1. CASE g = f
    BY <1>2, <2>1 DEF WriteHalf, Notify, Due
  <2>2. CASE g # f
    <3>1. /\ lines'[g] = lines[g] /\ size'[g] = size[g] /\ offset'[g] = offset[g]
          /\ daemon = "up" /\ batch' = batch
      BY <1>2, <2>2, WriteKeeps DEF WriteHalf, sessionVars
    <3>2. g \in late => g \in late'
      BY <1>2, <2>2 DEF WriteHalf, Notify
    <3>3. In(Modify(g), queue) => In(Modify(g), queue')
      BY <1>1, <1>2, QueuedKeeps, EventsDiffer DEF WriteHalf, Notify, QueuesOK
    <3>4. Due(g) => Due(g)'
      BY <3>1, <3>2, <3>3 DEF Due
    <3> QED
      BY <1>1, <3>1, <3>4, StillDue
  <2> QED
    BY <2>1, <2>2
<1>3. ASSUME NEW d \in Dirs, NewDir(d) PROVE Due(g)'
  <2>1. /\ lines'[g] = lines[g] /\ size'[g] = size[g] /\ offset'[g] = offset[g]
        /\ daemon = "up" /\ batch' = batch /\ late' = late
    BY <1>3 DEF NewDir, sessionVars
  <2>2. In(Modify(g), queue) => In(Modify(g), queue')
    BY <1>1, <1>3, QueuedKeeps, EventsDiffer DEF NewDir, QueuesOK
  <2>3. Due(g) => Due(g)'
    BY <2>1, <2>2 DEF Due
  <2> QED
    BY <1>1, <2>1, <2>3, StillDue
<1>4. ASSUME NEW live \in SUBSET Files, ReadEvents(live) PROVE Due(g)'
  <2>1. /\ lines'[g] = lines[g] /\ size'[g] = size[g] /\ offset'[g] = offset[g]
        /\ daemon = "up" /\ batch = <<>>
    BY <1>4 DEF ReadEvents, fileVars
  <2>2. Due(g) => Due(g)'
    BY <1>4, <2>1, EmptyQueue DEF ReadEvents, Due, ToHandle
  <2> QED
    BY <1>1, <2>1, <2>2, StillDue
<1>5. CASE StartWatching
  <2>1. /\ Complete(g)' = Complete(g) /\ offset' = offset /\ late' = late
        /\ size[g] = 0 \/ g \in late
    BY <1>1, <1>5 DEF StartWatching, fileVars, sessionVars, Complete, Unwatched
  <2>2. Complete(g) \in Nat /\ 2 * Complete(g) <= size[g] /\ offset[g] \in Nat
    BY <1>1, CompleteIs
  <2>3. CASE size[g] = 0
    BY <2>1, <2>2, <2>3
  <2> QED
    BY <2>1, <2>3 DEF Due
<1>6. CASE HandleEvent
  <2>1. Head(batch) \in Events /\ batch # <<>> /\ queue' = queue /\ UNCHANGED fileVars /\ daemon = "up"
    BY <1>1, <1>6, TailTyped DEF HandleEvent, QueuesOK
  <2>2. In(Modify(g), batch) => Modify(g) = Head(batch) \/ In(Modify(g), Tail(batch))
    BY <1>1, <2>1, HeadOrTail DEF QueuesOK
  <2>3. ASSUME UNCHANGED <<lines, size>>, offset'[g] = offset[g], Modify(g) # Head(batch),
               (batch' = Tail(batch) /\ UNCHANGED late) \/ Lose(Tail(batch))
        PROVE  Due(g)'
    <3>1. In(Modify(g), batch) => In(Modify(g), Tail(batch))
      BY <2>2, <2>3
    <3>2. Due(g) => Due(g)'
      BY <2>1, <2>3, <3>1 DEF Due, Lose
    <3> QED
      BY <1>1, <2>1, <2>3, <3>2, StillDue
  <2>4. CASE Head(batch).event = "mkdir" /\ batch' = Tail(batch) /\ UNCHANGED <<sessionVars, late>>
    BY <2>1, <2>3, <2>4, EventsDiffer DEF fileVars, sessionVars
  <2>5. ASSUME NEW f \in Files, Head(batch) = Modify(f), Apply(f) PROVE Due(g)'
    <3>1. CASE g = f
      <4>1. offset'[g] = 2 * Complete(g) /\ Complete(g)' = Complete(g) /\ Complete(g) \in Nat
        BY <1>1, <2>1, <2>5, <3>1, CompleteIs DEF Apply, ReadTo, TypeOK, fileVars, Complete
      <4> QED
        BY <4>1
    <3>2. CASE g # f
      <4>1. Modify(g) # Head(batch)
        BY <2>5, <3>2, EventsDiffer
      <4>2. offset'[g] = offset[g]
        BY <1>1, <2>5, <3>2 DEF Apply, TypeOK
      <4> QED
        BY <2>1, <2>3, <2>5, <4>1, <4>2 DEF Apply, fileVars
    <3> QED
      BY <3>1, <3>2
  <2>6. ASSUME NEW f \in Files, Head(batch) = Modify(f), Stuck(f), ApplyRaises PROVE Due(g)'
    <3>1. offset' = offset
      BY <2>6 DEF ApplyRaises, sessionVars
    <3>2. CASE g = f
      BY <2>1, <2>6, <3>1, <3>2, Untouched DEF fileVars
    <3>3. CASE g # f
      BY <2>1, <2>3, <2>6, <3>1, <3>3, EventsDiffer DEF ApplyRaises, fileVars
    <3> QED
      BY <3>2, <3>3
  <2> QED
    BY <1>6, <2>1, <2>4, <2>5, <2>6, EventsDiffer DEF HandleEvent
<1>7. CASE UNCHANGED vars
  <2>1. UNCHANGED <<lines, size, offset, daemon, queue, batch, late>>
    BY <1>7 DEF vars, fileVars, sessionVars
  <2>2. Due(g) => Due(g)'
    BY <2>1 DEF Due
  <2> QED
    BY <1>1, <2>1, <2>2, StillDue
<1> QED
  BY <1>2, <1>3, <1>4, <1>5, <1>6, <1>7 DEF Next, Discover, Crash

LEMMA StepLatestOK == IInv /\ [Next]_vars => LatestOK'
<1> SUFFICES ASSUME IInv, [Next]_vars PROVE LatestOK'
  OBVIOUS
<1>1. LatestOK /\ Even /\ TypeOK /\ QueuesOK /\ TailersOK
  BY TypeParts DEF IInv
<1>2. ASSUME UNCHANGED <<lines, size, latest>> PROVE LatestOK'
  BY <1>1, <1>2 DEF LatestOK, Complete, TurnsTo
<1>3. ASSUME NEW f \in Files, NEW kind \in Kinds[f], WriteHalf(f, kind) PROVE LatestOK'
  <2>1. latest' = latest
    BY <1>3 DEF WriteHalf, sessionVars
  <2>2. \A g \in Files : TurnsTo(g, Complete(g)) \subseteq TurnsTo(g, Complete(g))'
    BY <1>3, WriteAppends
  <2> QED
    BY <1>1, <2>1, <2>2 DEF LatestOK
<1>4. ASSUME UNCHANGED <<lines, size>>,
             \A f \in Files : latest'[f] \in {0, latest[f]} \cup TurnsTo(f, Complete(f))
      PROVE  LatestOK'
  BY <1>1, <1>4 DEF LatestOK, Complete, TurnsTo
<1>5. ASSUME NEW live \in SUBSET Files, Reseed(live), UNCHANGED <<lines, size>> PROVE LatestOK'
  <2>1. \A f \in Files : Newest(f) \in {0} \cup TurnsTo(f, Complete(f))
    BY <1>1, NewestIs
  <2> QED
    BY <1>4, <1>5, <2>1 DEF Reseed
<1>6. ASSUME NEW f \in Files, Apply(f), UNCHANGED <<lines, size>> PROVE LatestOK'
  <2>1. /\ Mergeable(f) \subseteq TurnsTo(f, Complete(f))
        /\ Mergeable(f) \in SUBSET (0 .. Complete(f)) /\ Complete(f) \in Nat
    BY <1>1, MergeableAre, CompleteIs
  <2>2. Mergeable(f) # {} => Largest(Mergeable(f)) \in Mergeable(f)
    BY <2>1, LargestIs
  <2>3. \A g \in Files : latest'[g] \in {0, latest[g]} \cup TurnsTo(g, Complete(g))
    BY <1>1, <1>6, <2>1, <2>2 DEF Apply, TailersOK
  <2> QED
    BY <1>4, <1>6, <2>3
<1>7. CASE HandleEvent
  <2>1. Head(batch) \in Events
    BY <1>1, <1>7, TailTyped DEF HandleEvent, QueuesOK
  <2> QED
    BY <1>2, <1>6, <1>7, <2>1, EventsDiffer
       DEF HandleEvent, ApplyRaises, sessionVars, fileVars
<1>8. CASE Crash
  <2>1. \A f \in Files : Mergeable(f) \subseteq TurnsTo(f, Complete(f))
    BY <1>1, MergeableAre
  <2>2. \A g \in Files : latest'[g] \in {0, latest[g]} \cup TurnsTo(g, Complete(g))
    BY <1>1, <1>8, <2>1 DEF Crash, TailersOK
  <2> QED
    BY <1>4, <1>8, <2>2 DEF Crash, fileVars
<1> QED
  BY <1>2, <1>3, <1>5, <1>7, <1>8
     DEF Next, vars, fileVars, sessionVars, NewDir, Discover, ReadEvents, StartWatching

LEMMA StepInv == IInv /\ [Next]_vars => IInv'
<1>1. IInv' <=> TypeOK' /\ Even' /\ MergedExactly' /\ Unwatched' /\ OnlyDelayed' /\ LatestOK'
  BY DEF IInv
<1> QED
  BY <1>1, StepTypeOK, StepEven, StepMergedExactly, StepUnwatched, StepOnlyDelayed, StepLatestOK

(* The newest turn of a read of a transcript in which every line is an     *)
(* object is at least the session's, be that one read before, or one that  *)
(* discovery found ahead of the tailer.                                    *)
LEMMA ReadAdvances ==
  ASSUME TypeOK, Even, LatestOK, NEW f \in Files, Mergeable(f) # {},
         \A i \in 1 .. Complete(f) : lines[f][i] # "array"
  PROVE  latest[f] <= Largest(Mergeable(f))
<1>1. /\ Complete(f) \in 0 .. Len(lines[f]) /\ Len(lines[f]) \in Nat /\ offset[f] \in Nat
      /\ Mergeable(f) \in SUBSET (0 .. Complete(f))
      /\ \A i \in Mergeable(f) : offset[f] < 2 * i
  BY CompleteIs, MergeableAre
<1>2. \A i \in Nat : i \in NewLines(f) <=> (offset[f] < 2 * i /\ i <= Complete(f))
  BY NewLinesAre
<1>3. Largest(Mergeable(f)) \in Mergeable(f) /\ \A m \in Mergeable(f) : m <= Largest(Mergeable(f))
  <2>1. Complete(f) \in Nat
    BY <1>1
  <2> QED
    BY <1>1, <2>1, LargestIs
<1>4. CASE latest[f] = 0
  BY <1>1, <1>3, <1>4
<1>5. CASE latest[f] \in TurnsTo(f, Complete(f))
  <2>1. latest[f] \in 1 .. Complete(f) /\ lines[f][latest[f]] = "turn"
    BY <1>5 DEF TurnsTo
  <2>2. CASE 2 * latest[f] <= offset[f]
    <3>1. offset[f] < 2 * Largest(Mergeable(f)) /\ Largest(Mergeable(f)) \in Nat
      BY <1>1, <1>3
    <3> QED
      BY <1>1, <2>1, <2>2, <3>1
  <2>3. CASE offset[f] < 2 * latest[f]
    <3>1. latest[f] \in NewLines(f)
      BY <1>1, <1>2, <2>1, <2>3
    <3>2. NewOf(f, "array") = {}
      <4>1. NewLines(f) \subseteq 1 .. Complete(f)
        BY <1>1, <1>2 DEF NewLines
      <4> QED
        BY <4>1 DEF NewOf
    <3>3. latest[f] \in Mergeable(f)
      BY <2>1, <3>1, <3>2 DEF Mergeable, NewOf
    <3> QED
      BY <1>3, <3>3
  <2> QED
    BY <1>1, <2>1, <2>2, <2>3
<1> QED
  BY <1>4, <1>5 DEF LatestOK

LEMMA StepNeverBackwards ==
  ASSUME IInv, [Next]_vars, NEW f \in Files
  PROVE  \/ latest'[f] >= latest[f]
         \/ daemon' = "down" /\ batch # <<>> /\ Head(batch) = Modify(f)
         \/ \E i \in 1 .. Complete(f) : lines[f][i] = "array"
<1> SUFFICES ASSUME ~ \E i \in 1 .. Complete(f) : lines[f][i] = "array"
             PROVE  \/ latest'[f] >= latest[f]
                    \/ daemon' = "down" /\ batch # <<>> /\ Head(batch) = Modify(f)
  OBVIOUS
<1>1. LatestOK /\ Even /\ TypeOK /\ QueuesOK /\ TailersOK /\ latest[f] \in Nat
  BY TypeParts DEF IInv, TailersOK
<1>2. CASE UNCHANGED latest
  BY <1>1, <1>2
<1>3. ASSUME NEW live \in SUBSET Files, Reseed(live) PROVE latest'[f] >= latest[f]
  <2>1. Newest(f) \in Nat /\ \A i \in TurnsTo(f, Complete(f)) : i <= Newest(f)
    BY <1>1, NewestIs DEF TurnsTo
  <2>2. latest[f] <= Newest(f)
    BY <1>1, <2>1 DEF LatestOK
  <2> QED
    BY <1>1, <1>3, <2>1, <2>2 DEF Reseed, TailersOK
<1>4. ASSUME NEW g \in Files, Apply(g) PROVE latest'[f] >= latest[f]
  <2>1. CASE f = g /\ Mergeable(f) # {}
    <3>1. latest[f] <= Largest(Mergeable(f)) /\ latest'[f] = Largest(Mergeable(f))
      BY <1>1, <1>4, <2>1, ReadAdvances DEF Apply, TailersOK
    <3> QED
      BY <3>1
  <2>2. CASE f # g \/ Mergeable(f) = {}
    BY <1>1, <1>4, <2>2 DEF Apply, TailersOK
  <2> QED
    BY <2>1, <2>2
<1>5. CASE HandleEvent
  <2>1. Head(batch) \in Events
    BY <1>1, <1>5, TailTyped DEF HandleEvent, QueuesOK
  <2> QED
    BY <1>2, <1>4, <1>5, <2>1, EventsDiffer DEF HandleEvent, ApplyRaises, sessionVars
<1>6. ASSUME Crash, latest' # latest
      PROVE  \/ latest'[f] >= latest[f]
             \/ daemon' = "down" /\ batch # <<>> /\ Head(batch) = Modify(f)
  <2>1. PICK g \in Files : \E i \in Mergeable(g) :
          batch # <<>> /\ Head(batch) = Modify(g) /\ latest' = [latest EXCEPT ![g] = i]
    BY <1>6 DEF Crash
  <2>2. CASE g = f
    BY <1>6, <2>1, <2>2 DEF Crash
  <2>3. CASE g # f
    <3>1. latest'[f] = latest[f]
      BY <1>1, <2>1, <2>3 DEF TailersOK
    <3> QED
      BY <1>1, <3>1
  <2> QED
    BY <2>2, <2>3
<1> QED
  BY <1>2, <1>3, <1>5, <1>6
     DEF Next, vars, fileVars, sessionVars, NewDir, Discover, ReadEvents, StartWatching, WriteHalf

-----------------------------------------------------------------------------
LEMMA AlwaysInv == Spec => []IInv
BY InitInv, StepInv, PTL DEF Spec

(* Every state has the declared types: offsets within the transcripts,     *)
(* watches on directories that exist.                                      *)
THEOREM IngestTypeOK == Spec => []TypeOK
<1>1. IInv => TypeOK
  BY DEF IInv
<1> QED
  BY AlwaysInv, <1>1, PTL

(* However JsonlTailer.read_new and Claude Code's half-written lines       *)
(* interleave, every turn before the offset is merged, and none after.     *)
THEOREM IngestMergedExactly == Spec => []MergedExactly
<1>1. IInv => MergedExactly
  BY DEF IInv
<1> QED
  BY AlwaysInv, <1>1, PTL

(* Complete lines that _process_inotify has not consumed are about to be:  *)
(* an event is queued for them, or the transcript is one of those nothing  *)
(* will be heard of until its next line.                                   *)
THEOREM IngestOnlyDelayed == Spec => []OnlyDelayed
<1>1. IInv => OnlyDelayed
  BY DEF IInv
<1> QED
  BY AlwaysInv, <1>1, PTL

(* A session never goes back to an older turn of its transcript, through   *)
(* the replay after a restart and the discovery after an overflow, unless  *)
(* the daemon crashes within the replay or a line is no object.            *)
THEOREM IngestNeverBackwards == Spec => NeverBackwards
<1>1. IInv /\ [Next]_vars =>
        \A f \in Files :
          \/ latest'[f] >= latest[f]
          \/ daemon' = "down" /\ batch # <<>> /\ Head(batch) = Modify(f)
          \/ \E i \in 1 .. Complete(f) : lines[f][i] = "array"
  BY StepNeverBackwards
<1> QED
  BY AlwaysInv, <1>1, PTL DEF Spec, NeverBackwards
=============================================================================
