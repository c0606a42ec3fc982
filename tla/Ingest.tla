-------------------------------- MODULE Ingest --------------------------------
(***************************************************************************)
(* From a transcript on disk to the session state: the inotify watches and *)
(* their queue (ccxd/inotify.py), the callback that reads them             *)
(* (_process_inotify), the tailer of each transcript (ccxd/jsonl.py,       *)
(* ccxd/tailer.py) and discovery at the start and after an overflow        *)
(* (ccxd/discovery.py).                                                    *)
(*                                                                         *)
(* A transcript is a sequence of lines, written in two halves: the second  *)
(* ends with the newline.  Offsets count halves.  A project directory      *)
(* holds the transcripts f with DirOf[f] = d.  Claude Code writes while    *)
(* the daemon reads, so the callback is one action per event.              *)
(***************************************************************************)
EXTENDS Naturals, Sequences

CONSTANTS
  Dirs, Files, DirOf,
  Kinds,      \* Kinds[f]: the kinds of lines written to f (see AllKinds)
  OldDirs,    \* project directories that exist at first
  QueueCap,   \* events the kernel queues before it overflows
  MaxLines,   \* bound: MaxLines[f] lines of f
  MaxCrashes  \* bound: crashes of the daemon

(* A "turn" has usage, model or a Task; a "skip" is blank, not JSON, or has *)
(* nothing of interest; a "binary" line is not UTF-8 and makes json.loads  *)
(* raise UnicodeDecodeError; an "array" is JSON but no object and makes    *)
(* parse_deltas raise.                                                     *)
AllKinds == {"turn", "skip", "binary", "array"}

ASSUME IngestAssumption ==
  /\ DirOf \in [Files -> Dirs] /\ OldDirs \subseteq Dirs
  /\ Kinds \in [Files -> SUBSET AllKinds]
  /\ QueueCap \in Nat \ {0} /\ MaxLines \in [Files -> Nat] /\ MaxCrashes \in Nat

VARIABLES
  lines,    \* lines[f]: kinds of the lines of f
  size,     \* size[f]: halves written
  dirs,     \* project directories that exist
  daemon,   \* "down", "found" (discovery done, not yet watching), "up"
  watched,  \* directories with a watch
  queue,    \* events the kernel holds
  batch,    \* events the callback has read and not handled yet
  offset,   \* offset[f]: JsonlTailer.offset
  merged,   \* merged[f]: turns the tailer of this run has merged
  latest,   \* latest[f]: the turn the session's model and tokens are from, 0 if none
  late,     \* transcripts that no event is queued for any more (see Notify, Lose)
  crashes   \* for the bound

fileVars == <<lines, size, dirs>>
sessionVars == <<offset, merged, latest>>
vars == <<fileVars, daemon, watched, queue, batch, sessionVars, late, crashes>>

Modify(f) == [event |-> "modify", of |-> f]
Mkdir(d) == [event |-> "mkdir", of |-> d]
Overflow == [event |-> "overflow", of |-> "none"]
Events == {Modify(f) : f \in Files} \cup {Mkdir(d) : d \in Dirs} \cup {Overflow}

In(e, q) == \E i \in 1 .. Len(q) : q[i] = e
Largest(S) == CHOOSE n \in S : \A m \in S : m <= n

Init ==
  /\ lines = [f \in Files |-> <<>>] /\ size = [f \in Files |-> 0]
  /\ dirs = OldDirs
  /\ daemon = "down" /\ watched = {} /\ queue = <<>> /\ batch = <<>>
  /\ offset = [f \in Files |-> 0] /\ merged = [f \in Files |-> {}]
  /\ latest = [f \in Files |-> 0]
  /\ late = {} /\ crashes = 0

-----------------------------------------------------------------------------
(* The kernel.                                                             *)

(* An event equal to the last one queued is merged with it; one that finds *)
(* the queue full is replaced by a single overflow event.                  *)
Queued(e) ==
  CASE queue # <<>> /\ queue[Len(queue)] = e -> queue
    [] Len(queue) > QueueCap -> queue
    [] Len(queue) = QueueCap -> Append(queue, Overflow)
    [] OTHER -> Append(queue, e)

(* The daemon is told of the write to f, if it watches and there is room.  *)
Notify(f) ==
  /\ queue' = IF DirOf[f] \in watched THEN Queued(Modify(f)) ELSE queue
  /\ late' = IF DirOf[f] \in watched /\ In(Modify(f), queue') THEN late \ {f}
             ELSE late \cup {f}

(* Claude Code. *)
WriteHalf(f, kind) ==
  /\ DirOf[f] \in dirs
  /\ \/ /\ size[f] = 2 * Len(lines[f]) /\ Len(lines[f]) < MaxLines[f]
        /\ lines' = [lines EXCEPT ![f] = Append(@, kind)]
     \/ size[f] < 2 * Len(lines[f]) /\ UNCHANGED lines
  /\ size' = [size EXCEPT ![f] = @ + 1]
  /\ Notify(f)
  /\ UNCHANGED <<dirs, daemon, watched, batch, sessionVars, crashes>>

(* The base directory is watched while the daemon is up. *)
NewDir(d) ==
  /\ d \notin dirs
  /\ dirs' = dirs \cup {d}
  /\ queue' = IF daemon = "up" THEN Queued(Mkdir(d)) ELSE queue
  /\ UNCHANGED <<lines, size, daemon, watched, batch, sessionVars, late, crashes>>

-----------------------------------------------------------------------------
(* discover_sessions: the sessions in `live`, those whose process has its  *)
(* transcript open, are read from the beginning by a tailer of their own.  *)

Complete(f) == size[f] \div 2       \* lines that end with a newline
TurnsTo(f, n) == {i \in 1 .. n : lines[f][i] = "turn"}
Newest(f) == IF TurnsTo(f, Complete(f)) = {} THEN 0 ELSE Largest(TurnsTo(f, Complete(f)))

(* A line that makes the reading of a live transcript raise. *)
Unreadable(f) == \E i \in 1 .. Complete(f) : lines[f][i] \in {"binary", "array"}

(* upsert of every discovered session, unless discovery raises. *)
Reseed(live) ==
  latest' = IF \E f \in live : Unreadable(f) THEN latest
            ELSE [f \in Files |-> IF f \in live THEN Newest(f) ELSE latest[f]]

(* Discovery comes first; when it raises, the daemon does not start.       *)
Discover(live) ==
  /\ daemon = "down"
  /\ \A f \in live : size[f] > 0 /\ ~Unreadable(f)
  /\ daemon' = "found"
  /\ Reseed(live)
  /\ UNCHANGED <<fileVars, watched, queue, batch, offset, merged, late, crashes>>

(* InotifyWatcher and TailerRegistry: tailers start from offset 0. *)
StartWatching ==
  /\ daemon = "found"
  /\ daemon' = "up"
  /\ watched' = dirs
  /\ UNCHANGED <<fileVars, queue, batch, sessionVars, late, crashes>>

-----------------------------------------------------------------------------
(* _process_inotify.                                                       *)

(* All queued events are read at once.  With an overflow among them the    *)
(* sessions are discovered again and the callback returns; otherwise new   *)
(* directories are watched first, those of them that are still there.      *)
(* Mutant: the events after the first are forgotten.                       *)
NewlyWatched == {d \in dirs : In(Mkdir(d), queue)}
ToHandleFirst == <<Head(queue)>>
ToHandle == queue

ReadEvents(live) ==
  /\ daemon = "up" /\ batch = <<>> /\ queue # <<>>
  /\ queue' = <<>>
  /\ IF In(Overflow, queue)
     THEN /\ Reseed(live)
          /\ late' = late \cup {f \in Files : In(Modify(f), queue)}
          /\ UNCHANGED <<watched, batch>>
     ELSE /\ watched' = watched \cup NewlyWatched
          /\ batch' = ToHandle
          /\ UNCHANGED <<latest, late>>
  /\ UNCHANGED <<fileVars, daemon, offset, merged, crashes>>

(* JsonlTailer.read_new consumes up to the last newline.                   *)
(* Mutants: it consumes a line that is not complete; one line at a time.   *)
ReadToPartial(f) == size[f]
ReadToNextLine(f) == IF offset[f] + 2 <= size[f] THEN offset[f] + 2 ELSE offset[f]
ReadTo(f) == 2 * Complete(f)

NewLines(f) == {i \in 1 .. Len(lines[f]) : offset[f] < 2 * i - 1 /\ 2 * i <= ReadTo(f)}
NewOf(f, kind) == {i \in NewLines(f) : lines[f][i] = kind}

(* The callback raises: the rest of the batch is lost.                     *)
Lose(events) ==
  /\ batch' = <<>>
  /\ late' = late \cup {f \in Files : In(Modify(f), events) /\ ~In(Modify(f), queue)}

(* TailerRegistry.apply merges the new turns up to a line that is no       *)
(* object, on which parse_deltas raises.                                   *)
Mergeable(f) == {i \in NewOf(f, "turn") : \A j \in NewOf(f, "array") : i < j}

Apply(f) ==
  /\ offset' = [offset EXCEPT ![f] = ReadTo(f)]
  /\ merged' = [merged EXCEPT ![f] = @ \cup Mergeable(f)]
  /\ latest' = [latest EXCEPT ![f] = IF Mergeable(f) = {} THEN @ ELSE Largest(Mergeable(f))]
  /\ IF NewOf(f, "array") = {} THEN batch' = Tail(batch) /\ UNCHANGED late
                               ELSE Lose(Tail(batch))

(* read_new raises with nothing consumed. *)
Stuck(f) == NewOf(f, "binary") # {}
ApplyRaises == Lose(Tail(batch)) /\ UNCHANGED sessionVars

HandleEvent ==
  /\ daemon = "up" /\ batch # <<>>
  /\ LET e == Head(batch)
     IN  \/ e.event = "mkdir" /\ batch' = Tail(batch) /\ UNCHANGED <<sessionVars, late>>
         \/ e.event = "modify" /\ ~Stuck(e.of) /\ Apply(e.of)
         \/ e.event = "modify" /\ Stuck(e.of) /\ ApplyRaises
  /\ UNCHANGED <<fileVars, daemon, watched, queue, crashes>>

(* The daemon crashes, maybe within an apply that has merged some turns.   *)
(* Watches, events and tailers are gone; the sessions are in SqliteStore.  *)
Crash ==
  /\ daemon # "down" /\ crashes < MaxCrashes
  /\ \/ UNCHANGED latest
     \/ \E f \in Files : \E i \in Mergeable(f) :
          batch # <<>> /\ Head(batch) = Modify(f) /\ latest' = [latest EXCEPT ![f] = i]
  /\ daemon' = "down"
  /\ watched' = {} /\ queue' = <<>> /\ batch' = <<>>
  /\ offset' = [f \in Files |-> 0] /\ merged' = [f \in Files |-> {}]
  /\ late' = Files
  /\ crashes' = crashes + 1
  /\ UNCHANGED fileVars

Next ==
  \/ \E f \in Files : \E kind \in Kinds[f] : WriteHalf(f, kind)
  \/ \E d \in Dirs : NewDir(d)
  \/ \E live \in SUBSET Files : Discover(live) \/ ReadEvents(live)
  \/ StartWatching \/ HandleEvent \/ Crash

Spec == Init /\ [][Next]_vars

(* systemd starts the daemon and the event loop runs its callback. *)
LiveSpec ==
  /\ Spec
  /\ WF_vars(\E live \in SUBSET Files : Discover(live)) /\ WF_vars(StartWatching)
  /\ WF_vars(\E live \in SUBSET Files : ReadEvents(live)) /\ WF_vars(HandleEvent)

-----------------------------------------------------------------------------
(* Properties.                                                             *)

TypeOK ==
  /\ lines \in [Files -> Seq(AllKinds)] /\ size \in [Files -> Nat]
  /\ \A f \in Files : size[f] \in {2 * Len(lines[f]), 2 * Len(lines[f]) - 1}
  /\ dirs \in SUBSET Dirs /\ watched \in SUBSET dirs
  /\ daemon \in {"down", "found", "up"}
  /\ queue \in Seq(Events) /\ batch \in Seq(Events)
  /\ offset \in [Files -> Nat] /\ \A f \in Files : offset[f] <= size[f]
  /\ merged \in [Files -> SUBSET Nat] /\ latest \in [Files -> Nat]
  /\ late \in SUBSET Files /\ crashes \in 0 .. MaxCrashes

(* However reads and half-written lines interleave, the tailer has merged  *)
(* every turn before its offset, and none after.                           *)
MergedExactly ==
  \A f \in Files :
    ~Unreadable(f) => merged[f] = {i \in TurnsTo(f, Len(lines[f])) : 2 * i <= offset[f]}

(* Through the replay of a transcript after a restart, and a discovery     *)
(* after an overflow, a session never goes back to an older turn -- unless *)
(* the daemon crashes in the middle of a replay, as it writes every turn,  *)
(* or the transcript has a line on which parse_deltas raises, which a      *)
(* replay does not get past.                                               *)
NeverBackwards ==
  [][\A f \in Files :
       \/ latest'[f] >= latest[f]
       \/ daemon' = "down" /\ batch # <<>> /\ Head(batch) = Modify(f)
       \/ \E i \in 1 .. Complete(f) : lines[f][i] = "array"]_vars

(* While the daemon is up, complete lines it has not consumed are about to *)
(* be: an event is queued for them -- except for a transcript last written *)
(* to when its directory had no watch yet or the queue had overflowed, or  *)
(* whose event went with a batch in which another line raised, or in which *)
(* a line that is not UTF-8 is next.                                       *)
OnlyDelayed ==
  \A f \in Files :
    daemon = "up" /\ offset[f] < 2 * Complete(f) /\ ~Stuck(f) =>
      In(Modify(f), queue) \/ In(Modify(f), batch) \/ f \in late

(* A complete line is consumed, if the event about it was not lost and no  *)
(* line that is not UTF-8 is in the way.                                   *)
KeepsUp ==
  \A f \in Files : \A i \in 1 .. MaxLines[f] :
    (daemon = "up" /\ i <= Complete(f) /\ f \notin late)
      ~> (offset[f] >= 2 * i \/ daemon = "down" \/ f \in late \/ Stuck(f))

=============================================================================
