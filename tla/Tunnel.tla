------------------------------- MODULE Tunnel -------------------------------
(***************************************************************************)
(* ccxctl monitor open, close and tunnel (control-plane/ccx/monitor.py):   *)
(* an ssh that forwards one local port, and a pidfile by which the next    *)
(* invocation knows it.  Between any two system calls others run, a        *)
(* process ends, and its pid is handed out again.                          *)
(*                                                                         *)
(* External: the processes and the port.  A pid belongs to a detached ssh, *)
(* to another process of the user's, or to somebody else's; an ssh that    *)
(* has ended stays a zombie while the open that started it runs.           *)
(***************************************************************************)
EXTENDS Naturals, FiniteSets

CONSTANTS
  Runs,      \* invocations
  Pids,
  Nobody,    \* no pid
  Foreign    \* a listener on the port that open has not started

NoFile == "no file"
Blank == "blank"    \* emptied by write_text, not yet written

ASSUME TunnelAssumption ==
  {Nobody, Foreign, NoFile, Blank} \intersect Pids = {} /\ Nobody # Foreign

VARIABLES
  pidfile,
  proc,      \* what has a pid
  port,      \* who listens on it
  at, cmd,   \* where a run is, and its command
  pid,       \* the pid it has read, or of the ssh it has started
  raced,     \* history: a run has read the pidfile while another acted on it
  died       \* history: a tunnel has ended, or failed, by itself

vars == <<pidfile, proc, port, at, cmd, pid, raced, died>>

Goes(r, place) == at' = [at EXCEPT ![r] = place]

Deciding == {"probe", "unlink", "spawn", "blank", "record", "term", "drop"}
Waiting == {"wait", "connect"}
Starting == {"blank", "record"} \union Waiting

Init ==
  /\ pidfile = NoFile /\ proc = [p \in Pids |-> "free"]
  /\ port \in {Nobody, Foreign}
  /\ at = [r \in Runs |-> "idle"] /\ cmd = [r \in Runs |-> "none"]
  /\ pid = [r \in Runs |-> Nobody]
  /\ raced = FALSE /\ died = FALSE

\* The ssh of an open that has ended itself leaves no zombie.
ReapedBy(r) == [p \in Pids |->
  IF p = pid[r] /\ proc[p] = "zombie" THEN "free" ELSE proc[p]]

-----------------------------------------------------------------------------
(* _tunnel_pid *)

Invoke(r, c) ==
  /\ at[r] = "idle"
  /\ cmd' = [cmd EXCEPT ![r] = c]
  /\ Goes(r, "read")
  /\ UNCHANGED <<pidfile, proc, port, pid, raced, died>>

NoneThere(r) == IF cmd[r] = "open" THEN "spawn" ELSE "nothing"

\* No file, or one that int() does not take.
Read(r) ==
  /\ at[r] = "read"
  /\ raced' = (raced \/ \E q \in Runs : at[q] \in Deciding)
  /\ IF pidfile \in {NoFile, Blank}
     THEN Goes(r, NoneThere(r)) /\ UNCHANGED pid
     ELSE Goes(r, "probe") /\ pid' = [pid EXCEPT ![r] = pidfile]
  /\ UNCHANGED <<pidfile, proc, port, cmd, died>>

\* os.kill(pid, 0): there is no such process, or it is somebody else's.
Probe(r) ==
  /\ at[r] = "probe"
  /\ Goes(r, CASE proc[pid[r]] \in {"free", "alien"} -> "unlink"
               [] cmd[r] = "open" -> "running"
               [] OTHER -> "term")
  /\ UNCHANGED <<pidfile, proc, port, cmd, pid, raced, died>>

Unlink(r) ==
  /\ at[r] = "unlink"
  /\ pidfile' = NoFile
  /\ Goes(r, NoneThere(r))
  /\ UNCHANGED <<proc, port, cmd, pid, raced, died>>

-----------------------------------------------------------------------------
(* open *)

Spawn(r) ==
  /\ at[r] = "spawn"
  /\ \E p \in Pids :
       /\ proc[p] = "free"
       /\ proc' = [proc EXCEPT ![p] = "ssh"]
       /\ pid' = [pid EXCEPT ![r] = p]
  /\ Goes(r, "blank")
  /\ UNCHANGED <<pidfile, port, cmd, raced, died>>

Empties(r) ==
  /\ at[r] = "blank"
  /\ pidfile' = Blank
  /\ Goes(r, "record")
  /\ UNCHANGED <<proc, port, cmd, pid, raced, died>>

\* A file unlinked since it was opened stays unlinked; digits written over
\* others are any pid.
Records(r) ==
  /\ at[r] = "record"
  /\ pidfile' \in CASE pidfile = Blank -> {pid[r]}
                    [] pidfile = NoFile -> {NoFile}
                    [] OTHER -> Pids
  /\ Goes(r, "wait")
  /\ UNCHANGED <<proc, port, cmd, pid, raced, died>>

\* The loop: has the ssh ended (poll() reaps it), then does the port answer.
Polls(r) ==
  /\ at[r] = "wait"
  /\ Goes(r, IF proc[pid[r]] = "zombie" THEN "failed" ELSE "connect")
  /\ proc' = ReapedBy(r)
  /\ UNCHANGED <<pidfile, port, cmd, pid, raced, died>>

\* Whoever listens answers.
Connects(r) ==
  /\ at[r] = "connect"
  /\ \/ port = Nobody /\ Goes(r, "wait") /\ UNCHANGED proc
     \/ port # Nobody /\ Goes(r, "up") /\ proc' = ReapedBy(r)
  /\ UNCHANGED <<pidfile, port, cmd, pid, raced, died>>

DeadlineUnlinks(r) ==
  /\ at[r] = "wait"
  /\ Goes(r, "failed") /\ proc' = ReapedBy(r)
  /\ pidfile' = NoFile
  /\ UNCHANGED <<port, cmd, pid, raced, died>>

\* Five seconds are over.  The ssh lives on, and so does the pidfile.
Deadline(r) ==
  /\ at[r] = "wait"
  /\ Goes(r, "failed")
  /\ proc' = ReapedBy(r)
  /\ UNCHANGED <<pidfile, port, cmd, pid, raced, died>>

-----------------------------------------------------------------------------
(* close *)

\* os.kill(pid, SIGTERM); a PermissionError is not caught.
Term(r) ==
  /\ at[r] = "term"
  /\ proc' = [proc EXCEPT ![pid[r]] =
       CASE @ = "ssh" -> "ending" [] @ = "mine" -> "free" [] OTHER -> @]
  /\ Goes(r, IF proc[pid[r]] = "alien" THEN "failed" ELSE "drop")
  /\ UNCHANGED <<pidfile, port, cmd, pid, raced, died>>

DropNot(r) ==
  /\ at[r] = "drop"
  /\ Goes(r, "closed")
  /\ UNCHANGED <<pidfile, proc, port, cmd, pid, raced, died>>

Drop(r) ==
  /\ at[r] = "drop"
  /\ pidfile' = NoFile
  /\ Goes(r, "closed")
  /\ UNCHANGED <<proc, port, cmd, pid, raced, died>>

\* Ctrl-C, at any point.  Popen's new session keeps it from the ssh.
Interrupt(r) ==
  /\ at[r] \in Deciding \union Waiting
  /\ proc' = IF at[r] \in Starting THEN ReapedBy(r) ELSE proc
  /\ Goes(r, "cut")
  /\ UNCHANGED <<pidfile, port, cmd, pid, raced, died>>

-----------------------------------------------------------------------------
(* The processes *)

Ends(p) ==
  /\ proc' = [proc EXCEPT ![p] =
       IF \E r \in Runs : pid[r] = p /\ at[r] \in Starting THEN "zombie" ELSE "free"]
  /\ port' = IF port = p THEN Nobody ELSE port
  /\ UNCHANGED <<pidfile, at, cmd, pid, raced>>

\* ssh is through and binds the port ...
Forward(p) ==
  /\ proc[p] = "ssh"
  /\ port = Nobody /\ port' = p
  /\ UNCHANGED <<pidfile, proc, at, cmd, pid, raced, died>>

\* ... or ends, because the port is taken (ExitOnForwardFailure) or because the
\* connection failed or was lost.
Fails(p) == proc[p] = "ssh" /\ Ends(p) /\ died' = TRUE

Terminates(p) == proc[p] = "ending" /\ Ends(p) /\ UNCHANGED died

\* A foreground `monitor tunnel`, or a dashboard on the laptop itself.
OtherListens ==
  /\ port = Nobody /\ port' = Foreign
  /\ UNCHANGED <<pidfile, proc, at, cmd, pid, raced, died>>

OtherLeaves ==
  /\ port = Foreign /\ port' = Nobody
  /\ UNCHANGED <<pidfile, proc, at, cmd, pid, raced, died>>

\* Other processes come and go.
Stranger(p) ==
  /\ \/ proc[p] = "free" /\ \E k \in {"mine", "alien"} : proc' = [proc EXCEPT ![p] = k]
     \/ proc[p] \in {"mine", "alien"} /\ proc' = [proc EXCEPT ![p] = "free"]
  /\ UNCHANGED <<pidfile, port, at, cmd, pid, raced, died>>

Next ==
  \/ \E r \in Runs :
       \/ \E c \in {"open", "close"} : Invoke(r, c)
       \/ Read(r) \/ Probe(r) \/ Unlink(r)
       \/ Spawn(r) \/ Empties(r) \/ Records(r)
       \/ Polls(r) \/ Connects(r) \/ Deadline(r)
       \/ Term(r) \/ Drop(r) \/ Interrupt(r)
  \/ \E p \in Pids : Forward(p) \/ Fails(p) \/ Terminates(p) \/ Stranger(p)
  \/ OtherListens \/ OtherLeaves

Spec == Init /\ [][Next]_vars

-----------------------------------------------------------------------------
Places == {"idle", "read", "running", "nothing", "up", "failed", "closed", "cut"}
            \union Deciding \union Waiting

TypeOK ==
  /\ pidfile \in Pids \union {NoFile, Blank}
  /\ proc \in [Pids -> {"free", "ssh", "ending", "zombie", "mine", "alien"}]
  /\ port \in {Nobody, Foreign} \union {p \in Pids : proc[p] \in {"ssh", "ending"}}
  /\ at \in [Runs -> Places] /\ cmd \in [Runs -> {"none", "open", "close"}]
  /\ pid \in [Runs -> Pids \union {Nobody}]
  /\ raced \in BOOLEAN /\ died \in BOOLEAN

Interrupted == \E r \in Runs : at[r] = "cut"

(* The pidfile names every tunnel that lives, those of opens that gave up   *)
(* on them included, as soon as its open has written it: close can end it   *)
(* and the next open finds it.  Unless an invocation has read the file      *)
(* while another acted on it, or one was interrupted.                       *)
NoOrphan == ~raced /\ ~Interrupted =>
  \A p \in Pids : proc[p] = "ssh" =>
    pidfile = p \/ \E r \in Runs : pid[r] = p /\ at[r] \in {"blank", "record"}

(* When close says `tunnel closed`, or `no tunnel running`, no tunnel is    *)
(* left, those of opens that failed or gave up included: each has ended or  *)
(* been told to.  With the same two exceptions.                             *)
NoneLeft == [][\A r \in Runs :
  at[r] \notin {"closed", "nothing"} /\ (at'[r] \in {"closed", "nothing"}) /\ ~raced' /\ ~Interrupted
    => \A p \in Pids : proc'[p] # "ssh"]_vars

(* close signals a stranger only when a tunnel had ended without it, or     *)
(* invocations overlapped or were interrupted: the pidfile of a tunnel that *)
(* close has ended is gone before the pid can be another's to it.           *)
SparesStrangers == [][\A r \in Runs :
  at[r] = "term" /\ (at'[r] = "drop") /\ proc[pid[r]] = "mine"
    => raced \/ died \/ Interrupted]_vars

=============================================================================
