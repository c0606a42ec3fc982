------------------------------ MODULE Monitor ------------------------------
(***************************************************************************)
(* ccxctl monitor tui (control-plane/ccx/monitor_tui.py): a loop that asks *)
(* two sources for agent sessions, draws a frame and waits for a key.  The *)
(* local source is gathered in pieces -- the tmux windows, the agent in    *)
(* each, then the processes of /proc that are not among those -- while     *)
(* agents start and end; the other one is an ssh that may fail.            *)
(*                                                                         *)
(* External: agents (told apart by pid) in windows and outside of them,    *)
(* the way to the ccx host, and the terminal, whose keys wait in the       *)
(* kernel until Python takes all there are and hands out one.              *)
(***************************************************************************)
EXTENDS Naturals, Sequences, FiniteSets

CONSTANTS
  Agents,    \* pids of claude processes
  Windows,   \* windows of the tmux session
  None,      \* no pid, no window, no filter
  MaxKeys    \* bound on the keys typed

Gone == "gone"
Outside == "outside"

ASSUME MonitorAssumption ==
  None \notin Agents \union Windows /\ {Gone, Outside} \intersect Windows = {} /\ MaxKeys \in Nat

Sources == {"local", "ccx"}
Keys == {"q", "r", "f"}
Rows == [pid : Agents \union {None}, window : Windows \union {None}]

VARIABLES
  where,     \* of each agent: a window, Outside, or Gone
  open,      \* the windows there are
  reach,     \* whether the ccx host answers
  kernel,    \* keys typed and not yet taken from the terminal
  ahead,     \* keys that sys.stdin has taken and not yet handed out
  typed,     \* how many keys have been typed
  mode,      \* of the terminal
  tty,       \* whether there is one
  stage,        \* where the loop is
  filter,    \* filter_source
  todo,      \* windows, then pids, that are still to be looked at
  rows,      \* local rows so far
  ccx,       \* what fetch_ccx returned: "nothing" when it was not asked
  unreachable,
  steady,    \* history: agents that have lived all through the gathering
  seen       \* history: agents that have lived at some time of it

world == <<where, open, reach>>
keys == <<kernel, ahead, typed>>
gathered == <<rows, ccx, unreachable>>
tuiVars == <<world, keys, mode, tty, stage, filter, todo, gathered, steady, seen>>

Alive == {p \in Agents : where[p] # Gone}
Shown == {row.pid : row \in rows} \ {None}

TuiInit ==
  /\ where \in [Agents -> {Gone, Outside}] /\ open = {} /\ reach \in BOOLEAN
  /\ kernel = <<>> /\ ahead = <<>> /\ typed = 0
  /\ mode = "cooked" /\ tty \in BOOLEAN
  /\ stage = "begin" /\ filter \in {None} \union Sources
  /\ todo = {} /\ rows = {} /\ ccx = "nothing" /\ unreachable = {}
  /\ steady = {} /\ seen = {}

-----------------------------------------------------------------------------
(* Before the loop: without a terminal there is one frame and no keys. *)

BeginInCbreak ==
  /\ stage = "begin"
  /\ mode' = IF tty THEN "cbreak" ELSE mode
  /\ stage' = IF tty THEN "guard" ELSE "gather"
  /\ UNCHANGED <<world, keys, tty, filter, todo, gathered, steady, seen>>

Begin ==
  /\ stage = "begin"
  /\ stage' = IF tty THEN "guard" ELSE "gather"
  /\ UNCHANGED <<world, keys, mode, tty, filter, todo, gathered, steady, seen>>

\* tcgetattr and the handlers, then setcbreak, which discards what was typed.
Guard ==
  /\ stage = "guard"
  /\ stage' = "cbreak"
  /\ UNCHANGED <<world, keys, mode, tty, filter, todo, gathered, steady, seen>>

Cbreak ==
  /\ stage = "cbreak"
  /\ mode' = "cbreak" /\ kernel' = <<>> /\ stage' = "gather"
  /\ UNCHANGED <<world, ahead, typed, tty, filter, todo, gathered, steady, seen>>

-----------------------------------------------------------------------------
(* collect_rows: the sources that the filter names, one after the other. *)

Gather ==
  /\ stage = "gather"
  /\ rows' = {} /\ ccx' = "nothing" /\ unreachable' = {} /\ todo' = {}
  /\ stage' = IF filter = "ccx" THEN "ssh" ELSE "windows"
  /\ steady' = Alive /\ seen' = Alive
  /\ UNCHANGED <<world, keys, mode, tty, filter>>

AfterLocal == IF filter = "local" THEN "draw" ELSE "ssh"

\* What raises in fetch_local is all of the local source: no row of it is left.
LocalFails ==
  /\ stage' = AfterLocal
  /\ unreachable' = unreachable \union {"local"}
  /\ rows' = {} /\ todo' = {}

\* tmux list-windows; no answer in three seconds raises.
ListWindows ==
  /\ stage = "windows"
  /\ \/ stage' = "agents" /\ todo' = open /\ UNCHANGED <<rows, unreachable>>
     \/ LocalFails
  /\ UNCHANGED <<world, keys, mode, tty, filter, ccx, steady, seen>>

\* find_agent_pid: the first agent among the processes of the window.  None is
\* found in a window of another kind of agent, or when a file of /proc is gone.
FindAgent ==
  /\ stage = "agents"
  /\ \E w \in todo :
       /\ todo' = todo \ {w}
       /\ LET inside == {p \in Agents : where[p] = w} IN
          \E p \in inside \union {None} :
            rows' = rows \union {[pid |-> p, window |-> w]}
  /\ UNCHANGED <<world, keys, mode, tty, stage, filter, ccx, unreachable, steady, seen>>

ListAllProcesses ==
  /\ stage = "agents" /\ todo = {}
  /\ todo' = Alive /\ stage' = "scan"
  /\ UNCHANGED <<world, keys, mode, tty, filter, gathered, steady, seen>>

\* os.listdir of /proc, less the pids of the rows so far.
ListProcesses ==
  /\ stage = "agents" /\ todo = {}
  /\ todo' = Alive \ Shown /\ stage' = "scan"
  /\ UNCHANGED <<world, keys, mode, tty, filter, gathered, steady, seen>>

ScanOutside ==
  /\ stage = "scan"
  /\ \E p \in todo :
       /\ todo' = todo \ {p}
       /\ rows' = IF where[p] # Outside THEN rows
                  ELSE rows \union {[pid |-> p, window |-> None]}
  /\ UNCHANGED <<world, keys, mode, tty, stage, filter, ccx, unreachable, steady, seen>>

\* One of them; it may have ended since.
Scan ==
  /\ stage = "scan"
  /\ \E p \in todo :
       /\ todo' = todo \ {p}
       /\ rows' = IF where[p] = Gone THEN rows
                  ELSE rows \union {[pid |-> p, window |-> None]}
  /\ UNCHANGED <<world, keys, mode, tty, stage, filter, ccx, unreachable, steady, seen>>

\* A process that ends while its comm or stat is read, or a transcript line
\* that is JSON and not an entry, raises what nothing here catches.
ScanFails ==
  /\ stage = "scan" /\ todo # {}
  /\ LocalFails
  /\ UNCHANGED <<world, keys, mode, tty, filter, ccx, steady, seen>>

Scanned ==
  /\ stage = "scan" /\ todo = {}
  /\ stage' = AfterLocal
  /\ UNCHANGED <<world, keys, mode, tty, filter, todo, gathered, steady, seen>>

\* fetch_ccx: an ssh that fails, hangs or answers no JSON is an empty list; an
\* output that is no text, or a row that is none, raises.
FetchCcx ==
  /\ stage = "ssh" /\ stage' = "draw"
  /\ \/ ccx' = (IF reach THEN "rows" ELSE "empty") /\ UNCHANGED unreachable
     \/ unreachable' = unreachable \union {"ccx"} /\ UNCHANGED ccx
  /\ UNCHANGED <<world, keys, mode, tty, filter, todo, rows, steady, seen>>

Quits == IF tty THEN "restore" ELSE "over"

\* The rate limits are read from another program's file, and drawing raises
\* when it is not as expected.
Draw ==
  /\ stage = "draw"
  /\ stage' \in {IF tty THEN "key" ELSE "over", Quits}
  /\ UNCHANGED <<world, keys, mode, tty, filter, todo, gathered, steady, seen>>

-----------------------------------------------------------------------------
(* _key_pressed: select() asks the kernel, read(1) takes what sys.stdin has *)
(* ahead, and else all that the kernel has.                                 *)

CycleFilter == CASE filter = None -> "local" [] filter = "local" -> "ccx"
                 [] OTHER -> None

Obeys(key) ==
  /\ stage' = IF key = "q" THEN "restore" ELSE "gather"
  /\ filter' = IF key = "f" THEN CycleFilter ELSE filter

KeyLatest ==
  /\ stage = "key" /\ kernel # <<>>
  /\ kernel' = <<>> /\ UNCHANGED ahead
  /\ Obeys(kernel[Len(kernel)])
  /\ UNCHANGED <<world, typed, mode, tty, todo, gathered, steady, seen>>

Key ==
  /\ stage = "key" /\ kernel # <<>>
  /\ \/ /\ ahead # <<>>
        /\ ahead' = Tail(ahead) /\ UNCHANGED kernel
        /\ Obeys(Head(ahead))
     \/ /\ ahead = <<>>
        /\ ahead' = Tail(kernel) /\ kernel' = <<>>
        /\ Obeys(Head(kernel))
  /\ UNCHANGED <<world, typed, mode, tty, todo, gathered, steady, seen>>

\* The interval is over without a key.
NoKey ==
  /\ stage = "key" /\ kernel = <<>>
  /\ stage' = "gather"
  /\ UNCHANGED <<world, keys, mode, tty, filter, todo, gathered, steady, seen>>

\* The finally block, and atexit.
Restore ==
  /\ stage = "restore"
  /\ stage' = "over" /\ mode' = "cooked"
  /\ UNCHANGED <<world, keys, tty, filter, todo, gathered, steady, seen>>

\* SIGTERM or SIGHUP: the handler restores the terminal, then dies of it;
\* before it is installed the process just dies.
Signal ==
  /\ stage # "over" /\ stage' = "over"
  /\ mode' = IF stage \in {"begin", "guard"} THEN mode ELSE "cooked"
  /\ UNCHANGED <<world, keys, tty, filter, todo, gathered, steady, seen>>

\* Ctrl-C raises KeyboardInterrupt, which nothing catches.  (One more of them
\* in the finally block leaves the restoring to atexit.)
TuiInterrupt ==
  /\ stage \notin {"over", "restore"}
  /\ stage' = IF stage \in {"begin", "guard"} THEN "over" ELSE Quits
  /\ UNCHANGED <<world, keys, mode, tty, filter, todo, gathered, steady, seen>>

-----------------------------------------------------------------------------
(* The world *)

AgentStarts ==
  /\ \E p \in Agents, place \in open \union {Outside} :
       /\ where[p] = Gone /\ where' = [where EXCEPT ![p] = place]
       /\ seen' = seen \union {p}
  /\ UNCHANGED <<open, reach, keys, mode, tty, stage, filter, todo, gathered, steady>>

AgentEnds ==
  /\ \E p \in Alive :
       where' = [where EXCEPT ![p] = Gone] /\ steady' = steady \ {p}
  /\ UNCHANGED <<open, reach, keys, mode, tty, stage, filter, todo, gathered, seen>>

WindowOpens ==
  /\ \E w \in Windows \ open : open' = open \union {w}
  /\ UNCHANGED <<where, reach, keys, mode, tty, stage, filter, todo, gathered, steady, seen>>

\* A window ends with the agents in it.
WindowCloses ==
  /\ \E w \in open :
       LET inside == {p \in Agents : where[p] = w} IN
       /\ open' = open \ {w}
       /\ where' = [p \in Agents |-> IF p \in inside THEN Gone ELSE where[p]]
       /\ steady' = steady \ inside
  /\ UNCHANGED <<reach, keys, mode, tty, stage, filter, todo, gathered, seen>>

NetworkChanges ==
  /\ reach' = ~reach
  /\ UNCHANGED <<where, open, keys, mode, tty, stage, filter, todo, gathered, steady, seen>>

Types ==
  /\ tty /\ stage # "over" /\ typed < MaxKeys /\ typed' = typed + 1
  /\ \E key \in Keys : kernel' = Append(kernel, key)
  /\ UNCHANGED <<world, ahead, mode, tty, stage, filter, todo, gathered, steady, seen>>

Loop ==
  \/ Begin \/ Guard \/ Cbreak
  \/ Gather \/ ListWindows \/ FindAgent \/ ListProcesses \/ Scan \/ ScanFails \/ Scanned
  \/ FetchCcx \/ Draw
  \/ Key \/ NoKey \/ Restore

TuiNext ==
  \/ Loop \/ Signal \/ TuiInterrupt \/ Types
  \/ AgentStarts \/ AgentEnds \/ WindowOpens \/ WindowCloses \/ NetworkChanges

TuiSpec == TuiInit /\ [][TuiNext]_tuiVars
TuiLiveSpec == TuiSpec /\ WF_tuiVars(Loop)

-----------------------------------------------------------------------------
TuiPlaces == {"begin", "guard", "cbreak", "gather", "windows", "agents", "scan", "ssh",
           "draw", "key", "restore", "over"}

TuiTypeOK ==
  /\ where \in [Agents -> Windows \union {Outside, Gone}]
  /\ open \subseteq Windows /\ \A p \in Agents : where[p] \in open \union {Outside, Gone}
  /\ reach \in BOOLEAN /\ tty \in BOOLEAN
  /\ kernel \in Seq(Keys) /\ ahead \in Seq(Keys)
  /\ typed \in 0..MaxKeys /\ Len(kernel) + Len(ahead) <= typed
  /\ mode \in {"cooked", "cbreak"} /\ stage \in TuiPlaces
  /\ filter \in {None} \union Sources
  /\ todo \subseteq Windows \union Agents /\ rows \subseteq Rows
  /\ ccx \in {"nothing", "rows", "empty"} /\ unreachable \subseteq Sources
  /\ steady \subseteq seen /\ seen \subseteq Agents

HasLocal == stage = "draw" /\ filter # "ccx" /\ "local" \notin unreachable

(* A frame shows every agent that lived while it was gathered, wherever     *)
(* windows opened and closed, and none that did not live at any time of it. *)
FrameTrue == HasLocal => steady \subseteq Shown /\ Shown \subseteq seen

(* No agent that lived while the frame was gathered is shown twice: what    *)
(* has been found in a window is left out of the scan.  (A pid that another *)
(* agent has been given in the meantime may be there with both.)            *)
EachOnce == \A a, b \in rows : a.pid = b.pid /\ a.pid \in steady => a = b

(* However the monitor ends, the terminal has its mode back (`belt-and-     *)
(* suspenders`); SIGKILL and SIGQUIT, which no handler is for, are left out.*)
Restored == stage = "over" => mode = "cooked"

(* q quits (the frame's title), when nothing was typed before it that has   *)
(* not been handed out, and setcbreak is over.                              *)
QuitEnds == (kernel = <<"q">> /\ ahead = <<>> /\ mode = "cbreak") ~> (stage = "over")

=============================================================================
