---------------------------- MODULE TmuxSessions ----------------------------
(***************************************************************************)
(* ccxctl session (control-plane/ccx/sessions.py, agents.py): coding       *)
(* agents in windows of one tmux session, a window named agent:slug per    *)
(* project.  Every invocation asks tmux, then acts on the answer; others   *)
(* act in between, and agents end.                                         *)
(*                                                                         *)
(* tmux is external.  What matters of it here: a target names a window     *)
(* exactly, or else by a prefix of its name, and is no target at all when  *)
(* several windows fit; a session ends with its last window.  A typed slug *)
(* is free text and may begin an agent's name; that it may be a number or  *)
(* a pattern of tmux's is left out.                                        *)
(***************************************************************************)
EXTENDS Integers, FiniteSets

CONSTANTS
  Runs,       \* invocations of ccxctl session
  Dirs,       \* project directories
  Slugs,      \* what slug() makes of them, and what users type
  SlugOf,     \* slug(), which only keeps the last part of a path
  Extends,    \* pairs of slugs, the first a proper prefix of the second
  Starts,     \* pairs of a slug and the name of an agent that begins with it
  Agents,     \* the agents of the catalog
  Default,    \* DEFAULT_AGENT
  Unknown,    \* a name that is not in the catalog
  None        \* no agent: an old window's bare slug, or the option not given

Shell == "shell"

ASSUME TmuxAssumption ==
  /\ SlugOf \in [Dirs -> Slugs] /\ Shell \notin Slugs
  /\ Extends \subseteq Slugs \X (Slugs \union {Shell})
  /\ Starts \subseteq Slugs \X Agents
  /\ \A s \in Slugs : <<s, s>> \notin Extends
  /\ Default \in Agents /\ Unknown \notin Agents
  /\ None \notin Agents \union {Unknown}

Names == [agent : Agents \union {None}, slug : Slugs \union {Shell}]
Windows == [id : Nat, name : Names, dir : Dirs \union {None}]
NoName == [agent |-> None, slug |-> Shell]
NoWindow == [id |-> 0, name |-> NoName, dir |-> None]

VARIABLES
  windows,     \* of the session ccx, which exists when there are any
  count,       \* windows opened so far
  at,          \* where a run is
  cmd,         \* its command
  dir, agent, slug,  \* --dir, --agent and the slug, as given or derived
  target,      \* the window name it has resolved
  found,       \* the window it found, made or attached to
  rows,        \* what the menu showed
  raced        \* history, see Check

args == <<cmd, dir, agent, slug>>
vars == <<windows, count, at, args, target, found, rows, raced>>

Name(a, s) == [agent |-> a, slug |-> s]
Goes(r, place) == at' = [at EXCEPT ![r] = place]

Named(n) == {w \in windows : w.name = n}

\* agent:slug begins what the same agent's longer slugs are called, a bare
\* slug also every window of an agent whose name it begins.
Begins(n, m) ==
  \/ m.agent = n.agent /\ <<n.slug, m.slug>> \in Extends
  \/ n.agent = None /\ <<n.slug, m.agent>> \in Starts
Longer(n) == {w \in windows : Begins(n, w.name)}
Unique(W) == IF Cardinality(W) = 1 THEN W ELSE {}

(* The window that -t ccx:n is for; the empty set when tmux fails. *)
Target(n) == Unique(IF Named(n) # {} THEN Named(n) ELSE Longer(n))

Opens(n, d) ==
  /\ count' = count + 1
  /\ windows' = windows \union {[id |-> count + 1, name |-> n, dir |-> d]}

Init ==
  /\ \/ windows = {} /\ count = 0
     \/ \E d \in Dirs :   \* a window of the time before agent prefixes
          /\ windows = {[id |-> 1, name |-> Name(None, SlugOf[d]), dir |-> d]}
          /\ count = 1
  /\ at = [r \in Runs |-> "idle"] /\ cmd = [r \in Runs |-> "none"]
  /\ dir = [r \in Runs |-> None] /\ agent = [r \in Runs |-> None]
  /\ slug = [r \in Runs |-> Shell] /\ target = [r \in Runs |-> NoName]
  /\ found = [r \in Runs |-> NoWindow] /\ rows = [r \in Runs |-> {}]
  /\ raced = FALSE

-----------------------------------------------------------------------------
(* launch *)

Launch(r, d, a) ==
  /\ at[r] = "idle"
  /\ cmd' = [cmd EXCEPT ![r] = "launch"]
  /\ dir' = [dir EXCEPT ![r] = d]
  /\ agent' = [agent EXCEPT ![r] = a]
  /\ slug' = [slug EXCEPT ![r] = SlugOf[d]]
  /\ IF a \in Agents
     THEN Goes(r, "ensure") /\ target' = [target EXCEPT ![r] = Name(a, SlugOf[d])]
     ELSE Goes(r, "failed") /\ UNCHANGED target
  /\ UNCHANGED <<windows, count, found, rows, raced>>

\* new-session fails when the session exists; a new one has a shell.
Ensure(r) ==
  /\ at[r] = "ensure"
  /\ IF windows = {} THEN Opens(NoName, None) ELSE UNCHANGED <<windows, count>>
  /\ Goes(r, "check")
  /\ UNCHANGED <<args, target, found, rows, raced>>

CheckNothing(r) ==
  /\ at[r] = "check"
  /\ Goes(r, "create")
  /\ UNCHANGED <<windows, count, args, target, found, rows, raced>>

\* `raced`: two launches are about to make a window of the same name.
Check(r) ==
  /\ at[r] = "check"
  /\ IF Target(target[r]) = {}
     THEN /\ Goes(r, "create")
          /\ raced' = (raced \/ (\E q \in Runs : at[q] = "create" /\ target[q] = target[r]))
          /\ UNCHANGED found
     ELSE /\ Goes(r, "already")
          /\ \E w \in Target(target[r]) : found' = [found EXCEPT ![r] = w]
          /\ UNCHANGED raced
  /\ UNCHANGED <<windows, count, args, target, rows>>

\* Nobody looks at tmux's answer: without a session nothing is opened.
Create(r) ==
  /\ at[r] = "create"
  /\ IF windows = {} THEN UNCHANGED <<windows, count>>
                     ELSE Opens(target[r], dir[r])
  /\ Goes(r, "launched")
  /\ UNCHANGED <<args, target, found, rows, raced>>

-----------------------------------------------------------------------------
(* kill and attach *)

\* agent:slug, or a bare slug with or without --agent; only --agent is
\* looked up, but no window is named for an unknown agent.
Aim(r, c, s, a) ==
  /\ at[r] = "idle"
  /\ cmd' = [cmd EXCEPT ![r] = c]
  /\ slug' = [slug EXCEPT ![r] = s]
  /\ agent' = [agent EXCEPT ![r] = a]
  /\ IF a \in Agents
     THEN Goes(r, "act") /\ target' = [target EXCEPT ![r] = Name(a, s)]
     ELSE Goes(r, IF a = None THEN "resolve" ELSE "failed") /\ UNCHANGED target
  /\ UNCHANGED <<windows, count, dir, found, rows, raced>>

\* Without --agent: a window that the bare slug fits, which an old one's
\* name does but also any that begins with it, else the default agent's.
Resolve(r) ==
  /\ at[r] = "resolve"
  /\ LET old == Name(None, slug[r])
     IN  target' = [target EXCEPT ![r] =
           IF Target(old) # {} THEN old ELSE Name(Default, slug[r])]
  /\ Goes(r, "act")
  /\ UNCHANGED <<windows, count, args, found, rows, raced>>

Kill(r) ==
  /\ at[r] = "act" /\ cmd[r] = "kill"
  /\ windows' = windows \ Target(target[r])
  /\ Goes(r, "killed")
  /\ UNCHANGED <<count, args, target, found, rows, raced>>

Attach(r) ==
  /\ at[r] = "act" /\ cmd[r] = "attach"
  /\ \/ Target(target[r]) = {} /\ Goes(r, "failed") /\ UNCHANGED found
     \/ \E w \in Target(target[r]) :
          found' = [found EXCEPT ![r] = w] /\ Goes(r, "attached")
  /\ UNCHANGED <<windows, count, args, target, rows, raced>>

-----------------------------------------------------------------------------
(* menu *)

Menu(r) ==
  /\ at[r] = "idle"
  /\ cmd' = [cmd EXCEPT ![r] = "menu"]
  /\ rows' = [rows EXCEPT ![r] = windows]
  /\ Goes(r, IF windows = {} THEN "done" ELSE "menu")
  /\ UNCHANGED <<windows, count, dir, agent, slug, target, found, raced>>

(* cmd_attach is called as a Python function with the bare slug: agent_name *)
(* is then the typer.Option object, which is true and no agent's name, and  *)
(* get_agent raises ValueError.                                             *)
PickRow(r) ==
  /\ at[r] = "menu"
  /\ \/ Goes(r, "done") /\ UNCHANGED slug
     \/ \E w \in rows[r] : slug' = [slug EXCEPT ![r] = w.name.slug] /\ Goes(r, "failed")
  /\ UNCHANGED <<windows, count, cmd, dir, agent, target, found, rows, raced>>

-----------------------------------------------------------------------------
\* An agent or a shell ends, and its window with it.
Exits ==
  /\ \E w \in windows : windows' = windows \ {w}
  /\ UNCHANGED <<count, at, args, target, found, rows, raced>>

Next ==
  \/ \E r \in Runs :
       \/ \E d \in Dirs, a \in Agents \union {Unknown} : Launch(r, d, a)
       \/ Ensure(r) \/ Check(r) \/ Create(r)
       \/ \E c \in {"kill", "attach"}, s \in Slugs, a \in Agents \union {Unknown, None} :
            Aim(r, c, s, a)
       \/ Resolve(r) \/ Kill(r) \/ Attach(r)
       \/ Menu(r) \/ PickRow(r)
  \/ Exits

Spec == Init /\ [][Next]_vars

-----------------------------------------------------------------------------
Places == {"idle", "ensure", "check", "create", "resolve", "act", "menu",
           "launched", "already", "killed", "attached", "done", "failed"}

TypeOK ==
  /\ windows \subseteq Windows /\ IsFiniteSet(windows)
  /\ count \in Nat
  /\ \A w \in windows : w.id <= count
  /\ at \in [Runs -> Places]
  /\ cmd \in [Runs -> {"none", "launch", "kill", "attach", "menu"}]
  /\ dir \in [Runs -> Dirs \union {None}]
  /\ agent \in [Runs -> Agents \union {Unknown, None}]
  /\ slug \in [Runs -> Slugs \union {Shell}]
  /\ target \in [Runs -> Names] /\ found \in [Runs -> Windows]
  /\ rows \in [Runs -> SUBSET Windows] /\ raced \in BOOLEAN

(* A project has one window per agent, as the names say, unless two         *)
(* launches of it have passed the check at the same time.                   *)
NeverTwice == ~raced =>
  \A v, w \in windows : v.name = w.name /\ v.name # NoName => v = w

(* After a kill no window has the name that it says it killed, unless a     *)
(* race made two of them, of which tmux then takes neither.                 *)
KilledIsGone == [][\A r \in Runs :
  at[r] = "act" /\ at'[r] = "killed" /\ ~raced
    => \A w \in windows' : w.name # target[r]]_vars

(* launch gives DIR a window running the given agent (its docstring): what  *)
(* it finds open already is a window of that directory.                     *)
LaunchServes == \A r \in Runs :
  at[r] = "already" => found[r].dir = dir[r] /\ found[r].name = target[r]

=============================================================================
