------------------------------ MODULE Settings ------------------------------
(***************************************************************************)
(* The commands that edit ~/.claude/settings.json: claude-bedrock,         *)
(* claude-sub and claude-provider (control-plane/ccx/claude_provider.py),  *)
(* ccxctl ccxd install-hooks and uninstall-hooks (ccx/ccxd_cli.py).  Each  *)
(* reads the file, changes what it has read, and writes it all back with   *)
(* write_text, which empties the file first.  There is no lock.            *)
(*                                                                         *)
(* Of the settings: for each key of `env` whether it has the value of      *)
(* BEDROCK_ENV or one of the user's; the model; for each event of `hooks`  *)
(* its matchers, each a set of hooks and told apart by who wrote it.  The  *)
(* user (or Claude Code) edits the file in one step, and not in the        *)
(* instant between the two halves of a write.                              *)
(***************************************************************************)
EXTENDS Naturals, FiniteSets

CONSTANTS
  Runs,         \* invocations of the commands
  User,         \* who wrote a matcher that no run did
  HookEvents,   \* _HOOK_EVENTS
  OtherEvents,  \* events of the user's hooks only
  BedrockKeys,  \* the keys of BEDROCK_ENV
  OtherKeys,    \* other keys of env
  OwnHooks,     \* the user's hooks
  Emitter,      \* a hook whose command holds _MARKER
  MaxEdits      \* bound on the user's edits

ASSUME SettingsAssumption ==
  /\ User \notin Runs /\ Emitter \notin OwnHooks
  /\ HookEvents \intersect OtherEvents = {} /\ BedrockKeys \intersect OtherKeys = {}
  /\ BedrockKeys # {} /\ HookEvents # {} /\ MaxEdits \in Nat

Events == HookEvents \union OtherEvents
Keys == BedrockKeys \union OtherKeys
Matchers == [by : Runs \union {User}, hooks : SUBSET (OwnHooks \union {Emitter})]
Contents == [env : [Keys -> {"unset", "bedrock", "own"}],
             model : {"unset", "opus", "sub", "own"},
             hooks : [Events -> SUBSET Matchers]]

Fresh == [env |-> [k \in Keys |-> "unset"], model |-> "unset",
          hooks |-> [e \in Events |-> {}]]

\* What the file is when it cannot be read as settings: it does not exist,
\* has been emptied, or holds a text with the end of a longer one after it.
Absent == [text |-> "absent"]
Empty == [text |-> "empty"]
Garbled == [text |-> "garbled"]
Unreadable == {Absent, Empty, Garbled}

Commands == {"bedrock", "subscription", "install", "uninstall", "provider"}

VARIABLES
  file,
  at, cmd,   \* where a run is, and its command
  buf,       \* the settings a run holds
  stale,     \* history: the file has changed since the run read it
  raced,     \* history: a run has written over such a change
  latest,    \* history: the last command of each pair that has completed
  own,       \* history: the keys and hooks the user has put in
  edits

vars == <<file, at, cmd, buf, stale, raced, latest, own, edits>>

Readable == file \notin Unreadable
Goes(r, place) == at' = [at EXCEPT ![r] = place]
Touched(r) == [q \in Runs |-> stale[q] \/ q # r]

Init ==
  /\ file \in {Absent, Fresh}
  /\ at = [r \in Runs |-> "idle"] /\ cmd = [r \in Runs |-> "none"]
  /\ buf = [r \in Runs |-> Absent] /\ stale = [r \in Runs |-> FALSE]
  /\ raced = FALSE /\ latest = [provider |-> "none", hooks |-> "none"]
  /\ own = [keys |-> {}, hooks |-> {}] /\ edits = 0

-----------------------------------------------------------------------------
(* What the commands make of the settings they have read. *)

Bedrock(s) == [s EXCEPT
  !.env = [k \in Keys |-> IF k \in BedrockKeys THEN "bedrock" ELSE s.env[k]],
  !.model = "opus"]

SubscriptionOneKey(s) == [s EXCEPT
  !.env = [k \in Keys |-> IF k = (CHOOSE b \in BedrockKeys : TRUE) THEN "unset"
                                                                   ELSE s.env[k]],
  !.model = "sub"]

Subscription(s) == [s EXCEPT
  !.env = [k \in Keys |-> IF k \in BedrockKeys THEN "unset" ELSE s.env[k]],
  !.model = "sub"]

CleanedWhole(matchers) == {m \in matchers : Emitter \notin m.hooks}

\* Without our entries; a matcher that has no hook left is dropped.
Cleaned(matchers) ==
  {m \in {[n EXCEPT !.hooks = @ \ {Emitter}] : n \in matchers} : m.hooks # {}}

Entry(r) == [by |-> r, hooks |-> {Emitter}]

InstallAgain(s, r) == [s EXCEPT !.hooks = [e \in Events |->
  IF e \in HookEvents THEN s.hooks[e] \union {Entry(r)} ELSE s.hooks[e]]]

Install(s, r) == [s EXCEPT !.hooks = [e \in Events |->
  IF e \in HookEvents THEN Cleaned(s.hooks[e]) \union {Entry(r)} ELSE s.hooks[e]]]

Uninstall(s) == [s EXCEPT !.hooks = [e \in Events |-> Cleaned(s.hooks[e])]]

Edited(s, r) ==
  CASE cmd[r] = "bedrock"      -> Bedrock(s)
    [] cmd[r] = "subscription" -> Subscription(s)
    [] cmd[r] = "install"      -> Install(s, r)
    [] cmd[r] = "uninstall"    -> Uninstall(s)

-----------------------------------------------------------------------------
(* A run *)

\* Inside a live session claude-bedrock and claude-sub want --force, which
\* install-hooks and uninstall-hooks ask for too and then have no option for.
Obeyed(c, inSession, force) ==
  CASE c = "provider" -> TRUE
    [] c \in {"bedrock", "subscription"} -> ~inSession \/ force
    [] OTHER -> ~inSession /\ ~force

Invoke(r, c, inSession, force) ==
  /\ at[r] = "idle"
  /\ cmd' = [cmd EXCEPT ![r] = c]
  /\ Goes(r, IF Obeyed(c, inSession, force) THEN "load" ELSE "refused")
  /\ UNCHANGED <<file, buf, stale, raced, latest, own, edits>>

\* _load: a file that does not parse ends the run with a traceback.
Load(r) ==
  /\ at[r] = "load"
  /\ \/ ~Readable /\ Goes(r, "failed") /\ UNCHANGED <<buf, stale>>
     \/ Readable /\ cmd[r] = "provider" /\ Goes(r, "shown") /\ UNCHANGED <<buf, stale>>
     \/ /\ Readable /\ cmd[r] # "provider"
        /\ buf' = [buf EXCEPT ![r] = Edited(file, r)]
        /\ stale' = [stale EXCEPT ![r] = FALSE]
        /\ Goes(r, "open")
  /\ UNCHANGED <<file, cmd, raced, latest, own, edits>>

\* _save: write_text opens the file, which empties it ...
Open(r) ==
  /\ at[r] = "open"
  /\ file' = Empty
  /\ Goes(r, "write")
  /\ UNCHANGED <<cmd, buf, stale, raced, latest, own, edits>>

\* ... and writes from the beginning, over what another run has written since:
\* the end of a longer text stays.
OverlaidLonger(text) == {text, Garbled}

Overlaid(text) == IF file \in {Empty, text} THEN {text} ELSE {text, Garbled}

Pair(c) == IF c \in {"bedrock", "subscription"} THEN "provider" ELSE "hooks"

Write(r) ==
  /\ at[r] = "write"
  /\ file' \in Overlaid(buf[r])
  /\ stale' = Touched(r)
  /\ raced' = (raced \/ stale[r])
  /\ latest' = [latest EXCEPT ![Pair(cmd[r])] = cmd[r]]
  /\ Goes(r, "done")
  /\ UNCHANGED <<cmd, buf, own, edits>>

\* A run is killed, between the halves of a write if need be.
Kill(r) ==
  /\ at[r] \in {"load", "open", "write"}
  /\ Goes(r, IF at[r] = "write" THEN "cut" ELSE "killed")
  /\ UNCHANGED <<file, cmd, buf, stale, raced, latest, own, edits>>

-----------------------------------------------------------------------------
(* The user *)

MayEdit ==
  edits < MaxEdits /\ file \notin {Empty, Garbled} /\ \A r \in Runs : at[r] # "write"

Edits(s) ==
  /\ edits' = edits + 1
  /\ file' = s
  /\ stale' = [r \in Runs |-> TRUE]
  /\ UNCHANGED <<at, cmd, buf, raced>>

Before == IF file = Absent THEN Fresh ELSE file

SetsKey(k) ==
  /\ MayEdit
  /\ Edits([Before EXCEPT !.env[k] = "own"])
  /\ own' = [own EXCEPT !.keys = @ \union {k}]
  /\ latest' = IF k \in BedrockKeys THEN [latest EXCEPT !.provider = "none"] ELSE latest

SetsModel ==
  /\ MayEdit
  /\ Edits([Before EXCEPT !.model = "own"])
  /\ latest' = [latest EXCEPT !.provider = "none"]
  /\ UNCHANGED own

\* A hook goes into a matcher of its own, or into one that is there.
AddsHook(e, h) ==
  /\ MayEdit
  /\ \/ Edits([Before EXCEPT !.hooks[e] = @ \union {[by |-> User, hooks |-> {h}]}])
     \/ \E m \in Before.hooks[e] : Edits([Before EXCEPT !.hooks[e] =
          (@ \ {m}) \union {[m EXCEPT !.hooks = @ \union {h}]}])
  /\ own' = [own EXCEPT !.hooks = @ \union {<<e, h>>}]
  /\ UNCHANGED latest

-----------------------------------------------------------------------------
Next ==
  \/ \E r \in Runs :
       \/ \E c \in Commands, inSession, force \in BOOLEAN : Invoke(r, c, inSession, force)
       \/ Load(r) \/ Open(r) \/ Write(r) \/ Kill(r)
  \/ \E k \in Keys : SetsKey(k)
  \/ SetsModel
  \/ \E e \in Events, h \in OwnHooks : AddsHook(e, h)

Spec == Init /\ [][Next]_vars

-----------------------------------------------------------------------------
Places == {"idle", "refused", "load", "open", "write",
           "done", "shown", "failed", "killed", "cut"}

TypeOK ==
  /\ file \in Contents \union Unreadable
  /\ at \in [Runs -> Places] /\ cmd \in [Runs -> Commands \union {"none"}]
  /\ buf \in [Runs -> Contents \union {Absent}]
  /\ stale \in [Runs -> BOOLEAN] /\ raced \in BOOLEAN
  /\ latest \in [provider : {"none", "bedrock", "subscription"},
                 hooks : {"none", "install", "uninstall"}]
  /\ own \in [keys : SUBSET Keys, hooks : SUBSET (Events \X OwnHooks)]
  /\ edits \in 0..MaxEdits

Ours(e) == {m \in file.hooks[e] : Emitter \in m.hooks}

(* Other env keys are preserved (the provider switch's docstring), and so   *)
(* are the user's hooks, also those in one matcher with ours, by any series *)
(* of commands -- unless a run wrote over a change it had not read.         *)
OwnKept == Readable /\ ~raced =>
  /\ \A k \in own.keys \ BedrockKeys : file.env[k] = "own"
  /\ \A pair \in own.hooks : \E m \in file.hooks[pair[1]] : pair[2] \in m.hooks

(* What the last command of each pair was for is there, whatever the other  *)
(* pair has done since and whoever was killed, with the same exception.     *)
LastWins == Readable /\ ~raced =>
  /\ latest.provider = "bedrock" =>
       file.model = "opus" /\ \A k \in BedrockKeys : file.env[k] = "bedrock"
  /\ latest.provider = "subscription" =>
       file.model = "sub" /\ \A k \in BedrockKeys : file.env[k] = "unset"
  /\ latest.hooks = "install" => \A e \in HookEvents : Ours(e) # {}
  /\ latest.hooks = "uninstall" => \A e \in Events : Ours(e) = {}

(* Even after a race the settings are one writer's whole: the keys of       *)
(* BEDROCK_ENV are there together or not at all, our entry is in every      *)
(* event we hook or in none, and never twice (`keep idempotency`).          *)
NeverHalf == Readable =>
  /\ (\E k \in BedrockKeys : file.env[k] = "bedrock")
       => \A k \in BedrockKeys : file.env[k] # "unset"
  /\ (\E e \in HookEvents : Ours(e) # {}) => \A e \in HookEvents : Ours(e) # {}
  /\ \A e \in Events : \A m, n \in Ours(e) : m = n

(* The file is empty only while a run writes it or because one was killed   *)
(* doing so, and garbled only after two wrote at once.  (No run gets past   *)
(* such a file: only the user can mend it.)                                 *)
BrokenOnlyByWriters ==
  /\ file = Empty => \E r \in Runs : at[r] \in {"write", "cut"}
  /\ file = Garbled => raced

=============================================================================
