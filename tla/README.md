# A verification project for ccx

`ccx` is the control plane of a remote coding station. Its heart is `ccxd`
(`control-plane/ccx/ccxd/`), an asyncio daemon that follows the Claude Code
sessions of a host and streams what it learns to subscribers. Around it are
command-line tools that launch agent sessions in tmux, edit Claude Code's
settings, open tunnels and drive EC2. This directory holds TLA+ models of
`ccxd` and of the tools around it, the TLC instances that check them and TLAPS
proofs about them.

Line numbers refer to the repository's files; `ccxd/x.py` stands for
`control-plane/ccx/ccxd/x.py`.

## Running it

    tlc -workers 2 -config server_stream.cfg MCDaemonServer.tla
    tlapm FilesProofs.tla

`PROJECT.json` lists the runs with their modules, the mutants every property is
tested with, the source lines behind every definition, the hazards and the
theorems.

## The system

| Part | State it keeps | Operations | Speaks to |
|---|---|---|---|
| network layer, `ccxd/server.py` | `_subscribers` (queue -> globs), `_client_tasks`, per handler a `queue` and a `sender_task` | accept, handle a line, broadcast, send, stop | RPC dispatch, hooks; clients over a stream socket |
| RPC dispatch, `ccxd/api.py` | `_subscriptions` (id -> globs) | query, subscribe, unsubscribe, history | state manager |
| hooks, `ccxd/hook_emitter.py`, `ccxd/hooks.py`, heartbeat in `ccxd/__main__.py` | in every session: `subagent_in_flight`, `last_subagent`, `attention` | emit, handle_hook, heartbeat | Claude Code over a datagram socket; state manager; network layer (broadcast) |
| state and stores, `ccxd/state.py`, `ccxd/store.py` | a dict; or a cache and the tables `sessions`, `sessions_history` | upsert, update_fields, remove, get, all, history queries | SQLite |
| tailing, `ccxd/jsonl.py`, `ccxd/tailer.py` | a tailer with an offset per transcript | read_new, parse_deltas, apply | transcripts; state manager |
| watching, `ccxd/inotify.py`, `_process_inotify` | the watches, the kernel's queue | read events, watch new directories | kernel; tailing; broadcast; discovery |
| discovery, `ccxd/discovery.py` | none | discover_sessions | /proc, transcripts; state manager |
| entry point, `ccxd/__main__.py` | shutdown event | discover, bind, watch, serve, stop | systemd |
| tmux sessions, `sessions.py`, `agents.py` | tmux windows named `agent:slug` | launch, list, attach, kill | tmux, /proc |
| settings, `claude_provider.py`, `ccxd_cli.py` | `~/.claude/settings.json` | switch and show provider, install and remove hooks | Claude Code |
| agent-monitor client, `monitor.py` | a pidfile | open, close, status | ssh, an external service |
| monitor TUI, `monitor_tui.py` | filter, rows, the terminal's mode, the keys read ahead | fetch, render, keys, restore | sessions, /proc, ssh |
| cloud control, `cli.py` | none of its own | start, stop, resize, grow, refresh-sg, DNS, snapshot | EC2, Route 53 |
| banner, `motd.py` | none | collectors under one time cap | /proc, IMDS, git |

How they interact inside the daemon: there is one thread and one event loop.
The datagram callback and the inotify callback run synchronously, change the
store and create a task per event to broadcast; a connection has a handler task
and, once it has subscribed, a sender task; the heartbeat is a task; the signal
handler sets an event that the main task waits for. Between two awaits nothing
else runs, so the interleavings are those of the awaits that really suspend,
and of the outside world: clients, emitters, Claude Code writing transcripts,
the kernel's queue, crashes.

What is hard, and what makes each part correct:

- *Network layer.* Two tasks write to one connection; `drain()` may suspend or
  not; a lost connection shows up as an exception in either task; a full queue
  drops a subscriber whose sender still runs; `stop()` cancels handlers at any
  await, the finally block's included. Correct is: answers before events,
  events in broadcast order without gap or repetition, only full queues drop,
  one client cannot hold up another, and every handler cleans up.
- *Hooks.* Emitter processes race into a bounded socket and drop silently;
  hooks of nested Tasks overtake each other; the heartbeat stands in for a lost
  one. Correct is: what is reported in flight is true or about to be corrected,
  the latest subagent is not withdrawn early, subscribers are told.
- *Store.* Autocommit: each statement is a crash point. Correct is: nothing
  accepted is lost, nothing removed returns, the cache is not ahead of the disk.
- *Ingestion.* A transcript grows while it is read, events are about a state
  that has passed, the kernel's queue overflows, a restart replays. Correct is:
  each complete line is consumed once and in order, later if not now.
- *Cloud control.* An invocation is a series of API calls, each on what an
  earlier one read; the widget, a terminal and a second laptop run them at once,
  and any call may fail. Correct is: the laptop is not locked out of the security
  group it is being let into, a start that ended well has left an instance that
  can be reached, a grow that ended well has grown the file system.
- *tmux sessions.* Invocations ask tmux, then act; names are shortened paths, and
  tmux takes a beginning of a name for the name. Correct is: one window per
  project and agent, and after a kill no window of that name.
- *Settings.* Five commands read one file, change what they read and write it all
  back, without a lock and through a moment at which the file is empty; Claude
  Code and the user write it too. Correct is: what the user put in stays, what the
  last command was for is there, and no half of it.
- *Tunnel.* A pidfile stands for a process between invocations; pids are handed
  out again, sshs end by themselves or outlive the open that gave up on them, and
  what answers on a port is not asked for its name. Correct is: a tunnel that
  lives can be closed, a close leaves none, and nobody else's process is ended.
- *Monitor.* A frame is put together from tmux, /proc and ssh while agents start
  and end; keys wait in two buffers; signals and exceptions come at every point.
  Correct is: no agent missing or twice, `q` quits, the terminal is restored.
- *Banner.* Threads that cannot be stopped against a deadline.

## The modules

`EventBus` is the abstract promise of the event stream: a subscription that has
joined is owed every matching event from then on and is handed what it is owed
in order and without a gap, until it is dropped or its delivery ends. It has no
queue bound, no socket and no handler.

`DaemonServer` is the network layer with the subscription RPCs. One action is
what one task does from a suspension to the next:

| Actions | Code |
|---|---|
| `Subscribe`, `Reply`, `SkipLine`, `BadRequest`, `TooLarge` | `_handle_client` from `readline()` to the next await that waits; `Answer` is the write and `drain()`, with its three outcomes: lost, goes on, waits |
| `Drained`, `Leaves`, `Unwind`, `Closed` | the rest of `_handle_client`: a `drain()` returns or raises, end of file or cancellation, the end of the cancelled sender, `wait_closed()` |
| `Send`, `SendFails` | one run of `_send_events`: as many queued events as fit before `drain()` waits |
| `Publish`, `Broadcast` | `create_task(broadcast(...))`, and that task, which never suspends |
| `Stop`, `Gathered`, `Stopped` | `stop()` up to `gather`, up to `Server.wait_closed`, and the rest |
| `Connect`, `Ask`, `Read`, `Disconnect` | clients |

A connection is the sequence of lines written to it (`wire`) and how many of
them the client has read (`rd`). Lines are counted instead of measured: the
kernel's buffer takes `SockBuf` of them and `drain()` waits while more than
`SockBuf + HighWater` are unread. `WaitsForHandlers` tells the Pythons apart
whose `Server.wait_closed()` waits for connections (3.12 and later).
`Finally` removes what the handler's locals name, which after a second
subscribe is the second subscription only: exactly what the code does.
`Bus` is the refinement mapping to `EventBus`.

`Hooks` has the Tasks of every session with the hooks before and after them,
the bounded datagram socket, `handle_hook` by kind of hook, and the heartbeat
over a clock in abstract units. `view` is what a subscriber knows from the
broadcasts; it is updated where `handle_hook` returns an event. Tasks carry
distinct ids (see the limits below). A statement of the store that fails
(`HandleFails`, `HeartbeatFails`) loses the datagram, or ends the heartbeat's task
(`heart`).

`SqliteStore` has the cache, the two tables, and the statement that the call in
progress executes next (`next`, `who`, `new`). A session's content is a
revision number. `StatementFails` and `Crash` may come before any statement;
`Restart` fills the cache from the table. `acked` and `removed` remember what
calls that returned have promised.

`SessionMap` is what the callers may take this for, and what `Ingest` takes it for:
one map, whose writes are single steps and survive a restart. Only a removal is
several steps -- no longer shown, in the history, gone -- and one that was cut off
is shown again. `Map` in `SqliteStore` is the refinement mapping: what is kept is the
table, what is shown is the cache, except between an upsert's two statements, where
it is the row already, and in a daemon that is down, where it is what the next one
will show.

`Ingest` joins transcripts, the kernel's queue, the callback, the tailers and
discovery, over `SqliteStore`, the default: sessions survive a crash, offsets
and watches do not. A transcript is a sequence of lines written in two halves, offsets
count halves, so an incomplete line is an odd size. `ReadEvents` and
`HandleEvent` are `_process_inotify`, one event at a time because Claude Code
writes meanwhile; the batch is empty whenever the callback is not running.
`late` remembers the transcripts whose last write had no event queued for it:
the directory had no watch, or the kernel's queue was full.

`CloudControl` is `ccxctl` against one instance, its security group, its DNS
record and one volume, all of them external and modelled as `cli.py` uses them.
A run has a command and a place in it; an action is one API call with the code up
to the next, so two runs interleave wherever they can. `my`, `stale` and `known`
are `refresh_sg`'s locals (`new_cidr`, what is left to revoke, and whether
`new_cidr` is in `existing`), `got` is `update_dns`'s `ip`. A loop that polls is
the step that ends it (`Arrives`, `Timeout`, `Polled`). `start` and
`refresh-sg` share `LookUp` to `Authorize`, `start` and `refresh-dns` share
`ReadIp` and `Upsert`. `Breaks` is any call that raises. The instance gets a new
address with every boot, of which the boot's number stands. Three history
variables say what a property excuses: `calm[r]` that since start `r` began the
laptop has not moved and the instance not gone down, and that no other run was
then acting on an outdated address; `shared` that two refreshes worked on the rules at once;
`broken` that a modification failed.

`TmuxSessions` is `ccxctl session` against one tmux server. `Target` is what a
name is for tmux: the window of that name, or else the only one whose name begins
with it (`Begins`: the same agent's with a longer slug and, for a bare slug, every
window of an agent whose name it begins). `Check` and `Create` are the two halves of `launch`; `Aim` and
`Resolve` are `_resolve_window_target`; `raced` remembers that two launches were
between the halves for one name.

`Settings` is the file and the commands that edit it: `claude-bedrock`,
`claude-sub`, `claude-provider`, `install-hooks`, `uninstall-hooks`. A run is
`Invoke` (refused in a live session as the command's check has it, `Obeyed`), `Load`
with the change (`Bedrock`, `Subscription`, `Install`, `Uninstall`; `Cleaned` is
the filter the two hook commands share), and `write_text` in its two halves, `Open`, which
empties the file, and `Write`, which writes over what another run may have put
there since (`Overlaid`); `Kill` may come before each. Of the contents the model has
for each key of `env` whose value it is, the model, and the matchers of each event
with their hooks. `SetsKey`, `SetsModel`, `AddsHook` are the user. `raced` remembers
that a run wrote over a change it had not read, which the properties about values
excuse.

`Tunnel` is `monitor open`, `close` and `tunnel` against one pidfile, one port and a
few pids; an action is one system call. `Read`, `Probe`, `Unlink` are `_tunnel_pid`,
`Spawn` to `Deadline` are `open`, `Term` and `Drop` are `close`, `OtherListens` the foreground `tunnel` or any other listener. Pids belong to an ssh of ours, another process
of ours, somebody else's or nobody, and an ssh that ended stays a zombie until the
open that started it polls it or ends. `raced` remembers that a run read the
pidfile while another was between reading it and acting on it, `died` that a tunnel ended without a close.

`Monitor` is the loop of `monitor tui`: `Gather` to `FetchCcx` are `collect_rows`,
call by call, with what raises in a source (`LocalFails`, and in `FetchCcx`), `Key` and `NoKey` are `_key_pressed` with the two buffers a key
may wait in (the kernel's, which `select()` asks, and Python's, which it does not),
`Guard`, `Cbreak`, `Restore`, `Signal`, `TuiInterrupt` the ways into and out of cbreak
mode. `steady` and `seen` remember which agents lived through the whole gathering,
and at some time of it.

`Banner` is the main thread of `motd` with the time its collectors take.

The `MC...` modules define requests, owners and directories for TLC. The
`...Proofs` modules hold the theorems. `FilesProofs` is about the two parts that
write what outlives them, `Settings` and `SqliteStore`, `MonitorProofs` about the two
of `ccxctl monitor`, `Tunnel` and `Monitor`; because a module extends both of a pair,
`SqliteStore` and `Monitor` name their specifications `StoreSpec` and `TuiSpec`, and
their types `StoreTypeOK` and `TuiTypeOK`.

## What is checked

Runs that pass:

| Run | Question | Properties |
|---|---|---|
| `server_stream` | do two subscribers get their streams through full queues, backpressure, lost connections and shutdown? | `InOrder`, `ImplementsBus`, `OnlyFullDropped`, `Delivers`, `HandlersEnd` |
| `server_requests` | does one handler stay consistent whatever lines it is sent, wherever it is interrupted? | `AnswerFirst`, `CleansUp`, `ImplementsBus`, `StopReturns` |
| `hooks` | is what the daemon reports of subagents and attention true, bounded and told to subscribers? | `StaleBound`, `NoGhosts`, `LatestReported`, `Heard`, `GhostsVanish` |
| `store` | does the store keep its promises through crashes and failing statements, and is it one map to its callers? | `CacheBacked`, `NothingLost`, `ImplementsMap` |
| `ingest` | does every complete line reach the session, once and in order? | `MergedExactly`, `OnlyDelayed`, `NeverBackwards`, `KeepsUp` |
| `cloud` | do two invocations of `ccxctl`, whatever fails, leave the instance reachable and the laptop admitted, and end? | `ReadyIsReachable`, `SingleAddress`, `GrownIsGrown`, `NeverLocksOut`, `OnlyForward`, `EveryRunEnds` |
| `sessions` | does a project keep one window per agent, and does a kill leave none of the name? | `NeverTwice`, `KilledIsGone` |
| `settings` | do the user's settings and the last command's survive any series, overlap and kill of the commands? | `OwnKept`, `LastWins`, `NeverHalf`, `BrokenOnlyByWriters` |
| `tunnel` | can every tunnel be closed, is none left when a close says so, and are other processes left alone? | `NoOrphan`, `NoneLeft`, `SparesStrangers` |
| `monitor` | is a frame true, does `q` quit, is the terminal restored? | `FrameTrue`, `EachOnce`, `Restored`, `QuitEnds` |

The type invariants, and `StaysRemoved` and `SurvivesRestart`, are proved for all
constants instead (below).

Bounds, and why they are enough for the cases meant:

- `server_stream`: two clients, one subscription each, queues of one, no
  buffer, two events. The second event finds the queue full or the sender in
  `drain()`, which is all a third could; one client reads for ever and one may
  stop, so that independence means something. `WaitsForHandlers` is TRUE.
- `server_requests`: one client, two lines of eight kinds, two subscriptions,
  queue of two, one line of buffer, two names, two events. Two lines reach
  every pair of requests, a second subscribe included. `WaitsForHandlers` is
  TRUE here too, as of the Python the station installs: the client may connect
  while `stop()` gathers, and `StopReturns` then asks for `stop()`'s last step
  only once that connection is over.
- `hooks`: two nested Tasks of one session, a hook of any kind of either of two
  sessions, a socket of two datagrams, timeout and period of two units, any
  statement failing. Nested
  Tasks give every order of two starts and two ends, and of their loss.
- `store`: two sessions, four revisions, three faults: a session can be
  written, removed half way twice, and written again.
- `ingest`: two transcripts in two directories, one of which is created later,
  one with up to three lines and one with one, a queue of two events and one
  crash. The third event overflows; three lines are what it takes for a session
  discovered at its second turn to be replayed from the first. The lines that
  raise are in the short transcript: what they cost the long one is its events in
  the same batch.
- `cloud`: two invocations of any two of the five commands, typed or picked in
  the menu, two addresses of the laptop and one move, one failure of any kind,
  two sizes to grow to, the instance stopped or running at first, and the rule
  for either address. Two runs with one step between them is what every race in
  `cli.py` takes; one failure can come at every point of both. That more runs
  change nothing for safety is proved.
- `sessions`: three invocations, two checkouts with the same last part and one
  whose name begins with it, two agents, an old window without an agent or none;
  besides the checkouts' slugs, users type `codex`.
  Three runs are two launches that race and a kill after them. Runs are
  interchangeable and every property is about single steps, so symmetry is
  sound.
- `settings`: three invocations of any of the five commands, in a session or not,
  one edit by the user, two events that we hook and one that we do not, two keys of
  ours and one other. Two runs that overlap and one before or after them reach
  every order of two pairs of commands; two keys and two events are what it takes
  to be there by half. The user's hook may share a matcher with ours.
- `tunnel`: three invocations, three pids. Three runs are an open that gives up, an
  open that finds what it left and a close; with a pid for each, the one a pidfile
  names is handed out to somebody else, or again to us. The port may be taken at
  first, or at any time.
- `monitor`: two agents, one window, two keys. Agents move through every place
  between any two calls of a gathering; two keys are one that waits behind another.
  That more agents and windows change nothing for safety is proved.
- `banner_cap`: the collectors that ask something outside, with the numbers of
  calls and timeouts in `motd.py`.

`CHECK_DEADLOCK FALSE` is set where the system may really stop: the server
after `stop()`, the store and the transcripts when the environment does
nothing more (their bounds), runs of a command that are over, the monitor that
has quit. `hooks` is checked for deadlock: its clock ticks
for ever.

Fairness. `DaemonServer`: weak fairness of every task that can go on, which is
what the event loop's ready queue gives; of reading only for the clients in
`Readers`; none of connecting, asking, disconnecting, publishing or stopping.
`Hooks`: weak fairness of reading the socket, the heartbeat and time, none of
the emitters; a heartbeat that has failed beats no more. The heartbeat is taken to run at the moment it is due: the loop
is never held up for a whole unit. `Ingest`: weak fairness of the callback, and
of starting the daemon (systemd restarts it), none of Claude Code.
`CloudControl`: weak fairness of each run's own steps, its deadlines among them,
and of EBS going on with a modification; none of invoking, of picking, of the
instance or of failures. A wait for the instance therefore ends by its deadline
at the latest. `Monitor`: weak fairness of the loop, each of whose calls has a
timeout and whose wait for a key an interval; none of agents, windows, the network,
keys and signals. `TmuxSessions`, `Settings` and `Tunnel` state no liveness: their
runs make a bounded number of calls.

Runs that show a disagreement between code and documents, each with one
property that TLC violates:

| Run | What happens |
|---|---|
| `sessions_launch` | `launch` finds the window of another directory with the same last part (or, by tmux's rule, with a longer name), says that it is open and opens none |
| `banner_cap` | the deadline of `as_completed` ends the taking of results, but the end of the `with` block waits for every thread, and a collector makes up to seven calls of two or three seconds: the design's "global 5 s hard cap" does not hold |

Disagreements met while reading for which there is no run. In the daemon:

- `"events": null` passes validation (`ccxd/api.py:72` reads `or []`) and registers
  `None` (`ccxd/server.py:143`); `broadcast` raises on it and the subscribers after
  it get nothing (the model has this: `Raises`, `Offered`). Such requests are left
  out of the runs, and of the theorems about the bus by their assumption
  `NamesItsEvents`.
- `unsubscribe` empties a table that `broadcast` does not read; events keep coming.
- On an overflow the inotify callback returns before it watches new directories,
  and no later event makes up for it: their transcripts are followed only from the
  next start (`late`, which `OnlyDelayed` and `KeepsUp` except).
- One inotify callback may schedule more broadcasts than a queue holds, all of
  which run before the sender does: a client that has read everything is dropped
  as slow (the model has this; `OnlyFullDropped` is what remains true).
- `stop()` waits for `writer.wait_closed()`, and that for a client that leaves
  lines unread; nothing bounds it by the two seconds of the design.
  `StopReturns` is therefore checked with clients that go on reading.
- The control socket listens until the handlers are gathered
  (`ccxd/server.py:86`-`92`). The handler of a client that connects in between is
  cancelled by nobody, and from Python 3.12 on, which the station installs
  (`ansible/roles/asdf/tasks/main.yml:40`, the latest), `Server.wait_closed()` waits
  for it: as long as that client stays, the daemon neither unlinks its sockets nor
  exits, until systemd kills it, against
  `docs/superpowers/specs/2026-04-30-ccxd-daemon-design.md:323`. The model has this;
  `StopReturns` leaves out just this wait (`Late`).
- Nobody awaits the heartbeat's task before shutdown (`ccxd/__main__.py:60`-`72`): a
  statement that fails in it (`database is locked`) ends it for good and in silence,
  and subagents whose end is lost stay in flight from then on. `StaleBound` and
  `GhostsVanish` therefore speak of a heartbeat that goes on (`heart`); at shutdown
  the error comes up again, when the task is awaited.
- Stop and UserPromptSubmit clear the attention without an event, against the
  design (`Heard` is about attentions that are raised).
- A line that is not UTF-8 raises `UnicodeDecodeError`, which `read_new` does not
  catch, before the offset moves: the transcript is stuck, and the other events of
  the batch are lost (`Stuck`, which `OnlyDelayed` and `KeepsUp` except). The
  design has such a line skipped.
- A second `subscribe` on a connection leaves the first queue in the registry
  and its sender running when the handler ends; the design calls the two maps
  one-to-one. `CleansUp` therefore speaks of the subscription the handler
  knows.
- Between the answer to a subscribe and the registration, a `drain()` that
  waits lets events pass that the client will not see.
- A dropped subscriber's connection stays open and silent.
- The heartbeat clears a subagent without a broadcast.
- When the inner of two nested subagents ends, the outer one is not in flight
  again, though `ccxd/state.py:10` speaks of the deepest active one.
- A removal that stops between its statements leaves the session in both
  tables; the class comment of `SqliteStore` says that removal moves the row.
  (`remove` has no caller: no session is ever removed by the daemon.)
- The design wants tokens summed and deduplicated; the tailer replaces them by
  the last turn's, discovery sums every line.
- A directory that is deleted and created again keeps its old entry in
  `_path_to_wd` and is not watched again.
- Discovery after an overflow resets `attention` and `subagent_in_flight`.
- `tool_use_id` is looked up in `tool_input` with the default `""`
  (`ccxd/hooks.py:108`, `124`): Tasks without one share an id.
- After a restart a tailer replays its transcript from the beginning, and
  stores and broadcasts every turn on the way: subscribers see old turns again,
  and a crash in the middle leaves the session at an old turn, for good if its
  process has ended (`NeverBackwards` excepts just this).
- A replay does not get past a complete line that is JSON but no object:
  `parse_deltas` raises on it, and after a restart the session stays at the turn
  before it (`NeverBackwards` excepts such transcripts).

In the tools:

- `cmd_menu` calls `cmd_attach(picked_slug)` as a function: `agent_name` is then
  typer's option object, `window_name` raises `ValueError`, and nothing is attached.
- install-hooks and uninstall-hooks refuse to run in a live session "without
  --force" (`ccxd_cli.py:35`) but have no such option (`Obeyed`).
- Two settings commands that overlap lose the earlier one's change, and where the later
  text is the shorter one leave its end behind; a kill between the halves of
  `write_text` leaves an empty file. No command reads such a file: each ends with a
  traceback (`raced`, `BrokenOnlyByWriters`).
- `monitor open` says "already running" of any process that has the pid in the
  pidfile, without asking the port; an open that gives up after five seconds leaves
  pidfile and ssh; `close` may end a process of the user's that has got the pid of
  a tunnel that died (`SparesStrangers` excepts it by `died`), against
  `monitor.py:190`, and a `PermissionError` there is not caught.
- "tunnel up" is what anybody's listener on the port makes `open` say, the ssh of a
  tunnel just closed included, while its own ssh is about to exit (`Connects`). No
  property is about what "tunnel up" means.
- Two opens that find no pidfile start two tunnels, of which the file names one;
  the other can only be ended by hand (`NoOrphan` and `NoneLeft` except it by `raced`).
- Keys that `sys.stdin` has read ahead are handed out one per further key typed:
  after `r` and `q` in one go, the `q` waits (`QuitEnds` is about a `q` with none
  ahead of it).
- `fetch_ccx` returns an empty list when ssh fails, so the TUI does not show the
  source as unreachable, as `monitor_tui.py:134` has it; it does when a row or the
  output's encoding raises.
- A claude process that ends while its `comm` or `stat` is read, or a line of a
  transcript that is JSON and no entry, raises out of the scan of /proc, and the
  frame has no local row at all (`ScanFails`; `FrameTrue` is about frames that have
  them).
- `load_rate_limits` raises on a file that is not as expected, which ends the monitor.
- The menu offers grow-home and grow-root when the instance is stopped and not
  when it runs. The volume is grown, the ssh that should grow the file system
  fails, and asking for the same size again is refused as no growth.
- The loop that waits for a modification ends when it has `failed` too: resize2fs
  runs, finds nothing to do, and "home grown" is reported (`GrownIsGrown` excepts
  it by `broken`). The coding-station design waits for `optimizing`.
- Two refreshes around a move of the laptop, each on its own list, leave both
  addresses admitted, although the design has port 22 restricted to a single /32
  (`SingleAddress` excepts it by `shared`). A run that looked up the laptop's
  address before the move revokes the rule for the new one.
- A `start` that read the instance's address before a stop and a boot by others
  writes the old address to DNS over the new one.
- Two racing launches make two windows of one name, which tmux then takes for
  ambiguous: `kill` prints "killed" and kills neither, and the next `launch` makes
  a third.
- A kill by a slug without a window of its own takes the only window whose name
  begins with it. A bare slug that begins an agent's name, as that of a project
  directory called `codex` does, also fits the only window of that agent: with
  `codex:foo` open, `kill codex` ends it even when `claude:codex` is open and meant,
  against "prefer an existing bare-slug window (legacy claude), else default agent"
  (`sessions.py:278`). The model has all this (`Begins`, `Resolve`); no property
  forbids it.
- `launch` prints "already open" where the session manager's design says that
  running it again attaches.

Every property of a passing run has a mutant in `PROJECT.json`: a form of one
mapped definition with a plausible bug, under which TLC finds that property
violated. Their definitions stand before the ones they replace.

## What is proved

The proofs hold for every value of the constants under the named assumptions
`ServerAssumption`, `HooksAssumption`, `StoreAssumption`, `IngestAssumption`,
`CloudAssumption`, `TmuxAssumption`, `TunnelAssumption`, `SettingsAssumption` and
`MonitorAssumption` (`EventBus` needs none): the bounds are naturals, queue and socket
sizes and the heartbeat's period are positive, clients are finitely many, and the names
that stand for nothing, for places or for outsiders (`Null`, `Star`, `None`, `Nobody`,
`Foreign`, `User`, `Emitter`, `Gone`, `Outside`) are not among the values they are told
from. A volume is asked to grow to more than its first size; no slug is a proper
prefix of itself; events we hook and events we do not, keys of Bedrock and others, are
different ones, and there are some of ours. The two theorems about the bus also assume
that no client sends `"events": null` (`NamesItsEvents`).

| Theorem | States | Argument |
|---|---|---|
| `ServerTypeOK` | `Spec => []TypeOK` | one lemma per action over the named parts of `TypeOK`; with `Counted`, that a handler waiting after a subscribe has counted it, without which `Register` would enter a subscription of number zero |
| `ServerCleansUp` | `Spec => []CleansUp` | `Departing`: what a handler knows has a sender, and while it awaits that sender the subscription is out of the registry. `CleansUp` alone does not survive `Unwind` |
| `ServerAnswersFirst` | `Spec => []AnswerFirst` | `AnswerInv`: a subscription that has a sender, or is to get one, has its answer on the wire already; a sender can then append events |
| `ServerInOrder` | `Spec => []InOrder` | `AllOrdered`: with the order of the wire, of the queue and of the one before the other, that nothing is on either that has not been broadcast, and that nothing is written for a subscribe that has no answer yet, which is what lets that answer come first. One lemma for each way a wire or a queue grows (an answer, a run of a sender, an event offered) |
| `ServerOnlyFullDropped` | `Spec => OnlyFullDropped` | the steps that shrink the registry, one by one; that a full queue holds exactly `QueueSize` is the type invariant's |
| `ServerImplementsBus` | `NamesItsEvents` implies `Spec => ImplementsBus` | one lemma per step of the bus: a registration is `Join`, a run of a sender `Deliver` up to the last event it takes (by `AllOrdered` these are the oldest owed), `Broadcast` is `Publish` with the full queues dropped, the finally block, a cancelled sender's end and a failed write are `End` or `Leave`, `stop()`'s last step is `Leave`; the rest stutters. `Mapped`: who is on the registry has a sender, who has none has an empty queue, the next subscribe of a connection has no sender yet |
| `ServerPromise` | under the same assumption, the bus's promise about the server's wire | `ServerImplementsBus` and `BusPromise`, instantiated |
| `BusTypeOK`, `BusPromise` | the bus's type; nothing missed, no gaps, no repeats | `Members` (only those who joined have anything) and `Beginning` (got and owed together are a beginning of what is due); the gap-free beginning of what was *got* follows from it and from the order of got before owed |
| `HooksTypeOK`, `HooksSafe`, `HooksStaleBound`, `HooksLatestReported`, `HooksHeard` | the type; `StaleBound`, `NoGhosts`, `LatestReported`, `Heard` | `Dated`: the one in flight is the latest, and while the heartbeat goes on its age plus the time to the next one is bounded -- this is why one period is enough; `SockOK`: a Task's start lies before its end in the socket, so handling a late start of a finished Task leaves its end in the socket or lost; `Dispatched` |
| `StoreTyped`, `StoreNothingLost`, `StoreCacheBacked`, `StoreStaysRemoved`, `StoreSurvivesRestart` | the type; `NothingLost`, `CacheBacked`, `StaysRemoved`; the action property | `OpOK`: what each statement may assume of the ones before it. A row about to be written is newer than everything, a removal has emptied the cache first, a daemon that is down has no call in progress |
| `StoreImplementsMap` | `StoreSpec => ImplementsMap` | one step of the map per statement, or none: the row is `Write`, the cache popped is `Hide`, the history `Close`, the deletion `Forget`, a crash `Reopen`; what fails, the cache that catches up, and the restart stutter. `RemovalOK`: a removal's row is still the one it popped, and in the history before it is deleted; a row about to be written is newer than all of the history |
| `CloudTypeOK`, `CloudReady`, `CloudGrows`, `CloudSingleAddress`, `CloudNeverLocksOut` | the type; `ReadyIsReachable`, `GrownIsGrown`, `SingleAddress`; the action property | `InItsCommand`, where a run is says which command it has. `Achieved` is what a calm start has got at each place: the instance runs, then its address is admitted, then the record is right. Others keep it because what they revoke is never the address they looked up (`SparesItsOwn`) and what they write to DNS was read while the instance had an address (`AddressOK`). `ListsAll`: without overlap, every other rule is on the list of the one that revokes. `GrowthOK`: sizes only grow |
| `CloudOnlyForward`, `CloudListsFinite` | `Spec => OnlyForward`; what is to be revoked is finite | one case per step of a run, by the stages of `Course`; the other runs do not move it (`OthersStay`). With fairness this is why runs end, which the prover does not conclude |
| `SessionsTypeOK`, `SessionsNeverTwice`, `SessionsKilledIsGone` | the type; `NeverTwice`; the action property | `AloneOK`: until a race, the run that is about to make a window is alone with that name and there is none yet; `AimOK`: a target fits the arguments. `FindsByName`: with unique names, a name that a window has is that window's only, so that the beginnings of names play no part |
| `IngestTypeOK`, `IngestMergedExactly`, `IngestOnlyDelayed`, `IngestNeverBackwards` | the type; `MergedExactly`, `OnlyDelayed`; the action property | `Even`: offsets are at the ends of lines, so what a read takes is whole lines; `Unwatched`: before the daemon watches, every transcript with anything in it is `late`, without which starting it would break `OnlyDelayed`; `LatestOK`: a session is at a turn that is in its transcript, so that a read, which ends at the last one, cannot take it back. `LargestIs`, that a bounded set of naturals has a largest element, comes from the library's well-foundedness of `<` |
| `TunnelTypeOK`, `TunnelNoOrphan`, `TunnelNoneLeft`, `TunnelSparesStrangers` | the type; `NoOrphan`; the action properties | `Orderly`: until a race or an interruption one run at a time acts on the pidfile, and what it has read is still there; `StillMine`: unless a tunnel has died, the pid in the file is a tunnel's until `close` drops it. For `NoneLeft`, who is told that there is no tunnel was alone since he read the file, which then names none that lives. `NoOrphan` alone does not survive `Records`, which writes over what it finds |
| `SettingsTypeOK`, `SettingsOwnKept`, `SettingsLastWins`, `SettingsNeverHalf`, `SettingsBroken` | the type; `OwnKept`, `LastWins`, `NeverHalf`, `BrokenOnlyByWriters` | The properties of the file are stated of any settings (`KeptIn`, `ProviderAs`, `HooksAs`, `KeysWhole`, `HooksWhole`) and lemmas say what each command and each edit makes of them (`EditedDoes`, `KeyEdit`, `HookEdit`). `BufGood`: what a run is about to write is as good as what it replaces, with its own command done, unless the file has changed under it; `EmptiedOK`: who finds other than an empty file between the halves of its write has been overtaken, so that only two that race garble the file. `OwnKept` and `LastWins` do not survive `Write` without the former, `BrokenOnlyByWriters` not without the latter |
| `MonitorTypeOK`, `MonitorFrameTrue`, `MonitorEachOnce`, `MonitorRestored` | the type; `FrameTrue`, `EachOnce`, `Restored` | `HistoryOK`, what the two history variables mean while the world goes on; `NoneLost`: who was there all the time is on the list still to be scanned or has a row; `RowsOK`: the window in the row of such an agent is its window, so a second one would be the same; `ModeOK`: cbreak mode lasts from `setcbreak` to the restoring only |

What the attempts showed. `EachOnce` without its condition is false with two windows: a
pid that ended in one and was handed out again in another before that was looked at has
two rows, and both were true of their time. The run has one window, where this cannot
happen; the property now says it of agents that lived through the gathering.

Only model-checked: all liveness (`Delivers`, `HandlersEnd`, `StopReturns`,
`GhostsVanish`, `KeepsUp`, `EveryRunEnds`, `QuitEnds`), which the prover does not
reach. Every invariant and every action property of the passing runs is proved. The
bus's theorems hold of any subscribers; the server's step to them is
`ServerImplementsBus`, which the runs `server_stream` and `server_requests` check too.

## What is not modelled

- Contents: answers to queries, the fields of a session other than the ones
  named above, token counts, titles, timestamps.
- The stream below the line: bytes, partial writes, encoding.
- `MemoryStore` (a dict), and the two history queries, which only read.
- Sockets' creation and removal, `sd_notify`, logging, argument parsing.
- The walk of /proc: the set of live transcripts is a free choice.
- Directories that vanish; `forget`, `remove_watch` and `close`, which nothing
  calls while the daemon runs; a bare carriage return in a transcript, which
  `splitlines` would take for the end of a line.
- `ccxctl resize` and `snapshot`, which make one call each, `ssh`, the widget and
  notifications; of `ccxctl session`, the counting of tokens and /proc.
- `monitor status` and `logs`, `ccxd status` and `tail`, which only read; the unit
  file, which is written whole.
- Rendering, in the monitor and the banner, and what the banner's collectors find.
- SIGQUIT and SIGKILL of the monitor, which no handler is for.
- Ansible, Terraform and dotfiles.

## Plan

Done, in this order: `EventBus`, `DaemonServer`, `Hooks`, `SqliteStore`, `Ingest`,
`CloudControl`, `TmuxSessions`, `Settings`, `Tunnel`, `Monitor`, `Banner`,
`SessionMap`, with their runs and the theorems above. What could follow:

1. `Daemon`: hooks, ingestion, store and bus composed, with discovery at the
   start and the queries of clients, and the question whether a subscriber that
   queries and subscribes ends up with the daemon's state. The parts meet in the
   store and in `broadcast` only, and each is modelled with what the others do to it:
   `Hooks` with the broadcasts, `Ingest` with the store's crashes.
2. `Tokens`: discovery's sums against the tailer's replacement, with replay.
