---------------------------- MODULE CloudControl ----------------------------
(***************************************************************************)
(* ccxctl (control-plane/ccx/cli.py): invocations that start, stop, grow   *)
(* and re-admit against one EC2 instance, its security group, its address  *)
(* record and a volume.  Invocations share nothing but the account, so any *)
(* two of them interleave between API calls.  An action is one API call    *)
(* with the code up to the next; loops that only poll are the one step     *)
(* that ends them.                                                         *)
(*                                                                         *)
(* The account is external: instance states, public addresses given on     *)
(* each boot (terraform/compute.tf:74), rules of port 22 in a default VPC, *)
(* and volume modifications, as cli.py expects them.                       *)
(***************************************************************************)
EXTENDS Integers, FiniteSets

CONSTANTS
  Runs,        \* invocations of ccxctl, each of one command
  Addresses,   \* public addresses the laptop may have
  Sizes,       \* sizes that are asked for, in GB
  Small,       \* the volume's size at first
  Typed,       \* commands given on the command line; the rest by menu
  None,        \* nothing read yet
  MaxMoves,    \* bound: changes of the laptop's address
  MaxFaults    \* bound: API calls and modifications that fail

Commands == {"start", "stop", "refresh-sg", "refresh-dns", "grow"}

ASSUME CloudAssumption ==
  /\ None \notin Addresses
  /\ Sizes \subseteq Nat /\ Small \in Nat
  /\ \A s \in Sizes : s > Small
  /\ Typed \subseteq Commands
  /\ MaxMoves \in Nat /\ MaxFaults \in Nat

VARIABLES
  state, ip, boots,            \* the instance; ip is 0 when it has none
  rules,                       \* addresses admitted to port 22
  record,                      \* the A record of CFG.hostname
  here, moves,                 \* the laptop's address
  size, fs, change, wanted,    \* volume, its file system, its modification
  faults,
  at, cmd, seen,               \* a run's place, command, state in the menu
  my, stale, known,            \* new_cidr, the cidrs to revoke, new_cidr in existing
  got, want,                   \* the ip of update_dns, new_gb
  calm, shared, broken         \* history, see Disturbed, ReadRules, ModificationFails

instance == <<state, ip, boots>>
volume == <<size, fs, change, wanted>>
laptop == <<here, moves>>
locals == <<cmd, seen, my, stale, known, got, want>>
history == <<calm, shared, broken>>
vars == <<instance, rules, record, laptop, volume, faults, at, locals, history>>

Places == {"idle", "menu", "begin", "boot", "booting", "halting", "sg",
           "rules", "revoke", "dns", "upsert", "reach", "modify", "growing",
           "resizefs", "done", "failed"}
Ended == {"done", "failed"}
States == {"stopped", "pending", "running", "stopping"}

Goes(r, place) == at' = [at EXCEPT ![r] = place]

(* What `ssh` needs: the record, the instance and the security group. *)
Reachable == state = "running" /\ record = ip /\ here \in rules

(* A step that only takes the run on. *)
Just(r, place) ==
  /\ Goes(r, place)
  /\ UNCHANGED <<instance, rules, record, laptop, volume, faults, locals, history>>

(* Every run that has read an address and not used it yet has the right one. *)
UpToDate == \A r \in Runs :
  /\ at[r] \in {"rules", "revoke"} => my[r] = here
  /\ at[r] = "upsert" => got[r] = ip

(* No start is calm any more: the laptop moves, or the instance goes down. *)
Disturbed == calm' = [r \in Runs |-> FALSE]

Init ==
  /\ \/ state = "stopped" /\ ip = 0 /\ boots = 0
     \/ state = "running" /\ ip = 1 /\ boots = 1
  /\ here \in Addresses /\ moves = 0
  /\ rules \in {{a} : a \in Addresses}
  /\ record = ip
  /\ size = Small /\ fs = Small /\ change = "none" /\ wanted = Small
  /\ faults = 0
  /\ at = [r \in Runs |-> "idle"] /\ cmd = [r \in Runs |-> "none"]
  /\ seen = [r \in Runs |-> "none"]
  /\ my = [r \in Runs |-> None] /\ stale = [r \in Runs |-> {}]
  /\ known = [r \in Runs |-> FALSE]
  /\ got = [r \in Runs |-> 0] /\ want = [r \in Runs |-> Small]
  /\ calm = [r \in Runs |-> FALSE] /\ shared = FALSE /\ broken = FALSE

-----------------------------------------------------------------------------
(* Which command runs: typed, or picked in the menu, which offers what the  *)
(* state that it read allows; the user may take any time to pick.           *)

Offered == [s \in States |->
  CASE s = "running" -> {"stop", "refresh-sg", "refresh-dns"}
    [] s = "stopped" -> {"start", "grow"}
    [] OTHER -> {}]

Takes(r, c) ==
  /\ cmd' = [cmd EXCEPT ![r] = c]
  /\ \E gb \in Sizes : want' = [want EXCEPT ![r] = IF c = "grow" THEN gb ELSE @]
  /\ Goes(r, "begin")
  /\ UNCHANGED <<instance, rules, record, laptop, volume, faults, seen, my,
                 stale, known, got, history>>

Type(r) == at[r] = "idle" /\ \E c \in Typed : Takes(r, c)

Menu(r) ==
  /\ at[r] = "idle"
  /\ seen' = [seen EXCEPT ![r] = state]
  /\ Goes(r, "menu")
  /\ UNCHANGED <<instance, rules, record, laptop, volume, faults, cmd, my,
                 stale, known, got, want, history>>

Pick(r) == at[r] = "menu" /\ \E c \in Offered[seen[r]] : Takes(r, c)

PickNothing(r) ==
  at[r] = "menu" /\ Just(r, "done")

-----------------------------------------------------------------------------
(* start and stop *)

Start(r) ==
  /\ at[r] = "begin" /\ cmd[r] = "start"
  /\ Goes(r, IF state = "running" THEN "sg" ELSE "boot")
  /\ calm' = [calm EXCEPT ![r] = UpToDate]
  /\ UNCHANGED <<instance, rules, record, laptop, volume, faults, locals, shared, broken>>

\* start_instances: IncorrectInstanceState while the instance is stopping.
BootUnwaited(r) ==
  /\ at[r] = "boot"
  /\ Goes(r, IF state = "stopping" THEN "failed" ELSE "sg")
  /\ IF state = "stopped"
     THEN state' = "pending" /\ boots' = boots + 1 /\ ip' = boots + 1
     ELSE UNCHANGED instance
  /\ UNCHANGED <<rules, record, laptop, volume, faults, locals, history>>

Boot(r) ==
  /\ at[r] = "boot"
  /\ Goes(r, IF state = "stopping" THEN "failed" ELSE "booting")
  /\ IF state = "stopped"
     THEN state' = "pending" /\ boots' = boots + 1 /\ ip' = boots + 1
     ELSE UNCHANGED instance
  /\ UNCHANGED <<rules, record, laptop, volume, faults, locals, history>>

\* stop_instances: refused while the instance is pending.
Stop(r) ==
  /\ at[r] = "begin" /\ cmd[r] = "stop"
  /\ Goes(r, IF state = "pending" THEN "failed" ELSE "halting")
  /\ IF state = "running" THEN state' = "stopping" /\ Disturbed
                          ELSE UNCHANGED <<state, calm>>
  /\ UNCHANGED <<ip, boots, rules, record, laptop, volume, faults, locals, shared, broken>>

(* _wait_for_state and _wait_for_ssh: the poll that succeeds, or the deadline. *)
Arrives(r) ==
  \/ at[r] = "booting" /\ state = "running" /\ Just(r, "sg")
  \/ at[r] = "halting" /\ state = "stopped" /\ Just(r, "done")
  \/ at[r] = "reach" /\ Reachable /\ Just(r, "done")

Timeout(r) ==
  at[r] \in {"booting", "halting", "reach"} /\ Just(r, "failed")

-----------------------------------------------------------------------------
(* refresh_sg, on its own or as part of start *)

LookUp(r) ==
  /\ at[r] = "sg" \/ (at[r] = "begin" /\ cmd[r] = "refresh-sg")
  /\ my' = [my EXCEPT ![r] = here]
  /\ Goes(r, "rules")
  /\ UNCHANGED <<instance, rules, record, laptop, volume, faults, cmd, seen,
                 stale, known, got, want, history>>

ReadRulesAll(r) ==
  /\ at[r] = "rules"
  /\ stale' = [stale EXCEPT ![r] = rules]
  /\ known' = [known EXCEPT ![r] = my[r] \in rules]
  /\ shared' = (shared \/ (\E q \in Runs \ {r} : at[q] = "revoke"))
  /\ Goes(r, "revoke")
  /\ UNCHANGED <<instance, rules, record, laptop, volume, faults, cmd, seen,
                 my, got, want, calm, broken>>

ReadRulesNone(r) ==
  /\ at[r] = "rules"
  /\ stale' = [stale EXCEPT ![r] = {}]
  /\ known' = [known EXCEPT ![r] = my[r] \in rules]
  /\ shared' = (shared \/ (\E q \in Runs \ {r} : at[q] = "revoke"))
  /\ Goes(r, "revoke")
  /\ UNCHANGED <<instance, rules, record, laptop, volume, faults, cmd, seen,
                 my, got, want, calm, broken>>

\* `existing`; a second run in this stretch works on the same list.
ReadRules(r) ==
  /\ at[r] = "rules"
  /\ stale' = [stale EXCEPT ![r] = rules \ {my[r]}]
  /\ known' = [known EXCEPT ![r] = my[r] \in rules]
  /\ shared' = (shared \/ (\E q \in Runs \ {r} : at[q] = "revoke"))
  /\ Goes(r, "revoke")
  /\ UNCHANGED <<instance, rules, record, laptop, volume, faults, cmd, seen,
                 my, got, want, calm, broken>>

\* Revoking a rule that is gone is no error in a default VPC.
Revoke(r) ==
  /\ at[r] = "revoke"
  /\ \E cidr \in stale[r] :
       /\ rules' = rules \ {cidr}
       /\ stale' = [stale EXCEPT ![r] = @ \ {cidr}]
  /\ UNCHANGED <<instance, record, laptop, volume, faults, at, cmd, seen, my,
                 known, got, want, history>>

\* authorize: InvalidPermission.Duplicate when the rule exists by now.
Authorize(r) ==
  /\ at[r] = "revoke" /\ stale[r] = {}
  /\ rules' = IF known[r] THEN rules ELSE rules \union {my[r]}
  /\ Goes(r, IF ~known[r] /\ my[r] \in rules THEN "failed"
             ELSE IF cmd[r] = "start" THEN "dns" ELSE "done")
  /\ UNCHANGED <<instance, record, laptop, volume, faults, locals, history>>

-----------------------------------------------------------------------------
(* update_dns, on its own or as part of start *)

ReadIp(r) ==
  /\ at[r] = "dns" \/ (at[r] = "begin" /\ cmd[r] = "refresh-dns")
  /\ got' = [got EXCEPT ![r] = ip]
  /\ Goes(r, IF ip = 0 THEN "failed" ELSE "upsert")
  /\ UNCHANGED <<instance, rules, record, laptop, volume, faults, cmd, seen,
                 my, stale, known, want, history>>

\* start is ready now, and waits for sshd unless it was given --no-ssh.
Upsert(r) ==
  /\ at[r] = "upsert"
  /\ record' = got[r]
  /\ \E next \in {"done", "reach"} :
       (next = "reach" => cmd[r] = "start") /\ Goes(r, next)
  /\ UNCHANGED <<instance, rules, laptop, volume, faults, locals, history>>

-----------------------------------------------------------------------------
(* grow-home and grow-root, of which the volume may be either's *)

ReadSize(r) ==
  /\ at[r] = "begin" /\ cmd[r] = "grow"
  /\ Just(r, IF want[r] <= size THEN "failed" ELSE "modify")

\* modify_volume: refused while a modification is on, and to shrink.
Refuses(gb) == change \in {"modifying", "optimizing"} \/ gb < size

Modify(r) ==
  /\ at[r] = "modify"
  /\ IF Refuses(want[r])
     THEN Goes(r, "failed") /\ UNCHANGED <<change, wanted>>
     ELSE change' = "modifying" /\ wanted' = want[r] /\ Goes(r, "growing")
  /\ UNCHANGED <<instance, rules, record, laptop, size, fs, faults, locals, history>>

PolledAtOnce(r) ==
  at[r] = "growing" /\ Just(r, "resizefs")

PolledUntilGood(r) ==
  at[r] = "growing" /\ change \in {"optimizing", "completed"} /\ Just(r, "resizefs")

\* The loop of _grow_volume: without a deadline, and `failed` ends it too.
Polled(r) ==
  at[r] = "growing" /\ change # "modifying" /\ Just(r, "resizefs")

ResizeFsRetried(r) ==
  /\ at[r] = "resizefs"
  /\ IF Reachable THEN fs' = size /\ Goes(r, "done")
                  ELSE fs' = fs /\ Goes(r, "growing")
  /\ UNCHANGED <<instance, rules, record, laptop, size, change, wanted, faults,
                 locals, history>>

\* _ssh_exec with check=True: an ssh that does not get through raises.
ResizeFs(r) ==
  /\ at[r] = "resizefs"
  /\ IF Reachable THEN fs' = size /\ Goes(r, "done")
                  ELSE fs' = fs /\ Goes(r, "failed")
  /\ UNCHANGED <<instance, rules, record, laptop, size, change, wanted, faults,
                 locals, history>>

-----------------------------------------------------------------------------
(* The account, the laptop, and calls that fail *)

Booted ==
  /\ state = "pending" /\ state' = "running"
  /\ UNCHANGED <<ip, boots, rules, record, laptop, volume, faults, at, locals, history>>

Down(s) ==
  /\ state = s /\ state' = "stopped" /\ ip' = 0
  /\ Disturbed
  /\ UNCHANGED <<boots, rules, record, laptop, volume, at, locals, shared, broken>>

Halted == Down("stopping") /\ UNCHANGED faults

\* A boot for which there is no capacity, or no volume.
BootFails ==
  /\ faults < MaxFaults /\ faults' = faults + 1
  /\ Down("pending")

Modified ==
  /\ \/ change = "modifying" /\ change' = "optimizing" /\ size' = wanted
     \/ change = "optimizing" /\ change' = "completed" /\ size' = size
  /\ UNCHANGED <<instance, rules, record, laptop, fs, wanted, faults, at, locals, history>>

ModificationFails ==
  /\ change = "modifying" /\ change' = "failed" /\ broken' = TRUE
  /\ faults < MaxFaults /\ faults' = faults + 1
  /\ UNCHANGED <<instance, rules, record, laptop, size, fs, wanted, at, locals,
                 calm, shared>>

Move ==
  /\ moves < MaxMoves /\ moves' = moves + 1
  /\ here' \in Addresses \ {here}
  /\ Disturbed
  /\ UNCHANGED <<instance, rules, record, volume, faults, at, locals, shared,
                 broken>>

\* Expired credentials, throttling, no network: the run ends where it is.
Breaks(r) ==
  /\ at[r] \notin Ended \union {"idle", "menu"}
  /\ faults < MaxFaults /\ faults' = faults + 1
  /\ Goes(r, "failed")
  /\ UNCHANGED <<instance, rules, record, laptop, volume, locals, history>>

Account == Booted \/ Halted \/ BootFails \/ Modified \/ ModificationFails

Proceeds(r) ==
  \/ Start(r) \/ Boot(r) \/ Stop(r) \/ Arrives(r) \/ Timeout(r)
  \/ LookUp(r) \/ ReadRules(r) \/ Revoke(r) \/ Authorize(r)
  \/ ReadIp(r) \/ Upsert(r)
  \/ ReadSize(r) \/ Modify(r) \/ Polled(r) \/ ResizeFs(r)

Next ==
  \/ \E r \in Runs : Type(r) \/ Menu(r) \/ Pick(r) \/ PickNothing(r)
                       \/ Proceeds(r) \/ Breaks(r)
  \/ Account \/ Move

(* A run goes on, its deadlines pass, and EC2 ends a modification; nobody   *)
(* need invoke anything, and nothing need boot.                             *)
Spec == Init /\ [][Next]_vars
          /\ \A r \in Runs : WF_vars(Proceeds(r))
          /\ WF_vars(Modified)

-----------------------------------------------------------------------------
TypeOK ==
  /\ state \in States /\ ip \in Nat /\ boots \in Nat
  /\ rules \subseteq Addresses /\ record \in Nat
  /\ here \in Addresses /\ moves \in 0 .. MaxMoves
  /\ {size, fs, wanted} \subseteq Sizes \union {Small}
  /\ change \in {"none", "modifying", "optimizing", "completed", "failed"}
  /\ faults \in 0 .. MaxFaults
  /\ at \in [Runs -> Places]
  /\ cmd \in [Runs -> Commands \union {"none"}]
  /\ seen \in [Runs -> States \union {"none"}]
  /\ my \in [Runs -> Addresses \union {None}]
  /\ stale \in [Runs -> SUBSET Addresses] /\ known \in [Runs -> BOOLEAN]
  /\ got \in [Runs -> Nat] /\ want \in [Runs -> Sizes \union {Small}]
  /\ calm \in [Runs -> BOOLEAN] /\ shared \in BOOLEAN /\ broken \in BOOLEAN

(* A start that has ended well leaves an instance that the laptop can       *)
(* reach, and it stays so until the laptop moves or the instance goes down: *)
(* whatever other starts and refreshes ran beside it or later, and wherever *)
(* they failed -- provided no older run was acting on an outdated address   *)
(* when it began (cli.py:408: it "doesn't time out after a coffee break     *)
(* from a new IP").                                                         *)
ReadyIsReachable == \A r \in Runs :
  cmd[r] = "start" /\ at[r] = "done" /\ calm[r] => Reachable

(* No run withdraws the address the laptop has, unless a run is still       *)
(* acting on one that the laptop has left.                                  *)
NeverLocksOut ==
  [][(/\ here \in rules
      /\ here' = here
      /\ \A r \in Runs : at[r] = "revoke" => my[r] = here) => (here \in rules')]_vars

(* Port 22 admits one address at a time (the coding-station design, section *)
(* 7), as long as no two refreshes have worked on the rules at once.        *)
SingleAddress == Cardinality(rules) > 1 => shared

(* A grow that reports success has grown the file system to what was asked, *)
(* whatever other grows ran beside it, if no modification failed.           *)
GrownIsGrown == \A r \in Runs :
  cmd[r] = "grow" /\ at[r] = "done" /\ ~broken => fs >= want[r]

(* Every command ends: each wait has a deadline or waits for EC2 to settle, *)
(* even if the instance goes the other way or a modification fails.         *)
EveryRunEnds == \A r \in Runs : at[r] = "begin" ~> at[r] \in Ended

(* The order in which the commands have their calls. *)
Course == <<{"idle"}, {"menu"}, {"begin"}, {"boot", "modify"},
            {"booting", "halting", "growing"}, {"sg", "resizefs"}, {"rules"}, {"revoke"},
            {"dns"}, {"upsert"}, {"reach"}, Ended>>

Later(p, q) == \E i, j \in DOMAIN Course : i < j /\ p \in Course[i] /\ q \in Course[j]

(* This is why: whatever the account, the laptop and the other runs do, no  *)
(* run comes back to a call it has made; only revoke is repeated, for an    *)
(* ever shorter list.  There is no retry that could go on for ever.         *)
OnlyForward ==
  [][\A r \in Runs :
       /\ \/ at'[r] = at[r] /\ stale'[r] \subseteq stale[r]
          \/ Later(at[r], at'[r])
       /\ Proceeds(r) => Later(at[r], at'[r]) \/ stale'[r] # stale[r]]_vars

=============================================================================
