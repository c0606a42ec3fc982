------------------------------- MODULE Banner -------------------------------
(***************************************************************************)
(* ccxctl motd (control-plane/ccx/motd.py): six collectors, each in a      *)
(* thread, each a series of calls that time out, and a main thread that    *)
(* takes their results as they come until a deadline, waits for the        *)
(* threads, and prints.  Time passes in seconds; a reading of a file, and  *)
(* what main does, takes none.                                             *)
(***************************************************************************)
EXTENDS Naturals

CONSTANTS
  Collectors,     \* names in main's table
  Calls,          \* how many calls to the outside a collector makes at most
  CallTimeout,    \* of one of its calls
  Essential,      \* collectors whose first call decides: no token, no instance
  COLLECT_TIMEOUT

VARIABLES
  clock,
  made,      \* the calls a collector has behind it
  since,     \* when its present call began
  future,    \* "running", or what the collector returned
  results,   \* main's results
  at         \* where main is

vars == <<clock, made, since, future, results, at>>

Init ==
  /\ clock = 0
  /\ made = [c \in Collectors |-> 0] /\ since = [c \in Collectors |-> 0]
  /\ future = [c \in Collectors |-> IF Calls[c] = 0 THEN "value" ELSE "running"]
  /\ results = [c \in Collectors |-> "missing"] /\ at = "take"

\* A call answers or not, in its time or at its end.  What it was for is then
\* unknown, and the collector goes on, unless that call was essential.
CallEnds(c, answered) ==
  /\ future[c] = "running"
  /\ ~answered \/ clock < since[c] + CallTimeout[c]
  /\ made' = [made EXCEPT ![c] = @ + 1] /\ since' = [since EXCEPT ![c] = clock]
  /\ future' = [future EXCEPT ![c] =
       IF c \in Essential /\ made[c] = 0 /\ ~answered THEN "nothing"
       ELSE IF made[c] + 1 = Calls[c] THEN "value" ELSE "running"]
  /\ UNCHANGED <<clock, results, at>>

\* A collector that raises: every one catches what it raises, and main would.
Raises(c) ==
  /\ future[c] = "running"
  /\ future' = [future EXCEPT ![c] = "nothing"]
  /\ UNCHANGED <<clock, made, since, results, at>>

\* as_completed hands main a future that is done ...
Take(c) ==
  /\ at = "take" /\ future[c] # "running" /\ results[c] = "missing"
  /\ results' = [results EXCEPT ![c] = future[c]]
  /\ UNCHANGED <<clock, made, since, future, at>>

Taken == \A c \in Collectors : results[c] # "missing"

\* ... and raises TimeoutError at the deadline.
Stops ==
  /\ at = "take" /\ (Taken \/ clock >= COLLECT_TIMEOUT)
  /\ at' = "join"
  /\ UNCHANGED <<clock, made, since, future, results>>

\* The end of the `with` waits for all threads; results that are missing are
\* then None.
Prints ==
  /\ at = "join" /\ \A c \in Collectors : future[c] # "running"
  /\ results' = [c \in Collectors |-> IF results[c] = "missing" THEN "nothing" ELSE results[c]]
  /\ at' = "printed"
  /\ UNCHANGED <<clock, made, since, future>>

\* Nothing that is due waits.
Tick ==
  /\ at # "printed"
  /\ \A c \in Collectors :
       /\ future[c] = "running" => clock < since[c] + CallTimeout[c]
       /\ at = "take" /\ future[c] # "running" => results[c] # "missing"
  /\ at = "take" => ~Taken /\ clock < COLLECT_TIMEOUT
  /\ at = "join" => \E c \in Collectors : future[c] = "running"
  /\ clock' = clock + 1
  /\ UNCHANGED <<made, since, future, results, at>>

Next ==
  \/ \E c \in Collectors :
       \/ \E answered \in BOOLEAN : CallEnds(c, answered)
       \/ Raises(c) \/ Take(c)
  \/ Stops \/ Prints \/ Tick

Spec == Init /\ [][Next]_vars

-----------------------------------------------------------------------------
(* "All collectors in parallel, global 5 s hard cap" (the design of the     *)
(* banner): it is printed by then, whatever hangs.                          *)
CapHolds == clock <= COLLECT_TIMEOUT

=============================================================================
