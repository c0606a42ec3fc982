--------------------------- MODULE MCTmuxSessions ---------------------------
(* Two checkouts of one project, and one whose name is longer; a user may  *)
(* also type the name of an agent.                                         *)
EXTENDS TmuxSessions, TLC

CONSTANTS here, there, tools

Checkouts == {here, there, tools}
ShortAndLong == [d \in Checkouts |-> IF d = tools THEN "app-tools" ELSE "app"]
AnyRun == Permutations(Runs)
LongerThan == {<<"app", "app-tools">>}
AgentBeginning == {<<"codex", "codex">>}

=============================================================================
