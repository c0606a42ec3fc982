--------------------------- MODULE MCDaemonServer ---------------------------
(* Instances of DaemonServer for TLC. *)
EXTENDS DaemonServer, TLC

Sub(events) == [method |-> "subscribe", events |-> events]
Plain(method) == [method |-> method]

(* Every kind of line a handler distinguishes. *)
AllRequests ==
  {Sub({Star}), Sub({"stranger"}), Sub({"added"}), Plain("query"), Plain("badline"),
   Plain("nonobject"), Plain("oversize"), [method |-> "unsubscribe", id |-> 1]}

(* Lines that matter when clients share the event stream. *)
SubscribeOnly == {Sub({Star})}

=============================================================================
