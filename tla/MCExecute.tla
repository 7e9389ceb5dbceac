------------------------------ MODULE MCExecute -----------------------------
(* One worker and two pingers beside the emitter: one pinger can fail and  *)
(* redial, or be the last to stop, while the other goes on.                *)
EXTENDS Execute

CONSTANTS w1, p1, p2

MCWorkers == {w1}
MCPingers == {p1, p2}
MCCommands == {"LOGIN", "PING"}
MCCounterNames == ExecuteCounters
=============================================================================
