------------------------------- MODULE LoadRun ------------------------------
(***************************************************************************)
(* The contract of Scenario.Run (internal/workload/scenario.go), as Execute *)
(* relies on it: Run and the goroutines it starts write to the recorder for *)
(* as long as Run has not returned, Run returns when the last of them has,  *)
(* and from then on none of them runs or writes, so that the report is      *)
(* built from a recorder at rest.                                           *)
(***************************************************************************)
CONSTANT Goroutines

VARIABLES
  phase,    \* "running" or "returned"
  active,   \* the goroutines of the run that have not finished
  record    \* what the recorder holds; only that it changes matters here

vars == <<phase, active, record>>

Init == phase = "running" /\ active = {}

\* Goroutines start, work and finish.
Work ==
  /\ phase = "running"
  /\ active' \subseteq Goroutines
  /\ UNCHANGED phase

Return ==
  /\ phase = "running" /\ active = {}
  /\ phase' = "returned"
  /\ UNCHANGED <<active, record>>

Next == Work \/ Return

\* Every scenario's context has a deadline, and Run comes to its end.
Returns == <>(phase = "returned")

Safety == Init /\ [][Next]_vars

Spec == Safety /\ Returns
=============================================================================
