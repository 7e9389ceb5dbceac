----------------------------- MODULE LoginStorm -----------------------------
(***************************************************************************)
(* internal/workload/login.go, the login-storm scenario: a RampedRun whose *)
(* sessions log in and then hold their connection until the window closes. *)
(***************************************************************************)
EXTENDS RampedRun

\* Mutant: the session waits for the run's context, which has no deadline.
MayLetGo_WrongContext == ctx = "cancelled"

MayLetGo == window = "closed"

\* The end of runOneLogin: <-ctx.Done().
Hold(i) ==
  /\ sess[i] = "in"
  /\ MayLetGo
  /\ SessionTo(i, "exit")
  /\ UNCHANGED <<seedVars, window, attempt>>

Session(i) == Login(i) \/ Hold(i) \/ SessionExit(i)

Next ==
  \/ Shared
  \/ \E i \in Ids : Session(i)
  \/ main = "returned" /\ UNCHANGED vars   \* Run has returned

\* Runnable goroutines are scheduled, blocking calls have deadlines, and the
\* window's deadline comes. The server owes nothing, and nobody presses Ctrl-C.
Fairness ==
  /\ WF_vars(RunMain)
  /\ \A i \in Ids : WF_vars(SeedingStep(i)) /\ WF_vars(Session(i))
  /\ WF_vars(WindowElapses)

Spec == RunInit /\ [][Next]_vars /\ Fairness
=============================================================================
