---------------------------- MODULE RegisterStorm ---------------------------
(***************************************************************************)
(* internal/workload/register.go, the register-storm scenario: the ramp of *)
(* RampedRun without its seeding; a session measures one REGISTER          *)
(* (Register of internal/proto/login.go) and holds its connection until    *)
(* the window closes.  Nobody logs in.                                     *)
(***************************************************************************)
EXTENDS RampedRun

RegisterCounters == {"register_ok", "register_error"}

ASSUME RegisterStormAssumption ==
  /\ "REGISTER" \in Commands
  /\ RegisterCounters \subseteq CounterNames

\* cfg.Register is ignored: there is no seed phase.
RegisterInit == RunIdle /\ main = "seeded"

\* Mutant: a reply that says no passes for one that says yes.
RegisterReply_AnyVerdict(i, created) == SessionTo(i, "observed") /\ Observe("REGISTER")

\* REGISTRATIONDENIED is an error.
RegisterReply(i, created) ==
  IF created THEN SessionTo(i, "observed") /\ Observe("REGISTER")
             ELSE SessionTo(i, "failed") /\ ObserveError("REGISTER")

\* One round trip: the server creates the account or not, and its verdict comes
\* back in time or not.
RegisterAttempt(i) ==
  /\ sess[i] = "opened"
  /\ \E created \in {FALSE, account[i] = "absent"} :
       /\ account' = IF created THEN [account EXCEPT ![i] = "unconfirmed"] ELSE account
       /\ \/ RegisterReply(i, created)
          \/ SessionTo(i, "failed") /\ ObserveError("REGISTER")
  /\ UNCHANGED <<online, ctx, main, next, sem, seeder, window, attempt>>

RegisterCounted(i) ==
  /\ \/ sess[i] = "observed" /\ SessionTo(i, "in") /\ Inc("register_ok")
     \/ sess[i] = "failed" /\ SessionTo(i, "exit") /\ Inc("register_error")
  /\ UNCHANGED <<lobby, ctx, main, next, sem, seeder, window, attempt>>

RegisterHold(i) ==
  /\ SeesWindowClosed(i, "in")
  /\ UNCHANGED <<seedVars, window, attempt>>

Registrant(i) ==
  \/ SessionDial(i) \/ RegisterAttempt(i) \/ RegisterCounted(i)
  \/ RegisterHold(i) \/ SessionExit(i)

RegisterNext ==
  \/ Shared
  \/ \E i \in Ids : Registrant(i)
  \/ main = "returned" /\ UNCHANGED vars   \* Run has returned

RegisterFairness ==
  /\ WF_vars(RunMain)
  /\ \A i \in Ids : WF_vars(Registrant(i))
  /\ WF_vars(WindowElapses)

RegisterSpec == RegisterInit /\ [][RegisterNext]_vars /\ RegisterFairness
-----------------------------------------------------------------------------
(* Properties *)

\* Every session that was started stands in one counter or is on its way, and
\* the REGISTER row of the report agrees with the counters.
RegisterAccounting ==
  /\ window # "unset" =>
       next = counters["dial_error"] + counters["register_ok"]
              + counters["register_error"] + Cardinality(InFlight)
  /\ hists["REGISTER"] = counters["register_ok"] + Cardinality(At({"observed"}))
  /\ cmdErrors["REGISTER"] = counters["register_error"] + Cardinality(At({"failed"}))

\* A latency recorded for REGISTER is that of an INSERT: each sample goes with
\* an account that did not exist before, never with a name that was taken.
MeasuredAreCreated ==
  [][hists'["REGISTER"] > hists["REGISTER"] =>
       \E i \in Ids : account[i] = "absent" /\ account'[i] # "absent"]_vars
=============================================================================
