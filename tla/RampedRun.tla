------------------------------ MODULE RampedRun -----------------------------
(***************************************************************************)
(* The shape login-storm, chat and social share (internal/workload/        *)
(* login.go, chat.go, social.go): seed the accounts, open the measured     *)
(* window, ramp Conns sessions into it, wait for all of them.  A session   *)
(* dials, logs in with loginWithRetry, does what its scenario does and     *)
(* Exits.  What happens between "in" and "exit" is left to the module of   *)
(* the scenario.                                                           *)
(*                                                                         *)
(* A round trip is one step, as in Seeding, and any wait may last.         *)
(***************************************************************************)
EXTENDS Seeding

CONSTANT MaxAttempts   \* attempts of loginWithRetry (6 in the code)

SessionCounters == {"dial_error", "login_ok", "login_retry", "login_error"}

ASSUME RampedAssumption ==
  /\ MaxAttempts \in Nat \ {0}
  /\ SessionCounters \subseteq CounterNames
  /\ "LOGIN" \in Commands

VARIABLES
  window,    \* loadCtx: "unset", then "open", then "closed" (done)
  sess,      \* id -> where the session's goroutine stands
  attempt    \* id -> attempts of loginWithRetry denied so far

runVars == <<window, sess, attempt>>
vars == <<seedVars, runVars>>

\* From "in" on a session is logged in; a session that works in a loop is
\* "paced" between two commands, "busy" during one, "sampled" or "broken" when
\* one has succeeded or failed. The last three are for the hosts of a battle.
SessionStates == {"idle", "dial", "opened", "backoff", "observed", "failed",
                  "in", "paced", "busy", "sampled", "broken", "exit", "done",
                  "tls", "publish", "decline"}
LoggedIn == {"in", "paced", "busy", "sampled"}

At(places) == {i \in Ids : sess[i] \in places}

\* Started, and not returned yet: what wg counts.
Active == {i \in Ids : sess[i] \notin {"idle", "done"}}

RunIdle ==
  /\ SeedIdle
  /\ window = "unset"
  /\ sess = [i \in Ids |-> "idle"]
  /\ attempt = [i \in Ids |-> 0]

RunInit == RunIdle /\ main = IF Register THEN "seed" ELSE "seeded"
-----------------------------------------------------------------------------
(* Scenario.Run after the seeding. *)

\* A deadline context derived from a cancelled one is done from the start.
StartWindow ==
  /\ main = "seeded"
  /\ window' = IF ctx = "live" THEN "open" ELSE "closed"
  /\ main' = "ramp"
  /\ next' = 0
  /\ UNCHANGED <<recorder, lobby, ctx, sem, seeder, sess, attempt>>

\* Mutant: one session too many.
MoreToLaunch_TooMany == next <= Conns /\ window = "open"

\* Mutant: the loop does not look at loadCtx.
MoreToLaunch_Unchecked == next < Conns

MoreToLaunch == next < Conns /\ window = "open"

\* The loop condition and the check of loadCtx.
RampCheck ==
  /\ main = "ramp"
  /\ main' = IF MoreToLaunch THEN "pause" ELSE "wait"
  /\ UNCHANGED <<recorder, lobby, ctx, next, sem, seeder, runVars>>

\* sleepCtx returns, its time over or loadCtx done, and the session is started
\* in either case.
Launch ==
  /\ main = "pause"
  /\ sess' = [sess EXCEPT ![next] = "dial"]
  /\ next' = next + 1
  /\ main' = "ramp"
  /\ UNCHANGED <<recorder, lobby, ctx, sem, seeder, window, attempt>>

\* Mutant: Run returns without waiting for the sessions.
AllReturned_NoWait == TRUE

AllReturned == Active = {}

\* wg.Wait, and the deferred cancel.
RunReturn ==
  /\ main = "wait"
  /\ AllReturned
  /\ main' = "returned"
  /\ window' = "closed"
  /\ UNCHANGED <<recorder, lobby, ctx, next, sem, seeder, sess, attempt>>
-----------------------------------------------------------------------------
(* One session, up to "in" and from "exit". *)

SessionTo(i, state) == sess' = [sess EXCEPT ![i] = state]

\* Mutant: a failed dial is not counted.
SessionDial_Uncounted(i) ==
  /\ sess[i] = "dial"
  /\ SessionTo(i, "opened") \/ SessionTo(i, "done")
  /\ UNCHANGED <<recorder, lobby, ctx, main, next, sem, seeder, window, attempt>>

\* Without a connection there is nothing to Exit.
SessionDial(i) ==
  /\ sess[i] = "dial"
  /\ \/ SessionTo(i, "opened") /\ UNCHANGED recorder
     \/ SessionTo(i, "done") /\ Inc("dial_error")
  /\ UNCHANGED <<lobby, ctx, main, next, sem, seeder, window, attempt>>

\* loginWithRetry gives up: the loop is left for its error path.
LoginGivesUp(i) == SessionTo(i, "failed") /\ ObserveError("LOGIN")

\* Mutant: the latency of a denied attempt is recorded too.
LoginDenied_Observed(i) ==
  /\ attempt' = [attempt EXCEPT ![i] = @ + 1]
  /\ SessionTo(i, "backoff")
  /\ Observe("LOGIN")

\* "Already logged in.": the denial that is retried.
LoginDenied(i) ==
  /\ attempt' = [attempt EXCEPT ![i] = @ + 1]
  /\ SessionTo(i, "backoff")
  /\ Inc("login_retry")

\* One attempt. The latency is observed only if the whole login succeeded.
LoginAttempt(i) ==
  /\ sess[i] = "opened"
  /\ \E verdict \in LoginVerdicts(i) :
       /\ ServerLogin(i, "load", verdict)
       /\ \/ /\ verdict = "ACCEPTED"
             /\ SessionTo(i, "observed") /\ Observe("LOGIN") /\ UNCHANGED attempt
          \/ verdict = "ALREADY" /\ LoginDenied(i)
          \/ LoginGivesUp(i) /\ UNCHANGED attempt   \* denied, or no reply
  /\ UNCHANGED <<ctx, main, next, sem, seeder, window>>

\* Mutant: the loop is left one attempt too late.
AttemptsLeft_OffByOne(i) == attempt[i] <= MaxAttempts

AttemptsLeft(i) == attempt[i] < MaxAttempts

\* sleepCtx, and the loop condition. A done context only cuts the sleep short.
LoginBackoff(i) ==
  /\ sess[i] = "backoff"
  /\ \/ AttemptsLeft(i) /\ SessionTo(i, "opened") /\ UNCHANGED recorder
     \/ ~AttemptsLeft(i) /\ LoginGivesUp(i)
  /\ UNCHANGED <<lobby, ctx, main, next, sem, seeder, window, attempt>>

\* The counter that goes with the observation is a second critical section.
LoginCounted(i) ==
  /\ \/ sess[i] = "observed" /\ SessionTo(i, "in") /\ Inc("login_ok")
     \/ sess[i] = "failed" /\ SessionTo(i, "exit") /\ Inc("login_error")
  /\ UNCHANGED <<lobby, ctx, main, next, sem, seeder, window, attempt>>

\* Mutant: the session looks at the run's context, which has no deadline.
SeesWindowClosed_WrongContext(i, place) ==
  /\ sess[i] = place
  /\ ctx = "cancelled"
  /\ SessionTo(i, "exit")

\* The loadCtx.Done case of a session that waits at place.
SeesWindowClosed(i, place) ==
  /\ sess[i] = place
  /\ window = "closed"
  /\ SessionTo(i, "exit")

\* The server answers a session whose connection it has not closed.
Connected(i) == online[i] = "load"

\* A command of the session fails: the latency is not observed, and the
\* connection is not used again.
OpFails(i, command) == SessionTo(i, "broken") /\ ObserveError(command)

\* The deferred c.Exit and wg.Done.
SessionExit(i) ==
  /\ sess[i] = "exit"
  /\ SessionTo(i, "done")
  /\ UNCHANGED <<recorder, lobby, ctx, main, next, sem, seeder, window, attempt>>

Login(i) == SessionDial(i) \/ LoginAttempt(i) \/ LoginBackoff(i) \/ LoginCounted(i)
-----------------------------------------------------------------------------
(* The environment. *)

\* Ramp + Duration have passed since the window was opened.
WindowElapses ==
  /\ window = "open"
  /\ window' = "closed"
  /\ UNCHANGED <<seedVars, sess, attempt>>

\* loadCtx is derived from ctx: cancelling ctx cancels both.
Interrupt ==
  /\ SeedInterrupt
  /\ window' = IF window = "open" THEN "closed" ELSE window
  /\ UNCHANGED <<sess, attempt>>

\* The server notices that a session's connection was closed.
SessionLogout(i) ==
  /\ online[i] = "load" /\ sess[i] = "done"
  /\ ServerLogout(i)
  /\ UNCHANGED <<recorder, ctx, main, next, sem, seeder, runVars>>

\* The server closes the connection of a session that is logged in (a kick, a
\* crash). Nobody reads there, so the session does not notice.
ServerDrop(i) ==
  /\ online[i] = "load" /\ sess[i] \in LoggedIn
  /\ ServerLogout(i)
  /\ UNCHANGED <<recorder, ctx, main, next, sem, seeder, runVars>>

RunMain ==
  \/ SeedMain /\ UNCHANGED runVars
  \/ StartWindow \/ RampCheck \/ Launch \/ RunReturn

Environment ==
  \/ WindowElapses \/ Interrupt
  \/ \E i \in Ids : \/ SeedLogout(i) /\ UNCHANGED runVars
                    \/ SessionLogout(i)
                    \/ ServerDrop(i)

\* All the steps of a run that are no session's.
SeedingStep(i) == Seeder(i) /\ UNCHANGED runVars
Shared == RunMain \/ (\E i \in Ids : SeedingStep(i)) \/ Environment
-----------------------------------------------------------------------------
(* Properties of every scenario of this shape. *)

\* Every variable keeps its type; no session is denied more than MaxAttempts
\* times, and no loop variable passes Conns.
RunTypes ==
  /\ SeedTypes
  /\ window \in {"unset", "open", "closed"}
  /\ sess \in [Ids -> SessionStates]
  /\ attempt \in [Ids -> 0 .. MaxAttempts]

RunPlaces == {"seed", "acquire", "join", "seeded", "ramp", "pause", "wait", "returned"}
TypeOK == RunTypes /\ main \in RunPlaces

\* The two phases never overlap: while any seed connection is still in use no
\* session has been started, so the terms-of-service gate cannot pollute a
\* measured login.
SeedBeforeLoad == SlotHolders # {} => \A i \in Ids : sess[i] = "idle"

\* The check of the window is stale once the ramp's sleep is over, by one
\* session: of the sessions that had not been started when the window closed at
\* most one still is, however many there are to come.
AtMostOneLate ==
  \A n \in 0 .. Conns : [](window = "closed" /\ next = n => [](next <= n + 1))

\* Every session that was started and has logged in or failed is counted once:
\* the started ones are still on their way or stand in exactly one counter.
InFlight == At({"dial", "opened", "backoff", "observed", "failed"})

SessionAccounting ==
  window # "unset" =>
    next = counters["dial_error"] + counters["login_ok"]
           + counters["login_error"] + Cardinality(InFlight)

\* The report's LOGIN row and its counters tell the same story: the samples of
\* LOGIN are the logins counted in login_ok, its errors those of login_error,
\* up to the sessions that are between the two calls of the recorder.
RowMatchesCounters ==
  /\ hists["LOGIN"] = counters["login_ok"] + Cardinality(At({"observed"}))
  /\ cmdErrors["LOGIN"] = counters["login_error"] + Cardinality(At({"failed"}))

\* What makes the above inductive: the sessions from next on have not been
\* started, none has before the window is opened, and a session that is going
\* to log in has an attempt left.
RunInv ==
  /\ window = "unset" <=> main \in {"seed", "acquire", "join", "seeded"}
  /\ window = "unset" => \A i \in Ids : sess[i] = "idle"
  /\ main = "pause" => next < Conns
  /\ main \in {"ramp", "pause"} => \A i \in next .. Conns - 1 : sess[i] = "idle"
  /\ main = "returned" => Active = {} /\ window = "closed"
  /\ \A i \in Ids : sess[i] \in {"idle", "dial", "opened"} => AttemptsLeft(i)

\* The two books agree, and nothing of a session is in them before the window.
Books ==
  /\ SessionAccounting
  /\ RowMatchesCounters
  /\ window = "unset" =>
       \A n \in {"dial_error", "login_ok", "login_error"} : counters[n] = 0
-----------------------------------------------------------------------------
(* What Execute sees of Scenario.Run. An account has a goroutine that seeds it *)
(* and a session that drives it.                                             *)

Contract == INSTANCE LoadRun WITH
  Goroutines <- {"seed", "load"} \X Ids,
  phase  <- IF main = "returned" THEN "returned" ELSE "running",
  active <- ({"seed"} \X SlotHolders) \cup ({"load"} \X Active),
  record <- recorder

\* Run keeps the contract of LoadRun: it waits for whatever it has started,
\* seeders and sessions, only they write to the recorder, nothing of it runs or
\* writes after the return, and Run does return, although the server may drop,
\* deny or ignore everything.
FulfilsLoadRun == Contract!Spec
=============================================================================
