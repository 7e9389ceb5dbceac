------------------------------- MODULE Seeding ------------------------------
(***************************************************************************)
(* internal/workload/login.go, seedAccounts: before its timed phase a      *)
(* scenario registers accounts 0..Conns-1 and confirms their agreement,    *)
(* one goroutine per account, at most SeedConcurrency of them holding a    *)
(* slot of the semaphore at a time.  Each goroutine drives one connection  *)
(* through EnsureAccount (internal/proto/login.go).                        *)
(*                                                                         *)
(* A round trip is one step: the server acts on the command or not, and    *)
(* the client sees the reply or fails (a deadline, a reset), in any of the *)
(* four combinations.  Times are abstracted away: any wait may last.       *)
(***************************************************************************)
EXTENDS Recorder, Lobby, FiniteSets

CONSTANTS
  Register,          \* cfg.Register: seed before the timed phase
  SeedConcurrency    \* capacity of the semaphore (64 in the code)

SeedCounters == {"seed_dial_error", "seed_error", "seed_ok"}

ASSUME SeedingAssumption ==
  /\ Register \in BOOLEAN
  /\ SeedConcurrency \in Nat \ {0}
  /\ SeedCounters \subseteq CounterNames

VARIABLES
  ctx,      \* the run's context: "live" until Ctrl-C, then "cancelled"
  main,     \* where the goroutine executing Scenario.Run stands
  next,     \* its loop variable: the next account or connection to start
  sem,      \* slots of the semaphore in use
  seeder    \* id -> where the account's seeding goroutine stands

seedVars == <<recorder, lobby, ctx, main, next, sem, seeder>>

SeederStates == {"idle", "dial", "register", "login", "confirm", "exit",
                 "release", "done"}

\* Goroutines that hold a slot, connections that are open, and goroutines
\* whose outcome has not been counted yet.
SlotHolders   == {i \in Ids : seeder[i] \notin {"idle", "done"}}
SeedConnected == {i \in Ids : seeder[i] \in {"register", "login", "confirm", "exit"}}
SeedPending   == {i \in Ids : seeder[i] \in {"dial", "register", "login", "confirm"}}

\* Nothing has been started yet.
SeedIdle ==
  /\ NewRecorder
  /\ LobbyInit
  /\ ctx = "live"
  /\ next = 0
  /\ sem = 0
  /\ seeder = [i \in Ids |-> "idle"]

SeedInit == SeedIdle /\ main = IF Register THEN "seed" ELSE "seeded"
-----------------------------------------------------------------------------
(* The loop that starts the goroutines. *)

MoreToSeed == next < Conns /\ ctx = "live"

\* The loop condition and the check of the context; the send on the semaphore
\* that follows may block, and does not look at the context again.
SeedCheck ==
  /\ main = "seed"
  /\ main' = IF MoreToSeed THEN "acquire" ELSE "join"
  /\ UNCHANGED <<recorder, lobby, ctx, next, sem, seeder>>

\* Mutant: a semaphore with one slot more than it should have.
SlotFree_OffByOne == sem <= SeedConcurrency

SlotFree == sem < SeedConcurrency

SeedSpawn ==
  /\ main = "acquire"
  /\ SlotFree
  /\ sem' = sem + 1
  /\ seeder' = [seeder EXCEPT ![next] = "dial"]
  /\ next' = next + 1
  /\ main' = "seed"
  /\ UNCHANGED <<recorder, lobby, ctx>>

\* Mutant: the goroutines are not waited for.
AllSeeded_NoWait == TRUE

AllSeeded == SlotHolders = {}

\* wg.Wait, and the return of seedAccounts.
SeedJoin ==
  /\ main = "join"
  /\ AllSeeded
  /\ main' = "seeded"
  /\ UNCHANGED <<recorder, lobby, ctx, next, sem, seeder>>
-----------------------------------------------------------------------------
(* One seeding goroutine. *)

SeederTo(i, state) == seeder' = [seeder EXCEPT ![i] = state]

\* Mutant: a failed account is not counted.
SeedReturn_OnlySuccess(i, counter) ==
  /\ SeederTo(i, "exit")
  /\ IF counter = "seed_ok" THEN Inc(counter) ELSE UNCHANGED recorder

\* EnsureAccount returns, and its outcome is counted.
SeedReturn(i, counter) == SeederTo(i, "exit") /\ Inc(counter)

\* Without a connection there is nothing to Exit.
SeedDial(i) ==
  /\ seeder[i] = "dial"
  /\ \/ SeederTo(i, "register") /\ UNCHANGED recorder
     \/ SeederTo(i, "release") /\ Inc("seed_dial_error")
  /\ UNCHANGED <<lobby, ctx, main, next, sem>>

\* Accepted or denied, EnsureAccount goes on to log in.
SeedRegister(i) ==
  /\ seeder[i] = "register"
  /\ \E created \in BOOLEAN :
       account' = IF created /\ account[i] = "absent"
                  THEN [account EXCEPT ![i] = "unconfirmed"] ELSE account
  /\ \/ SeederTo(i, "login") /\ UNCHANGED recorder
     \/ SeedReturn(i, "seed_error")
  /\ UNCHANGED <<online, ctx, main, next, sem>>

\* Mutant: an account that still asks for the agreement passes as seeded.
SeedLogin_SkipAgreement(i) ==
  /\ seeder[i] = "login"
  /\ \E verdict \in LoginVerdicts(i) :
       /\ ServerLogin(i, "seed", verdict)
       /\ \/ verdict # "DENIED" /\ SeedReturn(i, "seed_ok")
          \/ SeedReturn(i, "seed_error")
  /\ UNCHANGED <<ctx, main, next, sem>>

\* Mutant: "Already logged in" is tried again until the session is gone.
SeedLogin_RetryForever(i) ==
  /\ seeder[i] = "login"
  /\ \E verdict \in LoginVerdicts(i) :
       /\ ServerLogin(i, "seed", verdict)
       /\ \/ verdict = "ACCEPTED" /\ SeedReturn(i, "seed_ok")
          \/ verdict = "ALREADY" /\ SeederTo(i, "register") /\ UNCHANGED recorder
          \/ verdict = "AGREEMENTEND" /\ SeederTo(i, "confirm") /\ UNCHANGED recorder
          \/ SeedReturn(i, "seed_error")
  /\ UNCHANGED <<ctx, main, next, sem>>

\* "Already logged in" counts as success: the account exists, confirmed.
SeedLogin(i) ==
  /\ seeder[i] = "login"
  /\ \E verdict \in LoginVerdicts(i) :
       /\ ServerLogin(i, "seed", verdict)
       /\ \/ verdict \in {"ACCEPTED", "ALREADY"} /\ SeedReturn(i, "seed_ok")
          \/ verdict = "AGREEMENTEND" /\ SeederTo(i, "confirm") /\ UNCHANGED recorder
          \/ SeedReturn(i, "seed_error")   \* denied, or no reply
  /\ UNCHANGED <<ctx, main, next, sem>>

\* After the delay the terms of service ask for. A confirmed account is logged
\* in at once.
SeedConfirm(i) ==
  /\ seeder[i] = "confirm"
  /\ \E confirmed \in BOOLEAN :
       /\ account' = IF confirmed THEN [account EXCEPT ![i] = "confirmed"] ELSE account
       /\ online' = IF confirmed THEN [online EXCEPT ![i] = "seed"] ELSE online
       /\ \/ confirmed /\ SeedReturn(i, "seed_ok")
          \/ SeedReturn(i, "seed_error")
  /\ UNCHANGED <<ctx, main, next, sem>>

\* The deferred calls, last first: c.Exit, then the slot, then wg.Done.
SeedExit(i) ==
  /\ seeder[i] = "exit"
  /\ SeederTo(i, "release")
  /\ UNCHANGED <<recorder, lobby, ctx, main, next, sem>>

SeedRelease(i) ==
  /\ seeder[i] = "release"
  /\ SeederTo(i, "done")
  /\ sem' = sem - 1
  /\ UNCHANGED <<recorder, lobby, ctx, main, next>>

Seeder(i) ==
  \/ SeedDial(i) \/ SeedRegister(i) \/ SeedLogin(i) \/ SeedConfirm(i)
  \/ SeedExit(i) \/ SeedRelease(i)
-----------------------------------------------------------------------------
(* The server notices a closed connection in its own time. *)
SeedLogout(i) ==
  /\ \/ online[i] = "prior"
     \/ online[i] = "seed" /\ seeder[i] \in {"release", "done"}
  /\ ServerLogout(i)
  /\ UNCHANGED <<recorder, ctx, main, next, sem, seeder>>

\* Ctrl-C or SIGTERM.
SeedInterrupt ==
  /\ ctx = "live"
  /\ ctx' = "cancelled"
  /\ UNCHANGED <<recorder, lobby, main, next, sem, seeder>>

SeedMain == SeedCheck \/ SeedSpawn \/ SeedJoin

SeedNext ==
  \/ SeedMain
  \/ \E i \in Ids : Seeder(i) \/ SeedLogout(i)
  \/ SeedInterrupt
  \/ main = "seeded" /\ UNCHANGED seedVars   \* seedAccounts has returned

\* A runnable goroutine is scheduled, and every blocking call of a seeder has a
\* deadline. Nothing is asked of the server.
SeedFairness ==
  /\ WF_seedVars(SeedMain)
  /\ \A i \in Ids : WF_seedVars(Seeder(i))

SeedSpec == SeedInit /\ [][SeedNext]_seedVars /\ SeedFairness
-----------------------------------------------------------------------------
(* Properties *)

\* Every variable keeps its type; the loop variable never passes Conns.
SeedTypes ==
  /\ RecorderTypeOK
  /\ LobbyTypeOK
  /\ ctx \in {"live", "cancelled"}
  /\ next \in 0 .. Conns
  /\ sem \in 0 .. SeedConcurrency
  /\ seeder \in [Ids -> SeederStates]

SeedTypeOK == SeedTypes /\ main \in {"seed", "acquire", "join", "seeded"}

\* The bound seedAccounts is there for: never more than SeedConcurrency seed
\* connections are open at once.  It rests on the order of the deferred calls:
\* a slot is given back only after the connection that used it was closed.
SeedBounded == Cardinality(SeedConnected) <= SeedConcurrency

\* Every account that was started is accounted for: it is still pending or it
\* has been counted in exactly one of the three seed counters.
SeedCounted ==
  counters["seed_ok"] + counters["seed_error"] + counters["seed_dial_error"]

SeedAccounting == next = SeedCounted + Cardinality(SeedPending)

\* What the timed phase relies on: an account counted in seed_ok exists and has
\* confirmed the agreement, so there are as many of those at least.
SeededAreConfirmed ==
  counters["seed_ok"] <= Cardinality({i \in Ids : account[i] = "confirmed"})

\* What makes the above inductive: the semaphore counts the goroutines between
\* their send and their receive, those from next on have not been started, and
\* past the WaitGroup there are none.
SlotInv ==
  /\ sem = Cardinality(SlotHolders)
  /\ sem <= SeedConcurrency
  /\ main = "acquire" => next < Conns
  /\ main \in {"seed", "acquire"} => \A i \in next .. Conns - 1 : seeder[i] = "idle"
  /\ main \notin {"seed", "acquire", "join"} => SlotHolders = {}

\* A session implies a confirmed account, and every success that was counted is
\* that of a confirmed account whose goroutine is past EnsureAccount.
Settled == {i \in Ids : account[i] = "confirmed" /\ seeder[i] \in {"exit", "release", "done"}}

ConfirmedInv ==
  /\ \A i \in Ids : online[i] # "none" => account[i] = "confirmed"
  /\ counters["seed_ok"] <= Cardinality(Settled)

\* seedAccounts returns, whatever the server does: every slot is given back on
\* every path, so nobody waits for the semaphore or the WaitGroup for ever.
SeedingReturns == <>(main = "seeded")
=============================================================================
