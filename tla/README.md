# Verification of uberstress

uberstress is a load generator for the uberserver lobby server: a scenario
drives many connections, pingers probe the server beside it, a shared recorder
collects what happened, and a report is built in the end. What it is for is the
report, so this project asks what the report can be trusted for: which
interleaving of goroutines, which lost reply, which Ctrl-C makes it wrong, makes
it miss a failure, or keeps it from being written.

Paths below are relative to `src/`.

## 1. Inventory

| component | state | operations | interacts with |
|---|---|---|---|
| Recorder (`internal/metrics/recorder.go`) | histograms, counters, errors per command, one mutex | Observe, Inc/Add, ObserveError, Snapshot, BuildReport | written by every session, seeder and pinger; read by the emitter and cmdLoad |
| seedAccounts (`internal/workload/login.go`) | semaphore, WaitGroup, loop variable | start, dial, EnsureAccount, count, Exit, release | recorder, server, run context |
| login-storm, chat, social, register-storm (`internal/workload/*.go`) | window (`loadCtx`), WaitGroup, one goroutine per connection | seed, open window, ramp, dial, log in (retry), work, Exit | recorder, server, contexts |
| battle, battle-list | as above, and the `opened` channel, the hosts' context | sequential TLS hosts, players, release | as above |
| Execute, emitter (`internal/workload/execute.go`) | pingers' context, `progDone`, two WaitGroups | start all, run, stop emitter, stop pingers | scenario, pingers, recorder |
| Pinger (`internal/workload/pinger.go`) | connection, ticker | dial, ping, redial, sleep, stop | recorder, server |
| Client (`internal/proto/*.go`) | connection, `bufio.Reader`, deadlines | Dial, StartTLS, Send, Expect, the round trips, Exit | lobby server |
| Report, percentiles, diff (`internal/metrics`) | samples, files in the results directory | summary, BuildReport, Save, LoadReport, DiffReports | recorder, CLI |
| Bench harness (`internal/harness`) | database, server subprocess, port | Reset, LaunchServer, waitReady, Stop, RunTarget | Execute, CLI |
| CLI (`cmd/uberstress/main.go`) | signal context | load, bench, compare | all of the above |
| lobby server (external) | accounts, sessions, channels, ignore rows | REGISTER, LOGIN, JOIN, SAY, IGNORE ... | every client |

What is hard here, and what makes each component correct:

* **Seeding** - goroutines bounded by a semaphore whose slots come back through
  deferred calls; the loop blocks without looking at its context. Correct: the
  bound is one on open connections, every started account is counted once, the
  phases do not overlap, and it always returns.
* **Scenarios** - a deadline, a Ctrl-C and the end of a round trip race in every
  session; a check of the window is stale after a sleep; a reply may be lost
  after the server has acted; the server may close a connection nobody reads.
  Correct: `Run` returns with nothing left running; every session started stands
  in one counter; the rows agree with the counters; no session leaves the load
  uncounted, and at most one comes to it after the window has closed.
* **Execute** - a shutdown of three parties in an order that makes the report a
  report on a quiescent recorder. Correct: it is final, its books agree, it is
  always written, and the probes cover the load.
* **Social** - writes whose echo is lost, rows that outlive sessions and runs.
  Correct: a session knows the state of its row at every step of its cycle.
* **Battle** - hosts that hold while players work, started one at a time over a
  channel of one place that may lose its reader; memberships whose echo is lost.
  Correct: handshakes never overlap, no host blocks or lets go of its battle before
  the window ends, and a player knows whether it is in its battle.
* **Client** - an answer that comes after its deadline, broadcasts that look like
  answers, a server that goes away, a reader that is replaced for TLS while the
  server writes. Correct: a success is the server's answer to this very command,
  no answer is left over when the connection is used again, no line is thrown
  away, and every call ends by its own deadline.
* **Metrics** - quantiles at boundaries, rows that one of two runs does not have.
  Correct: a reported quantile is one of the samples in whatever order they came,
  and a comparison hides neither a row nor a failure, nor takes a slower run for
  a faster one.
* **Bench** - a subprocess, a port and a database that outlive a run, a Ctrl-C
  that the terminal sends to the server too. Correct: a bench leaves no server
  behind, its report is about the version it names, a database that was reset is
  clean, and it ends whatever its server does.

`PROJECT.json` lists the hazards, each at its line with the properties that
cover it or the reason why none does.

## 2. Modules

```
RoundTrip <= LobbyClient             what a call promises; a connection, line by line
    :
    :        Recorder   Lobby        the shared recorder; the server's accounts
    :             \     /
    :             Seeding            seedAccounts + EnsureAccount
    :                |
    :.............RampedRun  => LoadRun   seed, window, ramp, dial, login, exit
           /    |     |        |        \
  LoginStorm  Chat  Social  RegisterStorm  Battle   between login and exit

Recorder
   |
Execute                              scenario contract, pingers, emitter, report
   :
Metrics                              samples, quantiles, report, comparison
Bench                                benches on a host: server, port, database

proofs: SeedingProofs <- RampedRunProofs <- ScenarioProofs   (LoginStorm, Chat, Social,
                                         |                    RegisterStorm)
                                         <- BattleProofs
        ExecuteProofs   BenchProofs   LobbyClientProofs   MetricsProofs
```

A line is EXTENDS, a double arrow a refinement (INSTANCE ... WITH), dots an
assumption that the other module justifies.

* `RoundTrip` is what the scenario modules take for granted when they make a call
  of the client one step: "ok" only for what the server has done, "denied" only
  for what it never will do, nothing known after a failure, and the connection
  given up. `LobbyClient!FulfilsRoundTrip` shows that a connection, line by line,
  keeps it. (CONFIRMAGREEMENT, which has no answer of its own, and JOIN, whose
  acknowledgement is not told from its refusal - the run `chat_join` - are not
  among its calls.)
* `LoadRun` is the contract of `Scenario.Run`: it returns when the last goroutine
  it started has, and nothing of it runs or writes afterwards. Each of the five
  scenario modules is shown to implement it (`FulfilsLoadRun`, defined in
  `RampedRun`; Battle's hosts are sessions there too), with its liveness. Execute's `worker` is
  any scenario that keeps it: LOGIN stands for the commands whose failures it attributes to
  a row, JOIN is chat's, whose failures are a counter only, and `dial_error` is what it
  counts of connections that fail.

`RampedRun` is what the code repeats in `login.go`, `chat.go`, `social.go` and
(without the seeding) `register.go`; it has no next-state relation of its own,
each scenario module composes its actions with the session's.

| module | code | correspondence |
|---|---|---|
| Recorder | `recorder.go`, `BuildReport` | a method is one action, as it holds the mutex for its body; `hists[c]` is the number of samples |
| Lobby | external | `account`: absent, unconfirmed, confirmed; `online`: whose session is logged in. Every reply the client code distinguishes is possible whenever its cause is, `DENIED` always |
| Seeding | `login.go:106-134`, `proto/login.go:70-118` | `main` is the loop (`seed`: the check, `acquire`: the send on the semaphore, `join`: the WaitGroup); `seeder[i]` the goroutine, one place per call |
| RampedRun | `login.go:27-101`, and the same lines of chat and social | `main` goes on through `ramp` (check), `pause` (sleep), `wait`, `returned`; `window` is `loadCtx`; `sess[i]`, `attempt[i]` the session and its login loop; `observed`/`failed` stand between the two calls of the recorder |
| LoginStorm | `login.go:72-75` | `Hold` |
| Chat | `chat.go`, Join and Say | `member`: who is in its channel, on the server |
| Social | `social.go`, Ignore ... FriendList | `seq[i]` modulo 4; `ignores`: rows of the server; `rejected`: a history of SERVERMSG answers |
| RegisterStorm | `register.go`, Register | `RegisterInit` starts behind the seeding whatever `Register` is, as `cfg.Register` is ignored |
| Battle | `battle.go`, `battlelist.go`, StartTLS, OpenBattle ... LeaveBattle | the first `HostCount` ids are hosts, the rest players; `main` sets the hosts up in `hosts` (check, start), `await` (select) and `ready`; `hostCtx`, `opened`, `ids` as in the code; `scenario` is which of the two runs; `battles`, `inside`: the server's |
| LoadRun | `scenario.go:42-48`, as Execute relies on it | `active`: goroutines not finished, `record`: what the recorder holds |
| RoundTrip | the methods of `commands.go` and `login.go`, as their callers rely on them | `done`: the calls the server has done, `result`: what was returned |
| LobbyClient | `client.go`, `tls.go`, the matchers of `commands.go` and `login.go` | `place`: where the owner stands in Dial, Expect or StartTLS; `wire`: lines under way, the first `buffered` of them in the `bufio.Reader`; `left`: ticks to the deadline of the call |
| Metrics | `recorder.go:86-117`, `report.go:44-97`, `diff.go` | `samples`: in the order they were observed; `failures` and `counts`: the two books of failures; `baseline`: the report of the earlier run |
| Bench | `harness/bench.go`, `server.go`, `db.go:54-64`, cmdBench | `main` is RunTarget's place; `server[n]`, `port`: the process of the n-th bench and who listens; `db`, `tablesOf`, `loaded`: the database |
| Execute | `execute.go`, `pinger.go`, `main.go:164-192` | `main` runs from `sc.Run` to the report; `pinger[p]` and `ticker[p]` (a one-place channel); `emitter` with its snapshot; `worker` is any scenario that keeps Run's contract |

Grain: a round trip (`Send` then `Expect`) is one step in which the server does
what is asked or not, and the client sees the reply or fails - all four
combinations, so a lost reply after a done write is covered. Each goroutine owns
its connection and its server-side effects concern its own account, so a finer
grain adds no outcome to the properties here. Each call of the recorder is a
step of its own. Times are abstracted: any wait may last and any two may end in
either order, save that a pinger's deadline and the ticks of its ticker are
ordered as far as `Tick` says.

History variables that the code does not have: `rejected` (Social); in LobbyClient
the number `to` of the command a line answers, `served`, `accepted` and `stranded`;
in Bench `tablesOf`, `loaded`, `measured` and `killed`. No guard of the code's own
actions reads them.

## 3. Runs

| run | question | bounds and why they are enough |
|---|---|---|
| seeding | is seeding bounded and counted, and does it end | 3 accounts over 2 slots: one goroutine has to wait for a slot while two are in any two places; all initial account states |
| login_storm | the whole scenario | 2 sessions, a semaphore of 1, 2 attempts: a retry that succeeds and one that is the last; a session can be late while the other is held, dropped or gone; the window can close before both sessions, between them and after |
| execute | shutdown order, report, probes | 1 worker, 2 pingers, one command, one JOIN, one PING and one failed dial between the pingers: one pinger can be anywhere in its loop while the other is the last to stop |
| chat | ways out of the load | 2 chatters, 2 SAYs between them, 1 login attempt (retries are login_storm's): each may succeed or fail while the other joins, speaks or leaves |
| social | the write cycle | 2 sessions, each the other's peer, 5 commands: one full cycle and the beginning of the next. No seeding (the accounts come from `LobbyInit` in every state) |
| register_storm | REGISTER | 3 sessions on names free or taken; `Register = TRUE`, which must make no difference |
| battle | set-up, players, release; battle and battle-list | 2 hosts, of which any may fail before the other starts, and 1 player; 1 attempt each; 5 commands: the first join and a cycle that ends in joining again. Unconfirmed accounts are left out (`MCSpec`): nothing is seeded, so they fail to log in as absent ones do |
| client | one connection | PING (no refusal), LOGIN (two Expects, a retry), IGNORE (any announcement passes for its refusal) and STARTTLS, in any order; 3 commands: one to be late, one to be mistaken for, one after; 3 lines under way, so that a stray stands before, between and behind the answers; a deadline of 2 ticks, so that one can pass between two lines |
| metrics | quantiles, reports, comparison | up to 101 PINGs, at which each of p50, p95, p99 is whole at some count and not at others; rising, falling, mixed and repeating orders; at most 3 of each in a run that is compared with another (`MaxCompared`); LOGIN with a sample, a failure, both or neither in either run; JOIN, as in chat, with a counted failure that has no row. The run may stop at any point (no deadlock check): an observation is made or not |
| bench | benches on one host | 3 benches: one that can be killed and leave its server, one that can find it on the port, and one after both; a foreign server and a database that were there before, or not |

Two further runs each check one sentence of the repository's comments that the
code does not keep, and TLC finds the violation:

| run | claim | what happens |
|---|---|---|
| chat_join | `commands.go:31` waits for the JOIN acknowledgement | a JOINFAILED is counted in join_ok |
| percentile | `recorder.go:105` nearest-rank | where p*n is whole the value is the next one up, so the p50 of two samples is the larger |

Seen while modelling, without a run of their own:

* A held session never reads, so a connection the server drops is counted nowhere
  (`login.go:74`), where `README.md:97` says flood-kicks are reported
  (`ServerDrop` in RampedRun).
* The pingers' ticker holds one tick, so a slow PING thins the probes out
  (`pinger.go:50`), where `README.md:86` says they come at a fixed interval.
* A run that ends between IGNORE and UNIGNORE leaves its row, which makes the
  first IGNORE of the next run a rejection, where `social.go:21` says both writes
  are real.
* Battle hosts are released when the window closes (`battle.go:92`) and not when
  the players have returned: a player in a round trip may count an error that
  the load did not cause.
* A session is started when the ramp's sleep ends even if the window has closed
  meanwhile, where `login.go:35` says the timed phase has ended (`Launch` has no such
  guard). It is one session at most (`AtMostOneLate`).
* A failed JOIN of chat is counted but not attributed to a row of the report
  (`chat.go:75`), where `recorder.go:52` says failed commands are. The live panel
  counts it, so there the two disagree, by these joins and by nothing else
  (`ErrorsReconcile`).
* A command that only failed in the new run reads as `-100%` in a comparison
  (`diff.go:94`), like a perfect speed-up; that it is none is told by the counters
  below the table (`ChangesAreReal`).
* The last "Already logged in" denial is counted in `login_retry` and slept on
  although no attempt follows (`login.go:92`, the guard `AttemptsLeft` of
  `LoginBackoff`).
* After a Ctrl-C the pingers stop at once while the scenario drains, where
  `execute.go:28` says they run for its lifetime (the exception in
  `PingersCoverLoad`).
* A session whose peer failed to seed ignores an account that does not exist, where
  `social.go:21` says the seed phase has created it.
* `waitReady` takes any listener for the server it launched (`server.go:83`): while a
  foreign server or a killed bench's holds the port, the report carries one commit
  and the numbers of another version. `MeasuresItsVersion` says that these two are
  the only ways.
* `Server.Stop` says it sends SIGTERM; it sends os.Interrupt (`server.go:66`).

Bounds: `MaxSays`, `MaxSocialOps`, `MaxBattleOps`, `MaxOps`, `MaxPings` cap the commands of a
run (guards `SaysLeft`, `OpsLeft`, `PingsLeft`, and the failed dials in
`PingerDial`). They stand for the end of the window: a session at its bound can
still only leave by the window. They also keep a session from taking its tick
for ever with its context done, which Go's uniformly random `select` does with
probability zero. `MaxAttempts` is the code's 6 (of loginWithRetry and of dialTLSHost), `SeedConcurrency` its 64;
the theorems hold for every value.

Each property has a mutant: a plausible bug of the code as a second form of one
definition (`..._NoWait`, `..._OffByOne`, `..._WrongContext` and so on), kept
next to the definition. With the mutant in place TLC finds the property violated.

## 4. Fairness

* Weak fairness of the main goroutine and of each seeder, session, worker and
  pinger: Go schedules runnable goroutines, and every blocking call of the client
  (`Dial`, `Send`, `Expect`) has a deadline, so a round trip ends.
* Weak fairness of `WindowElapses`: `context.WithTimeout` fires.
* Strong fairness of `EmitterStop`: while the tick and `progDone` are both ready
  the emitter may take the tick, again and again, but `select` chooses at random.
* No fairness for the server, for its log-outs, for Ctrl-C, for ticks or for the
  worker's start: none of them is owed. `SeedingReturns`, `FulfilsLoadRun` (which
  includes that Run returns) and `ReportWritten` hold against a server that never answers.
* LobbyClient: weak fairness of reading, of giving up and of the clock; none of the
  server, nor of the owner's next call. A server that sends without end is allowed
  for: the clock goes on, and `RoundTripEnds` rests on the deadline alone.
* Bench: weak fairness of RunTarget, of Stop's kill and of waitReady's deadline. The
  servers owe nothing, not even to exit when told to; Execute's return is what
  `ReportWritten` shows. One thing is taken for granted that the code does not force:
  that the mysql client of `Reset` ends, which only a Ctrl-C would cut short (`db.go:58`).

Deadlock is checked in every run but those of Metrics, where the observations may
end at any point; elsewhere a finished run stutters explicitly.

## 5. Proofs

TLAPS checks, for every value of the constants:

| theorem | property |
|---|---|
| SeedTypeCorrect, SeedConcurrencyBounded, SeedAccountingHolds, SeedOkMeansConfirmed | the types, SeedBounded, SeedAccounting, SeededAreConfirmed |
| TypeCorrect, PhasesSeparate, BooksBalance, OneLateSession (login-storm) | TypeOK, SeedBeforeLoad, Books, AtMostOneLate |
| ChatBooksBalance, NoChatterLost (chat) | ChatBooks, NoSilentExit |
| RowIsKnown, OnlyIgnoreRejected (social) | CycleKnowsRow, UnignoreNeverRejected |
| RegisterBooksBalance, OnlyCreationsMeasured (register-storm) | RegisterAccounting, MeasuredAreCreated |
| BattleTypeCorrect, HandshakesAreAlone, BattlesAreHeld, MembershipIsKnown, BattleBooksBalance (battle, battle-list) | BattleTypeOK, HandshakeAlone, HostsHold, MembershipKnown, BattleBooks |
| KeepsLoadRun, ChatKeepsLoadRun, SocialKeepsLoadRun, RegisterKeepsLoadRun, BattleKeepsLoadRun | the safety half of FulfilsLoadRun, a refinement |
| ExecuteIsQuiescent, PingersCover, ReportFinal, ErrorsAgree | QuiescentExecute, PingersCoverLoad, ReportIsFinal, ErrorsReconcile |
| OwesNothing, StrandsNothing, KeepsRoundTrip (LobbyClient) | NothingOwed, NothingStranded, FulfilsRoundTrip, a refinement |
| NoneOrphaned, ReportsTheirVersion, StartsClean (Bench) | NoOrphans, MeasuresItsVersion, CleanDatabase |
| QuantilesAreReported, ComparisonIsComplete, DirectionsAreTrue (Metrics) | QuantilesHold, ComparisonTellsAll, ChangesAreReal |
| RankInRange, RankAndNearest, SortedPermutes, QuantileOfSorted, QuantilesInOrder, SummaryHolds (Metrics) | what `Rank`, `Sorted`, `Percentile` and `Summary` return for any samples, and how far NearestRank is missed |

So every safety property the passing runs check, the invariants and the action
properties, is a theorem too. Each rests on an inductive invariant (BattleInvariant,
RegisterInvariant, BooksInvariant and the like), whose parts are named definitions of
the modules or, where they are sums that only a proof needs, of the proof modules.

Assumptions: those of the modules on their constants (`ConnsAssumption`,
`SeedingAssumption`, `RampedAssumption`, `ChatAssumption`, `SocialAssumption`,
`RegisterStormAssumption`, `BattleAssumption`, `ExecuteAssumption`, `ClientAssumption`,
`BenchAssumption`, `MetricsAssumption`), which TLC evaluates in the runs; nothing else.

Arguments:

* *Seeding.* `SeedBounded` does not follow from types: the inductive invariant
  adds `SlotInv`, that the semaphore's count is the number of goroutines between
  their send and their receive, and that the goroutines from `next` on are idle
  (without it `SeedSpawn` might start one twice). Open connections are among
  the slot holders, because `Exit` precedes the release. `SeedAccounting` is
  inductive on top: each step moves one goroutine out of the pending set and
  adds one to one counter. For `SeededAreConfirmed`, `ConfirmedInv` counts: `seed_ok`
  is at most the number of goroutines that are past `EnsureAccount` and whose account
  is confirmed: the success is counted in the step out of it, a session implies a
  confirmed account, and nothing takes a confirmation back.
* *RampedRun.* `RunInv`: nothing is started before the window exists, sessions
  from `next` on are idle, a session that is going to log in has an attempt
  left (which bounds `attempt`), and nothing is active after the return. The lemmas of
  `RampedRunProofs` show that each shared action keeps `TypeOK`, `SlotInv`,
  `RunInv` and `Books`; `ScenarioProofs` adds the actions of each scenario and the
  temporal step. `Books` needs a zero of the three counters before the window opens.
  `AtMostOneLate` speaks of the future of a state; `Late` is what stays true from then
  on: the window is closed, and the count has not grown, or has grown by one and the
  main goroutine is past the ramp's sleep, to which only an open window lets it back.
* *Chat.* `ChatBooks` is inductive on top of `Inv`: a step of a session moves it
  into or out of the places the books count as it adds to a counter (`AtSteps`), and
  no other step touches the counters of chat. `NoSilentExit` is then a matter of which
  actions lead to "exit".
* *Social.* `CycleInv` says what each place of the cycle knows of the row: the cycle
  begins after the login at 0, "sampled" knows the row of the command that has just
  succeeded, "broken" knows nothing and never comes back, and a session that was
  rejected stands at its first command and has left. Neither `CycleKnowsRow` nor
  `UnignoreNeverRejected` is inductive without it.
* *RegisterStorm.* The lemmas of RampedRun start from `RunIdle`, the state before
  `main` is chosen, so they serve a `Run` that begins behind the seeding as well.
  `RegisterInv` adds the books of REGISTER, and that they are empty before the window.
* *Battle.* No property is inductive, and the parts of `BattleInv` need each other.
  `PhaseInv` says for each place of the main goroutine which ids it has started and which
  contexts are over (the hosts' context is cancelled only with the run's or at the
  release). `SetUpInv`: at most one host stands between its dial and its report,
  none while a report is in the channel, and no player is started before; so a
  handshake is alone. A host that is "paced" is *promised* its
  place: its id is in the channel or in the list, and leaves it only after the release;
  that is `HostsHold`. `CycleInv` is for `MembershipKnown` what `CycleInv` of Social is for
  its row, with one way out more: a battle that was closed with its host is known to be gone
  (`SessionEnds` takes its players out).
* *Battle's books.* `OpenedInv` adds where a counted battle is: in a host's hands, in the
  channel, or in the list. `Balanced` states what a step of one session has to count for
  what it leaves and enters, `SessionBooks` that this keeps the books, and
  there is one lemma per kind of step. That `openbattle_ok` is the length of the list
  once the window opens is `OpenedInv` together with `Quiet` of `SetUpInv`.
* *Execute.* `ShutdownInv` has one line per wait: what was waited for stays
  stopped, and the pingers' context is done only for a reason. `ReportIsFinal`
  follows, as every action that records needs a goroutine that has not stopped.
* *LoadRun.* Every step of a scenario is a `Work` step while `main` is not `returned`;
  the step to it is `Return`, by the guard `AllReturned` and the invariant; and the
  steps after it change nothing that Execute sees, as nothing is active. The lemmas
  (`SharedRefines` and `ActiveIsWork` above all) are in `RampedRunProofs`; a scenario
  adds that its own actions are those of an active session.
* *LobbyClient.* Neither property is inductive. `ClientInv` adds that every line
  on its way is unasked or tells truly what became of the command it answers
  (`AnswersHold`), that a command has one such line, or a LOGIN its two (`OneAnswer`,
  `DumpInv`), that the server is at most one command behind, and then the client
  waits for it or has given up (`OneBehind`), and what may be on its way at each
  place of the client (`PlaceInv`). Taking a stray for an answer can then only make a
  failure of it, as no unasked line has the kind of a success; and after a failure
  the connection is not used. `NothingOwed` is the line of `PlaceInv` for `ready`
  together with `OneBehind`. `KeepsRoundTrip` needs the same facts: the line read
  as a success is about this command, so `ReturnOk` is enabled.
* *Bench.* `ServerInv` says who can be alive: the server of the bench under way, which
  stands at a place from which it stops it, an orphan of a killed bench, or the
  foreign one. What answers on the port is one of those, hence `MeasuresItsVersion`.
  `FreshInv` follows the database from its reset to the first request.
* *Execute's books.* `ErrorsReconcile` compares sums over sets of names, which `Total`
  folds. `TotalRemove` and `TotalUnion` reduce a total to its parts; `BooksInv` then
  says, name by name, that what was attributed and not yet counted is the number of
  goroutines `Between` the two calls of the recorder, and at the end there are none.
  `join_error` has no such row, and stands on the other side of the equation.
* *Metrics.* The model defines `Sorted` by counting: the place of a sample is the number of
  samples before it. `SortedPermutes` shows that the places are a
  permutation (distinct, and as many as the samples) and the result
  ascends. Of n sorted samples, those up to index r are at most the r-th and the
  others at least: two cardinalities, which `Rank` makes large enough, and which the
  permutation carries over to the samples in the order of their arrival. For
  `ChangesAreReal` the invariant says that the baseline is the report of samples of a
  microsecond at least, so a p99 of 0 means that there was none; `RoundedSign` and
  `RoundedWhole` say what the rounding keeps of a quotient.

Only model-checked: liveness, as temporal reasoning with ENABLED is out of the
prover's reach: `SeedingReturns`, `ReportWritten`, `RoundTripEnds`, `BenchReturns`, and of
`FulfilsLoadRun` that Run returns. What the violation runs show is shown by
a counterexample and needs no proof. No module declares a RECURSIVE operator.

## 6. What the results say

Within the models the accounting holds up: whatever the server does, every
session started is counted once, `Run` and `Execute` return with nothing left
running, and the report is final, written after any Ctrl-C and consistent with
the live panel but for chat's failed joins. The abstraction this rests on, that a call is one step whose
success means what it says, is itself shown of the connection, line by line: the
rule that a caller gives a connection up after any error, which only a comment
states, is what makes it true. A bench cleans up after itself on every path but
its own death, and that death is the only way, besides a foreign server, for a
report to be about another version.

What does not hold is in the two violation runs and the list of section 3. Drops
and joins have one root: a failure of the server's that the code has no reader
for, or no row. Most of the others are about the edges of a run: what its end does to the
last commands, and what it leaves for the next.

## 7. Not modelled

Pacing (times are abstracted, so neither the ramp's intervals nor the burst of
attempts after the window's end); flags, usage and listing; the registry of
scenarios; rendering, JSON and the names of the report files (one-second
resolution); password encoding and SQL generation, which are straight-line text;
the resolution of commits and the version probe, which only read; a mysql client
that outlives a killed uberstress. The lobby server is external: its replies are
those the client code names.

In LobbyClient the deadline of Send is not told from a failing write, and the text of
a line is its kind; no unasked line there has the kind of a success, since SAID carries
the session's own text, the echoes of battles and ignores its own name or id, and
OPENBATTLE goes to the host that sent it, the others being sent BATTLEOPENED
(`battlelist.go:15`).
`battle` is modelled for two connections or more (with one there
is nobody to join). The rounding of a quantile in float64 is exact for the three
the code asks for and the sample counts the tool can reach, so Metrics uses the
integer division.

## 8. What could follow

A composition of Execute with the contract `LoadRun` in place of its `worker`; a model
of time, for the ramp and the ticker; a proof that `Bench` and `Execute` fit together
(RunTarget's `Load` is Execute's run).
