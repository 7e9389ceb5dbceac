------------------------------- MODULE Execute ------------------------------
(***************************************************************************)
(* internal/workload/execute.go, Execute, with the pingers (pinger.go) and *)
(* the progress emitter that run beside the scenario, and the part of      *)
(* cmdLoad (cmd/uberstress/main.go) that turns the recorder into a report. *)
(*                                                                         *)
(* The scenario is any that keeps Run's contract: it starts workers which  *)
(* record what they do, and Run returns when they have all returned        *)
(* (LoadRun).  LOGIN stands for the commands whose failures it attributes, *)
(* dial_error for what it counts of connections that fail; chat's JOIN is  *)
(* the one command with counters alone.  PING is the pingers' only.        *)
(***************************************************************************)
EXTENDS Recorder, FiniteSets

CONSTANTS
  Workers,    \* connections the scenario drives
  Pingers,    \* dedicated connections of the reactor-health probe
  MaxOps,     \* bound: commands the workers start
  MaxPings    \* bound: PINGs, and failed dials of the pingers

ExecuteCounters ==
  {"dial_error", "login_ok", "login_error", "join_ok", "join_error",
   "ping_dial_error", "ping_error"}

ASSUME ExecuteAssumption ==
  /\ MaxOps \in Nat /\ MaxPings \in Nat
  /\ Commands = {"LOGIN", "PING"}
  /\ ExecuteCounters \subseteq CounterNames
  /\ IsFiniteSet(CounterNames) /\ IsFiniteSet(Workers) /\ IsFiniteSet(Pingers)

VARIABLES
  ctx,       \* the run's context: "live" until Ctrl-C or the end of the run
  pctx,      \* the pingers' context, derived from ctx
  main,      \* where the goroutine of cmdLoad and Execute stands
  worker,    \* worker -> where it stands
  pinger,    \* pinger -> where it stands
  ticker,    \* pinger -> the channel of its ticker, which holds one tick
  emitter,   \* where the progress emitter stands
  snap,      \* the snapshot it took last
  line,      \* the last progress line on stderr
  report     \* the report of cmdLoad, in a sequence of one, once it is built

contexts == <<ctx, pctx>>
probe == <<pinger, ticker>>
progress == <<emitter, snap, line>>
vars == <<recorder, contexts, main, worker, probe, progress, report>>

NoReport == <<>>

\* The pingers and the emitter were started before the scenario is run.
Init ==
  /\ NewRecorder
  /\ ctx = "live" /\ pctx = "live"
  /\ main = "running"
  /\ worker = [w \in Workers |-> "idle"]
  /\ pinger = [p \in Pingers |-> "top"]
  /\ ticker = [p \in Pingers |-> "empty"]
  /\ emitter = "wait"
  /\ snap = [sent |-> 0, errors |-> 0]
  /\ line = [sent |-> 0, errors |-> 0]
  /\ report = NoReport
-----------------------------------------------------------------------------
(* The scenario. *)

WorkerTo(w, state) == worker' = [worker EXCEPT ![w] = state]
WorkerElse == UNCHANGED <<contexts, main, probe, progress, report>>

WorkerStart(w) ==
  /\ main = "running" /\ worker[w] = "idle"
  /\ WorkerTo(w, "dial")
  /\ UNCHANGED recorder /\ WorkerElse

WorkerDial(w) ==
  /\ worker[w] = "dial"
  /\ \/ WorkerTo(w, "op") /\ UNCHANGED recorder
     \/ WorkerTo(w, "done") /\ Inc("dial_error")
  /\ WorkerElse

OpsLeft == hists["LOGIN"] + cmdErrors["LOGIN"] < MaxOps

\* A command with a row in the report: its sample or its failure is recorded.
WorkerOp(w) ==
  /\ worker[w] = "op"
  /\ OpsLeft
  /\ \/ WorkerTo(w, "ok") /\ Observe("LOGIN")
     \/ WorkerTo(w, "bad") /\ ObserveError("LOGIN")
  /\ WorkerElse

\* The counter that goes with the row is a critical section of its own; a
\* failure ends the worker.
WorkerCount(w) ==
  /\ \/ worker[w] = "ok" /\ WorkerTo(w, "op") /\ Inc("login_ok")
     \/ worker[w] = "bad" /\ WorkerTo(w, "done") /\ Inc("login_error")
  /\ WorkerElse

\* The JOIN of chat: a failure ends the worker and is counted, and no row of
\* the report is charged with it. (Battle's join_error is one like LOGIN's.)
WorkerJoin(w) ==
  /\ worker[w] = "op"
  /\ \/ /\ counters["join_ok"] < MaxOps
        /\ UNCHANGED worker /\ Inc("join_ok")
     \/ WorkerTo(w, "done") /\ Inc("join_error")
  /\ WorkerElse

\* The worker is through, or has seen its context done.
WorkerStop(w) ==
  /\ worker[w] = "op"
  /\ WorkerTo(w, "done")
  /\ UNCHANGED recorder /\ WorkerElse

Worker(w) ==
  WorkerDial(w) \/ WorkerOp(w) \/ WorkerCount(w) \/ WorkerJoin(w) \/ WorkerStop(w)

\* Mutant: Run waits for all the workers it might have started.
WorkersReturned_All == \A w \in Workers : worker[w] = "done"

WorkersReturned == \A w \in Workers : worker[w] \in {"idle", "done"}
-----------------------------------------------------------------------------
(* The pingers. *)

PingerTo(p, state) == pinger' = [pinger EXCEPT ![p] = state]
PingerElse == UNCHANGED <<contexts, main, worker, progress, report>>

\* The top of RunPinger's loop.
PingerTop(p) ==
  /\ pinger[p] = "top"
  /\ PingerTo(p, IF pctx = "live" THEN "dial" ELSE "done")
  /\ UNCHANGED <<recorder, ticker>> /\ PingerElse

\* A connection gets a new ticker, whose first tick is one interval away.
PingerDial(p) ==
  /\ pinger[p] = "dial"
  /\ \/ /\ PingerTo(p, "loop")
        /\ ticker' = [ticker EXCEPT ![p] = "empty"]
        /\ UNCHANGED recorder
     \/ /\ counters["ping_dial_error"] < MaxPings
        /\ PingerTo(p, "sleep") /\ Inc("ping_dial_error")
        /\ UNCHANGED ticker
  /\ PingerElse

\* sleepUnlessDone. With both channels ready select takes either.
PingerSleep(p) ==
  /\ pinger[p] = "sleep"
  /\ \/ PingerTo(p, "top")
     \/ pctx = "cancelled" /\ PingerTo(p, "done")
  /\ UNCHANGED <<recorder, ticker>> /\ PingerElse

PingsLeft ==
  hists["PING"] + cmdErrors["PING"]
    + Cardinality({p \in Pingers : pinger[p] = "ping"}) < MaxPings

\* The tick case of pingLoop's select.
PingStart(p) ==
  /\ pinger[p] = "loop" /\ ticker[p] = "full"
  /\ PingsLeft
  /\ PingerTo(p, "ping")
  /\ ticker' = [ticker EXCEPT ![p] = "empty"]
  /\ UNCHANGED recorder /\ PingerElse

\* Mutant: the failure is counted, but not attributed to PING.
PingReply_NotAttributed(p) ==
  /\ pinger[p] = "ping"
  /\ \/ PingerTo(p, "loop") /\ Observe("PING")
     \/ PingerTo(p, "failed") /\ UNCHANGED recorder
  /\ UNCHANGED ticker /\ PingerElse

\* c.Ping returns. A timeout is not awaited again: the pinger reconnects.
PingReply(p) ==
  /\ pinger[p] = "ping"
  /\ \/ PingerTo(p, "loop") /\ Observe("PING")
     \/ PingerTo(p, "failed") /\ ObserveError("PING")
  /\ UNCHANGED ticker /\ PingerElse

PingCount(p) ==
  /\ pinger[p] = "failed"
  /\ PingerTo(p, "close") /\ Inc("ping_error")
  /\ UNCHANGED ticker /\ PingerElse

\* The done case of pingLoop's select.
PingStop(p) ==
  /\ pinger[p] = "loop"
  /\ pctx = "cancelled"
  /\ PingerTo(p, "close")
  /\ UNCHANGED <<recorder, ticker>> /\ PingerElse

\* Mutant: after pingLoop the pinger is through.
PingerClose_NoRedial(p) ==
  /\ pinger[p] = "close"
  /\ PingerTo(p, "done")
  /\ UNCHANGED <<recorder, ticker>> /\ PingerElse

\* pingLoop has returned: c.Close, and the loop of RunPinger goes round.
PingerClose(p) ==
  /\ pinger[p] = "close"
  /\ PingerTo(p, "top")
  /\ UNCHANGED <<recorder, ticker>> /\ PingerElse

Pinger(p) ==
  \/ PingerTop(p) \/ PingerDial(p) \/ PingerSleep(p) \/ PingStart(p)
  \/ PingReply(p) \/ PingCount(p) \/ PingStop(p) \/ PingerClose(p)

\* An interval has passed. A tick that finds the channel full is dropped: a
\* PING slower than the interval thins the probes out.
Tick(p) ==
  /\ pinger[p] \in {"loop", "ping", "failed"} /\ ticker[p] = "empty"
  /\ ticker' = [ticker EXCEPT ![p] = "full"]
  /\ UNCHANGED <<recorder, pinger>> /\ PingerElse
-----------------------------------------------------------------------------
(* The progress emitter. *)

EmitterElse == UNCHANGED <<recorder, contexts, main, worker, probe, report>>

\* Its ticker fires, and it takes a snapshot.
EmitterTick ==
  /\ emitter = "wait"
  /\ emitter' = "emit"
  /\ snap' = Snapshot
  /\ UNCHANGED line /\ EmitterElse

EmitterPrint ==
  /\ emitter = "emit"
  /\ emitter' = "wait"
  /\ line' = snap
  /\ UNCHANGED snap /\ EmitterElse

\* progDone is closed once Run has returned.
EmitterStop ==
  /\ emitter = "wait"
  /\ main # "running"
  /\ emitter' = "done"
  /\ UNCHANGED <<snap, line>> /\ EmitterElse
-----------------------------------------------------------------------------
(* Execute, after it has started everything, and cmdLoad. *)

MainTo(from, to) == main = from /\ main' = to
MainElse == UNCHANGED <<recorder, worker, probe, progress>>

\* sc.Run returns, and progDone is closed.
ScenarioReturns ==
  /\ MainTo("running", "draining")
  /\ WorkersReturned
  /\ UNCHANGED <<contexts, report>> /\ MainElse

\* Mutant: Execute does not wait for the emitter.
EmitterDone_NoWait == TRUE

EmitterDone == emitter = "done"

\* progWG.Wait and cancel.
StopPingers ==
  /\ MainTo("draining", "stopping")
  /\ EmitterDone
  /\ pctx' = "cancelled"
  /\ UNCHANGED <<ctx, report>> /\ MainElse

\* Mutant: Execute does not wait for the pingers.
PingersDone_NoWait == TRUE

PingersDone == \A p \in Pingers : pinger[p] = "done"

\* wg.Wait, and the return of Execute.
ExecuteReturns ==
  /\ MainTo("stopping", "returned")
  /\ PingersDone
  /\ UNCHANGED <<contexts, report>> /\ MainElse

\* cmdLoad: cancel, and the report.
WriteReport ==
  /\ MainTo("returned", "reported")
  /\ ctx' = "cancelled"
  /\ report' = <<BuildReport>>
  /\ UNCHANGED pctx /\ MainElse

Main == ScenarioReturns \/ StopPingers \/ ExecuteReturns \/ WriteReport

\* Ctrl-C or SIGTERM. Only the first signal has an effect.
Interrupt ==
  /\ ctx = "live"
  /\ ctx' = "cancelled" /\ pctx' = "cancelled"
  /\ UNCHANGED <<recorder, main, worker, probe, progress, report>>

Next ==
  \/ Main
  \/ \E w \in Workers : WorkerStart(w) \/ Worker(w)
  \/ \E p \in Pingers : Pinger(p) \/ Tick(p)
  \/ EmitterTick \/ EmitterPrint \/ EmitterStop
  \/ Interrupt
  \/ main = "reported" /\ UNCHANGED vars   \* cmdLoad has returned

\* Goroutines that can run are scheduled; blocking calls have deadlines. With
\* its tick and progDone both ready the emitter's select takes either, but not
\* the tick for ever, so EmitterStop gets strong fairness.
Fairness ==
  /\ WF_vars(Main)
  /\ \A w \in Workers : WF_vars(Worker(w))
  /\ \A p \in Pingers : WF_vars(Pinger(p))
  /\ WF_vars(EmitterPrint)
  /\ SF_vars(EmitterStop)

Spec == Init /\ [][Next]_vars /\ Fairness
-----------------------------------------------------------------------------
(* Properties *)

\* Every variable keeps its type, and the pingers' context is done whenever the
\* run's is, so that Ctrl-C stops the pingers too.
TypeOK ==
  /\ RecorderTypeOK
  /\ ctx \in {"live", "cancelled"} /\ pctx \in {"live", "cancelled"}
  /\ main \in {"running", "draining", "stopping", "returned", "reported"}
  /\ worker \in [Workers -> {"idle", "dial", "op", "ok", "bad", "done"}]
  /\ pinger \in [Pingers -> {"top", "dial", "sleep", "loop", "ping", "failed",
                             "close", "done"}]
  /\ ticker \in [Pingers -> {"empty", "full"}]
  /\ emitter \in {"wait", "emit", "done"}
  /\ ctx = "cancelled" => pctx = "cancelled"

\* When Execute has returned every goroutine it started has finished: nothing
\* writes to the recorder while the report is built, and no progress line, which
\* goes to stderr, comes after the report.
QuiescentExecute ==
  main \in {"returned", "reported"} =>
    WorkersReturned /\ PingersDone /\ emitter = "done"

\* The report stays true: nothing is recorded once it has been built.
ReportIsFinal == [][report # NoReport => UNCHANGED recorder]_vars

\* Failures of a command that no row of the report is charged with.
Unattributed == {"join_error"}

\* The two books of failures agree: what the live panel counts as errors, by
\* the names of the counters, is at the end what the report attributes to the
\* commands, plus the failed connections, plus the failed joins of chat, which
\* are a counter only. No other failure is in one of the books alone.
ErrorsReconcile ==
  main = "reported" =>
    Snapshot.errors =
      Total(cmdErrors, Commands)
      + Total(counters, (ConnectionErrors \cup Unattributed) \cap CounterNames)

\* The pingers probe for as long as the load lasts: unless there was a Ctrl-C,
\* which stops them at once while the scenario drains, none of them stops before
\* the scenario has returned.
PingersCoverLoad ==
  (\E p \in Pingers : pinger[p] = "done") => main # "running" \/ ctx = "cancelled"

\* What makes the safety properties inductive: each wait of Execute leaves the
\* goroutines it waited for stopped for good.
ShutdownInv ==
  /\ main # "running" => WorkersReturned
  /\ main \in {"stopping", "returned", "reported"} => emitter = "done" /\ pctx = "cancelled"
  /\ main \in {"returned", "reported"} => PingersDone
  /\ report # NoReport => main = "reported"
  /\ (\E p \in Pingers : pinger[p] = "done") => pctx = "cancelled"
  /\ pctx = "cancelled" => ctx = "cancelled" \/ main \in {"stopping", "returned", "reported"}

\* What makes ErrorsReconcile inductive: a failure is between its two books only
\* while its goroutine stands between the two calls, and nobody else counts.
Between(state, at) == Cardinality({x \in DOMAIN at : at[x] = state})

BooksInv ==
  /\ cmdErrors["LOGIN"] = counters["login_error"] + Between("bad", worker)
  /\ cmdErrors["PING"] = counters["ping_error"] + Between("failed", pinger)
  /\ \A n \in CounterNames \ ExecuteCounters : counters[n] = 0

\* The report is written, whatever the server does and whenever Ctrl-C comes.
ReportWritten == <>(report # NoReport)
=============================================================================
