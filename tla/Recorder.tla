------------------------------ MODULE Recorder ------------------------------
(***************************************************************************)
(* internal/metrics/recorder.go: the Recorder every connection goroutine,  *)
(* every pinger and the progress emitter share.                            *)
(*                                                                         *)
(* Each method takes the mutex for its whole body, so each is one action.  *)
(* A histogram is abstracted to the number of its samples: no property of  *)
(* the concurrent modules reads a latency.                                 *)
(***************************************************************************)
EXTENDS Naturals, Functions

CONSTANTS
  Commands,      \* keys of hists and cmdErrors ("LOGIN", "PING", ...)
  CounterNames   \* keys of counters ("login_ok", "dial_error", ...)

VARIABLES
  hists,         \* command -> number of latency samples observed
  counters,      \* counter name -> value
  cmdErrors      \* command -> number of failed attempts

recorder == <<hists, counters, cmdErrors>>

RecorderTypeOK ==
  /\ hists \in [Commands -> Nat]
  /\ counters \in [CounterNames -> Nat]
  /\ cmdErrors \in [Commands -> Nat]

\* Go maps read as 0 for a key never written.
NewRecorder ==
  /\ hists = [c \in Commands |-> 0]
  /\ counters = [n \in CounterNames |-> 0]
  /\ cmdErrors = [c \in Commands |-> 0]

Observe(command) ==
  /\ hists' = [hists EXCEPT ![command] = @ + 1]
  /\ UNCHANGED <<counters, cmdErrors>>

Add(name, delta) ==
  /\ counters' = [counters EXCEPT ![name] = @ + delta]
  /\ UNCHANGED <<hists, cmdErrors>>

Inc(name) == Add(name, 1)

ObserveError(command) ==
  /\ cmdErrors' = [cmdErrors EXCEPT ![command] = @ + 1]
  /\ UNCHANGED <<hists, counters>>

\* Failures of the connection itself, which belong to no command.
ConnectionErrors ==
  {"dial_error", "seed_dial_error", "seed_error", "host_dial_error",
   "tls_error", "ping_dial_error"}
\* Failures of a command. ObserveError attributes them to it, but for join_error
\* of chat.
CommandErrors ==
  {"login_error", "register_error", "join_error", "say_error", "ping_error",
   "openbattle_error", "status_error", "leave_error", "ignore_error",
   "unignore_error", "ignorelist_error", "friendlist_error"}

\* The code goes by the name, which contains "error"; retries are no errors.
IsErrorCounter(name) == name \in ConnectionErrors \cup CommandErrors

\* The sum of a counter map over some of its keys.
Total(map, keys) == FoldFunctionOnSet(+, 0, map, keys)

\* What the progress emitter reads in one critical section.
Snapshot ==
  [sent   |-> Total(hists, Commands),
   errors |-> Total(counters, {n \in CounterNames : IsErrorCounter(n)})]

\* The report: one row for every command with a sample or a failure.
BuildReport ==
  [rows     |-> [c \in {c \in Commands : hists[c] > 0 \/ cmdErrors[c] > 0}
                   |-> [count |-> hists[c], errors |-> cmdErrors[c]]],
   counters |-> counters]
=============================================================================
