-------------------------------- MODULE Chat --------------------------------
(***************************************************************************)
(* internal/workload/chat.go, the chat scenario: a RampedRun whose         *)
(* sessions join a channel and then SAY something at every tick until the  *)
(* window closes or a command fails (Join and Say of                       *)
(* internal/proto/commands.go).  The connections are spread over the       *)
(* channels; no property tells the channels apart.                         *)
(***************************************************************************)
EXTENDS RampedRun

CONSTANT MaxSays   \* bound: SAYs of all the sessions together

ChatCounters == {"join_ok", "join_error", "say_error"}

ASSUME ChatAssumption ==
  /\ MaxSays \in Nat
  /\ ChatCounters \subseteq CounterNames
  /\ "SAY" \in Commands

VARIABLE member   \* ids the server has admitted to their channel

chatVars == <<vars, member>>

ChatInit == RunInit /\ member = {}

\* Nothing a session does beside its own place and the recorder.
ChatElse == UNCHANGED <<lobby, ctx, main, next, sem, seeder, window, attempt>>

\* Mutant: a session that could not join leaves without a trace.
Join_Uncounted(i) ==
  /\ sess[i] = "in"
  /\ \/ /\ Connected(i)
        /\ member' \in {member, member \cup {i}}
        /\ SessionTo(i, "paced") /\ Inc("join_ok")
     \/ SessionTo(i, "exit") /\ UNCHANGED <<recorder, member>>
  /\ ChatElse

\* JOIN. The reply may be JOINFAILED or FAILED: Join returns no error for it.
Join(i) ==
  /\ sess[i] = "in"
  /\ \/ /\ Connected(i)
        /\ member' \in {member, member \cup {i}}
        /\ SessionTo(i, "paced") /\ Inc("join_ok")
     \/ /\ SessionTo(i, "exit") /\ Inc("join_error")   \* no reply
        /\ member' \in {member, IF Connected(i) THEN member \cup {i} ELSE member}
  /\ ChatElse

SaysLeft == hists["SAY"] + cmdErrors["SAY"] + Cardinality(At({"busy"})) < MaxSays

\* The tick case of the select; with loadCtx done as well either is taken.
SayTick(i) ==
  /\ sess[i] = "paced"
  /\ SaysLeft
  /\ SessionTo(i, "busy")
  /\ UNCHANGED <<recorder, member>> /\ ChatElse

\* Mutant: after a timeout the connection is used again.
Say_GoesOn(i) ==
  /\ sess[i] = "busy"
  /\ \/ Connected(i) /\ i \in member /\ SessionTo(i, "paced") /\ Observe("SAY")
     \/ SessionTo(i, "paced") /\ ObserveError("SAY")
  /\ UNCHANGED member /\ ChatElse

\* SAY. The server echoes it to the members of the channel only.
Say(i) ==
  /\ sess[i] = "busy"
  /\ \/ Connected(i) /\ i \in member /\ SessionTo(i, "paced") /\ Observe("SAY")
     \/ OpFails(i, "SAY")
  /\ UNCHANGED member /\ ChatElse

SayBroken(i) ==
  /\ sess[i] = "broken"
  /\ SessionTo(i, "exit") /\ Inc("say_error")
  /\ UNCHANGED member /\ ChatElse

ChatDone(i) == SeesWindowClosed(i, "paced") /\ UNCHANGED <<recorder, member>> /\ ChatElse

Chatter(i) ==
  \/ (Login(i) \/ SessionExit(i)) /\ UNCHANGED member
  \/ Join(i) \/ SayTick(i) \/ Say(i) \/ SayBroken(i) \/ ChatDone(i)

\* The server forgets the membership with the session.
ChatDrop(i) == ServerDrop(i) /\ member' = member \ {i}
ChatLogout(i) == SessionLogout(i) /\ member' = member \ {i}

ChatNext ==
  \/ (RunMain \/ WindowElapses \/ Interrupt) /\ UNCHANGED member
  \/ \E i \in Ids : \/ SeedingStep(i) /\ UNCHANGED member
                    \/ SeedLogout(i) /\ UNCHANGED <<runVars, member>>
                    \/ Chatter(i)
                    \/ ChatDrop(i) \/ ChatLogout(i)
  \/ main = "returned" /\ UNCHANGED chatVars   \* Run has returned

\* As for login-storm: goroutines run, calls have deadlines, the window ends.
ChatFairness ==
  /\ WF_chatVars(RunMain /\ UNCHANGED member)
  /\ \A i \in Ids : /\ WF_chatVars(SeedingStep(i) /\ UNCHANGED member)
                    /\ WF_chatVars(Chatter(i))
  /\ WF_chatVars(WindowElapses /\ UNCHANGED member)

ChatSpec == ChatInit /\ [][ChatNext]_chatVars /\ ChatFairness
-----------------------------------------------------------------------------
(* Properties *)

\* Every login is followed by exactly one outcome of JOIN.
JoinAccounting ==
  counters["login_ok"] =
    counters["join_ok"] + counters["join_error"] + Cardinality(At({"in"}))

\* The SAY row of the report agrees with the counter of its failures.
SayRowMatchesCounter ==
  cmdErrors["SAY"] = counters["say_error"] + Cardinality(At({"broken"}))

\* What the report says of the chatters after their login adds up, up to those
\* that are between two calls of the recorder.
ChatBooks == JoinAccounting /\ SayRowMatchesCounter

\* A chatter leaves the load before the window closes only on a failure, and
\* every such failure is counted: none is lost silently.
NoSilentExit ==
  [][\A i \in Ids : sess[i] \in LoggedIn \cup {"broken"} /\ sess'[i] = "exit" =>
       \/ window = "closed"
       \/ counters'["join_error"] > counters["join_error"]
       \/ counters'["say_error"] > counters["say_error"]]_chatVars
-----------------------------------------------------------------------------
(* A claim of the repository's comments that the code does not keep. *)

\* commands.go:31 "Join enters a channel and waits for the JOIN
\* acknowledgement": a join counted in join_ok is one the server acknowledged,
\* so a session that goes on to SAY is in its channel unless it was dropped.
JoinOkMeansJoined ==
  \A i \in Ids : sess[i] = "paced" /\ Connected(i) => i \in member
=============================================================================
