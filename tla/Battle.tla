------------------------------- MODULE Battle -------------------------------
(***************************************************************************)
(* internal/workload/battle.go and battlelist.go: the first HostCount      *)
(* connections of a RampedRun are hosts.  One after the other they upgrade *)
(* to TLS, log in, open a battle and hold it; a channel of one place tells *)
(* the main goroutine.  Then the window is opened, and the rest are ramped *)
(* into it: players that join a battle and cycle through                   *)
(* MYBATTLESTATUS, LEAVEBATTLE and JOINBATTLE (battle), or sessions that   *)
(* log in and hold (battle-list).  The hosts are released after it.        *)
(***************************************************************************)
EXTENDS RampedRun, Sequences

CONSTANTS
  BattleHosts,     \* cfg.BattleHosts, any integer
  MaxBattleOps     \* bound: commands of all the players together

HostCounters == {"host_dial_error", "tls_retry", "tls_error", "openbattle_ok",
                 "openbattle_error", "battles_open"}

Cycle == <<"MYBATTLESTATUS", "MYBATTLESTATUS", "LEAVEBATTLE", "JOINBATTLE">>
OkCounter == [MYBATTLESTATUS |-> "status_ok", LEAVEBATTLE |-> "leave_ok",
              JOINBATTLE |-> "join_ok"]
ErrorCounter == [MYBATTLESTATUS |-> "status_error", LEAVEBATTLE |-> "leave_error",
                 JOINBATTLE |-> "join_error"]

BattleCommands == {Cycle[k] : k \in 1 .. 4}
BattleCounters ==
  {OkCounter[c] : c \in BattleCommands} \cup {ErrorCounter[c] : c \in BattleCommands}

\* With a single connection battleHostCount does not clamp, and there is nobody
\* to join.
ASSUME BattleAssumption ==
  /\ Conns > 1 /\ BattleHosts \in Int
  /\ MaxBattleOps \in Nat
  /\ BattleCommands \cup {"OPENBATTLE"} \subseteq Commands
  /\ HostCounters \cup BattleCounters \subseteq CounterNames

\* battleHostCount: BattleHosts within 1 .. Conns - 1.
HostCount ==
  CHOOSE h \in 1 .. Conns - 1 :
    \/ h = BattleHosts
    \/ h = 1 /\ BattleHosts < 1
    \/ h = Conns - 1 /\ BattleHosts > h

Hosts   == 0 .. HostCount - 1
Players == HostCount .. Conns - 1

\* The empty battle id of a host that failed. A battle is named by its host.
NoBattle == -1

VARIABLES
  scenario,  \* "battle" or "battle-list"
  hostCtx,   \* the hosts' context: "live", then "cancelled"
  opened,    \* the channel the hosts report on
  ids,       \* the battle ids collected from it
  tries,     \* host -> attempts of dialTLSHost that failed
  battles,   \* the battles open on the server
  inside,    \* players the server has in the battle they were given
  seq        \* player -> its next command; the first is a JOINBATTLE

setupVars  == <<scenario, hostCtx, opened, ids>>
serverVars == <<battles, inside>>
battleOwn  == <<setupVars, tries, serverVars, seq>>
battleVars == <<vars, battleOwn>>

BattleInit ==
  /\ RunInit
  /\ scenario \in {"battle", "battle-list"}
  /\ hostCtx = "live"
  /\ opened = <<>> /\ ids = <<>>
  /\ tries = [h \in Hosts |-> 0]
  /\ battles = {} /\ inside = {}
  /\ seq = [i \in Players |-> 3]

\* Steps of the main goroutine and of a session leave all this alone.
MainElse == UNCHANGED <<lobby, ctx, sem, seeder, attempt,
                        scenario, tries, serverVars, seq>>
SessionElse == UNCHANGED <<lobby, ctx, main, next, sem, seeder, window, attempt,
                           scenario, hostCtx, ids>>
-----------------------------------------------------------------------------
(* Run: startBattleHosts, the ramp and the release. *)

StartHosts ==
  /\ main = "seeded"
  /\ main' = "hosts" /\ next' = 0
  /\ UNCHANGED <<recorder, window, sess, hostCtx, opened, ids>> /\ MainElse

\* The loop condition and the check of the context; the next host is started.
HostLaunch ==
  /\ main = "hosts"
  /\ \/ /\ next < HostCount /\ hostCtx = "live"
        /\ SessionTo(next, "dial")
        /\ next' = next + 1 /\ main' = "await"
     \/ /\ next >= HostCount \/ hostCtx = "cancelled"
        /\ main' = "ready"
        /\ UNCHANGED <<sess, next>>
  /\ UNCHANGED <<recorder, window, hostCtx, opened, ids>> /\ MainElse

Collect(id) == ids' = IF id = NoBattle THEN ids ELSE Append(ids, id)

\* Mutant: the next host is started at once.
HostReported_NotAwaited ==
  /\ main' = "hosts"
  /\ IF opened = <<>> THEN UNCHANGED <<opened, ids>>
                      ELSE Collect(Head(opened)) /\ opened' = Tail(opened)

HostReported ==
  /\ opened # <<>>
  /\ Collect(Head(opened)) /\ opened' = Tail(opened)
  /\ main' = "hosts"

\* The select: the host's report, or the end of its context.
HostAwait ==
  /\ main = "await"
  /\ \/ HostReported
     \/ hostCtx = "cancelled" /\ main' = "ready" /\ UNCHANGED <<opened, ids>>
  /\ UNCHANGED <<recorder, next, window, sess, hostCtx>> /\ MainElse

\* Mutant: the hosts are counted, and not their battles.
BattlesOpen_AllHosts == HostCount

BattlesOpen == Len(ids)

\* The early return of battle: players have nothing to join.
NothingToJoin == scenario = "battle" /\ ids = <<>>

HostsReady ==
  /\ main = "ready"
  /\ \/ /\ NothingToJoin
        /\ hostCtx' = "cancelled" /\ main' = "wait"
        /\ UNCHANGED <<recorder, window, next>>
     \/ /\ ~NothingToJoin
        /\ IF scenario = "battle-list" THEN Add("battles_open", BattlesOpen)
                                      ELSE UNCHANGED recorder
        /\ window' = IF ctx = "live" THEN "open" ELSE "closed"
        /\ main' = "ramp" /\ next' = HostCount
        /\ UNCHANGED hostCtx
  /\ UNCHANGED <<sess, opened, ids>> /\ MainElse

\* Mutant: the hosts go when the last player has been started.
WindowOver_RampOnly == TRUE

WindowOver == window = "closed"

\* <-loadCtx.Done, and releaseHosts.
ReleaseHosts ==
  /\ main = "wait" /\ hostCtx = "live"
  /\ WindowOver
  /\ hostCtx' = "cancelled"
  /\ UNCHANGED <<recorder, main, next, window, sess, opened, ids>> /\ MainElse

\* wg.Wait.
BattleReturn ==
  /\ main = "wait" /\ hostCtx = "cancelled"
  /\ window # "open"
  /\ AllReturned
  /\ main' = "returned"
  /\ UNCHANGED <<recorder, next, window, sess, hostCtx, opened, ids>> /\ MainElse

Ramp == (SeedMain /\ UNCHANGED runVars) \/ RampCheck \/ Launch
Hosting ==
  StartHosts \/ HostLaunch \/ HostAwait \/ HostsReady \/ ReleaseHosts \/ BattleReturn
BattleMain == (Ramp /\ UNCHANGED battleOwn) \/ Hosting
-----------------------------------------------------------------------------
(* dialTLSHost and runBattleHost *)

MayTry(i) == tries[i] < MaxAttempts /\ hostCtx = "live"
TryFails(i, counter) ==
  SessionTo(i, "dial") /\ tries' = [tries EXCEPT ![i] = @ + 1] /\ Inc(counter)

\* The loop condition, the check of the context and the dial, and the sleep
\* after a failed one.
HostDial(i) ==
  /\ sess[i] = "dial"
  /\ \/ MayTry(i) /\ SessionTo(i, "tls") /\ UNCHANGED <<recorder, tries>>
     \/ MayTry(i) /\ TryFails(i, "host_dial_error")
     \/ ~MayTry(i) /\ SessionTo(i, "decline") /\ Inc("tls_error") /\ UNCHANGED tries
  /\ UNCHANGED <<opened, serverVars, seq>> /\ SessionElse

\* STARTTLS, the handshake and the greeting; a connection that failed is closed.
HostStartTLS(i) ==
  /\ sess[i] = "tls"
  /\ \/ SessionTo(i, "opened") /\ UNCHANGED <<recorder, tries>>
     \/ TryFails(i, "tls_retry")
  /\ UNCHANGED <<opened, serverVars, seq>> /\ SessionElse

\* Mutant: no report from a host that could not log in.
HostLoginCounted_Silent(i) ==
  /\ \/ sess[i] = "observed" /\ SessionTo(i, "in") /\ Inc("login_ok")
     \/ sess[i] = "failed" /\ SessionTo(i, "exit") /\ Inc("login_error")
  /\ UNCHANGED <<opened, tries, serverVars, seq>> /\ SessionElse

HostLoginCounted(i) ==
  /\ \/ sess[i] = "observed" /\ SessionTo(i, "in") /\ Inc("login_ok")
     \/ sess[i] = "failed" /\ SessionTo(i, "decline") /\ Inc("login_error")
  /\ UNCHANGED <<opened, tries, serverVars, seq>> /\ SessionElse

\* OPENBATTLE: opened and echoed, or failed, whether or not it was opened.
OpenBattle(i) ==
  /\ sess[i] = "in"
  /\ battles' \in {battles, IF Connected(i) THEN battles \cup {i} ELSE battles}
  /\ \/ i \in battles' /\ SessionTo(i, "sampled") /\ Observe("OPENBATTLE")
     \/ OpFails(i, "OPENBATTLE")
  /\ UNCHANGED <<opened, tries, inside, seq>> /\ SessionElse

OpenCounted(i) ==
  /\ \/ sess[i] = "sampled" /\ SessionTo(i, "publish") /\ Inc("openbattle_ok")
     \/ sess[i] = "broken" /\ SessionTo(i, "decline") /\ Inc("openbattle_error")
  /\ UNCHANGED <<opened, tries, serverVars, seq>> /\ SessionElse

\* The send on the channel: the battle's id, and the host holds on; or none.
HostReport(i) ==
  /\ Len(opened) < 1
  /\ \/ sess[i] = "publish" /\ SessionTo(i, "paced") /\ opened' = Append(opened, i)
     \/ sess[i] = "decline" /\ SessionTo(i, "exit") /\ opened' = Append(opened, NoBattle)
  /\ UNCHANGED <<recorder, tries, serverVars, seq>> /\ SessionElse

\* <-ctx.Done at the end of runBattleHost.
HostRelease(i) ==
  /\ sess[i] = "paced" /\ hostCtx = "cancelled"
  /\ SessionTo(i, "exit")
  /\ UNCHANGED <<recorder, opened, tries, serverVars, seq>> /\ SessionElse

Host(i) ==
  \/ HostDial(i) \/ HostStartTLS(i)
  \/ (LoginAttempt(i) \/ LoginBackoff(i) \/ SessionExit(i)) /\ UNCHANGED battleOwn
  \/ HostLoginCounted(i) \/ OpenBattle(i) \/ OpenCounted(i) \/ HostReport(i) \/ HostRelease(i)
-----------------------------------------------------------------------------
(* runBattlePlayer *)

BattleOf(i) == ids[(i % Len(ids)) + 1]
Command(i) == Cycle[seq[i] + 1]

JoinFirst(i) ==
  /\ sess[i] = "in" /\ scenario = "battle"
  /\ SessionTo(i, "busy")
  /\ UNCHANGED <<recorder, opened, tries, serverVars, seq>> /\ SessionElse

OpsLeft == Total(hists, BattleCommands) + Total(cmdErrors, BattleCommands)
             + Cardinality(At({"busy"})) < MaxBattleOps

\* The tick case of the select; with loadCtx done as well either is taken.
OpTick(i) ==
  /\ sess[i] = "paced" /\ OpsLeft
  /\ SessionTo(i, "busy")
  /\ UNCHANGED <<recorder, opened, tries, serverVars, seq>> /\ SessionElse

\* What the server does: the battle has to be there, with the player in it to
\* change its status or leave, and without it to join.
Accepts(i) ==
  /\ Connected(i) /\ BattleOf(i) \in battles
  /\ Command(i) = "JOINBATTLE" <=> i \notin inside

InsideAfter(i) ==
  CASE Command(i) = "JOINBATTLE"  -> inside \cup {i}
    [] Command(i) = "LEAVEBATTLE" -> inside \ {i}
    [] OTHER                      -> inside

\* One round trip: echoed; or refused, or not answered in time, whether or not
\* the server has done it.
Op(i) ==
  /\ sess[i] = "busy"
  /\ inside' \in {inside, IF Accepts(i) THEN InsideAfter(i) ELSE inside}
  /\ \/ /\ Accepts(i) /\ inside' = InsideAfter(i)
        /\ SessionTo(i, "sampled") /\ Observe(Command(i))
     \/ OpFails(i, Command(i))
  /\ UNCHANGED <<opened, tries, battles, seq>> /\ SessionElse

\* Mutant: the command that has just succeeded is repeated.
Advance_Not(i) == UNCHANGED seq

Advance(i) == seq' = [seq EXCEPT ![i] = (@ + 1) % 4]

OpCounted(i) ==
  /\ \/ /\ sess[i] = "sampled" /\ SessionTo(i, "paced")
        /\ Inc(OkCounter[Command(i)]) /\ Advance(i)
     \/ /\ sess[i] = "broken" /\ SessionTo(i, "exit")
        /\ Inc(ErrorCounter[Command(i)]) /\ UNCHANGED seq
  /\ UNCHANGED <<opened, tries, serverVars>> /\ SessionElse

\* runBattlePlayer leaves its loop; runOneLogin of battle-list its hold.
PlayerDone(i) ==
  /\ SeesWindowClosed(i, IF scenario = "battle" THEN "paced" ELSE "in")
  /\ UNCHANGED <<recorder, opened, tries, serverVars, seq>> /\ SessionElse

Player(i) ==
  \/ (Login(i) \/ SessionExit(i)) /\ UNCHANGED battleOwn
  \/ JoinFirst(i) \/ OpTick(i) \/ Op(i) \/ OpCounted(i) \/ PlayerDone(i)
-----------------------------------------------------------------------------
(* The environment *)

\* hostCtx is derived from ctx.
BattleInterrupt ==
  /\ Interrupt
  /\ hostCtx' = "cancelled"
  /\ UNCHANGED <<scenario, opened, ids, tries, serverVars, seq>>

\* A battle is closed with its host's session, and nobody is in it any more.
SessionEnds(i) ==
  /\ SessionLogout(i) \/ ServerDrop(i)
  /\ battles' = battles \ {i}
  /\ inside' = {j \in inside \ {i} : BattleOf(j) # i}
  /\ UNCHANGED <<setupVars, tries, seq>>

BattleEnvironment ==
  \/ WindowElapses /\ UNCHANGED battleOwn
  \/ BattleInterrupt
  \/ \E i \in Ids : \/ SeedLogout(i) /\ UNCHANGED <<runVars, battleOwn>>
                    \/ SessionEnds(i)

BattleNext ==
  \/ (Ramp \/ \E i \in Ids : SeedingStep(i)) /\ UNCHANGED battleOwn
  \/ Hosting
  \/ \E i \in Hosts : Host(i)
  \/ \E i \in Players : Player(i)
  \/ BattleEnvironment
  \/ main = "returned" /\ UNCHANGED battleVars   \* Run has returned

\* As for login-storm: goroutines run, calls have deadlines, the window ends.
BattleFairness ==
  /\ WF_battleVars(BattleMain)
  /\ \A i \in Ids : WF_battleVars(SeedingStep(i) /\ UNCHANGED battleOwn)
  /\ \A i \in Hosts : WF_battleVars(Host(i))
  /\ \A i \in Players : WF_battleVars(Player(i))
  /\ WF_battleVars(WindowElapses /\ UNCHANGED battleOwn)

BattleSpec == BattleInit /\ [][BattleNext]_battleVars /\ BattleFairness
-----------------------------------------------------------------------------
(* Properties *)

HostPlaces == RunPlaces \cup {"hosts", "await", "ready"}

\* Every variable keeps its type; only an account that is logged in has a
\* battle open or is in one.
BattleTypeOK ==
  /\ RunTypes /\ main \in HostPlaces
  /\ scenario \in {"battle", "battle-list"}
  /\ hostCtx \in {"live", "cancelled"}
  /\ opened \in {<<>>} \cup {<<id>> : id \in Hosts \cup {NoBattle}}
  /\ ids \in Seq(Hosts) /\ Len(ids) <= HostCount
  /\ tries \in [Hosts -> 0 .. MaxAttempts]
  /\ battles \subseteq {i \in Hosts : Connected(i)}
  /\ inside \subseteq {i \in Players : Connected(i)}
  /\ seq \in [Players -> 0 .. 3]

\* battle.go:119, 134: while a host is in its TLS handshake the scenario has no
\* other connection in motion, no handshake, login or OPENBATTLE, that would
\* compete for the server's reactor. (The pingers of execute.go:34 do go on.)
HandshakeAlone ==
  \A i \in At({"tls"}) : \A j \in Ids \ {i} : sess[j] \in {"idle", "paced", "exit", "done"}

\* The window does not open before the set-up has ended, and for all of it the
\* goroutine of every host whose battle the players were given stays with it: a
\* host either holds one of ids or has failed and is on its way out. (Whether the
\* server still has the battle no host can tell: it does not read.)
HostsHold ==
  window = "open" =>
    \A h \in Hosts : \/ sess[h] = "paced" /\ \E k \in 1 .. Len(ids) : ids[k] = h
                     \/ sess[h] \in {"exit", "done"} /\ \A k \in 1 .. Len(ids) : ids[k] # h

\* Hosts and players: those that were started, those on their way to the login,
\* and the hosts at some places.
Started == Ids \ At({"idle"})
Flying == {"dial", "tls", "opened", "backoff", "observed", "failed"}
HostsAt(places) == At(places) \cap Hosts

\* Every host or player that was started is on its way or stands in exactly one
\* of the counters of its outcome.
BattleAccounting ==
  Cardinality(Started) =
    counters["dial_error"] + counters["tls_error"] + counters["login_ok"]
      + counters["login_error"]
      + Cardinality(At(Flying))

\* The OPENBATTLE row agrees with its counters, and the battles the measured
\* phase counts on are those that were opened.
OpenBooks ==
  /\ hists["OPENBATTLE"] = counters["openbattle_ok"] + Cardinality(HostsAt({"sampled"}))
  /\ cmdErrors["OPENBATTLE"] =
       counters["openbattle_error"] + Cardinality(HostsAt({"broken"}))
  /\ window = "open" =>
       /\ Len(ids) = counters["openbattle_ok"]
       /\ scenario = "battle-list" => counters["battles_open"] = counters["openbattle_ok"]

\* What the report says of the battles and of everybody in them adds up.
BattleBooks == BattleAccounting /\ OpenBooks

\* Between two commands a player knows whether it is in its battle, as long as
\* the server keeps it and its host: a status is sent from inside, LEAVEBATTLE
\* leaves and JOINBATTLE joins, and none of them is refused for its order.
MembershipKnown ==
  \A i \in Players :
    sess[i] = "paced" /\ Connected(i) /\ BattleOf(i) \in battles =>
      (i \in inside <=> Command(i) # "JOINBATTLE")

\* What makes the above inductive.
BeforeHosts  == {"seed", "acquire", "join", "seeded"}
BeforeWindow == BeforeHosts \cup {"hosts", "await", "ready"}

\* A host that has not reported yet.
SetUpPlaces == {"dial", "tls", "opened", "backoff", "observed", "failed", "in",
                "sampled", "broken", "publish", "decline"}
SettingUp == {h \in Hosts : sess[h] \in SetUpPlaces}

\* Every host that was started has reported, and its report was collected.
Quiet == opened = <<>> /\ SettingUp = {}

\* The battle of the host is in the list, or on its way there.
Promised(h) == opened = <<h>> \/ \E k \in 1 .. Len(ids) : ids[k] = h

\* The main goroutine: how far it is, whom it has started, which contexts are
\* over.
PhaseInv ==
  /\ main \in BeforeHosts => /\ At({"idle"}) = Ids
                             /\ opened = <<>> /\ ids = <<>> /\ battles = {} /\ inside = {}
  /\ main \in BeforeWindow => window = "unset"
  /\ main \in {"ramp", "pause"} => window # "unset"
  /\ window = "open" => hostCtx = "live"
  /\ hostCtx = "live" => ctx = "live"
  /\ hostCtx = "cancelled" => ctx = "cancelled" \/ main \in {"wait", "returned"}
  /\ main \in {"hosts", "await", "ready"} =>
       next <= HostCount /\ \A i \in 0 .. next - 1 : sess[i] # "idle"
  /\ main = "await" => next > 0
  /\ main = "ready" /\ hostCtx = "live" => next = HostCount
  /\ main \in {"ramp", "pause"} => next >= HostCount
  /\ main = "pause" => next < Conns
  /\ main \in {"hosts", "await", "ready", "ramp", "pause"} =>
       \A i \in next .. Conns - 1 : sess[i] = "idle"
  /\ main = "returned" => Active = {}

\* No session stands where the other kind does, or has used up its attempts
\* before it needs one.
RolesInv ==
  /\ \A i \in Ids : sess[i] \in {"idle", "dial", "tls", "opened"} => AttemptsLeft(i)
  /\ \A h \in Hosts : sess[h] # "busy" /\ (sess[h] = "tls" => tries[h] < MaxAttempts)
  /\ \A i \in Players : sess[i] \notin {"tls", "publish", "decline"}

\* The set-up of the hosts: one at a time, before every player.
SetUpInv ==
  /\ main \in BeforeHosts \cup {"hosts", "pause"} => Quiet
  /\ main = "ready" /\ hostCtx = "live" => Quiet
  /\ window = "open" => Quiet
  /\ opened # <<>> => SettingUp = {}
  /\ \A g, h \in SettingUp : g = h
  /\ SettingUp # {} => \A i \in Players : sess[i] = "idle"
  /\ main = "hosts" => Len(ids) <= next
  /\ main = "await" => Len(ids) < next
  /\ \A h \in Hosts :
       /\ sess[h] = "paced" => Promised(h)
       /\ Promised(h) =>
            \/ sess[h] = "paced"
            \/ hostCtx = "cancelled" /\ sess[h] \in {"exit", "done"}
       /\ window = "open" => sess[h] # "idle"

\* What a player whose next command is number k knows of its membership.
Knows(i, k) == Connected(i) /\ BattleOf(i) \in battles => (i \in inside <=> k # 3)

CycleInv ==
  \A i \in Players :
    /\ sess[i] \in {"idle", "dial", "opened", "backoff", "observed", "failed", "in"} =>
         seq[i] = 3 /\ i \notin inside
    /\ sess[i] \in {"paced", "busy"} => Knows(i, seq[i])
    /\ sess[i] = "sampled" => Knows(i, (seq[i] + 1) % 4)

\* A battle that was counted is in the list or on its way there.
OpenedInv ==
  /\ counters["openbattle_ok"] =
       Len(ids) + Cardinality(At({"publish"}))
         + (IF opened \in {<<>>, <<NoBattle>>} THEN 0 ELSE 1)
  /\ main \in BeforeWindow => counters["battles_open"] = 0

BattleInv == BattleTypeOK /\ SlotInv /\ PhaseInv /\ RolesInv /\ SetUpInv /\ CycleInv
=============================================================================
