---------------------------- MODULE BattleProofs ----------------------------
(***************************************************************************)
(* Theorems about the battle and the battle-list scenario, for every       *)
(* number of connections, of hosts and of commands.                        *)
(***************************************************************************)
EXTENDS Battle, RampedRunProofs

(* battleHostCount leaves room for a host and for a player. *)
LEMMA HostCountType ==
  HostCount \in 1 .. Conns - 1
  <1> DEFINE IsCount(h) == \/ h = BattleHosts
                           \/ h = 1 /\ BattleHosts < 1
                           \/ h = Conns - 1 /\ BattleHosts > h
  <1>1. \E h \in 1 .. Conns - 1 : IsCount(h)
    <2>1. CASE BattleHosts < 1
      BY <2>1, ConnsAssumption, BattleAssumption
    <2>2. CASE BattleHosts \in 1 .. Conns - 1
      BY <2>2
    <2>3. CASE BattleHosts > Conns - 1
      BY <2>3, ConnsAssumption, BattleAssumption
    <2>4. QED
      BY <2>1, <2>2, <2>3, ConnsAssumption, BattleAssumption
  <1>2. QED
    BY <1>1 DEF HostCount

(* Every connection is a host's or a player's. *)
LEMMA RolesOfIds ==
  /\ HostCount \in Nat /\ Conns \in Nat /\ 0 < HostCount /\ HostCount < Conns
  /\ \A i : i \in Hosts <=> i \in Ids /\ i < HostCount
  /\ \A i : i \in Players <=> i \in Ids /\ i >= HostCount
  /\ \A i \in Hosts : i # NoBattle
  /\ Hosts \cup Players = Ids /\ Hosts \cap Players = {}
  BY HostCountType, ConnsAssumption DEF Hosts, Players, Ids, NoBattle

(* The names the scenarios count under are different ones. *)
LEMMA BattleNames ==
  /\ BattleCommands = {"MYBATTLESTATUS", "LEAVEBATTLE", "JOINBATTLE"}
  /\ BattleCommands \cup {"OPENBATTLE", "LOGIN"} \subseteq Commands
  /\ {"dial_error", "login_ok", "login_retry", "login_error"}
       \cup {"host_dial_error", "tls_retry", "tls_error", "openbattle_ok",
             "openbattle_error", "battles_open"} \subseteq CounterNames \ SeedCounters
  /\ \A c \in BattleCommands :
       /\ OkCounter[c] \in CounterNames \cap {"status_ok", "leave_ok", "join_ok"}
       /\ ErrorCounter[c] \in CounterNames \cap {"status_error", "leave_error", "join_error"}
  <1>1. BattleCommands = {"MYBATTLESTATUS", "LEAVEBATTLE", "JOINBATTLE"}
    <2>1. /\ Cycle[1] = "MYBATTLESTATUS" /\ Cycle[2] = "MYBATTLESTATUS"
          /\ Cycle[3] = "LEAVEBATTLE" /\ Cycle[4] = "JOINBATTLE"
      BY DEF Cycle
    <2>2. QED
      BY <2>1 DEF BattleCommands
  <1>2. \A c \in BattleCommands : /\ OkCounter[c] \in CounterNames
                                  /\ ErrorCounter[c] \in CounterNames
    BY BattleAssumption DEF BattleCounters
  <1>3. \A c \in BattleCommands :
           /\ OkCounter[c] \in {"status_ok", "leave_ok", "join_ok"}
           /\ ErrorCounter[c] \in {"status_error", "leave_error", "join_error"}
    BY <1>1 DEF OkCounter, ErrorCounter
  <1>4. QED
    BY <1>1, <1>2, <1>3, BattleAssumption, RampedAssumption
    DEF HostCounters, SessionCounters, SeedCounters

(* The command a player sends. *)
LEMMA CommandOfCycle ==
  ASSUME seq \in [Players -> 0 .. 3], NEW i \in Players
  PROVE  /\ Command(i) \in BattleCommands
         /\ seq[i] \in {0, 1} => Command(i) = "MYBATTLESTATUS"
         /\ seq[i] = 2 => Command(i) = "LEAVEBATTLE"
         /\ seq[i] = 3 => Command(i) = "JOINBATTLE"
  <1>1. seq[i] \in 0 .. 3
    OBVIOUS
  <1>2. /\ Cycle[1] = "MYBATTLESTATUS" /\ Cycle[2] = "MYBATTLESTATUS"
        /\ Cycle[3] = "LEAVEBATTLE" /\ Cycle[4] = "JOINBATTLE"
    BY DEF Cycle
  <1>3. Command(i) = Cycle[seq[i] + 1] /\ seq[i] + 1 \in 1 .. 4
    BY <1>1 DEF Command
  <1>4. QED
    BY <1>1, <1>2, <1>3 DEF BattleCommands
-----------------------------------------------------------------------------
(* The hosts. *)

SetsUp(h) ==
  \/ HostDial(h) \/ HostStartTLS(h)
  \/ (LoginAttempt(h) \/ LoginBackoff(h)) /\ UNCHANGED battleOwn
  \/ HostLoginCounted(h) \/ OpenBattle(h) \/ OpenCounted(h)

(* Everything the steps of a host before its report leave alone. *)
NotSetUp == <<ctx, main, next, sem, seeder, window, scenario, hostCtx, opened, ids,
              inside, seq>>

(* What such a step may do. *)
LEMMA SetUpSteps ==
  ASSUME BattleTypeOK, RolesInv, NEW h \in Hosts, SetsUp(h)
  PROVE  /\ sess[h] \in SetUpPlaces
         /\ \E state \in SetUpPlaces :
              /\ SessionTo(h, state)
              /\ state \in {"dial", "tls", "opened"} => attempt'[h] < MaxAttempts
              /\ state = "tls" => tries'[h] < MaxAttempts
         /\ UNCHANGED NotSetUp
         /\ attempt' \in [Ids -> 0 .. MaxAttempts]
         /\ \A j \in Ids \ {h} : attempt'[j] = attempt[j]
         /\ tries' \in [Hosts -> 0 .. MaxAttempts]
         /\ \A j \in Hosts \ {h} : tries'[j] = tries[j]
         /\ RecorderTypeOK' /\ LobbyTypeOK'
         /\ \A j \in Ids : Connected(j) => Connected(j)'
         /\ battles' \subseteq {i \in Hosts : Connected(i)'}
  <1> USE RolesOfIds, RampedAssumption
      DEF NotSetUp, SetUpPlaces, SessionElse, battleOwn, setupVars, serverVars
  <1>0. /\ RecorderTypeOK /\ LobbyTypeOK /\ h \in Ids
        /\ attempt \in [Ids -> 0 .. MaxAttempts]
        /\ tries \in [Hosts -> 0 .. MaxAttempts]
        /\ sess[h] \in {"dial", "tls", "opened"} => attempt[h] < MaxAttempts
        /\ sess[h] = "tls" => tries[h] < MaxAttempts
        /\ battles \subseteq {i \in Hosts : Connected(i)}
    BY DEF BattleTypeOK, RunTypes, SeedTypes, RolesInv, AttemptsLeft
  <1> USE <1>0
  <1>1. CASE HostDial(h)
    <2>1. RecorderTypeOK' /\ LobbyTypeOK'
      BY <1>1, RecorderSteps, BattleNames
      DEF HostDial, TryFails, RecorderTypeOK, recorder, LobbyTypeOK, lobby
    <2>2. \/ SessionTo(h, "tls") /\ UNCHANGED tries /\ tries[h] < MaxAttempts
          \/ SessionTo(h, "dial") /\ tries' = [tries EXCEPT ![h] = @ + 1] /\ tries[h] < MaxAttempts
          \/ SessionTo(h, "decline") /\ UNCHANGED tries
      BY <1>1 DEF HostDial, TryFails, MayTry
    <2>3. QED
      BY <1>1, <2>1, <2>2 DEF HostDial, lobby, Connected
  <1>2. CASE HostStartTLS(h)
    <2>1. RecorderTypeOK' /\ LobbyTypeOK'
      BY <1>2, RecorderSteps, BattleNames
      DEF HostStartTLS, TryFails, RecorderTypeOK, recorder, LobbyTypeOK, lobby
    <2>2. \/ SessionTo(h, "opened") /\ UNCHANGED tries
          \/ SessionTo(h, "dial") /\ tries' = [tries EXCEPT ![h] = @ + 1]
      BY <1>2 DEF HostStartTLS, TryFails
    <2>3. QED
      BY <1>2, <2>1, <2>2 DEF HostStartTLS, lobby, Connected
  <1>3. CASE LoginAttempt(h) /\ UNCHANGED battleOwn
    <2>1. LobbyTypeOK'
      BY <1>3, LobbySteps DEF LoginAttempt, Owners
    <2>2. RecorderTypeOK'
      BY <1>3, RecorderSteps, BattleNames DEF LoginAttempt, LoginDenied, LoginGivesUp
    <2>3. attempt' \in [Ids -> 0 .. MaxAttempts]
          /\ \A j \in Ids \ {h} : attempt'[j] = attempt[j]
      BY <1>3 DEF LoginAttempt, LoginDenied
    <2>4. PICK state \in {"observed", "backoff", "failed"} : SessionTo(h, state)
      BY <1>3 DEF LoginAttempt, LoginDenied, LoginGivesUp
    <2>5. \A j \in Ids : Connected(j) => Connected(j)'
      BY <1>3 DEF LoginAttempt, ServerLogin, Connected, LobbyTypeOK
    <2>6. QED
      BY <1>3, <2>1, <2>2, <2>3, <2>4, <2>5 DEF LoginAttempt
  <1>4. CASE LoginBackoff(h) /\ UNCHANGED battleOwn
    <2>1. RecorderTypeOK' /\ LobbyTypeOK'
      BY <1>4, RecorderSteps, BattleNames
      DEF LoginBackoff, LoginGivesUp, RecorderTypeOK, recorder, LobbyTypeOK, lobby
    <2>2. PICK state \in {"opened", "failed"} :
             SessionTo(h, state) /\ (state = "opened" => attempt[h] < MaxAttempts)
      BY <1>4 DEF LoginBackoff, LoginGivesUp, AttemptsLeft
    <2>3. QED
      BY <1>4, <2>1, <2>2 DEF LoginBackoff, lobby, Connected
  <1>5. CASE HostLoginCounted(h)
    <2>1. RecorderTypeOK' /\ LobbyTypeOK'
      BY <1>5, RecorderSteps, BattleNames DEF HostLoginCounted, LobbyTypeOK, lobby
    <2>2. QED
      BY <1>5, <2>1 DEF HostLoginCounted, lobby, Connected
  <1>6. CASE OpenBattle(h)
    <2>1. RecorderTypeOK' /\ LobbyTypeOK'
      BY <1>6, RecorderSteps, BattleNames DEF OpenBattle, OpFails, LobbyTypeOK, lobby
    <2>2. battles' \subseteq {i \in Hosts : Connected(i)'}
      BY <1>6 DEF OpenBattle, lobby, Connected
    <2>3. QED
      BY <1>6, <2>1, <2>2 DEF OpenBattle, OpFails, lobby, Connected
  <1>7. CASE OpenCounted(h)
    <2>1. RecorderTypeOK' /\ LobbyTypeOK'
      BY <1>7, RecorderSteps, BattleNames DEF OpenCounted, LobbyTypeOK, lobby
    <2>2. QED
      BY <1>7, <2>1 DEF OpenCounted, lobby, Connected
  <1>8. QED
    BY <1>1, <1>2, <1>3, <1>4, <1>5, <1>6, <1>7 DEF SetsUp

(* The other hosts and the players are where they were, and this one is still
   in its set-up. *)
LEMMA SetUpInvKept ==
  ASSUME BattleInv, NEW h \in Hosts, SetsUp(h)
  PROVE  BattleInv'
  <1>0. h \in Ids /\ h \notin Players /\ Hosts \subseteq Ids /\ Players \subseteq Ids
    BY RolesOfIds
  <1>1. PICK state \in SetUpPlaces :
          /\ SessionTo(h, state)
          /\ state \in {"dial", "tls", "opened"} => attempt'[h] < MaxAttempts
          /\ state = "tls" => tries'[h] < MaxAttempts
    BY SetUpSteps DEF BattleInv
  <1>2. /\ sess[h] \in SetUpPlaces
        /\ UNCHANGED NotSetUp
        /\ attempt' \in [Ids -> 0 .. MaxAttempts]
        /\ \A j \in Ids \ {h} : attempt'[j] = attempt[j]
        /\ tries' \in [Hosts -> 0 .. MaxAttempts]
        /\ \A j \in Hosts \ {h} : tries'[j] = tries[j]
        /\ RecorderTypeOK' /\ LobbyTypeOK'
        /\ \A j \in Ids : Connected(j) => Connected(j)'
        /\ battles' \subseteq {i \in Hosts : Connected(i)'}
    BY SetUpSteps DEF BattleInv
  <1>3. /\ sess \in [Ids -> SessionStates]
        /\ state \in SessionStates \ {"idle", "paced", "busy", "exit", "done"}
        /\ sess[h] \notin {"idle", "paced", "busy", "exit", "done"}
    BY <1>2 DEF BattleInv, BattleTypeOK, RunTypes, SetUpPlaces, SessionStates
  <1>4. \A j \in Ids : sess'[j] = IF j = h THEN state ELSE sess[j]
    BY <1>0, <1>1, <1>3 DEF SessionTo
  <1>5. BattleTypeOK'
    <2>1. sess' \in [Ids -> SessionStates]
      BY <1>0, <1>1, <1>3 DEF SessionTo
    <2>2. inside' \subseteq {i \in Players : Connected(i)'}
      BY <1>0, <1>2 DEF NotSetUp, BattleInv, BattleTypeOK
    <2>3. QED
      BY <1>2, <2>1, <2>2 DEF NotSetUp, BattleInv, BattleTypeOK, RunTypes, SeedTypes
  <1>6. SlotInv'
    BY <1>2, SlotInvKept DEF NotSetUp, BattleInv
  <1>7. SettingUp' = SettingUp /\ h \in SettingUp
    BY <1>0, <1>1, <1>2, <1>4 DEF SettingUp
  <1>8. main \notin BeforeHosts /\ main # "returned" /\ \A i \in Players : sess[i] = "idle"
    BY <1>0, <1>3, <1>7 DEF BattleInv, PhaseInv, SetUpInv, At, Active
  <1>9. PhaseInv'
    <2>1. main \in {"hosts", "await", "ready", "ramp", "pause"} =>
            \A i \in next .. Conns - 1 : sess'[i] = "idle"
      BY <1>0, <1>3, <1>4, <1>8 DEF BattleInv, PhaseInv, Ids, BattleTypeOK, RunTypes, SeedTypes
    <2>2. main \in {"hosts", "await", "ready"} => \A i \in 0 .. next - 1 : sess'[i] # "idle"
      BY <1>0, <1>3, <1>4, ConnsAssumption
      DEF BattleInv, PhaseInv, Ids, BattleTypeOK, RunTypes, SeedTypes
    <2>3. QED
      BY <1>2, <1>8, <2>1, <2>2 DEF NotSetUp, BattleInv, PhaseInv
  <1>10. RolesInv'
    <2>1. \A i \in Ids : sess'[i] \in {"idle", "dial", "tls", "opened"} => attempt'[i] < MaxAttempts
      BY <1>0, <1>1, <1>2, <1>3, <1>4 DEF BattleInv, RolesInv, AttemptsLeft
    <2>2. \A j \in Hosts : sess'[j] # "busy" /\ (sess'[j] = "tls" => tries'[j] < MaxAttempts)
      BY <1>0, <1>1, <1>2, <1>3, <1>4 DEF BattleInv, RolesInv
    <2>3. \A i \in Players : sess'[i] = sess[i]
      BY <1>0, <1>4
    <2>4. QED
      BY <2>1, <2>2, <2>3 DEF BattleInv, RolesInv, AttemptsLeft
  <1>11. SetUpInv'
    <2>1. \A g \in Hosts : /\ sess'[g] = "paced" <=> sess[g] = "paced"
                           /\ sess'[g] \in {"exit", "done"} <=> sess[g] \in {"exit", "done"}
                           /\ sess'[g] = "idle" <=> sess[g] = "idle"
                           /\ Promised(g)' <=> Promised(g)
      BY <1>0, <1>2, <1>3, <1>4 DEF NotSetUp, Promised
    <2>2. \A i \in Players : sess'[i] = sess[i]
      BY <1>0, <1>4
    <2>3. QED
      BY <1>2, <1>7, <2>1, <2>2 DEF NotSetUp, BattleInv, SetUpInv, Quiet
  <1>12. CycleInv'
    <2>1. \A i \in Players : sess'[i] = "idle"
      BY <1>0, <1>4, <1>8
    <2>2. QED
      BY <1>2, <1>8, <2>1 DEF NotSetUp, BattleInv, CycleInv
  <1>13. QED
    BY <1>5, <1>6, <1>9, <1>10, <1>11, <1>12 DEF BattleInv

(* The report ends the set-up of a host; there is no other to report. *)
LEMMA ReportInv ==
  ASSUME BattleInv, NEW h \in Hosts, HostReport(h)
  PROVE  BattleInv'
  <1>0. h \in Ids /\ h \notin Players /\ Hosts \subseteq Ids /\ Players \subseteq Ids
        /\ \A i \in Hosts : i # NoBattle
    BY RolesOfIds
  <1>1. PICK state \in {"paced", "exit"}, id \in {h, NoBattle} :
          /\ SessionTo(h, state) /\ opened' = <<id>>
          /\ state = "paced" <=> id = h
    <2>1. opened = <<>>
      BY DEF HostReport, BattleInv, BattleTypeOK
    <2>2. \A id : Append(opened, id) = <<id>>
      BY <2>1
    <2>3. CASE sess[h] = "publish"
      BY <2>2, <2>3 DEF HostReport
    <2>4. CASE sess[h] = "decline"
      BY <1>0, <2>2, <2>4 DEF HostReport
    <2>5. QED
      BY <2>3, <2>4 DEF HostReport
  <1>2. /\ opened = <<>> /\ sess[h] \in {"publish", "decline"}
        /\ UNCHANGED <<recorder, lobby, ctx, main, next, sem, seeder, window, attempt,
                       scenario, hostCtx, ids, tries, battles, inside, seq>>
    BY DEF HostReport, SessionElse, serverVars, BattleInv, BattleTypeOK
  <1>3. sess \in [Ids -> SessionStates]
    BY DEF BattleInv, BattleTypeOK, RunTypes
  <1>4. \A j \in Ids : sess'[j] = IF j = h THEN state ELSE sess[j]
    BY <1>0, <1>1, <1>3 DEF SessionTo
  <1>5. BattleTypeOK'
    <2>1. sess' \in [Ids -> SessionStates]
      BY <1>0, <1>1, <1>3 DEF SessionTo, SessionStates
    <2>2. opened' \in {<<id_1>> : id_1 \in Hosts \cup {NoBattle}}
      BY <1>1
    <2>3. QED
      BY <1>2, <2>1, <2>2
      DEF BattleInv, BattleTypeOK, RunTypes, SeedTypes, recorder, RecorderTypeOK, lobby,
          LobbyTypeOK, Connected
  <1>6. SlotInv'
    BY <1>2, SlotInvKept DEF BattleInv
  <1>7. h \in SettingUp /\ SettingUp' = {}
    <2>1. h \in SettingUp /\ \A g \in Hosts : sess[g] \in SetUpPlaces => g = h
      BY <1>2 DEF SettingUp, SetUpPlaces, BattleInv, SetUpInv
    <2>2. state \notin SetUpPlaces
      BY DEF SetUpPlaces
    <2>3. QED
      BY <1>0, <1>4, <2>1, <2>2 DEF SettingUp
  <1>8. /\ main \notin BeforeHosts \cup {"hosts", "pause"} /\ window # "open"
        /\ ~(main = "ready" /\ hostCtx = "live") /\ main # "returned"
        /\ \A i \in Players : sess[i] = "idle"
    BY <1>0, <1>2, <1>7 DEF BattleInv, SetUpInv, Quiet, PhaseInv, Active
  <1>9. PhaseInv'
    <2>1. main \in {"hosts", "await", "ready", "ramp", "pause"} =>
            \A i \in next .. Conns - 1 : sess'[i] = "idle"
      BY <1>0, <1>2, <1>4, <1>8, ConnsAssumption
      DEF BattleInv, PhaseInv, Ids, BattleTypeOK, RunTypes, SeedTypes
    <2>2. main \in {"hosts", "await", "ready"} => \A i \in 0 .. next - 1 : sess'[i] # "idle"
      BY <1>0, <1>2, <1>4, ConnsAssumption
      DEF BattleInv, PhaseInv, Ids, BattleTypeOK, RunTypes, SeedTypes
    <2>3. QED
      BY <1>2, <1>8, <2>1, <2>2 DEF BattleInv, PhaseInv
  <1>10. RolesInv'
    BY <1>0, <1>2, <1>4 DEF BattleInv, RolesInv, AttemptsLeft
  <1>11. SetUpInv'
    <2>1. ASSUME NEW g \in Hosts
          PROVE  /\ sess'[g] = "paced" => Promised(g)'
                 /\ Promised(g)' => \/ sess'[g] = "paced"
                                    \/ hostCtx' = "cancelled" /\ sess'[g] \in {"exit", "done"}
      <3>1. CASE g = h
        <4>1. ~\E k \in 1 .. Len(ids) : ids[k] = h
          BY <1>2, <3>1 DEF BattleInv, SetUpInv, Promised
        <4>2. QED
          BY <1>0, <1>1, <1>2, <1>4, <3>1, <4>1 DEF Promised
      <3>2. CASE g # h
        <4>1. Promised(g)' <=> Promised(g)
          BY <1>0, <1>1, <1>2, <3>2 DEF Promised
        <4>2. sess'[g] = sess[g]
          BY <1>0, <1>4, <3>2
        <4>3. QED
          BY <1>2, <4>1, <4>2 DEF BattleInv, SetUpInv
      <3>3. QED
        BY <3>1, <3>2
    <2>2. \A i \in Players : sess'[i] = sess[i]
      BY <1>0, <1>4
    <2>3. QED
      BY <1>2, <1>7, <1>8, <2>1, <2>2 DEF BattleInv, SetUpInv
  <1>12. CycleInv'
    BY <1>0, <1>2, <1>4, <1>8 DEF BattleInv, CycleInv
  <1>13. QED
    BY <1>5, <1>6, <1>9, <1>10, <1>11, <1>12 DEF BattleInv

(* A host goes when its context is over. *)
LEMMA HostLeavesInv ==
  ASSUME BattleInv, NEW h \in Hosts,
         HostRelease(h) \/ (SessionExit(h) /\ UNCHANGED battleOwn)
  PROVE  BattleInv'
  <1>0. h \in Ids /\ h \notin Players /\ Hosts \subseteq Ids /\ Players \subseteq Ids
    BY RolesOfIds
  <1>1. /\ UNCHANGED <<recorder, lobby, ctx, main, next, sem, seeder, window, attempt,
                       scenario, hostCtx, opened, ids, tries, battles, inside, seq>>
        /\ \/ sess[h] = "paced" /\ hostCtx = "cancelled" /\ SessionTo(h, "exit")
           \/ sess[h] = "exit" /\ SessionTo(h, "done")
    BY DEF HostRelease, SessionExit, SessionElse, battleOwn, setupVars, serverVars
  <1>2. PICK state \in {"exit", "done"} : SessionTo(h, state)
    BY <1>1
  <1>3. sess \in [Ids -> SessionStates]
    BY DEF BattleInv, BattleTypeOK, RunTypes
  <1>4. \A j \in Ids : sess'[j] = IF j = h THEN state ELSE sess[j]
    BY <1>0, <1>2, <1>3 DEF SessionTo
  <1>5. BattleTypeOK'
    <2>1. sess' \in [Ids -> SessionStates]
      BY <1>0, <1>2, <1>3 DEF SessionTo, SessionStates
    <2>2. QED
      BY <1>1, <2>1
      DEF BattleInv, BattleTypeOK, RunTypes, SeedTypes, recorder, RecorderTypeOK, lobby,
          LobbyTypeOK, Connected
  <1>6. SlotInv'
    BY <1>1, SlotInvKept DEF BattleInv
  <1>7. SettingUp' = SettingUp
    BY <1>0, <1>1, <1>4 DEF SettingUp, SetUpPlaces
  <1>8. main \notin BeforeHosts /\ main # "returned"
    BY <1>0, <1>1 DEF BattleInv, PhaseInv, At, Active
  <1>9. PhaseInv'
    <2>1. main \in {"hosts", "await", "ready", "ramp", "pause"} =>
            \A i \in next .. Conns - 1 : sess'[i] = "idle"
      BY <1>0, <1>1, <1>4, ConnsAssumption
      DEF BattleInv, PhaseInv, Ids, BattleTypeOK, RunTypes, SeedTypes
    <2>2. main \in {"hosts", "await", "ready"} => \A i \in 0 .. next - 1 : sess'[i] # "idle"
      BY <1>0, <1>1, <1>4, ConnsAssumption
      DEF BattleInv, PhaseInv, Ids, BattleTypeOK, RunTypes, SeedTypes
    <2>3. QED
      BY <1>1, <1>8, <2>1, <2>2 DEF BattleInv, PhaseInv
  <1>10. RolesInv'
    BY <1>0, <1>1, <1>4 DEF BattleInv, RolesInv, AttemptsLeft
  <1>11. SetUpInv'
    <2>1. ASSUME NEW g \in Hosts
          PROVE  /\ sess'[g] = "paced" => Promised(g)'
                 /\ Promised(g)' => \/ sess'[g] = "paced"
                                    \/ hostCtx' = "cancelled" /\ sess'[g] \in {"exit", "done"}
                 /\ window' = "open" => sess'[g] # "idle"
      <3>1. Promised(g)' <=> Promised(g)
        BY <1>1 DEF Promised
      <3>2. QED
        BY <1>0, <1>1, <1>4, <3>1 DEF BattleInv, SetUpInv
    <2>2. \A i \in Players : sess'[i] = sess[i]
      BY <1>0, <1>4
    <2>3. QED
      BY <1>1, <1>7, <2>1, <2>2 DEF BattleInv, SetUpInv, Quiet
  <1>12. CycleInv'
    <2>1. \A i \in Players : sess'[i] = sess[i]
      BY <1>0, <1>4
    <2>2. QED
      BY <1>1, <2>1 DEF BattleInv, CycleInv, Knows, Connected, BattleOf, lobby
  <1>13. QED
    BY <1>5, <1>6, <1>9, <1>10, <1>11, <1>12 DEF BattleInv
-----------------------------------------------------------------------------
(* The players. *)

(* Everything the steps of a player leave alone. *)
NotPlayer == <<ctx, main, next, sem, seeder, window, scenario, hostCtx, opened, ids,
               tries, battles>>

\* What a step of player i changes of the variables that belong to one player.
OnlyOf(i) ==
  /\ \A j \in Ids \ {i} : attempt'[j] = attempt[j] /\ online'[j] = online[j]
  /\ \A j \in Players \ {i} : /\ seq'[j] = seq[j]
                              /\ j \in inside' <=> j \in inside

(* What such a step may do. *)
LEMMA PlayerSteps ==
  ASSUME BattleTypeOK, RolesInv, NEW i \in Players, Player(i)
  PROVE  /\ sess[i] \notin {"idle", "done"}
         /\ \E state \in SessionStates \ {"idle", "dial", "tls", "publish", "decline"} :
              SessionTo(i, state) /\ (state = "opened" => attempt'[i] < MaxAttempts)
         /\ UNCHANGED NotPlayer /\ OnlyOf(i)
         /\ RecorderTypeOK' /\ LobbyTypeOK'
         /\ attempt' \in [Ids -> 0 .. MaxAttempts]
         /\ seq' \in [Players -> 0 .. 3]
         /\ \A j \in Ids : Connected(j) => Connected(j)'
         /\ inside' \subseteq {j \in Players : Connected(j)'}
  <1> USE RampedAssumption
      DEF NotPlayer, OnlyOf, SessionElse, battleOwn, setupVars, serverVars, SessionStates
  <1>0. /\ RecorderTypeOK /\ LobbyTypeOK /\ i \in Ids /\ Players \subseteq Ids
        /\ attempt \in [Ids -> 0 .. MaxAttempts]
        /\ seq \in [Players -> 0 .. 3]
        /\ sess[i] \in {"dial", "opened"} => attempt[i] < MaxAttempts
        /\ inside \subseteq {j \in Players : Connected(j)}
    BY RolesOfIds DEF BattleTypeOK, RunTypes, SeedTypes, RolesInv, AttemptsLeft
  <1> USE <1>0
  <1>1. CASE SessionDial(i) /\ UNCHANGED battleOwn
    <2>1. RecorderTypeOK' /\ LobbyTypeOK'
      BY <1>1, RecorderSteps, BattleNames
      DEF SessionDial, RecorderTypeOK, recorder, LobbyTypeOK, lobby
    <2>2. QED
      BY <1>1, <2>1 DEF SessionDial, lobby, Connected
  <1>2. CASE LoginAttempt(i) /\ UNCHANGED battleOwn
    <2>1. LobbyTypeOK'
      BY <1>2, LobbySteps DEF LoginAttempt, Owners
    <2>2. RecorderTypeOK'
      BY <1>2, RecorderSteps, BattleNames DEF LoginAttempt, LoginDenied, LoginGivesUp
    <2>3. attempt' \in [Ids -> 0 .. MaxAttempts]
          /\ \A j \in Ids \ {i} : attempt'[j] = attempt[j]
      BY <1>2 DEF LoginAttempt, LoginDenied
    <2>4. PICK state \in {"observed", "backoff", "failed"} : SessionTo(i, state)
      BY <1>2 DEF LoginAttempt, LoginDenied, LoginGivesUp
    <2>5. /\ \A j \in Ids : Connected(j) => Connected(j)'
          /\ \A j \in Ids \ {i} : online'[j] = online[j]
      BY <1>2 DEF LoginAttempt, ServerLogin, Connected, LobbyTypeOK
    <2>6. QED
      BY <1>2, <2>1, <2>2, <2>3, <2>4, <2>5 DEF LoginAttempt
  <1>3. CASE LoginBackoff(i) /\ UNCHANGED battleOwn
    <2>1. RecorderTypeOK' /\ LobbyTypeOK'
      BY <1>3, RecorderSteps, BattleNames
      DEF LoginBackoff, LoginGivesUp, RecorderTypeOK, recorder, LobbyTypeOK, lobby
    <2>2. PICK state \in {"opened", "failed"} :
             SessionTo(i, state) /\ (state = "opened" => attempt[i] < MaxAttempts)
      BY <1>3 DEF LoginBackoff, LoginGivesUp, AttemptsLeft
    <2>3. QED
      BY <1>3, <2>1, <2>2 DEF LoginBackoff, lobby, Connected
  <1>4. CASE (LoginCounted(i) \/ SessionExit(i)) /\ UNCHANGED battleOwn
    <2>1. RecorderTypeOK' /\ LobbyTypeOK'
      BY <1>4, RecorderSteps, BattleNames
      DEF LoginCounted, SessionExit, RecorderTypeOK, recorder, LobbyTypeOK, lobby
    <2>2. QED
      BY <1>4, <2>1 DEF LoginCounted, SessionExit, lobby, Connected
  <1>5. CASE JoinFirst(i) \/ OpTick(i) \/ PlayerDone(i)
    <2>1. RecorderTypeOK' /\ LobbyTypeOK'
      BY <1>5 DEF JoinFirst, OpTick, PlayerDone, RecorderTypeOK, recorder, LobbyTypeOK, lobby
    <2>2. QED
      BY <1>5, <2>1 DEF JoinFirst, OpTick, PlayerDone, SeesWindowClosed, lobby, Connected
  <1>6. CASE Op(i)
    <2>1. RecorderTypeOK' /\ LobbyTypeOK'
      BY <1>6, RecorderSteps, BattleNames, CommandOfCycle
      DEF Op, OpFails, LobbyTypeOK, lobby
    <2>2. inside' \in {inside, InsideAfter(i)} /\ (Connected(i) \/ inside' = inside)
      BY <1>6 DEF Op, Accepts
    <2>3. InsideAfter(i) \in {inside, inside \cup {i}, inside \ {i}}
      BY DEF InsideAfter
    <2>4. \A j \in Players \ {i} : j \in inside' <=> j \in inside
      BY <2>2, <2>3
    <2>5. inside' \subseteq {j \in Players : Connected(j)'}
      BY <1>6, <2>2, <2>3 DEF Op, lobby, Connected
    <2>6. QED
      BY <1>6, <2>1, <2>4, <2>5 DEF Op, OpFails, lobby, Connected
  <1>7. CASE OpCounted(i)
    <2>1. RecorderTypeOK' /\ LobbyTypeOK'
      BY <1>7, RecorderSteps, BattleNames, CommandOfCycle DEF OpCounted, LobbyTypeOK, lobby
    <2>2. seq' \in [Players -> 0 .. 3] /\ \A j \in Players \ {i} : seq'[j] = seq[j]
      BY <1>7 DEF OpCounted, Advance
    <2>3. QED
      BY <1>7, <2>1, <2>2 DEF OpCounted, lobby, Connected
  <1>8. QED
    BY <1>1, <1>2, <1>3, <1>4, <1>5, <1>6, <1>7 DEF Player, Login

(* The cycle: a command that succeeds leaves the membership it promises, one
   that fails takes the player out of the cycle. *)
LEMMA PlayerCycle ==
  ASSUME BattleInv, NEW i \in Players, Player(i)
  PROVE  CycleInv'
  <1>0. i \in Ids /\ Players \subseteq Ids /\ seq \in [Players -> 0 .. 3] /\ seq[i] \in 0 .. 3
    BY RolesOfIds DEF BattleInv, BattleTypeOK
  <1>1. sess \in [Ids -> SessionStates]
    BY DEF BattleInv, BattleTypeOK, RunTypes
  <1>2. UNCHANGED NotPlayer /\ OnlyOf(i)
    BY PlayerSteps DEF BattleInv
  <1>3. PICK state : SessionTo(i, state)
    BY PlayerSteps DEF BattleInv
  <1>4. \A j \in Ids : sess'[j] = IF j = i THEN state ELSE sess[j]
    BY <1>0, <1>1, <1>3 DEF SessionTo
  <1> DEFINE early == {"idle", "dial", "opened", "backoff", "observed", "failed", "in"}
             Mine == /\ sess[i] \in early => seq[i] = 3 /\ i \notin inside
                     /\ sess[i] \in {"paced", "busy"} => Knows(i, seq[i])
                     /\ sess[i] = "sampled" => Knows(i, (seq[i] + 1) % 4)
  <1>5. Mine
    BY DEF BattleInv, CycleInv
  <1>6. Mine'
    <2> USE <1>0, <1>1, <1>5 DEF SessionElse, battleOwn, setupVars, serverVars
    <2>1. CASE Login(i) /\ UNCHANGED battleOwn
      <3>1. /\ sess[i] \in early
            /\ sess'[i] \notin {"paced", "busy", "sampled"}
        BY <2>1 DEF Login, SessionDial, LoginAttempt, LoginDenied, LoginGivesUp,
                    LoginBackoff, LoginCounted, SessionTo
      <3>2. QED
        BY <2>1, <3>1
    <2>2. CASE SessionExit(i) \/ PlayerDone(i)
      BY <2>2 DEF SessionExit, PlayerDone, SeesWindowClosed, SessionTo
    <2>3. CASE JoinFirst(i)
      <3>1. sess'[i] = "busy" /\ sess[i] = "in" /\ UNCHANGED <<seq, inside>>
        BY <2>3 DEF JoinFirst, SessionTo
      <3>2. QED
        BY <3>1 DEF Knows
    <2>4. CASE OpTick(i)
      <3>1. sess'[i] = "busy" /\ sess[i] = "paced"
            /\ UNCHANGED <<seq, inside, online, battles, ids>>
        BY <2>4 DEF OpTick, SessionTo, lobby
      <3>2. QED
        BY <3>1 DEF Knows, Connected, BattleOf
    <2>5. CASE Op(i)
      <3>1. /\ sess[i] = "busy" /\ UNCHANGED <<seq, online, battles, ids>>
            /\ sess'[i] \in {"sampled", "broken"}
            /\ sess'[i] = "sampled" => Accepts(i) /\ inside' = InsideAfter(i)
        BY <2>5 DEF Op, OpFails, SessionTo, lobby
      <3>2. ASSUME sess'[i] = "sampled"
            PROVE  i \in inside' <=> (seq[i] + 1) % 4 # 3
        <4>1. CASE seq[i] \in {0, 1}
          BY <3>1, <3>2, <4>1, CommandOfCycle DEF Accepts, InsideAfter
        <4>2. CASE seq[i] = 2
          BY <3>1, <3>2, <4>2, CommandOfCycle DEF Accepts, InsideAfter
        <4>3. CASE seq[i] = 3
          BY <3>1, <3>2, <4>3, CommandOfCycle DEF Accepts, InsideAfter
        <4>4. QED
          BY <4>1, <4>2, <4>3
      <3>3. QED
        BY <3>1, <3>2 DEF Knows
    <2>6. CASE OpCounted(i)
      <3>1. UNCHANGED <<inside, online, battles, ids>>
        BY <2>6 DEF OpCounted, lobby
      <3>2. \/ sess[i] = "sampled" /\ sess'[i] = "paced" /\ seq'[i] = (seq[i] + 1) % 4
            \/ sess'[i] = "exit"
        BY <2>6 DEF OpCounted, Advance, SessionTo
      <3>3. QED
        BY <3>1, <3>2 DEF Knows, Connected, BattleOf
    <2>7. QED
      BY <2>1, <2>2, <2>3, <2>4, <2>5, <2>6 DEF Player
  <1>7. ASSUME NEW j \in Players \ {i}
        PROVE  /\ sess'[j] = sess[j] /\ seq'[j] = seq[j]
               /\ j \in inside' <=> j \in inside
               /\ \A k \in Nat : Knows(j, k)' <=> Knows(j, k)
    BY <1>0, <1>2, <1>4 DEF OnlyOf, NotPlayer, Knows, Connected, BattleOf
  <1>8. \A j \in Players \ {i} : seq[j] \in Nat /\ (seq[j] + 1) % 4 \in Nat
    BY <1>0
  <1>9. QED
    BY <1>6, <1>7, <1>8 DEF BattleInv, CycleInv

(* A player moves among players only, when every host has reported. *)
LEMMA PlayerInv ==
  ASSUME BattleInv, NEW i \in Players, Player(i)
  PROVE  BattleInv'
  <1>0. i \in Ids /\ i \notin Hosts /\ Hosts \subseteq Ids /\ Players \subseteq Ids
    BY RolesOfIds
  <1>1. PICK state \in SessionStates \ {"idle", "dial", "tls", "publish", "decline"} :
           SessionTo(i, state) /\ (state = "opened" => attempt'[i] < MaxAttempts)
    BY PlayerSteps DEF BattleInv
  <1>2. /\ sess[i] \notin {"idle", "done"}
        /\ UNCHANGED NotPlayer /\ OnlyOf(i)
        /\ RecorderTypeOK' /\ LobbyTypeOK'
        /\ attempt' \in [Ids -> 0 .. MaxAttempts]
        /\ seq' \in [Players -> 0 .. 3]
        /\ \A j \in Ids : Connected(j) => Connected(j)'
        /\ inside' \subseteq {j \in Players : Connected(j)'}
    BY PlayerSteps DEF BattleInv
  <1>3. sess \in [Ids -> SessionStates] /\ sess' \in [Ids -> SessionStates]
    BY <1>0, <1>1 DEF BattleInv, BattleTypeOK, RunTypes, SessionTo
  <1>4. \A j \in Ids : sess'[j] = IF j = i THEN state ELSE sess[j]
    BY <1>0, <1>1, <1>3 DEF SessionTo
  <1>5. BattleTypeOK'
    <2>1. battles' \subseteq {h \in Hosts : Connected(h)'}
      BY <1>0, <1>2 DEF NotPlayer, BattleInv, BattleTypeOK
    <2>2. QED
      BY <1>2, <1>3, <2>1 DEF NotPlayer, BattleInv, BattleTypeOK, RunTypes, SeedTypes
  <1>6. SlotInv'
    BY <1>2, SlotInvKept DEF NotPlayer, BattleInv
  <1>7. SettingUp' = SettingUp /\ SettingUp = {}
    BY <1>0, <1>2, <1>4 DEF SettingUp, BattleInv, SetUpInv
  <1>8. main \notin BeforeWindow /\ main # "returned"
    <2>1. main \notin BeforeHosts /\ main # "returned"
      BY <1>0, <1>2 DEF BattleInv, PhaseInv, At, Active
    <2>2. CASE main \in {"hosts", "await", "ready"}
      <3>1. i \in next .. Conns - 1
        BY <1>0, <2>2, RolesOfIds DEF BattleInv, PhaseInv, BattleTypeOK, RunTypes, SeedTypes, Ids
      <3>2. QED
        BY <1>2, <2>2, <3>1 DEF BattleInv, PhaseInv
    <2>3. QED
      BY <2>1, <2>2 DEF BeforeWindow
  <1>9. PhaseInv'
    <2>1. main \in {"ramp", "pause"} => \A j \in next .. Conns - 1 : sess'[j] = "idle"
      BY <1>0, <1>2, <1>4, ConnsAssumption
      DEF BattleInv, PhaseInv, Ids, BattleTypeOK, RunTypes, SeedTypes
    <2>2. QED
      BY <1>2, <1>8, <2>1 DEF NotPlayer, BattleInv, PhaseInv, BeforeWindow
  <1>10. RolesInv'
    <2>1. \A j \in Ids : sess'[j] \in {"idle", "dial", "tls", "opened"} => attempt'[j] < MaxAttempts
      BY <1>1, <1>2, <1>4 DEF OnlyOf, BattleInv, RolesInv, AttemptsLeft
    <2>2. \A j \in Players : sess'[j] \notin {"tls", "publish", "decline"}
      BY <1>0, <1>1, <1>4 DEF BattleInv, RolesInv
    <2>3. \A h \in Hosts : sess'[h] = sess[h] /\ tries'[h] = tries[h]
      BY <1>0, <1>2, <1>4 DEF NotPlayer
    <2>4. QED
      BY <2>1, <2>2, <2>3 DEF BattleInv, RolesInv, AttemptsLeft
  <1>11. SetUpInv'
    <2>1. \A h \in Hosts : sess'[h] = sess[h] /\ (Promised(h)' <=> Promised(h))
      BY <1>0, <1>2, <1>4 DEF NotPlayer, Promised
    <2>2. QED
      BY <1>2, <1>7, <2>1 DEF NotPlayer, BattleInv, SetUpInv, Quiet
  <1>12. QED
    BY <1>5, <1>6, <1>9, <1>10, <1>11, PlayerCycle DEF BattleInv
-----------------------------------------------------------------------------
(* The main goroutine. *)

(* A step that moves no session leaves the roles and, with the list of the
   battles, the cycles alone. *)
LEMMA NobodyMoves ==
  ASSUME BattleInv, UNCHANGED <<sess, attempt, tries, seq, inside, battles, lobby>>,
         UNCHANGED ids \/ \A i \in Players : sess[i] = "idle"
  PROVE  RolesInv' /\ CycleInv' /\ SettingUp' = SettingUp
  <1>1. RolesInv'
    BY DEF BattleInv, RolesInv, AttemptsLeft
  <1>2. SettingUp' = SettingUp
    BY DEF SettingUp
  <1>3. CASE UNCHANGED ids
    BY <1>1, <1>2, <1>3 DEF BattleInv, CycleInv, Knows, Connected, BattleOf, lobby
  <1>4. CASE \A i \in Players : sess[i] = "idle"
    BY <1>1, <1>2, <1>4 DEF BattleInv, CycleInv
  <1>5. QED
    BY <1>3, <1>4

(* A session that has not been started yet is started: a host from hosts, a
   player from the ramp. *)
LEMMA StartsOne ==
  ASSUME BattleInv, NEW i \in Ids, sess[i] = "idle", SessionTo(i, "dial"),
         UNCHANGED <<attempt, tries, seq, inside, battles, lobby, ids>>
  PROVE  /\ sess' \in [Ids -> SessionStates]
         /\ \A j \in Ids : sess'[j] = IF j = i THEN "dial" ELSE sess[j]
         /\ RolesInv' /\ CycleInv'
  <1>0. Hosts \subseteq Ids /\ Players \subseteq Ids
    BY RolesOfIds
  <1>1. sess \in [Ids -> SessionStates]
    BY DEF BattleInv, BattleTypeOK, RunTypes
  <1>2. \A j \in Ids : sess'[j] = IF j = i THEN "dial" ELSE sess[j]
    BY <1>1 DEF SessionTo
  <1>3. RolesInv'
    BY <1>0, <1>2 DEF BattleInv, RolesInv, AttemptsLeft
  <1>4. CycleInv'
    BY <1>0, <1>2 DEF BattleInv, CycleInv, Knows, Connected, BattleOf, lobby
  <1>5. QED
    BY <1>1, <1>2, <1>3, <1>4 DEF SessionTo, SessionStates

LEMMA HostingInv ==
  ASSUME BattleInv, Hosting
  PROVE  BattleInv'
  <1> USE DEF MainElse, serverVars
  <1>0. /\ HostCount \in Nat /\ Conns \in Nat /\ 0 < HostCount /\ HostCount < Conns
        /\ next \in 0 .. Conns /\ next \in Nat
        /\ Hosts \subseteq Ids /\ Players \subseteq Ids
        /\ ids \in Seq(Hosts) /\ Len(ids) \in Nat /\ Len(ids) <= HostCount
        /\ opened \in {<<>>} \cup {<<id>> : id \in Hosts \cup {NoBattle}}
    BY RolesOfIds DEF BattleInv, BattleTypeOK, RunTypes, SeedTypes
  <1>s. SlotInv'
    BY SlotInvKept
    DEF SeedingPlaces, BattleInv, Hosting, StartHosts, HostLaunch, HostAwait, HostReported, HostsReady,
        ReleaseHosts, BattleReturn
  <1>r. RecorderTypeOK'
    <2>1. RecorderTypeOK
      BY DEF BattleInv, BattleTypeOK, RunTypes, SeedTypes
    <2>2. CASE UNCHANGED recorder
      BY <2>1, <2>2 DEF RecorderTypeOK, recorder
    <2>3. CASE Add("battles_open", BattlesOpen)
      <3>1. BattlesOpen \in Nat
        BY <1>0 DEF BattlesOpen
      <3>2. "battles_open" \in CounterNames
        BY BattleNames
      <3>3. QED
        BY <2>1, <2>3, <3>1, <3>2 DEF RecorderTypeOK, Add
    <2>4. QED
      BY <2>2, <2>3 DEF Hosting, StartHosts, HostLaunch, HostAwait, HostsReady, ReleaseHosts,
                        BattleReturn
  <1>t. ASSUME main' \in HostPlaces, next' \in 0 .. Conns, window' \in {"unset", "open", "closed"},
               sess' \in [Ids -> SessionStates], hostCtx' \in {"live", "cancelled"},
               opened' \in {opened, <<>>},
               ids' \in Seq(Hosts), Len(ids') <= HostCount
        PROVE  BattleTypeOK'
    <2>1. UNCHANGED <<lobby, ctx, sem, seeder, attempt, scenario, tries, serverVars, seq>>
      BY DEF Hosting, StartHosts, HostLaunch, HostAwait, HostsReady, ReleaseHosts, BattleReturn
    <2>2. LobbyTypeOK'
      BY <2>1 DEF lobby, LobbyTypeOK, BattleInv, BattleTypeOK, RunTypes, SeedTypes
    <2>3. QED
      BY <1>r, <1>t, <2>1, <2>2
      DEF BattleInv, BattleTypeOK, RunTypes, SeedTypes, lobby, Connected
  <1>w. /\ main \in HostPlaces /\ window \in {"unset", "open", "closed"}
        /\ sess \in [Ids -> SessionStates] /\ hostCtx \in {"live", "cancelled"}
        /\ ctx \in {"live", "cancelled"}
    BY DEF BattleInv, BattleTypeOK, RunTypes, SeedTypes
  <1>1. CASE StartHosts
    <2>1. RolesInv' /\ CycleInv' /\ SettingUp' = SettingUp
      BY <1>1, NobodyMoves DEF StartHosts
    <2>2. BattleTypeOK'
      BY <1>0, <1>1, <1>t, <1>w DEF StartHosts, HostPlaces
    <2>3. At({"idle"}) = Ids /\ window = "unset" /\ opened = <<>> /\ ids = <<>>
      BY <1>1 DEF StartHosts, BattleInv, PhaseInv, BeforeHosts, BeforeWindow
    <2>4. \A i \in Ids : sess[i] = "idle"
      BY <2>3 DEF At
    <2>5. PhaseInv'
      <3>1. \A i \in 0 .. Conns - 1 : sess'[i] = "idle"
        BY <1>1, <2>4 DEF StartHosts, Ids
      <3>2. hostCtx = "cancelled" => ctx = "cancelled"
        BY <1>1 DEF StartHosts, BattleInv, PhaseInv
      <3>3. hostCtx = "live" => ctx = "live"
        BY DEF BattleInv, PhaseInv
      <3>4. 0 .. 0 - 1 = {}
        OBVIOUS
      <3>5. QED
        BY <1>0, <1>1, <2>3, <3>1, <3>2, <3>3, <3>4 DEF StartHosts, PhaseInv, BeforeHosts, BeforeWindow
    <2>6. SetUpInv'
      <3>1. Quiet
        BY <1>1 DEF StartHosts, BattleInv, SetUpInv, BeforeHosts
      <3>2. \A h \in Hosts : ~Promised(h) /\ sess[h] = "idle"
        BY <1>0, <2>3, <2>4 DEF Promised
      <3>3. \A h \in Hosts : ~Promised(h)' /\ sess'[h] = "idle"
        BY <1>1, <3>2 DEF StartHosts, Promised
      <3>4. opened' = <<>> /\ SettingUp' = {}
        BY <1>1, <2>1, <3>1 DEF StartHosts, Quiet
      <3>5. Len(ids') <= next' /\ main' = "hosts" /\ window' = "unset"
        BY <1>1, <2>3 DEF StartHosts
      <3>6. QED
        BY <3>3, <3>4, <3>5 DEF SetUpInv, Quiet
    <2>7. QED
      BY <1>s, <2>1, <2>2, <2>5, <2>6 DEF BattleInv
  <1>2. CASE HostLaunch
    <2>1. /\ window = "unset" /\ Quiet /\ next <= HostCount /\ Len(ids) <= next
          /\ \A i \in next .. Conns - 1 : sess[i] = "idle"
          /\ \A i \in 0 .. next - 1 : sess[i] # "idle"
          /\ hostCtx = "live" => ctx = "live"
          /\ hostCtx = "cancelled" => ctx = "cancelled"
      BY <1>2 DEF HostLaunch, BattleInv, PhaseInv, SetUpInv, BeforeHosts, BeforeWindow
    <2>2. CASE next < HostCount /\ main' = "await"
      <3>1. SessionTo(next, "dial") /\ next' = next + 1
            /\ UNCHANGED <<recorder, window, hostCtx, opened, ids>>
        BY <1>2, <2>2 DEF HostLaunch
      <3>2. /\ next \in Hosts /\ sess[next] = "idle" /\ next \in Ids
            /\ \A i \in Players : i > next
        BY <1>0, <2>1, <2>2 DEF Hosts, Players, Ids
      <3>3. /\ sess' \in [Ids -> SessionStates]
            /\ \A j \in Ids : sess'[j] = IF j = next THEN "dial" ELSE sess[j]
            /\ RolesInv' /\ CycleInv'
        BY <1>2, <3>1, <3>2, StartsOne DEF HostLaunch
      <3>4. BattleTypeOK'
        BY <1>0, <1>t, <1>w, <2>2, <3>1, <3>3 DEF HostPlaces
      <3>5. PhaseInv'
        <4>1. \A i \in next' .. Conns - 1 : sess'[i] = "idle"
          BY <1>0, <2>1, <3>1, <3>3 DEF Ids
        <4>2. \A i \in 0 .. next' - 1 : sess'[i] # "idle"
          BY <1>0, <2>1, <3>1, <3>3 DEF Ids
        <4>3. UNCHANGED ctx
          BY <1>2 DEF HostLaunch
        <4>4. QED
          BY <1>0, <1>w, <2>1, <2>2, <3>1, <4>1, <4>2, <4>3
          DEF PhaseInv, BeforeHosts, BeforeWindow
      <3>6. SetUpInv'
        <4>1. SettingUp' = {next}
          <5>1. \A h \in Hosts : sess[h] \notin SetUpPlaces
            BY <2>1 DEF Quiet, SettingUp
          <5>2. "dial" \in SetUpPlaces
            BY DEF SetUpPlaces
          <5>3. QED
            BY <1>0, <3>2, <3>3, <5>1, <5>2 DEF SettingUp
        <4>2. \A i \in Players : sess'[i] = "idle"
          BY <1>0, <2>1, <3>2, <3>3 DEF Players, Ids
        <4>3. \A h \in Hosts : Promised(h)' <=> Promised(h)
          BY <3>1 DEF Promised
        <4>4. \A h \in Hosts : /\ sess[h] = "paced" => Promised(h)
                               /\ Promised(h) => \/ sess[h] = "paced"
                                                 \/ hostCtx = "cancelled" /\ sess[h] \in {"exit", "done"}
          BY DEF BattleInv, SetUpInv
        <4>5. \A h \in Hosts : /\ sess'[h] = "paced" => Promised(h)'
                               /\ Promised(h)' => \/ sess'[h] = "paced"
                                                  \/ hostCtx' = "cancelled" /\ sess'[h] \in {"exit", "done"}
          BY <1>0, <3>1, <3>2, <3>3, <4>3, <4>4
        <4>6. opened' = <<>> /\ Len(ids') < next' /\ window' = "unset"
          BY <1>0, <2>1, <3>1 DEF Quiet
        <4>7. QED
          BY <2>2, <4>1, <4>2, <4>5, <4>6 DEF SetUpInv, BeforeHosts
      <3>7. QED
        BY <1>s, <3>3, <3>4, <3>5, <3>6 DEF BattleInv
    <2>3. CASE (next >= HostCount \/ hostCtx = "cancelled") /\ main' = "ready"
      <3>1. UNCHANGED <<sess, next, recorder, window, hostCtx, opened, ids>> /\ UNCHANGED ctx
        BY <1>2, <2>3 DEF HostLaunch
      <3>2. RolesInv' /\ CycleInv' /\ SettingUp' = SettingUp
        BY <1>2, <3>1, NobodyMoves DEF HostLaunch
      <3>3. BattleTypeOK'
        BY <1>0, <1>t, <1>w, <2>3, <3>1 DEF HostPlaces
      <3>4. PhaseInv'
        BY <1>0, <1>w, <2>1, <2>3, <3>1 DEF PhaseInv, BeforeHosts, BeforeWindow
      <3>5. SetUpInv'
        <4>1. \A h \in Hosts : Promised(h)' <=> Promised(h)
          BY <3>1 DEF Promised
        <4>2. QED
          BY <2>1, <2>3, <3>1, <3>2, <4>1 DEF BattleInv, SetUpInv, Quiet
      <3>6. QED
        BY <1>s, <3>2, <3>3, <3>4, <3>5 DEF BattleInv
    <2>4. QED
      BY <1>2, <2>2, <2>3 DEF HostLaunch
  <1>3. CASE HostAwait
    <2>1. /\ window = "unset" /\ next <= HostCount /\ Len(ids) < next /\ 0 < next
          /\ \A i \in next .. Conns - 1 : sess[i] = "idle"
          /\ \A i \in 0 .. next - 1 : sess[i] # "idle"
          /\ hostCtx = "live" => ctx = "live"
          /\ hostCtx = "cancelled" => ctx = "cancelled"
          /\ UNCHANGED <<recorder, next, window, sess, hostCtx, ctx>>
      BY <1>3 DEF HostAwait, BattleInv, PhaseInv, SetUpInv, BeforeHosts, BeforeWindow
    <2>2. \A i \in Players : sess[i] = "idle"
      BY <1>0, <2>1 DEF Players
    <2>3. RolesInv' /\ CycleInv' /\ SettingUp' = SettingUp
      BY <1>3, <2>2, NobodyMoves DEF HostAwait
    <2>4. CASE HostReported
      <3>1. PICK id \in Hosts \cup {NoBattle} : opened = <<id>>
        BY <1>0, <2>4 DEF HostReported
      <3>2. opened' = <<>> /\ ids' = (IF id = NoBattle THEN ids ELSE Append(ids, id))
            /\ main' = "hosts"
        BY <2>4, <3>1 DEF HostReported, Collect
      <3>3. /\ ids' \in Seq(Hosts) /\ Len(ids') <= next
            /\ \A h \in Hosts : Promised(h)' <=> Promised(h)
        <4>1. CASE id = NoBattle
          <5>1. \A h \in Hosts : opened # <<h>>
            BY <3>1, <4>1, RolesOfIds
          <5>2. QED
            BY <1>0, <2>1, <3>2, <4>1, <5>1 DEF Promised
        <4>2. CASE id \in Hosts
          <5>1. ids' = Append(ids, id) /\ opened = <<id>>
            BY <3>1, <3>2, <4>2, RolesOfIds
          <5>2. /\ Len(ids') = Len(ids) + 1 /\ ids'[Len(ids) + 1] = id
                /\ \A k \in 1 .. Len(ids) : ids'[k] = ids[k]
                /\ ids' \in Seq(Hosts)
            BY <1>0, <4>2, <5>1
          <5>3. \A h \in Hosts : (\E k \in 1 .. Len(ids') : ids'[k] = h) <=>
                                 (h = id \/ \E k \in 1 .. Len(ids) : ids[k] = h)
            BY <1>0, <5>2
          <5>4. \A h \in Hosts : opened = <<h>> <=> h = id
            BY <5>1
          <5>5. \A h \in Hosts : opened' # <<h>>
            BY <3>2
          <5>6. QED
            BY <1>0, <2>1, <5>2, <5>3, <5>4, <5>5 DEF Promised
        <4>3. QED
          BY <4>1, <4>2
      <3>4. BattleTypeOK'
        BY <1>0, <1>t, <1>w, <2>1, <3>2, <3>3 DEF HostPlaces
      <3>5. PhaseInv'
        BY <1>0, <1>w, <2>1, <3>2 DEF PhaseInv, BeforeHosts, BeforeWindow
      <3>6. SetUpInv'
        <4>1. SettingUp' = {}
          BY <2>3, <3>1 DEF BattleInv, SetUpInv
        <4>2. \A h \in Hosts : /\ sess[h] = "paced" => Promised(h)
                               /\ Promised(h) => \/ sess[h] = "paced"
                                                 \/ hostCtx = "cancelled" /\ sess[h] \in {"exit", "done"}
          BY DEF BattleInv, SetUpInv
        <4>3. QED
          BY <2>1, <3>2, <3>3, <4>1, <4>2 DEF SetUpInv, Quiet
      <3>7. QED
        BY <1>s, <2>3, <3>4, <3>5, <3>6 DEF BattleInv
    <2>5. CASE hostCtx = "cancelled" /\ main' = "ready" /\ UNCHANGED <<opened, ids>>
      <3>1. BattleTypeOK'
        BY <1>0, <1>t, <1>w, <2>1, <2>5 DEF HostPlaces, RunPlaces
      <3>2. PhaseInv'
        BY <1>0, <1>w, <2>1, <2>5 DEF PhaseInv, BeforeHosts, BeforeWindow
      <3>3. SetUpInv'
        <4>1. \A h \in Hosts : Promised(h)' <=> Promised(h)
          BY <2>5 DEF Promised
        <4>2. QED
          BY <2>1, <2>3, <2>5, <4>1 DEF BattleInv, SetUpInv, BeforeHosts
      <3>4. QED
        BY <1>s, <2>3, <3>1, <3>2, <3>3 DEF BattleInv
    <2>6. QED
      BY <1>3, <2>4, <2>5 DEF HostAwait
  <1>4. CASE HostsReady
    <2>1. /\ window = "unset" /\ next <= HostCount
          /\ \A i \in next .. Conns - 1 : sess[i] = "idle"
          /\ \A i \in 0 .. next - 1 : sess[i] # "idle"
          /\ hostCtx = "live" => ctx = "live" /\ next = HostCount /\ Quiet
          /\ hostCtx = "cancelled" => ctx = "cancelled"
          /\ UNCHANGED <<sess, opened, ids, ctx>>
      BY <1>4 DEF HostsReady, BattleInv, PhaseInv, SetUpInv, BeforeHosts, BeforeWindow
    <2>2. RolesInv' /\ CycleInv' /\ SettingUp' = SettingUp
      BY <1>4, <2>1, NobodyMoves DEF HostsReady
    <2>3. \A h \in Hosts : Promised(h)' <=> Promised(h)
      BY <2>1 DEF Promised
    <2>4. CASE hostCtx' = "cancelled" /\ main' = "wait" /\ UNCHANGED <<window, next>>
      <3>1. BattleTypeOK'
        BY <1>0, <1>t, <1>w, <2>1, <2>4 DEF HostPlaces, RunPlaces
      <3>2. PhaseInv'
        BY <1>0, <1>w, <2>1, <2>4 DEF PhaseInv, BeforeHosts, BeforeWindow
      <3>3. SetUpInv'
        BY <2>1, <2>2, <2>3, <2>4 DEF BattleInv, SetUpInv, BeforeHosts
      <3>4. QED
        BY <1>s, <2>2, <3>1, <3>2, <3>3 DEF BattleInv
    <2>5. CASE /\ window' = IF ctx = "live" THEN "open" ELSE "closed"
               /\ main' = "ramp" /\ next' = HostCount
               /\ UNCHANGED hostCtx
      <3>1. BattleTypeOK'
        BY <1>0, <1>t, <1>w, <2>1, <2>5 DEF HostPlaces, RunPlaces
      <3>2. PhaseInv'
        <4>1. \A i \in HostCount .. Conns - 1 : sess[i] = "idle"
          BY <1>0, <2>1
        <4>2. QED
          BY <1>0, <1>w, <2>1, <2>5, <4>1 DEF PhaseInv, BeforeHosts, BeforeWindow
      <3>3. SetUpInv'
        <4>1. ctx = "live" => \A h \in Hosts : sess[h] # "idle"
          BY <1>w, <2>1 DEF Hosts
        <4>2. window' = "open" => Quiet'
          BY <1>w, <2>1, <2>2, <2>5 DEF Quiet
        <4>3. QED
          BY <2>1, <2>2, <2>3, <2>5, <4>1, <4>2 DEF BattleInv, SetUpInv, BeforeHosts
      <3>4. QED
        BY <1>s, <2>2, <3>1, <3>2, <3>3 DEF BattleInv
    <2>6. QED
      BY <1>4, <2>4, <2>5 DEF HostsReady
  <1>5. CASE ReleaseHosts \/ BattleReturn
    <2>1. /\ UNCHANGED <<sess, opened, ids, ctx, next, window>> /\ main = "wait"
          /\ main' \in {"wait", "returned"} /\ hostCtx' = "cancelled"
          /\ window # "open" /\ (main' = "returned" => Active = {})
      BY <1>5 DEF ReleaseHosts, BattleReturn, WindowOver, AllReturned
    <2>2. RolesInv' /\ CycleInv' /\ SettingUp' = SettingUp
      BY <1>5, NobodyMoves DEF ReleaseHosts, BattleReturn
    <2>3. BattleTypeOK'
      BY <1>0, <1>t, <1>w, <2>1 DEF HostPlaces, RunPlaces
    <2>4. PhaseInv'
      BY <2>1 DEF PhaseInv, BeforeHosts, BeforeWindow, Active
    <2>5. SetUpInv'
      <3>1. \A h \in Hosts : Promised(h)' <=> Promised(h)
        BY <2>1 DEF Promised
      <3>2. QED
        BY <2>1, <2>2, <3>1 DEF BattleInv, SetUpInv, BeforeHosts
    <2>6. QED
      BY <1>s, <2>2, <2>3, <2>4, <2>5 DEF BattleInv
  <1>6. QED
    BY <1>1, <1>2, <1>3, <1>4, <1>5 DEF Hosting

(* The seeding comes before all of it. *)
LEMMA SeedsBefore ==
  ASSUME BattleInv, UNCHANGED <<runVars, battleOwn>>,
         SeedMain \/ (\E i \in Ids : Seeder(i))
  PROVE  BattleInv'
  <1> USE DEF runVars, battleOwn, setupVars, serverVars
  <1>1. SeedTypes' /\ SlotInv'
    BY SeedMainInv, SeederInv DEF BattleInv, BattleTypeOK, RunTypes
  <1>2. main \in BeforeHosts /\ main' \in BeforeHosts /\ UNCHANGED ctx
    <2>1. CASE SeedMain
      BY <2>1 DEF SeedMain, SeedCheck, SeedSpawn, SeedJoin, BeforeHosts
    <2>2. CASE \E i \in Ids : Seeder(i)
      <3>1. SlotHolders # {} /\ UNCHANGED <<main, ctx>>
        BY <2>2 DEF Seeder, SeedDial, SeedRegister, SeedLogin, SeedConfirm, SeedExit,
                    SeedRelease, SlotHolders
      <3>2. QED
        BY <3>1 DEF BattleInv, SlotInv, BeforeHosts
    <2>3. QED
      BY <2>1, <2>2
  <1>3. /\ \A i \in Ids : sess[i] = "idle" /\ sess'[i] = "idle"
        /\ opened = <<>> /\ ids = <<>> /\ battles = {} /\ inside = {} /\ window = "unset"
        /\ Hosts \subseteq Ids /\ Players \subseteq Ids
    BY <1>2, RolesOfIds DEF BattleInv, PhaseInv, At, BeforeWindow
  <1>4. BattleTypeOK'
    BY <1>1, <1>2, <1>3 DEF BattleInv, BattleTypeOK, RunTypes, HostPlaces, RunPlaces, BeforeHosts
  <1>5. PhaseInv'
    BY <1>2, <1>3 DEF BattleInv, PhaseInv, BeforeHosts, BeforeWindow, At
  <1>6. RolesInv'
    BY DEF BattleInv, RolesInv, AttemptsLeft
  <1>7. SetUpInv'
    <2>1. \A h \in Hosts : ~Promised(h)'
      BY <1>3 DEF Promised
    <2>2. SettingUp' = {}
      BY <1>3 DEF SettingUp, SetUpPlaces
    <2>3. QED
      BY <1>2, <1>3, <2>1, <2>2 DEF SetUpInv, Quiet, BeforeHosts
  <1>8. CycleInv'
    BY <1>3 DEF BattleInv, CycleInv
  <1>9. QED
    BY <1>1, <1>4, <1>5, <1>6, <1>7, <1>8 DEF BattleInv

(* The ramp starts players only, in a window that was opened. *)
LEMMA RampInv ==
  ASSUME BattleInv, UNCHANGED battleOwn, RampCheck \/ Launch
  PROVE  BattleInv'
  <1> USE DEF battleOwn, setupVars, serverVars
  <1>0. /\ HostCount \in Nat /\ Conns \in Nat /\ 0 < HostCount /\ HostCount < Conns
        /\ next \in 0 .. Conns /\ next \in Nat
        /\ Hosts \subseteq Ids /\ Players \subseteq Ids
    BY RolesOfIds DEF BattleInv, BattleTypeOK, RunTypes, SeedTypes
  <1>1. SlotInv'
    BY SlotInvKept DEF SeedingPlaces, BattleInv, RampCheck, Launch, runVars
  <1>2. ASSUME main' \in HostPlaces, next' \in 0 .. Conns, sess' \in [Ids -> SessionStates]
        PROVE  BattleTypeOK'
    BY <1>2 DEF RampCheck, Launch, BattleInv, BattleTypeOK, RunTypes, SeedTypes, recorder,
                RecorderTypeOK, lobby, LobbyTypeOK, Connected, runVars
  <1>3. \A h \in Hosts : Promised(h)' <=> Promised(h)
    BY DEF Promised
  <1>4. CASE RampCheck
    <2>1. /\ UNCHANGED <<lobby, ctx, next, sem, seeder, window, sess, attempt>>
          /\ main = "ramp" /\ main' \in {"pause", "wait"}
          /\ main' = "pause" => next < Conns /\ window = "open"
      BY <1>4 DEF RampCheck, MoreToLaunch, runVars
    <2>2. RolesInv' /\ CycleInv' /\ SettingUp' = SettingUp
      BY <2>1, NobodyMoves
    <2>3. BattleTypeOK'
      BY <1>0, <1>2, <2>1 DEF HostPlaces, RunPlaces, BattleInv, BattleTypeOK, RunTypes
    <2>4. PhaseInv'
      BY <2>1 DEF BattleInv, PhaseInv, BeforeHosts, BeforeWindow
    <2>5. SetUpInv'
      BY <1>3, <2>1, <2>2 DEF BattleInv, SetUpInv, Quiet, BeforeHosts
    <2>6. QED
      BY <1>1, <2>2, <2>3, <2>4, <2>5 DEF BattleInv
  <1>5. CASE Launch
    <2>1. /\ UNCHANGED <<lobby, ctx, sem, seeder, window, attempt>>
          /\ main = "pause" /\ main' = "ramp" /\ next' = next + 1
          /\ SessionTo(next, "dial")
      BY <1>5 DEF Launch, SessionTo
    <2>2. /\ HostCount <= next /\ next < Conns /\ sess[next] = "idle"
          /\ \A i \in next .. Conns - 1 : sess[i] = "idle"
          /\ Quiet
      BY <1>0, <2>1 DEF BattleInv, PhaseInv, SetUpInv
    <2>3. next \in Ids /\ next \notin Hosts
      BY <1>0, <2>2 DEF Ids, Hosts
    <2>4. /\ sess' \in [Ids -> SessionStates]
          /\ \A j \in Ids : sess'[j] = IF j = next THEN "dial" ELSE sess[j]
          /\ RolesInv' /\ CycleInv'
      BY <2>1, <2>2, <2>3, StartsOne
    <2>5. BattleTypeOK'
      BY <1>0, <1>2, <2>1, <2>2, <2>4 DEF HostPlaces, RunPlaces
    <2>6. PhaseInv'
      <3>1. \A i \in next' .. Conns - 1 : sess'[i] = "idle"
        BY <1>0, <2>1, <2>2, <2>4 DEF Ids
      <3>2. QED
        BY <1>0, <2>1, <2>2, <3>1 DEF BattleInv, PhaseInv, BeforeHosts, BeforeWindow
    <2>7. SetUpInv'
      <3>1. \A h \in Hosts : sess'[h] = sess[h]
        BY <1>0, <2>3, <2>4
      <3>2. SettingUp' = {}
        BY <2>2, <3>1 DEF Quiet, SettingUp
      <3>3. QED
        BY <1>3, <2>1, <2>2, <3>1, <3>2 DEF BattleInv, SetUpInv, Quiet, BeforeHosts
    <2>8. QED
      BY <1>1, <2>4, <2>5, <2>6, <2>7 DEF BattleInv
  <1>6. QED
    BY <1>4, <1>5
-----------------------------------------------------------------------------
(* The environment. *)

(* A session that ends takes the battle of a host with it, and whoever was in
   it; the players of other battles keep theirs. *)
LEMMA SessionEndsInv ==
  ASSUME BattleInv, NEW i \in Ids, SessionEnds(i)
  PROVE  BattleInv'
  <1> USE DEF setupVars
  <1>0. Hosts \subseteq Ids /\ Players \subseteq Ids
    BY RolesOfIds
  <1>1. /\ UNCHANGED <<recorder, ctx, main, next, sem, seeder, window, sess, attempt,
                       scenario, hostCtx, opened, ids, tries, seq>>
        /\ ServerLogout(i) /\ Connected(i)
        /\ battles' = battles \ {i}
        /\ inside' = {j \in inside \ {i} : BattleOf(j) # i}
    BY DEF SessionEnds, SessionLogout, ServerDrop, runVars, Connected
  <1>2. LobbyTypeOK /\ LobbyTypeOK'
    BY <1>1, LobbySteps DEF BattleInv, BattleTypeOK, RunTypes, SeedTypes
  <1>3. \A j \in Ids : Connected(j)' <=> (j # i /\ Connected(j))
    BY <1>1, <1>2 DEF ServerLogout, Connected, LobbyTypeOK
  <1>4. BattleTypeOK'
    BY <1>0, <1>1, <1>2, <1>3
    DEF BattleInv, BattleTypeOK, RunTypes, SeedTypes, recorder, RecorderTypeOK
  <1>5. SlotInv'
    BY <1>1, SlotInvKept DEF BattleInv
  <1>6. PhaseInv'
    BY <1>1 DEF BattleInv, PhaseInv, At, Active
  <1>7. RolesInv'
    BY <1>1 DEF BattleInv, RolesInv, AttemptsLeft
  <1>8. SetUpInv'
    BY <1>1 DEF BattleInv, SetUpInv, Quiet, SettingUp, Promised
  <1>9. CycleInv'
    <2>1. ASSUME NEW j \in Players, NEW k, Knows(j, k)
          PROVE  Knows(j, k)'
      <3>1. BattleOf(j)' = BattleOf(j)
        BY <1>1 DEF BattleOf
      <3>2. SUFFICES ASSUME Connected(j)', BattleOf(j) \in battles \ {i}
                     PROVE  (j \in inside <=> k # 3) /\ (j \in inside' <=> j \in inside)
        BY <1>1, <2>1, <3>1 DEF Knows
      <3>3. j # i /\ Connected(j)
        BY <1>0, <1>3, <3>2
      <3>4. QED
        BY <1>1, <2>1, <3>2, <3>3 DEF Knows
    <2>2. inside' \subseteq inside
      BY <1>1
    <2>3. QED
      BY <1>1, <2>1, <2>2 DEF BattleInv, CycleInv
  <1>10. QED
    BY <1>4, <1>5, <1>6, <1>7, <1>8, <1>9 DEF BattleInv

LEMMA BattleEnvironmentInv ==
  ASSUME BattleInv, BattleEnvironment
  PROVE  BattleInv'
  <1> USE DEF battleOwn, setupVars, serverVars
  <1>1. CASE WindowElapses /\ UNCHANGED battleOwn
    <2>1. UNCHANGED <<hists, counters, cmdErrors, account, online, ctx, main, next, sem, seeder, sess, attempt,
                      scenario, hostCtx, opened, ids, tries, battles, inside, seq>>
          /\ window = "open" /\ window' = "closed"
      BY <1>1 DEF WindowElapses, seedVars, recorder, lobby
    <2>2. RolesInv' /\ CycleInv' /\ SettingUp' = SettingUp
      BY <2>1, NobodyMoves DEF lobby
    <2>3. BattleTypeOK'
      BY <2>1 DEF BattleInv, BattleTypeOK, RunTypes, SeedTypes, RecorderTypeOK, LobbyTypeOK, Connected
    <2>4. SlotInv'
      BY <2>1, SlotInvKept DEF BattleInv
    <2>5. PhaseInv'
      BY <2>1 DEF BattleInv, PhaseInv, At, Active
    <2>6. SetUpInv'
      BY <2>1, <2>2 DEF BattleInv, SetUpInv, Quiet, Promised
    <2>7. QED
      BY <2>2, <2>3, <2>4, <2>5, <2>6 DEF BattleInv
  <1>2. CASE BattleInterrupt
    <2>1. UNCHANGED <<hists, counters, cmdErrors, account, online, main, next, sem, seeder, sess, attempt,
                      scenario, opened, ids, tries, battles, inside, seq>>
          /\ ctx' = "cancelled" /\ hostCtx' = "cancelled"
          /\ window' = IF window = "open" THEN "closed" ELSE window
      BY <1>2 DEF BattleInterrupt, Interrupt, SeedInterrupt, recorder, lobby
    <2>2. RolesInv' /\ CycleInv' /\ SettingUp' = SettingUp
      BY <2>1, NobodyMoves DEF lobby
    <2>3. BattleTypeOK'
      BY <2>1 DEF BattleInv, BattleTypeOK, RunTypes, SeedTypes, RecorderTypeOK, LobbyTypeOK, Connected
    <2>4. SlotInv'
      BY <2>1, SlotInvKept DEF BattleInv
    <2>5. PhaseInv'
      BY <2>1 DEF BattleInv, PhaseInv, At, Active
    <2>6. SetUpInv'
      BY <2>1, <2>2 DEF BattleInv, SetUpInv, Quiet, Promised
    <2>7. QED
      BY <2>2, <2>3, <2>4, <2>5, <2>6 DEF BattleInv
  <1>3. ASSUME NEW i \in Ids, SeedLogout(i), UNCHANGED <<runVars, battleOwn>>
        PROVE  BattleInv'
    <2> USE DEF runVars
    <2>0. Hosts \subseteq Ids /\ Players \subseteq Ids
      BY RolesOfIds
    <2>1. /\ UNCHANGED <<recorder, ctx, main, next, sem, seeder, window, sess, attempt>>
          /\ ServerLogout(i) /\ ~Connected(i)
      BY <1>3 DEF SeedLogout, Connected
    <2>2. LobbyTypeOK /\ LobbyTypeOK'
      BY <2>1, LobbySteps DEF BattleInv, BattleTypeOK, RunTypes, SeedTypes
    <2>3. \A j \in Ids : Connected(j)' <=> Connected(j)
      BY <2>1, <2>2 DEF ServerLogout, Connected, LobbyTypeOK
    <2>4. BattleTypeOK'
      BY <1>3, <2>0, <2>1, <2>2, <2>3
      DEF BattleInv, BattleTypeOK, RunTypes, SeedTypes, recorder, RecorderTypeOK
    <2>5. SlotInv'
      BY <2>1, SlotInvKept DEF BattleInv
    <2>6. PhaseInv'
      BY <1>3, <2>1 DEF BattleInv, PhaseInv, At, Active
    <2>7. RolesInv'
      BY <1>3, <2>1 DEF BattleInv, RolesInv, AttemptsLeft
    <2>8. SetUpInv'
      BY <1>3, <2>1 DEF BattleInv, SetUpInv, Quiet, SettingUp, Promised
    <2>9. CycleInv'
      BY <1>3, <2>0, <2>1, <2>3 DEF BattleInv, CycleInv, Knows, BattleOf
    <2>10. QED
      BY <2>4, <2>5, <2>6, <2>7, <2>8, <2>9 DEF BattleInv
  <1>4. QED
    BY <1>1, <1>2, <1>3, SessionEndsInv DEF BattleEnvironment
-----------------------------------------------------------------------------
(* The steps of BattleNext, put the way the lemmas want them. *)
LEMMA BattleSteps ==
  ASSUME [BattleNext]_battleVars
  PROVE  \/ (SeedMain \/ \E i \in Ids : Seeder(i)) /\ UNCHANGED <<runVars, battleOwn>>
         \/ (RampCheck \/ Launch) /\ UNCHANGED battleOwn
         \/ Hosting
         \/ \E h \in Hosts : \/ SetsUp(h) \/ HostReport(h) \/ HostRelease(h)
                             \/ SessionExit(h) /\ UNCHANGED battleOwn
         \/ \E i \in Players : Player(i)
         \/ BattleEnvironment
         \/ UNCHANGED battleVars
  BY DEF BattleNext, Ramp, SeedingStep, Host, SetsUp

(* The inductive invariant: whatever the hosts, the players, the server and
   Ctrl-C do, and in whatever order. *)
THEOREM BattleInvariant == BattleSpec => []BattleInv
  <1>1. BattleInit => BattleInv
    <2> SUFFICES ASSUME BattleInit PROVE BattleInv
      OBVIOUS
    <2> USE RampedAssumption DEF BattleInit, RunInit
    <2>0. /\ HostCount \in Nat /\ Hosts \subseteq Ids /\ Players \subseteq Ids
          /\ main \in {"seed", "seeded"} /\ ctx = "live" /\ window = "unset"
          /\ \A i \in Ids : sess[i] = "idle" /\ attempt[i] = 0
      BY RolesOfIds DEF RunIdle, SeedIdle
    <2>1. SeedTypes /\ SlotInv
      BY <2>0, SeedInitInv DEF RunIdle
    <2>2. RunTypes
      BY <2>0, <2>1 DEF RunIdle, RunTypes, SessionStates
    <2>3. BattleTypeOK
      BY <2>0, <2>2 DEF BattleTypeOK, HostPlaces, RunPlaces
    <2>4. PhaseInv
      BY <2>0 DEF PhaseInv, At, BeforeHosts, BeforeWindow
    <2>5. RolesInv
      BY <2>0 DEF RolesInv, AttemptsLeft
    <2>6. SetUpInv
      <3>1. SettingUp = {} /\ \A h \in Hosts : ~Promised(h)
        BY <2>0 DEF SettingUp, SetUpPlaces, Promised
      <3>2. QED
        BY <2>0, <3>1 DEF SetUpInv, Quiet
    <2>7. CycleInv
      BY <2>0 DEF CycleInv
    <2>8. QED
      BY <2>1, <2>3, <2>4, <2>5, <2>6, <2>7 DEF BattleInv
  <1>2. BattleInv /\ [BattleNext]_battleVars => BattleInv'
    <2> SUFFICES ASSUME BattleInv, [BattleNext]_battleVars PROVE BattleInv'
      OBVIOUS
    <2>1. CASE UNCHANGED battleVars
      BY <2>1
      DEF battleVars, battleOwn, setupVars, serverVars, vars, seedVars, runVars, recorder, lobby,
          BattleInv, BattleTypeOK, RunTypes, SeedTypes, RecorderTypeOK, LobbyTypeOK, Connected,
          SlotInv, SlotHolders, PhaseInv, At, Active, RolesInv, AttemptsLeft, SetUpInv, Quiet,
          SettingUp, Promised, CycleInv, Knows, BattleOf
    <2>2. QED
      BY <2>1, BattleSteps, SeedsBefore, RampInv, HostingInv, SetUpInvKept, ReportInv,
         HostLeavesInv, PlayerInv, BattleEnvironmentInv
  <1>3. QED
    BY <1>1, <1>2, PTL DEF BattleSpec

(* Type correctness, with the limits of the login attempts and of the dials. *)
THEOREM BattleTypeCorrect == BattleSpec => []BattleTypeOK
  <1>1. BattleInv => BattleTypeOK
    BY DEF BattleInv
  <1>2. QED
    BY <1>1, BattleInvariant, PTL

(* No two TLS handshakes, logins or OPENBATTLEs of the set-up ever overlap, and
   no player is there yet: also after Ctrl-C, when the main goroutine goes on
   without the last host's report. *)
THEOREM HandshakesAreAlone == BattleSpec => []HandshakeAlone
  <1>1. BattleInv => HandshakeAlone
    <2> SUFFICES ASSUME BattleInv, NEW i \in Ids, sess[i] = "tls", NEW j \in Ids \ {i}
                 PROVE  sess[j] \in {"idle", "paced", "exit", "done"}
      BY DEF HandshakeAlone, At
    <2>1. i \in SettingUp
      BY RolesOfIds DEF BattleInv, RolesInv, SettingUp, SetUpPlaces
    <2>2. CASE j \in Players
      BY <2>1, <2>2 DEF BattleInv, SetUpInv
    <2>3. CASE j \in Hosts
      <3>1. j \notin SettingUp
        BY <2>1 DEF BattleInv, SetUpInv
      <3>2. sess[j] \in SessionStates /\ sess[j] \notin SetUpPlaces /\ sess[j] # "busy"
        BY <2>3, <3>1 DEF SettingUp, BattleInv, RolesInv, BattleTypeOK, RunTypes
      <3>3. QED
        BY <3>2 DEF SessionStates, SetUpPlaces
    <2>4. QED
      BY <2>2, <2>3, RolesOfIds
  <1>2. QED
    BY <1>1, BattleInvariant, PTL

(* No host lets go of a battle the players were given before the window ends. *)
THEOREM BattlesAreHeld == BattleSpec => []HostsHold
  <1>1. BattleInv => HostsHold
    <2> SUFFICES ASSUME BattleInv, window = "open", NEW h \in Hosts
                 PROVE  \/ sess[h] = "paced" /\ \E k \in 1 .. Len(ids) : ids[k] = h
                        \/ sess[h] \in {"exit", "done"} /\ \A k \in 1 .. Len(ids) : ids[k] # h
      BY DEF HostsHold
    <2>1. hostCtx # "cancelled" /\ opened = <<>> /\ h \notin SettingUp /\ sess[h] # "idle"
      BY DEF BattleInv, PhaseInv, SetUpInv, Quiet
    <2>2. sess[h] \in SessionStates /\ sess[h] \notin SetUpPlaces /\ sess[h] # "busy"
      BY <2>1, RolesOfIds DEF SettingUp, BattleInv, RolesInv, BattleTypeOK, RunTypes
    <2>3. sess[h] \in {"paced", "exit", "done"}
      BY <2>1, <2>2 DEF SessionStates, SetUpPlaces
    <2>4. sess[h] = "paced" <=> \E k \in 1 .. Len(ids) : ids[k] = h
      BY <2>1 DEF BattleInv, SetUpInv, Promised
    <2>5. QED
      BY <2>3, <2>4
  <1>2. QED
    BY <1>1, BattleInvariant, PTL

(* A player whose host is there knows whether it is in the battle, whatever
   answers are lost and whichever other hosts and players are dropped. *)
THEOREM MembershipIsKnown == BattleSpec => []MembershipKnown
  <1>1. BattleInv => MembershipKnown
    <2> SUFFICES ASSUME BattleInv, NEW i \in Players, sess[i] = "paced", Connected(i),
                        BattleOf(i) \in battles
                 PROVE  i \in inside <=> Command(i) # "JOINBATTLE"
      BY DEF MembershipKnown
    <2>1. Knows(i, seq[i]) /\ seq \in [Players -> 0 .. 3]
      BY DEF BattleInv, CycleInv, BattleTypeOK
    <2>2. seq[i] \in {0, 1} \/ seq[i] = 2 \/ seq[i] = 3
      BY <2>1
    <2>3. Command(i) = "JOINBATTLE" <=> seq[i] = 3
      BY <2>1, <2>2, CommandOfCycle
    <2>4. QED
      BY <2>1, <2>3 DEF Knows
  <1>2. QED
    BY <1>1, BattleInvariant, PTL
-----------------------------------------------------------------------------
(* The refinement of LoadRun. *)

(* Both scenarios keep the contract Execute relies on, hosts included; that Run
   returns is left to the run. *)
THEOREM BattleKeepsLoadRun == BattleSpec => Contract!Safety
  <1>1. BattleInv /\ [BattleNext]_battleVars => [Contract!Next]_(Contract!vars)
    <2> SUFFICES ASSUME BattleInv, [BattleNext]_battleVars
                 PROVE  [Contract!Next]_(Contract!vars)
      OBVIOUS
    <2>1. CASE BattleReturn
      <3>1. SlotHolders = {}
        BY <2>1 DEF BattleReturn, BattleInv, SlotInv
      <3>2. Contract!Return
        BY <2>1, <3>1 DEF BattleReturn, AllReturned, MainElse, Contract!Return, SlotHolders,
                          Active, recorder
      <3>3. QED
        BY <3>2 DEF Contract!Next
    <2>2. CASE Hosting /\ ~BattleReturn
      <3>1. main # "returned" /\ main' # "returned"
        BY <2>2 DEF Hosting, StartHosts, HostLaunch, HostAwait, HostReported, HostsReady,
                    ReleaseHosts
      <3>2. QED
        BY <3>1, RunningIsWork
    <2>3. CASE (SeedMain /\ UNCHANGED runVars) \/ RampCheck \/ Launch
      <3>1. main # "returned" /\ main' # "returned"
        BY <2>3 DEF SeedMain, SeedCheck, SeedSpawn, SeedJoin, RampCheck, Launch
      <3>2. QED
        BY <3>1, RunningIsWork
    <2>4. CASE \E i \in Ids : Seeder(i)
      <3>1. SlotHolders # {} /\ UNCHANGED main
        BY <2>4 DEF Seeder, SeedDial, SeedRegister, SeedLogin, SeedConfirm, SeedExit,
                    SeedRelease, SlotHolders
      <3>2. main # "returned"
        BY <3>1 DEF BattleInv, SlotInv
      <3>3. QED
        BY <3>1, <3>2, RunningIsWork
    <2>5. ASSUME NEW i \in Ids, sess[i] \notin {"idle", "done"}, UNCHANGED main
          PROVE  Contract!Next
      BY <2>5, RunningIsWork DEF BattleInv, PhaseInv, Active
    <2>6. CASE \E h \in Hosts : \/ SetsUp(h) \/ HostReport(h) \/ HostRelease(h)
                                \/ SessionExit(h) /\ UNCHANGED battleOwn
      <3>1. PICK h \in Hosts : \/ SetsUp(h) \/ HostReport(h) \/ HostRelease(h)
                               \/ SessionExit(h) /\ UNCHANGED battleOwn
        BY <2>6
      <3>2. h \in Ids
        BY RolesOfIds
      <3>3. sess[h] \notin {"idle", "done"} /\ UNCHANGED main
        <4>1. CASE SetsUp(h)
          BY <4>1, SetUpSteps DEF BattleInv, NotSetUp, SetUpPlaces
        <4>2. CASE ~SetsUp(h)
          BY <3>1, <4>2 DEF HostReport, HostRelease, SessionExit, SessionElse
        <4>3. QED
          BY <4>1, <4>2
      <3>4. QED
        BY <2>5, <3>2, <3>3
    <2>7. CASE \E i \in Players : Player(i)
      <3>1. PICK i \in Players : Player(i)
        BY <2>7
      <3>2. sess[i] \notin {"idle", "done"} /\ UNCHANGED main /\ i \in Ids
        BY <3>1, PlayerSteps, RolesOfIds DEF BattleInv, NotPlayer
      <3>3. QED
        BY <2>5, <3>2
    <2>8. CASE BattleEnvironment \/ UNCHANGED battleVars
      BY <2>8, UnseenSteps
      DEF BattleEnvironment, WindowElapses, BattleInterrupt, Interrupt, SeedInterrupt,
          SeedLogout, SessionEnds, SessionLogout, ServerDrop, battleVars, vars, seedVars,
          runVars
    <2>9. QED
      BY <2>1, <2>2, <2>3, <2>4, <2>6, <2>7, <2>8, BattleSteps
  <1>2. BattleInit => Contract!Init
    BY RunInitRefines DEF BattleInit, RunInit
  <1>3. QED
    BY <1>1, <1>2, BattleInvariant, PTL DEF BattleSpec, Contract!Safety
-----------------------------------------------------------------------------
(* The books. *)

BooksInv == BattleBooks /\ OpenedInv

(* What a step of one session does to the numbers in the books. *)
LEMMA SessionCounts ==
  ASSUME sess \in [Ids -> SessionStates], NEW i \in Ids, NEW state,
         SessionTo(i, state), state # "idle"
  PROVE  /\ \A places \in {Flying, {"publish"}} :
              /\ Cardinality(At(places)) \in Nat
              /\ (sess[i] \in places <=> state \in places) => At(places)' = At(places)
              /\ sess[i] \in places /\ state \notin places =>
                   Cardinality(At(places)') = Cardinality(At(places)) - 1
              /\ sess[i] \notin places /\ state \in places =>
                   Cardinality(At(places)') = Cardinality(At(places)) + 1
         /\ Cardinality(Started) \in Nat
         /\ sess[i] # "idle" => Started' = Started
         /\ sess[i] = "idle" => Cardinality(Started') = Cardinality(Started) + 1
  <1>1. \A places \in {Flying, {"publish"}} :
          /\ Cardinality(At(places)) \in Nat
          /\ (sess[i] \in places <=> state \in places) => At(places)' = At(places)
          /\ sess[i] \in places /\ state \notin places =>
               Cardinality(At(places)') = Cardinality(At(places)) - 1
          /\ sess[i] \notin places /\ state \in places =>
               Cardinality(At(places)') = Cardinality(At(places)) + 1
    BY AtSteps
  <1>2. \A j \in Ids : sess'[j] = IF j = i THEN state ELSE sess[j]
    BY DEF SessionTo
  <1>3. IsFiniteSet(Started) /\ Cardinality(Started) \in Nat
    BY SubsetsOfIds DEF Started
  <1>4. sess[i] # "idle" => Started' = Started
    BY <1>2 DEF Started, At
  <1>5. sess[i] = "idle" => Started' = Started \cup {i} /\ i \notin Started
    BY <1>2 DEF Started, At
  <1>6. QED
    BY <1>1, <1>3, <1>4, <1>5, FS_AddElement

(* The same, for the hosts among the sessions. *)
LEMMA HostCounts ==
  ASSUME sess \in [Ids -> SessionStates], NEW i \in Ids, NEW state,
         SessionTo(i, state), NEW places
  PROVE  /\ Cardinality(HostsAt(places)) \in Nat
         /\ i \notin Hosts => HostsAt(places)' = HostsAt(places)
         /\ (sess[i] \in places <=> state \in places) => HostsAt(places)' = HostsAt(places)
         /\ i \in Hosts /\ sess[i] \in places /\ state \notin places =>
              Cardinality(HostsAt(places)') = Cardinality(HostsAt(places)) - 1
         /\ i \in Hosts /\ sess[i] \notin places /\ state \in places =>
              Cardinality(HostsAt(places)') = Cardinality(HostsAt(places)) + 1
  <1>1. HostsAt(places) \subseteq Ids /\ HostsAt(places)' \subseteq Ids
    BY DEF HostsAt, At
  <1>2. IsFiniteSet(HostsAt(places)) /\ IsFiniteSet(HostsAt(places)')
        /\ Cardinality(HostsAt(places)) \in Nat /\ Cardinality(HostsAt(places)') \in Nat
    BY <1>1, SubsetsOfIds
  <1>3. \A j \in Ids : sess'[j] = IF j = i THEN state ELSE sess[j]
    BY DEF SessionTo
  <1>4. \A j \in Ids : j \in At(places)' <=> IF j = i THEN state \in places ELSE j \in At(places)
    BY <1>3 DEF At
  <1>5. At(places) \subseteq Ids /\ At(places)' \subseteq Ids
        /\ (i \in At(places) <=> sess[i] \in places)
    BY DEF At
  <1>6. /\ i \notin Hosts => HostsAt(places)' = HostsAt(places)
        /\ (sess[i] \in places <=> state \in places) => HostsAt(places)' = HostsAt(places)
    BY <1>4, <1>5 DEF HostsAt
  <1>7. i \in Hosts /\ sess[i] \in places /\ state \notin places =>
          HostsAt(places)' = HostsAt(places) \ {i} /\ i \in HostsAt(places)
    BY <1>4, <1>5 DEF HostsAt
  <1>8. i \in Hosts /\ sess[i] \notin places /\ state \in places =>
          HostsAt(places)' = HostsAt(places) \cup {i} /\ i \notin HostsAt(places)
    BY <1>4, <1>5 DEF HostsAt
  <1>9. QED
    BY <1>2, <1>6, <1>7, <1>8, FS_AddElement, FS_RemoveElement

(* What the recorder holds are numbers. *)
LEMMA BattleNumbers ==
  ASSUME BattleInv
  PROVE  /\ RecorderTypeOK /\ sess \in [Ids -> SessionStates]
         /\ \A n \in {"dial_error", "tls_error", "login_ok", "login_error", "openbattle_ok",
                      "openbattle_error", "battles_open"} :
              n \in CounterNames /\ counters[n] \in Nat
         /\ hists["OPENBATTLE"] \in Nat /\ cmdErrors["OPENBATTLE"] \in Nat
         /\ "OPENBATTLE" \in Commands /\ Len(ids) \in Nat
  <1>1. /\ RecorderTypeOK /\ sess \in [Ids -> SessionStates] /\ Len(ids) \in Nat
    BY DEF BattleInv, BattleTypeOK, RunTypes, SeedTypes
  <1>2. "OPENBATTLE" \in Commands
    BY BattleNames
  <1>3. {"dial_error", "tls_error", "login_ok", "login_error", "openbattle_ok",
         "openbattle_error", "battles_open"} \subseteq CounterNames
    BY BattleNames
  <1>4. QED
    BY <1>1, <1>2, <1>3 DEF RecorderTypeOK

In(place, places) == IF place \in places THEN 1 ELSE 0
HostIn(i, place, places) == IF i \in Hosts /\ place \in places THEN 1 ELSE 0

Outcomes == counters["dial_error"] + counters["tls_error"] + counters["login_ok"]
              + counters["login_error"]

\* Whether a battle's id is in the channel.
Sent == IF opened \in {<<>>, <<NoBattle>>} THEN 0 ELSE 1

(* What a step of the session i counts, when it goes to the place state, for
   the books to stay balanced. *)
Balanced(i, state) ==
  /\ Outcomes' + In(state, Flying)
       = Outcomes + In(sess[i], Flying) + In(sess[i], {"idle"})
  /\ hists'["OPENBATTLE"] + HostIn(i, sess[i], {"sampled"})
        + counters["openbattle_ok"]
       = hists["OPENBATTLE"] + HostIn(i, state, {"sampled"})
           + counters'["openbattle_ok"]
  /\ cmdErrors'["OPENBATTLE"] + HostIn(i, sess[i], {"broken"})
        + counters["openbattle_error"]
       = cmdErrors["OPENBATTLE"] + HostIn(i, state, {"broken"})
           + counters'["openbattle_error"]
  /\ counters'["openbattle_ok"] + In(sess[i], {"publish"}) + Sent
       = counters["openbattle_ok"] + In(state, {"publish"}) + Sent'
  /\ window = "open" => counters'["openbattle_ok"] = counters["openbattle_ok"]
  /\ counters'["battles_open"] = counters["battles_open"]

LEMMA SessionBooks ==
  ASSUME BattleInv, BooksInv, NEW i \in Ids, NEW state, SessionTo(i, state), state # "idle",
         RecorderTypeOK', UNCHANGED <<window, scenario, ids>>,
         main' \in BeforeWindow => main \in BeforeWindow, Balanced(i, state)
  PROVE  BooksInv'
  <1>0. /\ In(sess[i], Flying) \in Nat /\ In(state, Flying) \in Nat
        /\ In(sess[i], {"idle"}) \in Nat
        /\ In(sess[i], {"publish"}) \in Nat /\ In(state, {"publish"}) \in Nat
        /\ HostIn(i, sess[i], {"sampled"}) \in Nat
        /\ HostIn(i, state, {"sampled"}) \in Nat
        /\ HostIn(i, sess[i], {"broken"}) \in Nat
        /\ HostIn(i, state, {"broken"}) \in Nat
    BY DEF In, HostIn
  <1>1. /\ Cardinality(At(Flying)') + In(sess[i], Flying)
             = Cardinality(At(Flying)) + In(state, Flying)
        /\ Cardinality(At({"publish"})') + In(sess[i], {"publish"})
             = Cardinality(At({"publish"})) + In(state, {"publish"})
        /\ Cardinality(Started') = Cardinality(Started) + In(sess[i], {"idle"})
        /\ Cardinality(At(Flying)) \in Nat /\ Cardinality(At({"publish"})) \in Nat
        /\ Cardinality(Started) \in Nat
    BY SessionCounts, BattleNumbers DEF In
  <1>2. /\ Cardinality(At(Flying)') \in Nat /\ Cardinality(At({"publish"})') \in Nat
    <2>1. At(Flying)' \subseteq Ids /\ At({"publish"})' \subseteq Ids
      BY DEF At
    <2>2. QED
      BY <2>1, SubsetsOfIds
  <1>3. \A places \in {{"sampled"}, {"broken"}} :
          /\ Cardinality(HostsAt(places)') + HostIn(i, sess[i], places)
               = Cardinality(HostsAt(places)) + HostIn(i, state, places)
          /\ Cardinality(HostsAt(places)) \in Nat
    BY HostCounts, BattleNumbers DEF HostIn
  <1>4. /\ Cardinality(HostsAt({"sampled"})') + HostIn(i, sess[i], {"sampled"})
             = Cardinality(HostsAt({"sampled"})) + HostIn(i, state, {"sampled"})
        /\ Cardinality(HostsAt({"broken"})') + HostIn(i, sess[i], {"broken"})
             = Cardinality(HostsAt({"broken"})) + HostIn(i, state, {"broken"})
        /\ Cardinality(HostsAt({"sampled"})) \in Nat /\ Cardinality(HostsAt({"broken"})) \in Nat
    BY <1>3
  <1>5. \A places \in {{"sampled"}, {"broken"}} : Cardinality(HostsAt(places)') \in Nat
    <2>1. \A places : HostsAt(places)' \subseteq Ids
      BY DEF HostsAt, At
    <2>2. QED
      BY <2>1, SubsetsOfIds
  <1>6. /\ \A n \in {"dial_error", "tls_error", "login_ok", "login_error", "openbattle_ok",
                     "openbattle_error", "battles_open"} :
              counters[n] \in Nat /\ counters'[n] \in Nat
        /\ hists["OPENBATTLE"] \in Nat /\ cmdErrors["OPENBATTLE"] \in Nat
        /\ hists'["OPENBATTLE"] \in Nat /\ cmdErrors'["OPENBATTLE"] \in Nat
        /\ Len(ids) \in Nat
    BY BattleNumbers DEF RecorderTypeOK
  <1>7. /\ counters["openbattle_ok"] \in Nat /\ counters'["openbattle_ok"] \in Nat
         /\ counters["openbattle_error"] \in Nat /\ counters'["openbattle_error"] \in Nat
    BY <1>6
  <1>8. /\ hists["OPENBATTLE"]
              = counters["openbattle_ok"] + Cardinality(HostsAt({"sampled"}))
         /\ cmdErrors["OPENBATTLE"]
              = counters["openbattle_error"] + Cardinality(HostsAt({"broken"}))
    BY DEF BooksInv, BattleBooks, OpenBooks
  <1>9. /\ Cardinality(HostsAt({"sampled"})') \in Nat
         /\ Cardinality(HostsAt({"broken"})') \in Nat
    BY <1>5
  <1>10. Outcomes \in Nat /\ Outcomes' \in Nat
    <2>1. \A a, b, c, d \in Nat : a + b + c + d \in Nat
      OBVIOUS
    <2>2. QED
      BY <1>6, <2>1 DEF Outcomes
  <1>11. BattleAccounting'
    <2>1. Cardinality(Started) = Outcomes + Cardinality(At(Flying))
      BY DEF BooksInv, BattleBooks, BattleAccounting, Outcomes
    <2>2. Cardinality(Started') = Outcomes' + Cardinality(At(Flying)')
      BY <1>0, <1>1, <1>2, <1>10, <2>1 DEF Balanced
    <2>3. QED
      BY <2>2 DEF BattleAccounting, Outcomes
  <1>12. OpenBooks'
    <2>1. OpenBooks
      BY DEF BooksInv, BattleBooks
    <2>2. hists'["OPENBATTLE"]
            = counters'["openbattle_ok"] + Cardinality(HostsAt({"sampled"})')
      <3> DEFINE row    == hists["OPENBATTLE"]
                 rowN   == hists'["OPENBATTLE"]
                 count  == counters["openbattle_ok"]
                 countN == counters'["openbattle_ok"]
                 here   == Cardinality(HostsAt({"sampled"}))
                 hereN  == Cardinality(HostsAt({"sampled"})')
                 from   == HostIn(i, sess[i], {"sampled"})
                 to     == HostIn(i, state, {"sampled"})
      <3>1. /\ row \in Nat /\ rowN \in Nat /\ count \in Nat /\ countN \in Nat
            /\ here \in Nat /\ hereN \in Nat /\ from \in Nat /\ to \in Nat
        BY <1>0, <1>4, <1>6, <1>7, <1>9
      <3>2. row = count + here /\ hereN + from = here + to
        BY <1>4, <1>8
      <3>3. rowN + from + count = row + to + countN
        BY DEF Balanced
      <3> HIDE DEF row, rowN, count, countN, here, hereN, from, to
      <3>4. rowN = countN + hereN
        BY <3>1, <3>2, <3>3
      <3>5. QED
        BY <3>4 DEF rowN, countN, hereN
    <2>5. cmdErrors'["OPENBATTLE"]
            = counters'["openbattle_error"] + Cardinality(HostsAt({"broken"})')
      <3> DEFINE row    == cmdErrors["OPENBATTLE"]
                 rowN   == cmdErrors'["OPENBATTLE"]
                 count  == counters["openbattle_error"]
                 countN == counters'["openbattle_error"]
                 here   == Cardinality(HostsAt({"broken"}))
                 hereN  == Cardinality(HostsAt({"broken"})')
                 from   == HostIn(i, sess[i], {"broken"})
                 to     == HostIn(i, state, {"broken"})
      <3>1. /\ row \in Nat /\ rowN \in Nat /\ count \in Nat /\ countN \in Nat
            /\ here \in Nat /\ hereN \in Nat /\ from \in Nat /\ to \in Nat
        BY <1>0, <1>4, <1>6, <1>7, <1>9
      <3>2. row = count + here /\ hereN + from = here + to
        BY <1>4, <1>8
      <3>3. rowN + from + count = row + to + countN
        BY DEF Balanced
      <3> HIDE DEF row, rowN, count, countN, here, hereN, from, to
      <3>4. rowN = countN + hereN
        BY <3>1, <3>2, <3>3
      <3>5. QED
        BY <3>4 DEF rowN, countN, hereN
    <2>3. window = "open" =>
            /\ Len(ids) = counters'["openbattle_ok"]
            /\ scenario = "battle-list" => counters'["battles_open"] = counters'["openbattle_ok"]
      BY <2>1 DEF Balanced, OpenBooks
    <2>4. QED
      BY <2>2, <2>3, <2>5 DEF OpenBooks
  <1>13. OpenedInv'
    <2>1. /\ counters["openbattle_ok"] = Len(ids) + Cardinality(At({"publish"})) + Sent
          /\ main \in BeforeWindow => counters["battles_open"] = 0
      BY DEF BooksInv, OpenedInv, Sent
    <2>2. Sent \in Nat /\ Sent' \in Nat
      BY DEF Sent
    <2>3. counters'["openbattle_ok"] = Len(ids) + Cardinality(At({"publish"})') + Sent'
      <3> DEFINE count  == counters["openbattle_ok"]
                 countN == counters'["openbattle_ok"]
                 list   == Len(ids)
                 here   == Cardinality(At({"publish"}))
                 hereN  == Cardinality(At({"publish"})')
                 from   == In(sess[i], {"publish"})
                 to     == In(state, {"publish"})
                 sent   == Sent
                 sentN  == Sent'
      <3>1. /\ count \in Nat /\ countN \in Nat /\ list \in Nat
            /\ here \in Nat /\ hereN \in Nat /\ from \in Nat /\ to \in Nat
            /\ sent \in Nat /\ sentN \in Nat
        BY <1>0, <1>1, <1>2, <1>6, <1>7, <2>2
      <3>2. count = list + here + sent /\ hereN + from = here + to
        BY <1>1, <2>1
      <3>3. countN + from + sent = count + to + sentN
        BY DEF Balanced
      <3> HIDE DEF count, countN, list, here, hereN, from, to, sent, sentN
      <3>4. countN = list + hereN + sentN
        BY <3>1, <3>2, <3>3
      <3>5. QED
        BY <3>4 DEF countN, list, hereN, sentN
    <2>4. QED
      BY <2>1, <2>3 DEF OpenedInv, Balanced, Sent
  <1>14. QED
    BY <1>11, <1>12, <1>13 DEF BooksInv, BattleBooks

BookNames == {"dial_error", "tls_error", "login_ok", "login_error", "openbattle_ok",
              "openbattle_error", "battles_open"}
RowsKept == /\ hists'["OPENBATTLE"] = hists["OPENBATTLE"]
            /\ cmdErrors'["OPENBATTLE"] = cmdErrors["OPENBATTLE"]
CountsNothing == RowsKept /\ \A n \in BookNames : counters'[n] = counters[n]

(* What a call of the recorder writes into the books. *)
LEMMA BookEntries ==
  ASSUME BattleInv
  PROVE  /\ UNCHANGED recorder => CountsNothing /\ RecorderTypeOK'
         /\ \A n \in CounterNames \ BookNames : Inc(n) => CountsNothing /\ RecorderTypeOK'
         /\ \A c \in Commands \ {"OPENBATTLE"} :
              Observe(c) \/ ObserveError(c) => CountsNothing /\ RecorderTypeOK'
         /\ \A n \in BookNames : Inc(n) =>
              /\ RowsKept /\ RecorderTypeOK'
              /\ counters'[n] = counters[n] + 1
              /\ \A m \in BookNames \ {n} : counters'[m] = counters[m]
  <1>1. RecorderTypeOK /\ BookNames \subseteq CounterNames
    BY BattleNumbers DEF BookNames
  <1>2. UNCHANGED recorder => CountsNothing /\ RecorderTypeOK'
    BY <1>1 DEF recorder, CountsNothing, RowsKept, RecorderTypeOK
  <1>3. ASSUME NEW n \in CounterNames, Inc(n)
        PROVE  /\ RowsKept /\ RecorderTypeOK'
               /\ counters'[n] = counters[n] + 1
               /\ \A m \in BookNames \ {n} : counters'[m] = counters[m]
    <2>1. RecorderTypeOK' /\ UNCHANGED <<hists, cmdErrors>>
          /\ counters' = [counters EXCEPT ![n] = @ + 1]
      BY <1>1, <1>3, RecorderSteps
    <2>2. QED
      BY <1>1, <2>1 DEF RowsKept, RecorderTypeOK
  <1>4. ASSUME NEW c \in Commands \ {"OPENBATTLE"}, Observe(c) \/ ObserveError(c)
        PROVE  CountsNothing /\ RecorderTypeOK'
    <2>1. RecorderTypeOK'
      BY <1>1, <1>4, RecorderSteps
    <2>2. "OPENBATTLE" \in Commands /\ hists \in [Commands -> Nat]
          /\ cmdErrors \in [Commands -> Nat]
      BY <1>1, BattleNumbers DEF RecorderTypeOK
    <2>3. RowsKept /\ counters' = counters
      BY <1>4, <2>2 DEF Observe, ObserveError, RowsKept
    <2>4. QED
      BY <2>1, <2>3 DEF CountsNothing
  <1>5. \A n \in CounterNames \ BookNames : Inc(n) => CountsNothing /\ RecorderTypeOK'
    BY <1>3 DEF CountsNothing
  <1>6. QED
    BY <1>1, <1>2, <1>3, <1>4, <1>5

(* A step between two places of which the books do not tell, and one that counts
   an outcome of a login. *)
Aside(i, state) ==
  /\ sess[i] \notin {"publish", "idle"} /\ state # "publish"
  /\ i \in Hosts => sess[i] \notin {"sampled", "broken"} /\ state \notin {"sampled", "broken"}

LEMMA OutcomesType ==
  ASSUME BattleInv
  PROVE  Outcomes \in Nat
  <1> DEFINE a == counters["dial_error"]
             b == counters["tls_error"]
             c == counters["login_ok"]
             d == counters["login_error"]
  <1>1. a \in Nat /\ b \in Nat /\ c \in Nat /\ d \in Nat
    BY BattleNumbers
  <1>2. Outcomes = a + b + c + d
    BY DEF Outcomes
  <1> HIDE DEF a, b, c, d
  <1>3. QED
    BY <1>1, <1>2

LEMMA Uncounted ==
  ASSUME BattleInv, NEW i \in Ids, NEW state, Aside(i, state), UNCHANGED opened,
         CountsNothing, sess[i] \in Flying <=> state \in Flying
  PROVE  Balanced(i, state)
  <1>1. Outcomes' = Outcomes
    BY DEF CountsNothing, BookNames, Outcomes
  <1>2. /\ In(state, Flying) = In(sess[i], Flying) /\ In(sess[i], {"idle"}) = 0
        /\ In(state, {"publish"}) = In(sess[i], {"publish"})
        /\ HostIn(i, sess[i], {"sampled"}) = HostIn(i, state, {"sampled"})
        /\ HostIn(i, sess[i], {"broken"}) = HostIn(i, state, {"broken"})
    BY DEF Aside, In, HostIn
  <1>3. Sent' = Sent
    BY DEF Sent
  <1>4. /\ counters'["openbattle_ok"] = counters["openbattle_ok"]
        /\ counters'["openbattle_error"] = counters["openbattle_error"]
        /\ counters'["battles_open"] = counters["battles_open"]
    BY DEF CountsNothing, BookNames
  <1>5. Outcomes + In(sess[i], Flying) \in Nat
    <2>1. In(sess[i], Flying) \in Nat
      BY DEF In
    <2>2. QED
      BY <2>1, OutcomesType
  <1>6. Outcomes' + In(state, Flying) = Outcomes + In(sess[i], Flying) + In(sess[i], {"idle"})
    BY <1>1, <1>2, <1>5
  <1>7. QED
    BY <1>2, <1>3, <1>4, <1>6 DEF CountsNothing, RowsKept, Balanced

LEMMA OutcomeCounted ==
  ASSUME BattleInv, NEW i \in Ids, NEW state, Aside(i, state), UNCHANGED opened,
         sess[i] \in Flying, state \notin Flying,
         NEW n \in {"dial_error", "tls_error", "login_ok", "login_error"}, Inc(n)
  PROVE  Balanced(i, state) /\ RecorderTypeOK'
  <1>1. /\ RowsKept /\ RecorderTypeOK'
        /\ counters'[n] = counters[n] + 1
        /\ \A m \in BookNames \ {n} : counters'[m] = counters[m]
    BY BookEntries DEF BookNames
  <1>2. /\ In(state, Flying) = 0 /\ In(sess[i], Flying) = 1 /\ In(sess[i], {"idle"}) = 0
        /\ In(state, {"publish"}) = In(sess[i], {"publish"})
        /\ HostIn(i, sess[i], {"sampled"}) = HostIn(i, state, {"sampled"})
        /\ HostIn(i, sess[i], {"broken"}) = HostIn(i, state, {"broken"})
    BY DEF Aside, In, HostIn
  <1>3. Sent' = Sent
    BY DEF Sent
  <1>4. /\ counters'["openbattle_ok"] = counters["openbattle_ok"]
        /\ counters'["openbattle_error"] = counters["openbattle_error"]
        /\ counters'["battles_open"] = counters["battles_open"]
    BY <1>1 DEF BookNames
  <1>5. Outcomes' = Outcomes + 1 /\ Outcomes \in Nat
    <2> DEFINE a == counters["dial_error"]
               b == counters["tls_error"]
               c == counters["login_ok"]
               d == counters["login_error"]
    <2>1. a \in Nat /\ b \in Nat /\ c \in Nat /\ d \in Nat
      BY BattleNumbers
    <2>2. \/ a' = a + 1 /\ b' = b /\ c' = c /\ d' = d
          \/ a' = a /\ b' = b + 1 /\ c' = c /\ d' = d
          \/ a' = a /\ b' = b /\ c' = c + 1 /\ d' = d
          \/ a' = a /\ b' = b /\ c' = c /\ d' = d + 1
      BY <1>1 DEF BookNames
    <2>3. Outcomes = a + b + c + d /\ Outcomes' = a' + b' + c' + d'
      BY DEF Outcomes
    <2> HIDE DEF a, b, c, d
    <2>4. QED
      BY <2>1, <2>2, <2>3
  <1>6. Outcomes' + In(state, Flying) = Outcomes + In(sess[i], Flying) + In(sess[i], {"idle"})
    BY <1>2, <1>5
  <1>7. QED
    BY <1>1, <1>2, <1>3, <1>4, <1>6 DEF RowsKept, Balanced

(* A host in its set-up: what it counts is what it leaves. *)
LEMMA SetUpBooks ==
  ASSUME BattleInv, BooksInv, NEW h \in Hosts, SetsUp(h)
  PROVE  BooksInv'
  <1>0. h \in Ids
    BY RolesOfIds
  <1>1. PICK state \in SetUpPlaces : SessionTo(h, state)
    BY SetUpSteps DEF BattleInv
  <1>2. /\ UNCHANGED <<main, window, scenario, opened, ids>>
        /\ sess[h] \in SetUpPlaces /\ RecorderTypeOK'
    BY SetUpSteps DEF BattleInv, NotSetUp
  <1>3. state # "idle" /\ sess[h] # "idle"
    BY <1>2 DEF SetUpPlaces
  <1>4. window # "open"
    BY <1>2 DEF BattleInv, SetUpInv, Quiet, SettingUp
  <1>5. sess'[h] = state
    BY <1>0, <1>1, BattleNumbers DEF SessionTo
  <1>6. ASSUME Balanced(h, state)
        PROVE  BooksInv'
    BY <1>0, <1>1, <1>2, <1>3, <1>6, SessionBooks
  <1>7. ASSUME CountsNothing, Aside(h, state), sess[h] \in Flying <=> state \in Flying
        PROVE  BooksInv'
    BY <1>0, <1>2, <1>6, <1>7, Uncounted
  <1>8. ASSUME NEW n \in {"dial_error", "tls_error", "login_ok", "login_error"}, Inc(n),
               Aside(h, state), sess[h] \in Flying, state \notin Flying
        PROVE  BooksInv'
    BY <1>0, <1>2, <1>6, <1>8, OutcomeCounted
  <1>9. /\ UNCHANGED recorder => CountsNothing
        /\ \A n \in {"host_dial_error", "tls_retry", "login_retry"} : Inc(n) => CountsNothing
        /\ Observe("LOGIN") \/ ObserveError("LOGIN") => CountsNothing
    BY BookEntries, BattleNames DEF BookNames
  <1>10. CASE HostDial(h)
    <2>1. /\ sess[h] = "dial"
          /\ \/ state = "tls" /\ UNCHANGED recorder
             \/ state = "dial" /\ Inc("host_dial_error")
             \/ state = "decline" /\ Inc("tls_error")
      BY <1>0, <1>5, <1>10, BattleNumbers DEF HostDial, TryFails, SessionTo
    <2>2. QED
      BY <1>7, <1>8, <1>9, <2>1 DEF Aside, Flying
  <1>11. CASE HostStartTLS(h)
    <2>1. /\ sess[h] = "tls"
          /\ \/ state = "opened" /\ UNCHANGED recorder
             \/ state = "dial" /\ Inc("tls_retry")
      BY <1>0, <1>5, <1>11, BattleNumbers DEF HostStartTLS, TryFails, SessionTo
    <2>2. QED
      BY <1>7, <1>9, <2>1 DEF Aside, Flying
  <1>12. CASE LoginAttempt(h)
    <2>1. /\ sess[h] = "opened" /\ state \in {"observed", "backoff", "failed"}
          /\ Observe("LOGIN") \/ ObserveError("LOGIN") \/ Inc("login_retry")
      BY <1>0, <1>5, <1>12, BattleNumbers
      DEF LoginAttempt, LoginDenied, LoginGivesUp, SessionTo
    <2>2. QED
      BY <1>7, <1>9, <2>1 DEF Aside, Flying
  <1>13. CASE LoginBackoff(h)
    <2>1. /\ sess[h] = "backoff" /\ state \in {"opened", "failed"}
          /\ UNCHANGED recorder \/ ObserveError("LOGIN")
      BY <1>0, <1>5, <1>13, BattleNumbers DEF LoginBackoff, LoginGivesUp, SessionTo
    <2>2. QED
      BY <1>7, <1>9, <2>1 DEF Aside, Flying
  <1>14. CASE HostLoginCounted(h)
    <2>1. \/ sess[h] = "observed" /\ state = "in" /\ Inc("login_ok")
          \/ sess[h] = "failed" /\ state = "decline" /\ Inc("login_error")
      BY <1>0, <1>5, <1>14, BattleNumbers DEF HostLoginCounted, SessionTo
    <2>2. QED
      BY <1>8, <2>1 DEF Aside, Flying
  <1>15. CASE OpenBattle(h)
    <2>1. /\ sess[h] = "in"
          /\ \/ state = "sampled" /\ Observe("OPENBATTLE")
             \/ state = "broken" /\ ObserveError("OPENBATTLE")
      BY <1>0, <1>5, <1>15, BattleNumbers DEF OpenBattle, OpFails, SessionTo
    <2>2. /\ counters' = counters
          /\ \/ /\ hists'["OPENBATTLE"] = hists["OPENBATTLE"] + 1
                /\ cmdErrors' = cmdErrors /\ state = "sampled"
             \/ /\ cmdErrors'["OPENBATTLE"] = cmdErrors["OPENBATTLE"] + 1
                /\ hists' = hists /\ state = "broken"
      BY <2>1, BattleNumbers DEF Observe, ObserveError, RecorderTypeOK
    <2>3. /\ In(state, Flying) = 0 /\ In(sess[h], Flying) = 0 /\ In(sess[h], {"idle"}) = 0
          /\ In(sess[h], {"publish"}) = 0 /\ In(state, {"publish"}) = 0
          /\ HostIn(h, sess[h], {"sampled"}) = 0 /\ HostIn(h, sess[h], {"broken"}) = 0
          /\ Outcomes' = Outcomes /\ Sent' = Sent
      BY <1>2, <2>1, <2>2 DEF In, HostIn, Flying, Outcomes, Sent
    <2>4. \/ /\ HostIn(h, state, {"sampled"}) = 1 /\ HostIn(h, state, {"broken"}) = 0
             /\ hists'["OPENBATTLE"] = hists["OPENBATTLE"] + 1 /\ cmdErrors' = cmdErrors
          \/ /\ HostIn(h, state, {"sampled"}) = 0 /\ HostIn(h, state, {"broken"}) = 1
             /\ hists' = hists /\ cmdErrors'["OPENBATTLE"] = cmdErrors["OPENBATTLE"] + 1
      BY <2>2 DEF HostIn
    <2>5. Balanced(h, state)
      <3> DEFINE hist == hists["OPENBATTLE"]             histN == hists'["OPENBATTLE"]
                 errs == cmdErrors["OPENBATTLE"]         errsN == cmdErrors'["OPENBATTLE"]
                 ok   == counters["openbattle_ok"]       okN   == counters'["openbattle_ok"]
                 bad  == counters["openbattle_error"]    badN  == counters'["openbattle_error"]
      <3>1. hist \in Nat /\ errs \in Nat /\ ok \in Nat /\ bad \in Nat
        BY BattleNumbers
      <3>2. /\ okN = ok /\ badN = bad
            /\ HostIn(h, sess[h], {"sampled"}) = 0 /\ HostIn(h, sess[h], {"broken"}) = 0
            /\ In(sess[h], {"publish"}) = 0 /\ In(state, {"publish"}) = 0
            /\ \/ /\ HostIn(h, state, {"sampled"}) = 1 /\ HostIn(h, state, {"broken"}) = 0
                  /\ histN = hist + 1 /\ errsN = errs
               \/ /\ HostIn(h, state, {"sampled"}) = 0 /\ HostIn(h, state, {"broken"}) = 1
                  /\ histN = hist /\ errsN = errs + 1
        BY <2>2, <2>3, <2>4
      <3> HIDE DEF hist, histN, errs, errsN, ok, okN, bad, badN
      <3>3. /\ histN + HostIn(h, sess[h], {"sampled"}) + ok
                 = hist + HostIn(h, state, {"sampled"}) + okN
            /\ errsN + HostIn(h, sess[h], {"broken"}) + bad
                 = errs + HostIn(h, state, {"broken"}) + badN
        BY <3>1, <3>2
      <3>4. okN + In(sess[h], {"publish"}) = ok + In(state, {"publish"})
        BY <3>1, <3>2
      <3>5. okN + In(sess[h], {"publish"}) + Sent = ok + In(state, {"publish"}) + Sent'
        BY <2>3, <3>4
      <3>6. Outcomes' + In(state, Flying) = Outcomes + In(sess[h], Flying) + In(sess[h], {"idle"})
        BY <2>3, OutcomesType
      <3>7. QED
        BY <1>4, <2>2, <3>3, <3>5, <3>6 DEF Balanced, hist, histN, errs, errsN, ok, okN, bad, badN
    <2>6. QED
      BY <1>6, <2>5
  <1>16. CASE OpenCounted(h)
    <2>1. \/ sess[h] = "sampled" /\ state = "publish" /\ Inc("openbattle_ok")
          \/ sess[h] = "broken" /\ state = "decline" /\ Inc("openbattle_error")
      BY <1>0, <1>5, <1>16, BattleNumbers DEF OpenCounted, SessionTo
    <2>2. RowsKept /\ Outcomes' = Outcomes
          /\ counters'["battles_open"] = counters["battles_open"]
      BY <2>1, BookEntries DEF BookNames, Outcomes
    <2>3. \/ /\ sess[h] = "sampled" /\ state = "publish"
             /\ counters'["openbattle_ok"] = counters["openbattle_ok"] + 1
             /\ counters'["openbattle_error"] = counters["openbattle_error"]
          \/ /\ sess[h] = "broken" /\ state = "decline"
             /\ counters'["openbattle_ok"] = counters["openbattle_ok"]
             /\ counters'["openbattle_error"] = counters["openbattle_error"] + 1
      BY <2>1, BookEntries DEF BookNames
    <2>4. /\ In(state, Flying) = 0 /\ In(sess[h], Flying) = 0 /\ In(sess[h], {"idle"}) = 0
          /\ In(sess[h], {"publish"}) = 0
          /\ HostIn(h, state, {"sampled"}) = 0 /\ HostIn(h, state, {"broken"}) = 0
          /\ Sent' = Sent
      BY <1>2, <2>3 DEF In, HostIn, Flying, Sent
    <2>5. \/ /\ HostIn(h, sess[h], {"sampled"}) = 1 /\ HostIn(h, sess[h], {"broken"}) = 0
             /\ In(state, {"publish"}) = 1
             /\ counters'["openbattle_ok"] = counters["openbattle_ok"] + 1
             /\ counters'["openbattle_error"] = counters["openbattle_error"]
          \/ /\ HostIn(h, sess[h], {"sampled"}) = 0 /\ HostIn(h, sess[h], {"broken"}) = 1
             /\ In(state, {"publish"}) = 0
             /\ counters'["openbattle_ok"] = counters["openbattle_ok"]
             /\ counters'["openbattle_error"] = counters["openbattle_error"] + 1
      BY <2>3 DEF In, HostIn
    <2>6. Balanced(h, state)
      <3> DEFINE hist == hists["OPENBATTLE"]             histN == hists'["OPENBATTLE"]
                 errs == cmdErrors["OPENBATTLE"]         errsN == cmdErrors'["OPENBATTLE"]
                 ok   == counters["openbattle_ok"]       okN   == counters'["openbattle_ok"]
                 bad  == counters["openbattle_error"]    badN  == counters'["openbattle_error"]
      <3>1. hist \in Nat /\ errs \in Nat /\ ok \in Nat /\ bad \in Nat
        BY BattleNumbers
      <3>2. /\ histN = hist /\ errsN = errs
            /\ HostIn(h, state, {"sampled"}) = 0 /\ HostIn(h, state, {"broken"}) = 0
            /\ In(sess[h], {"publish"}) = 0
            /\ \/ /\ HostIn(h, sess[h], {"sampled"}) = 1 /\ HostIn(h, sess[h], {"broken"}) = 0
                  /\ In(state, {"publish"}) = 1 /\ okN = ok + 1 /\ badN = bad
               \/ /\ HostIn(h, sess[h], {"sampled"}) = 0 /\ HostIn(h, sess[h], {"broken"}) = 1
                  /\ In(state, {"publish"}) = 0 /\ okN = ok /\ badN = bad + 1
        BY <2>2, <2>4, <2>5 DEF RowsKept
      <3> HIDE DEF hist, histN, errs, errsN, ok, okN, bad, badN
      <3>3. /\ histN + HostIn(h, sess[h], {"sampled"}) + ok
                 = hist + HostIn(h, state, {"sampled"}) + okN
            /\ errsN + HostIn(h, sess[h], {"broken"}) + bad
                 = errs + HostIn(h, state, {"broken"}) + badN
        BY <3>1, <3>2
      <3>4. okN + In(sess[h], {"publish"}) = ok + In(state, {"publish"})
        BY <3>1, <3>2
      <3>5. okN + In(sess[h], {"publish"}) + Sent = ok + In(state, {"publish"}) + Sent'
        BY <2>4, <2>5, <3>4
      <3>6. Outcomes' + In(state, Flying) = Outcomes + In(sess[h], Flying) + In(sess[h], {"idle"})
        BY <2>2, <2>4, OutcomesType
      <3>7. QED
        BY <1>4, <2>2, <3>3, <3>5, <3>6 DEF Balanced, hist, histN, errs, errsN, ok, okN, bad, badN
    <2>7. QED
      BY <1>6, <2>6
  <1>17. QED
    BY <1>10, <1>11, <1>12, <1>13, <1>14, <1>15, <1>16 DEF SetsUp

(* Its report: the battle leaves the host's hands for the channel. *)
LEMMA ReportBooks ==
  ASSUME BattleInv, BooksInv, NEW h \in Hosts, HostReport(h)
  PROVE  BooksInv'
  <1>0. h \in Ids /\ h # NoBattle
    BY RolesOfIds
  <1>1. opened = <<>>
    BY DEF HostReport, BattleInv, BattleTypeOK
  <1>2. \E state \in {"paced", "exit"} :
          /\ SessionTo(h, state)
          /\ \/ sess[h] = "publish" /\ state = "paced" /\ opened' = <<h>>
             \/ sess[h] = "decline" /\ state = "exit" /\ opened' = <<NoBattle>>
    BY <1>1 DEF HostReport
  <1>3. PICK state \in {"paced", "exit"} :
          /\ SessionTo(h, state)
          /\ \/ sess[h] = "publish" /\ state = "paced" /\ opened' = <<h>>
             \/ sess[h] = "decline" /\ state = "exit" /\ opened' = <<NoBattle>>
    BY <1>2
  <1>4. UNCHANGED <<recorder, main, window, scenario, ids>>
    BY DEF HostReport, SessionElse
  <1>5. CountsNothing /\ RecorderTypeOK'
    BY <1>4, BookEntries
  <1>6. /\ In(state, Flying) = 0 /\ In(sess[h], Flying) = 0 /\ In(sess[h], {"idle"}) = 0
        /\ HostIn(h, sess[h], {"sampled"}) = 0 /\ HostIn(h, sess[h], {"broken"}) = 0
        /\ HostIn(h, state, {"sampled"}) = 0 /\ HostIn(h, state, {"broken"}) = 0
        /\ In(state, {"publish"}) = 0 /\ Sent = 0
    BY <1>1, <1>3 DEF In, HostIn, Flying, Sent
  <1>7. In(sess[h], {"publish"}) = Sent' /\ Sent' \in Nat
    <2>1. CASE sess[h] = "publish" /\ opened' = <<h>>
      <3>1. opened' \notin {<<>>, <<NoBattle>>}
        BY <1>0, <2>1
      <3>2. QED
        BY <2>1, <3>1 DEF In, Sent
    <2>2. CASE sess[h] = "decline" /\ opened' = <<NoBattle>>
      BY <2>2 DEF In, Sent
    <2>3. QED
      BY <1>3, <2>1, <2>2
  <1>8. Balanced(h, state)
    <2>1. Outcomes' = Outcomes /\ Outcomes \in Nat
      BY <1>5, OutcomesType DEF CountsNothing, BookNames, Outcomes
    <2>2. /\ counters'["openbattle_ok"] = counters["openbattle_ok"]
          /\ counters'["openbattle_error"] = counters["openbattle_error"]
          /\ counters'["battles_open"] = counters["battles_open"]
          /\ RowsKept
      BY <1>5 DEF CountsNothing, BookNames
    <2>3. counters["openbattle_ok"] + Sent' + 0 = counters["openbattle_ok"] + 0 + Sent'
      <3>1. \A a, b \in Nat : a + b + 0 = a + 0 + b
        OBVIOUS
      <3>2. QED
        BY <1>7, <3>1, BattleNumbers
    <2>4. QED
      BY <1>6, <1>7, <2>1, <2>2, <2>3 DEF Balanced, RowsKept
  <1>9. QED
    BY <1>0, <1>3, <1>4, <1>5, <1>8, SessionBooks

(* The end of a host counts nothing. *)
LEMMA HostLeavesBooks ==
  ASSUME BattleInv, BooksInv, NEW h \in Hosts,
         HostRelease(h) \/ (SessionExit(h) /\ UNCHANGED battleOwn)
  PROVE  BooksInv'
  <1>0. h \in Ids
    BY RolesOfIds
  <1>1. /\ UNCHANGED <<recorder, main, window, scenario, ids, opened>>
        /\ sess[h] \in {"paced", "exit"}
        /\ \E state \in {"exit", "done"} : SessionTo(h, state)
    BY DEF HostRelease, SessionExit, SessionElse, battleOwn, setupVars
  <1>2. PICK state \in {"exit", "done"} : SessionTo(h, state)
    BY <1>1
  <1>3. CountsNothing /\ RecorderTypeOK'
    BY <1>1, BookEntries
  <1>4. Aside(h, state) /\ (sess[h] \in Flying <=> state \in Flying)
    BY <1>1 DEF Aside, Flying
  <1>5. Balanced(h, state)
    BY <1>0, <1>1, <1>3, <1>4, Uncounted
  <1>6. QED
    BY <1>0, <1>1, <1>2, <1>3, <1>5, SessionBooks

(* A session that is started is on its way. *)
LEMMA StartBooks ==
  ASSUME BattleInv, BooksInv, NEW i \in Ids, sess[i] = "idle", SessionTo(i, "dial"),
         UNCHANGED <<recorder, window, scenario, ids, opened>>,
         main' \in BeforeWindow => main \in BeforeWindow
  PROVE  BooksInv'
  <1>1. CountsNothing /\ RecorderTypeOK'
    BY BookEntries
  <1>2. /\ In("dial", Flying) = 1 /\ In(sess[i], Flying) = 0 /\ In(sess[i], {"idle"}) = 1
        /\ HostIn(i, sess[i], {"sampled"}) = 0 /\ HostIn(i, sess[i], {"broken"}) = 0
        /\ HostIn(i, "dial", {"sampled"}) = 0 /\ HostIn(i, "dial", {"broken"}) = 0
        /\ In(sess[i], {"publish"}) = 0 /\ In("dial", {"publish"}) = 0
    BY DEF In, HostIn, Flying
  <1>3. Outcomes' = Outcomes /\ Outcomes \in Nat
    BY <1>1, OutcomesType DEF CountsNothing, BookNames, Outcomes
  <1>4. Outcomes' + In("dial", Flying) = Outcomes + In(sess[i], Flying) + In(sess[i], {"idle"})
    BY <1>2, <1>3
  <1>5. /\ counters'["openbattle_ok"] = counters["openbattle_ok"]
        /\ counters'["openbattle_error"] = counters["openbattle_error"]
        /\ counters'["battles_open"] = counters["battles_open"]
        /\ RowsKept /\ Sent' = Sent
    BY <1>1 DEF CountsNothing, BookNames, Sent
  <1>6. Balanced(i, "dial")
    BY <1>2, <1>4, <1>5 DEF Balanced, RowsKept
  <1>7. QED
    BY <1>1, <1>6, SessionBooks

(* A player counts its login, and nothing else that the books tell of. *)
LEMMA PlayerBooks ==
  ASSUME BattleInv, BooksInv, NEW i \in Players, Player(i)
  PROVE  BooksInv'
  <1>0. i \in Ids /\ i \notin Hosts
    BY RolesOfIds
  <1>1. PICK state \in SessionStates \ {"idle", "dial", "tls", "publish", "decline"} :
          SessionTo(i, state)
    BY PlayerSteps DEF BattleInv
  <1>2. /\ UNCHANGED <<main, window, scenario, opened, ids>> /\ RecorderTypeOK'
        /\ sess[i] # "idle"
    BY PlayerSteps DEF BattleInv, NotPlayer
  <1>3. Aside(i, state)
    BY <1>0, <1>2 DEF BattleInv, RolesInv, Aside
  <1>4. sess'[i] = state
    BY <1>0, <1>1, BattleNumbers DEF SessionTo
  <1>5. ASSUME CountsNothing, sess[i] \in Flying <=> state \in Flying
        PROVE  BooksInv'
    BY <1>0, <1>1, <1>2, <1>3, <1>5, Uncounted, SessionBooks
  <1>6. ASSUME NEW n \in {"dial_error", "tls_error", "login_ok", "login_error"}, Inc(n),
               sess[i] \in Flying, state \notin Flying
        PROVE  BooksInv'
    <2>1. Balanced(i, state)
      BY <1>0, <1>2, <1>3, <1>6, OutcomeCounted
    <2>2. QED
      BY <1>0, <1>1, <1>2, <2>1, SessionBooks
  <1>7. /\ UNCHANGED recorder => CountsNothing
        /\ Inc("login_retry") => CountsNothing
        /\ Observe("LOGIN") \/ ObserveError("LOGIN") => CountsNothing
    BY BookEntries, BattleNames DEF BookNames
  <1>8. CASE SessionDial(i)
    <2>1. /\ sess[i] = "dial"
          /\ \/ state = "opened" /\ UNCHANGED recorder
             \/ state = "done" /\ Inc("dial_error")
      BY <1>0, <1>4, <1>8, BattleNumbers DEF SessionDial, SessionTo
    <2>2. QED
      BY <1>5, <1>6, <1>7, <2>1 DEF Flying
  <1>9. CASE LoginAttempt(i)
    <2>1. /\ sess[i] = "opened" /\ state \in {"observed", "backoff", "failed"}
          /\ Observe("LOGIN") \/ ObserveError("LOGIN") \/ Inc("login_retry")
      BY <1>0, <1>4, <1>9, BattleNumbers
      DEF LoginAttempt, LoginDenied, LoginGivesUp, SessionTo
    <2>2. QED
      BY <1>5, <1>7, <2>1 DEF Flying
  <1>10. CASE LoginBackoff(i)
    <2>1. /\ sess[i] = "backoff" /\ state \in {"opened", "failed"}
          /\ UNCHANGED recorder \/ ObserveError("LOGIN")
      BY <1>0, <1>4, <1>10, BattleNumbers DEF LoginBackoff, LoginGivesUp, SessionTo
    <2>2. QED
      BY <1>5, <1>7, <2>1 DEF Flying
  <1>11. CASE LoginCounted(i)
    <2>1. \/ sess[i] = "observed" /\ state = "in" /\ Inc("login_ok")
          \/ sess[i] = "failed" /\ state = "exit" /\ Inc("login_error")
      BY <1>0, <1>4, <1>11, BattleNumbers DEF LoginCounted, SessionTo
    <2>2. QED
      BY <1>6, <2>1 DEF Flying
  <1>12. CASE SessionExit(i) \/ JoinFirst(i) \/ OpTick(i) \/ PlayerDone(i)
    <2>1. /\ sess[i] \in {"exit", "in", "paced"} /\ state \in {"done", "busy", "exit"}
          /\ UNCHANGED recorder
      BY <1>0, <1>4, <1>12, BattleNumbers
      DEF SessionExit, JoinFirst, OpTick, PlayerDone, SeesWindowClosed, SessionTo
    <2>2. QED
      BY <1>5, <1>7, <2>1 DEF Flying
  <1>13. Command(i) \in BattleCommands
    BY CommandOfCycle DEF BattleInv, BattleTypeOK
  <1>14. CASE Op(i)
    <2>1. /\ sess[i] = "busy" /\ state \in {"sampled", "broken"}
          /\ Observe(Command(i)) \/ ObserveError(Command(i))
      BY <1>0, <1>4, <1>14, BattleNumbers DEF Op, OpFails, SessionTo
    <2>2. Command(i) \in Commands \ {"OPENBATTLE"}
      BY <1>13, BattleNames
    <2>3. CountsNothing
      BY <2>1, <2>2, BookEntries
    <2>4. QED
      BY <1>5, <2>1, <2>3 DEF Flying
  <1>15. CASE OpCounted(i)
    <2>1. /\ sess[i] \in {"sampled", "broken"} /\ state \in {"paced", "exit"}
          /\ Inc(OkCounter[Command(i)]) \/ Inc(ErrorCounter[Command(i)])
      BY <1>0, <1>4, <1>15, BattleNumbers DEF OpCounted, SessionTo
    <2>2. /\ OkCounter[Command(i)] \in CounterNames \ BookNames
          /\ ErrorCounter[Command(i)] \in CounterNames \ BookNames
      BY <1>13, BattleNames DEF BookNames
    <2>3. CountsNothing
      BY <2>1, <2>2, BookEntries
    <2>4. QED
      BY <1>5, <2>1, <2>3 DEF Flying
  <1>16. QED
    BY <1>8, <1>9, <1>10, <1>11, <1>12, <1>14, <1>15 DEF Player, Login

(* The main goroutine. *)
LEMMA BooksStay ==
  ASSUME BattleInv, BooksInv, UNCHANGED <<sess, scenario, ids, opened>>, CountsNothing,
         window' = "open" => window = "open",
         main' \in BeforeWindow => main \in BeforeWindow
  PROVE  BooksInv'
  <1>1. \A places : At(places)' = At(places)
    BY DEF At
  <1>2. \A places : HostsAt(places)' = HostsAt(places)
    BY <1>1 DEF HostsAt
  <1>3. Started' = Started
    BY <1>1 DEF Started
  <1>4. /\ counters'["dial_error"] = counters["dial_error"]
        /\ counters'["tls_error"] = counters["tls_error"]
        /\ counters'["login_ok"] = counters["login_ok"]
        /\ counters'["login_error"] = counters["login_error"]
        /\ counters'["openbattle_ok"] = counters["openbattle_ok"]
        /\ counters'["openbattle_error"] = counters["openbattle_error"]
        /\ counters'["battles_open"] = counters["battles_open"]
    BY DEF CountsNothing, BookNames
  <1>5. BattleAccounting'
    BY <1>1, <1>3, <1>4 DEF BooksInv, BattleBooks, BattleAccounting
  <1>6. OpenBooks'
    BY <1>2, <1>4 DEF BooksInv, BattleBooks, OpenBooks, CountsNothing, RowsKept
  <1>7. OpenedInv'
    BY <1>1, <1>4 DEF BooksInv, OpenedInv
  <1>8. QED
    BY <1>5, <1>6, <1>7 DEF BooksInv, BattleBooks

LEMMA HostingBooks ==
  ASSUME BattleInv, BooksInv, Hosting
  PROVE  BooksInv'
  <1> USE DEF MainElse
  <1>0. UNCHANGED recorder => CountsNothing
    BY BookEntries
  <1>1. CASE StartHosts \/ ReleaseHosts \/ BattleReturn
    <2>1. /\ UNCHANGED <<recorder, sess, scenario, ids, opened, window>>
          /\ main' \in BeforeWindow => main \in BeforeWindow
      BY <1>1 DEF StartHosts, ReleaseHosts, BattleReturn, BeforeWindow, BeforeHosts
    <2>2. QED
      BY <1>0, <2>1, BooksStay
  <1>2. CASE HostLaunch
    <2>1. /\ UNCHANGED <<recorder, scenario, ids, opened, window>>
          /\ main \in BeforeWindow
      BY <1>2 DEF HostLaunch, BeforeWindow
    <2>2. CASE next < HostCount /\ SessionTo(next, "dial")
      <3>1. next \in Ids
        BY <2>2, RolesOfIds DEF BattleInv, BattleTypeOK, RunTypes, SeedTypes, Ids
      <3>2. sess[next] = "idle"
        BY <1>2, <3>1 DEF HostLaunch, BattleInv, PhaseInv, Ids
      <3>3. QED
        BY <2>1, <2>2, <3>1, <3>2, StartBooks
    <2>3. CASE UNCHANGED sess
      BY <1>0, <2>1, <2>3, BooksStay
    <2>4. QED
      BY <1>2, <2>2, <2>3 DEF HostLaunch
  <1>3. CASE HostAwait
    <2>1. UNCHANGED <<recorder, sess, scenario, window>> /\ main = "await"
      BY <1>3 DEF HostAwait
    <2>2. window = "unset"
      BY <2>1 DEF BattleInv, PhaseInv, BeforeWindow
    <2>3. CASE UNCHANGED <<ids, opened>>
      BY <1>0, <2>1, <2>3, BooksStay DEF BeforeWindow
    <2>4. CASE HostReported
      <3>1. PICK id \in Hosts \cup {NoBattle} : opened = <<id>>
        BY <2>4 DEF HostReported, BattleInv, BattleTypeOK
      <3>2. opened' = <<>> /\ ids' = (IF id = NoBattle THEN ids ELSE Append(ids, id))
        BY <2>4, <3>1 DEF HostReported, Collect
      <3>3. Len(ids) + Sent \in Nat /\ Len(ids') + Sent' = Len(ids) + Sent
        <4>1. ids \in Seq(Hosts) /\ Len(ids) \in Nat
          BY DEF BattleInv, BattleTypeOK
        <4>2. Sent' = 0
          BY <3>2 DEF Sent
        <4>3. CASE id = NoBattle
          <5>1. Sent = 0 /\ ids' = ids
            BY <3>1, <3>2, <4>3 DEF Sent
          <5>2. QED
            BY <4>1, <4>2, <5>1
        <4>4. CASE id \in Hosts
          <5>1. id # NoBattle
            BY <4>4, RolesOfIds
          <5>2. opened \notin {<<>>, <<NoBattle>>}
            BY <3>1, <5>1
          <5>3. Sent = 1 /\ Len(ids') = Len(ids) + 1
            BY <3>2, <4>1, <4>4, <5>1, <5>2 DEF Sent
          <5>4. QED
            BY <4>1, <4>2, <5>3
        <4>5. QED
          BY <4>3, <4>4
      <3>4. \A places : At(places)' = At(places)
        BY <2>1 DEF At
      <3>5. /\ \A places : HostsAt(places)' = HostsAt(places)
            /\ Started' = Started
        BY <3>4 DEF HostsAt, Started
      <3>6. UNCHANGED <<hists, counters, cmdErrors>>
        BY <2>1 DEF recorder
      <3>7. BattleAccounting' /\ OpenBooks'
        BY <2>1, <2>2, <3>4, <3>5, <3>6
        DEF BooksInv, BattleBooks, BattleAccounting, OpenBooks
      <3>8. OpenedInv'
        <4>1. Cardinality(At({"publish"})) \in Nat
          <5>1. At({"publish"}) \subseteq Ids
            BY DEF At
          <5>2. QED
            BY <5>1, SubsetsOfIds
        <4>2. counters["openbattle_ok"] = Len(ids) + Cardinality(At({"publish"})) + Sent
              /\ counters["battles_open"] = 0
          BY <2>1 DEF BooksInv, OpenedInv, Sent, BeforeWindow
        <4>3. Len(ids) \in Nat /\ Len(ids') \in Nat /\ Sent \in Nat /\ Sent' \in Nat
          BY <3>2, HostingInv DEF BattleInv, BattleTypeOK, Sent
        <4>4. Len(ids') + Cardinality(At({"publish"})) + Sent'
                = Len(ids) + Cardinality(At({"publish"})) + Sent
          BY <3>3, <4>1, <4>3
        <4>5. QED
          BY <3>4, <3>6, <4>2, <4>4 DEF OpenedInv, Sent
      <3>9. QED
        BY <3>7, <3>8 DEF BooksInv, BattleBooks
    <2>5. QED
      BY <1>3, <2>3, <2>4 DEF HostAwait
  <1>4. CASE HostsReady
    <2>1. /\ UNCHANGED <<sess, scenario, ids, opened>> /\ main = "ready"
          /\ main' \in {"wait", "ramp"}
      BY <1>4 DEF HostsReady
    <2>2. CASE UNCHANGED <<recorder, window>>
      BY <1>0, <2>1, <2>2, BooksStay DEF BeforeWindow
    <2>3. CASE /\ IF scenario = "battle-list" THEN Add("battles_open", BattlesOpen)
                                              ELSE UNCHANGED recorder
               /\ window' = IF ctx = "live" THEN "open" ELSE "closed"
               /\ main' = "ramp" /\ UNCHANGED hostCtx
      <3>1. /\ RowsKept
            /\ counters'["battles_open"]
                 = IF scenario = "battle-list" THEN counters["battles_open"] + Len(ids)
                                               ELSE counters["battles_open"]
            /\ \A n \in BookNames \ {"battles_open"} : counters'[n] = counters[n]
        <4>1. RecorderTypeOK /\ BookNames \subseteq CounterNames
          BY BattleNumbers DEF BookNames
        <4>2. CASE scenario = "battle-list"
          BY <2>3, <4>1, <4>2
          DEF Add, RecorderTypeOK, RowsKept, BattlesOpen, BookNames
        <4>3. CASE scenario # "battle-list"
          BY <2>3, <4>3 DEF recorder, RowsKept
        <4>4. QED
          BY <4>2, <4>3
      <3>2. /\ counters["battles_open"] = 0
            /\ counters["openbattle_ok"] = Len(ids) + Cardinality(At({"publish"})) + Sent
        BY <2>1 DEF BooksInv, OpenedInv, Sent, BeforeWindow
      <3>3. window' = "open" => counters["openbattle_ok"] = Len(ids)
        <4>1. SUFFICES ASSUME window' = "open"
                       PROVE  counters["openbattle_ok"] = Len(ids)
          OBVIOUS
        <4>2. BattleInv'
          BY HostingInv
        <4>3. Quiet'
          BY <4>1, <4>2 DEF BattleInv, SetUpInv
        <4>4. opened = <<>> /\ \A h \in Hosts : sess[h] # "publish"
          BY <2>1, <4>3 DEF Quiet, SettingUp, SetUpPlaces
        <4>5. At({"publish"}) = {}
          BY <4>4, RolesOfIds DEF At, BattleInv, RolesInv
        <4>6. Sent = 0 /\ Cardinality(At({"publish"})) = 0
          BY <4>4, <4>5, FS_EmptySet DEF Sent
        <4>7. QED
          BY <3>2, <4>6, BattleNumbers
      <3>4. \A places : At(places)' = At(places)
        BY <2>1 DEF At
      <3>5. /\ \A places : HostsAt(places)' = HostsAt(places)
            /\ Started' = Started
        BY <3>4 DEF HostsAt, Started
      <3>6. /\ counters'["dial_error"] = counters["dial_error"]
            /\ counters'["tls_error"] = counters["tls_error"]
            /\ counters'["login_ok"] = counters["login_ok"]
            /\ counters'["login_error"] = counters["login_error"]
            /\ counters'["openbattle_ok"] = counters["openbattle_ok"]
            /\ counters'["openbattle_error"] = counters["openbattle_error"]
        BY <3>1 DEF BookNames
      <3>7. BattleAccounting'
        BY <3>4, <3>5, <3>6 DEF BooksInv, BattleBooks, BattleAccounting
      <3>8. scenario = "battle-list" => counters'["battles_open"] = Len(ids)
        BY <3>1, <3>2, BattleNumbers
      <3>9. OpenBooks'
        BY <2>1, <3>1, <3>3, <3>5, <3>6, <3>8
        DEF BooksInv, BattleBooks, OpenBooks, RowsKept
      <3>10. OpenedInv'
        BY <2>1, <2>3, <3>4, <3>6
        DEF BooksInv, OpenedInv, BeforeWindow, BeforeHosts
      <3>11. QED
        BY <3>7, <3>9, <3>10 DEF BooksInv, BattleBooks
    <2>4. QED
      BY <1>4, <2>2, <2>3 DEF HostsReady
  <1>5. QED
    BY <1>1, <1>2, <1>3, <1>4 DEF Hosting

(* The seeding keeps counters of its own. *)
LEMMA SeedsBooks ==
  ASSUME BattleInv, BooksInv, UNCHANGED <<runVars, battleOwn>>,
         SeedMain \/ (\E i \in Ids : Seeder(i))
  PROVE  BooksInv'
  <1> USE DEF runVars, battleOwn, setupVars
  <1>1. CASE SeedMain
    <2>1. UNCHANGED recorder /\ main \in BeforeWindow
      BY <1>1 DEF SeedMain, SeedCheck, SeedSpawn, SeedJoin, BeforeWindow, BeforeHosts
    <2>2. CountsNothing
      BY <2>1, BookEntries
    <2>3. QED
      BY <2>1, <2>2, BooksStay
  <1>2. CASE \E i \in Ids : Seeder(i)
    <2>1. PICK i \in Ids : Seeder(i)
      BY <1>2
    <2>2. UNCHANGED main
      BY <2>1 DEF Seeder, SeedDial, SeedRegister, SeedLogin, SeedConfirm, SeedExit, SeedRelease
    <2>3. UNCHANGED recorder \/ \E n \in SeedCounters : Inc(n)
      BY <2>1 DEF Seeder, SeedDial, SeedRegister, SeedLogin, SeedConfirm, SeedExit,
                  SeedRelease, SeedReturn, SeedCounters
    <2>4. SeedCounters \subseteq CounterNames \ BookNames
      <3>1. BookNames \cap SeedCounters = {}
        BY BattleNames DEF BookNames
      <3>2. QED
        BY <3>1, SeedingAssumption
    <2>5. CountsNothing
      BY <2>3, <2>4, BookEntries
    <2>6. QED
      BY <2>2, <2>5, BooksStay
  <1>3. QED
    BY <1>1, <1>2

(* The ramp starts a player; the environment counts nothing. *)
LEMMA RampBooks ==
  ASSUME BattleInv, BooksInv, UNCHANGED battleOwn, RampCheck \/ Launch
  PROVE  BooksInv'
  <1> USE DEF runVars, battleOwn, setupVars
  <1>1. UNCHANGED <<recorder, window>> /\ main' \notin BeforeWindow
    BY DEF RampCheck, Launch, BeforeWindow, BeforeHosts
  <1>2. CASE RampCheck
    <2>1. CountsNothing /\ UNCHANGED sess
      BY <1>1, <1>2, BookEntries DEF RampCheck
    <2>2. QED
      BY <1>1, <2>1, BooksStay
  <1>3. CASE Launch
    <2>1. next < Conns /\ next \in Nat /\ main = "pause"
      BY <1>3 DEF Launch, BattleInv, PhaseInv, BattleTypeOK, RunTypes, SeedTypes
    <2>2. next \in Ids /\ sess[next] = "idle"
      BY <2>1, ConnsAssumption DEF BattleInv, PhaseInv, Ids
    <2>3. SessionTo(next, "dial")
      BY <1>3 DEF Launch, SessionTo
    <2>4. QED
      BY <1>1, <2>2, <2>3, StartBooks
  <1>4. QED
    BY <1>2, <1>3

LEMMA BattleEnvironmentBooks ==
  ASSUME BattleInv, BooksInv, BattleEnvironment
  PROVE  BooksInv'
  <1> USE DEF runVars, battleOwn, setupVars
  <1>1. /\ UNCHANGED <<recorder, sess, scenario, ids, opened, main>>
        /\ window' = "open" => window = "open"
    BY DEF BattleEnvironment, WindowElapses, BattleInterrupt, Interrupt, SeedInterrupt,
           SeedLogout, SessionEnds, SessionLogout, ServerDrop, seedVars
  <1>2. CountsNothing
    BY <1>1, BookEntries
  <1>3. QED
    BY <1>1, <1>2, BooksStay

(* The report of battle and battle-list adds up at every moment of the run, and
   the players are told of exactly the battles that were opened. *)
THEOREM BattleBooksBalance == BattleSpec => []BattleBooks
  <1>1. BattleInit => BooksInv
    <2> SUFFICES ASSUME BattleInit PROVE BooksInv
      OBVIOUS
    <2>1. /\ \A i \in Ids : sess[i] = "idle"
          /\ window = "unset" /\ opened = <<>> /\ ids = <<>>
      BY DEF BattleInit, RunInit, RunIdle
    <2>2. /\ Started = {} /\ \A places \in {Flying, {"publish"}, {"sampled"}, {"broken"}} :
                               At(places) = {}
      BY <2>1 DEF Started, At, Flying
    <2>3. HostsAt({"sampled"}) = {} /\ HostsAt({"broken"}) = {}
      BY <2>2 DEF HostsAt
    <2>4. BookNames \subseteq CounterNames /\ "OPENBATTLE" \in Commands
      BY BattleNames DEF BookNames
    <2>5. /\ \A n \in BookNames : counters[n] = 0
          /\ hists["OPENBATTLE"] = 0 /\ cmdErrors["OPENBATTLE"] = 0
      BY <2>4 DEF BattleInit, RunInit, RunIdle, SeedIdle, NewRecorder
    <2>6. Cardinality({}) = 0 /\ Len(ids) = 0
      BY <2>1, FS_EmptySet
    <2>7. /\ counters["dial_error"] = 0 /\ counters["tls_error"] = 0
          /\ counters["login_ok"] = 0 /\ counters["login_error"] = 0
          /\ counters["openbattle_ok"] = 0 /\ counters["openbattle_error"] = 0
          /\ counters["battles_open"] = 0
      BY <2>5 DEF BookNames
    <2>8. /\ Cardinality(Started) = 0 /\ Cardinality(At(Flying)) = 0
           /\ Cardinality(At({"publish"})) = 0
           /\ Cardinality(HostsAt({"sampled"})) = 0 /\ Cardinality(HostsAt({"broken"})) = 0
      BY <2>2, <2>3, <2>6
    <2>9. BattleAccounting
      BY <2>7, <2>8 DEF BattleAccounting
    <2>10. OpenBooks /\ OpenedInv
      BY <2>1, <2>5, <2>6, <2>7, <2>8 DEF OpenBooks, OpenedInv
    <2>11. QED
      BY <2>9, <2>10 DEF BooksInv, BattleBooks
  <1>2. BattleInv /\ BooksInv /\ [BattleNext]_battleVars => BooksInv'
    <2> SUFFICES ASSUME BattleInv, BooksInv, [BattleNext]_battleVars PROVE BooksInv'
      OBVIOUS
    <2>1. CASE UNCHANGED battleVars
      <3>1. UNCHANGED <<recorder, main, window, sess, scenario, ids, opened>>
        BY <2>1 DEF battleVars, battleOwn, setupVars, vars, seedVars, runVars
      <3>2. CountsNothing
        BY <3>1, BookEntries
      <3>3. QED
        BY <3>1, <3>2, BooksStay
    <2>2. QED
      BY <2>1, BattleSteps, SeedsBooks, RampBooks, HostingBooks, SetUpBooks, ReportBooks,
         HostLeavesBooks, PlayerBooks, BattleEnvironmentBooks
  <1>3. BooksInv => BattleBooks
    BY DEF BooksInv
  <1>4. QED
    BY <1>1, <1>2, <1>3, BattleInvariant, PTL DEF BattleSpec
=============================================================================
