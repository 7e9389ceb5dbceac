--------------------------- MODULE ScenarioProofs ---------------------------
(***************************************************************************)
(* Theorems about login-storm, register-storm, chat and social, for every  *)
(* number of connections, of login attempts and of commands: what their    *)
(* sessions do, on top of the lemmas of RampedRunProofs.  (They are in one *)
(* module for the lemmas they share; no scenario uses another's actions.)  *)
(***************************************************************************)
EXTENDS LoginStorm, RegisterStorm, Chat, Social, RampedRunProofs

Working == LoggedIn \cup {"broken"}

(* A step of a session that works keeps what RampedRun's invariant says. *)
LEMMA WorkInv ==
  ASSUME Inv, NEW i \in Ids, NEW state \in Working \cup {"exit"},
         sess[i] \in Working, SessionTo(i, state), RecorderTypeOK', ChatElse
  PROVE  Inv'
  <1>1. /\ attempt' \in [Ids -> 0 .. MaxAttempts]
        /\ \A j \in Ids \ {i} : attempt'[j] = attempt[j]
        /\ LobbyTypeOK' /\ UNCHANGED NotSession
    BY DEF ChatElse, lobby, LobbyTypeOK, NotSession, Inv, TypeOK, RunTypes, SeedTypes
  <1>2. QED
    BY <1>1, SessionMoves DEF Working, LoggedIn, SessionStates

(* A step of a session is Work of the contract, or not seen at all. *)
LEMMA SessionsRefine ==
  ASSUME Inv, NEW i \in Ids,
         \/ Login(i) \/ SessionExit(i)
         \/ sess[i] \in Working /\ UNCHANGED main
  PROVE  Contract!Next
  <1>1. i \in Active /\ UNCHANGED main
    BY DEF Working, LoggedIn, Login, SessionDial, LoginAttempt, LoginBackoff, LoginCounted,
                        SessionExit, Active
  <1>2. QED
    BY <1>1, ActiveIsWork

(* The steps that are no session's leave the commands' rows alone and count
   seeds only; the one session they may move is one that is started. *)
LEMMA SharedRecords ==
  ASSUME Inv, Shared
  PROVE  /\ UNCHANGED <<hists, cmdErrors>>
         /\ \A n \in CounterNames \ SeedCounters : counters'[n] = counters[n]
         /\ \/ UNCHANGED sess
            \/ next \in Ids /\ sess[next] = "idle" /\ SessionTo(next, "dial")
  <1> USE DEF SeedCounters, recorder, runVars, seedVars
  <1>1. CASE \E i \in Ids : SeedingStep(i)
    BY <1>1 DEF SeedingStep, Seeder, SeedDial, SeedRegister, SeedLogin, SeedConfirm, SeedExit,
                SeedRelease, SeedReturn, Inc, Add, Inv, TypeOK, RunTypes, SeedTypes,
                RecorderTypeOK
  <1>2. CASE Launch
    BY <1>2, ConnsAssumption
    DEF Launch, SessionTo, Inv, RunInv, TypeOK, RunTypes, SeedTypes, Ids
  <1>3. CASE RunMain /\ ~Launch
    BY <1>3 DEF RunMain, SeedMain, SeedCheck, SeedSpawn, SeedJoin, StartWindow, RampCheck,
                RunReturn
  <1>4. CASE Environment
    BY <1>4 DEF Environment, WindowElapses, Interrupt, SeedInterrupt, SeedLogout,
                SessionLogout, ServerDrop
  <1>5. QED
    BY <1>1, <1>2, <1>3, <1>4 DEF Shared
-----------------------------------------------------------------------------
(* Login-storm. *)

(* Hold is the scenario's own step. *)
LEMMA HoldInv ==
  ASSUME Inv, Books, NEW i \in Ids, Hold(i)
  PROVE  Inv' /\ Books'
  <1>1. sess[i] = "in" /\ SessionTo(i, "exit")
        /\ UNCHANGED <<seedVars, window, attempt>>
    BY DEF Hold
  <1>2. RecorderTypeOK' /\ LobbyTypeOK' /\ attempt' \in [Ids -> 0 .. MaxAttempts]
    BY <1>1 DEF Inv, TypeOK, RunTypes, RunPlaces, SeedTypes, seedVars, recorder, RecorderTypeOK, lobby, LobbyTypeOK
  <1>3. Inv'
    BY <1>1, <1>2, SessionMoves DEF NotSession, SessionStates, seedVars
  <1>4. InFlight' = InFlight /\ At({"observed"})' = At({"observed"})
        /\ At({"failed"})' = At({"failed"})
    BY <1>1, AtSteps DEF InFlight, Inv, TypeOK, RunTypes, RunPlaces
  <1>5. Books'
    BY <1>1, <1>4 DEF Books, SessionAccounting, RowMatchesCounters, seedVars, recorder
  <1>6. QED
    BY <1>3, <1>5

(* The inductive invariant of the scenario. *)
THEOREM Invariant == Spec => [](Inv /\ Books)
  <1>1. RunInit => Inv /\ Books
    BY RunInitInv, BooksInit DEF RunInit
  <1>2. Inv /\ Books /\ [Next]_vars => (Inv /\ Books)'
    <2> SUFFICES ASSUME Inv, Books, [Next]_vars PROVE Inv' /\ Books'
      OBVIOUS
    <2>1. CASE RunMain
      BY <2>1, RunMainInv, RunMainBooks
    <2>2. CASE \E i \in Ids : SeedingStep(i)
      BY <2>2, SeedingInv, SeedingBooks DEF SeedingStep
    <2>3. CASE \E i \in Ids : Login(i) \/ SessionExit(i)
      BY <2>3, LoginInv, LoginBooks
    <2>4. CASE \E i \in Ids : Hold(i)
      BY <2>4, HoldInv
    <2>5. CASE Environment
      BY <2>5, EnvironmentInv, EnvironmentBooks
    <2>6. CASE UNCHANGED vars
      BY <2>6, InvUnchanged, BooksKept DEF vars, seedVars, runVars, recorder
    <2>7. QED
      BY <2>1, <2>2, <2>3, <2>4, <2>5, <2>6 DEF Next, Shared, Session
  <1>3. QED
    BY <1>1, <1>2, PTL DEF Spec

(* Type correctness, with the limit of the login attempts. *)
THEOREM TypeCorrect == Spec => []TypeOK
  <1>1. Inv => TypeOK
    BY InvImplies
  <1>2. QED
    BY <1>1, Invariant, PTL

(* The seed phase is over before the first session of the timed phase starts,
   for every interleaving and whenever Ctrl-C comes. *)
THEOREM PhasesSeparate == Spec => []SeedBeforeLoad
  <1>1. Inv => SeedBeforeLoad
    BY InvImplies
  <1>2. QED
    BY <1>1, Invariant, PTL

(* No session is lost or counted twice, and the LOGIN row of the report agrees
   with the counters. *)
THEOREM BooksBalance == Spec => []Books
  <1>1. QED
    BY Invariant, PTL

(* What there is to come after the window has closed with n sessions started:
   one more, if the main goroutine stands in the ramp's sleep. *)
Late(n) ==
  /\ window = "closed" /\ main \in {"ramp", "pause", "wait", "returned"}
  /\ next <= n \/ (next = n + 1 /\ main # "pause")

LEMMA LateStep ==
  ASSUME Inv, NEW n \in Nat, Late(n), [Next]_vars
  PROVE  Late(n)'
  <1>1. next \in Nat
    BY ConnsAssumption DEF Inv, TypeOK, RunTypes, SeedTypes
  <1>2. CASE RunMain
    BY <1>1, <1>2 DEF RunMain, SeedMain, SeedCheck, SeedSpawn, SeedJoin, StartWindow, RampCheck,
                MoreToLaunch, Launch, RunReturn, Late, runVars
  <1>3. CASE UNCHANGED <<main, next, window>>
    BY <1>3 DEF Late
  <1>4. CASE Environment
    BY <1>3, <1>4 DEF Environment, WindowElapses, Interrupt, SeedInterrupt, SeedLogout,
                      SessionLogout, ServerDrop, runVars, seedVars, Late
  <1>5. CASE \E i \in Ids : SeedingStep(i)
    BY <1>3, <1>5 DEF SeedingStep, Seeder, SeedDial, SeedRegister, SeedLogin, SeedConfirm,
                      SeedExit, SeedRelease, runVars
  <1>6. CASE \E i \in Ids : Session(i)
    BY <1>3, <1>6 DEF Session, Login, SessionDial, LoginAttempt, LoginBackoff, LoginCounted,
                      SessionExit, Hold, seedVars
  <1>7. CASE UNCHANGED vars
    BY <1>3, <1>7 DEF vars, seedVars, runVars
  <1>8. QED
    BY <1>2, <1>4, <1>5, <1>6, <1>7 DEF Next, Shared

(* The stale check lets one session start late and no more, for any number of
   sessions that are still to come. *)
THEOREM OneLateSession == Spec => AtMostOneLate
  <1>1. SUFFICES ASSUME NEW n \in 0 .. Conns
                 PROVE  Spec => [](window = "closed" /\ next = n => [](next <= n + 1))
    BY DEF AtMostOneLate
  <1>2. n \in Nat
    BY ConnsAssumption
  <1>3. Inv /\ window = "closed" /\ next = n => Late(n)
    BY <1>2 DEF Inv, RunInv, TypeOK, RunTypes, RunPlaces, Late
  <1>4. Inv /\ Late(n) /\ [Next]_vars => Late(n)'
    BY <1>2, LateStep
  <1>5. Inv /\ Late(n) => next <= n + 1
    BY <1>2, ConnsAssumption DEF Late, Inv, TypeOK, RunTypes, SeedTypes
  <1>6. QED
    BY <1>3, <1>4, <1>5, Invariant, PTL DEF Spec
(* The refinement of LoadRun. *)

(* Login-storm keeps the contract Execute relies on, for every interleaving of
   seeders, sessions, server, deadline and Ctrl-C: nothing is recorded and
   nothing runs once Run has returned. (That it returns is left to the run.) *)
THEOREM KeepsLoadRun == Spec => Contract!Safety
  <1>1. Inv /\ [Next]_vars => [Contract!Next]_(Contract!vars)
    <2> SUFFICES ASSUME Inv, [Next]_vars
                 PROVE  [Contract!Next]_(Contract!vars)
      OBVIOUS
    <2>1. CASE Shared
      BY <2>1, SharedRefines
    <2>2. CASE \E i \in Ids : Session(i)
      <3>1. PICK i \in Ids : Session(i)
        BY <2>2
      <3>2. i \in Active /\ UNCHANGED main
        BY <3>1 DEF Session, Login, SessionDial, LoginAttempt, LoginBackoff, LoginCounted,
                    Hold, SessionExit, Active, seedVars
      <3>3. QED
        BY <3>2, ActiveIsWork
    <2>3. CASE UNCHANGED vars
      BY <2>3, UnseenSteps DEF vars, seedVars, runVars
    <2>4. QED
      BY <2>1, <2>2, <2>3 DEF Next
  <1>2. RunInit => Contract!Init
    BY RunInitRefines DEF RunInit
  <1>3. QED
    BY <1>1, <1>2, Invariant, PTL DEF Spec, Contract!Safety
-----------------------------------------------------------------------------
(* Register-storm. *)

(* How the steps that are no session's go with the window and the ramp. *)
LEMMA SharedStarts ==
  ASSUME Inv, Shared
  PROVE  \/ window = "unset" /\ window' = "unset" /\ UNCHANGED sess
         \/ window = "unset" /\ window' # "unset" /\ UNCHANGED sess /\ next' = 0
         \/ window # "unset" /\ window' # "unset" /\ UNCHANGED <<sess, next>>
         \/ window # "unset" /\ Launch
  <1> USE DEF runVars, seedVars
  <1>1. CASE \E i \in Ids : SeedingStep(i)
    BY <1>1 DEF SeedingStep, Seeder, SeedDial, SeedRegister, SeedLogin, SeedConfirm, SeedExit,
                SeedRelease
  <1>2. CASE RunMain
    BY <1>2 DEF RunMain, SeedMain, SeedCheck, SeedSpawn, SeedJoin, StartWindow, RampCheck,
                RunReturn, Launch, Inv, RunInv
  <1>3. CASE Environment
    BY <1>3 DEF Environment, WindowElapses, Interrupt, SeedInterrupt, SeedLogout,
                SessionLogout, ServerDrop
  <1>4. QED
    BY <1>1, <1>2, <1>3 DEF Shared

\* The books of register-storm, with what they are before the window is opened.
RegisterBooks ==
  /\ RegisterAccounting
  /\ window = "unset" =>
       \A n \in {"dial_error", "register_ok", "register_error"} : counters[n] = 0

RegisterInv == Inv /\ RegisterBooks

LEMMA RegisterTypes ==
  ASSUME Inv
  PROVE  /\ RecorderTypeOK /\ LobbyTypeOK /\ sess \in [Ids -> SessionStates]
         /\ attempt \in [Ids -> 0 .. MaxAttempts]
         /\ \A n \in {"dial_error", "register_ok", "register_error"} :
              n \in CounterNames \ SeedCounters /\ counters[n] \in Nat
         /\ "REGISTER" \in Commands
         /\ hists["REGISTER"] \in Nat /\ cmdErrors["REGISTER"] \in Nat
  BY RampedAssumption, RegisterStormAssumption
  DEF Inv, TypeOK, RunTypes, SeedTypes, RecorderTypeOK, SessionCounters, RegisterCounters,
      SeedCounters

(* A session of register-storm moves as a login would. *)
LEMMA RegistrantInv ==
  ASSUME Inv, NEW i \in Ids, Registrant(i)
  PROVE  Inv' /\ i \in Active /\ UNCHANGED <<main, next, window>>
  <1> USE RegisterTypes
  <1>1. CASE SessionDial(i) \/ SessionExit(i)
    BY <1>1, LoginInv DEF Login, SessionDial, SessionExit, Active
  <1>2. CASE RegisterAttempt(i)
    <2>1. LobbyTypeOK'
      BY <1>2 DEF RegisterAttempt, LobbyTypeOK, AccountStates
    <2>2. RecorderTypeOK'
      BY <1>2, RecorderSteps DEF RegisterAttempt, RegisterReply
    <2>3. PICK state \in {"observed", "failed"} : SessionTo(i, state)
      BY <1>2 DEF RegisterAttempt, RegisterReply
    <2>4. QED
      BY <1>2, <2>1, <2>2, <2>3, SessionMoves
      DEF RegisterAttempt, NotSession, SessionStates, Active
  <1>3. CASE RegisterCounted(i)
    <2>1. RecorderTypeOK' /\ LobbyTypeOK'
      BY <1>3, RecorderSteps DEF RegisterCounted, LobbyTypeOK, lobby
    <2>2. PICK state \in {"in", "exit"} : SessionTo(i, state)
      BY <1>3 DEF RegisterCounted
    <2>3. QED
      BY <1>3, <2>1, <2>2, SessionMoves DEF RegisterCounted, NotSession, SessionStates, Active
  <1>4. CASE RegisterHold(i)
    <2>1. RecorderTypeOK' /\ LobbyTypeOK'
      BY <1>4 DEF RegisterHold, seedVars, recorder, RecorderTypeOK, lobby, LobbyTypeOK
    <2>2. QED
      BY <1>4, <2>1, SessionMoves
      DEF RegisterHold, SeesWindowClosed, NotSession, SessionStates, Active, seedVars
  <1>5. QED
    BY <1>1, <1>2, <1>3, <1>4 DEF Registrant

(* It moves between the places of the books as its outcomes are recorded. *)
LEMMA RegistrantBooks ==
  ASSUME RegisterInv, NEW i \in Ids, Registrant(i)
  PROVE  RegisterBooks'
  <1> DEFINE flying == {"dial", "opened", "backoff", "observed", "failed"}
  <1>1. window # "unset" /\ next \in Nat
    BY RegistrantInv, ConnsAssumption
    DEF RegisterInv, Inv, RunInv, TypeOK, RunTypes, SeedTypes, Active
  <1>2. ASSUME NEW state, SessionTo(i, state)
        PROVE  \A places \in {flying, {"observed"}, {"failed"}} :
                 /\ Cardinality(At(places)) \in Nat
                 /\ (sess[i] \in places <=> state \in places) => At(places)' = At(places)
                 /\ sess[i] \in places /\ state \notin places =>
                      Cardinality(At(places)') = Cardinality(At(places)) - 1
                 /\ sess[i] \notin places /\ state \in places =>
                      Cardinality(At(places)') = Cardinality(At(places)) + 1
    BY <1>2, AtSteps, RegisterTypes DEF RegisterInv
  <1>3. UNCHANGED <<next, window>>
    BY RegistrantInv DEF RegisterInv
  <1> USE <1>1, <1>2, <1>3, RegisterTypes
      DEF RegisterInv, RegisterBooks, RegisterAccounting, InFlight, RecorderTypeOK, Inc, Add,
          Observe, ObserveError
  <1>4. CASE SessionDial(i)
    BY <1>4 DEF SessionDial, recorder
  <1>5. CASE RegisterAttempt(i)
    BY <1>5 DEF RegisterAttempt, RegisterReply
  <1>6. CASE RegisterCounted(i)
    BY <1>6 DEF RegisterCounted
  <1>7. CASE RegisterHold(i) \/ SessionExit(i)
    BY <1>7 DEF RegisterHold, SeesWindowClosed, SessionExit, seedVars, recorder
  <1>8. QED
    BY <1>4, <1>5, <1>6, <1>7 DEF Registrant

(* The other steps record nothing of it; a session that is started is in
   flight. *)
LEMMA SharedRegisterBooks ==
  ASSUME RegisterInv, Shared
  PROVE  RegisterBooks'
  <1> USE RegisterTypes
      DEF RegisterInv, RegisterBooks, RegisterAccounting
  <1>1. /\ UNCHANGED <<hists, cmdErrors>>
        /\ \A n \in {"dial_error", "register_ok", "register_error"} :
             counters'[n] = counters[n]
    BY SharedRecords
  <1>2. CASE UNCHANGED sess /\ (UNCHANGED next \/ window' = "unset")
             /\ (window = "unset" <=> window' = "unset")
    BY <1>1, <1>2 DEF InFlight, At
  <1>3. CASE window = "unset" /\ window' # "unset" /\ UNCHANGED sess /\ next' = 0
    <2>1. InFlight' = {}
      BY <1>3 DEF Inv, RunInv, InFlight, At
    <2>2. Cardinality(InFlight') = 0
      BY <2>1, FS_EmptySet
    <2>3. QED
      BY <1>1, <1>3, <2>2 DEF At
  <1>4. CASE window # "unset" /\ Launch
    <2>1. next \in Ids /\ sess[next] = "idle" /\ next \in Nat
      BY <1>4, ConnsAssumption DEF Launch, Inv, TypeOK, RunTypes, SeedTypes, RunInv, Ids
    <2>2. SessionTo(next, "dial")
      BY <1>4 DEF Launch, SessionTo
    <2>3. /\ Cardinality(InFlight') = Cardinality(InFlight) + 1
          /\ Cardinality(InFlight) \in Nat
          /\ At({"observed"})' = At({"observed"}) /\ At({"failed"})' = At({"failed"})
      BY <2>1, <2>2, AtSteps DEF InFlight
    <2>4. next' = next + 1
      BY <1>4 DEF Launch
    <2>5. window' = window
      BY <1>4 DEF Launch
    <2>6. QED
      BY <1>1, <1>4, <2>1, <2>3, <2>4, <2>5
  <1>5. QED
    BY <1>2, <1>3, <1>4, SharedStarts

(* The inductive invariant of the scenario. *)
THEOREM RegisterInvariant == RegisterSpec => []RegisterInv
  <1>1. RegisterInit => RegisterInv
    <2> SUFFICES ASSUME RegisterInit PROVE RegisterInv
      OBVIOUS
    <2>1. Inv /\ \A places : "idle" \notin places => At(places) = {}
      BY RunInitInv DEF RegisterInit, RunIdle, At
    <2>2. Cardinality(At({"observed"})) = 0 /\ Cardinality(At({"failed"})) = 0
      BY <2>1, FS_EmptySet
    <2>3. QED
      BY <2>1, <2>2, RegisterTypes
      DEF RegisterInit, RunIdle, SeedIdle, NewRecorder, RegisterInv, RegisterBooks,
          RegisterAccounting
  <1>2. RegisterInv /\ [RegisterNext]_vars => RegisterInv'
    <2> SUFFICES ASSUME RegisterInv, [RegisterNext]_vars PROVE Inv' /\ RegisterBooks'
      BY DEF RegisterInv
    <2>1. CASE Shared
      BY <2>1, SharedRegisterBooks, RunMainInv, SeedingInv, EnvironmentInv
      DEF Shared, SeedingStep, RegisterInv
    <2>2. CASE \E i \in Ids : Registrant(i)
      BY <2>2, RegistrantInv, RegistrantBooks DEF RegisterInv
    <2>3. CASE UNCHANGED vars
      BY <2>3, InvUnchanged
      DEF vars, seedVars, runVars, recorder, RegisterInv, RegisterBooks, RegisterAccounting,
          InFlight, At
    <2>4. QED
      BY <2>1, <2>2, <2>3 DEF RegisterNext
  <1>3. QED
    BY <1>1, <1>2, PTL DEF RegisterSpec

(* No registration is lost or counted twice, and the REGISTER row agrees with
   the counters. *)
THEOREM RegisterBooksBalance == RegisterSpec => []RegisterAccounting
  <1>1. RegisterInv => RegisterAccounting
    BY DEF RegisterInv, RegisterBooks
  <1>2. QED
    BY <1>1, RegisterInvariant, PTL

(* A latency that is recorded is that of an account the server has just created,
   whatever names were taken and whatever replies are lost. *)
THEOREM OnlyCreationsMeasured == RegisterSpec => MeasuredAreCreated
  <1> DEFINE Created == \E i \in Ids : account[i] = "absent" /\ account'[i] # "absent"
             Measured == hists'["REGISTER"] > hists["REGISTER"]
  <1>1. RegisterInv /\ [RegisterNext]_vars => [Measured => Created]_vars
    <2> SUFFICES ASSUME RegisterInv, [RegisterNext]_vars, Measured
                 PROVE  Created
      BY DEF vars
    <2>1. hists' # hists
      BY RegisterTypes DEF RegisterInv
    <2>2. PICK i \in Ids : Registrant(i)
      BY <2>1, SharedRecords DEF RegisterNext, RegisterInv, vars, seedVars, recorder
    <2>3. RegisterAttempt(i)
      BY <2>1, <2>2 DEF Registrant, SessionDial, RegisterCounted, RegisterHold, SessionExit,
                        Inc, Add, seedVars, recorder
    <2>4. account[i] = "absent" /\ account' = [account EXCEPT ![i] = "unconfirmed"]
      BY <2>1, <2>3 DEF RegisterAttempt, RegisterReply, ObserveError
    <2>5. QED
      BY <2>4, RegisterTypes DEF RegisterInv, LobbyTypeOK
  <1>2. QED
    BY <1>1, RegisterInvariant, PTL DEF RegisterSpec, MeasuredAreCreated

(* Register-storm keeps the contract Execute relies on; that Run returns is left
   to the run. *)
THEOREM RegisterKeepsLoadRun == RegisterSpec => Contract!Safety
  <1>1. RegisterInv /\ [RegisterNext]_vars => [Contract!Next]_(Contract!vars)
    <2> SUFFICES ASSUME RegisterInv, [RegisterNext]_vars
                 PROVE  [Contract!Next]_(Contract!vars)
      OBVIOUS
    <2>1. CASE Shared
      BY <2>1, SharedRefines DEF RegisterInv
    <2>2. CASE \E i \in Ids : Registrant(i)
      BY <2>2, RegistrantInv, ActiveIsWork DEF RegisterInv
    <2>3. CASE UNCHANGED vars
      BY <2>3, UnseenSteps DEF vars, seedVars, runVars
    <2>4. QED
      BY <2>1, <2>2, <2>3 DEF RegisterNext
  <1>2. RegisterInit => Contract!Init
    BY RunInitRefines DEF RegisterInit
  <1>3. QED
    BY <1>1, <1>2, RegisterInvariant, PTL DEF RegisterSpec, Contract!Safety
-----------------------------------------------------------------------------
(* Chat. *)

ChatInv == Inv /\ ChatBooks

Talks(i) == Join(i) \/ SayTick(i) \/ Say(i) \/ SayBroken(i) \/ ChatDone(i)

(* What the recorder and the sessions are made of, for the steps below. *)
LEMMA ChatTypes ==
  ASSUME Inv
  PROVE  /\ RecorderTypeOK /\ sess \in [Ids -> SessionStates]
         /\ \A n \in {"login_ok", "join_ok", "join_error", "say_error"} :
              n \in CounterNames /\ counters[n] \in Nat
         /\ "SAY" \in Commands /\ cmdErrors["SAY"] \in Nat
  BY RampedAssumption, ChatAssumption
  DEF Inv, TypeOK, RunTypes, SeedTypes, RecorderTypeOK, SessionCounters, ChatCounters

(* A step of a session after its login, or on its way to it. *)
LEMMA TalksInv ==
  ASSUME ChatInv, NEW i \in Ids, Talks(i)
  PROVE  Inv' /\ sess[i] \in Working /\ UNCHANGED main
  <1>1. PICK state \in Working \cup {"exit"} : SessionTo(i, state)
    BY DEF Talks, Join, SayTick, Say, OpFails, SayBroken, ChatDone, SeesWindowClosed,
           Working, LoggedIn
  <1>2. sess[i] \in Working /\ ChatElse
    BY DEF Talks, Join, SayTick, Say, SayBroken, ChatDone, SeesWindowClosed, Working,
           LoggedIn
  <1>3. RecorderTypeOK'
    BY ChatTypes, RecorderSteps
    DEF ChatInv, Talks, Join, SayTick, Say, OpFails, SayBroken, ChatDone, RecorderTypeOK,
        recorder
  <1>4. QED
    BY <1>1, <1>2, <1>3, WorkInv DEF ChatInv, ChatElse

(* Every step of a session moves as many sessions between the places the two
   books count as it counts outcomes. *)
LEMMA SessionsBalance ==
  ASSUME ChatInv, NEW i \in Ids, Talks(i) \/ Login(i) \/ SessionExit(i)
  PROVE  ChatBooks'
  <1>1. ASSUME NEW state, SessionTo(i, state)
        PROVE  \A places \in {{"in"}, {"broken"}} :
                 /\ Cardinality(At(places)) \in Nat
                 /\ (sess[i] \in places <=> state \in places) => At(places)' = At(places)
                 /\ sess[i] \in places /\ state \notin places =>
                      Cardinality(At(places)') = Cardinality(At(places)) - 1
                 /\ sess[i] \notin places /\ state \in places =>
                      Cardinality(At(places)') = Cardinality(At(places)) + 1
    BY <1>1, AtSteps, ChatTypes DEF ChatInv
  <1> USE <1>1, ChatTypes
      DEF ChatInv, ChatBooks, JoinAccounting, SayRowMatchesCounter, RecorderTypeOK, Inc, Add,
          Observe, ObserveError
  <1>2. CASE Login(i)
    <2>1. CASE SessionDial(i)
      BY <2>1, RampedAssumption DEF SessionDial, SessionCounters, recorder
    <2>2. CASE LoginAttempt(i)
      BY <2>2, RampedAssumption DEF LoginAttempt, LoginDenied, LoginGivesUp, SessionCounters
    <2>3. CASE LoginBackoff(i)
      BY <2>3, RampedAssumption DEF LoginBackoff, LoginGivesUp, recorder
    <2>4. CASE LoginCounted(i)
      BY <2>4, RampedAssumption DEF LoginCounted, SessionCounters
    <2>5. QED
      BY <1>2, <2>1, <2>2, <2>3, <2>4 DEF Login
  <1>3. CASE SessionExit(i)
    BY <1>3 DEF SessionExit, recorder
  <1>4. CASE Join(i)
    BY <1>4 DEF Join
  <1>5. CASE Say(i)
    BY <1>5 DEF Say, OpFails
  <1>6. CASE SayBroken(i)
    BY <1>6 DEF SayBroken
  <1>7. CASE SayTick(i) \/ ChatDone(i)
    BY <1>7 DEF SayTick, ChatDone, SeesWindowClosed, recorder
  <1>8. QED
    BY <1>2, <1>3, <1>4, <1>5, <1>6, <1>7 DEF Talks

(* The steps that are no session's: one of them starts a session, which stands
   at neither of the places. *)
LEMMA SharedBalance ==
  ASSUME ChatInv, Shared
  PROVE  ChatBooks'
  <1>1. /\ UNCHANGED <<hists, cmdErrors>>
        /\ \A n \in {"login_ok", "join_ok", "join_error", "say_error"} :
             counters'[n] = counters[n]
    BY SharedRecords, ChatTypes DEF ChatInv, SeedCounters
  <1>2. At({"in"})' = At({"in"}) /\ At({"broken"})' = At({"broken"})
    BY SharedRecords, ChatTypes DEF ChatInv, SessionTo, At
  <1>3. QED
    BY <1>1, <1>2 DEF ChatInv, ChatBooks, JoinAccounting, SayRowMatchesCounter

(* The steps of ChatNext, put the way the lemmas want them. *)
LEMMA ChatSteps ==
  ASSUME [ChatNext]_chatVars
  PROVE  \/ Shared
         \/ \E i \in Ids : Login(i) \/ SessionExit(i) \/ Talks(i)
         \/ UNCHANGED vars
  BY DEF ChatNext, Chatter, Talks, ChatDrop, ChatLogout, Shared, Environment, chatVars

(* The inductive invariant of the scenario. *)
THEOREM ChatInvariant == ChatSpec => []ChatInv
  <1>1. ChatInit => ChatInv
    <2> SUFFICES ASSUME RunInit PROVE Inv /\ ChatBooks
      BY DEF ChatInit, ChatInv
    <2>1. At({"in"}) = {} /\ At({"broken"}) = {}
      BY DEF RunInit, RunIdle, At
    <2>2. Cardinality(At({"in"})) = 0 /\ Cardinality(At({"broken"})) = 0
      BY <2>1, FS_EmptySet
    <2>3. Inv
      BY RunInitInv DEF RunInit
    <2>4. /\ \A n \in {"login_ok", "join_ok", "join_error", "say_error"} : counters[n] = 0
          /\ cmdErrors["SAY"] = 0
      BY <2>3, ChatTypes DEF RunInit, RunIdle, SeedIdle, NewRecorder
    <2>5. QED
      BY <2>2, <2>3, <2>4 DEF ChatBooks, JoinAccounting, SayRowMatchesCounter
  <1>2. ChatInv /\ [ChatNext]_chatVars => ChatInv'
    <2> SUFFICES ASSUME ChatInv, [ChatNext]_chatVars PROVE Inv' /\ ChatBooks'
      BY DEF ChatInv
    <2>1. CASE Shared
      BY <2>1, SharedBalance, RunMainInv, SeedingInv, EnvironmentInv
      DEF Shared, SeedingStep, ChatInv
    <2>2. CASE \E i \in Ids : Login(i) \/ SessionExit(i)
      BY <2>2, LoginInv, SessionsBalance DEF ChatInv
    <2>3. CASE \E i \in Ids : Talks(i)
      BY <2>3, TalksInv, SessionsBalance
    <2>4. CASE UNCHANGED vars
      BY <2>4, InvUnchanged
      DEF vars, seedVars, runVars, recorder, ChatInv, ChatBooks, JoinAccounting,
          SayRowMatchesCounter, At
    <2>5. QED
      BY <2>1, <2>2, <2>3, <2>4, ChatSteps
  <1>3. QED
    BY <1>1, <1>2, PTL DEF ChatSpec

(* The outcomes of JOIN and the failures of SAY are counted exactly once each. *)
THEOREM ChatBooksBalance == ChatSpec => []ChatBooks
  <1>1. ChatInv => ChatBooks
    BY DEF ChatInv
  <1>2. QED
    BY <1>1, ChatInvariant, PTL

(* No chatter leaves the load before the window closes unless a failure of it is
   counted in that very step. *)
THEOREM NoChatterLost == ChatSpec => NoSilentExit
  <1>1. ChatInv /\ [ChatNext]_chatVars =>
          [\A i \in Ids : sess[i] \in LoggedIn \cup {"broken"} /\ sess'[i] = "exit" =>
             \/ window = "closed"
             \/ counters'["join_error"] > counters["join_error"]
             \/ counters'["say_error"] > counters["say_error"]]_chatVars
    <2> SUFFICES ASSUME ChatInv, [ChatNext]_chatVars, NEW i \in Ids,
                        sess[i] \in Working, sess'[i] = "exit"
                 PROVE  \/ window = "closed"
                        \/ counters'["join_error"] > counters["join_error"]
                        \/ counters'["say_error"] > counters["say_error"]
      BY DEF Working
    <2>1. ~Shared /\ sess' # sess
      BY SharedRecords, ChatTypes DEF ChatInv, SessionTo, Working, LoggedIn
    <2>2. PICK j \in Ids : Login(j) \/ SessionExit(j) \/ Talks(j)
      BY <2>1, ChatSteps DEF vars, runVars
    <2>3. j = i
      BY <2>2, ChatTypes
      DEF ChatInv, Working, LoggedIn, Login, SessionDial, LoginAttempt, LoginDenied,
          LoginGivesUp, LoginBackoff, LoginCounted, SessionExit, Talks, Join, SayTick, Say,
          OpFails, SayBroken, ChatDone, SeesWindowClosed, SessionTo
    <2>4. Talks(i)
      BY <2>2, <2>3 DEF Working, LoggedIn, Login, SessionDial, LoginAttempt, LoginBackoff,
                        LoginCounted, SessionExit
    <2>5. Join(i) \/ SayBroken(i) \/ window = "closed"
      BY <2>4, ChatTypes
      DEF ChatInv, Talks, SayTick, Say, OpFails, ChatDone, SeesWindowClosed, SessionTo
    <2>6. CASE Join(i)
      BY <2>6, ChatTypes DEF ChatInv, Join, SessionTo, Inc, Add, RecorderTypeOK
    <2>7. CASE SayBroken(i)
      BY <2>7, ChatTypes DEF ChatInv, SayBroken, Inc, Add, RecorderTypeOK
    <2>8. QED
      BY <2>5, <2>6, <2>7
  <1>2. QED
    BY <1>1, ChatInvariant, PTL DEF ChatSpec, NoSilentExit

(* Chat keeps the contract Execute relies on; that Run returns is left to the
   run. *)
THEOREM ChatKeepsLoadRun == ChatSpec => Contract!Safety
  <1>1. ChatInv /\ [ChatNext]_chatVars => [Contract!Next]_(Contract!vars)
    <2> SUFFICES ASSUME ChatInv, [ChatNext]_chatVars
                 PROVE  [Contract!Next]_(Contract!vars)
      OBVIOUS
    <2>1. CASE Shared
      BY <2>1, SharedRefines DEF ChatInv
    <2>2. CASE \E i \in Ids : Login(i) \/ SessionExit(i) \/ Talks(i)
      BY <2>2, SessionsRefine, TalksInv DEF ChatInv
    <2>3. CASE UNCHANGED vars
      BY <2>3, UnseenSteps DEF vars, seedVars, runVars
    <2>4. QED
      BY <2>1, <2>2, <2>3, ChatSteps
  <1>2. ChatInit => Contract!Init
    BY RunInitRefines DEF ChatInit, RunInit
  <1>3. QED
    BY <1>1, <1>2, ChatInvariant, PTL DEF ChatSpec, Contract!Safety
-----------------------------------------------------------------------------
(* Social. *)

SocialInv == Inv /\ CycleInv

(* The four commands are commands of the recorder, and so are their counters. *)
LEMMA CommandOfCycle ==
  ASSUME CycleInv, NEW i \in Ids
  PROVE  /\ Command(i) \in Commands
         /\ OkCounter[Command(i)] \in CounterNames
         /\ ErrorCounter[Command(i)] \in CounterNames
         /\ seq[i] = 0 => Command(i) = "IGNORE"
         /\ seq[i] = 1 => Command(i) = "UNIGNORE"
         /\ seq[i] \in {2, 3} => Command(i) \notin {"IGNORE", "UNIGNORE"}
  <1>1. seq[i] \in 0 .. 3
    BY DEF CycleInv
  <1>2. /\ seq[i] + 1 \in 1 .. 4
        /\ Command(i) = Cycle[seq[i] + 1]
    BY <1>1 DEF Command
  <1>3. Command(i) \in SocialCommands
    BY <1>2 DEF SocialCommands
  <1>4. /\ OkCounter[Command(i)] \in SocialCounters
        /\ ErrorCounter[Command(i)] \in SocialCounters
    BY <1>3 DEF SocialCounters
  <1>5. /\ Cycle[1] = "IGNORE" /\ Cycle[2] = "UNIGNORE"
        /\ Cycle[3] = "IGNORELIST" /\ Cycle[4] = "FRIENDLIST"
    BY DEF Cycle
  <1>6. QED
    BY <1>1, <1>2, <1>3, <1>4, <1>5, SocialAssumption

Works(i) == LoopBegins(i) \/ OpTick(i) \/ Op(i) \/ OpSampled(i) \/ OpBroken(i) \/ SocialDone(i)

(* A session that works keeps RampedRun's part. *)
LEMMA WorksInv ==
  ASSUME SocialInv, NEW i \in Ids, Works(i)
  PROVE  Inv' /\ sess[i] \in Working /\ UNCHANGED main
  <1>1. PICK state \in Working \cup {"exit"} : SessionTo(i, state)
    BY DEF Works, LoopBegins, OpTick, Op, OpSucceeds, OpFails, OpSampled, OpBroken,
           SocialDone, SeesWindowClosed, Working, LoggedIn
  <1>2. sess[i] \in Working /\ ChatElse
    BY DEF Works, LoopBegins, OpTick, Op, OpSampled, OpBroken, SocialDone,
           SeesWindowClosed, Working, LoggedIn, SocialElse, ChatElse
  <1>3. RecorderTypeOK
    BY DEF SocialInv, Inv, TypeOK, RunTypes, SeedTypes
  <1>4. RecorderTypeOK'
    <2>1. CASE UNCHANGED recorder
      BY <1>3, <2>1 DEF recorder, RecorderTypeOK
    <2>2. CASE Op(i)
      BY <1>3, <2>2, RecorderSteps, CommandOfCycle
      DEF Op, OpSucceeds, OpFails, SocialInv
    <2>3. CASE OpSampled(i) \/ OpBroken(i)
      BY <1>3, <2>3, RecorderSteps, CommandOfCycle DEF OpSampled, OpBroken, SocialInv
    <2>4. QED
      BY <2>1, <2>2, <2>3 DEF Works, LoopBegins, OpTick, SocialDone
  <1>5. QED
    BY <1>1, <1>2, <1>4, WorkInv DEF SocialInv, ChatElse

(* The cycle: a command that succeeds leaves the row it promises, one that fails
   takes the session out of the cycle. *)
LEMMA WorksCycle ==
  ASSUME SocialInv, NEW i \in Ids, Works(i)
  PROVE  CycleInv'
  <1> USE DEF SocialInv, CycleInv, RowKnown
  <1>1. sess \in [Ids -> SessionStates]
    BY DEF Inv, TypeOK, RunTypes
  <1>2. CASE LoopBegins(i) \/ OpTick(i) \/ OpBroken(i) \/ SocialDone(i)
    BY <1>1, <1>2 DEF LoopBegins, OpTick, OpBroken, SocialDone, SeesWindowClosed, SessionTo,
                      socialOwn
  <1>3. CASE OpSampled(i)
    BY <1>1, <1>3 DEF OpSampled, SessionTo, Advance
  <1>4. CASE Op(i)
    <2>1. /\ seq' = seq /\ seq[i] \in 0 .. 3 /\ sess[i] = "busy"
          /\ RowKnown(i, seq[i]) /\ i \notin rejected
      BY <1>4 DEF Op
    <2>2. \A j \in Ids \ {i} : sess'[j] = sess[j]
      BY <1>1, <1>4 DEF Op, OpSucceeds, OpFails, SessionTo
    <2>3. \/ RowsAfter(i) = ignores
          \/ seq[i] = 0 /\ RowsAfter(i) = ignores \cup {i}
          \/ seq[i] = 1 /\ RowsAfter(i) = ignores \ {i}
      <3>1. seq[i] = 0 \/ seq[i] = 1 \/ seq[i] \in {2, 3}
        BY <2>1
      <3>2. QED
        BY <3>1, CommandOfCycle DEF RowsAfter
    <2>4. ignores' \in {ignores, RowsAfter(i)} /\ rejected' \in {rejected, rejected \cup {i}}
      BY <1>4 DEF Op
    <2>5. \A j \in Ids \ {i} : /\ j \in ignores' <=> j \in ignores
                               /\ j \in rejected' <=> j \in rejected
      BY <2>3, <2>4
    <2>6. ASSUME OpSucceeds(i), ignores' = RowsAfter(i), UNCHANGED rejected
          PROVE  CycleInv'
      <3>1. sess'[i] = "sampled"
        BY <1>1, <2>6 DEF OpSucceeds, SessionTo
      <3>2. (seq[i] = 0 => i \in ignores') /\ (seq[i] = 1 => i \notin ignores')
        BY <2>1, <2>6, CommandOfCycle DEF RowsAfter
      <3>3. seq[i] = 2 => i \notin ignores'
        BY <2>1, <2>3, <2>6
      <3>4. RowKnown(i, seq[i] + 1)'
        BY <2>1, <3>2, <3>3
      <3>5. QED
        BY <2>1, <2>2, <2>5, <2>6, <3>1, <3>4
    <2>7. ASSUME OpFails(i, Command(i)), seq[i] = 0 \/ UNCHANGED rejected
          PROVE  CycleInv'
      <3>1. sess'[i] = "broken"
        BY <1>1, <2>7 DEF OpFails, SessionTo
      <3>2. QED
        BY <2>1, <2>2, <2>4, <2>5, <2>7, <3>1
    <2>8. ~Accepts(i) => seq[i] = 0
      <3>1. seq[i] = 0 \/ seq[i] = 1 \/ seq[i] \in {2, 3}
        BY <2>1
      <3>2. QED
        BY <2>1, <3>1, CommandOfCycle DEF Accepts
    <2>9. QED
      BY <1>4, <2>6, <2>7, <2>8 DEF Op
  <1>5. QED
    BY <1>2, <1>3, <1>4 DEF Works

(* The steps before and after the work do not touch the cycle. *)
LEMMA LoginCycle ==
  ASSUME SocialInv, NEW i \in Ids, Login(i) \/ SessionExit(i), UNCHANGED socialOwn
  PROVE  CycleInv'
  <1>1. /\ sess \in [Ids -> SessionStates]
        /\ sess[i] \in {"dial", "opened", "backoff", "observed", "failed", "exit"}
        /\ sess[i] \in {"failed", "exit"} => sess'[i] \in {"exit", "done"}
        /\ sess'[i] \in {"opened", "backoff", "observed", "failed", "in", "exit", "done"}
        /\ \A j \in Ids \ {i} : sess'[j] = sess[j]
    BY DEF SocialInv, Inv, TypeOK, RunTypes, Login, SessionDial, LoginAttempt, LoginDenied,
           LoginGivesUp, LoginBackoff, LoginCounted, SessionExit, SessionTo
  <1>2. QED
    BY <1>1 DEF SocialInv, CycleInv, RowKnown, socialOwn

(* The inductive invariant of the scenario. *)
THEOREM SocialInvariant == SocialSpec => []SocialInv
  <1>1. SocialInit => SocialInv
    BY RunInitInv DEF SocialInit, SocialInv, CycleInv, RunInit, RunIdle
  <1>2. SocialInv /\ [SocialNext]_socialVars => SocialInv'
    <2> SUFFICES ASSUME SocialInv, [SocialNext]_socialVars PROVE Inv' /\ CycleInv'
      BY DEF SocialInv
    <2>1. CASE Shared /\ UNCHANGED socialOwn
      <3>1. Inv'
        BY <2>1, RunMainInv, SeedingInv, EnvironmentInv DEF Shared, SeedingStep, SocialInv
      <3>2. CycleInv'
        BY <2>1, SharedRecords
        DEF SocialInv, CycleInv, RowKnown, socialOwn, SessionTo, Inv, TypeOK, RunTypes
      <3>3. QED
        BY <3>1, <3>2
    <2>2. CASE \E i \in Ids : (Login(i) \/ SessionExit(i)) /\ UNCHANGED socialOwn
      BY <2>2, LoginInv, LoginCycle DEF SocialInv
    <2>3. CASE \E i \in Ids : Works(i)
      BY <2>3, WorksInv, WorksCycle
    <2>4. CASE UNCHANGED socialVars
      BY <2>4, InvUnchanged DEF socialVars, vars, runVars, socialOwn, SocialInv, CycleInv, RowKnown
    <2>5. QED
      BY <2>1, <2>2, <2>3, <2>4 DEF SocialNext, Socialite, Works
  <1>3. QED
    BY <1>1, <1>2, PTL DEF SocialSpec

(* Between two commands a session knows its row, whatever answers are lost and
   whatever the other sessions do. *)
THEOREM RowIsKnown == SocialSpec => []CycleKnowsRow
  <1>1. SocialInv => CycleKnowsRow
    BY DEF SocialInv, CycleInv, CycleKnowsRow
  <1>2. QED
    BY <1>1, SocialInvariant, PTL

(* Only the first command of a cycle is ever rejected. *)
THEOREM OnlyIgnoreRejected == SocialSpec => []UnignoreNeverRejected
  <1>1. SocialInv => UnignoreNeverRejected
    <2> SUFFICES ASSUME SocialInv, NEW i \in rejected PROVE Command(i) = "IGNORE"
      BY DEF UnignoreNeverRejected
    <2>1. i \in Ids /\ seq[i] = 0 /\ CycleInv
      BY DEF SocialInv, CycleInv
    <2>2. QED
      BY <2>1, CommandOfCycle
  <1>2. QED
    BY <1>1, SocialInvariant, PTL

(* Social keeps the contract Execute relies on; that Run returns is left to the
   run. *)
THEOREM SocialKeepsLoadRun == SocialSpec => Contract!Safety
  <1>1. SocialInv /\ [SocialNext]_socialVars => [Contract!Next]_(Contract!vars)
    <2> SUFFICES ASSUME SocialInv, [SocialNext]_socialVars
                 PROVE  [Contract!Next]_(Contract!vars)
      OBVIOUS
    <2>1. CASE Shared
      BY <2>1, SharedRefines DEF SocialInv
    <2>2. CASE \E i \in Ids : Login(i) \/ SessionExit(i)
      BY <2>2, SessionsRefine DEF SocialInv
    <2>3. CASE \E i \in Ids : Works(i)
      BY <2>3, WorksInv, SessionsRefine DEF SocialInv
    <2>4. CASE UNCHANGED socialVars
      BY <2>4, UnseenSteps DEF socialVars, vars, seedVars, runVars
    <2>5. QED
      BY <2>1, <2>2, <2>3, <2>4 DEF SocialNext, Socialite, Works
  <1>2. SocialInit => Contract!Init
    BY RunInitRefines DEF SocialInit, RunInit
  <1>3. QED
    BY <1>1, <1>2, SocialInvariant, PTL DEF SocialSpec, Contract!Safety
=============================================================================
