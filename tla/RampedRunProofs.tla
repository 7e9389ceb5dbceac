--------------------------- MODULE RampedRunProofs --------------------------
(***************************************************************************)
(* Lemmas about RampedRun, for the proofs of the scenarios that extend it: *)
(* the steps they share keep                                               *)
(*   Inv == TypeOK /\ SlotInv /\ RunInv,                                   *)
(* and Inv implies the safety properties.                                  *)
(***************************************************************************)
EXTENDS RampedRun, SeedingProofs

Inv == TypeOK /\ SlotInv /\ RunInv

SeedingPlaces == {"seed", "acquire", "join"}

\* Everything the steps of a session leave alone.
NotSession == <<ctx, main, next, sem, seeder, window>>

(* Once the seeding is over its part of the invariant only asks for the
   goroutines to stay away. *)
LEMMA SlotInvKept ==
  ASSUME SlotInv, UNCHANGED <<sem, seeder>>,
         UNCHANGED <<main, next>> \/ (main \notin SeedingPlaces /\ main' \notin SeedingPlaces)
  PROVE  SlotInv'
  BY DEF SlotInv, SlotHolders, SeedingPlaces

(* A session that is on its way and goes anywhere but back to idle keeps the
   invariant, if it has an attempt left wherever it needs one. *)
LEMMA SessionMoves ==
  ASSUME Inv, NEW i \in Ids, NEW state \in SessionStates \ {"idle"},
         sess[i] \notin {"idle", "done"}, SessionTo(i, state), UNCHANGED NotSession,
         RecorderTypeOK', LobbyTypeOK',
         attempt' \in [Ids -> 0 .. MaxAttempts],
         \A j \in Ids \ {i} : attempt'[j] = attempt[j],
         state \in {"dial", "opened"} => attempt'[i] < MaxAttempts
  PROVE  Inv'
  <1>1. \A j \in Ids : sess'[j] = IF j = i THEN state ELSE sess[j]
    BY DEF SessionTo, Inv, TypeOK, RunTypes, RunPlaces
  <1>2. SlotInv'
    BY SlotInvKept DEF Inv, NotSession
  <1>3. TypeOK'
    BY <1>1 DEF Inv, TypeOK, RunTypes, RunPlaces, SeedTypes, NotSession, SessionTo
  <1>4. main # "returned" /\ window # "unset"
    BY DEF Inv, RunInv, Active
  <1>5. \A j \in next .. Conns - 1 : main \in {"ramp", "pause"} => j # i
    BY DEF Inv, RunInv
  <1>6. RunInv'
    <2>1. \A j \in Ids : sess'[j] \in {"idle", "dial", "opened"} => AttemptsLeft(j)'
      BY <1>1 DEF Inv, RunInv, AttemptsLeft
    <2>2. main \in {"ramp", "pause"} => \A j \in next .. Conns - 1 : sess'[j] = "idle"
      BY <1>1, <1>5 DEF Inv, RunInv, TypeOK, RunTypes, RunPlaces, SeedTypes, Ids
    <2>3. QED
      BY <1>4, <2>1, <2>2 DEF Inv, RunInv, NotSession
  <1>7. QED
    BY <1>2, <1>3, <1>6 DEF Inv

(* loginWithRetry and the goroutine around it. *)
LEMMA LoginInv ==
  ASSUME Inv, NEW i \in Ids, Login(i) \/ SessionExit(i)
  PROVE  Inv'
  <1> USE SeedingAssumption, RampedAssumption
      DEF NotSession, SessionStates, SessionCounters
  <1>0. /\ RecorderTypeOK /\ LobbyTypeOK
        /\ attempt \in [Ids -> 0 .. MaxAttempts]
        /\ sess[i] \in {"dial", "opened"} => attempt[i] < MaxAttempts
    BY DEF Inv, TypeOK, RunTypes, RunPlaces, SeedTypes, RunInv, AttemptsLeft
  <1>1. CASE SessionDial(i)
    <2>1. RecorderTypeOK' /\ LobbyTypeOK'
      BY <1>0, <1>1, RecorderSteps
      DEF SessionDial, RecorderTypeOK, recorder, LobbyTypeOK, lobby
    <2>2. PICK state \in {"opened", "done"} : SessionTo(i, state)
      BY <1>1 DEF SessionDial
    <2>3. QED
      BY <1>0, <1>1, <2>1, <2>2, SessionMoves DEF SessionDial
  <1>2. CASE LoginAttempt(i)
    <2>1. LobbyTypeOK'
      BY <1>0, <1>2, LobbySteps DEF LoginAttempt, Owners
    <2>2. RecorderTypeOK'
      BY <1>0, <1>2, RecorderSteps DEF LoginAttempt, LoginDenied, LoginGivesUp
    <2>3. attempt' \in [Ids -> 0 .. MaxAttempts]
          /\ \A j \in Ids \ {i} : attempt'[j] = attempt[j]
      BY <1>0, <1>2 DEF LoginAttempt, LoginDenied
    <2>4. PICK state \in {"observed", "backoff", "failed"} : SessionTo(i, state)
      BY <1>2 DEF LoginAttempt, LoginDenied, LoginGivesUp
    <2>5. QED
      BY <1>2, <2>1, <2>2, <2>3, <2>4, SessionMoves DEF LoginAttempt
  <1>3. CASE LoginBackoff(i)
    <2>1. RecorderTypeOK' /\ LobbyTypeOK'
      BY <1>0, <1>3, RecorderSteps
      DEF LoginBackoff, LoginGivesUp, RecorderTypeOK, recorder, LobbyTypeOK, lobby
    <2>2. PICK state \in {"opened", "failed"} :
             SessionTo(i, state) /\ (state = "opened" => attempt[i] < MaxAttempts)
      BY <1>3 DEF LoginBackoff, LoginGivesUp, AttemptsLeft
    <2>3. QED
      BY <1>0, <1>3, <2>1, <2>2, SessionMoves DEF LoginBackoff
  <1>4. CASE LoginCounted(i)
    <2>1. RecorderTypeOK' /\ LobbyTypeOK'
      BY <1>0, <1>4, RecorderSteps DEF LoginCounted, LobbyTypeOK, lobby
    <2>2. PICK state \in {"in", "exit"} : SessionTo(i, state)
      BY <1>4 DEF LoginCounted
    <2>3. QED
      BY <1>0, <1>4, <2>1, <2>2, SessionMoves DEF LoginCounted
  <1>5. CASE SessionExit(i)
    <2>1. RecorderTypeOK' /\ LobbyTypeOK'
      BY <1>0, <1>5 DEF SessionExit, RecorderTypeOK, recorder, LobbyTypeOK, lobby
    <2>2. QED
      BY <1>0, <1>5, <2>1, SessionMoves DEF SessionExit
  <1>6. QED
    BY <1>1, <1>2, <1>3, <1>4, <1>5 DEF Login
-----------------------------------------------------------------------------
(* The seeding, as a part of the run. *)
LEMMA SeedingInv ==
  ASSUME Inv, UNCHANGED runVars,
         SeedMain \/ (\E i \in Ids : Seeder(i) \/ SeedLogout(i))
  PROVE  Inv'
  <1> USE DEF runVars
  <1>1. SeedTypes' /\ SlotInv'
    BY SeedMainInv, SeederInv, SeedEnvironmentInv DEF Inv, TypeOK, RunTypes, RunPlaces
  <1>2. CASE SeedMain
    BY <1>1, <1>2 DEF SeedMain, SeedCheck, SeedSpawn, SeedJoin, Inv, TypeOK, RunTypes, RunPlaces, RunInv,
                      Active, AttemptsLeft
  <1>3. CASE \E i \in Ids : Seeder(i) \/ SeedLogout(i)
    <2>1. UNCHANGED <<main, next>>
      BY <1>3 DEF Seeder, SeedDial, SeedRegister, SeedLogin, SeedConfirm, SeedExit,
                  SeedRelease, SeedLogout
    <2>2. QED
      BY <1>1, <2>1 DEF Inv, TypeOK, RunTypes, RunPlaces, RunInv, Active, AttemptsLeft
  <1>4. QED
    BY <1>2, <1>3

(* Scenario.Run. *)
LEMMA RunMainInv ==
  ASSUME Inv, RunMain
  PROVE  Inv'
  <1> USE ConnsAssumption DEF Inv, TypeOK, RunTypes, RunPlaces, SeedTypes, RecorderTypeOK, recorder,
                              LobbyTypeOK, lobby
  <1>1. CASE SeedMain /\ UNCHANGED runVars
    BY <1>1, SeedingInv
  <1>2. CASE StartWindow
    <2>1. SlotInv'
      BY <1>2, SlotInvKept DEF StartWindow, SeedingPlaces
    <2>2. QED
      BY <1>2, <2>1 DEF StartWindow, RunInv, Active, AttemptsLeft, Ids
  <1>3. CASE RampCheck
    <2>1. SlotInv'
      BY <1>3, SlotInvKept DEF RampCheck, SeedingPlaces
    <2>2. QED
      BY <1>3, <2>1 DEF RampCheck, MoreToLaunch, RunInv, Active, AttemptsLeft, runVars
  <1>4. CASE Launch
    <2>1. SlotInv'
      BY <1>4, SlotInvKept DEF Launch, SeedingPlaces
    <2>2. next \in Ids /\ sess[next] = "idle" /\ window # "unset"
      BY <1>4 DEF Launch, RunInv, Ids
    <2>3. TypeOK'
      BY <1>4, <2>2 DEF Launch, SessionStates, Ids
    <2>4. RunInv'
      BY <1>4, <2>2 DEF Launch, RunInv, AttemptsLeft, Ids
    <2>5. QED
      BY <2>1, <2>3, <2>4
  <1>5. CASE RunReturn
    <2>1. SlotInv'
      BY <1>5, SlotInvKept DEF RunReturn, SeedingPlaces
    <2>2. QED
      BY <1>5, <2>1 DEF RunReturn, AllReturned, RunInv, Active, AttemptsLeft
  <1>6. QED
    BY <1>1, <1>2, <1>3, <1>4, <1>5 DEF RunMain

(* The window's deadline, Ctrl-C and the server. *)
LEMMA EnvironmentInv ==
  ASSUME Inv, Environment
  PROVE  Inv'
  <1>1. CASE WindowElapses
    BY <1>1 DEF WindowElapses, Inv, TypeOK, RunTypes, RunPlaces, SeedTypes, SlotInv, SlotHolders, RunInv,
                Active, AttemptsLeft, seedVars, recorder, RecorderTypeOK, lobby, LobbyTypeOK
  <1>2. CASE Interrupt
    <2>1. SeedTypes' /\ SlotInv'
      BY <1>2, SeedEnvironmentInv DEF Interrupt, Inv, TypeOK, RunTypes, RunPlaces
    <2>2. QED
      BY <1>2, <2>1 DEF Interrupt, SeedInterrupt, Inv, TypeOK, RunTypes, RunPlaces, RunInv, Active, AttemptsLeft
  <1>3. CASE \E i \in Ids : SeedLogout(i) /\ UNCHANGED runVars
    BY <1>3, SeedingInv
  <1>4. CASE \E i \in Ids : SessionLogout(i) \/ ServerDrop(i)
    <2>1. PICK i \in Ids : SessionLogout(i) \/ ServerDrop(i)
      BY <1>4
    <2>2. LobbyTypeOK'
      BY <2>1, LobbySteps DEF SessionLogout, ServerDrop, Inv, TypeOK, RunTypes, RunPlaces, SeedTypes
    <2>3. UNCHANGED <<recorder, ctx, main, next, sem, seeder, window, sess, attempt>>
      BY <2>1 DEF SessionLogout, ServerDrop, runVars, Inv, TypeOK, RunTypes, RunPlaces
    <2>4. QED
      BY <2>2, <2>3 DEF Inv, TypeOK, RunTypes, RunPlaces, SeedTypes, SlotInv, SlotHolders, RunInv, Active,
                        AttemptsLeft, recorder, RecorderTypeOK
  <1>5. QED
    BY <1>1, <1>2, <1>3, <1>4 DEF Environment

(* The initial states. *)
LEMMA RunInitInv ==
  ASSUME RunIdle, main \in {"seed", "seeded"}
  PROVE  Inv
  <1>1. SeedTypes /\ SlotInv
    BY SeedInitInv DEF RunIdle
  <1>2. TypeOK
    BY <1>1, RampedAssumption DEF RunIdle, SeedIdle, TypeOK, RunTypes, RunPlaces, SessionStates
  <1>3. RunInv
    BY RampedAssumption DEF RunIdle, SeedIdle, RunInv, AttemptsLeft
  <1>4. QED
    BY <1>1, <1>2, <1>3 DEF Inv

LEMMA InvUnchanged ==
  ASSUME Inv, UNCHANGED vars
  PROVE  Inv'
  BY DEF Inv, vars, seedVars, runVars, recorder, lobby, TypeOK, RunTypes, RunPlaces, SeedTypes, SlotInv,
         SlotHolders, RunInv, Active, AttemptsLeft, RecorderTypeOK, LobbyTypeOK

(* When Run has returned no goroutine of it is left. *)
QuiescentReturn == main = "returned" => SlotHolders = {} /\ Active = {}

(* What the invariant says about the phases and about the end of the run. *)
LEMMA InvImplies ==
  ASSUME Inv
  PROVE  TypeOK /\ SeedBeforeLoad /\ QuiescentReturn
  BY DEF Inv, SlotInv, RunInv, SeedBeforeLoad, QuiescentReturn
-----------------------------------------------------------------------------
(* The books of the sessions. *)

(* What a step of one session does to the number of the sessions at some
   places. *)
LEMMA AtSteps ==
  ASSUME sess \in [Ids -> SessionStates], NEW i \in Ids, NEW state,
         SessionTo(i, state), NEW places
  PROVE  /\ Cardinality(At(places)) \in Nat /\ Cardinality(At(places)') \in Nat
         /\ (sess[i] \in places <=> state \in places) => At(places)' = At(places)
         /\ sess[i] \in places /\ state \notin places =>
              Cardinality(At(places)') = Cardinality(At(places)) - 1
         /\ sess[i] \notin places /\ state \in places =>
              Cardinality(At(places)') = Cardinality(At(places)) + 1
  <1>1. At(places) \subseteq Ids /\ At(places)' \subseteq Ids
    BY DEF At
  <1>2. IsFiniteSet(At(places)) /\ IsFiniteSet(At(places)')
        /\ Cardinality(At(places)) \in Nat /\ Cardinality(At(places)') \in Nat
    BY <1>1, SubsetsOfIds
  <1>3. \A j \in Ids : sess'[j] = IF j = i THEN state ELSE sess[j]
    BY DEF SessionTo
  <1>4. (sess[i] \in places <=> state \in places) => At(places)' = At(places)
    BY <1>3 DEF At
  <1>5. sess[i] \in places /\ state \notin places =>
          At(places)' = At(places) \ {i} /\ i \in At(places)
    BY <1>3 DEF At
  <1>6. sess[i] \notin places /\ state \in places =>
          At(places)' = At(places) \cup {i} /\ i \notin At(places)
    BY <1>3 DEF At
  <1>7. QED
    BY <1>2, <1>4, <1>5, <1>6, FS_AddElement, FS_RemoveElement

(* The steps that move no session and count no outcome of one. *)
LEMMA BooksKept ==
  ASSUME Books, UNCHANGED <<sess, hists, cmdErrors>>,
         \A n \in {"dial_error", "login_ok", "login_error"} : counters'[n] = counters[n],
         window = "unset" <=> window' = "unset",
         UNCHANGED next \/ window = "unset"
  PROVE  Books'
  BY DEF Books, SessionAccounting, RowMatchesCounters, InFlight, At

(* A session that passes from one place to another. *)
LEMMA LoginBooks ==
  ASSUME Inv, Books, NEW i \in Ids, Login(i) \/ SessionExit(i)
  PROVE  Books'
  <1> DEFINE flying == {"dial", "opened", "backoff", "observed", "failed"}
  <1>1. /\ RecorderTypeOK /\ sess \in [Ids -> SessionStates] /\ next \in Nat
        /\ counters["dial_error"] \in Nat /\ counters["login_ok"] \in Nat
        /\ counters["login_error"] \in Nat
        /\ hists["LOGIN"] \in Nat /\ cmdErrors["LOGIN"] \in Nat
    BY RampedAssumption, ConnsAssumption
    DEF Inv, TypeOK, RunTypes, RunPlaces, SeedTypes, RecorderTypeOK, SessionCounters
  <1>2. window # "unset"
    BY DEF Inv, RunInv, Login, SessionDial, LoginAttempt, LoginBackoff, LoginCounted,
           SessionExit
  <1>3. ASSUME NEW state, SessionTo(i, state)
        PROVE  \A places \in {flying, {"observed"}, {"failed"}} :
                 /\ Cardinality(At(places)) \in Nat
                 /\ (sess[i] \in places <=> state \in places) => At(places)' = At(places)
                 /\ sess[i] \in places /\ state \notin places =>
                      Cardinality(At(places)') = Cardinality(At(places)) - 1
                 /\ sess[i] \notin places /\ state \in places =>
                      Cardinality(At(places)') = Cardinality(At(places)) + 1
    BY <1>1, <1>3, AtSteps
  <1> USE <1>1, <1>2, <1>3, RampedAssumption
      DEF Books, SessionAccounting, RowMatchesCounters, InFlight, SessionCounters,
          RecorderTypeOK, Inc, Add, Observe, ObserveError
  <1>4. CASE SessionDial(i)
    BY <1>4 DEF SessionDial, recorder
  <1>5. CASE LoginAttempt(i)
    BY <1>5 DEF LoginAttempt, LoginDenied, LoginGivesUp
  <1>6. CASE LoginBackoff(i)
    BY <1>6 DEF LoginBackoff, LoginGivesUp, recorder
  <1>7. CASE LoginCounted(i)
    BY <1>7 DEF LoginCounted
  <1>8. CASE SessionExit(i)
    BY <1>8 DEF SessionExit, recorder
  <1>9. QED
    BY <1>4, <1>5, <1>6, <1>7, <1>8 DEF Login

(* The seeding counts under names of its own. *)
LEMMA SeedingBooks ==
  ASSUME Inv, Books, UNCHANGED runVars,
         SeedMain \/ (\E i \in Ids : Seeder(i) \/ SeedLogout(i))
  PROVE  Books'
  <1> USE DEF runVars
  <1>1. CASE SeedMain
    <2>1. window = "unset"
      BY <1>1 DEF Inv, RunInv, SeedMain, SeedCheck, SeedSpawn, SeedJoin
    <2>2. QED
      BY <1>1, <2>1, BooksKept DEF SeedMain, SeedCheck, SeedSpawn, SeedJoin, recorder
  <1>2. CASE \E i \in Ids : Seeder(i)
    <2>1. PICK i \in Ids : Seeder(i)
      BY <1>2
    <2>2. UNCHANGED next
      BY <2>1 DEF Seeder, SeedDial, SeedRegister, SeedLogin, SeedConfirm, SeedExit,
                  SeedRelease
    <2>3. UNCHANGED recorder \/ \E n \in SeedCounters : Inc(n)
      BY <2>1 DEF Seeder, SeedDial, SeedRegister, SeedLogin, SeedConfirm, SeedExit,
                  SeedRelease, SeedReturn, SeedCounters
    <2>4. /\ UNCHANGED <<hists, cmdErrors>>
          /\ \A n \in {"dial_error", "login_ok", "login_error"} : counters'[n] = counters[n]
      BY <2>3, SeedingAssumption, RampedAssumption
      DEF recorder, Inc, Add, SeedCounters, SessionCounters, Inv, TypeOK, RunTypes, RunPlaces, SeedTypes,
          RecorderTypeOK
    <2>5. QED
      BY <2>2, <2>4, BooksKept
  <1>3. CASE \E i \in Ids : SeedLogout(i)
    BY <1>3, BooksKept DEF SeedLogout, recorder
  <1>4. QED
    BY <1>1, <1>2, <1>3

(* Scenario.Run: a session that is launched is a new one in flight. *)
LEMMA RunMainBooks ==
  ASSUME Inv, Books, RunMain
  PROVE  Books'
  <1>1. CASE SeedMain /\ UNCHANGED runVars
    BY <1>1, SeedingBooks
  <1>2. CASE StartWindow
    <2>1. /\ \A i \in Ids : sess[i] = "idle"
          /\ \A n \in {"dial_error", "login_ok", "login_error"} : counters[n] = 0
      BY <1>2 DEF StartWindow, Inv, RunInv, Books
    <2>2. InFlight = {} /\ UNCHANGED <<recorder, sess>> /\ next' = 0
      BY <1>2, <2>1 DEF StartWindow, InFlight, At
    <2>3. Cardinality(InFlight') = 0
      BY <2>2, FS_EmptySet DEF InFlight, At
    <2>4. SessionAccounting'
      BY <2>1, <2>2, <2>3 DEF SessionAccounting, recorder
    <2>5. RowMatchesCounters'
      BY <2>2 DEF Books, RowMatchesCounters, At, recorder
    <2>6. QED
      BY <1>2, <2>4, <2>5 DEF StartWindow, Books
  <1>3. CASE RampCheck
    BY <1>3, BooksKept DEF RampCheck, recorder, runVars
  <1>4. CASE Launch
    <2>1. next \in Ids /\ sess[next] = "idle" /\ window # "unset" /\ next \in Nat
      BY <1>4, ConnsAssumption DEF Launch, Inv, TypeOK, RunTypes, RunPlaces, SeedTypes, RunInv, Ids
    <2>2. SessionTo(next, "dial") /\ UNCHANGED recorder
      BY <1>4 DEF Launch, SessionTo
    <2>3. /\ Cardinality(InFlight') = Cardinality(InFlight) + 1
          /\ Cardinality(InFlight) \in Nat
          /\ At({"observed"})' = At({"observed"}) /\ At({"failed"})' = At({"failed"})
      BY <2>1, <2>2, AtSteps DEF InFlight, Inv, TypeOK, RunTypes, RunPlaces
    <2>4. /\ counters["dial_error"] \in Nat /\ counters["login_ok"] \in Nat
          /\ counters["login_error"] \in Nat
      BY RampedAssumption DEF Inv, TypeOK, RunTypes, RunPlaces, SeedTypes, RecorderTypeOK, SessionCounters
    <2>5. QED
      BY <1>4, <2>1, <2>2, <2>3, <2>4
      DEF Launch, Books, SessionAccounting, RowMatchesCounters, recorder
  <1>5. CASE RunReturn
    <2>1. window # "unset"
      BY <1>5 DEF RunReturn, Inv, RunInv
    <2>2. QED
      BY <1>5, <2>1
      DEF RunReturn, Books, SessionAccounting, RowMatchesCounters, InFlight, At, recorder
  <1>6. QED
    BY <1>1, <1>2, <1>3, <1>4, <1>5 DEF RunMain

(* The deadline, Ctrl-C and the server record nothing. *)
LEMMA EnvironmentBooks ==
  ASSUME Inv, Books, Environment
  PROVE  Books'
  <1>1. UNCHANGED <<recorder, sess, next>>
    BY DEF Environment, WindowElapses, Interrupt, SeedInterrupt, SeedLogout,
           SessionLogout, ServerDrop, seedVars, runVars
  <1>2. window = "unset" <=> window' = "unset"
    BY DEF Environment, WindowElapses, Interrupt, SessionLogout, ServerDrop, runVars
  <1>3. QED
    BY <1>1, <1>2, BooksKept DEF recorder

(* At the start every book is empty. *)
LEMMA BooksInit ==
  ASSUME RunIdle
  PROVE  Books
  <1>1. At({"observed"}) = {} /\ At({"failed"}) = {}
    BY DEF RunIdle, At
  <1>2. /\ \A n \in {"dial_error", "login_ok", "login_error"} : counters[n] = 0
        /\ hists["LOGIN"] = 0 /\ cmdErrors["LOGIN"] = 0
        /\ window = "unset"
    BY RampedAssumption DEF RunIdle, SeedIdle, NewRecorder, SessionCounters
  <1>3. Cardinality(At({"observed"})) = 0 /\ Cardinality(At({"failed"})) = 0
    BY <1>1, FS_EmptySet
  <1>4. QED
    BY <1>2, <1>3 DEF Books, SessionAccounting, RowMatchesCounters
-----------------------------------------------------------------------------
(* The refinement of LoadRun: what Execute sees of Run. *)

(* As long as Run goes on, whatever happens is Work. *)
LEMMA RunningIsWork ==
  ASSUME main # "returned", main' # "returned"
  PROVE  Contract!Next
  <1>1. SlotHolders' \subseteq Ids /\ Active' \subseteq Ids
    BY DEF SlotHolders, Active, Ids
  <1>2. Contract!Work
    BY <1>1 DEF Contract!Work
  <1>3. QED
    BY <1>2 DEF Contract!Next

(* A step that leaves main, seeder, sess and the recorder alone is not seen. *)
LEMMA UnseenSteps ==
  ASSUME UNCHANGED <<main, seeder, sess, recorder>>
  PROVE  UNCHANGED Contract!vars
  BY DEF Contract!vars, SlotHolders, Active, recorder

LEMMA RunInitRefines ==
  ASSUME RunIdle, main # "returned"
  PROVE  Contract!Init
  BY DEF RunIdle, SeedIdle, Contract!Init, SlotHolders, Active

(* A step of an active session is Work: Run has not returned. *)
LEMMA ActiveIsWork ==
  ASSUME Inv, NEW i \in Active, UNCHANGED main
  PROVE  Contract!Next
  BY InvImplies, RunningIsWork DEF QuiescentReturn

(* The steps that are no session's: Run returns when nothing is left, and from
   then on only the server moves. *)
LEMMA SharedRefines ==
  ASSUME Inv, Shared
  PROVE  [Contract!Next]_(Contract!vars)
  <1>1. CASE RunReturn
    <2>1. SlotHolders = {}
      BY <1>1 DEF RunReturn, Inv, SlotInv
    <2>2. Contract!Return
      BY <1>1, <2>1 DEF RunReturn, AllReturned, Contract!Return, SlotHolders, Active, recorder
    <2>3. QED
      BY <2>2 DEF Contract!Next
  <1>2. CASE RunMain /\ ~RunReturn
    <2>1. main # "returned" /\ main' # "returned"
      BY <1>2 DEF RunMain, SeedMain, SeedCheck, SeedSpawn, SeedJoin, StartWindow,
                  RampCheck, Launch
    <2>2. QED
      BY <2>1, RunningIsWork
  <1>3. CASE \E i \in Ids : SeedingStep(i)
    <2>1. PICK i \in Ids : SeedingStep(i)
      BY <1>3
    <2>2. i \in SlotHolders /\ UNCHANGED main
      BY <2>1 DEF SeedingStep, Seeder, SeedDial, SeedRegister, SeedLogin, SeedConfirm,
                  SeedExit, SeedRelease, SlotHolders
    <2>3. main # "returned"
      BY <2>2, InvImplies DEF QuiescentReturn
    <2>4. QED
      BY <2>2, <2>3, RunningIsWork
  <1>4. CASE Environment
    BY <1>4, UnseenSteps
    DEF Environment, WindowElapses, Interrupt, SeedInterrupt, SeedLogout, SessionLogout,
        ServerDrop, seedVars, runVars
  <1>5. QED
    BY <1>1, <1>2, <1>3, <1>4 DEF Shared
=============================================================================
