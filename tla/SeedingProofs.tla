---------------------------- MODULE SeedingProofs ---------------------------
(***************************************************************************)
(* Proofs about Seeding, for every number of connections and every         *)
(* capacity of the semaphore.  The lemmas up to SeedStepInv do not mention *)
(* SeedSpec: the proofs about the scenarios, which contain the steps of    *)
(* Seeding, use them too.                                                  *)
(***************************************************************************)
EXTENDS Seeding, FiniteSetTheorems, TLAPS

(* Subsets of Ids are finite, so their cardinalities are numbers. *)
LEMMA SubsetsOfIds ==
  ASSUME NEW S \in SUBSET Ids
  PROVE  IsFiniteSet(S) /\ Cardinality(S) \in Nat
  <1>1. IsFiniteSet(Ids)
    BY FS_Interval, ConnsAssumption DEF Ids
  <1>2. QED
    BY <1>1, FS_Subset, FS_CardinalityType

(* The recorder's methods keep the recorder's type; what each one adds. *)
LEMMA RecorderSteps ==
  ASSUME RecorderTypeOK
  PROVE  /\ \A n \in CounterNames : Inc(n) =>
              /\ RecorderTypeOK' /\ UNCHANGED <<hists, cmdErrors>>
              /\ counters' = [counters EXCEPT ![n] = @ + 1]
         /\ \A c \in Commands : Observe(c) => RecorderTypeOK'
         /\ \A c \in Commands : ObserveError(c) => RecorderTypeOK'
  BY DEF RecorderTypeOK, Inc, Add, Observe, ObserveError

(* The server's steps keep the type of the lobby. *)
LEMMA LobbySteps ==
  ASSUME LobbyTypeOK, NEW i \in Ids
  PROVE  /\ \A owner \in Owners : \A v : ServerLogin(i, owner, v) => LobbyTypeOK'
         /\ ServerLogout(i) => LobbyTypeOK'
  BY DEF LobbyTypeOK, ServerLogin, ServerLogout, Owners

(* Where a seeding goroutine may go without touching its slot. *)
Holding == {"dial", "register", "login", "confirm", "exit", "release"}

(* A goroutine that goes from one place where it holds a slot to another
   leaves the set of the slot holders as it was. *)
LEMMA SlotKept ==
  ASSUME seeder \in [Ids -> SeederStates], NEW i \in Ids, NEW state \in Holding,
         seeder[i] \in Holding, SeederTo(i, state)
  PROVE  /\ SlotHolders' = SlotHolders
         /\ seeder' \in [Ids -> SeederStates]
         /\ \A j \in Ids : seeder[j] = "idle" => seeder'[j] = "idle"
  BY DEF SlotHolders, SeederTo, Holding, SeederStates

(* A goroutine that is started adds one slot holder. *)
LEMMA SlotTaken ==
  ASSUME seeder \in [Ids -> SeederStates], NEW i \in Ids,
         seeder[i] = "idle", SeederTo(i, "dial")
  PROVE  Cardinality(SlotHolders') = Cardinality(SlotHolders) + 1
  <1>1. SlotHolders' = SlotHolders \cup {i} /\ i \notin SlotHolders
    BY DEF SlotHolders, SeederTo, SeederStates
  <1>2. IsFiniteSet(SlotHolders)
    BY SubsetsOfIds DEF SlotHolders
  <1>3. QED
    BY <1>1, <1>2, FS_AddElement

(* A goroutine that gives its slot back removes one. *)
LEMMA SlotReturned ==
  ASSUME seeder \in [Ids -> SeederStates], NEW i \in Ids,
         seeder[i] = "release", SeederTo(i, "done")
  PROVE  /\ Cardinality(SlotHolders') = Cardinality(SlotHolders) - 1
         /\ Cardinality(SlotHolders') \in Nat
         /\ SlotHolders' \subseteq SlotHolders
  <1>1. SlotHolders' = SlotHolders \ {i} /\ i \in SlotHolders
    BY DEF SlotHolders, SeederTo, SeederStates
  <1>2. IsFiniteSet(SlotHolders)
    BY SubsetsOfIds DEF SlotHolders
  <1>3. Cardinality(SlotHolders') \in Nat
    BY <1>1, SubsetsOfIds DEF SlotHolders
  <1>4. QED
    BY <1>1, <1>2, <1>3, FS_RemoveElement

(* Every step of a goroutine but its last goes from a place where it holds a
   slot to another, and keeps the types. *)
LEMMA SeederSteps ==
  ASSUME SeedTypes, NEW i \in Ids, Seeder(i), ~SeedRelease(i)
  PROVE  /\ seeder[i] \in Holding
         /\ \E state \in Holding : SeederTo(i, state)
         /\ UNCHANGED <<ctx, main, next, sem>>
         /\ RecorderTypeOK' /\ LobbyTypeOK'
  <1> USE RecorderSteps, LobbySteps, SeedingAssumption
      DEF Holding, SeedTypes, SeedCounters, Owners
  <1>1. CASE SeedDial(i)
    BY <1>1 DEF SeedDial, RecorderTypeOK, recorder, LobbyTypeOK, lobby
  <1>2. CASE SeedRegister(i)
    <2>1. LobbyTypeOK'
      BY <1>2 DEF SeedRegister, LobbyTypeOK, AccountStates
    <2>2. QED
      BY <1>2, <2>1 DEF SeedRegister, SeedReturn, RecorderTypeOK, recorder
  <1>3. CASE SeedLogin(i)
    <2>1. LobbyTypeOK'
      BY <1>3 DEF SeedLogin
    <2>2. QED
      BY <1>3, <2>1 DEF SeedLogin, SeedReturn, RecorderTypeOK, recorder
  <1>4. CASE SeedConfirm(i)
    <2>1. LobbyTypeOK'
      BY <1>4 DEF SeedConfirm, LobbyTypeOK, AccountStates
    <2>2. QED
      BY <1>4, <2>1 DEF SeedConfirm, SeedReturn
  <1>5. CASE SeedExit(i)
    BY <1>5 DEF SeedExit, RecorderTypeOK, recorder, LobbyTypeOK, lobby
  <1>6. QED
    BY <1>1, <1>2, <1>3, <1>4, <1>5 DEF Seeder
-----------------------------------------------------------------------------
(* The steps of the goroutines keep the invariant. *)
LEMMA SeederInv ==
  ASSUME SeedTypes, SlotInv, NEW i \in Ids, Seeder(i)
  PROVE  SeedTypes' /\ SlotInv'
  <1> USE ConnsAssumption, SeedingAssumption
  <1>1. CASE SeedRelease(i)
    <2>1. /\ Cardinality(SlotHolders') = Cardinality(SlotHolders) - 1
          /\ Cardinality(SlotHolders') \in Nat
          /\ SlotHolders' \subseteq SlotHolders
      BY <1>1, SlotReturned DEF SeedRelease, SeedTypes
    <2>2. seeder' \in [Ids -> SeederStates]
      BY <1>1 DEF SeedRelease, SeedTypes, SeederTo, SeederStates
    <2>3. SeedTypes'
      BY <1>1, <2>1, <2>2
      DEF SeedRelease, SeedTypes, SlotInv, RecorderTypeOK, recorder, LobbyTypeOK, lobby
    <2>4. \A j \in Ids : seeder[j] = "idle" => seeder'[j] = "idle"
      BY <1>1 DEF SeedRelease, SeedTypes, SeederTo
    <2>5. QED
      BY <1>1, <2>1, <2>3, <2>4 DEF SeedRelease, SeedTypes, SlotInv, Ids
  <1>2. CASE ~SeedRelease(i)
    <2>1. /\ seeder[i] \in Holding
          /\ \E state \in Holding : SeederTo(i, state)
          /\ UNCHANGED <<ctx, main, next, sem>>
          /\ RecorderTypeOK' /\ LobbyTypeOK'
      BY <1>2, SeederSteps
    <2>2. /\ SlotHolders' = SlotHolders
          /\ seeder' \in [Ids -> SeederStates]
          /\ \A j \in Ids : seeder[j] = "idle" => seeder'[j] = "idle"
      BY <2>1, SlotKept DEF SeedTypes
    <2>3. QED
      BY <2>1, <2>2 DEF SeedTypes, SlotInv, Ids
  <1>3. QED
    BY <1>1, <1>2

(* The steps of seedAccounts keep it. *)
LEMMA SeedMainInv ==
  ASSUME SeedTypes, SlotInv, SeedMain
  PROVE  SeedTypes' /\ SlotInv'
  <1> USE ConnsAssumption, SeedingAssumption
  <1> USE DEF SeedTypes, RecorderTypeOK, recorder, LobbyTypeOK, lobby
  <1>1. CASE SeedCheck
    BY <1>1 DEF SeedCheck, MoreToSeed, SlotInv, SlotHolders
  <1>2. CASE SeedSpawn
    <2>1. next \in Ids /\ seeder[next] = "idle"
      BY <1>2 DEF SeedSpawn, SlotInv, Ids
    <2>2. SeederTo(next, "dial")
      BY <1>2 DEF SeedSpawn, SeederTo
    <2>3. Cardinality(SlotHolders') = Cardinality(SlotHolders) + 1
      BY <2>1, <2>2, SlotTaken
    <2>4. sem' = Cardinality(SlotHolders') /\ sem' <= SeedConcurrency
      BY <1>2, <2>3 DEF SeedSpawn, SlotInv, SlotFree
    <2>5. SeedTypes'
      BY <1>2, <2>1, <2>4 DEF SeedSpawn, SeederStates, Ids
    <2>6. \A j \in next' .. Conns - 1 : seeder'[j] = "idle"
      BY <1>2 DEF SeedSpawn, SlotInv, Ids
    <2>7. QED
      BY <1>2, <2>4, <2>5, <2>6 DEF SeedSpawn, SlotInv
  <1>3. CASE SeedJoin
    BY <1>3 DEF SeedJoin, AllSeeded, SlotInv, SlotHolders
  <1>4. QED
    BY <1>1, <1>2, <1>3 DEF SeedMain

(* So do the server's steps and Ctrl-C. *)
LEMMA SeedEnvironmentInv ==
  ASSUME SeedTypes, SlotInv, (\E i \in Ids : SeedLogout(i)) \/ SeedInterrupt
  PROVE  SeedTypes' /\ SlotInv'
  <1>1. CASE \E i \in Ids : SeedLogout(i)
    <2>1. LobbyTypeOK'
      BY <1>1, LobbySteps DEF SeedLogout, SeedTypes
    <2>2. QED
      BY <1>1, <2>1
      DEF SeedLogout, SeedTypes, SlotInv, SlotHolders, RecorderTypeOK, recorder
  <1>2. CASE SeedInterrupt
    BY <1>2 DEF SeedInterrupt, SeedTypes, SlotInv, SlotHolders,
                RecorderTypeOK, recorder, LobbyTypeOK, lobby
  <1>3. QED
    BY <1>1, <1>2

(* The initial states satisfy it. *)
LEMMA SeedInitInv ==
  ASSUME SeedIdle, main \in {"seed", "seeded"}
  PROVE  SeedTypes /\ SlotInv
  <1>1. SlotHolders = {}
    BY DEF SeedIdle, SlotHolders
  <1>2. SeedTypes
    BY ConnsAssumption, SeedingAssumption
    DEF SeedIdle, SeedTypes, NewRecorder, RecorderTypeOK, LobbyInit, LobbyTypeOK,
        Owners, SeederStates
  <1>3. SlotInv
    BY <1>1, FS_EmptySet, ConnsAssumption, SeedingAssumption
    DEF SeedIdle, SlotInv, Ids
  <1>4. QED
    BY <1>2, <1>3
-----------------------------------------------------------------------------
(* SlotInv is inductive together with the types.  Nothing about the order in
   which the goroutines run, fail or are interrupted is assumed. *)
THEOREM SeedInvariant == SeedSpec => [](SeedTypeOK /\ SlotInv)
  <1>1. SeedInit => SeedTypeOK /\ SlotInv
    BY SeedInitInv DEF SeedTypeOK, SeedInit
  <1>2. SeedTypeOK /\ SlotInv /\ [SeedNext]_seedVars => (SeedTypeOK /\ SlotInv)'
    <2> SUFFICES ASSUME SeedTypeOK, SlotInv, [SeedNext]_seedVars
                 PROVE  (SeedTypeOK /\ SlotInv)'
      OBVIOUS
    <2>1. CASE SeedMain
      BY <2>1, SeedMainInv DEF SeedTypeOK, SeedMain, SeedCheck, SeedSpawn, SeedJoin
    <2>2. CASE \E i \in Ids : Seeder(i)
      <3>1. SeedTypes' /\ SlotInv'
        BY <2>2, SeederInv DEF SeedTypeOK
      <3>2. main' = main
        BY <2>2 DEF Seeder, SeedDial, SeedRegister, SeedLogin, SeedConfirm,
                    SeedExit, SeedRelease
      <3>3. QED
        BY <3>1, <3>2 DEF SeedTypeOK
    <2>3. CASE (\E i \in Ids : SeedLogout(i)) \/ SeedInterrupt
      BY <2>3, SeedEnvironmentInv DEF SeedTypeOK, SeedLogout, SeedInterrupt
    <2>4. CASE UNCHANGED seedVars
      BY <2>4 DEF seedVars, recorder, lobby, SeedTypeOK, SeedTypes, SlotInv,
                  SlotHolders, RecorderTypeOK, LobbyTypeOK
    <2>5. QED
      BY <2>1, <2>2, <2>3, <2>4 DEF SeedNext
  <1>3. QED
    BY <1>1, <1>2, PTL DEF SeedSpec

(* Type correctness: with it, that the loop variable stays within Conns and the
   semaphore within its capacity. *)
THEOREM SeedTypeCorrect == SeedSpec => []SeedTypeOK
  BY SeedInvariant, PTL

(* However many accounts are seeded, at most SeedConcurrency of the seed
   connections are open at a time: the goroutines with an open connection are
   among the slot holders, whose number is the semaphore's. *)
THEOREM SeedConcurrencyBounded == SeedSpec => []SeedBounded
  <1>1. SeedTypeOK /\ SlotInv => SeedBounded
    <2> SUFFICES ASSUME SeedTypeOK, SlotInv PROVE SeedBounded
      OBVIOUS
    <2>1. SeedConnected \subseteq SlotHolders
      BY DEF SeedConnected, SlotHolders
    <2>2. Cardinality(SeedConnected) <= Cardinality(SlotHolders)
      BY <2>1, SubsetsOfIds, FS_Subset DEF SlotHolders
    <2>3. Cardinality(SeedConnected) \in Nat /\ Cardinality(SlotHolders) \in Nat
      BY SubsetsOfIds DEF SeedConnected, SlotHolders
    <2>4. QED
      BY <2>2, <2>3, SeedingAssumption DEF SlotInv, SeedBounded
  <1>2. QED
    BY <1>1, SeedInvariant, PTL

-----------------------------------------------------------------------------
(* The books of the seeding. *)
Pending == {"dial", "register", "login", "confirm"}

(* What a step of one goroutine does to the number of the pending ones. *)
LEMMA PendingSteps ==
  ASSUME seeder \in [Ids -> SeederStates], NEW i \in Ids, NEW state, SeederTo(i, state)
  PROVE  /\ Cardinality(SeedPending) \in Nat /\ Cardinality(SeedPending') \in Nat
         /\ (seeder[i] \in Pending <=> state \in Pending) => SeedPending' = SeedPending
         /\ seeder[i] \in Pending /\ state \notin Pending =>
              Cardinality(SeedPending') = Cardinality(SeedPending) - 1
         /\ seeder[i] \notin Pending /\ state \in Pending =>
              Cardinality(SeedPending') = Cardinality(SeedPending) + 1
  <1>1. SeedPending \subseteq Ids /\ SeedPending' \subseteq Ids
    BY DEF SeedPending
  <1>2. IsFiniteSet(SeedPending) /\ IsFiniteSet(SeedPending')
        /\ Cardinality(SeedPending) \in Nat /\ Cardinality(SeedPending') \in Nat
    BY <1>1, SubsetsOfIds
  <1>3. \A j \in Ids : seeder'[j] = IF j = i THEN state ELSE seeder[j]
    BY DEF SeederTo
  <1>4. (seeder[i] \in Pending <=> state \in Pending) => SeedPending' = SeedPending
    BY <1>3 DEF SeedPending, Pending
  <1>5. seeder[i] \in Pending /\ state \notin Pending =>
          SeedPending' = SeedPending \ {i} /\ i \in SeedPending
    BY <1>3 DEF SeedPending, Pending
  <1>6. seeder[i] \notin Pending /\ state \in Pending =>
          SeedPending' = SeedPending \cup {i} /\ i \notin SeedPending
    BY <1>3 DEF SeedPending, Pending
  <1>7. QED
    BY <1>2, <1>4, <1>5, <1>6, FS_AddElement, FS_RemoveElement

(* Counting one outcome adds one to the sum of the three counters. *)
LEMMA SeedCountedSteps ==
  ASSUME RecorderTypeOK
  PROVE  /\ SeedCounted \in Nat
         /\ \A n \in SeedCounters : Inc(n) => SeedCounted' = SeedCounted + 1
         /\ UNCHANGED counters => SeedCounted' = SeedCounted
  BY SeedingAssumption DEF RecorderTypeOK, SeedCounted, SeedCounters, Inc, Add

(* A goroutine that returns from EnsureAccount is counted once, and is pending
   no more; no other step of it touches the books. *)
LEMMA SeederAccounting ==
  ASSUME SeedTypes, SeedAccounting, NEW i \in Ids, Seeder(i)
  PROVE  SeedAccounting'
  <1> USE PendingSteps, SeedCountedSteps
      DEF SeedTypes, SeedAccounting, Pending, SeedCounters, recorder
  <1>1. CASE SeedDial(i)
    BY <1>1 DEF SeedDial
  <1>2. CASE SeedRegister(i)
    BY <1>2 DEF SeedRegister, SeedReturn
  <1>3. CASE SeedLogin(i)
    BY <1>3 DEF SeedLogin, SeedReturn
  <1>4. CASE SeedConfirm(i)
    BY <1>4 DEF SeedConfirm, SeedReturn
  <1>5. CASE SeedExit(i)
    BY <1>5 DEF SeedExit
  <1>6. CASE SeedRelease(i)
    BY <1>6 DEF SeedRelease
  <1>7. QED
    BY <1>1, <1>2, <1>3, <1>4, <1>5, <1>6 DEF Seeder

(* A goroutine that is started was idle, by SlotInv, so it is a new pending
   one; the other steps of seedAccounts start none. *)
LEMMA SeedMainAccounting ==
  ASSUME SeedTypes, SlotInv, SeedAccounting, SeedMain
  PROVE  SeedAccounting'
  <1> USE SeedCountedSteps DEF SeedTypes, SeedAccounting, recorder
  <1>1. CASE SeedCheck \/ SeedJoin
    BY <1>1 DEF SeedCheck, SeedJoin, SeedPending
  <1>2. CASE SeedSpawn
    <2>1. next \in Ids /\ seeder[next] = "idle"
      BY <1>2, ConnsAssumption DEF SeedSpawn, SlotInv, Ids
    <2>2. SeederTo(next, "dial")
      BY <1>2 DEF SeedSpawn, SeederTo
    <2>3. Cardinality(SeedPending') = Cardinality(SeedPending) + 1
          /\ Cardinality(SeedPending) \in Nat
      BY <2>1, <2>2, PendingSteps DEF Pending
    <2>4. QED
      BY <1>2, <2>3 DEF SeedSpawn
  <1>3. QED
    BY <1>1, <1>2 DEF SeedMain

(* Every account that was started is pending or counted exactly once, at every
   moment and on every path through the failures. *)
THEOREM SeedAccountingHolds == SeedSpec => []SeedAccounting
  <1>1. SeedInit => SeedAccounting
    <2> SUFFICES ASSUME SeedInit PROVE SeedAccounting
      OBVIOUS
    <2>1. SeedPending = {}
      BY DEF SeedInit, SeedIdle, SeedPending
    <2>2. QED
      BY <2>1, FS_EmptySet, SeedingAssumption
      DEF SeedInit, SeedIdle, NewRecorder, SeedAccounting, SeedCounted, SeedCounters
  <1>2. SeedTypeOK /\ SlotInv /\ SeedAccounting /\ [SeedNext]_seedVars => SeedAccounting'
    <2> SUFFICES ASSUME SeedTypeOK, SlotInv, SeedAccounting, [SeedNext]_seedVars
                 PROVE  SeedAccounting'
      OBVIOUS
    <2>1. CASE SeedMain
      BY <2>1, SeedMainAccounting DEF SeedTypeOK
    <2>2. CASE \E i \in Ids : Seeder(i)
      BY <2>2, SeederAccounting DEF SeedTypeOK
    <2>3. CASE (\E i \in Ids : SeedLogout(i)) \/ SeedInterrupt \/ UNCHANGED seedVars
      BY <2>3 DEF SeedLogout, SeedInterrupt, seedVars, recorder, SeedAccounting,
                  SeedCounted, SeedPending
    <2>4. QED
      BY <2>1, <2>2, <2>3 DEF SeedNext
  <1>3. QED
    BY <1>1, <1>2, SeedInvariant, PTL DEF SeedSpec
-----------------------------------------------------------------------------
(* The barrier of the timed phase: what seed_ok counts. *)

(* An account that is settled stays so; one whose goroutine returns, confirmed,
   is one more. *)
LEMMA SettledSteps ==
  ASSUME NEW i \in Ids,
         \A j \in Ids \ {i} : account'[j] = account[j] /\ seeder'[j] = seeder[j],
         i \in Settled => i \in Settled'
  PROVE  /\ Cardinality(Settled) \in Nat /\ Cardinality(Settled') \in Nat
         /\ Cardinality(Settled) <= Cardinality(Settled')
         /\ i \notin Settled /\ i \in Settled' =>
              Cardinality(Settled') = Cardinality(Settled) + 1
  <1>1. Settled \subseteq Ids /\ Settled' \subseteq Ids /\ Settled \subseteq Settled'
    BY DEF Settled
  <1>2. IsFiniteSet(Settled) /\ IsFiniteSet(Settled')
        /\ Cardinality(Settled) \in Nat /\ Cardinality(Settled') \in Nat
    BY <1>1, SubsetsOfIds
  <1>3. Cardinality(Settled) <= Cardinality(Settled')
    BY <1>1, <1>2, FS_Subset
  <1>4. i \notin Settled /\ i \in Settled' => Settled' = Settled \cup {i}
    BY <1>1 DEF Settled
  <1>5. QED
    BY <1>2, <1>3, <1>4, FS_AddElement

(* A goroutine counts seed_ok only as it returns, for an account that the server
   has confirmed by then: it accepted the LOGIN or the confirmation, or another
   session of the account is on, which takes a confirmed account. *)
LEMMA SeederConfirmed ==
  ASSUME SeedTypes, ConfirmedInv, NEW i \in Ids, Seeder(i)
  PROVE  ConfirmedInv'
  <1> USE SeedingAssumption DEF SeedTypes, RecorderTypeOK, LobbyTypeOK, SeedCounters
  <1>1. \A j \in Ids : online'[j] # "none" => account'[j] = "confirmed"
    BY DEF Seeder, SeedDial, SeedRegister, SeedLogin, SeedConfirm, SeedExit, SeedRelease,
           ServerLogin, LoginVerdicts, ConfirmedInv, lobby, AccountStates
  <1>2. \A j \in Ids \ {i} : account'[j] = account[j] /\ seeder'[j] = seeder[j]
    BY DEF Seeder, SeedDial, SeedRegister, SeedLogin, SeedConfirm, SeedExit, SeedRelease,
           SeedReturn, SeederTo, ServerLogin, lobby
  <1>3. i \in Settled => i \in Settled'
    BY DEF Seeder, SeedDial, SeedRegister, SeedLogin, SeedConfirm, SeedExit, SeedRelease,
           SeederTo, Settled, lobby
  <1>4. \/ counters'["seed_ok"] = counters["seed_ok"]
        \/ /\ counters'["seed_ok"] = counters["seed_ok"] + 1
           /\ i \notin Settled /\ i \in Settled'
    <2>1. CASE SeedDial(i)
      BY <2>1 DEF SeedDial, Inc, Add, recorder
    <2>2. CASE SeedRegister(i)
      BY <2>2 DEF SeedRegister, SeedReturn, Inc, Add, recorder
    <2>3. CASE SeedLogin(i)
      <3>1. PICK verdict \in LoginVerdicts(i) :
              /\ ServerLogin(i, "seed", verdict)
              /\ \/ verdict \in {"ACCEPTED", "ALREADY"} /\ SeedReturn(i, "seed_ok")
                 \/ SeederTo(i, "confirm") /\ UNCHANGED recorder
                 \/ SeedReturn(i, "seed_error")
        BY <2>3 DEF SeedLogin
      <3>2. verdict \in {"ACCEPTED", "ALREADY"} => account[i] = "confirmed"
        BY DEF LoginVerdicts, ConfirmedInv, AccountStates
      <3>3. account' = account /\ seeder[i] = "login"
        BY <2>3, <3>1 DEF SeedLogin, ServerLogin
      <3>4. QED
        BY <3>1, <3>2, <3>3 DEF SeedReturn, SeederTo, Inc, Add, recorder, Settled
    <2>4. CASE SeedConfirm(i)
      BY <2>4 DEF SeedConfirm, SeedReturn, SeederTo, Inc, Add, Settled
    <2>5. CASE SeedExit(i) \/ SeedRelease(i)
      BY <2>5 DEF SeedExit, SeedRelease, recorder
    <2>6. QED
      BY <2>1, <2>2, <2>3, <2>4, <2>5 DEF Seeder
  <1>5. QED
    BY <1>1, <1>2, <1>3, <1>4, SettledSteps DEF ConfirmedInv

(* seedAccounts starts a goroutine that was idle, and the server only ends
   sessions. *)
LEMMA OthersConfirmed ==
  ASSUME SeedTypes, SlotInv, ConfirmedInv,
         SeedMain \/ (\E i \in Ids : SeedLogout(i)) \/ SeedInterrupt
  PROVE  ConfirmedInv'
  <1>1. CASE SeedSpawn
    <2>1. next \in Ids /\ seeder[next] = "idle"
      BY <1>1, ConnsAssumption DEF SeedSpawn, SlotInv, SeedTypes, Ids
    <2>2. Settled' = Settled
      BY <1>1, <2>1 DEF SeedSpawn, SeedTypes, Settled, lobby
    <2>3. QED
      BY <1>1, <2>2 DEF SeedSpawn, ConfirmedInv, recorder, lobby
  <1>2. CASE \E i \in Ids : SeedLogout(i)
    <2>1. Settled' = Settled
      BY <1>2 DEF SeedLogout, ServerLogout, Settled
    <2>2. QED
      BY <1>2, <2>1 DEF SeedLogout, ServerLogout, ConfirmedInv, recorder, SeedTypes, LobbyTypeOK
  <1>3. CASE SeedCheck \/ SeedJoin \/ SeedInterrupt
    BY <1>3 DEF SeedCheck, SeedJoin, SeedInterrupt, ConfirmedInv, Settled, recorder, lobby
  <1>4. QED
    BY <1>1, <1>2, <1>3 DEF SeedMain

(* What the timed phase relies on: there are as many confirmed accounts as
   seed_ok says, at least, whatever answers were lost on the way. *)
THEOREM SeedOkMeansConfirmed == SeedSpec => []SeededAreConfirmed
  <1>1. SeedInit => ConfirmedInv
    <2> SUFFICES ASSUME SeedInit PROVE ConfirmedInv
      OBVIOUS
    <2>1. counters["seed_ok"] = 0
      BY SeedingAssumption DEF SeedInit, SeedIdle, NewRecorder, SeedCounters
    <2>2. Cardinality(Settled) \in Nat
      BY SubsetsOfIds DEF Settled
    <2>3. QED
      BY <2>1, <2>2 DEF SeedInit, SeedIdle, LobbyInit, ConfirmedInv
  <1>2. SeedTypeOK /\ SlotInv /\ ConfirmedInv /\ [SeedNext]_seedVars => ConfirmedInv'
    <2> SUFFICES ASSUME SeedTypeOK, SlotInv, ConfirmedInv, [SeedNext]_seedVars
                 PROVE  ConfirmedInv'
      OBVIOUS
    <2>1. CASE UNCHANGED seedVars
      BY <2>1 DEF seedVars, recorder, lobby, ConfirmedInv, Settled
    <2>2. QED
      BY <2>1, SeederConfirmed, OthersConfirmed DEF SeedNext, SeedTypeOK, seedVars
  <1>3. SeedTypeOK /\ ConfirmedInv => SeededAreConfirmed
    <2> SUFFICES ASSUME SeedTypeOK, ConfirmedInv PROVE SeededAreConfirmed
      OBVIOUS
    <2> DEFINE Confirmed == {i \in Ids : account[i] = "confirmed"}
    <2>1. Settled \subseteq Confirmed /\ Confirmed \subseteq Ids
      BY DEF Settled
    <2>2. Cardinality(Settled) <= Cardinality(Confirmed)
          /\ Cardinality(Settled) \in Nat /\ Cardinality(Confirmed) \in Nat
      BY <2>1, SubsetsOfIds, FS_Subset
    <2>3. counters["seed_ok"] \in Nat
      BY SeedingAssumption DEF SeedTypeOK, SeedTypes, RecorderTypeOK, SeedCounters
    <2>4. QED
      BY <2>2, <2>3 DEF ConfirmedInv, SeededAreConfirmed
  <1>4. QED
    BY <1>1, <1>2, <1>3, SeedInvariant, PTL DEF SeedSpec
=============================================================================
