---------------------------- MODULE ExecuteProofs ---------------------------
(***************************************************************************)
(* Theorems about Execute, for any number of workers and of pingers.       *)
(***************************************************************************)
EXTENDS Execute, TLAPS, FiniteSetTheorems

Inv == TypeOK /\ ShutdownInv

(* The recorder's methods keep the recorder's type. *)
LEMMA RecorderSteps ==
  ASSUME RecorderTypeOK
  PROVE  /\ \A n : Inc(n) => RecorderTypeOK'
         /\ \A c : Observe(c) \/ ObserveError(c) => RecorderTypeOK'
         /\ UNCHANGED recorder => RecorderTypeOK'
  BY DEF RecorderTypeOK, Inc, Add, Observe, ObserveError, recorder

(* The scenario. No worker moves once Run has returned: none is on its way, and
   none is started. *)
LEMMA WorkerInv ==
  ASSUME Inv, NEW w \in Workers, WorkerStart(w) \/ Worker(w)
  PROVE  Inv'
  <1>1. RecorderTypeOK'
    BY RecorderSteps
    DEF Inv, TypeOK, WorkerStart, Worker, WorkerDial, WorkerOp, WorkerCount, WorkerJoin,
        WorkerStop
  <1>2. main = "running"
    BY DEF Inv, ShutdownInv, WorkersReturned, WorkerStart, Worker, WorkerDial, WorkerOp,
           WorkerCount, WorkerJoin, WorkerStop
  <1>3. PICK state \in {"dial", "op", "ok", "bad", "done"} : WorkerTo(w, state)
    BY DEF Inv, TypeOK, WorkerTo, WorkerStart, Worker, WorkerDial, WorkerOp, WorkerCount,
           WorkerJoin, WorkerStop
  <1>4. WorkerElse
    BY DEF WorkerStart, Worker, WorkerDial, WorkerOp, WorkerCount, WorkerJoin, WorkerStop
  <1>5. TypeOK'
    BY <1>1, <1>3, <1>4 DEF WorkerTo, WorkerElse, contexts, probe, progress, Inv, TypeOK
  <1>6. ShutdownInv'
    BY <1>2, <1>4 DEF WorkerElse, contexts, probe, progress, Inv, ShutdownInv
  <1>7. QED
    BY <1>5, <1>6 DEF Inv

(* The pingers. One that is done stays so, and none is done before its context
   is. *)
LEMMA PingerInv ==
  ASSUME Inv, NEW p \in Pingers, Pinger(p) \/ Tick(p)
  PROVE  Inv'
  <1>1. CASE Pinger(p)
    <2>1. RecorderTypeOK'
      BY <1>1, RecorderSteps
      DEF Inv, TypeOK, Pinger, PingerTop, PingerDial, PingerSleep, PingStart, PingReply,
          PingCount, PingStop, PingerClose
    <2>2. pinger[p] # "done"
      BY <1>1 DEF Pinger, PingerTop, PingerDial, PingerSleep, PingStart, PingReply,
                  PingCount, PingStop, PingerClose
    <2>3. PICK state \in {"top", "dial", "sleep", "loop", "ping", "failed", "close", "done"} :
             PingerTo(p, state) /\ (state = "done" => pctx = "cancelled")
      BY <1>1 DEF Pinger, PingerTop, PingerDial, PingerSleep, PingStart, PingReply,
                  PingCount, PingStop, PingerClose, Inv, TypeOK
    <2>4. PingerElse
      BY <1>1 DEF Pinger, PingerTop, PingerDial, PingerSleep, PingStart, PingReply,
                  PingCount, PingStop, PingerClose
    <2>5. ticker' \in [Pingers -> {"empty", "full"}]
      BY <1>1 DEF Pinger, PingerTop, PingerDial, PingerSleep, PingStart, PingReply,
                  PingCount, PingStop, PingerClose, Inv, TypeOK
    <2>6. TypeOK'
      BY <2>1, <2>3, <2>4, <2>5
      DEF PingerTo, PingerElse, contexts, progress, Inv, TypeOK
    <2>7. main \notin {"returned", "reported"}
      BY <2>2 DEF Inv, ShutdownInv, PingersDone
    <2>8. ShutdownInv'
      BY <2>3, <2>4, <2>7
      DEF PingerTo, PingerElse, contexts, progress, Inv, TypeOK, ShutdownInv, WorkersReturned
    <2>9. QED
      BY <2>6, <2>8 DEF Inv
  <1>2. CASE Tick(p)
    BY <1>2, RecorderSteps
    DEF Tick, PingerElse, contexts, progress, Inv, TypeOK, ShutdownInv, WorkersReturned,
        PingersDone
  <1>3. QED
    BY <1>1, <1>2

(* The progress emitter. It leaves its loop only once Run has returned. *)
LEMMA EmitterInv ==
  ASSUME Inv, EmitterTick \/ EmitterPrint \/ EmitterStop
  PROVE  Inv'
  <1>1. EmitterElse /\ emitter # "done" /\ emitter' \in {"wait", "emit", "done"}
    BY DEF EmitterTick, EmitterPrint, EmitterStop
  <1>2. TypeOK'
    BY <1>1, RecorderSteps DEF EmitterElse, contexts, probe, Inv, TypeOK
  <1>3. ShutdownInv'
    BY <1>1 DEF EmitterElse, contexts, probe, Inv, ShutdownInv, WorkersReturned, PingersDone
  <1>4. QED
    BY <1>2, <1>3 DEF Inv

(* Execute and cmdLoad. Each wait establishes its part of the invariant. *)
LEMMA MainInv ==
  ASSUME Inv, Main
  PROVE  Inv'
  <1> USE DEF MainTo, MainElse, contexts, probe, progress
  <1>1. TypeOK'
    BY RecorderSteps
    DEF Main, ScenarioReturns, StopPingers, ExecuteReturns, WriteReport, Inv, TypeOK,
        ShutdownInv
  <1>2. CASE ScenarioReturns
    BY <1>1, <1>2 DEF ScenarioReturns, Inv, ShutdownInv, WorkersReturned
  <1>3. CASE StopPingers
    BY <1>1, <1>3 DEF StopPingers, EmitterDone, Inv, ShutdownInv, WorkersReturned
  <1>4. CASE ExecuteReturns
    BY <1>1, <1>4 DEF ExecuteReturns, PingersDone, Inv, ShutdownInv, WorkersReturned
  <1>5. CASE WriteReport
    BY <1>1, <1>5 DEF WriteReport, PingersDone, Inv, ShutdownInv, WorkersReturned
  <1>6. QED
    BY <1>2, <1>3, <1>4, <1>5 DEF Main

(* The inductive invariant of Execute. *)
THEOREM Invariant == Spec => []Inv
  <1>1. Init => Inv
    BY ExecuteAssumption
    DEF Init, NewRecorder, RecorderTypeOK, Inv, TypeOK, ShutdownInv, NoReport
  <1>2. Inv /\ [Next]_vars => Inv'
    <2> SUFFICES ASSUME Inv, [Next]_vars PROVE Inv'
      OBVIOUS
    <2>1. CASE Main
      BY <2>1, MainInv
    <2>2. CASE \E w \in Workers : WorkerStart(w) \/ Worker(w)
      BY <2>2, WorkerInv
    <2>3. CASE \E p \in Pingers : Pinger(p) \/ Tick(p)
      BY <2>3, PingerInv
    <2>4. CASE EmitterTick \/ EmitterPrint \/ EmitterStop
      BY <2>4, EmitterInv
    <2>5. CASE Interrupt
      BY <2>5, RecorderSteps
      DEF Interrupt, probe, progress, Inv, TypeOK, ShutdownInv, WorkersReturned, PingersDone
    <2>6. CASE UNCHANGED vars
      BY <2>6, RecorderSteps
      DEF vars, contexts, probe, progress, Inv, TypeOK, ShutdownInv, WorkersReturned,
          PingersDone
    <2>7. QED
      BY <2>1, <2>2, <2>3, <2>4, <2>5, <2>6 DEF Next
  <1>3. QED
    BY <1>1, <1>2, PTL DEF Spec

(* When Execute returns, its scenario, its pingers and its emitter are gone. *)
THEOREM ExecuteIsQuiescent == Spec => []QuiescentExecute
  <1>1. Inv => QuiescentExecute
    BY DEF Inv, ShutdownInv, QuiescentExecute
  <1>2. QED
    BY <1>1, Invariant, PTL

(* Unless there is a Ctrl-C, no pinger stops before the scenario. *)
THEOREM PingersCover == Spec => []PingersCoverLoad
  <1>1. Inv => PingersCoverLoad
    BY DEF Inv, ShutdownInv, PingersCoverLoad
  <1>2. QED
    BY <1>1, Invariant, PTL

(* The report is the recorder's last word: with every goroutine stopped there
   is nobody left to record. *)
THEOREM ReportFinal == Spec => ReportIsFinal
  <1>1. Inv /\ [Next]_vars => [report # NoReport => UNCHANGED recorder]_vars
    <2> SUFFICES ASSUME Inv, Next, report # NoReport PROVE UNCHANGED recorder
      OBVIOUS
    <2>1. WorkersReturned /\ PingersDone /\ main = "reported"
      BY DEF Inv, ShutdownInv
    <2>2. \A w \in Workers : ~WorkerStart(w) /\ ~Worker(w)
      BY <2>1 DEF WorkersReturned, WorkerStart, Worker, WorkerDial, WorkerOp, WorkerCount,
                  WorkerJoin, WorkerStop
    <2>3. \A p \in Pingers : ~Pinger(p)
      BY <2>1 DEF PingersDone, Pinger, PingerTop, PingerDial, PingerSleep, PingStart,
                  PingReply, PingCount, PingStop, PingerClose
    <2>4. QED
      BY <2>1, <2>2, <2>3
      DEF Next, Main, MainTo, MainElse, ScenarioReturns, StopPingers, ExecuteReturns,
          WriteReport, Tick, EmitterTick, EmitterPrint, EmitterStop, EmitterElse,
          Interrupt, vars
  <1>2. QED
    BY <1>1, Invariant, PTL DEF Spec, ReportIsFinal
-----------------------------------------------------------------------------
(* Total. The iteration of the fold picks the keys in an order of its own; the
   sum is the same in any order. *)

Pick(s) == CHOOSE x \in s : TRUE

IsSum(f, map, keys) ==
  f = [s \in SUBSET keys |-> IF s = {} THEN 0 ELSE map[Pick(s)] + f[s \ {Pick(s)}]]

SumOn(map, keys) == CHOOSE f : IsSum(f, map, keys)

(* Among subsets of a finite set there is a smallest one. *)
LEMMA LeastSubset ==
  ASSUME NEW S, IsFiniteSet(S), NEW T, T \subseteq SUBSET S, T # {}
  PROVE  \E x \in T : \A y \in SUBSET S : y \subseteq x /\ y # x => y \notin T
  <1>1. T \subseteq FiniteSubsetsOf(S)
    BY FS_FiniteSubsetsOfFinite
  <1>2. \E x \in T : \A y \in T : <<y, x>> \notin StrictSubsetOrdering(S)
    BY <1>1, FS_StrictSubsetOrderingWellFounded, WFMin
  <1>3. QED
    BY <1>2 DEF StrictSubsetOrdering

LEMMA PickIn == ASSUME NEW s, s # {} PROVE Pick(s) \in s
  BY DEF Pick

(* The sums over the subsets of a set are also those over a subset's. *)
LEMMA SumRestricts ==
  ASSUME NEW map, NEW S, NEW f, IsSum(f, map, S), NEW T, T \subseteq S
  PROVE  IsSum([s \in SUBSET T |-> f[s]], map, T)
  <1> DEFINE g == [s \in SUBSET T |-> f[s]]
  <1>1. \A s \in SUBSET S : f[s] = IF s = {} THEN 0 ELSE map[Pick(s)] + f[s \ {Pick(s)}]
    BY DEF IsSum
  <1>2. \A s \in SUBSET T : g[s] = IF s = {} THEN 0 ELSE map[Pick(s)] + g[s \ {Pick(s)}]
    BY <1>1
  <1>3. g = [s \in SUBSET T |-> IF s = {} THEN 0 ELSE map[Pick(s)] + g[s \ {Pick(s)}]]
    BY <1>2
  <1>4. QED
    BY <1>3 DEF IsSum

LEMMA SumUnique ==
  ASSUME NEW map, NEW S, IsFiniteSet(S), NEW f, IsSum(f, map, S), NEW g, IsSum(g, map, S)
  PROVE  f = g
  <1>1. \A s \in SUBSET S : /\ f[s] = IF s = {} THEN 0 ELSE map[Pick(s)] + f[s \ {Pick(s)}]
                           /\ g[s] = IF s = {} THEN 0 ELSE map[Pick(s)] + g[s \ {Pick(s)}]
    BY DEF IsSum
  <1>2. ASSUME {s \in SUBSET S : f[s] # g[s]} # {} PROVE FALSE
    <2>1. PICK s \in SUBSET S : /\ f[s] # g[s]
                               /\ \A t \in SUBSET S : f[t] # g[t] => ~(t \subseteq s /\ t # s)
      <3> DEFINE T == {s \in SUBSET S : f[s] # g[s]}
      <3>1. T \subseteq SUBSET S /\ T # {}
        BY <1>2
      <3> HIDE DEF T
      <3>2. \E x \in T : \A y \in SUBSET S : y \subseteq x /\ y # x => y \notin T
        BY <3>1, LeastSubset
      <3>3. QED
        BY <3>2 DEF T
    <2>2. s # {}
      BY <1>1, <2>1
    <2>3. s \ {Pick(s)} \in SUBSET S /\ s \ {Pick(s)} # s
      BY <2>2, PickIn
    <2>4. f[s \ {Pick(s)}] = g[s \ {Pick(s)}]
      BY <2>1, <2>3
    <2>5. QED
      BY <1>1, <2>1, <2>4
  <1>3. \A s \in SUBSET S : f[s] = g[s]
    BY <1>2
  <1>4. f = [s \in SUBSET S |-> f[s]] /\ g = [s \in SUBSET S |-> g[s]]
    BY DEF IsSum
  <1>5. QED
    BY <1>3, <1>4

LEMMA SumExists ==
  ASSUME NEW map, NEW S, IsFiniteSet(S)
  PROVE  IsSum(SumOn(map, S), map, S)
  <1> DEFINE Bad == {R \in SUBSET S : ~\E f : IsSum(f, map, R)}
  <1>1. ASSUME Bad # {} PROVE FALSE
    <2>1. PICK R \in Bad : \A t \in SUBSET S : t \subseteq R /\ t # R => \E f : IsSum(f, map, t)
      <3>1. Bad \subseteq SUBSET S
        OBVIOUS
      <3> HIDE DEF Bad
      <3>2. \E x \in Bad : \A y \in SUBSET S : y \subseteq x /\ y # x => y \notin Bad
        BY <1>1, <3>1, LeastSubset
      <3>3. QED
        BY <3>2 DEF Bad
    <2> DEFINE It(t) == SumOn(map, t)
               F == [s \in SUBSET R |-> IF s = {} THEN 0
                                        ELSE map[Pick(s)] + It(s \ {Pick(s)})[s \ {Pick(s)}]]
    <2>2. \A t \in SUBSET R : t # R => IsSum(It(t), map, t) /\ IsFiniteSet(t)
      BY <2>1, FS_Subset DEF SumOn
    <2> HIDE DEF It
    <2>3. ASSUME NEW t \in SUBSET R, t # R
          PROVE  F[t] = It(t)[t]
      <3>1. It(t)[t] = IF t = {} THEN 0 ELSE map[Pick(t)] + It(t)[t \ {Pick(t)}]
        BY <2>2, <2>3 DEF IsSum
      <3>2. CASE t = {}
        BY <3>1, <3>2
      <3>3. CASE t # {}
        <4> DEFINE u == t \ {Pick(t)}
        <4>1. u \subseteq t /\ u \in SUBSET R /\ u # R
          BY <2>3
        <4>2. IsSum([s \in SUBSET u |-> It(t)[s]], map, u)
          BY <2>2, <2>3, <4>1, SumRestricts
        <4>3. [s \in SUBSET u |-> It(t)[s]] = It(u)
          BY <2>2, <4>1, <4>2, SumUnique
        <4>4. It(u)[u] = [s \in SUBSET u |-> It(t)[s]][u]
          BY <4>3
        <4>5. It(u)[u] = It(t)[u]
          BY <4>4
        <4>6. QED
          BY <3>1, <3>3, <4>5
      <3>4. QED
        BY <3>2, <3>3
    <2>4. \A s \in SUBSET R : s # {} => s \ {Pick(s)} \in SUBSET R /\ s \ {Pick(s)} # R
      BY PickIn
    <2>5. \A s \in SUBSET R : F[s] = IF s = {} THEN 0 ELSE map[Pick(s)] + F[s \ {Pick(s)}]
      BY <2>3, <2>4
    <2>6. F = [s \in SUBSET R |-> F[s]]
      OBVIOUS
    <2> HIDE DEF F
    <2>7. F = [s \in SUBSET R |-> IF s = {} THEN 0 ELSE map[Pick(s)] + F[s \ {Pick(s)}]]
      BY <2>5, <2>6
    <2>8. IsSum(F, map, R)
      BY <2>7 DEF IsSum
    <2>9. QED
      BY <2>8
  <1>2. \E f : IsSum(f, map, S)
    BY <1>1
  <1>3. QED
    BY <1>2 DEF SumOn

(* What a total is, by the key that is picked first. *)
LEMMA TotalPick ==
  ASSUME NEW map, NEW S, IsFiniteSet(S)
  PROVE  Total(map, S) = IF S = {} THEN 0 ELSE map[Pick(S)] + Total(map, S \ {Pick(S)})
  <1>1. \A R : Total(map, R) = SumOn(map, R)[R]
    BY DEF Total, FoldFunctionOnSet, MapThenFoldSet, SumOn, IsSum, Pick
  <1>2. IsSum(SumOn(map, S), map, S)
    BY SumExists
  <1>3. SumOn(map, S)[S] = IF S = {} THEN 0
                           ELSE map[Pick(S)] + SumOn(map, S)[S \ {Pick(S)}]
    BY <1>2 DEF IsSum
  <1> DEFINE u == S \ {Pick(S)}
  <1>4. IsFiniteSet(u) /\ u \subseteq S
    BY FS_Subset
  <1>5. IsSum(SumOn(map, u), map, u) /\ IsSum([s \in SUBSET u |-> SumOn(map, S)[s]], map, u)
    BY <1>2, <1>4, SumExists, SumRestricts
  <1>6. SumOn(map, u) = [s \in SUBSET u |-> SumOn(map, S)[s]]
    BY <1>4, <1>5, SumUnique
  <1>7. SumOn(map, u)[u] = SumOn(map, S)[u]
    <2>1. SumOn(map, u)[u] = [s \in SUBSET u |-> SumOn(map, S)[s]][u]
      BY <1>6
    <2>2. QED
      BY <2>1
  <1>8. QED
    BY <1>1, <1>3, <1>7

LEMMA TotalType ==
  ASSUME NEW map, NEW S, IsFiniteSet(S), \A x \in S : map[x] \in Nat
  PROVE  Total(map, S) \in Nat
  <1> DEFINE Bad == {R \in SUBSET S : Total(map, R) \notin Nat}
  <1>1. ASSUME Bad # {} PROVE FALSE
    <2>1. PICK R \in Bad : \A t \in SUBSET S : t \subseteq R /\ t # R => Total(map, t) \in Nat
      <3>1. Bad \subseteq SUBSET S
        OBVIOUS
      <3> HIDE DEF Bad
      <3>2. \E x \in Bad : \A y \in SUBSET S : y \subseteq x /\ y # x => y \notin Bad
        BY <1>1, <3>1, LeastSubset
      <3>3. QED
        BY <3>2 DEF Bad
    <2>2. Total(map, R) = IF R = {} THEN 0 ELSE map[Pick(R)] + Total(map, R \ {Pick(R)})
      BY TotalPick, FS_Subset
    <2>3. R # {} => Total(map, R \ {Pick(R)}) \in Nat /\ map[Pick(R)] \in Nat
      BY <2>1, PickIn
    <2>4. QED
      BY <2>2, <2>3
  <1>2. QED
    BY <1>1

(* A total is the sum of any of its keys and of the others. *)
LEMMA TotalRemove ==
  ASSUME NEW map, NEW S, IsFiniteSet(S), \A x \in S : map[x] \in Nat, NEW x \in S
  PROVE  Total(map, S) = map[x] + Total(map, S \ {x})
  <1> DEFINE Bad == {R \in SUBSET S : \E y \in R : Total(map, R) # map[y] + Total(map, R \ {y})}
  <1>1. ASSUME Bad # {} PROVE FALSE
    <2>1. PICK R \in Bad : \A t \in SUBSET S : t \subseteq R /\ t # R =>
             \A y \in t : Total(map, t) = map[y] + Total(map, t \ {y})
      <3>1. Bad \subseteq SUBSET S
        OBVIOUS
      <3> HIDE DEF Bad
      <3>2. PICK R \in Bad : \A t \in SUBSET S : t \subseteq R /\ t # R => t \notin Bad
        BY <1>1, <3>1, LeastSubset
      <3>3. ASSUME NEW t \in SUBSET S, t \notin Bad, NEW y \in t
            PROVE  Total(map, t) = map[y] + Total(map, t \ {y})
        BY <3>3 DEF Bad
      <3>4. QED
        BY <3>2, <3>3
    <2>2. PICK y \in R : Total(map, R) # map[y] + Total(map, R \ {y})
      OBVIOUS
    <2> DEFINE p == Pick(R)
    <2>3. p \in R /\ Total(map, R) = map[p] + Total(map, R \ {p})
      BY TotalPick, PickIn, FS_Subset
    <2> HIDE DEF p
    <2>4. y # p
      BY <2>2, <2>3
    <2>5. Total(map, R \ {p}) = map[y] + Total(map, (R \ {p}) \ {y})
      BY <2>1, <2>3, <2>4
    <2>6. Total(map, R \ {y}) = map[p] + Total(map, (R \ {y}) \ {p})
      BY <2>1, <2>3, <2>4
    <2>7. (R \ {y}) \ {p} = (R \ {p}) \ {y}
      OBVIOUS
    <2>8. Total(map, (R \ {p}) \ {y}) \in Nat
      <3>1. IsFiniteSet((R \ {p}) \ {y}) /\ \A z \in (R \ {p}) \ {y} : map[z] \in Nat
        BY FS_Subset
      <3>2. QED
        BY <3>1, TotalType
    <2>9. map[p] \in Nat /\ map[y] \in Nat
      BY <2>3
    <2>10. QED
      BY <2>2, <2>3, <2>5, <2>6, <2>7, <2>8, <2>9
  <1>2. QED
    BY <1>1

(* The total over disjoint sets of keys. *)
LEMMA TotalUnion ==
  ASSUME NEW map, NEW A, NEW B, IsFiniteSet(A), IsFiniteSet(B), A \cap B = {},
         \A x \in A \cup B : map[x] \in Nat
  PROVE  Total(map, A \cup B) = Total(map, A) + Total(map, B)
  <1> DEFINE Bad == {R \in SUBSET A : Total(map, R \cup B) # Total(map, R) + Total(map, B)}
  <1>1. ASSUME Bad # {} PROVE FALSE
    <2>1. PICK R \in Bad : \A t \in SUBSET A : t \subseteq R /\ t # R =>
             Total(map, t \cup B) = Total(map, t) + Total(map, B)
      <3>1. Bad \subseteq SUBSET A
        OBVIOUS
      <3> HIDE DEF Bad
      <3>2. \E x \in Bad : \A y \in SUBSET A : y \subseteq x /\ y # x => y \notin Bad
        BY <1>1, <3>1, LeastSubset
      <3>3. QED
        BY <3>2 DEF Bad
    <2>2. /\ IsFiniteSet(R) /\ IsFiniteSet(R \cup B)
          /\ \A x \in R \cup B : map[x] \in Nat
      BY FS_Subset, FS_Union
    <2>3. Total(map, B) \in Nat
      BY TotalType
    <2>4. R # {}
      <3>1. Total(map, {}) = 0
        BY TotalPick, FS_EmptySet
      <3>2. {} \cup B = B
        OBVIOUS
      <3>3. QED
        BY <2>3, <3>1, <3>2
    <2>5. PICK x \in R : TRUE
      BY <2>4
    <2>6. Total(map, R) = map[x] + Total(map, R \ {x})
      BY <2>2, TotalRemove
    <2>7. Total(map, R \cup B) = map[x] + Total(map, (R \cup B) \ {x})
      BY <2>2, TotalRemove
    <2>8. (R \cup B) \ {x} = (R \ {x}) \cup B
      BY <2>5
    <2>9. Total(map, (R \ {x}) \cup B) = Total(map, R \ {x}) + Total(map, B)
      BY <2>1
    <2>10. Total(map, R \ {x}) \in Nat /\ map[x] \in Nat
      <3>1. IsFiniteSet(R \ {x}) /\ \A z \in R \ {x} : map[z] \in Nat
        BY <2>2, FS_Subset
      <3>2. QED
        BY <2>2, <3>1, TotalType
    <2>11. Total(map, R \cup B) = map[x] + (Total(map, R \ {x}) + Total(map, B))
      BY <2>7, <2>8, <2>9
    <2>12. QED
      BY <2>3, <2>6, <2>10, <2>11
  <1>2. QED
    BY <1>1

LEMMA TotalOfZeros ==
  ASSUME NEW map, NEW S, IsFiniteSet(S), \A x \in S : map[x] = 0
  PROVE  Total(map, S) = 0
  <1> DEFINE Bad == {R \in SUBSET S : Total(map, R) # 0}
  <1>1. ASSUME Bad # {} PROVE FALSE
    <2>1. PICK R \in Bad : \A t \in SUBSET S : t \subseteq R /\ t # R => Total(map, t) = 0
      <3>1. Bad \subseteq SUBSET S
        OBVIOUS
      <3> HIDE DEF Bad
      <3>2. \E x \in Bad : \A y \in SUBSET S : y \subseteq x /\ y # x => y \notin Bad
        BY <1>1, <3>1, LeastSubset
      <3>3. QED
        BY <3>2 DEF Bad
    <2>2. Total(map, R) = IF R = {} THEN 0 ELSE map[Pick(R)] + Total(map, R \ {Pick(R)})
      BY TotalPick, FS_Subset
    <2>3. R # {} => Total(map, R \ {Pick(R)}) = 0 /\ map[Pick(R)] = 0
      BY <2>1, PickIn
    <2>4. QED
      BY <2>2, <2>3
  <1>2. QED
    BY <1>1

(* The total of a map that is zero but for two of its keys. *)
LEMMA TotalOfTwo ==
  ASSUME NEW map, NEW S, IsFiniteSet(S), NEW x \in S, NEW y \in S, x # y,
         map[x] \in Nat, map[y] \in Nat, \A z \in S \ {x, y} : map[z] = 0
  PROVE  Total(map, S) = map[x] + map[y]
  <1>1. \A z \in S : map[z] \in Nat
    OBVIOUS
  <1>2. Total(map, S) = map[x] + Total(map, S \ {x})
    BY <1>1, TotalRemove
  <1>3. IsFiniteSet(S \ {x}) /\ IsFiniteSet((S \ {x}) \ {y})
    BY FS_Subset
  <1>4. Total(map, S \ {x}) = map[y] + Total(map, (S \ {x}) \ {y})
    BY <1>1, <1>3, TotalRemove
  <1>5. Total(map, (S \ {x}) \ {y}) = 0
    BY <1>3, TotalOfZeros
  <1>6. QED
    BY <1>2, <1>4, <1>5
-----------------------------------------------------------------------------
(* The two books of failures. *)

(* One goroutine comes to a state, or leaves it. *)
LEMMA BetweenEnter ==
  ASSUME NEW a, IsFiniteSet(DOMAIN a), NEW x \in DOMAIN a, NEW s, a[x] # s,
         NEW b, b = [a EXCEPT ![x] = s]
  PROVE  Between(s, a) \in Nat /\ Between(s, b) = Between(s, a) + 1
  <1>1. /\ {y \in DOMAIN b : b[y] = s} = {y \in DOMAIN a : a[y] = s} \cup {x}
        /\ x \notin {y \in DOMAIN a : a[y] = s}
    OBVIOUS
  <1>2. IsFiniteSet({y \in DOMAIN a : a[y] = s})
    BY FS_Subset
  <1>3. QED
    BY <1>1, <1>2, FS_AddElement, FS_CardinalityType DEF Between

LEMMA BetweenLeave ==
  ASSUME NEW a, IsFiniteSet(DOMAIN a), NEW x \in DOMAIN a, NEW s, a[x] = s,
         NEW v, v # s, NEW b, b = [a EXCEPT ![x] = v]
  PROVE  Between(s, a) \in Nat /\ Between(s, b) = Between(s, a) - 1
  <1>1. /\ {y \in DOMAIN b : b[y] = s} = {y \in DOMAIN a : a[y] = s} \ {x}
        /\ x \in {y \in DOMAIN a : a[y] = s}
    OBVIOUS
  <1>2. IsFiniteSet({y \in DOMAIN a : a[y] = s})
    BY FS_Subset
  <1>3. QED
    BY <1>1, <1>2, FS_RemoveElement, FS_CardinalityType DEF Between

(* Nobody is counted where nobody stands. *)
LEMMA BetweenNone ==
  ASSUME NEW s, NEW at, \A x \in DOMAIN at : at[x] # s
  PROVE  Between(s, at) = 0
  <1>1. {x \in DOMAIN at : at[x] = s} = {}
    OBVIOUS
  <1>2. QED
    BY <1>1, FS_EmptySet DEF Between

LEMMA WorkerBooks ==
  ASSUME TypeOK, BooksInv, NEW w \in Workers, WorkerStart(w) \/ Worker(w)
  PROVE  BooksInv'
  <1> DEFINE States == {"idle", "dial", "op", "ok", "bad", "done"}
  <1>1. /\ IsFiniteSet(Workers) /\ worker \in [Workers -> States]
        /\ counters \in [CounterNames -> Nat] /\ cmdErrors \in [Commands -> Nat]
        /\ ExecuteCounters \subseteq CounterNames /\ Commands = {"LOGIN", "PING"}
    BY ExecuteAssumption DEF TypeOK, RecorderTypeOK
  <1>2. UNCHANGED pinger
    BY DEF WorkerStart, Worker, WorkerDial, WorkerOp, WorkerCount, WorkerJoin,
           WorkerStop, WorkerElse, probe
  <1>3. IsFiniteSet(DOMAIN worker) /\ w \in DOMAIN worker
    BY <1>1
  <1>4. ASSUME NEW state \in States, WorkerTo(w, state)
        PROVE  /\ worker[w] # "bad" /\ state = "bad" =>
                    /\ Between("bad", worker) \in Nat
                    /\ Between("bad", worker') = Between("bad", worker) + 1
               /\ worker[w] = "bad" /\ state # "bad" =>
                    /\ Between("bad", worker) \in Nat
                    /\ Between("bad", worker') = Between("bad", worker) - 1
               /\ worker[w] # "bad" /\ state # "bad" =>
                    Between("bad", worker') = Between("bad", worker)
    <2>1. worker' = [worker EXCEPT ![w] = state]
      BY <1>4 DEF WorkerTo
    <2>2. PICK at : at = "bad"
      OBVIOUS
    <2>3. ASSUME worker[w] # at, state = at
          PROVE  Between(at, worker) \in Nat /\ Between(at, worker') = Between(at, worker) + 1
      BY <1>3, <2>1, <2>3, BetweenEnter
    <2>4. ASSUME worker[w] = at, state # at
          PROVE  Between(at, worker) \in Nat /\ Between(at, worker') = Between(at, worker) - 1
      BY <1>3, <2>1, <2>4, BetweenLeave
    <2>5. ASSUME worker[w] # at, state # at
          PROVE  Between(at, worker') = Between(at, worker)
      <3>1. {y \in DOMAIN worker' : worker'[y] = at} = {y \in DOMAIN worker : worker[y] = at}
        BY <2>1, <2>5
      <3>2. QED
        BY <3>1 DEF Between
    <2>6. QED
      BY <2>2, <2>3, <2>4, <2>5
  <1> USE DEF Inc, Add, Observe, ObserveError, recorder, BooksInv, ExecuteCounters
  <1>5. CASE WorkerStart(w) \/ WorkerStop(w)
    <2>1. PICK state \in {"dial", "done"} : WorkerTo(w, state)
      BY <1>5 DEF WorkerStart, WorkerStop
    <2>2. worker[w] # "bad" /\ UNCHANGED recorder
      BY <1>5 DEF WorkerStart, WorkerStop
    <2>3. QED
      BY <1>2, <1>4, <2>1, <2>2
  <1>6. CASE WorkerDial(w)
    <2>1. PICK state \in {"op", "done"} : WorkerTo(w, state)
      BY <1>6 DEF WorkerDial
    <2>2. Between("bad", worker') = Between("bad", worker)
      BY <1>4, <1>6, <2>1 DEF WorkerDial
    <2>3. QED
      BY <1>1, <1>2, <1>6, <2>2 DEF WorkerDial
  <1>7. CASE WorkerOp(w)
    <2>1. CASE WorkerTo(w, "ok") /\ Observe("LOGIN")
      BY <1>2, <1>4, <1>7, <2>1 DEF WorkerOp
    <2>2. CASE WorkerTo(w, "bad") /\ ObserveError("LOGIN")
      <3>1. Between("bad", worker') = Between("bad", worker) + 1 /\ Between("bad", worker) \in Nat
        BY <1>4, <1>7, <2>2 DEF WorkerOp
      <3>2. QED
        BY <1>1, <1>2, <2>2, <3>1
    <2>3. QED
      BY <1>7, <2>1, <2>2 DEF WorkerOp
  <1>8. CASE WorkerCount(w)
    <2>1. CASE worker[w] = "ok" /\ WorkerTo(w, "op") /\ Inc("login_ok")
      <3>1. Between("bad", worker') = Between("bad", worker)
        BY <1>4, <2>1
      <3>2. QED
        BY <1>1, <1>2, <2>1, <3>1
    <2>2. CASE worker[w] = "bad" /\ WorkerTo(w, "done") /\ Inc("login_error")
      <3>1. Between("bad", worker') = Between("bad", worker) - 1 /\ Between("bad", worker) \in Nat
        BY <1>4, <2>2
      <3>2. QED
        BY <1>1, <1>2, <2>2, <3>1
    <2>3. QED
      BY <1>8, <2>1, <2>2 DEF WorkerCount
  <1>9. CASE WorkerJoin(w)
    <2>1. worker' = worker \/ WorkerTo(w, "done")
      BY <1>9 DEF WorkerJoin
    <2>2. Between("bad", worker') = Between("bad", worker)
      BY <1>4, <1>9, <2>1 DEF WorkerJoin
    <2>3. cmdErrors' = cmdErrors /\ counters'["login_error"] = counters["login_error"]
          /\ counters'["ping_error"] = counters["ping_error"]
          /\ \A n \in CounterNames \ ExecuteCounters : counters'[n] = counters[n]
      BY <1>1, <1>9 DEF WorkerJoin
    <2>4. QED
      BY <1>1, <1>2, <2>2, <2>3
  <1>10. QED
    BY <1>5, <1>6, <1>7, <1>8, <1>9 DEF Worker

LEMMA PingerBooks ==
  ASSUME TypeOK, BooksInv, NEW p \in Pingers, Pinger(p) \/ Tick(p)
  PROVE  BooksInv'
  <1> DEFINE States == {"top", "dial", "sleep", "loop", "ping", "failed", "close", "done"}
  <1>1. /\ IsFiniteSet(Pingers) /\ pinger \in [Pingers -> States]
        /\ counters \in [CounterNames -> Nat] /\ cmdErrors \in [Commands -> Nat]
        /\ ExecuteCounters \subseteq CounterNames /\ Commands = {"LOGIN", "PING"}
    BY ExecuteAssumption DEF TypeOK, RecorderTypeOK
  <1>2. UNCHANGED worker
    BY DEF Pinger, PingerTop, PingerDial, PingerSleep, PingStart, PingReply, PingCount,
           PingStop, PingerClose, Tick, PingerElse
  <1>3. IsFiniteSet(DOMAIN pinger) /\ p \in DOMAIN pinger
    BY <1>1
  <1>4. ASSUME NEW state \in States, PingerTo(p, state)
        PROVE  /\ pinger[p] # "failed" /\ state = "failed" =>
                    /\ Between("failed", pinger) \in Nat
                    /\ Between("failed", pinger') = Between("failed", pinger) + 1
               /\ pinger[p] = "failed" /\ state # "failed" =>
                    /\ Between("failed", pinger) \in Nat
                    /\ Between("failed", pinger') = Between("failed", pinger) - 1
               /\ pinger[p] # "failed" /\ state # "failed" =>
                    Between("failed", pinger') = Between("failed", pinger)
    <2>1. pinger' = [pinger EXCEPT ![p] = state]
      BY <1>4 DEF PingerTo
    <2>2. PICK at : at = "failed"
      OBVIOUS
    <2>3. ASSUME pinger[p] # at, state = at
          PROVE  Between(at, pinger) \in Nat /\ Between(at, pinger') = Between(at, pinger) + 1
      BY <1>3, <2>1, <2>3, BetweenEnter
    <2>4. ASSUME pinger[p] = at, state # at
          PROVE  Between(at, pinger) \in Nat /\ Between(at, pinger') = Between(at, pinger) - 1
      BY <1>3, <2>1, <2>4, BetweenLeave
    <2>5. ASSUME pinger[p] # at, state # at
          PROVE  Between(at, pinger') = Between(at, pinger)
      <3>1. {y \in DOMAIN pinger' : pinger'[y] = at} = {y \in DOMAIN pinger : pinger[y] = at}
        BY <2>1, <2>5
      <3>2. QED
        BY <3>1 DEF Between
    <2>6. QED
      BY <2>2, <2>3, <2>4, <2>5
  <1> USE DEF Inc, Add, Observe, ObserveError, recorder, BooksInv, ExecuteCounters
  <1>5. CASE PingerTop(p) \/ PingerSleep(p) \/ PingStart(p) \/ PingStop(p) \/ PingerClose(p)
    <2>1. PICK state \in {"dial", "done", "top", "ping", "close"} : PingerTo(p, state)
      BY <1>5 DEF PingerTop, PingerSleep, PingStart, PingStop, PingerClose
    <2>2. pinger[p] # "failed" /\ UNCHANGED recorder
      BY <1>5 DEF PingerTop, PingerSleep, PingStart, PingStop, PingerClose
    <2>3. QED
      BY <1>2, <1>4, <2>1, <2>2
  <1>6. CASE PingerDial(p)
    <2>1. PICK state \in {"loop", "sleep"} : PingerTo(p, state)
      BY <1>6 DEF PingerDial
    <2>2. Between("failed", pinger') = Between("failed", pinger)
      BY <1>4, <1>6, <2>1 DEF PingerDial
    <2>3. QED
      BY <1>1, <1>2, <1>6, <2>2 DEF PingerDial
  <1>7. CASE PingReply(p)
    <2>1. CASE PingerTo(p, "loop") /\ Observe("PING")
      BY <1>2, <1>4, <1>7, <2>1 DEF PingReply
    <2>2. CASE PingerTo(p, "failed") /\ ObserveError("PING")
      <3>1. /\ Between("failed", pinger') = Between("failed", pinger) + 1
            /\ Between("failed", pinger) \in Nat
        BY <1>4, <1>7, <2>2 DEF PingReply
      <3>2. QED
        BY <1>1, <1>2, <2>2, <3>1
    <2>3. QED
      BY <1>7, <2>1, <2>2 DEF PingReply
  <1>8. CASE PingCount(p)
    <2>1. /\ Between("failed", pinger') = Between("failed", pinger) - 1
          /\ Between("failed", pinger) \in Nat
      BY <1>4, <1>8 DEF PingCount
    <2>2. QED
      BY <1>1, <1>2, <1>8, <2>1 DEF PingCount
  <1>9. CASE Tick(p)
    BY <1>2, <1>9 DEF Tick
  <1>10. QED
    BY <1>5, <1>6, <1>7, <1>8, <1>9 DEF Pinger

(* What is attributed to LOGIN and PING and not yet counted is what stands
   between the two calls of the recorder, for any number of workers and of
   pingers; the joins do not disturb it. *)
THEOREM BooksInvariant == Spec => []BooksInv
  <1>1. Init => BooksInv
    <2> SUFFICES ASSUME Init PROVE BooksInv
      OBVIOUS
    <2>1. Between("bad", worker) = 0 /\ Between("failed", pinger) = 0
      BY BetweenNone DEF Init
    <2>2. QED
      BY <2>1, ExecuteAssumption DEF Init, NewRecorder, BooksInv, ExecuteCounters
  <1>2. TypeOK /\ BooksInv /\ [Next]_vars => BooksInv'
    <2> SUFFICES ASSUME TypeOK, BooksInv, [Next]_vars PROVE BooksInv'
      OBVIOUS
    <2>1. CASE \E w \in Workers : WorkerStart(w) \/ Worker(w)
      BY <2>1, WorkerBooks
    <2>2. CASE \E p \in Pingers : Pinger(p) \/ Tick(p)
      BY <2>2, PingerBooks
    <2>3. CASE UNCHANGED <<recorder, worker, pinger>>
      BY <2>3 DEF BooksInv, recorder
    <2>4. QED
      BY <2>1, <2>2, <2>3
      DEF Next, Main, MainElse, ScenarioReturns, StopPingers, ExecuteReturns, WriteReport,
          EmitterTick, EmitterPrint, EmitterStop, EmitterElse, Interrupt, vars, probe
  <1>3. Inv => TypeOK
    BY DEF Inv
  <1>4. QED
    BY <1>1, <1>2, <1>3, Invariant, PTL DEF Spec

(* What the live panel counts as errors is, at the end, what the report
   attributes to the commands, plus the failed connections and joins. *)
THEOREM ErrorsAgree == Spec => []ErrorsReconcile
  <1>1. Inv /\ BooksInv => ErrorsReconcile
    <2> SUFFICES ASSUME Inv, BooksInv, main = "reported"
                 PROVE  Snapshot.errors = Total(cmdErrors, Commands)
                          + Total(counters, (ConnectionErrors \cup Unattributed)
                                              \cap CounterNames)
      BY DEF ErrorsReconcile
    <2> DEFINE Conn == (ConnectionErrors \cup Unattributed) \cap CounterNames
               Cmd == (CommandErrors \ Unattributed) \cap CounterNames
    <2>1. /\ counters \in [CounterNames -> Nat] /\ cmdErrors \in [Commands -> Nat]
          /\ ExecuteCounters \subseteq CounterNames /\ Commands = {"LOGIN", "PING"}
          /\ IsFiniteSet(CounterNames)
      BY ExecuteAssumption DEF Inv, TypeOK, RecorderTypeOK
    <2>2. Between("bad", worker) = 0 /\ Between("failed", pinger) = 0
      <3>1. WorkersReturned /\ PingersDone
        BY DEF Inv, ShutdownInv
      <3>2. QED
        BY <3>1, BetweenNone DEF WorkersReturned, PingersDone, Inv, TypeOK
    <2>3. /\ cmdErrors["LOGIN"] = counters["login_error"]
          /\ cmdErrors["PING"] = counters["ping_error"]
          /\ counters["login_error"] \in Nat /\ counters["ping_error"] \in Nat
      BY <2>1, <2>2 DEF BooksInv, ExecuteCounters
    <2>4. /\ IsFiniteSet(Conn) /\ IsFiniteSet(Cmd) /\ Conn \cap Cmd = {}
          /\ {n \in CounterNames : IsErrorCounter(n)} = Conn \cup Cmd
          /\ \A n \in Conn \cup Cmd : counters[n] \in Nat
      <3>1. IsFiniteSet(Conn) /\ IsFiniteSet(Cmd)
        BY <2>1, FS_Subset
      <3>2. /\ ConnectionErrors \cap CommandErrors = {}
            /\ Unattributed \subseteq CommandErrors
        BY DEF ConnectionErrors, CommandErrors, Unattributed
      <3>3. QED
        BY <2>1, <3>1, <3>2 DEF IsErrorCounter
    <2>5. Total(counters, Cmd) = counters["login_error"] + counters["ping_error"]
      <3>1. "login_error" \in Cmd /\ "ping_error" \in Cmd
        BY <2>1 DEF CommandErrors, ExecuteCounters, Unattributed
      <3>2. \A n \in Cmd \ {"login_error", "ping_error"} : counters[n] = 0
        BY DEF BooksInv, CommandErrors, ExecuteCounters, Unattributed
      <3> HIDE DEF Cmd
      <3>3. QED
        BY <2>3, <2>4, <3>1, <3>2, TotalOfTwo
    <2>6. Total(cmdErrors, Commands) = cmdErrors["LOGIN"] + cmdErrors["PING"]
      <3>1. IsFiniteSet({"LOGIN", "PING"})
        <4>1. IsFiniteSet({} \cup {"LOGIN"})
          BY FS_EmptySet, FS_AddElement
        <4>2. IsFiniteSet(({} \cup {"LOGIN"}) \cup {"PING"})
          BY <4>1, FS_AddElement
        <4>3. ({} \cup {"LOGIN"}) \cup {"PING"} = {"LOGIN", "PING"}
          OBVIOUS
        <4>4. QED
          BY <4>2, <4>3
      <3>2. /\ "LOGIN" \in Commands /\ "PING" \in Commands /\ IsFiniteSet(Commands)
            /\ \A z \in Commands \ {"LOGIN", "PING"} : cmdErrors[z] = 0
        BY <2>1, <3>1
      <3>3. QED
        BY <2>3, <3>2, TotalOfTwo
    <2> HIDE DEF Conn, Cmd
    <2>7. Total(counters, Conn \cup Cmd) = Total(counters, Conn) + Total(counters, Cmd)
      BY <2>4, TotalUnion
    <2>8. Total(counters, Conn) \in Nat
      BY <2>4, TotalType
    <2>9. Snapshot.errors = Total(counters, Conn \cup Cmd)
      BY <2>4 DEF Snapshot
    <2>10. Snapshot.errors = Total(cmdErrors, Commands) + Total(counters, Conn)
      BY <2>3, <2>5, <2>6, <2>7, <2>8, <2>9
    <2>11. QED
      BY <2>10 DEF Conn
  <1>2. QED
    BY <1>1, Invariant, BooksInvariant, PTL
=============================================================================
