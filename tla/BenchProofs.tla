----------------------------- MODULE BenchProofs ----------------------------
(***************************************************************************)
(* Theorems about Bench, for any number of benches on one host: no orphan  *)
(* but by the death of uberstress, no report about another version but for *)
(* the known reasons, no load on a database that was not reset.            *)
(***************************************************************************)
EXTENDS Bench, TLAPS

BenchInv == BenchTypeOK /\ ServerInv /\ FreshInv /\ MeasuresItsVersion

LEMMA InitInv ==
  ASSUME Init
  PROVE  BenchInv
  <1> USE BenchAssumption DEF Init, Versions, NoOne
  <1>1. BenchTypeOK
    <2>1. server \in [0 .. MaxRuns -> {"none", "starting", "up", "told", "dead"}]
      OBVIOUS
    <2>2. port \in Alive \cup {NoOne}
      BY DEF Alive
    <2>3. report \in [Versions -> SUBSET (0 .. MaxRuns)]
      OBVIOUS
    <2>4. tablesOf \in 0 .. NoOne /\ db \in {"absent", "empty", "tables"}
      OBVIOUS
    <2>5. loaded \in BOOLEAN /\ launch \in BOOLEAN /\ reset \in BOOLEAN /\ late \in BOOLEAN
      OBVIOUS
    <2>6. /\ runs \in 0 .. MaxRuns /\ main \in Places /\ ctx \in {"live", "cancelled"}
          /\ measured \subseteq 0 .. MaxRuns /\ killed \subseteq 1 .. runs
      BY DEF Places
    <2>7. QED
      BY <2>1, <2>2, <2>3, <2>4, <2>5, <2>6 DEF BenchTypeOK
  <1>2. ServerInv
    <2>1. \A n \in Versions : server[n] = "none"
      OBVIOUS
    <2>2. server[0] # "starting"
      OBVIOUS
    <2>3. QED
      BY <2>1, <2>2 DEF ServerInv, Alive
  <1>3. FreshInv /\ MeasuresItsVersion
    BY DEF FreshInv, MeasuresItsVersion
  <1>4. QED
    BY <1>1, <1>2, <1>3 DEF BenchInv

(* The steps of uberstress itself, one by one. *)
LEMMA RunTargetInv ==
  ASSUME BenchInv, RunTarget
  PROVE  BenchInv'
  <1> USE BenchAssumption
      DEF BenchInv, BenchTypeOK, Places, ServerInv, OwnsServer, FreshInv,
          MeasuresItsVersion, Alive, Versions, NoOne, host, database, outcome, To
  <1>1. CASE Drop
    <2>1. BenchTypeOK'
      <3>1. loaded' \in BOOLEAN
        BY <1>1 DEF Drop, ResetFails
      <3>2. db' \in {"absent", "empty", "tables"} /\ tablesOf' \in 0 .. NoOne
        BY <1>1 DEF Drop, ResetFails
      <3>3. QED
        BY <1>1, <3>1, <3>2 DEF Drop, ResetFails
    <2>2. ServerInv' /\ FreshInv' /\ MeasuresItsVersion'
      BY <1>1 DEF Drop, ResetFails
    <2>3. QED
      BY <2>1, <2>2
  <1>2. CASE Create
    <2>1. BenchTypeOK'
      BY <1>2 DEF Create, ResetFails
    <2>2. ServerInv' /\ MeasuresItsVersion'
      BY <1>2 DEF Create, ResetFails
    <2>3. FreshInv'
      BY <1>2 DEF Create, ResetFails
    <2>4. QED
      BY <2>1, <2>2, <2>3
  <1>3. CASE Launch
    BY <1>3 DEF Launch
  <1>4. CASE Poll
    BY <1>4 DEF Poll, NotReady
  <1>5. CASE Connect
    BY <1>5 DEF Connect
  <1>6. CASE Report
    <2>1. report' \in [Versions -> SUBSET (0 .. MaxRuns)]
      BY <1>6 DEF Report
    <2>2. MeasuresItsVersion'
      BY <1>6 DEF Report
    <2>3. UNCHANGED <<runs, launch, reset, ctx, late, host, database, measured, killed>>
          /\ main = "load" /\ main' = IF launch THEN "stop" ELSE "returned"
      BY <1>6 DEF Report
    <2>4. QED
      BY <2>1, <2>2, <2>3
  <1>7. CASE Stop
    BY <1>7 DEF Stop
  <1>8. CASE Reap
    BY <1>8 DEF Reap, Exited
  <1>9. CASE Return
    BY <1>9 DEF Return, Gone
  <1>10. QED
    BY <1>1, <1>2, <1>3, <1>4, <1>5, <1>6, <1>7, <1>8, <1>9 DEF RunTarget

(* What starts it, ends it and interrupts it, and the servers. *)
LEMMA HostInv ==
  ASSUME BenchInv,
         Begin \/ Load \/ Kill \/ Deadline \/ Interrupt \/ Death
         \/ \E n \in 0 .. MaxRuns : Boot(n) \/ Exits(n)
  PROVE  BenchInv'
  <1> USE BenchAssumption
      DEF BenchInv, BenchTypeOK, Places, ServerInv, OwnsServer, FreshInv,
          MeasuresItsVersion, Alive, Versions, NoOne, bench, host, database, outcome
  <1>1. CASE Begin
    BY <1>1 DEF Begin
  <1>2. CASE Load
    BY <1>2 DEF Load
  <1>3. CASE Kill
    BY <1>3 DEF Kill, StopTimeout, Dies, PortWithout
  <1>4. CASE Deadline
    BY <1>4 DEF Deadline
  <1>5. CASE Interrupt
    BY <1>5 DEF Interrupt
  <1>6. CASE Death
    <2>1. launch' \in BOOLEAN /\ reset' \in BOOLEAN /\ late' \in BOOLEAN
      BY <1>6 DEF Death, Gone
    <2>2. MeasuresItsVersion' /\ killed' \subseteq 1 .. runs
      BY <1>6 DEF Death, Gone
    <2>3. ServerInv'
      BY <1>6 DEF Death, Gone
    <2>4. QED
      BY <1>6, <2>1, <2>2, <2>3 DEF Death, Gone
  <1>7. ASSUME NEW n \in 0 .. MaxRuns, Boot(n)
        PROVE  BenchInv'
    <2>1. BenchTypeOK'
      BY <1>7 DEF Boot, Dies, PortWithout
    <2>2. ServerInv' /\ MeasuresItsVersion'
      BY <1>7 DEF Boot, Dies, PortWithout
    <2>3. FreshInv'
      BY <1>7 DEF Boot, Dies, PortWithout
    <2>4. QED
      BY <2>1, <2>2, <2>3
  <1>8. ASSUME NEW n \in 0 .. MaxRuns, Exits(n)
        PROVE  BenchInv'
    BY <1>8 DEF Exits, Dies, PortWithout
  <1>9. QED
    BY <1>1, <1>2, <1>3, <1>4, <1>5, <1>6, <1>7, <1>8

THEOREM BenchInvariant == Spec => []BenchInv
  <1>1. BenchInv /\ [Next]_vars => BenchInv'
    <2>1. BenchInv /\ UNCHANGED vars => BenchInv'
      BY DEF BenchInv, BenchTypeOK, ServerInv, OwnsServer, FreshInv, MeasuresItsVersion, Alive,
             vars, bench, host, database, outcome
    <2>2. QED
      BY <2>1, RunTargetInv, HostInv DEF Next
  <1>2. QED
    BY InitInv, <1>1, PTL DEF Spec

(* No bench leaves its server behind, whatever fails and whenever it is
   interrupted, unless uberstress itself is killed. *)
THEOREM NoneOrphaned == Spec => []NoOrphans
  <1>1. BenchInv => NoOrphans
    BY DEF BenchInv, ServerInv, OwnsServer, NoOrphans
  <1>2. QED
    BY <1>1, BenchInvariant, PTL

(* A report carries the numbers of its own version, of a foreign server or of
   an orphan, and never those of a version benched properly before. *)
THEOREM ReportsTheirVersion == Spec => []MeasuresItsVersion
  <1>1. BenchInv => MeasuresItsVersion
    BY DEF BenchInv
  <1>2. QED
    BY <1>1, BenchInvariant, PTL

(* After a reset the load starts on tables nobody has loaded before. *)
THEOREM StartsClean == Spec => []CleanDatabase
  <1>1. BenchInv => CleanDatabase
    BY DEF BenchInv, FreshInv, CleanDatabase
  <1>2. QED
    BY <1>1, BenchInvariant, PTL
=============================================================================
