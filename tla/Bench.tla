-------------------------------- MODULE Bench -------------------------------
(***************************************************************************)
(* internal/harness and cmdBench: one `uberstress bench` after another on  *)
(* one host. Each resets the database, launches the server of a checkout   *)
(* (or takes an external one), waits for the port, drives load, saves a    *)
(* report and stops its server.  In between: Ctrl-C, which the terminal    *)
(* sends to the server too, SIGTERM, which only uberstress gets, the death *)
(* of uberstress itself, and servers that fail, hang or crash.             *)
(*                                                                         *)
(* The n-th bench runs the n-th version: its server, its tables and its    *)
(* report carry n.  Server 0 is one nobody here launched.  The load is     *)
(* Execute's; here it only touches whichever server has the port.          *)
(***************************************************************************)
EXTENDS Naturals

CONSTANT MaxRuns   \* bound: benches started

ASSUME BenchAssumption == MaxRuns \in Nat

Versions == 1 .. MaxRuns
NoOne == MaxRuns + 1   \* nobody listens, nobody has created tables

VARIABLES
  runs,      \* benches started; the last one is under way unless main = "none"
  main,      \* where RunTarget stands
  launch,    \* target.Server # nil
  reset,     \* opt.ResetDB
  ctx,       \* "live" or "cancelled"
  late,      \* the deadline of waitReady has passed
  server,    \* n -> "none", "starting", "up", "told" (interrupted) or "dead"
  port,      \* whose server listens on the lobby port
  db,        \* "absent", "empty" or "tables"
  tablesOf,  \* whose server created the tables
  loaded,    \* the tables have seen load
  measured,  \* the servers this bench's load was driven against
  report,    \* n -> the servers its report is about; {} for no report
  killed     \* benches whose uberstress was killed

bench == <<main, launch, reset, ctx, late>>
host == <<server, port>>
database == <<db, tablesOf, loaded>>
outcome == <<measured, report, killed>>
vars == <<runs, bench, host, database, outcome>>

Alive == {n \in 0 .. MaxRuns : server[n] \in {"starting", "up", "told"}}

\* A database and a server on the port may be there already.
Init ==
  /\ runs = 0 /\ main = "none" /\ launch = FALSE /\ reset = FALSE
  /\ ctx = "live" /\ late = FALSE
  /\ \E foreign \in BOOLEAN :
       /\ server = [n \in 0 .. MaxRuns |-> IF n = 0 /\ foreign THEN "up" ELSE "none"]
       /\ port = IF foreign THEN 0 ELSE NoOne
  /\ \/ db = "absent" /\ tablesOf = NoOne
     \/ db = "tables" /\ tablesOf = 0
  /\ loaded = FALSE
  /\ measured = {} /\ report = [n \in Versions |-> {}] /\ killed = {}

To(place) == main' = place /\ UNCHANGED <<launch, reset, ctx, late>>

\* The process is gone, and all it knew.
Gone ==
  /\ main' = "none" /\ launch' = FALSE /\ reset' = FALSE
  /\ ctx' = "live" /\ late' = FALSE
  /\ measured' = {}
-----------------------------------------------------------------------------
(* RunTarget *)

\* signalContext, and the flags --launch and --db-reset.
Begin ==
  /\ main = "none" /\ runs < MaxRuns
  /\ runs' = runs + 1
  /\ launch' \in BOOLEAN /\ reset' \in BOOLEAN
  /\ main' = IF reset' THEN "drop" ELSE "launch"
  /\ UNCHANGED <<ctx, late, host, database, outcome>>

\* Mutant: the error of mysql is ignored.
ResetFails_Ignored == To("launch")

\* Without a reset there is no run.
ResetFails == To("returned")

\* Reset: mysql runs one statement after the other, until the context ends it.
Drop ==
  /\ main = "drop"
  /\ \/ /\ ctx = "live" /\ To("create")
        /\ db' = "absent" /\ tablesOf' = NoOne /\ loaded' = FALSE
     \/ ResetFails /\ UNCHANGED database
  /\ UNCHANGED <<runs, host, outcome>>

\* Interrupted here, mysql has dropped the database and not created it.
Create ==
  /\ main = "create"
  /\ \/ To("launch") /\ db' = "empty"
     \/ ResetFails /\ db' \in {db, "empty"}
  /\ UNCHANGED <<runs, host, tablesOf, loaded, outcome>>

\* cmd.Start; the context is no concern of the server.
Launch ==
  /\ main = "launch"
  /\ \/ launch /\ To("wait") /\ server' = [server EXCEPT ![runs] = "starting"]
     \/ launch /\ To("returned") /\ UNCHANGED server
     \/ ~launch /\ To("wait") /\ UNCHANGED server
  /\ UNCHANGED <<runs, port, database, outcome>>

\* Mutant: the server is left alone when it does not become ready.
NotReady_Abandoned == To("returned")

\* LaunchServer stops what it started.
NotReady == To(IF launch THEN "stop" ELSE "returned")

\* waitReady: the deadline, then the context, then a dial.
Poll ==
  /\ main = "wait"
  /\ \/ (late \/ ctx = "cancelled") /\ NotReady
     \/ ~late /\ ctx = "live" /\ To("dial")
  /\ UNCHANGED <<runs, host, database, outcome>>

\* Whoever listens there: the dial cannot tell.
Connect ==
  /\ main = "dial"
  /\ To(IF port = NoOne THEN "wait" ELSE "load")
  /\ UNCHANGED <<runs, host, database, outcome>>

\* Any step of the load, the probe of the version included.
Load ==
  /\ main = "load" /\ port # NoOne
  /\ measured' = measured \cup {port}
  /\ loaded' = (loaded \/ db = "tables")
  /\ UNCHANGED <<runs, bench, host, db, tablesOf, report, killed>>

\* Execute returns, interrupted or not, and the report is built and saved, or
\* could not be saved.
Report ==
  /\ main = "load"
  /\ report' \in {report, [report EXCEPT ![runs] = measured]}
  /\ To(IF launch THEN "stop" ELSE "returned")
  /\ UNCHANGED <<runs, host, database, measured, killed>>

\* Stop: os.Interrupt. A process that is gone does not mind.
Stop ==
  /\ main = "stop"
  /\ server' = [server EXCEPT ![runs] = IF @ = "dead" THEN @ ELSE "told"]
  /\ To("reap")
  /\ UNCHANGED <<runs, port, database, outcome>>

\* Mutant: Stop does not wait for the process.
Exited_NotAwaited == TRUE

Exited == server[runs] = "dead"

Reap ==
  /\ main = "reap"
  /\ Exited
  /\ To("returned")
  /\ UNCHANGED <<runs, host, database, outcome>>

\* uberstress exits.
Return ==
  /\ main = "returned"
  /\ Gone
  /\ UNCHANGED <<runs, host, database, report, killed>>

RunTarget ==
  Drop \/ Create \/ Launch \/ Poll \/ Connect \/ Report \/ Stop \/ Reap \/ Return
-----------------------------------------------------------------------------
(* Processes and signals. *)

PortWithout(n) == IF port = n THEN NoOne ELSE port

Dies(n) ==
  /\ server' = [server EXCEPT ![n] = "dead"]
  /\ port' = PortWithout(n)

\* Mutant: only the interrupt is sent.
StopTimeout_Never == FALSE

\* After ten seconds the server is killed.
StopTimeout == main = "reap" /\ server[runs] = "told"

Kill ==
  /\ StopTimeout
  /\ Dies(runs)
  /\ UNCHANGED <<runs, bench, database, outcome>>

\* waitReady's deadline.
Deadline ==
  /\ main \in {"wait", "dial"} /\ ~late
  /\ late' = TRUE
  /\ UNCHANGED <<runs, main, launch, reset, ctx, host, database, outcome>>

\* A server creates the tables it misses and takes the port, which only one
\* can have; one that cannot may have created its tables all the same.
Boot(n) ==
  /\ server[n] = "starting"
  /\ \/ /\ port = NoOne /\ db # "absent"
        /\ server' = [server EXCEPT ![n] = "up"] /\ port' = n
     \/ Dies(n)
  /\ IF db = "empty" THEN db' = "tables" /\ tablesOf' = n /\ UNCHANGED loaded
     ELSE UNCHANGED database
  /\ UNCHANGED <<runs, bench, outcome>>

\* It obeys an interrupt, or crashes.
Exits(n) ==
  /\ n \in Alive
  /\ Dies(n)
  /\ UNCHANGED <<runs, bench, database, outcome>>

\* Ctrl-C goes to the process group: the context is cancelled and the server
\* of this bench is told as well. SIGTERM goes to uberstress alone. uberstress
\* receives the first one only, the server every Ctrl-C.
Interrupt ==
  /\ main # "none"
  /\ ctx' = "cancelled"
  /\ \/ ctx = "live" /\ UNCHANGED server
     \/ /\ server[runs] \in {"starting", "up"}
        /\ server' = [server EXCEPT ![runs] = "told"]
  /\ UNCHANGED <<runs, main, launch, reset, late, port, database, outcome>>

\* SIGKILL, a closed terminal, a panic: no deferred call runs.
Death ==
  /\ main # "none"
  /\ Gone
  /\ killed' = killed \cup {runs}
  /\ UNCHANGED <<runs, host, database, report>>

Next ==
  \/ Begin \/ RunTarget \/ Load \/ Kill \/ Deadline \/ Interrupt \/ Death
  \/ \E n \in 0 .. MaxRuns : Boot(n) \/ Exits(n)
  \/ main = "none" /\ runs = MaxRuns /\ UNCHANGED vars   \* no bench is left

\* uberstress runs; its timers fire; Execute returns (module Execute); the mysql
\* client of Reset ends, as nothing times it out. The servers owe nothing, not
\* even to exit when told to.
Fairness == WF_vars(RunTarget) /\ WF_vars(Kill) /\ WF_vars(Deadline)

Spec == Init /\ [][Next]_vars /\ Fairness
-----------------------------------------------------------------------------
(* Properties *)

Places == {"none", "drop", "create", "launch", "wait", "dial", "load", "stop",
           "reap", "returned"}

\* Every variable keeps its type; a server that has the port is running.
BenchTypeOK ==
  /\ runs \in 0 .. MaxRuns
  /\ main \in Places
  /\ launch \in BOOLEAN /\ reset \in BOOLEAN /\ late \in BOOLEAN
  /\ ctx \in {"live", "cancelled"}
  /\ server \in [0 .. MaxRuns -> {"none", "starting", "up", "told", "dead"}]
  /\ port \in Alive \cup {NoOne}
  /\ db \in {"absent", "empty", "tables"}
  /\ tablesOf \in 0 .. NoOne
  /\ loaded \in BOOLEAN
  /\ measured \subseteq 0 .. MaxRuns
  /\ report \in [Versions -> SUBSET (0 .. MaxRuns)]
  /\ killed \subseteq 1 .. runs

\* A bench leaves no server of its own behind, whichever way it ends, except
\* when uberstress itself is killed.
NoOrphans ==
  \A n \in Versions :
    n \in Alive /\ n \notin killed => n = runs /\ main \notin {"returned", "none"}

\* A report is about the version whose commit it carries. Only two others can
\* have answered in its place: a server nobody here launched, and one that a
\* killed bench left on the port.
MeasuresItsVersion ==
  \A n \in Versions : report[n] \subseteq {n, 0} \cup killed

\* A bench that resets the database and reaches its own server measures it on
\* tables made for this bench, which have seen no other load. They are another
\* server's only if that one is an orphan of a killed bench.
CleanDatabase ==
  main = "load" /\ launch /\ reset /\ measured = {} /\ port = runs =>
    /\ db = "tables" /\ ~loaded
    /\ tablesOf \in {runs} \cup killed

\* What makes the three inductive. A server that runs is this bench's, which
\* will stop it, or a killed bench left it, or it is the foreign one, which was
\* up before; and the port goes to running servers only, so those are all that
\* the load can have touched.
OwnsServer == launch /\ main \in {"wait", "dial", "load", "stop", "reap"}

ServerInv ==
  /\ \A n \in Versions : n \in Alive /\ n \notin killed => n = runs /\ OwnsServer
  /\ \A n \in Versions : n > runs => server[n] = "none"
  /\ server[0] # "starting"
  /\ main # "none" => runs > 0 /\ runs \notin killed
  /\ main \in {"stop", "reap"} => launch
  /\ measured \subseteq {runs, 0} \cup killed
  /\ main = "none" => measured = {}

\* From the reset to the first request nobody but this bench's server and
\* orphans can have put anything into the database.
FreshInv ==
  /\ main = "create" => ~loaded
  /\ reset /\ main \in {"launch", "wait", "dial", "load"} /\ measured = {} =>
       /\ ~loaded /\ db # "absent"
       /\ db = "tables" => tablesOf \in {runs} \cup killed
       /\ port = runs => db = "tables"

\* Every bench ends, whatever its server does.
BenchReturns == main # "none" ~> main = "none"
=============================================================================
