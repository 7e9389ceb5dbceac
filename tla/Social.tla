------------------------------- MODULE Social -------------------------------
(***************************************************************************)
(* internal/workload/social.go, the social scenario: a RampedRun whose     *)
(* sessions cycle through IGNORE, UNIGNORE, IGNORELIST and FRIENDLIST at   *)
(* every tick until the window closes or a command fails (Ignore, Unignore,*)
(* IgnoreList and FriendList of internal/proto/commands.go).  The target   *)
(* of session i is the account of the next one.  The server keeps the      *)
(* ignore rows in its database: they outlive the session and the run.      *)
(***************************************************************************)
EXTENDS RampedRun

CONSTANT MaxSocialOps   \* bound: commands of all the sessions together

\* Mutant: the deletion comes before the insertion.
Cycle_Swapped == <<"UNIGNORE", "IGNORE", "IGNORELIST", "FRIENDLIST">>

Cycle == <<"IGNORE", "UNIGNORE", "IGNORELIST", "FRIENDLIST">>
OkCounter == [IGNORE |-> "ignore_ok", UNIGNORE |-> "unignore_ok",
              IGNORELIST |-> "ignorelist_ok", FRIENDLIST |-> "friendlist_ok"]
ErrorCounter == [IGNORE |-> "ignore_error", UNIGNORE |-> "unignore_error",
                 IGNORELIST |-> "ignorelist_error", FRIENDLIST |-> "friendlist_error"]

SocialCommands == {Cycle[k] : k \in 1 .. 4}
SocialCounters ==
  {OkCounter[c] : c \in SocialCommands} \cup {ErrorCounter[c] : c \in SocialCommands}

ASSUME SocialAssumption ==
  /\ MaxSocialOps \in Nat
  /\ SocialCommands \subseteq Commands
  /\ SocialCounters \subseteq CounterNames

VARIABLES
  seq,       \* id -> commands of the session that succeeded, modulo 4
  ignores,   \* ids whose account has a row that ignores its peer
  rejected   \* ids whose IGNORE or UNIGNORE the server has rejected

socialOwn == <<seq, ignores, rejected>>
socialVars == <<vars, socialOwn>>

Peer(i) == (i + 1) % Conns
Command(i) == Cycle[seq[i] + 1]

\* An earlier run against the same server may have left rows.
SocialInit ==
  /\ RunInit
  /\ seq = [i \in Ids |-> 0]
  /\ ignores \in SUBSET {i \in Ids : account[i] = "confirmed" /\ account[Peer(i)] # "absent"}
  /\ rejected = {}

SocialElse == UNCHANGED <<lobby, ctx, main, next, sem, seeder, window, attempt>>
-----------------------------------------------------------------------------
(* runOneSocial after the login. *)

LoopBegins(i) ==
  /\ sess[i] = "in"
  /\ SessionTo(i, "paced")
  /\ UNCHANGED <<recorder, socialOwn>> /\ SocialElse

OpsLeft ==
  Total(hists, SocialCommands) + Total(cmdErrors, SocialCommands)
    + Cardinality(At({"busy"})) < MaxSocialOps

\* The tick case of the select; with loadCtx done as well either is taken.
OpTick(i) ==
  /\ sess[i] = "paced"
  /\ OpsLeft
  /\ SessionTo(i, "busy")
  /\ UNCHANGED <<recorder, socialOwn>> /\ SocialElse

\* Whether the server does what the command asks for. It rejects a row that is
\* there already, or is not, and a target that is the sender or does not exist.
Accepts(i) ==
  CASE Command(i) = "IGNORE"   -> /\ i \notin ignores
                                  /\ Peer(i) # i /\ account[Peer(i)] # "absent"
    [] Command(i) = "UNIGNORE" -> i \in ignores
    [] OTHER                   -> TRUE

RowsAfter(i) ==
  CASE Command(i) = "IGNORE"   -> ignores \cup {i}
    [] Command(i) = "UNIGNORE" -> ignores \ {i}
    [] OTHER                   -> ignores

OpSucceeds(i) == SessionTo(i, "sampled") /\ Observe(Command(i))

\* One round trip: echoed; rejected with SERVERMSG, which is an error; or not
\* answered in time, whether or not the server has done it.
Op(i) ==
  /\ sess[i] = "busy"
  /\ \/ /\ Connected(i) /\ Accepts(i)
        /\ OpSucceeds(i)
        /\ ignores' = RowsAfter(i) /\ UNCHANGED rejected
     \/ /\ Connected(i) /\ ~Accepts(i)
        /\ OpFails(i, Command(i))
        /\ rejected' = rejected \cup {i} /\ UNCHANGED ignores
     \/ /\ OpFails(i, Command(i))
        /\ ignores' \in {ignores, IF Connected(i) /\ Accepts(i) THEN RowsAfter(i) ELSE ignores}
        /\ UNCHANGED rejected
  /\ UNCHANGED seq /\ SocialElse

\* Mutant: a command is left out of the cycle.
Advance_ByTwo(i) == seq' = [seq EXCEPT ![i] = (@ + 2) % 4]

Advance(i) == seq' = [seq EXCEPT ![i] = (@ + 1) % 4]

OpSampled(i) ==
  /\ sess[i] = "sampled"
  /\ SessionTo(i, "paced") /\ Inc(OkCounter[Command(i)])
  /\ Advance(i)
  /\ UNCHANGED <<ignores, rejected>> /\ SocialElse

OpBroken(i) ==
  /\ sess[i] = "broken"
  /\ SessionTo(i, "exit") /\ Inc(ErrorCounter[Command(i)])
  /\ UNCHANGED socialOwn /\ SocialElse

SocialDone(i) == SeesWindowClosed(i, "paced") /\ UNCHANGED <<recorder, socialOwn>> /\ SocialElse

Socialite(i) ==
  \/ (Login(i) \/ SessionExit(i)) /\ UNCHANGED socialOwn
  \/ LoopBegins(i) \/ OpTick(i) \/ Op(i) \/ OpSampled(i) \/ OpBroken(i) \/ SocialDone(i)

SocialNext ==
  \/ Shared /\ UNCHANGED socialOwn
  \/ \E i \in Ids : Socialite(i)
  \/ main = "returned" /\ UNCHANGED socialVars   \* Run has returned

\* As for login-storm: goroutines run, calls have deadlines, the window ends.
SocialFairness ==
  /\ WF_socialVars(RunMain /\ UNCHANGED socialOwn)
  /\ \A i \in Ids : /\ WF_socialVars(SeedingStep(i) /\ UNCHANGED socialOwn)
                    /\ WF_socialVars(Socialite(i))
  /\ WF_socialVars(WindowElapses /\ UNCHANGED socialOwn)

SocialSpec == SocialInit /\ [][SocialNext]_socialVars /\ SocialFairness
-----------------------------------------------------------------------------
(* Properties *)

\* A session that has done this many commands of its cycle knows its row: there
\* is one after IGNORE and none after UNIGNORE.
RowKnown(i, done) ==
  /\ done = 1 => i \in ignores
  /\ done \in {2, 3} => i \notin ignores

\* Between two commands every session knows its row, so that each write finds
\* what it needs, whatever the other sessions and their failures do.
CycleKnowsRow == \A i \in Ids : sess[i] = "paced" => RowKnown(i, seq[i])

\* A rejection is only ever the answer to the first command of a cycle.
UnignoreNeverRejected == \A i \in rejected : Command(i) = "IGNORE"

\* What makes the two inductive: the cycle begins after the login, a command
\* leaves the row known until it fails, and a session that was rejected leaves.
CycleInv ==
  /\ seq \in [Ids -> 0 .. 3]
  /\ \A i \in Ids :
       /\ sess[i] \in {"idle", "dial", "opened", "backoff", "observed", "in"} => seq[i] = 0
       /\ sess[i] \in {"in", "paced", "busy"} => RowKnown(i, seq[i])
       /\ sess[i] = "sampled" => RowKnown(i, seq[i] + 1)
       /\ i \in rejected => seq[i] = 0 /\ sess[i] \in {"broken", "exit", "done"}
  /\ rejected \subseteq Ids
=============================================================================
