------------------------------ MODULE MCBattle ------------------------------
(* Two hosts, one after the other, and a player. Five commands: the join    *)
(* and a cycle that ends in joining again.                                  *)
EXTENDS Battle

MCCommands == {"LOGIN", "OPENBATTLE"} \cup BattleCommands
MCCounterNames == SeedCounters \cup SessionCounters \cup HostCounters \cup BattleCounters

\* Nothing is seeded, so an unconfirmed account is as good as an absent one:
\* its LOGIN fails. One of the two will do.
MCInit == BattleInit /\ \A i \in Ids : account[i] # "unconfirmed"
MCSpec == MCInit /\ [][BattleNext]_battleVars /\ BattleFairness
=============================================================================
