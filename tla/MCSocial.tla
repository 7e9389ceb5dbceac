------------------------------ MODULE MCSocial ------------------------------
(* Two sessions, each the other's peer. Five commands: one session can go   *)
(* round its cycle and begin the next.                                      *)
EXTENDS Social

MCCommands == {"LOGIN"} \cup SocialCommands
MCCounterNames == SeedCounters \cup SessionCounters \cup SocialCounters
=============================================================================
