--------------------------- MODULE MCRegisterStorm --------------------------
(* Three sessions on names that are free or taken.                          *)
EXTENDS RegisterStorm

MCCommands == {"LOGIN", "REGISTER"}
MCCounterNames == SeedCounters \cup SessionCounters \cup RegisterCounters
=============================================================================
