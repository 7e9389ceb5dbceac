---------------------------- MODULE MCLoginStorm ----------------------------
EXTENDS LoginStorm

MCCommands == {"LOGIN"}
MCCounterNames == SeedCounters \cup SessionCounters
=============================================================================
