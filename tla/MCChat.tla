------------------------------- MODULE MCChat -------------------------------
(* Two chatters and two SAYs between them. One login attempt: the retries   *)
(* are MCLoginStorm's subject.                                              *)
EXTENDS Chat

MCCommands == {"LOGIN", "SAY"}
MCCounterNames == SeedCounters \cup SessionCounters \cup ChatCounters
=============================================================================
