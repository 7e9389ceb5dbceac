------------------------------ MODULE MCSeeding -----------------------------
(* Seeding of three accounts over a semaphore of two slots: the third       *)
(* goroutine has to wait for a slot.                                        *)
EXTENDS Seeding

MCCommands == {"LOGIN"}
MCCounterNames == SeedCounters
=============================================================================
