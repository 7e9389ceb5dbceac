------------------------------ MODULE MCMetrics -----------------------------
(* A run of up to 101 pings, for which all three quantiles are whole at some *)
(* count and clamped at none, or two of at most three that are compared.     *)
(* Latencies come in rising, falling, mixed and repeating order; LOGIN has   *)
(* at most one sample, so that it is there, missing or failed in each run.   *)
(* JOIN, as in chat, has neither samples nor attributed failures.            *)
EXTENDS Metrics

MCCommands == {"PING", "LOGIN", "JOIN"}
MCAttributed == {"PING", "LOGIN"}
Samples(pings) ==
  [c \in MCCommands |-> CASE c = "PING" -> pings [] c = "LOGIN" -> 1 [] c = "JOIN" -> 0]
MCMaxSamples == Samples(101)
MCMaxCompared == Samples(3)

\* Rising, falling, mixed (multiples of 37 modulo 101 are all different) in
\* steps of 700 ns, which Micros tells apart or not, and three values in turn.
Order(f(_)) == [k \in 1 .. 101 |-> f(k)]
MCArrivals ==
  {Order(LAMBDA k : 1000 * k),
   Order(LAMBDA k : 1000 * (102 - k)),
   Order(LAMBDA k : 1000 + 700 * ((37 * k) % 101)),
   Order(LAMBDA k : 1000 + 1500 * (k % 3))}
=============================================================================
