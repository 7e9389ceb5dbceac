------------------------------ MODULE RoundTrip -----------------------------
(***************************************************************************)
(* What a round-trip method of proto.Client promises its caller, and what  *)
(* every scenario module relies on when it makes a call one step: "ok" is  *)
(* returned only for a call the server has done, "denied" only for one it  *)
(* never will do, and after "failed" nothing is known: the server may have *)
(* done it or may yet do it, and the connection is given up.               *)
(***************************************************************************)
EXTENDS Naturals

VARIABLES
  phase,    \* "idle", "called", or "over" once the connection is given up
  calls,    \* calls made so far; the call under way has this number
  done,     \* the calls the server has done
  result    \* of the last call: "none", "ok", "denied" or "failed"

vars == <<phase, calls, done, result>>

Init == phase = "idle" /\ calls = 0 /\ done = {} /\ result = "none"

Call ==
  /\ phase = "idle"
  /\ phase' = "called" /\ calls' = calls + 1 /\ result' = "none"
  /\ UNCHANGED done

\* The server does the last call, in time or after its caller gave up.
Do ==
  /\ phase \in {"called", "over"} /\ result \in {"none", "failed"}
  /\ calls > 0 /\ calls \notin done
  /\ done' = done \cup {calls}
  /\ UNCHANGED <<phase, calls, result>>

ReturnOk ==
  /\ phase = "called" /\ calls \in done
  /\ phase' = "idle" /\ result' = "ok"
  /\ UNCHANGED <<calls, done>>

ReturnDenied ==
  /\ phase = "called" /\ calls \notin done
  /\ phase' = "idle" /\ result' = "denied"
  /\ UNCHANGED <<calls, done>>

Fail ==
  /\ phase \in {"idle", "called"}
  /\ phase' = "over" /\ result' = "failed"
  /\ UNCHANGED <<calls, done>>

Leave ==
  /\ phase = "idle"
  /\ phase' = "over"
  /\ UNCHANGED <<calls, done, result>>

Next == Call \/ Do \/ ReturnOk \/ ReturnDenied \/ Fail \/ Leave

Spec == Init /\ [][Next]_vars
=============================================================================
