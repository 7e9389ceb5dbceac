----------------------------- MODULE LobbyClient ----------------------------
(***************************************************************************)
(* internal/proto: one Client line by line. A call sends its command and   *)
(* Expects the answer among whatever the server sends; StartTLS swaps the  *)
(* connection and its reader between two reads. The server answers in      *)
(* order, late, or not at all, sends lines of its own at any time, and may *)
(* close the connection; the lines it sent last may be lost with it.       *)
(*                                                                         *)
(* The text of a line is abstracted to its kind, which is all a matcher    *)
(* looks at.  Which command a line answers is known to the model only.     *)
(* Time is counted in ticks.                                               *)
(***************************************************************************)
EXTENDS Naturals, Sequences

CONSTANTS
  Calls,      \* the round-trip methods the owner of the connection uses
  MaxCalls,   \* bound: commands sent on the connection
  MaxWire,    \* bound: lines in flight when the server adds one of its own
  Timeout     \* ticks of a deadline

\* What the methods take for success; LOGIN goes on to LOGININFOEND.
Success ==
  [PING |-> "PONG", LOGIN |-> "ACCEPTED", REGISTER |-> "REGISTRATIONACCEPTED",
   SAY |-> "SAID", IGNORE |-> "IGNORE", UNIGNORE |-> "UNIGNORE",
   IGNORELIST |-> "IGNORELISTEND", FRIENDLIST |-> "FRIENDLISTEND",
   OPENBATTLE |-> "OPENBATTLE", JOINBATTLE |-> "JOINBATTLE",
   MYBATTLESTATUS |-> "CLIENTBATTLESTATUS", LEAVEBATTLE |-> "LEFTBATTLE",
   STARTTLS |-> "HELLO"]

\* What else they take for the answer, and return as an error.
Failure(call) ==
  CASE call = "LOGIN"                  -> {"DENIED", "AGREEMENTEND"}
    [] call = "REGISTER"               -> {"REGISTRATIONDENIED"}
    [] call \in {"IGNORE", "UNIGNORE"} -> {"SERVERMSG"}
    [] call = "OPENBATTLE"             -> {"OPENBATTLEFAILED", "SERVERMSG"}
    [] call = "JOINBATTLE"             -> {"JOINBATTLEFAILED"}
    [] call \in {"MYBATTLESTATUS", "LEAVEBATTLE"} -> {"FAILED"}
    [] OTHER                           -> {}

\* Denials after which the caller uses the connection again: loginWithRetry
\* tries once more, EnsureAccount goes on to LOGIN.
Denial == [LOGIN |-> "DENIED", REGISTER |-> "REGISTRATIONDENIED"]

\* Lines the server sends unasked: broadcasts, dump entries, announcements.
StrayKinds == {"BROADCAST", "SERVERMSG"}

ASSUME ClientAssumption ==
  /\ Calls \subseteq DOMAIN Success
  /\ MaxCalls \in Nat /\ MaxWire \in Nat /\ Timeout \in Nat

VARIABLES
  place,      \* where the goroutine that owns the connection stands
  left,       \* ticks to the deadline of its Expect or handshake
  asked,      \* commands the server was sent, in order
  result,     \* of the last call, as in RoundTrip
  wire,       \* lines on their way: the first ones are in the bufio.Reader,
  buffered,   \* this many of them
  stranded,   \* a line was thrown away with the reader it was buffered in
  server,     \* "off", "accepted", "open", "shaking" (TLS) or "gone"
  served,     \* how many of the commands it has dealt with
  accepted,   \* the numbers of those it has done
  dumping     \* it owes the LOGININFOEND of the last one

client == <<place, left, asked, result>>
stream == <<wire, buffered>>
remote == <<server, served, accepted, dumping>>
vars == <<client, stream, stranded, remote>>

Expecting == {"greeting", "awaiting", "dump", "regreeting"}
Waiting == Expecting \cup {"handshake"}
Places == Waiting \cup {"dial", "ready", "failed", "closed"}

Line(kind, to) == [kind |-> kind, to |-> to]
Current == asked[Len(asked)]

Init ==
  /\ place = "dial" /\ left = Timeout /\ asked = <<>> /\ result = "none"
  /\ wire = <<>> /\ buffered = 0 /\ stranded = FALSE
  /\ server = "off" /\ served = 0 /\ accepted = {} /\ dumping = FALSE
-----------------------------------------------------------------------------
(* The client. *)

\* Mutant: the owner goes on with the connection after an error.
GivenUp_GoesOn == IF place = "greeting" THEN "closed" ELSE "ready"

\* Every caller Exits after an error; Dial closes the connection itself.
GivenUp == IF place = "greeting" THEN "closed" ELSE "failed"

Fail == place' = GivenUp /\ result' = "failed" /\ UNCHANGED <<left, asked>>
Succeed == place' = "ready" /\ result' = "ok" /\ UNCHANGED <<left, asked>>

\* Expect starts, with a deadline of its own.
Await(where) == place' = where /\ left' = Timeout

Dial ==
  /\ place = "dial"
  /\ \/ Await("greeting") /\ server' = "accepted" /\ UNCHANGED result
     \/ place' = "closed" /\ result' = "failed" /\ UNCHANGED <<left, server>>
  /\ UNCHANGED <<asked, stream, stranded, served, accepted, dumping>>

\* readLine: a line of the buffer, or, when that is empty, of the connection,
\* of which one Read takes what has arrived so far.
ReadLine ==
  /\ left > 0 /\ wire # <<>>
  /\ wire' = Tail(wire)
  /\ IF buffered > 0 THEN buffered' = buffered - 1
     ELSE buffered' \in 0 .. Len(wire) - 1

Awaited ==
  CASE place \in {"greeting", "regreeting"} -> {"TASSERVER"}
    [] place = "dump"                       -> {"LOGININFOEND"}
    [] OTHER -> {Success[Current]} \cup Failure(Current)

\* Mutant: every line that is read starts the deadline anew.
Skip_Rearmed ==
  /\ place \in Expecting
  /\ ReadLine /\ Head(wire).kind \notin Awaited
  /\ left' = Timeout
  /\ UNCHANGED <<place, asked, result, stranded, remote>>

\* Expect: a line that does not match. The deadline is that of the whole loop.
Skip ==
  /\ place \in Expecting
  /\ ReadLine /\ Head(wire).kind \notin Awaited
  /\ UNCHANGED <<client, stranded, remote>>

Greeted ==
  /\ place \in {"greeting", "regreeting"}
  /\ ReadLine /\ Head(wire).kind \in Awaited
  /\ \/ place = "greeting" /\ place' = "ready" /\ UNCHANGED <<left, asked, result>>
     \/ place = "regreeting" /\ Succeed
  /\ UNCHANGED <<stranded, remote>>

\* Mutant: IGNORE takes any answer for its echo.
Answer_AnyIsSuccess ==
  /\ place = "awaiting"
  /\ ReadLine /\ Head(wire).kind \in Awaited
  /\ \/ Head(wire).kind # "ACCEPTED" /\ Succeed
     \/ Head(wire).kind = "ACCEPTED" /\ Await("dump") /\ UNCHANGED <<asked, result>>
  /\ UNCHANGED <<stranded, remote>>

\* The line that is taken for the answer to the call.
Answer ==
  /\ place = "awaiting"
  /\ ReadLine
  /\ LET kind == Head(wire).kind IN
     \/ kind = Success[Current] /\ Current # "LOGIN" /\ Succeed
     \/ kind = Success[Current] /\ Current = "LOGIN"
        /\ Await("dump") /\ UNCHANGED <<asked, result>>
     \/ /\ Current \in DOMAIN Denial /\ kind = Denial[Current]
        /\ place' = "ready" /\ result' = "denied" /\ UNCHANGED <<left, asked>>
     \/ /\ kind \in Failure(Current)
        /\ ~(Current \in DOMAIN Denial /\ kind = Denial[Current])
        /\ Fail
  /\ UNCHANGED <<stranded, remote>>

\* Login's second Expect.
DumpEnds ==
  /\ place = "dump"
  /\ ReadLine /\ Head(wire).kind \in Awaited
  /\ Succeed
  /\ UNCHANGED <<stranded, remote>>

\* The deadline passes, in Expect's own check or in the read.
Expired ==
  /\ place \in Waiting /\ left = 0
  /\ Fail
  /\ UNCHANGED <<stream, stranded, remote>>

\* The read finds the connection closed once all that arrived has been read.
Broken ==
  /\ place \in Waiting /\ server = "gone" /\ wire = <<>>
  /\ Fail
  /\ UNCHANGED <<stream, stranded, remote>>

\* Send. A write that fails has not delivered the whole line.
Send(call, where) ==
  /\ Len(asked) < MaxCalls
  /\ \/ asked' = Append(asked, call) /\ Await(where) /\ result' = "none"
     \/ Fail
  /\ UNCHANGED <<stream, stranded, remote>>

Ask(call) == place = "ready" /\ call # "STARTTLS" /\ Send(call, "awaiting")

\* Mutant: no check for bytes in the old reader.
Quiescent_Unchecked == TRUE

Quiescent == buffered = 0

\* Callers upgrade right after Dial, before LOGIN.
StartTLS ==
  /\ place = "ready" /\ asked = <<>> /\ "STARTTLS" \in Calls
  /\ \/ Quiescent /\ Send("STARTTLS", "handshake")
     \/ ~Quiescent /\ Fail /\ UNCHANGED <<stream, stranded, remote>>

\* The handshake reads the connection and not the reader, whose lines are gone
\* with it. A plaintext line is no handshake record.
Handshake ==
  /\ place = "handshake" /\ left > 0 /\ Len(wire) > buffered
  /\ \/ /\ wire[buffered + 1].kind = "HELLO"
        /\ Await("regreeting") /\ UNCHANGED <<asked, result>>
     \/ wire[buffered + 1].kind # "HELLO" /\ Fail
  /\ wire' = SubSeq(wire, buffered + 2, Len(wire))
  /\ buffered' = 0
  /\ stranded' = (stranded \/ buffered > 0)
  /\ UNCHANGED remote

\* Exit, or Close: whether EXIT is delivered changes nothing here.
Exit ==
  /\ place \in {"ready", "failed"}
  /\ place' = "closed"
  /\ UNCHANGED <<left, asked, result, stream, stranded, remote>>

Read == Skip \/ Greeted \/ Answer \/ DumpEnds \/ Handshake
GiveUp == Expired \/ Broken

Tick ==
  /\ place \in Waiting /\ left > 0
  /\ left' = left - 1
  /\ UNCHANGED <<place, asked, result, stream, stranded, remote>>
-----------------------------------------------------------------------------
(* The server, as far as the client relies on it. *)

Sends(line) == wire' = Append(wire, line) /\ UNCHANGED <<client, buffered, stranded>>

Greets ==
  /\ \/ server = "accepted"
     \/ server = "shaking" /\ place = "regreeting"
  /\ server' = "open"
  /\ Sends(Line("TASSERVER", 0))
  /\ UNCHANGED <<served, accepted, dumping>>

\* It does the next command, or not, and answers, or not.
Serves ==
  /\ server = "open" /\ ~dumping /\ served < Len(asked)
  /\ served' = served + 1
  /\ LET call == asked[served + 1] IN
     \/ /\ accepted' = accepted \cup {served + 1}
        /\ dumping' = (call = "LOGIN")
        /\ server' = IF call = "STARTTLS" THEN "shaking" ELSE server
        /\ Sends(Line(Success[call], served + 1))
     \/ /\ \E kind \in Failure(call) : Sends(Line(kind, served + 1))
        /\ UNCHANGED <<server, accepted, dumping>>
     \/ /\ accepted' \in {accepted, accepted \cup {served + 1}}
        /\ UNCHANGED <<client, stream, stranded, server, dumping>>

EndsDump ==
  /\ server = "open" /\ dumping
  /\ dumping' = FALSE
  /\ Sends(Line("LOGININFOEND", served))
  /\ UNCHANGED <<server, served, accepted>>

Strays ==
  /\ server = "open" /\ Len(wire) < MaxWire
  /\ \E kind \in StrayKinds : Sends(Line(kind, 0))
  /\ UNCHANGED remote

\* It goes away; of what it sent, the client's kernel may have had no part.
Drops ==
  /\ server \in {"accepted", "open", "shaking"}
  /\ server' = "gone"
  /\ \E kept \in buffered .. Len(wire) : wire' = SubSeq(wire, 1, kept)
  /\ UNCHANGED <<client, buffered, stranded, served, accepted, dumping>>

Server == Greets \/ Serves \/ EndsDump \/ Strays \/ Drops
-----------------------------------------------------------------------------
Next ==
  \/ Dial \/ Read \/ GiveUp \/ StartTLS \/ Exit \/ Tick
  \/ \E call \in Calls : Ask(call)
  \/ Server
  \/ place = "closed" /\ UNCHANGED vars   \* the connection is done with

\* A goroutine runs when it can, and time passes. The server owes nothing.
Fairness == WF_vars(Read) /\ WF_vars(GiveUp) /\ WF_vars(Tick)

Spec == Init /\ [][Next]_vars /\ Fairness
-----------------------------------------------------------------------------
(* Properties *)

Kinds == {Success[c] : c \in DOMAIN Success} \cup StrayKinds
         \cup {"TASSERVER", "LOGININFOEND", "DENIED", "AGREEMENTEND",
               "REGISTRATIONDENIED", "OPENBATTLEFAILED", "JOINBATTLEFAILED",
               "FAILED"}

\* Every variable keeps its type; the server is never ahead of the client.
ClientTypeOK ==
  /\ place \in Places
  /\ left \in 0 .. Timeout
  /\ asked \in Seq(Calls)
  /\ result \in {"none", "ok", "denied", "failed"}
  /\ wire \in Seq([kind : Kinds, to : Nat])
  /\ buffered \in 0 .. Len(wire)
  /\ stranded \in BOOLEAN
  /\ server \in {"off", "accepted", "open", "shaking", "gone"}
  /\ served \in 0 .. Len(asked)
  /\ accepted \subseteq 1 .. served
  /\ dumping \in BOOLEAN

\* Whenever the connection can take a command, no answer to an earlier one is
\* owed or on its way: none can be taken for the answer to the next. This is
\* what the comment on readLine asks of the callers.
NothingOwed ==
  place = "ready" =>
    /\ served = Len(asked) /\ ~dumping
    /\ \A i \in 1 .. Len(wire) : wire[i].to = 0

\* No upgrade to TLS throws away a line the server had sent.
NothingStranded == ~stranded

\* What makes the three inductive. The lines that answer no command are of kinds
\* no method takes for a success; an answer tells what became of its command,
\* and is the only one, but for the two of a LOGIN.
AnswersHold ==
  \A i \in 1 .. Len(wire) :
    LET n == wire[i].to  kind == wire[i].kind IN
    \/ n = 0 /\ kind \in StrayKinds \cup {"TASSERVER"}
    \/ n \in accepted /\ kind \in {Success[asked[n]], "LOGININFOEND"}
    \/ n \in (1 .. served) \ accepted /\ kind \in Failure(asked[n])

OneAnswer ==
  \A i, j \in 1 .. Len(wire) :
    i < j /\ wire[i].to = wire[j].to /\ wire[i].to > 0
      => wire[i].kind = "ACCEPTED" /\ wire[j].kind = "LOGININFOEND"

DumpInv ==
  dumping =>
    /\ served \in accepted /\ asked[served] = "LOGIN"
    /\ \A i \in 1 .. Len(wire) : wire[i].to = served => wire[i].kind = "ACCEPTED"

\* The server is at most one command behind, and then the client waits for it or
\* has given up.
OneBehind ==
  /\ Len(asked) <= served + 1
  /\ served < Len(asked) =>
       /\ ~dumping
       /\ place \in {"awaiting", "handshake", "failed", "closed"}
       /\ result \in {"none", "failed"}

PlaceInv ==
  /\ place \in {"dial", "greeting", "ready", "regreeting"} =>
       ~dumping /\ \A i \in 1 .. Len(wire) : wire[i].to = 0
  /\ place \in {"awaiting", "dump", "handshake", "regreeting"} =>
       asked # <<>> /\ \A i \in 1 .. Len(wire) : wire[i].to \in {0, Len(asked)}
  /\ place \in {"dump", "regreeting"} => Len(asked) \in accepted
  /\ place = "handshake" => buffered = 0 /\ Current = "STARTTLS"

ClientInv ==
  /\ ClientTypeOK /\ NothingStranded
  /\ AnswersHold /\ OneAnswer /\ DumpInv /\ OneBehind /\ PlaceInv

\* Every call comes to an end, whatever the server sends and however much: the
\* deadline is that of the call, not of a line.
RoundTripEnds == place \in Waiting ~> place \notin Waiting

Phase ==
  CASE place \in {"dial", "greeting", "ready"} -> "idle"
    [] place \in {"failed", "closed"}          -> "over"
    [] OTHER                                   -> "called"

Contract == INSTANCE RoundTrip WITH
  phase <- Phase, calls <- Len(asked), done <- accepted

\* The line-by-line client keeps the promise of a round trip: a success is the
\* server's answer to this very command.
FulfilsRoundTrip == Contract!Spec
=============================================================================
