-------------------------- MODULE LobbyClientProofs -------------------------
(***************************************************************************)
(* Theorems about LobbyClient, for any methods, any number of commands and *)
(* lines and any deadline: one connection keeps the promise of a round     *)
(* trip, owes nothing when it is used again, and strands nothing.          *)
(***************************************************************************)
EXTENDS LobbyClient, TLAPS, SequenceTheorems

(* What the kinds of lines tell apart. *)
LEMMA SuccessNames ==
  DOMAIN Success = {"PING", "LOGIN", "REGISTER", "SAY", "IGNORE", "UNIGNORE",
                    "IGNORELIST", "FRIENDLIST", "OPENBATTLE", "JOINBATTLE",
                    "MYBATTLESTATUS", "LEAVEBATTLE", "STARTTLS"}
  BY DEF Success

LEMMA SuccessKinds ==
  ASSUME NEW call \in DOMAIN Success
  PROVE  /\ Success[call] \in Kinds
         /\ Success[call] \notin StrayKinds \cup {"TASSERVER", "LOGININFOEND"}
         /\ Success[call] = "ACCEPTED" <=> call = "LOGIN"
         /\ Success[call] = "HELLO" <=> call = "STARTTLS"
  <1>1. Success[call] \in Kinds
    BY DEF Kinds
  <1>2. QED
    BY <1>1, SuccessNames DEF Success, StrayKinds

LEMMA FailureKinds ==
  ASSUME NEW call \in DOMAIN Success, NEW kind \in Failure(call)
  PROVE  /\ kind \in Kinds
         /\ kind \notin {"LOGININFOEND", "HELLO", "ACCEPTED"}
         /\ kind # Success[call]
  BY SuccessNames DEF Failure, Success, Kinds, StrayKinds

LEMMA DenialKinds ==
  ASSUME NEW call \in DOMAIN Denial
  PROVE  /\ call \in {"LOGIN", "REGISTER"}
         /\ Denial[call] \in Failure(call)
         /\ Denial[call] \notin StrayKinds \cup {"TASSERVER"}
  BY DEF Denial, Failure, StrayKinds

Lines == [kind : Kinds, to : Nat]

(* The two ways the stream changes: lines are taken off either end, or one
   line is added. *)
Shortened(k) ==
  /\ wire' \in Seq(Lines) /\ k + Len(wire') <= Len(wire)
  /\ \A i \in 1 .. Len(wire') : wire'[i] = wire[i + k]

Lengthened(line) ==
  /\ wire' \in Seq(Lines) /\ Len(wire') = Len(wire) + 1
  /\ \A i \in 1 .. Len(wire) : wire'[i] = wire[i]
  /\ wire'[Len(wire) + 1] = line

LEMMA ReadShortens ==
  ASSUME ClientTypeOK, ReadLine
  PROVE  /\ Shortened(1) /\ Len(wire') = Len(wire) - 1
         /\ Head(wire) = wire[1] /\ wire[1] \in Lines /\ 1 \in 1 .. Len(wire)
         /\ buffered' \in 0 .. Len(wire')
  <1>1. wire \in Seq(Lines) /\ wire # <<>> /\ wire' = Tail(wire)
    BY DEF ClientTypeOK, ReadLine, Lines
  <1>2. /\ Tail(wire) \in Seq(Lines) /\ Len(Tail(wire)) = Len(wire) - 1
        /\ \A i \in 1 .. Len(Tail(wire)) : Tail(wire)[i] = wire[i + 1]
    BY <1>1, HeadTailProperties
  <1>3. Len(wire) \in Nat /\ Len(wire) >= 1 /\ Head(wire) = wire[1] /\ wire[1] \in Lines
    BY <1>1
  <1>4. buffered' \in 0 .. Len(wire) - 1
    BY <1>1, <1>3 DEF ReadLine, ClientTypeOK
  <1>5. Shortened(1)
    BY <1>1, <1>2, <1>3 DEF Shortened
  <1>6. QED
    BY <1>1, <1>2, <1>3, <1>4, <1>5

LEMMA SubSeqShortens ==
  ASSUME ClientTypeOK, NEW m \in Nat, NEW n \in Nat, m <= n, n <= Len(wire),
         wire' = SubSeq(wire, m + 1, n)
  PROVE  Shortened(m) /\ Len(wire') = n - m
  <1>1. wire \in Seq(Lines)
    BY DEF ClientTypeOK, Lines
  <1>2. \A i \in m + 1 .. n : wire[i] \in Lines
    BY <1>1
  <1>3. /\ wire' \in Seq(Lines)
        /\ Len(wire') = IF m + 1 <= n THEN n - (m + 1) + 1 ELSE 0
        /\ \A i \in 1 .. n - (m + 1) + 1 : wire'[i] = wire[(m + 1) + i - 1]
    BY <1>2, SubSeqProperties
  <1>4. Len(wire') = n - m /\ Len(wire) \in Nat
    BY <1>1, <1>3
  <1>5. \A i \in 1 .. Len(wire') : wire'[i] = wire[i + m]
    BY <1>3, <1>4
  <1>6. QED
    BY <1>3, <1>4, <1>5 DEF Shortened

LEMMA SendLengthens ==
  ASSUME ClientTypeOK, NEW line \in Lines, Sends(line)
  PROVE  Lengthened(line)
  BY AppendProperties DEF ClientTypeOK, Sends, Lengthened, Lines

(* What is left of the stream still tells the truth about the commands. *)
LEMMA FewerLines ==
  ASSUME ClientInv, NEW k \in Nat, Shortened(k),
         UNCHANGED <<asked, served, accepted, dumping>>
  PROVE  AnswersHold' /\ OneAnswer' /\ DumpInv'
  <1>1. Len(wire) \in Nat /\ Len(wire') \in Nat
    BY DEF ClientInv, ClientTypeOK, Shortened
  <1>2. \A i \in 1 .. Len(wire') : i + k \in 1 .. Len(wire) /\ wire'[i] = wire[i + k]
    BY <1>1 DEF Shortened
  <1>3. AnswersHold'
    BY <1>2 DEF ClientInv, AnswersHold
  <1>4. OneAnswer'
    <2> SUFFICES ASSUME NEW i \in 1 .. Len(wire'), NEW j \in 1 .. Len(wire'), i < j,
                        wire'[i].to = wire'[j].to, wire'[i].to > 0
                 PROVE  wire'[i].kind = "ACCEPTED" /\ wire'[j].kind = "LOGININFOEND"
      BY DEF OneAnswer
    <2>1. i + k < j + k
      OBVIOUS
    <2>2. QED
      BY <1>2, <2>1 DEF ClientInv, OneAnswer
  <1>5. DumpInv'
    BY <1>2 DEF ClientInv, DumpInv
  <1>6. QED
    BY <1>3, <1>4, <1>5

(* A line that answers nothing can be added at any time. *)
LEMMA StrayLine ==
  ASSUME ClientInv, NEW line \in Lines, Lengthened(line),
         line.to = 0, line.kind \in StrayKinds \cup {"TASSERVER"},
         UNCHANGED <<asked, served, accepted, dumping>>
  PROVE  AnswersHold' /\ OneAnswer' /\ DumpInv'
  <1>1. Len(wire) \in Nat /\ served \in Nat /\ accepted \subseteq 1 .. served
    BY DEF ClientInv, ClientTypeOK
  <1>2. /\ \A i \in 1 .. Len(wire') : i \in 1 .. Len(wire) \/ wire'[i] = line
        /\ \A i \in 1 .. Len(wire) : wire'[i] = wire[i]
        /\ wire'[Len(wire')] = line
    BY <1>1 DEF Lengthened
  <1>3. AnswersHold'
    BY <1>2 DEF ClientInv, AnswersHold
  <1>4. OneAnswer'
    BY <1>2 DEF ClientInv, OneAnswer
  <1>5. DumpInv'
    BY <1>1, <1>2 DEF ClientInv, DumpInv
  <1>6. QED
    BY <1>3, <1>4, <1>5

(* The line a client acts on: what it can be taken for. *)
LEMMA AnswerIsTheirs ==
  ASSUME ClientInv, NEW i \in 1 .. Len(wire), asked # <<>>,
         wire[i].to \in {0, Len(asked)}
  PROVE  /\ Current \in DOMAIN Success
         /\ wire[i].kind = Success[Current] =>
              wire[i].to = Len(asked) /\ Len(asked) \in accepted
         /\ Current \in DOMAIN Denial /\ wire[i].kind = Denial[Current] =>
              /\ wire[i].to = Len(asked)
              /\ Len(asked) \in (1 .. served) \ accepted
         /\ wire[i].kind = "LOGININFOEND" => wire[i].to = Len(asked)
  <1>1. Len(asked) \in Nat \ {0} /\ Current \in DOMAIN Success
    BY ClientAssumption DEF ClientInv, ClientTypeOK, Current
  <1>2. CASE wire[i].to = 0
    <2>1. accepted \subseteq 1 .. served /\ 0 \notin 1 .. served
      BY DEF ClientInv, ClientTypeOK
    <2>2. wire[i].kind \in StrayKinds \cup {"TASSERVER"}
      BY <1>2, <2>1 DEF ClientInv, AnswersHold
    <2>3. QED
      BY <1>1, <1>2, <2>2, SuccessKinds, DenialKinds DEF StrayKinds
  <1>3. CASE wire[i].to = Len(asked)
    <2>1. \/ Len(asked) \in accepted /\ wire[i].kind \in {Success[Current], "LOGININFOEND"}
          \/ Len(asked) \in (1 .. served) \ accepted /\ wire[i].kind \in Failure(Current)
      BY <1>1, <1>3 DEF ClientInv, AnswersHold, Current
    <2>2. Current \in DOMAIN Denial =>
            Denial[Current] \notin {Success[Current], "LOGININFOEND"}
      BY <1>1, DenialKinds, FailureKinds
    <2>3. QED
      BY <1>1, <1>3, <2>1, <2>2, FailureKinds
  <1>4. QED
    BY <1>2, <1>3

(* After an answer nothing else of that command is on its way. *)
LEMMA NothingLeft ==
  ASSUME ClientInv, NEW k \in 1 .. Len(wire), Shortened(k), asked # <<>>,
         \A i \in 1 .. Len(wire) : wire[i].to \in {0, Len(asked)},
         wire[k].to = Len(asked), wire[k].kind # "ACCEPTED"
  PROVE  ~dumping /\ \A i \in 1 .. Len(wire') : wire'[i].to = 0
  <1>1. Len(asked) \in Nat \ {0} /\ Len(wire) \in Nat /\ Len(wire') \in Nat
    BY DEF ClientInv, ClientTypeOK, Shortened
  <1>2. wire[k].to \in 1 .. served
    BY <1>1 DEF ClientInv, ClientTypeOK, AnswersHold
  <1>3. served = Len(asked)
    BY <1>1, <1>2 DEF ClientInv, ClientTypeOK
  <1>4. ~dumping
    BY <1>3 DEF ClientInv, DumpInv
  <1>5. \A i \in 1 .. Len(wire') : wire'[i].to = 0
    <2> SUFFICES ASSUME NEW i \in 1 .. Len(wire'), wire'[i].to # 0
                 PROVE  FALSE
      OBVIOUS
    <2>1. i + k \in 1 .. Len(wire) /\ wire'[i] = wire[i + k] /\ k < i + k
      BY <1>1 DEF Shortened
    <2>2. wire[i + k].to = wire[k].to /\ wire[k].to > 0
      BY <1>1, <2>1
    <2>3. QED
      BY <2>1, <2>2 DEF ClientInv, OneAnswer
  <1>6. QED
    BY <1>4, <1>5

(* Expect's loop, whichever line it finds. *)
LEMMA ExpectInv ==
  ASSUME ClientInv, Skip \/ Greeted \/ Answer \/ DumpEnds
  PROVE  ClientInv'
  <1> USE DEF client, remote
  <1>1. ReadLine /\ UNCHANGED <<asked, stranded, remote>>
    BY DEF Skip, Greeted, Answer, DumpEnds, Succeed, Fail, Await
  <1>2. /\ Shortened(1) /\ Head(wire) = wire[1] /\ wire[1] \in Lines
        /\ 1 \in 1 .. Len(wire) /\ buffered' \in 0 .. Len(wire')
    BY <1>1, ReadShortens DEF ClientInv
  <1>3. AnswersHold' /\ OneAnswer' /\ DumpInv'
    BY <1>1, <1>2, FewerLines
  <1>4. ClientTypeOK' /\ NothingStranded'
    <2>1. place' \in Places /\ left' \in 0 .. Timeout
          /\ result' \in {"none", "ok", "denied", "failed"}
      BY ClientAssumption
         DEF ClientInv, ClientTypeOK, Places, Waiting, Expecting,
             Skip, Greeted, Answer, DumpEnds, Succeed, Fail, Await, GivenUp
    <2>2. wire' \in Seq([kind : Kinds, to : Nat])
      BY <1>2 DEF Shortened, Lines
    <2>3. QED
      BY <1>1, <1>2, <2>1, <2>2 DEF ClientInv, ClientTypeOK, NothingStranded
  <1>5. \A i \in 1 .. Len(wire') : \E j \in 1 .. Len(wire) : wire'[i] = wire[j]
    <2>1. Len(wire) \in Nat /\ Len(wire') \in Nat
      BY <1>2 DEF ClientInv, ClientTypeOK, Shortened
    <2>2. \A i \in 1 .. Len(wire') : i + 1 \in 1 .. Len(wire) /\ wire'[i] = wire[i + 1]
      BY <1>2, <2>1 DEF Shortened
    <2>3. QED
      BY <2>2
  <1>6. OneBehind' /\ PlaceInv'
    <2>1. CASE Skip
      BY <1>1, <1>5, <2>1
         DEF Skip, ClientInv, OneBehind, PlaceInv, Current, Expecting
    <2>2. CASE Greeted
      BY <1>1, <1>5, <2>2 DEF Greeted, Succeed, ClientInv, OneBehind, PlaceInv
    <2>3. CASE Answer
      <3>1. /\ place = "awaiting" /\ asked # <<>>
            /\ \A i \in 1 .. Len(wire) : wire[i].to \in {0, Len(asked)}
        BY <2>3 DEF Answer, ClientInv, PlaceInv
      <3>2. /\ Current \in DOMAIN Success
            /\ wire[1].kind = Success[Current] =>
                 wire[1].to = Len(asked) /\ Len(asked) \in accepted
            /\ Current \in DOMAIN Denial /\ wire[1].kind = Denial[Current] =>
                 wire[1].to = Len(asked) /\ Len(asked) \in (1 .. served) \ accepted
        BY <1>2, <3>1, AnswerIsTheirs
      <3>3. CASE wire[1].kind = Success[Current] /\ Current = "LOGIN" /\ Await("dump")
                 /\ UNCHANGED result
        <4>1. accepted \subseteq 1 .. served /\ served \in Nat /\ Len(asked) \in Nat
          BY DEF ClientInv, ClientTypeOK
        <4>2. Len(asked) \in accepted /\ Len(asked) <= served
          BY <3>2, <3>3, <4>1
        <4>3. OneBehind'
          BY <1>1, <4>1, <4>2 DEF ClientInv, OneBehind
        <4>4. PlaceInv'
          BY <1>1, <1>5, <3>1, <3>3, <4>2 DEF Await, PlaceInv
        <4>5. QED
          BY <4>3, <4>4
      <3>4. CASE /\ place' = "ready" /\ wire[1].to = Len(asked) /\ wire[1].kind # "ACCEPTED"
                 /\ Len(asked) \in 1 .. served
        <4>1. ~dumping /\ \A i \in 1 .. Len(wire') : wire'[i].to = 0
          BY <1>2, <3>1, <3>4, NothingLeft
        <4>2. served \in Nat /\ Len(asked) \in Nat
          BY DEF ClientInv, ClientTypeOK
        <4>3. QED
          BY <1>1, <3>4, <4>1, <4>2 DEF ClientInv, OneBehind, PlaceInv
      <3>5. CASE Fail
        BY <1>1, <3>1, <3>5 DEF Fail, GivenUp, ClientInv, OneBehind, PlaceInv
      <3>6. accepted \subseteq 1 .. served
        BY DEF ClientInv, ClientTypeOK
      <3>7. Current \in DOMAIN Denial => Denial[Current] # "ACCEPTED"
        BY <3>2, DenialKinds, FailureKinds
      <3>8. \/ wire[1].kind = Success[Current] /\ Current # "LOGIN" /\ Succeed
            \/ wire[1].kind = Success[Current] /\ Current = "LOGIN" /\ Await("dump")
               /\ UNCHANGED result
            \/ /\ Current \in DOMAIN Denial /\ wire[1].kind = Denial[Current]
               /\ place' = "ready"
            \/ Fail
        BY <1>2, <2>3 DEF Answer
      <3>9. QED
        BY <3>2, <3>3, <3>4, <3>5, <3>6, <3>7, <3>8, SuccessKinds DEF Succeed
    <2>4. CASE DumpEnds
      <3>1. /\ asked # <<>> /\ \A i \in 1 .. Len(wire) : wire[i].to \in {0, Len(asked)}
            /\ wire[1].kind = "LOGININFOEND" /\ Len(asked) \in accepted
        BY <1>2, <2>4 DEF DumpEnds, Awaited, ClientInv, PlaceInv
      <3>2. wire[1].to = Len(asked)
        BY <1>2, <3>1, AnswerIsTheirs
      <3>3. ~dumping /\ \A i \in 1 .. Len(wire') : wire'[i].to = 0
        BY <1>2, <3>1, <3>2, NothingLeft
      <3>4. accepted \subseteq 1 .. served /\ served \in Nat /\ Len(asked) \in Nat
        BY DEF ClientInv, ClientTypeOK
      <3>5. QED
        BY <1>1, <2>4, <3>1, <3>3, <3>4
           DEF DumpEnds, Succeed, ClientInv, OneBehind, PlaceInv
    <2>5. QED
      BY <2>1, <2>2, <2>3, <2>4
  <1>7. QED
    BY <1>3, <1>4, <1>6 DEF ClientInv

(* The swap of the reader loses nothing, because nothing is in the old one. *)
LEMMA HandshakeInv ==
  ASSUME ClientInv, Handshake
  PROVE  ClientInv'
  <1>1. /\ place = "handshake" /\ buffered = 0 /\ Current = "STARTTLS" /\ asked # <<>>
        /\ \A i \in 1 .. Len(wire) : wire[i].to \in {0, Len(asked)}
    BY DEF Handshake, ClientInv, PlaceInv
  <1>2. /\ Len(wire) \in Nat /\ 1 \in 1 .. Len(wire)
        /\ wire' = SubSeq(wire, 1 + 1, Len(wire)) /\ buffered' = 0 /\ ~stranded'
        /\ UNCHANGED <<asked, server, served, accepted, dumping>>
    BY <1>1 DEF Handshake, remote, ClientInv, ClientTypeOK, NothingStranded, Await, Fail
  <1>3. Shortened(1) /\ Len(wire') \in Nat
    BY <1>2, SubSeqShortens DEF ClientInv
  <1>4. AnswersHold' /\ OneAnswer' /\ DumpInv'
    BY <1>2, <1>3, FewerLines
  <1>5. ClientTypeOK' /\ NothingStranded'
    <2>1. place' \in Places /\ left' \in 0 .. Timeout
          /\ result' \in {"none", "ok", "denied", "failed"}
      BY ClientAssumption
         DEF ClientInv, ClientTypeOK, Places, Waiting, Expecting, Handshake, Fail, Await, GivenUp
    <2>2. wire' \in Seq([kind : Kinds, to : Nat])
      BY <1>3 DEF Shortened, Lines
    <2>3. stranded' \in BOOLEAN
      BY DEF Handshake
    <2>4. buffered' \in 0 .. Len(wire')
      BY <1>2, <1>3
    <2>5. QED
      BY <1>2, <2>1, <2>2, <2>3, <2>4 DEF ClientInv, ClientTypeOK, NothingStranded
  <1>6. OneBehind' /\ PlaceInv'
    <2>1. CASE place' = "regreeting" /\ wire[1].kind = "HELLO"
      <3>1. wire[1].to = Len(asked) /\ Len(asked) \in accepted
        BY <1>1, <1>2, <2>1, AnswerIsTheirs, SuccessKinds
      <3>2. ~dumping /\ \A i \in 1 .. Len(wire') : wire'[i].to = 0
        BY <1>1, <1>2, <1>3, <2>1, <3>1, NothingLeft
      <3>3. accepted \subseteq 1 .. served /\ served \in Nat /\ Len(asked) \in Nat
        BY DEF ClientInv, ClientTypeOK
      <3>4. QED
        BY <1>1, <1>2, <2>1, <3>1, <3>2, <3>3 DEF ClientInv, OneBehind, PlaceInv
    <2>2. CASE place' = "failed" /\ result' = "failed"
      BY <1>2, <2>2 DEF ClientInv, OneBehind, PlaceInv
    <2>3. wire[buffered + 1] = wire[1]
      BY <1>1
    <2>4. QED
      BY <1>1, <2>1, <2>2, <2>3 DEF Handshake, Await, Fail, GivenUp
  <1>7. QED
    BY <1>4, <1>5, <1>6 DEF ClientInv

(* The steps of the client that leave the stream alone. *)
LEMMA OwnerInv ==
  ASSUME ClientInv, Dial \/ GiveUp \/ Exit \/ Tick
  PROVE  ClientInv'
  <1> USE DEF client, stream, remote
  <1>1. /\ UNCHANGED <<wire, buffered, stranded, asked, served, accepted, dumping>>
        /\ server' \in {server, "accepted"}
    BY DEF Dial, GiveUp, Expired, Broken, Exit, Tick, Await, Fail
  <1>2. /\ place' \in Places /\ left' \in 0 .. Timeout
        /\ result' \in {"none", "ok", "denied", "failed"}
    BY ClientAssumption
       DEF ClientInv, ClientTypeOK, Places, Waiting, Expecting, Dial, GiveUp, Expired,
           Broken, Exit, Tick, Await, Fail, GivenUp
  <1>3. ClientTypeOK' /\ NothingStranded'
    BY <1>1, <1>2 DEF ClientInv, ClientTypeOK, NothingStranded
  <1>4. AnswersHold' /\ OneAnswer' /\ DumpInv'
    BY <1>1 DEF ClientInv, AnswersHold, OneAnswer, DumpInv
  <1>5. OneBehind'
    BY <1>1 DEF ClientInv, OneBehind, Dial, GiveUp, Expired, Broken, Exit, Tick, Await, Fail, GivenUp
  <1>6. PlaceInv'
    BY <1>1 DEF ClientInv, PlaceInv, Current, Dial, GiveUp, Expired, Broken, Exit, Tick, Await,
                Fail, GivenUp, Waiting, Expecting
  <1>7. QED
    BY <1>3, <1>4, <1>5, <1>6 DEF ClientInv

(* A command is sent on a connection on which nothing is owed. *)
LEMMA SendInv ==
  ASSUME ClientInv, place = "ready", NEW call \in Calls,
         \/ call # "STARTTLS" /\ Send(call, "awaiting")
         \/ call = "STARTTLS" /\ Quiescent /\ Send(call, "handshake")
         \/ Fail /\ UNCHANGED <<stream, stranded, remote>>
  PROVE  ClientInv'
  <1> USE DEF stream, remote
  <1>1. UNCHANGED <<wire, buffered, stranded, server, served, accepted, dumping>>
    BY DEF Send
  <1>2. /\ asked \in Seq(Calls) /\ Len(asked) \in Nat /\ served = Len(asked) /\ ~dumping
        /\ accepted \subseteq 1 .. served /\ Len(wire) \in Nat
        /\ \A i \in 1 .. Len(wire) : wire[i].to = 0
    BY DEF ClientInv, ClientTypeOK, OneBehind, PlaceInv
  <1>3. CASE Fail
    <2>1. UNCHANGED <<asked, left>> /\ place' = "failed" /\ result' = "failed"
      BY <1>3 DEF Fail, GivenUp
    <2>2. ClientTypeOK' /\ NothingStranded'
      BY <1>1, <2>1 DEF ClientInv, ClientTypeOK, NothingStranded, Places
    <2>3. AnswersHold' /\ OneAnswer' /\ DumpInv'
      BY <1>1, <2>1 DEF ClientInv, AnswersHold, OneAnswer, DumpInv
    <2>4. OneBehind' /\ PlaceInv'
      BY <1>1, <1>2, <2>1 DEF OneBehind, PlaceInv
    <2>5. QED
      BY <2>2, <2>3, <2>4 DEF ClientInv
  <1>4. CASE /\ asked' = Append(asked, call) /\ left' = Timeout /\ result' = "none"
             /\ \/ place' = "awaiting"
                \/ place' = "handshake" /\ buffered = 0 /\ call = "STARTTLS"
    <2>1. /\ asked' \in Seq(Calls) /\ Len(asked') = Len(asked) + 1 /\ asked' # <<>>
          /\ \A n \in 1 .. Len(asked) : asked'[n] = asked[n]
          /\ asked'[Len(asked')] = call
      BY <1>2, <1>4, AppendProperties
    <2>2. ClientTypeOK' /\ NothingStranded'
      <3>1. left' \in 0 .. Timeout /\ place' \in Places
            /\ result' \in {"none", "ok", "denied", "failed"}
        BY <1>4, ClientAssumption DEF Places, Waiting, Expecting
      <3>2. served' \in 0 .. Len(asked')
        BY <1>1, <1>2, <2>1
      <3>3. QED
        BY <1>1, <2>1, <3>1, <3>2 DEF ClientInv, ClientTypeOK, NothingStranded
    <2>3. AnswersHold' /\ OneAnswer' /\ DumpInv'
      <3>1. AnswersHold'
        BY <1>1, <1>2, <2>1 DEF ClientInv, AnswersHold
      <3>2. OneAnswer' /\ DumpInv'
        BY <1>1, <1>2 DEF ClientInv, OneAnswer, DumpInv
      <3>3. QED
        BY <3>1, <3>2
    <2>4. OneBehind' /\ PlaceInv'
      BY <1>1, <1>2, <1>4, <2>1 DEF OneBehind, PlaceInv, Current
    <2>5. QED
      BY <2>2, <2>3, <2>4 DEF ClientInv
  <1>5. QED
    BY <1>3, <1>4 DEF Send, Await, Quiescent

LEMMA StartTLSInv ==
  ASSUME ClientInv, StartTLS
  PROVE  ClientInv'
  <1>1. place = "ready" /\ "STARTTLS" \in Calls
    BY DEF StartTLS
  <1>2. \/ Quiescent /\ Send("STARTTLS", "handshake")
        \/ Fail /\ UNCHANGED <<stream, stranded, remote>>
    BY DEF StartTLS
  <1>3. QED
    BY <1>1, <1>2, SendInv

LEMMA AskInv ==
  ASSUME ClientInv, NEW call \in Calls, Ask(call)
  PROVE  ClientInv'
  BY SendInv DEF Ask

(* The server deals with the next command. *)
LEMMA ServesInv ==
  ASSUME ClientInv, Serves
  PROVE  ClientInv'
  <1> DEFINE n == served + 1  call == asked[n]
  <1>1. /\ served \in Nat /\ n = Len(asked) /\ n \in Nat /\ n > 0 /\ n \notin accepted
        /\ accepted \subseteq 1 .. served /\ call \in DOMAIN Success /\ ~dumping
        /\ place \in {"awaiting", "handshake", "failed", "closed"}
        /\ Len(wire) \in Nat /\ asked \in Seq(Calls)
    BY ClientAssumption DEF Serves, ClientInv, ClientTypeOK, OneBehind
  <1>2. /\ served' = n /\ UNCHANGED <<place, left, asked, result, buffered, stranded>>
        /\ accepted' \in {accepted, accepted \cup {n}}
        /\ server' \in {server, "shaking"}
    BY DEF Serves, Sends, client, stream
  <1>3. \A i \in 1 .. Len(wire) :
          /\ wire[i].to # n
          /\ \/ wire[i].to = 0 /\ wire[i].kind \in StrayKinds \cup {"TASSERVER"}
             \/ /\ wire[i].to \in accepted
                /\ wire[i].kind \in {Success[asked[wire[i].to]], "LOGININFOEND"}
             \/ /\ wire[i].to \in (1 .. served) \ accepted
                /\ wire[i].kind \in Failure(asked[wire[i].to])
    <2>1. \A i \in 1 .. Len(wire) : wire[i].to \in {0} \cup 1 .. served
      BY <1>1 DEF ClientInv, AnswersHold
    <2>2. QED
      BY <1>1, <2>1 DEF ClientInv, AnswersHold
  <1>4. CASE wire' = wire /\ dumping' = dumping
    <2>1. ClientTypeOK' /\ NothingStranded'
      BY <1>1, <1>2, <1>4 DEF ClientInv, ClientTypeOK, NothingStranded
    <2>2. AnswersHold'
      BY <1>1, <1>2, <1>3, <1>4 DEF AnswersHold
    <2>3. OneAnswer' /\ DumpInv' /\ OneBehind'
      BY <1>1, <1>2, <1>4 DEF ClientInv, OneAnswer, DumpInv, OneBehind
    <2>4. PlaceInv'
      BY <1>1, <1>2, <1>4 DEF ClientInv, PlaceInv, Current
    <2>5. QED
      BY <2>1, <2>2, <2>3, <2>4 DEF ClientInv
  <1>5. ASSUME NEW kind \in Kinds, Sends(Line(kind, n)),
               \/ /\ kind = Success[call] /\ accepted' = accepted \cup {n}
                  /\ dumping' = (call = "LOGIN")
               \/ /\ kind \in Failure(call) /\ accepted' = accepted /\ dumping' = dumping
        PROVE  ClientInv'
    <2>1. Line(kind, n) \in Lines /\ Line(kind, n).kind = kind /\ Line(kind, n).to = n
      BY <1>1 DEF Line, Lines
    <2>2. Lengthened(Line(kind, n))
      BY <1>5, <2>1, SendLengthens DEF ClientInv
    <2>3. /\ \A i \in 1 .. Len(wire') : i \in 1 .. Len(wire) \/ i = Len(wire) + 1
          /\ \A i \in 1 .. Len(wire) : wire'[i] = wire[i]
          /\ wire'[Len(wire) + 1].kind = kind /\ wire'[Len(wire) + 1].to = n
      BY <1>1, <2>1, <2>2 DEF Lengthened
    <2>4. ClientTypeOK' /\ NothingStranded'
      <3>1. dumping' \in BOOLEAN
        BY <1>5, <1>1 DEF ClientInv, ClientTypeOK
      <3>2. wire' \in Seq([kind : Kinds, to : Nat]) /\ Len(wire') = Len(wire) + 1
        BY <2>2 DEF Lengthened, Lines
      <3>3. accepted' \subseteq 1 .. served' /\ served' \in 0 .. Len(asked')
        BY <1>1, <1>2
      <3>4. QED
        BY <1>1, <1>2, <3>1, <3>2, <3>3 DEF ClientInv, ClientTypeOK, NothingStranded
    <2>5. AnswersHold'
      <3>1. \A i \in 1 .. Len(wire) : accepted' \in {accepted, accepted \cup {n}} /\ n \notin 1 .. served
        BY <1>1, <1>2
      <3>2. \A i \in 1 .. Len(wire) :
              \/ wire'[i].to = 0 /\ wire'[i].kind \in StrayKinds \cup {"TASSERVER"}
              \/ /\ wire'[i].to \in accepted'
                 /\ wire'[i].kind \in {Success[asked[wire'[i].to]], "LOGININFOEND"}
              \/ /\ wire'[i].to \in (1 .. n) \ accepted'
                 /\ wire'[i].kind \in Failure(asked[wire'[i].to])
        BY <1>1, <1>2, <1>3, <2>3
      <3>3. \/ n \in accepted' /\ kind \in {Success[asked[n]], "LOGININFOEND"}
            \/ n \in (1 .. n) \ accepted' /\ kind \in Failure(asked[n])
        BY <1>1, <1>5
      <3>4. QED
        BY <1>2, <2>3, <3>2, <3>3 DEF AnswersHold
    <2>6. OneAnswer'
      BY <1>1, <1>3, <2>3 DEF ClientInv, OneAnswer
    <2>7. DumpInv'
      <3>1. CASE kind = Success[call] /\ call = "LOGIN" /\ accepted' = accepted \cup {n}
        <4>1. kind = "ACCEPTED"
          BY <1>1, <3>1, SuccessKinds
        <4>2. QED
          BY <1>2, <1>3, <2>3, <3>1, <4>1 DEF DumpInv
      <3>2. CASE ~dumping'
        BY <3>2 DEF DumpInv
      <3>3. kind \in Failure(call) => ~dumping'
        BY <1>1, <1>5, FailureKinds
      <3>4. kind = Success[call] /\ call # "LOGIN" => ~dumping'
        BY <1>1, <1>5, FailureKinds
      <3>5. QED
        BY <1>5, <3>1, <3>2, <3>3, <3>4
    <2>8. OneBehind'
      BY <1>1, <1>2 DEF OneBehind
    <2>9. PlaceInv'
      BY <1>1, <1>2, <2>3 DEF ClientInv, PlaceInv, Current
    <2>10. QED
      BY <2>4, <2>5, <2>6, <2>7, <2>8, <2>9 DEF ClientInv
  <1>6. QED
    <2>1. Success[call] \in Kinds /\ \A kind \in Failure(call) : kind \in Kinds
      BY <1>1, SuccessKinds, FailureKinds
    <2>2. \/ wire' = wire /\ dumping' = dumping
          \/ Sends(Line(Success[call], n)) /\ accepted' = accepted \cup {n} /\ dumping' = (call = "LOGIN")
          \/ \E kind \in Failure(call) :
               Sends(Line(kind, n)) /\ accepted' = accepted /\ dumping' = dumping
      BY DEF Serves, stream
    <2>3. QED
      BY <1>4, <1>5, <2>1, <2>2

(* The server says something of its own, ends a dump or goes away. *)
LEMMA UnaskedInv ==
  ASSUME ClientInv, Greets \/ Strays
  PROVE  ClientInv'
  <1>1. PICK kind \in StrayKinds \cup {"TASSERVER"} : Sends(Line(kind, 0))
    BY DEF Greets, Strays
  <1>2. Line(kind, 0) \in Lines /\ Line(kind, 0).kind = kind /\ Line(kind, 0).to = 0
    BY DEF Line, Lines, Kinds
  <1>3. /\ UNCHANGED <<place, left, asked, result, buffered, stranded, served, accepted, dumping>>
        /\ server' \in {server, "open"}
    BY <1>1 DEF Greets, Strays, Sends, client, remote
  <1>4. Lengthened(Line(kind, 0)) /\ Len(wire) \in Nat
    BY <1>1, <1>2, SendLengthens DEF ClientInv, ClientTypeOK
  <1>5. AnswersHold' /\ OneAnswer' /\ DumpInv'
    BY <1>2, <1>3, <1>4, StrayLine
  <1>6. ClientTypeOK' /\ NothingStranded'
    BY <1>3, <1>4 DEF Lengthened, Lines, ClientInv, ClientTypeOK, NothingStranded
  <1>7. OneBehind'
    BY <1>3 DEF ClientInv, OneBehind
  <1>8. PlaceInv'
    <2>1. \A i \in 1 .. Len(wire') : (i \in 1 .. Len(wire) /\ wire'[i] = wire[i]) \/ wire'[i].to = 0
      BY <1>2, <1>4 DEF Lengthened
    <2>2. QED
      BY <1>3, <2>1 DEF ClientInv, PlaceInv, Current
  <1>9. QED
    BY <1>5, <1>6, <1>7, <1>8 DEF ClientInv

LEMMA EndsDumpInv ==
  ASSUME ClientInv, EndsDump
  PROVE  ClientInv'
  <1>1. /\ dumping /\ dumping' = FALSE /\ Sends(Line("LOGININFOEND", served))
        /\ UNCHANGED <<place, left, asked, result, buffered, stranded, server, served, accepted>>
    BY DEF EndsDump, Sends, client
  <1>2. /\ served \in accepted /\ asked[served] = "LOGIN" /\ accepted \subseteq 1 .. served
        /\ served \in Nat /\ served > 0 /\ Len(wire) \in Nat /\ served = Len(asked)
        /\ \A i \in 1 .. Len(wire) : wire[i].to = served => wire[i].kind = "ACCEPTED"
    BY <1>1 DEF ClientInv, ClientTypeOK, DumpInv, OneBehind
  <1> DEFINE line == Line("LOGININFOEND", served)
  <1>3. line \in Lines /\ line.kind = "LOGININFOEND" /\ line.to = served
    BY <1>2 DEF Line, Lines, Kinds
  <1>4. Lengthened(line)
    BY <1>1, <1>3, SendLengthens DEF ClientInv
  <1>5. /\ \A i \in 1 .. Len(wire') : i \in 1 .. Len(wire) \/ i = Len(wire) + 1
        /\ \A i \in 1 .. Len(wire) : wire'[i] = wire[i]
        /\ wire'[Len(wire) + 1].kind = "LOGININFOEND" /\ wire'[Len(wire) + 1].to = served
    BY <1>2, <1>3, <1>4 DEF Lengthened
  <1>6. ClientTypeOK' /\ NothingStranded'
    <2>1. dumping' \in BOOLEAN /\ stranded' \in BOOLEAN /\ ~stranded'
      BY <1>1 DEF ClientInv, ClientTypeOK, NothingStranded
    <2>2. wire' \in Seq([kind : Kinds, to : Nat]) /\ buffered' \in 0 .. Len(wire')
      BY <1>1, <1>2, <1>4 DEF Lengthened, Lines, ClientInv, ClientTypeOK
    <2>3. QED
      BY <1>1, <2>1, <2>2 DEF ClientInv, ClientTypeOK, NothingStranded
  <1>7. AnswersHold'
    BY <1>1, <1>2, <1>5 DEF ClientInv, AnswersHold
  <1>8. OneAnswer'
    BY <1>2, <1>5 DEF ClientInv, OneAnswer
  <1>9. DumpInv' /\ OneBehind'
    BY <1>1, <1>2 DEF ClientInv, DumpInv, OneBehind
  <1>10. PlaceInv'
    BY <1>1, <1>2, <1>5 DEF ClientInv, PlaceInv, Current
  <1>11. QED
    BY <1>6, <1>7, <1>8, <1>9, <1>10 DEF ClientInv

LEMMA DropsInv ==
  ASSUME ClientInv, Drops
  PROVE  ClientInv'
  <1>1. PICK kept \in buffered .. Len(wire) : wire' = SubSeq(wire, 1, kept)
    BY DEF Drops
  <1>2. /\ UNCHANGED <<place, left, asked, result, buffered, stranded, served, accepted, dumping>>
        /\ server' = "gone" /\ Len(wire) \in Nat /\ kept \in Nat /\ buffered <= kept
    BY <1>1 DEF Drops, client, ClientInv, ClientTypeOK
  <1>3. Shortened(0) /\ Len(wire') = kept
    BY <1>1, <1>2, SubSeqShortens, 0 + 1 = 1 DEF ClientInv
  <1>4. AnswersHold' /\ OneAnswer' /\ DumpInv'
    BY <1>2, <1>3, FewerLines
  <1>5. buffered' \in 0 .. Len(wire')
    BY <1>2, <1>3 DEF ClientInv, ClientTypeOK
  <1>6. ClientTypeOK' /\ NothingStranded'
    BY <1>2, <1>3, <1>5 DEF Shortened, Lines, ClientInv, ClientTypeOK, NothingStranded
  <1>7. OneBehind'
    BY <1>2 DEF ClientInv, OneBehind
  <1>8. PlaceInv'
    <2>1. \A i \in 1 .. Len(wire') : i \in 1 .. Len(wire) /\ wire'[i] = wire[i]
      BY <1>1, <1>2, <1>3 DEF Shortened
    <2>2. QED
      BY <1>2, <2>1 DEF ClientInv, PlaceInv, Current
  <1>9. QED
    BY <1>4, <1>6, <1>7, <1>8 DEF ClientInv

LEMMA InitInv ==
  ASSUME Init
  PROVE  ClientInv
  <1> USE ClientAssumption DEF Init
  <1>1. ClientTypeOK /\ NothingStranded
    <2>1. asked \in Seq(Calls) /\ Len(asked) = 0 /\ wire \in Seq([kind : Kinds, to : Nat])
          /\ Len(wire) = 0
      OBVIOUS
    <2>2. stranded \in BOOLEAN /\ ~stranded /\ dumping \in BOOLEAN
      OBVIOUS
    <2>3. QED
      BY <2>1, <2>2 DEF ClientTypeOK, NothingStranded, Places
  <1>2. AnswersHold /\ OneAnswer /\ DumpInv /\ OneBehind /\ PlaceInv
    BY DEF AnswersHold, OneAnswer, DumpInv, OneBehind, PlaceInv
  <1>3. QED
    BY <1>1, <1>2 DEF ClientInv

LEMMA StepInv ==
  ASSUME ClientInv, [Next]_vars
  PROVE  ClientInv'
  <1>1. CASE UNCHANGED vars
    BY <1>1
       DEF vars, client, stream, remote, ClientInv, ClientTypeOK, NothingStranded,
           AnswersHold, OneAnswer, DumpInv, OneBehind, PlaceInv, Current
  <1>2. CASE Read
    BY <1>2, ExpectInv, HandshakeInv DEF Read
  <1>3. CASE Dial \/ GiveUp \/ StartTLS \/ Exit \/ Tick
    BY <1>3, OwnerInv, StartTLSInv
  <1>4. CASE \E call \in Calls : Ask(call)
    BY <1>4, AskInv
  <1>5. CASE Server
    BY <1>5, ServesInv, UnaskedInv, EndsDumpInv, DropsInv DEF Server
  <1>6. QED
    BY <1>1, <1>2, <1>3, <1>4, <1>5 DEF Next

THEOREM ClientInvariant == Spec => []ClientInv
  BY InitInv, StepInv, PTL DEF Spec

(* A connection that is used again owes no answer to an earlier command. *)
THEOREM OwesNothing == Spec => []NothingOwed
  <1>1. ClientInv => NothingOwed
    BY DEF ClientInv, ClientTypeOK, OneBehind, PlaceInv, NothingOwed
  <1>2. QED
    BY <1>1, ClientInvariant, PTL

(* StartTLS never throws a line away. *)
THEOREM StrandsNothing == Spec => []NothingStranded
  <1>1. ClientInv => NothingStranded
    BY DEF ClientInv
  <1>2. QED
    BY <1>1, ClientInvariant, PTL

(* The refinement. A step of the client or the server is one of the round trip,
   or changes nothing that its caller or the server's doings show. *)
LEMMA ReadRefines ==
  ASSUME ClientInv, Read
  PROVE  [Contract!Next]_(Contract!vars)
  <1> USE DEF client, remote
  <1>1. asked' = asked /\ accepted' = accepted
    BY DEF Read, Skip, Greeted, Answer, DumpEnds, Handshake, Succeed, Fail, Await
  <1>2. CASE Skip \/ (Greeted /\ place = "greeting")
    BY <1>2 DEF Skip, Greeted, Succeed, Phase, Contract!vars
  <1>3. CASE Greeted /\ place = "regreeting"
    BY <1>1, <1>3 DEF Greeted, Succeed, ClientInv, PlaceInv, Phase,
                      Contract!Next, Contract!ReturnOk
  <1>4. CASE Answer
    <2>1. /\ place = "awaiting" /\ asked # <<>> /\ Head(wire) = wire[1] /\ 1 \in 1 .. Len(wire)
          /\ \A i \in 1 .. Len(wire) : wire[i].to \in {0, Len(asked)}
      BY <1>4, ReadShortens DEF Answer, ClientInv, PlaceInv
    <2>2. /\ wire[1].kind = Success[Current] => Len(asked) \in accepted
          /\ Current \in DOMAIN Denial /\ wire[1].kind = Denial[Current]
               => Len(asked) \notin accepted
      BY <2>1, AnswerIsTheirs
    <2>3. CASE Head(wire).kind = Success[Current] /\ Succeed
      BY <1>1, <2>1, <2>2, <2>3 DEF Succeed, Phase, Contract!Next, Contract!ReturnOk
    <2>4. CASE Await("dump") /\ UNCHANGED result
      BY <1>1, <2>1, <2>4 DEF Await, Phase, Contract!vars
    <2>5. CASE /\ Current \in DOMAIN Denial /\ Head(wire).kind = Denial[Current]
               /\ place' = "ready" /\ result' = "denied"
      BY <1>1, <2>1, <2>2, <2>5 DEF Phase, Contract!Next, Contract!ReturnDenied
    <2>6. CASE Fail
      BY <1>1, <2>1, <2>6 DEF Fail, GivenUp, Phase, Contract!Next, Contract!Fail
    <2>7. QED
      BY <1>4, <2>3, <2>4, <2>5, <2>6 DEF Answer
  <1>5. CASE DumpEnds
    BY <1>1, <1>5 DEF DumpEnds, Succeed, ClientInv, PlaceInv, Phase,
                      Contract!Next, Contract!ReturnOk
  <1>6. CASE Handshake
    BY <1>1, <1>6 DEF Handshake, Await, Fail, GivenUp, Phase,
                      Contract!Next, Contract!Fail, Contract!vars
  <1>7. Greeted => place = "greeting" \/ place = "regreeting"
    BY DEF Greeted
  <1>8. QED
    BY <1>2, <1>3, <1>4, <1>5, <1>6, <1>7 DEF Read

LEMMA OwnerRefines ==
  ASSUME ClientInv, Dial \/ GiveUp \/ StartTLS \/ Exit \/ Tick \/ \E call \in Calls : Ask(call)
  PROVE  [Contract!Next]_(Contract!vars)
  <1> USE DEF client, stream, remote
  <1>1. CASE Dial
    BY <1>1 DEF Dial, Await, Phase, Contract!Next, Contract!Fail, Contract!vars
  <1>2. CASE GiveUp
    BY <1>2 DEF GiveUp, Expired, Broken, Waiting, Expecting, Fail, GivenUp, Phase,
                Contract!Next, Contract!Fail
  <1>3. CASE Exit
    BY <1>3 DEF Exit, Phase, Contract!Next, Contract!Leave, Contract!vars
  <1>4. CASE Tick
    BY <1>4 DEF Tick, Phase, Contract!vars
  <1>5. ASSUME NEW call \in Calls, NEW where \in {"awaiting", "handshake"},
               place = "ready", Send(call, where) \/ (Fail /\ UNCHANGED <<stream, stranded, remote>>)
        PROVE  [Contract!Next]_(Contract!vars)
    <2>1. CASE asked' = Append(asked, call) /\ place' = where /\ result' = "none"
               /\ accepted' = accepted
      <3>1. Len(asked') = Len(asked) + 1
        BY <2>1 DEF ClientInv, ClientTypeOK
      <3>2. QED
        BY <1>5, <2>1, <3>1 DEF Phase, Contract!Next, Contract!Call
    <2>2. CASE Fail /\ accepted' = accepted
      BY <1>5, <2>2 DEF Fail, GivenUp, Phase, Contract!Next, Contract!Fail
    <2>3. QED
      BY <1>5, <2>1, <2>2 DEF Send, Await
  <1>6. CASE StartTLS
    <2>1. /\ "STARTTLS" \in Calls /\ place = "ready"
          /\ Send("STARTTLS", "handshake") \/ (Fail /\ UNCHANGED <<stream, stranded, remote>>)
      BY <1>6 DEF StartTLS
    <2>2. QED
      BY <1>5, <2>1
  <1>7. ASSUME NEW call \in Calls, Ask(call)
        PROVE  [Contract!Next]_(Contract!vars)
    <2>1. place = "ready" /\ Send(call, "awaiting")
      BY <1>7 DEF Ask
    <2>2. QED
      BY <1>5, <2>1
  <1>8. QED
    BY <1>1, <1>2, <1>3, <1>4, <1>6, <1>7

LEMMA ServerRefines ==
  ASSUME ClientInv, Server
  PROVE  [Contract!Next]_(Contract!vars)
  <1>1. UNCHANGED client
    BY DEF Server, Greets, Serves, EndsDump, Strays, Drops, Sends
  <1>2. CASE Serves /\ accepted' # accepted
    <2>1. /\ served \in Nat /\ Len(asked) = served + 1 /\ served + 1 \notin accepted
          /\ place \in {"awaiting", "handshake", "failed", "closed"}
          /\ result \in {"none", "failed"}
      BY <1>2 DEF Serves, ClientInv, ClientTypeOK, OneBehind
    <2>2. accepted' = accepted \cup {Len(asked)}
      BY <1>2, <2>1 DEF Serves
    <2>3. QED
      BY <1>1, <2>1, <2>2 DEF client, Phase, Contract!Next, Contract!Do
  <1>3. CASE accepted' = accepted
    BY <1>1, <1>3 DEF client, Phase, Contract!vars
  <1>4. QED
    BY <1>2, <1>3 DEF Server, Greets, EndsDump, Strays, Drops, remote

(* The client fulfils the contract of a round trip, which the modules of the
   scenarios take for granted. *)
THEOREM KeepsRoundTrip == Spec => FulfilsRoundTrip
  <1>1. Init => Contract!Init
    BY DEF Init, Phase, Contract!Init
  <1>2. ClientInv /\ [Next]_vars => [Contract!Next]_(Contract!vars)
    <2>1. ClientInv /\ UNCHANGED vars => UNCHANGED Contract!vars
      BY DEF vars, client, remote, Phase, Contract!vars
    <2>2. QED
      BY <2>1, ReadRefines, OwnerRefines, ServerRefines DEF Next
  <1>3. QED
    BY <1>1, <1>2, ClientInvariant, PTL DEF Spec, FulfilsRoundTrip, Contract!Spec
=============================================================================
