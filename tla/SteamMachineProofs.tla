------------------------- MODULE SteamMachineProofs -------------------------
(***************************************************************************)
(* Proofs about SteamMachine, for any adapter, wire, timings and commands. *)
(***************************************************************************)
EXTENDS SteamMachine, KernelRulesProofs

\* What the frames of a transaction may say.
RequestFields == [op : SteamOps, state : OpStates, minutes : MINUTES \cup {0}]

-----------------------------------------------------------------------------
(* The types of the adapter's side.                                         *)

\* Reading one frame, or closing the port on some of them, leaves frames.
LEMMA WhatIsLeftOfTheWire ==
  ASSUME NEW q \in Seq(SteamFrames)
  PROVE  /\ q # <<>> => Tail(q) \in Seq(SteamFrames) /\ Head(q) \in SteamFrames
         /\ \A read \in 0..Len(q) : SubSeq(q, 1, read) \in Seq(SteamFrames)
OBVIOUS

\* An adapter left alone stays what it is.
LEMMA HushIsTyped ==
  ASSUME AdapterTypeOK, NEW q \in Seq(SteamFrames), Hush(q)
  PROVE  AdapterTypeOK'
BY DEF AdapterTypeOK, Hush, generator

\* The frames there are, one kind at a time.
LEMMA FramesByKind ==
  /\ Garbled \in SteamFrames
  /\ \A c \in {"DEV_ACK", "DEV_NAK", "ERROR"} : Bare(c) \in SteamFrames
  /\ \A d \in {"steam", "other"} : SteamFrame("DEV_REQUEST_ADDR", d, "none", FALSE) \in SteamFrames
  /\ \A c \in StatusCarriers, s \in StateBytes, e \in BOOLEAN :
       LET f == SteamFrame(c, "none", s, e) IN f \in SteamFrames /\ Stray(f) \in SteamFrames
<1>1. Garbled \in SteamFrames /\ \A c \in {"DEV_ACK", "DEV_NAK", "ERROR"} : Bare(c) \in SteamFrames
  BY DEF SteamFrames
<1> DEFINE Asking == {SteamFrame("DEV_REQUEST_ADDR", d, "none", FALSE) : d \in {"steam", "other"}}
           Astray == {Stray(f) : f \in Statuses}
<1>2. Asking \subseteq SteamFrames /\ Statuses \subseteq SteamFrames /\ Astray \subseteq SteamFrames
  <2>1. SteamFrames = {Garbled, Bare("DEV_ACK"), Bare("DEV_NAK"), Bare("ERROR")}
                        \cup Asking \cup Statuses \cup Astray
    BY DEF SteamFrames
  <2> HIDE DEF Asking, Astray
  <2> QED BY <2>1
<1>3. ASSUME NEW d \in {"steam", "other"}
      PROVE  SteamFrame("DEV_REQUEST_ADDR", d, "none", FALSE) \in Asking
  OBVIOUS
<1>4. ASSUME NEW c \in StatusCarriers, NEW s \in StateBytes, NEW e \in BOOLEAN
      PROVE  SteamFrame(c, "none", s, e) \in Statuses
  BY DEF Statuses
<1>5. ASSUME NEW f \in Statuses PROVE Stray(f) \in Astray
  OBVIOUS
<1> HIDE DEF Asking, Astray
<1> QED BY <1>1, <1>2, <1>3, <1>4, <1>5

\* What an adapter answers with are frames of the protocol.
LEMMA AnswersAreFrames ==
  ASSUME AdapterTypeOK, NEW r \in RequestFields
  PROVE  Answer(r) \in Seq(SteamFrames)
<1>1. device # "none" => SteamFrame("DEV_REQUEST_ADDR", device, "none", FALSE) \in SteamFrames
  BY FramesByKind, SteamAdapterAssumption DEF AdapterTypeOK
<1>2. SteamFrame(CARRIER, "none", gen, broken) \in SteamFrames
  BY FramesByKind, SteamAdapterAssumption DEF AdapterTypeOK
<1>3. Bare("DEV_ACK") \in SteamFrames
  BY FramesByKind
<1>4. \/ Answer(r) = <<>>
      \/ device # "none" /\ Answer(r) = <<SteamFrame("DEV_REQUEST_ADDR", device, "none", FALSE)>>
      \/ Answer(r) = <<Bare("DEV_ACK")>>
      \/ Answer(r) = <<SteamFrame(CARRIER, "none", gen, broken)>>
  BY DEF Answer
<1>5. << >> \in Seq(SteamFrames) /\ \A f \in SteamFrames : <<f>> \in Seq(SteamFrames)
  OBVIOUS
<1> QED BY <1>1, <1>2, <1>3, <1>4, <1>5, Zenon

\* So is everything that can come of a request.
LEMMA OutcomesAreFrames ==
  ASSUME AdapterTypeOK, NEW r \in RequestFields, NEW o \in Outcomes(r)
  PROVE  o.acts \in BOOLEAN /\ o.heard \in Seq(SteamFrames)
<1>1. Answer(r) \in Seq(SteamFrames)
  BY AnswersAreFrames
<1>2. /\ <<Garbled>> \in Seq(SteamFrames) /\ << >> \in Seq(SteamFrames)
      /\ <<Bare("DEV_NAK")>> \in Seq(SteamFrames) /\ <<Bare("ERROR")>> \in Seq(SteamFrames)
  BY FramesByKind
<1>s. ASSUME r.op = "ReadStatus", Answer(r) # <<>>
      PROVE  <<Stray(Head(Answer(r)))>> \in Seq(SteamFrames)
  <2>1. Answer(r) = <<SteamFrame(CARRIER, "none", gen, broken)>>
    BY <1>s DEF Answer, Opcode, IsWrite, IsDiscovery
  <2>2. Stray(SteamFrame(CARRIER, "none", gen, broken)) \in SteamFrames
    BY FramesByKind, SteamAdapterAssumption DEF AdapterTypeOK
  <2>3. Head(Answer(r)) = SteamFrame(CARRIER, "none", gen, broken)
    BY <2>1
  <2> QED BY <2>2, <2>3
<1> DEFINE Refusals == {<<Bare(c)>> : c \in (IF "nak" \in trouble THEN {"DEV_NAK"} ELSE {})
                                       \cup (IF "error" \in trouble THEN {"ERROR"} ELSE {})}
<1>3. \A h \in Refusals : h = <<Bare("DEV_NAK")>> \/ h = <<Bare("ERROR")>>
  OBVIOUS
<1>4. \/ o = [acts |-> TRUE, heard |-> Answer(r)]
      \/ o \in [acts : BOOLEAN, heard : {<<>>}]
      \/ o \in [acts : {TRUE}, heard : {<<Garbled>>}]
      \/ /\ r.op = "ReadStatus" /\ Answer(r) # <<>>
         /\ o \in [acts : {TRUE}, heard : {<<Stray(Head(Answer(r)))>>}]
      \/ o \in [acts : {FALSE}, heard : Refusals]
  BY DEF Outcomes
<1> HIDE DEF Refusals
<1>5. \/ o.acts = TRUE /\ o.heard = Answer(r)
      \/ o.acts \in BOOLEAN /\ o.heard = <<>>
      \/ o.acts = TRUE /\ o.heard = <<Garbled>>
      \/ /\ r.op = "ReadStatus" /\ Answer(r) # <<>>
         /\ o.acts = TRUE /\ o.heard = <<Stray(Head(Answer(r)))>>
      \/ o.acts = FALSE /\ o.heard \in Refusals
  <2>1. CASE o = [acts |-> TRUE, heard |-> Answer(r)]
    BY <2>1
  <2>2. CASE o \in [acts : BOOLEAN, heard : {<<>>}]
    BY <2>2
  <2>3. CASE o \in [acts : {TRUE}, heard : {<<Garbled>>}]
    BY <2>3
  <2>4. CASE o \in [acts : {FALSE}, heard : Refusals]
    BY <2>4
  <2>5. CASE /\ r.op = "ReadStatus" /\ Answer(r) # <<>>
             /\ o \in [acts : {TRUE}, heard : {<<Stray(Head(Answer(r)))>>}]
    BY <2>5
  <2> QED BY <1>4, <2>1, <2>2, <2>3, <2>4, <2>5
<1>6. o.heard \in Seq(SteamFrames)
  BY <1>1, <1>2, <1>3, <1>5, <1>s
<1> QED BY <1>5, <1>6

\* A request leaves an adapter of the same types behind.
LEMMA DeliverIsTyped ==
  ASSUME AdapterTypeOK, NEW r \in RequestFields, NEW q \in Seq(SteamFrames), Deliver(r, q)
  PROVE  AdapterTypeOK'
<1>1. PICK o \in Outcomes(r) :
        /\ Act(o.acts, r)
        /\ wire' = IF Len(q \o o.heard) <= WIRE_CAP THEN q \o o.heard ELSE q
  BY DEF Deliver
<1>2. o.acts \in BOOLEAN /\ o.heard \in Seq(SteamFrames)
  BY OutcomesAreFrames
<1>3. wire' \in Seq(SteamFrames)
  BY <1>1, <1>2
<1>4. addressed' \in BOOLEAN /\ gen' \in StateBytes
  BY <1>1, <1>2 DEF Act, AdapterTypeOK, RequestFields, OpStates, StateBytes
<1>5. \E m \in MINUTES \cup {0} : timer' \in 0..m
  <2>1. CASE timer' = timer
    BY <2>1 DEF AdapterTypeOK
  <2>2. CASE timer' = 0
    BY <2>2, SMTT(30)
  <2>3. CASE timer' = r.minutes
    BY <2>3, SteamAdapterAssumption DEF RequestFields
  <2> QED BY <1>1, <2>1, <2>2, <2>3 DEF Act
<1> QED BY <1>3, <1>4, <1>5 DEF AdapterTypeOK, Deliver

LEMMA TransmitIsTyped ==
  ASSUME AdapterTypeOK, NEW r \in RequestFields, NEW q \in Seq(SteamFrames), Transmit(r, q)
  PROVE  AdapterTypeOK'
BY DeliverIsTyped, HushIsTyped DEF Transmit

\* Time does nothing to the types either, nor does a fault of the generator.
LEMMA AdapterAgesTyped ==
  ASSUME AdapterTypeOK, AdapterAges \/ Break
  PROVE  AdapterTypeOK'
<1>1. CASE AdapterAges
  <2>1. PICK m \in MINUTES \cup {0} : timer \in 0..m
    BY DEF AdapterTypeOK
  <2>2. timer' \in 0..m
    BY <1>1, <2>1, SteamAdapterAssumption DEF AdapterAges
  <2> QED BY <1>1, <2>2 DEF AdapterAges, AdapterTypeOK, StateBytes
<1>2. CASE Break
  BY <1>2 DEF Break, AdapterTypeOK, generator
<1> QED BY <1>1, <1>2

-----------------------------------------------------------------------------
(* The type invariant, action by action.                                    *)

\* Everything but the outstanding transaction and the adapter.
LinkTypeOK ==
  /\ phase \in Phases
  /\ latch \in [reason : Faults \cup {"none"}, ack : BOOLEAN]
  /\ attempts \in 0..STOP_ATTEMPTS
  /\ enrolled \in BOOLEAN /\ state \in OpStates /\ minutes \in MINUTES
  /\ stale \in 0..STALE_MAX
  /\ session \in [ran : 0..SESSION_CAP, limit : 0..SESSION_CAP]
  /\ stopping \in BOOLEAN
  /\ kernel \in LinkStates
  /\ tickIn \in 0..TICK /\ pacing \in 0..REPLY
  /\ portOpen \in BOOLEAN /\ pumpUp \in BOOLEAN /\ served \in BOOLEAN

WireTypeOK == inflight \in Transactions \cup {NoTransaction} /\ AdapterTypeOK

LEMMA TypesAreTwo ==
  /\ TypeOK <=> LinkTypeOK /\ WireTypeOK
  /\ TypeOK' <=> LinkTypeOK' /\ WireTypeOK'
BY DEF TypeOK, LinkTypeOK, WireTypeOK

\* The frames that are sent.
LEMMA RequestsAreTyped ==
  /\ \A op \in SteamOps : Plain(op) \in RequestFields
  /\ minutes \in MINUTES => StopFrame \in RequestFields
  /\ \A op \in SteamOps, s \in OpStates, m \in MINUTES : Request(op, s, m) \in RequestFields
BY DEF Plain, StopFrame, Request, RequestFields, SteamOps, OpStates

\* A transaction begins within its bounds.
LEMMA SendIsTyped ==
  ASSUME WireTypeOK, NEW job \in Jobs, NEW r \in RequestFields, NEW q \in Seq(SteamFrames),
         Send(job, r, q)
  PROVE  WireTypeOK'
<1>1. InFlight(job, r) \in Transactions
  BY SteamMachineAssumption DEF InFlight, Transactions, RequestFields, CEILING, ATTEMPTS
<1> QED BY <1>1, TransmitIsTyped DEF Send, WireTypeOK

\* Nothing is outstanding and nothing was sent.
LEMMA SilenceIsTyped ==
  ASSUME WireTypeOK, NEW q \in Seq(SteamFrames), Hush(q),
         inflight' = NoTransaction \/ UNCHANGED inflight
  PROVE  WireTypeOK'
BY HushIsTyped DEF WireTypeOK

\* The stop of a session, the way down of a degraded link, a latch with its
\* port closed and one without.
LEMMA StopSessionIsTyped ==
  ASSUME TypeOK, NEW q \in Seq(SteamFrames), StopSession(q)
  PROVE  /\ WireTypeOK'
         /\ stale' \in 0..STALE_MAX /\ state' \in OpStates /\ stopping' \in BOOLEAN
         /\ minutes' \in MINUTES
<1>1. StopFrame \in RequestFields /\ "Write" \in Jobs
  BY RequestsAreTyped DEF TypeOK, Jobs
<1>2. WireTypeOK'
  BY <1>1, SendIsTyped, TypesAreTwo DEF StopSession
<1>3. stale' \in 0..STALE_MAX
  BY SteamMachineAssumption DEF StopSession, Abandon, Plus1, TypeOK
<1> QED BY <1>2, <1>3 DEF StopSession, TypeOK, OpStates

LEMMA LatchIsTyped ==
  ASSUME TypeOK, NEW reason \in Faults, LatchNow(reason)
  PROVE  /\ inflight' = NoTransaction
         /\ phase' \in Phases /\ latch' \in [reason : Faults \cup {"none"}, ack : BOOLEAN]
         /\ attempts' \in 0..STOP_ATTEMPTS /\ state' \in OpStates /\ minutes' \in MINUTES
         /\ stale' \in 0..STALE_MAX /\ stopping' \in BOOLEAN
         /\ session' \in [ran : 0..SESSION_CAP, limit : 0..SESSION_CAP]
<1> USE DEF LatchNow, TypeOK
<1>1. inflight' = NoTransaction /\ phase' \in Phases /\ state' \in OpStates /\ minutes' \in MINUTES
  BY DEF Phases, OpStates
<1>2. latch' \in [reason : Faults \cup {"none"}, ack : BOOLEAN]
  OBVIOUS
<1>3. attempts' \in 0..STOP_ATTEMPTS /\ stale' \in 0..STALE_MAX
  BY SteamMachineAssumption DEF STOP_ATTEMPTS
<1>4. session' \in [ran : 0..SESSION_CAP, limit : 0..SESSION_CAP]
  BY SteamMachineAssumption DEF NoSession
<1>5. stopping' \in BOOLEAN
  OBVIOUS
<1> QED BY <1>1, <1>2, <1>3, <1>4, <1>5

LEMMA DegradeIsTyped ==
  ASSUME TypeOK, NEW q \in Seq(SteamFrames), Degrade(q), UNCHANGED loopVars \/ FrameTaken \/ TimeoutTaken
  PROVE  TypeOK'
<1>1. kernel' \in LinkStates
  BY RulingsAreTyped DEF Degrade, TypeOK, Faults, LinkFaults
<1>2. StopFrame \in RequestFields /\ "StopBeforeLatch" \in Jobs
  BY RequestsAreTyped DEF TypeOK, Jobs
<1>3. WireTypeOK'
  BY <1>2, SendIsTyped, SilenceIsTyped, TypesAreTwo DEF Degrade
<1>4. tickIn' \in 0..TICK /\ pacing' \in 0..REPLY /\ pumpUp' \in BOOLEAN /\ served' \in BOOLEAN
  BY DEF TypeOK, FrameTaken, TimeoutTaken, loopVars
<1>5. phase' \in Phases /\ state' \in OpStates
  BY DEF Degrade, TypeOK, Phases, OpStates
<1>6. attempts' \in 0..STOP_ATTEMPTS /\ stale' \in 0..STALE_MAX
  BY SteamMachineAssumption DEF Degrade, TypeOK, STOP_ATTEMPTS
<1>7. stopping' \in BOOLEAN
  BY DEF Degrade, TypeOK
<1>8. UNCHANGED <<enrolled, latch, session, minutes, portOpen>>
  BY DEF Degrade
<1>9. LinkTypeOK'
  BY <1>1, <1>4, <1>5, <1>6, <1>7, <1>8 DEF LinkTypeOK, TypeOK
<1> QED BY <1>3, <1>9, TypesAreTwo

LEMMA LosePortIsTyped ==
  ASSUME TypeOK, NEW q \in Seq(SteamFrames), LosePort(q)
  PROVE  /\ WireTypeOK' /\ kernel' \in LinkStates /\ portOpen' \in BOOLEAN
         /\ LatchNow("PortLost") /\ UNCHANGED enrolled
<1>1. kernel' \in LinkStates
  BY RulingsAreTyped DEF LosePort, TypeOK, Faults, LinkFaults
<1>2. WireTypeOK'
  BY WhatIsLeftOfTheWire, SilenceIsTyped, TypesAreTwo DEF LosePort, LatchNow
<1> QED BY <1>1, <1>2 DEF LosePort

LEMMA CloseAndLatchIsTyped ==
  ASSUME TypeOK, NEW q \in Seq(SteamFrames), CloseAndLatch(q)
  PROVE  /\ WireTypeOK' /\ kernel' \in LinkStates /\ portOpen' \in BOOLEAN
         /\ LatchNow("SteamLinkDegraded") /\ UNCHANGED enrolled
BY WhatIsLeftOfTheWire, SilenceIsTyped, TypesAreTwo DEF CloseAndLatch, LatchNow, TypeOK

\* What a step may do to the loop's own variables.
LEMMA LoopIsTyped ==
  ASSUME TypeOK, TickTaken \/ TimeoutTaken \/ FrameTaken
  PROVE  tickIn' \in 0..TICK /\ pacing' \in 0..REPLY /\ pumpUp' \in BOOLEAN /\ served' \in BOOLEAN
<1>1. tickIn' \in 0..TICK /\ pacing' \in 0..REPLY
  BY SteamMachineAssumption DEF TypeOK, TickTaken, TimeoutTaken, FrameTaken
<1>2. pumpUp' \in BOOLEAN
  BY DEF TypeOK, TickTaken, TimeoutTaken, FrameTaken
<1>3. served' \in BOOLEAN
  BY DEF TypeOK, TickTaken, TimeoutTaken, FrameTaken
<1> QED BY <1>1, <1>2, <1>3

\* A latch is a latch whatever led to it.
LEMMA LatchedIsTyped ==
  ASSUME TypeOK, NEW reason \in Faults, LatchNow(reason), UNCHANGED enrolled,
         WireTypeOK', kernel' \in LinkStates, portOpen' \in BOOLEAN,
         tickIn' \in 0..TICK /\ pacing' \in 0..REPLY /\ pumpUp' \in BOOLEAN /\ served' \in BOOLEAN
  PROVE  TypeOK'
<1>1. LinkTypeOK'
  BY LatchIsTyped DEF LinkTypeOK, TypeOK
<1> QED BY <1>1, TypesAreTwo

\* The machine's own variables are left alone.
Untouched ==
  UNCHANGED <<phase, latch, attempts, enrolled, params, stale, session, stopping, kernel, portOpen>>

LEMMA UntouchedIsTyped ==
  ASSUME TypeOK, Untouched, WireTypeOK',
         tickIn' \in 0..TICK /\ pacing' \in 0..REPLY /\ pumpUp' \in BOOLEAN /\ served' \in BOOLEAN
  PROVE  TypeOK'
<1>1. LinkTypeOK'
  BY DEF LinkTypeOK, TypeOK, Untouched, params
<1> QED BY <1>1, TypesAreTwo

\* A transaction seen again, later.
LEMMA TransactionsAge ==
  ASSUME NEW t \in Transactions
  PROVE  /\ [t EXCEPT !.retry = TRUE] \in Transactions
         /\ [t EXCEPT !.retry = FALSE, !.sent = 0, !.attempts = Plus1(t.attempts, ATTEMPTS)]
              \in Transactions
         /\ [t EXCEPT !.sent = Plus1(t.sent, Wait(t.job)), !.total = Plus1(t.total, CEILING)]
              \in Transactions
<1> USE SteamMachineAssumption DEF Transactions, Plus1, Wait, CEILING, ATTEMPTS
<1>1. [t EXCEPT !.retry = TRUE] \in Transactions
  OBVIOUS
<1>2. Plus1(t.attempts, ATTEMPTS) \in 1..ATTEMPTS
  OBVIOUS
<1>3. Plus1(t.sent, Wait(t.job)) \in 0..(IF REPLY > ENQUIRY THEN REPLY ELSE ENQUIRY)
  OBVIOUS
<1>4. Plus1(t.total, CEILING) \in 0..CEILING
  OBVIOUS
<1> HIDE DEF Plus1, Wait, CEILING, ATTEMPTS
<1>5. ASSUME NEW a \in 1..ATTEMPTS
      PROVE  [t EXCEPT !.retry = FALSE, !.sent = 0, !.attempts = a] \in Transactions
  <2> DEFINE first == [t EXCEPT !.retry = FALSE]
             then == [first EXCEPT !.sent = 0]
  <2>1. first \in Transactions
    OBVIOUS
  <2>2. [t EXCEPT !.retry = FALSE, !.sent = 0, !.attempts = a] = [then EXCEPT !.attempts = a]
    OBVIOUS
  <2> HIDE DEF first
  <2>3. then \in Transactions
    BY <2>1
  <2> HIDE DEF then
  <2> QED BY <2>2, <2>3
<1>6. ASSUME NEW s \in 0..(IF REPLY > ENQUIRY THEN REPLY ELSE ENQUIRY), NEW u \in 0..CEILING
      PROVE  [t EXCEPT !.sent = s, !.total = u] \in Transactions
  OBVIOUS
<1> QED BY <1>1, <1>2, <1>3, <1>4, <1>5, <1>6

LEMMA OutstandingIsATransaction ==
  ASSUME WireTypeOK, Outstanding
  PROVE  inflight \in Transactions
BY DEF WireTypeOK, Outstanding, NoTransaction

LEMMA TicksAreTyped == TypeOK /\ Tick => TypeOK'
<1> SUFFICES ASSUME TypeOK, Tick PROVE TypeOK'
  OBVIOUS
<1>1. TickTaken
  BY DEF Tick, ExpireSession, Retry, Occupied, Broadcast, Poll, ResendStop, FreshTick
<1>2. /\ tickIn' \in 0..TICK /\ pacing' \in 0..REPLY /\ pumpUp' \in BOOLEAN /\ served' \in BOOLEAN
      /\ wire \in Seq(SteamFrames) /\ WireTypeOK
  BY <1>1, LoopIsTyped, TypesAreTwo DEF TypeOK, AdapterTypeOK
<1>3. CASE ExpireSession
  <2>1. LinkTypeOK' /\ WireTypeOK'
    BY <1>2, <1>3, StopSessionIsTyped DEF ExpireSession, Steady, LinkTypeOK, TypeOK
  <2> QED BY <2>1, TypesAreTwo
<1>4. CASE Retry
  <2>1. inflight \in Transactions
    BY <1>2, <1>4, OutstandingIsATransaction DEF Retry
  <2>2. Request(inflight.op, inflight.state, inflight.minutes) \in RequestFields
    BY <2>1, SMTT(30) DEF Transactions, Request, RequestFields
  <2>3. inflight' \in Transactions
    BY <1>4, <2>1, TransactionsAge DEF Retry
  <2>4. AdapterTypeOK'
    BY <1>2, <1>4, <2>2, TransmitIsTyped DEF Retry, WireTypeOK
  <2>5. Untouched
    BY <1>4 DEF Retry, Steady, Untouched
  <2> QED BY <1>2, <2>3, <2>4, <2>5, UntouchedIsTyped DEF WireTypeOK
<1>5. CASE Occupied
  <2>1. Untouched /\ Hush(wire) /\ UNCHANGED inflight
    BY <1>5 DEF Occupied, Steady, Untouched
  <2> QED BY <1>2, <2>1, UntouchedIsTyped, SilenceIsTyped
<1>6. CASE Broadcast
  <2>1. Plain("AddressOpportunity") \in RequestFields /\ "AddressOpportunity" \in Jobs
    BY RequestsAreTyped DEF SteamOps, Jobs
  <2>2. WireTypeOK'
    BY <1>2, <1>6, <2>1, SendIsTyped DEF Broadcast, FreshTick
  <2>3. LinkTypeOK'
    BY <1>2, <1>6 DEF Broadcast, FreshTick, LinkTypeOK, TypeOK, Phases, params
  <2> QED BY <2>2, <2>3, TypesAreTwo
<1>7. CASE Poll
  <2>1. Plain("ReadStatus") \in RequestFields /\ "Poll" \in Jobs
    BY RequestsAreTyped DEF SteamOps, Jobs
  <2>2. WireTypeOK'
    BY <1>2, <1>7, <2>1, SendIsTyped DEF Poll, FreshTick
  <2>3. Untouched
    BY <1>7 DEF Poll, FreshTick, Untouched
  <2> QED BY <1>2, <2>2, <2>3, UntouchedIsTyped
<1>8. CASE ResendStop
  <2>1. StopFrame \in RequestFields /\ "StopBeforeLatch" \in Jobs
    BY RequestsAreTyped DEF TypeOK, Jobs
  <2>2. WireTypeOK'
    BY <1>2, <1>8, <2>1, SendIsTyped DEF ResendStop, FreshTick
  <2>3. attempts' \in 0..STOP_ATTEMPTS
    BY <1>8, SteamMachineAssumption DEF ResendStop, Plus1, STOP_ATTEMPTS, TypeOK
  <2>4. LinkTypeOK'
    BY <1>2, <1>8, <2>3 DEF ResendStop, FreshTick, LinkTypeOK, TypeOK, params
  <2> QED BY <2>2, <2>4, TypesAreTwo
<1> QED BY <1>3, <1>4, <1>5, <1>6, <1>7, <1>8 DEF Tick

LEMMA TimeoutsAreTyped == TypeOK /\ ResponseTimeout => TypeOK'
<1> SUFFICES ASSUME TypeOK, ResponseTimeout PROVE TypeOK'
  OBVIOUS
<1>1. TimeoutTaken
  BY DEF ResponseTimeout, StopUnanswered, AwaitRetry, DiscoveryUnanswered, GiveUp
<1>2. /\ tickIn' \in 0..TICK /\ pacing' \in 0..REPLY /\ pumpUp' \in BOOLEAN /\ served' \in BOOLEAN
      /\ wire \in Seq(SteamFrames) /\ WireTypeOK
  BY <1>1, LoopIsTyped, TypesAreTwo DEF TypeOK, AdapterTypeOK
<1>3. CASE CloseAndLatch(wire)
  BY <1>2, <1>3, CloseAndLatchIsTyped, LatchedIsTyped DEF Faults, LinkFaults
<1>4. CASE /\ inflight' = NoTransaction /\ Hush(wire) /\ Steady
           /\ UNCHANGED <<enrolled, params, stale, session, stopping>>
  <2>1. Untouched
    BY <1>4 DEF Steady, Untouched
  <2> QED BY <1>2, <1>4, <2>1, UntouchedIsTyped, SilenceIsTyped
<1>5. CASE AwaitRetry
  <2>1. inflight \in Transactions
    BY <1>1, <1>2, OutstandingIsATransaction, SMTT(30) DEF TimeoutTaken, TimedOut
  <2>2. inflight' \in Transactions
    BY <1>5, <2>1, TransactionsAge DEF AwaitRetry
  <2>3. AdapterTypeOK'
    BY <1>2, <1>5, HushIsTyped DEF AwaitRetry, WireTypeOK
  <2>4. Untouched
    BY <1>5 DEF AwaitRetry, Steady, Untouched
  <2> QED BY <1>2, <2>2, <2>3, <2>4, UntouchedIsTyped DEF WireTypeOK
<1>6. CASE DiscoveryUnanswered
  <2>1. LosePort(wire)
    BY <1>6 DEF DiscoveryUnanswered
  <2> QED BY <1>2, <2>1, LosePortIsTyped, LatchedIsTyped DEF Faults, LinkFaults
<1>7. CASE GiveUp
  BY <1>1, <1>2, <1>7, DegradeIsTyped DEF GiveUp
<1> QED BY <1>3, <1>4, <1>5, <1>6, <1>7 DEF ResponseTimeout, StopUnanswered

LEMMA RepliesAreTyped == TypeOK /\ Receive => TypeOK'
<1> SUFFICES ASSUME TypeOK, Receive PROVE TypeOK'
  OBVIOUS
<1>1. FrameTaken
  BY DEF Receive, Undecodable, DiscardStale, Unsolicited, Nakked, AddressRequested,
         AddressAssigned, AdapterRefused, FirstStatus, PollAnswered, StatusCondemns,
         WriteAcknowledged, StopAcknowledged, Answers
<1>2. /\ tickIn' \in 0..TICK /\ pacing' \in 0..REPLY /\ pumpUp' \in BOOLEAN /\ served' \in BOOLEAN
      /\ WireTypeOK
  BY <1>1, LoopIsTyped, TypesAreTwo
<1>3. Rest \in Seq(SteamFrames)
  BY <1>1, WhatIsLeftOfTheWire DEF FrameTaken, Rest, TypeOK, AdapterTypeOK
<1> HIDE DEF Rest
<1>4. CASE Degrade(Rest)
  BY <1>1, <1>3, <1>4, DegradeIsTyped
<1>5. CASE DiscardStale
  <2>1. WireTypeOK'
    BY <1>2, <1>3, <1>5, SilenceIsTyped DEF DiscardStale
  <2>2. stale' \in 0..STALE_MAX
    BY <1>5, SteamMachineAssumption DEF DiscardStale, TypeOK
  <2>3. LinkTypeOK'
    BY <1>2, <1>5, <2>2 DEF DiscardStale, Steady, params, LinkTypeOK, TypeOK
  <2> QED BY <2>1, <2>3, TypesAreTwo
<1>6. CASE AddressRequested
  <2>1. Plain("AssignAddress") \in RequestFields /\ "AssignAddress" \in Jobs
    BY RequestsAreTyped DEF SteamOps, Jobs
  <2>2. WireTypeOK'
    BY <1>2, <1>3, <1>6, <2>1, SendIsTyped DEF AddressRequested
  <2>3. Untouched
    BY <1>6 DEF AddressRequested, Steady, Untouched
  <2> QED BY <1>2, <2>2, <2>3, UntouchedIsTyped
<1>7. CASE AddressAssigned
  <2>1. Plain("ReadStatus") \in RequestFields /\ "FirstStatus" \in Jobs
    BY RequestsAreTyped DEF SteamOps, Jobs
  <2>2. WireTypeOK'
    BY <1>2, <1>3, <1>7, <2>1, SendIsTyped DEF AddressAssigned
  <2>3. LinkTypeOK'
    BY <1>2, <1>7 DEF AddressAssigned, Steady, params, LinkTypeOK, TypeOK
  <2> QED BY <2>2, <2>3, TypesAreTwo
<1>8. CASE AdapterRefused
  <2>1. LosePort(Rest)
    BY <1>8 DEF AdapterRefused
  <2> QED BY <1>2, <1>3, <2>1, LosePortIsTyped, LatchedIsTyped DEF Faults, LinkFaults
<1>9. CASE FirstStatus
  <2>1. StopFrame \in RequestFields /\ "Write" \in Jobs
    BY RequestsAreTyped DEF TypeOK, Jobs
  <2>2. WireTypeOK'
    BY <1>2, <1>3, <1>9, <2>1, SendIsTyped, SilenceIsTyped DEF FirstStatus
  <2>3. kernel' \in LinkStates /\ phase' \in Phases /\ attempts' \in 0..STOP_ATTEMPTS
    BY <1>9, RulingsAreTyped, SteamMachineAssumption
       DEF FirstStatus, Ready, TypeOK, Phases, STOP_ATTEMPTS
  <2>4. state' \in OpStates /\ stopping' \in BOOLEAN
    BY <1>9 DEF FirstStatus, TypeOK, OpStates
  <2>5. LinkTypeOK'
    BY <1>2, <1>9, <2>3, <2>4 DEF FirstStatus, LinkTypeOK, TypeOK
  <2> QED BY <2>2, <2>5, TypesAreTwo
<1>10. CASE PollAnswered
  <2>1. Untouched /\ WireTypeOK'
    BY <1>2, <1>3, <1>10, SilenceIsTyped DEF PollAnswered, Steady, Untouched
  <2> QED BY <1>2, <2>1, UntouchedIsTyped
<1>11. CASE WriteAcknowledged
  <2>1. WireTypeOK'
    BY <1>2, <1>3, <1>11, SilenceIsTyped DEF WriteAcknowledged
  <2>2. kernel' \in LinkStates /\ phase' \in Phases /\ attempts' \in 0..STOP_ATTEMPTS
    BY <1>11, RulingsAreTyped, SteamMachineAssumption
       DEF WriteAcknowledged, Ready, TypeOK, Phases, STOP_ATTEMPTS
  <2>3. session' \in [ran : 0..SESSION_CAP, limit : 0..SESSION_CAP]
    BY <1>11, SteamMachineAssumption DEF WriteAcknowledged, NoSession, TypeOK
  <2>4. LinkTypeOK'
    BY <1>2, <1>11, <2>2, <2>3 DEF WriteAcknowledged, params, LinkTypeOK, TypeOK
  <2> QED BY <2>1, <2>4, TypesAreTwo
<1>12. CASE StopAcknowledged
  <2>1. CloseAndLatch(Rest)
    BY <1>12 DEF StopAcknowledged
  <2> QED BY <1>2, <1>3, <2>1, CloseAndLatchIsTyped, LatchedIsTyped DEF Faults, LinkFaults
<1> QED BY <1>4, <1>5, <1>6, <1>7, <1>8, <1>9, <1>10, <1>11, <1>12
        DEF Receive, Undecodable, Unsolicited, Nakked, StatusCondemns

LEMMA CommandsAreTyped == TypeOK /\ Command => TypeOK'
<1> SUFFICES ASSUME TypeOK, Command PROVE TypeOK'
  OBVIOUS
<1>1. wire \in Seq(SteamFrames) /\ WireTypeOK /\ "Write" \in Jobs
  BY TypesAreTwo DEF TypeOK, AdapterTypeOK, Jobs
<1>2. ASSUME NEW command, NEW phases, Accepted(command, phases)
      PROVE  /\ tickIn' \in 0..TICK /\ pacing' \in 0..REPLY
             /\ pumpUp' \in BOOLEAN /\ served' \in BOOLEAN
             /\ UNCHANGED <<latch, attempts, enrolled, kernel, portOpen>>
  <2>1. tickIn' \in 0..TICK /\ pacing' \in 0..REPLY
    BY <1>2, SteamMachineAssumption DEF Accepted, TypeOK
  <2>2. pumpUp' \in BOOLEAN
    BY <1>2 DEF Accepted, TypeOK
  <2>3. served' \in BOOLEAN
    BY <1>2 DEF Accepted
  <2> QED BY <1>2, <2>1, <2>2, <2>3 DEF Accepted
<1>3. ASSUME NEW requested \in MINUTES, Start(requested) PROVE TypeOK'
  <2>1. Accepted("Start", {"ReadyOff"})
    BY <1>3 DEF Start
  <2>2. WireTypeOK'
    BY <1>1, <1>3, RequestsAreTyped, SendIsTyped DEF Start, SteamOps, OpStates
  <2>3. session' \in [ran : 0..SESSION_CAP, limit : 0..SESSION_CAP]
    BY <1>3, SteamMachineAssumption, SteamAdapterAssumption DEF Start, Smaller
  <2>4. stale' \in 0..STALE_MAX
    BY <1>3, SteamMachineAssumption DEF Start, Abandon, Plus1, TypeOK
  <2>5. LinkTypeOK'
    BY <1>2, <1>3, <2>1, <2>3, <2>4 DEF Start, LinkTypeOK, TypeOK, Phases, OpStates
  <2> QED BY <2>2, <2>5, TypesAreTwo
<1>4. ASSUME NEW requested \in MINUTES, SetDuration(requested) PROVE TypeOK'
  <2>1. Accepted("SetDuration", {"Running", "ReadyOff"})
    BY <1>4 DEF SetDuration
  <2>2. Request("SetDuration", state, requested) \in RequestFields
    BY RequestsAreTyped DEF SteamOps, TypeOK
  <2>3. WireTypeOK'
    BY <1>1, <1>4, <2>2, SendIsTyped DEF SetDuration
  <2>4. stale' \in 0..STALE_MAX
    BY <1>4, SteamMachineAssumption DEF SetDuration, Abandon, Plus1, TypeOK
  <2>5. LinkTypeOK'
    BY <1>2, <1>4, <2>1, <2>4 DEF SetDuration, LinkTypeOK, TypeOK
  <2> QED BY <2>3, <2>5, TypesAreTwo
<1>5. CASE Stop
  <2>1. Accepted("Stop", Phases \ {"Unavailable"})
    BY <1>5 DEF Stop
  <2>2. WireTypeOK' /\ LinkTypeOK'
    BY <1>1, <1>2, <1>5, <2>1, StopSessionIsTyped DEF Stop, LinkTypeOK, TypeOK
  <2> QED BY <2>2, TypesAreTwo
<1>6. CASE SetTemperature
  <2>1. Accepted("SetTemperature", {"Running", "ReadyOff"})
    BY <1>6 DEF SetTemperature
  <2>2. Request("SetTemperature", state, minutes) \in RequestFields
    BY RequestsAreTyped DEF SteamOps, TypeOK
  <2>3. WireTypeOK'
    BY <1>1, <1>6, <2>2, SendIsTyped DEF SetTemperature
  <2>4. stale' \in 0..STALE_MAX
    BY <1>6, SteamMachineAssumption DEF SetTemperature, Abandon, Plus1, TypeOK
  <2>5. LinkTypeOK'
    BY <1>2, <1>6, <2>1, <2>4 DEF SetTemperature, params, LinkTypeOK, TypeOK
  <2> QED BY <2>3, <2>5, TypesAreTwo
<1>7. CASE AcknowledgeLatch
  <2>1. kernel' \in LinkStates
    BY <1>7, RulingsAreTyped DEF AcknowledgeLatch, TypeOK
  <2>2. latch' \in [reason : Faults \cup {"none"}, ack : BOOLEAN]
    BY <1>7 DEF AcknowledgeLatch, TypeOK
  <2>3. WireTypeOK'
    BY <1>1, <1>7 DEF AcknowledgeLatch, WireTypeOK, AdapterTypeOK, adapterVars
  <2>4. LinkTypeOK'
    BY <1>7, <2>1, <2>2 DEF AcknowledgeLatch, LinkTypeOK, TypeOK, params, loopVars
  <2> QED BY <2>3, <2>4, TypesAreTwo
<1> QED BY <1>3, <1>4, <1>5, <1>6, <1>7 DEF Command

LEMMA EventsAreTyped ==
  TypeOK /\ (PortLost \/ PumpClosed \/ ServiceFailure \/ GeneratorBreaks) => TypeOK'
<1> SUFFICES ASSUME TypeOK PROVE PortLost \/ PumpClosed \/ ServiceFailure \/ GeneratorBreaks => TypeOK'
  OBVIOUS
<1>1. wire \in Seq(SteamFrames) /\ WireTypeOK
  BY TypesAreTwo DEF TypeOK, AdapterTypeOK
<1>2. ASSUME PortLost PROVE TypeOK'
  <2>1. LosePort(wire)
    BY <1>2 DEF PortLost
  <2>2. /\ tickIn' \in 0..TICK /\ pacing' \in 0..REPLY
        /\ pumpUp' \in BOOLEAN /\ served' \in BOOLEAN
    BY <1>2 DEF PortLost, TypeOK
  <2> QED BY <1>1, <2>1, <2>2, LosePortIsTyped, LatchedIsTyped DEF Faults, LinkFaults
<1>3. ASSUME PumpClosed PROVE TypeOK'
  <2>1. WireTypeOK'
    BY <1>1, <1>3, WhatIsLeftOfTheWire, SilenceIsTyped DEF PumpClosed
  <2>2. LinkTypeOK'
    BY <1>3 DEF PumpClosed, LinkTypeOK, TypeOK, params
  <2> QED BY <2>1, <2>2, TypesAreTwo
<1>4. ASSUME ServiceFailure PROVE TypeOK'
  <2>1. LatchNow("ServiceFailure") /\ Hush(wire) /\ UNCHANGED enrolled
    BY <1>4 DEF ServiceFailure
  <2>2. /\ tickIn' \in 0..TICK /\ pacing' \in 0..REPLY
        /\ pumpUp' \in BOOLEAN /\ served' \in BOOLEAN /\ portOpen' \in BOOLEAN
    BY <1>4 DEF ServiceFailure, TypeOK
  <2>3. "ServiceFailure" \in Faults
    BY DEF Faults, SharedFaults
  <2>4. kernel' \in LinkStates
    BY <1>4, <2>3, RulingsAreTyped DEF ServiceFailure, TypeOK
  <2>5. WireTypeOK'
    BY <1>1, <2>1, SilenceIsTyped DEF LatchNow
  <2> QED BY <2>1, <2>2, <2>3, <2>4, <2>5, LatchedIsTyped
<1>5. ASSUME GeneratorBreaks PROVE TypeOK'
  <2>1. WireTypeOK'
    BY <1>1, <1>5, AdapterAgesTyped DEF GeneratorBreaks, WireTypeOK
  <2>2. LinkTypeOK'
    BY <1>5 DEF GeneratorBreaks, LinkTypeOK, TypeOK, params, loopVars
  <2> QED BY <2>1, <2>2, TypesAreTwo
<1> QED BY <1>2, <1>3, <1>4, <1>5

LEMMA TimeIsTyped == TypeOK /\ Elapse => TypeOK'
<1> SUFFICES ASSUME TypeOK, Elapse PROVE TypeOK'
  OBVIOUS
<1>1. AdapterTypeOK'
  BY AdapterAgesTyped DEF Elapse, TypeOK
<1>2. inflight' \in Transactions \cup {NoTransaction}
  BY OutstandingIsATransaction, TransactionsAge, TypesAreTwo DEF Elapse, TypeOK
<1>3. session' \in [ran : 0..SESSION_CAP, limit : 0..SESSION_CAP]
  <2>1. Plus1(session.ran, session.limit) \in 0..SESSION_CAP
    BY SteamMachineAssumption DEF Plus1, TypeOK
  <2> QED BY <2>1 DEF Elapse, TypeOK
<1>4. tickIn' \in 0..TICK /\ pacing' \in 0..REPLY
  BY SteamMachineAssumption, SMTT(30) DEF Elapse, Less1, TypeOK
<1>5. UNCHANGED <<phase, latch, attempts, enrolled, params, stale, stopping,
                  kernel, portOpen, pumpUp>> /\ served' = FALSE
  BY DEF Elapse
<1>6. LinkTypeOK'
  BY <1>3, <1>4, <1>5 DEF LinkTypeOK, TypeOK, params
<1> QED BY <1>1, <1>2, <1>6, TypesAreTwo DEF WireTypeOK

LEMMA InitIsTyped == Init => TypeOK
<1> SUFFICES ASSUME Init PROVE TypeOK
  OBVIOUS
<1>1. AdapterTypeOK
  <2>1. device \in DEVICES /\ trouble \in TROUBLES /\ addressed \in BOOLEAN /\ gen \in StateBytes
    BY SteamAdapterAssumption DEF Init, AdapterInit
  <2>2. broken \in BOOLEAN
    BY DEF Init, AdapterInit
  <2>4. wire \in Seq(SteamFrames)
    BY DEF Init, AdapterInit
  <2>3. 0 \in MINUTES \cup {0} /\ timer \in 0..0
    BY DEF Init, AdapterInit
  <2> QED BY <2>1, <2>2, <2>3, <2>4 DEF AdapterTypeOK
<1>2. kernel \in LinkStates /\ latch \in [reason : Faults \cup {"none"}, ack : BOOLEAN]
  BY DEF Init, LinkStates, Unlatched, NoLatch
<1>3. session \in [ran : 0..SESSION_CAP, limit : 0..SESSION_CAP]
  BY SteamMachineAssumption DEF Init, NoSession
<1>4. attempts \in 0..STOP_ATTEMPTS /\ stale \in 0..STALE_MAX /\ tickIn \in 0..TICK /\ pacing \in 0..REPLY
  BY SteamMachineAssumption DEF Init, STOP_ATTEMPTS
<1> QED BY <1>1, <1>2, <1>3, <1>4, SteamMachineAssumption DEF Init, TypeOK, Phases, OpStates

\* Every variable of the steam link stays in its range, whatever the adapter
\* answers and whatever the wire does to it (steam.rs, emulator steam.rs).
THEOREM SteamTyping == Spec => []TypeOK
<1>1. TypeOK /\ [Next]_vars => TypeOK'
  <2>1. TypeOK /\ UNCHANGED vars => TypeOK'
    BY DEF TypeOK, AdapterTypeOK, vars, params, loopVars, adapterVars
  <2> QED BY <2>1, TicksAreTyped, TimeoutsAreTyped, RepliesAreTyped, CommandsAreTyped,
             EventsAreTyped, TimeIsTyped DEF Next
<1> QED BY <1>1, InitIsTyped, PTL DEF Spec

-----------------------------------------------------------------------------
(* The control invariant: which frame can be outstanding in which phase,    *)
(* and what the kernel holds meanwhile.                                     *)

JobFits(job, op, p) ==
  /\ job \in {"AddressOpportunity", "AssignAddress"} => op = job /\ p = "Discovery"
  /\ job = "FirstStatus" => op = "ReadStatus" /\ p = "Discovery"
  /\ job = "Poll" => op = "ReadStatus" /\ p \in {"ReadyOff", "Running"}
  /\ job = "Write" => IsWrite(op)
  /\ job = "Write" /\ op # "Stop" => p \in {"ReadyOff", "Running"}
  /\ job = "StopBeforeLatch" => op = "Stop" /\ p = "StoppingBeforeLatch"

\* A phase that is only entered by a ruling the kernel made first.
StoppingIsDegraded == phase = "StoppingBeforeLatch" => kernel.reason = "SteamLinkDegraded"

Control ==
  /\ JobFits(inflight.job, inflight.op, phase)
  /\ StoppingIsDegraded
  /\ KernelLatchedFirst

\* A degraded link, and one that is latched, fit whatever was before.
LEMMA DegradeFits ==
  ASSUME NEW q, Degrade(q)
  PROVE  Control'
<1>1. kernel' = LatchedFor("SteamLinkDegraded")
  BY DEF Degrade, Ruled, Routine
<1>2. phase' = "StoppingBeforeLatch"
  BY DEF Degrade
<1>3. inflight' = NoTransaction \/ inflight' = InFlight("StopBeforeLatch", StopFrame)
  BY DEF Degrade, Send
<1>4. JobFits(inflight.job, inflight.op, phase)'
  BY <1>2, <1>3 DEF JobFits, NoTransaction, InFlight, StopFrame, Request
<1> QED BY <1>1, <1>2, <1>4
        DEF Control, StoppingIsDegraded, KernelLatchedFirst, LatchedFor, IsLatched

LEMMA LatchFits ==
  ASSUME NEW reason, LatchNow(reason), IsLatched(kernel'), kernel'.reason = reason
  PROVE  Control'
BY DEF LatchNow, Control, StoppingIsDegraded, KernelLatchedFirst, JobFits, NoTransaction

LEMMA LosePortFits ==
  ASSUME NEW q, LosePort(q)
  PROVE  Control'
BY LatchFits DEF LosePort, Ruled, Routine, LatchedFor, IsLatched

LEMMA CloseAndLatchFits ==
  ASSUME NEW q, Control, phase = "StoppingBeforeLatch", CloseAndLatch(q)
  PROVE  Control'
BY LatchFits DEF CloseAndLatch, Control, StoppingIsDegraded, KernelLatchedFirst

\* A step that leaves phase, latch and kernel and puts a fitting frame, or none,
\* in the place of what was outstanding.
LEMMA NewFrameFits ==
  ASSUME Control, UNCHANGED <<phase, latch, kernel>>,
         JobFits(inflight'.job, inflight'.op, phase)
  PROVE  Control'
BY DEF Control, StoppingIsDegraded, KernelLatchedFirst

\* What is still outstanding is the same request.
LEMMA SameFrameFits ==
  ASSUME Control, UNCHANGED <<phase, latch, kernel>>,
         inflight'.job = inflight.job, inflight'.op = inflight.op
  PROVE  Control'
BY NewFrameFits DEF Control

LEMMA NothingFits ==
  /\ \A p : JobFits(NoTransaction.job, NoTransaction.op, p)
  /\ \A p : JobFits("Write", "Stop", p)
BY DEF JobFits, NoTransaction, IsWrite

LEMMA StopSessionFits ==
  ASSUME NEW q, Control, StopSession(q), UNCHANGED <<phase, latch, kernel>>
  PROVE  Control'
<1>1. inflight' = InFlight("Write", StopFrame)
  BY DEF StopSession, Send
<1> QED BY <1>1, NothingFits, NewFrameFits DEF StopFrame, Request, InFlight

LEMMA TicksFit == TypeOK /\ Control /\ Tick => Control'
<1> SUFFICES ASSUME TypeOK, Control, Tick PROVE Control'
  OBVIOUS
<1>1. CASE ExpireSession
  BY <1>1, StopSessionFits DEF ExpireSession, Steady
<1>2. CASE Retry
  <2>1. inflight \in Transactions
    BY <1>2, OutstandingIsATransaction, TypesAreTwo DEF Retry
  <2>2. inflight'.job = inflight.job /\ inflight'.op = inflight.op
    BY <1>2, <2>1 DEF Retry, Transactions
  <2> QED BY <1>2, <2>2, SameFrameFits DEF Retry, Steady
<1>3. CASE Occupied
  BY <1>3, SameFrameFits DEF Occupied, Steady
<1>4. CASE Broadcast
  <2>1. inflight' = InFlight("AddressOpportunity", Plain("AddressOpportunity"))
    BY <1>4 DEF Broadcast, FreshTick, Send
  <2>2. JobFits(inflight.job, inflight.op, phase)'
    BY <1>4, <2>1 DEF Broadcast, JobFits, Plain, Request, InFlight
  <2>3. phase \in {"Cold", "Discovery"} /\ phase' = "Discovery" /\ UNCHANGED <<latch, kernel>>
    BY <1>4 DEF Broadcast, FreshTick
  <2> QED BY <2>2, <2>3 DEF Control, StoppingIsDegraded, KernelLatchedFirst
<1>5. CASE Poll
  <2>1. inflight' = InFlight("Poll", Plain("ReadStatus"))
    BY <1>5 DEF Poll, FreshTick, Send
  <2>2. JobFits(inflight'.job, inflight'.op, phase)
    BY <1>5, <2>1 DEF Poll, JobFits, Plain, Request, InFlight
  <2> QED BY <1>5, <2>2, NewFrameFits DEF Poll, FreshTick
<1>6. CASE ResendStop
  <2>1. inflight' = InFlight("StopBeforeLatch", StopFrame)
    BY <1>6 DEF ResendStop, FreshTick, Send
  <2>2. JobFits(inflight'.job, inflight'.op, phase)
    BY <1>6, <2>1 DEF ResendStop, JobFits, StopFrame, Request, InFlight
  <2> QED BY <1>6, <2>2, NewFrameFits DEF ResendStop, FreshTick
<1> QED BY <1>1, <1>2, <1>3, <1>4, <1>5, <1>6 DEF Tick

LEMMA TimeoutsFit == TypeOK /\ Control /\ ResponseTimeout => Control'
<1> SUFFICES ASSUME TypeOK, Control, ResponseTimeout PROVE Control'
  OBVIOUS
<1>1. CASE StopUnanswered
  <2>1. phase = "StoppingBeforeLatch"
    BY <1>1 DEF StopUnanswered, Control, JobFits
  <2>2. CASE CloseAndLatch(wire)
    BY <2>1, <2>2, CloseAndLatchFits
  <2>3. CASE inflight' = NoTransaction /\ Steady
    BY <2>3, NothingFits, NewFrameFits DEF Steady
  <2> QED BY <1>1, <2>2, <2>3 DEF StopUnanswered
<1>2. CASE AwaitRetry
  <2>1. inflight \in Transactions
    BY <1>2, OutstandingIsATransaction, TypesAreTwo DEF AwaitRetry, TimeoutTaken, TimedOut
  <2>2. inflight'.job = inflight.job /\ inflight'.op = inflight.op
    BY <1>2, <2>1 DEF AwaitRetry, Transactions
  <2> QED BY <1>2, <2>2, SameFrameFits DEF AwaitRetry, Steady
<1>3. CASE DiscoveryUnanswered
  BY <1>3, LosePortFits DEF DiscoveryUnanswered
<1>4. CASE GiveUp
  BY <1>4, DegradeFits DEF GiveUp
<1> QED BY <1>1, <1>2, <1>3, <1>4 DEF ResponseTimeout

\* A link that is ready: the kernel follows unless it holds a latch.
LEMMA ReadyFits ==
  ASSUME Control, Ready, inflight' = NoTransaction, UNCHANGED latch
  PROVE  Control'
<1>1. phase' = "ReadyOff" /\ kernel' = MarkReady(kernel)
  BY DEF Ready
<1>2. JobFits(inflight.job, inflight.op, phase)'
  BY NothingFits
<1>3. ~IsLatched(kernel') => kernel'.state # "Cold"
  BY <1>1 DEF MarkReady, IsLatched, Unlatched
<1> QED BY <1>1, <1>2, <1>3 DEF Control, StoppingIsDegraded, KernelLatchedFirst

LEMMA RepliesFit == TypeOK /\ Control /\ Receive => Control'
<1> SUFFICES ASSUME TypeOK, Control, Receive PROVE Control'
  OBVIOUS
<1>1. CASE Degrade(Rest)
  BY <1>1, DegradeFits
<1>2. CASE DiscardStale
  BY <1>2, SameFrameFits DEF DiscardStale, Steady
<1>3. CASE AddressRequested
  <2>1. inflight' = InFlight("AssignAddress", Plain("AssignAddress")) /\ phase = "Discovery"
    BY <1>3 DEF AddressRequested, Send, Answers, Control, JobFits
  <2>2. JobFits(inflight'.job, inflight'.op, phase)
    BY <2>1 DEF JobFits, Plain, Request, InFlight
  <2> QED BY <1>3, <2>2, NewFrameFits DEF AddressRequested, Steady
<1>4. CASE AddressAssigned
  <2>1. inflight' = InFlight("FirstStatus", Plain("ReadStatus")) /\ phase = "Discovery"
    BY <1>4 DEF AddressAssigned, Send, Answers, Control, JobFits
  <2>2. JobFits(inflight'.job, inflight'.op, phase)
    BY <2>1 DEF JobFits, Plain, Request, InFlight
  <2> QED BY <1>4, <2>2, NewFrameFits DEF AddressAssigned, Steady
<1>5. CASE AdapterRefused
  BY <1>5, LosePortFits DEF AdapterRefused
<1>6. CASE FirstStatus
  <2>1. CASE Ready /\ inflight' = NoTransaction
    BY <1>6, <2>1, ReadyFits DEF FirstStatus
  <2>2. CASE Send("Write", StopFrame, Rest) /\ UNCHANGED <<phase, attempts, kernel>>
    <3>1. inflight' = InFlight("Write", StopFrame)
      BY <2>2 DEF Send
    <3> QED BY <1>6, <2>2, <3>1, NothingFits, NewFrameFits
            DEF FirstStatus, StopFrame, Request, InFlight
  <2> QED BY <1>6, <2>1, <2>2 DEF FirstStatus
<1>7. CASE PollAnswered
  BY <1>7, NothingFits, NewFrameFits DEF PollAnswered, Steady
<1>8. CASE WriteAcknowledged
  <2>1. CASE stopping
    BY <1>8, <2>1, ReadyFits DEF WriteAcknowledged
  <2>2. CASE ~stopping
    BY <1>8, <2>2, NothingFits, NewFrameFits DEF WriteAcknowledged
  <2> QED BY <2>1, <2>2
<1>9. CASE StopAcknowledged
  <2>1. phase = "StoppingBeforeLatch"
    BY <1>9 DEF StopAcknowledged, Answers, Control, JobFits
  <2> QED BY <1>9, <2>1, CloseAndLatchFits DEF StopAcknowledged
<1> QED BY <1>1, <1>2, <1>3, <1>4, <1>5, <1>6, <1>7, <1>8, <1>9
        DEF Receive, Undecodable, Unsolicited, Nakked, StatusCondemns

LEMMA CommandsFit == TypeOK /\ Control /\ Command => Control'
<1> SUFFICES ASSUME TypeOK, Control, Command PROVE Control'
  OBVIOUS
<1>1. ASSUME NEW requested \in MINUTES, Start(requested) PROVE Control'
  <2>1. inflight' = InFlight("Write", Request("Start", "On", requested))
    BY <1>1 DEF Start, Send
  <2>2. phase = "ReadyOff" /\ phase' = "Running" /\ UNCHANGED <<latch, kernel>>
    BY <1>1 DEF Start, Accepted
  <2>3. JobFits(inflight.job, inflight.op, phase)'
    BY <2>1, <2>2 DEF JobFits, Request, IsWrite, InFlight
  <2> QED BY <2>2, <2>3 DEF Control, StoppingIsDegraded, KernelLatchedFirst
<1>2. ASSUME NEW requested \in MINUTES, SetDuration(requested) PROVE Control'
  <2>1. inflight' = InFlight("Write", Request("SetDuration", state, requested))
    BY <1>2 DEF SetDuration, Send
  <2>2. phase \in {"Running", "ReadyOff"} /\ UNCHANGED <<phase, latch, kernel>>
    BY <1>2 DEF SetDuration, Accepted
  <2>3. JobFits(inflight'.job, inflight'.op, phase)
    BY <2>1, <2>2 DEF JobFits, Request, IsWrite, InFlight
  <2> QED BY <2>2, <2>3, NewFrameFits
<1>3. CASE Stop
  BY <1>3, StopSessionFits DEF Stop, Accepted
<1>4. CASE SetTemperature
  <2>1. inflight' = InFlight("Write", Request("SetTemperature", state, minutes))
    BY <1>4 DEF SetTemperature, Send
  <2>2. phase \in {"Running", "ReadyOff"} /\ UNCHANGED <<phase, latch, kernel>>
    BY <1>4 DEF SetTemperature, Accepted
  <2>3. JobFits(inflight'.job, inflight'.op, phase)
    BY <2>1, <2>2 DEF JobFits, Request, IsWrite, InFlight
  <2> QED BY <2>2, <2>3, NewFrameFits
<1>5. CASE AcknowledgeLatch
  <2>1. IsLatched(kernel') /\ kernel'.reason = kernel.reason /\ kernel'.ack = TRUE
    BY <1>5 DEF AcknowledgeLatch, Acknowledge, IsLatched, TypeOK, LinkStates
  <2>2. latch'.reason = latch.reason
    BY <1>5 DEF AcknowledgeLatch, TypeOK
  <2>3. UNCHANGED <<phase, inflight>> /\ IsLatched(kernel)
    BY <1>5 DEF AcknowledgeLatch
  <2> QED BY <2>1, <2>2, <2>3 DEF Control, StoppingIsDegraded, KernelLatchedFirst
<1> QED BY <1>1, <1>2, <1>3, <1>4, <1>5 DEF Command

LEMMA ControlIsKept == TypeOK /\ Control /\ [Next]_vars => Control'
<1> SUFFICES ASSUME TypeOK, Control, [Next]_vars PROVE Control'
  OBVIOUS
<1>1. CASE PortLost
  BY <1>1, LosePortFits DEF PortLost
<1>2. CASE PumpClosed \/ GeneratorBreaks
  BY <1>2, SameFrameFits DEF PumpClosed, GeneratorBreaks
<1>3. CASE ServiceFailure
  BY <1>3, LatchFits DEF ServiceFailure, Ruled, Routine, LatchedFor, IsLatched
<1>4. CASE Elapse
  <2>1. inflight'.job = inflight.job /\ inflight'.op = inflight.op
    BY <1>4, OutstandingIsATransaction, TypesAreTwo DEF Elapse, Transactions
  <2> QED BY <1>4, <2>1, SameFrameFits DEF Elapse
<1>5. CASE UNCHANGED vars
  BY <1>5, SameFrameFits DEF vars
<1> QED BY <1>1, <1>2, <1>3, <1>4, <1>5, TicksFit, TimeoutsFit, RepliesFit, CommandsFit DEF Next

LEMMA ControlAlways == Spec => [](TypeOK /\ Control)
<1>1. Init => Control
  BY NothingFits DEF Init, Control, StoppingIsDegraded, KernelLatchedFirst, Unlatched, IsLatched
<1> QED BY <1>1, SteamTyping, ControlIsKept, PTL DEF Spec

\* The machine never believes less than the kernel: whatever arrives, the kernel
\* has the link latched before the machine begins to stop it or gives it up, for
\* the same reason, and an acknowledgement is noted by both (steam.rs escalate,
\* latch, on_acknowledged; kernel.rs on_event).
THEOREM KernelLatchesFirst == Spec => []KernelLatchedFirst
BY ControlAlways, PTL DEF Control

\* The encoder is never asked for a frame it refuses: discovery frames are only
\* outstanding in Discovery, and only a stop outside a ready or running link
\* (steam.rs send, encode.rs SteamEncoder).
THEOREM SteamEncoderAccepts == Spec => []EncoderNeverRefuses
<1>1. TypeOK /\ Control => EncoderNeverRefuses
  <2> SUFFICES ASSUME TypeOK, Control, Outstanding
               PROVE  SteamEncodable(inflight.op, LinkPhase(phase))
    BY DEF EncoderNeverRefuses
  <2>1. inflight.job \in Jobs
    BY OutstandingIsATransaction, TypesAreTwo DEF Transactions
  <2> QED BY <2>1 DEF Control, JobFits, SteamEncodable, LinkPhase, IsDiscovery, IsWrite, Jobs
<1> QED BY <1>1, ControlAlways, PTL

-----------------------------------------------------------------------------
(* What enrolment, the session and the flag of the stop say of each other,  *)
(* whatever the wire does.                                                  *)

Enrolling ==
  /\ phase = "Cold" => ~enrolled
  /\ phase \in {"Cold", "Discovery"} =>
       /\ enrolled => inflight.job \in {"FirstStatus", "Write"}
       /\ stopping <=> inflight.job = "Write"
  /\ inflight.job \in {"AddressOpportunity", "AssignAddress"} => ~enrolled
  /\ inflight.job \in {"FirstStatus", "Write"} \/ session # NoSession => enrolled
  /\ phase \notin {"Running", "StoppingBeforeLatch"} => session = NoSession
  /\ inflight.state = "On" => state = "On"

\* What a transaction that begins says, and that one seen again says the same.
LEMMA Sent ==
  ASSUME NEW job, NEW r, NEW q, Send(job, r, q)
  PROVE  /\ inflight'.job = job /\ inflight'.op = r.op /\ inflight'.state = r.state
         /\ inflight'.sent = 0 /\ inflight'.retry = FALSE
         /\ Transmit(r, q)
BY DEF Send, InFlight

SameFrame == inflight'.job = inflight.job /\ inflight'.op = inflight.op /\ inflight'.state = inflight.state

LEMMA SeenAgain ==
  ASSUME TypeOK, Retry \/ AwaitRetry \/ Elapse
  PROVE  SameFrame
<1>1. CASE Retry \/ AwaitRetry
  <2>1. inflight \in Transactions
    BY <1>1, OutstandingIsATransaction, TypesAreTwo DEF Retry, AwaitRetry, TimeoutTaken, TimedOut
  <2> QED BY <1>1, <2>1 DEF Retry, AwaitRetry, Transactions, SameFrame
<1>2. CASE Elapse
  BY <1>2, OutstandingIsATransaction, TypesAreTwo DEF Elapse, Transactions, SameFrame
<1> QED BY <1>1, <1>2

\* A step that leaves the machine and its session alone.
LEMMA StillEnrolling ==
  ASSUME Enrolling, SameFrame,
         UNCHANGED <<phase, enrolled, stopping, state>>, session' = NoSession <=> session = NoSession
  PROVE  Enrolling'
BY DEF Enrolling, SameFrame

LEMMA DegradeEnrols ==
  ASSUME NEW q, Enrolling, Degrade(q)
  PROVE  Enrolling'
<1>1. inflight'.job \in {"none", "StopBeforeLatch"} /\ inflight'.state = "Off"
  BY DEF Degrade, Send, InFlight, StopFrame, Request, NoTransaction
<1>2. phase' = "StoppingBeforeLatch" /\ UNCHANGED <<enrolled, session>>
  BY DEF Degrade
<1> QED BY <1>1, <1>2 DEF Enrolling

LEMMA LatchEnrols ==
  ASSUME NEW reason, LatchNow(reason)
  PROVE  Enrolling'
BY DEF LatchNow, Enrolling, NoTransaction

LEMMA StopSessionEnrols ==
  ASSUME NEW q, Enrolling, StopSession(q), enrolled, UNCHANGED <<phase, enrolled, session>>
  PROVE  Enrolling'
<1>1. inflight'.job = "Write" /\ inflight'.state = "Off" /\ stopping' = TRUE
  BY DEF StopSession, Send, InFlight, StopFrame, Request
<1> QED BY <1>1 DEF Enrolling

LEMMA TicksEnrol == TypeOK /\ Control /\ Enrolling /\ Tick => Enrolling'
<1> SUFFICES ASSUME TypeOK, Control, Enrolling, Tick PROVE Enrolling'
  OBVIOUS
<1>1. CASE ExpireSession
  <2>1. session # NoSession
    BY <1>1 DEF ExpireSession, SessionExpired
  <2> QED BY <1>1, <2>1, StopSessionEnrols DEF ExpireSession, Steady, Enrolling
<1>2. CASE Retry
  BY <1>2, SeenAgain, StillEnrolling DEF Retry, Steady, params
<1>3. CASE Occupied
  BY <1>3, StillEnrolling DEF Occupied, Steady, params, SameFrame
<1>4. CASE Broadcast
  <2>1. inflight'.job = "AddressOpportunity" /\ inflight'.state = "Off" /\ inflight.job = "none"
    BY <1>4 DEF Broadcast, FreshTick, Send, InFlight, Plain, Request, Outstanding
  <2>2. phase' = "Discovery" /\ phase \in {"Cold", "Discovery"} /\ UNCHANGED <<enrolled, session, stopping>>
    BY <1>4 DEF Broadcast, FreshTick
  <2> QED BY <2>1, <2>2 DEF Enrolling
<1>5. CASE Poll
  <2>1. inflight'.job = "Poll" /\ inflight'.state = "Off"
    BY <1>5 DEF Poll, FreshTick, Send, InFlight, Plain, Request
  <2>2. phase \in {"ReadyOff", "Running"} /\ UNCHANGED <<phase, enrolled, session, stopping, state>>
    BY <1>5 DEF Poll, FreshTick, params
  <2> QED BY <2>1, <2>2 DEF Enrolling
<1>6. CASE ResendStop
  <2>1. inflight'.job = "StopBeforeLatch" /\ inflight'.state = "Off"
    BY <1>6 DEF ResendStop, FreshTick, Send, InFlight, StopFrame, Request
  <2>2. phase = "StoppingBeforeLatch" /\ UNCHANGED <<phase, enrolled, session, stopping, state>>
    BY <1>6 DEF ResendStop, FreshTick, params
  <2> QED BY <2>1, <2>2 DEF Enrolling
<1> QED BY <1>1, <1>2, <1>3, <1>4, <1>5, <1>6 DEF Tick

LEMMA TimeoutsEnrol == TypeOK /\ Control /\ Enrolling /\ ResponseTimeout => Enrolling'
<1> SUFFICES ASSUME TypeOK, Control, Enrolling, ResponseTimeout PROVE Enrolling'
  OBVIOUS
<1>1. CASE StopUnanswered
  <2>1. CASE CloseAndLatch(wire)
    BY <2>1, LatchEnrols DEF CloseAndLatch
  <2>2. CASE inflight' = NoTransaction /\ Steady /\ UNCHANGED <<enrolled, params, stale, session, stopping>>
    <3>1. phase = "StoppingBeforeLatch"
      BY <1>1 DEF StopUnanswered, Control, JobFits
    <3> QED BY <2>2, <3>1 DEF Steady, params, Enrolling, NoTransaction
  <2> QED BY <1>1, <2>1, <2>2 DEF StopUnanswered
<1>2. CASE AwaitRetry
  BY <1>2, SeenAgain, StillEnrolling DEF AwaitRetry, Steady, params
<1>3. CASE DiscoveryUnanswered
  BY <1>3, LatchEnrols DEF DiscoveryUnanswered, LosePort
<1>4. CASE GiveUp
  BY <1>4, DegradeEnrols DEF GiveUp
<1> QED BY <1>1, <1>2, <1>3, <1>4 DEF ResponseTimeout

LEMMA RepliesEnrol == TypeOK /\ Control /\ Enrolling /\ Receive => Enrolling'
<1> SUFFICES ASSUME TypeOK, Control, Enrolling, Receive PROVE Enrolling'
  OBVIOUS
<1>1. CASE Degrade(Rest)
  BY <1>1, DegradeEnrols
<1>2. CASE DiscardStale
  BY <1>2, StillEnrolling DEF DiscardStale, Steady, params, SameFrame
<1>3. CASE AddressRequested
  <2>1. inflight'.job = "AssignAddress" /\ inflight'.state = "Off" /\ inflight.job = "AddressOpportunity"
    BY <1>3 DEF AddressRequested, Send, InFlight, Plain, Request, Answers
  <2>2. UNCHANGED <<phase, enrolled, session, stopping, state>>
    BY <1>3 DEF AddressRequested, Steady, params
  <2> QED BY <2>1, <2>2 DEF Enrolling
<1>4. CASE AddressAssigned
  <2>1. inflight'.job = "FirstStatus" /\ inflight'.state = "Off" /\ inflight.job = "AssignAddress"
    BY <1>4 DEF AddressAssigned, Send, InFlight, Plain, Request, Answers
  <2>2. UNCHANGED <<phase, session, stopping, state>> /\ enrolled' = TRUE
    BY <1>4 DEF AddressAssigned, Steady, params
  <2>3. phase = "Discovery"
    BY <2>1 DEF Control, JobFits
  <2> QED BY <2>1, <2>2, <2>3 DEF Enrolling
<1>5. CASE AdapterRefused
  BY <1>5, LatchEnrols DEF AdapterRefused, LosePort
<1>6. CASE FirstStatus
  <2>1. inflight.job = "FirstStatus" /\ phase = "Discovery" /\ enrolled
    BY <1>6 DEF FirstStatus, Answers, Control, JobFits, Enrolling
  <2>2. UNCHANGED <<enrolled, session>>
    BY <1>6 DEF FirstStatus
  <2>3. \/ /\ inflight'.job = "Write" /\ inflight'.state = "Off" /\ stopping' = TRUE
           /\ UNCHANGED phase
        \/ /\ inflight'.job = "none" /\ inflight'.state = "Off" /\ phase' = "ReadyOff"
           /\ UNCHANGED <<state, stopping>>
    BY <1>6 DEF FirstStatus, Send, InFlight, StopFrame, Request, Ready, NoTransaction
  <2> QED BY <2>1, <2>2, <2>3 DEF Enrolling
<1>7. CASE PollAnswered
  <2>1. phase \in {"ReadyOff", "Running"}
    BY <1>7 DEF PollAnswered, Answers, Control, JobFits
  <2>2. inflight'.job = "none" /\ inflight'.state = "Off" /\ UNCHANGED <<phase, enrolled, session, stopping, state>>
    BY <1>7 DEF PollAnswered, Steady, params, NoTransaction
  <2> QED BY <2>1, <2>2 DEF Enrolling
<1>8. CASE WriteAcknowledged
  <2>1. inflight.job = "Write" /\ inflight'.job = "none" /\ inflight'.state = "Off" /\ stopping' = FALSE /\ UNCHANGED enrolled
    BY <1>8 DEF WriteAcknowledged, Answers, NoTransaction
  <2>2. \/ stopping /\ phase' = "ReadyOff" /\ session' = NoSession
        \/ ~stopping /\ UNCHANGED <<phase, session>>
    BY <1>8 DEF WriteAcknowledged, Ready
  <2> QED BY <2>1, <2>2 DEF Enrolling
<1>9. CASE StopAcknowledged
  BY <1>9, LatchEnrols DEF StopAcknowledged, CloseAndLatch
<1> QED BY <1>1, <1>2, <1>3, <1>4, <1>5, <1>6, <1>7, <1>8, <1>9
        DEF Receive, Undecodable, Unsolicited, Nakked, StatusCondemns

LEMMA CommandsEnrol == TypeOK /\ Control /\ Enrolling /\ Command => Enrolling'
<1> SUFFICES ASSUME TypeOK, Control, Enrolling, Command PROVE Enrolling'
  OBVIOUS
<1>1. ASSUME NEW requested \in MINUTES, Start(requested) PROVE Enrolling'
  <2>1. inflight'.job = "Write" /\ state' = "On" /\ phase' = "Running"
    BY <1>1 DEF Start, Send, InFlight
  <2>2. enrolled /\ UNCHANGED enrolled
    BY <1>1 DEF Start, Accepted
  <2> QED BY <2>1, <2>2 DEF Enrolling
<1>2. ASSUME NEW requested \in MINUTES, SetDuration(requested) PROVE Enrolling'
  <2>1. inflight'.job = "Write" /\ inflight'.state = state /\ UNCHANGED <<phase, state, session, stopping>>
    BY <1>2 DEF SetDuration, Send, InFlight, Request
  <2>2. enrolled /\ UNCHANGED enrolled /\ phase \in {"Running", "ReadyOff"}
    BY <1>2 DEF SetDuration, Accepted
  <2> QED BY <2>1, <2>2 DEF Enrolling
<1>3. CASE Stop
  BY <1>3, StopSessionEnrols DEF Stop, Accepted
<1>4. CASE SetTemperature
  <2>1. inflight'.job = "Write" /\ inflight'.state = state /\ UNCHANGED <<phase, state, session, stopping>>
    BY <1>4 DEF SetTemperature, Send, InFlight, Request, params
  <2>2. enrolled /\ UNCHANGED enrolled /\ phase \in {"Running", "ReadyOff"}
    BY <1>4 DEF SetTemperature, Accepted
  <2> QED BY <2>1, <2>2 DEF Enrolling
<1>5. CASE AcknowledgeLatch
  BY <1>5, StillEnrolling DEF AcknowledgeLatch, params, SameFrame
<1> QED BY <1>1, <1>2, <1>3, <1>4, <1>5 DEF Command

\* Time leaves a session a session.
LEMMA SessionsRunOn ==
  ASSUME TypeOK, session' = [session EXCEPT !.ran = Plus1(session.ran, session.limit)]
  PROVE  /\ session' = NoSession <=> session = NoSession
         /\ session'.limit = session.limit /\ session'.ran \in Nat /\ session.ran \in Nat
<1>1. PICK ran \in 0..SESSION_CAP, limit \in 0..SESSION_CAP : session = [ran |-> ran, limit |-> limit]
  BY DEF TypeOK
<1>2. session' = [ran |-> Plus1(ran, limit), limit |-> limit]
  BY <1>1
<1>3. Plus1(ran, limit) \in Nat /\ (Plus1(ran, limit) = 0 /\ limit = 0 <=> ran = 0 /\ limit = 0)
  BY SteamMachineAssumption DEF Plus1
<1>4. \A a, b : [ran |-> a, limit |-> b] = [ran |-> 0, limit |-> 0] <=> a = 0 /\ b = 0
  <2>1. \A a, b : [ran |-> a, limit |-> b].ran = a /\ [ran |-> a, limit |-> b].limit = b
    OBVIOUS
  <2> QED BY <2>1
<1>5. /\ session = NoSession <=> ran = 0 /\ limit = 0
      /\ session' = NoSession <=> Plus1(ran, limit) = 0 /\ limit = 0
  BY <1>1, <1>2, <1>4, Zenon DEF NoSession
<1> QED BY <1>1, <1>2, <1>3, <1>4, <1>5, SteamMachineAssumption

LEMMA EnrollingIsKept == TypeOK /\ Control /\ Enrolling /\ [Next]_vars => Enrolling'
<1> SUFFICES ASSUME TypeOK, Control, Enrolling, [Next]_vars PROVE Enrolling'
  OBVIOUS
<1>1. CASE PortLost \/ ServiceFailure
  BY <1>1, LatchEnrols DEF PortLost, LosePort, ServiceFailure
<1>2. CASE PumpClosed \/ GeneratorBreaks
  BY <1>2, StillEnrolling DEF PumpClosed, GeneratorBreaks, params, SameFrame
<1>3. CASE Elapse
  BY <1>3, SeenAgain, StillEnrolling, SessionsRunOn DEF Elapse, params
<1>4. CASE UNCHANGED vars
  BY <1>4, StillEnrolling DEF vars, params, SameFrame
<1> QED BY <1>1, <1>2, <1>3, <1>4, TicksEnrol, TimeoutsEnrol, RepliesEnrol, CommandsEnrol DEF Next

-----------------------------------------------------------------------------
(* A wire that tells the truth: what is on its way, what the adapter holds  *)
(* and what the generator does.                                             *)

Noise(w) == \A i \in 1..Len(w) : w[i] = Garbled

\* Whatever on the wire reports the generator off is still true.
Telling(w, g) ==
  \A i \in 1..Len(w) : HasStatus(w[i]) /\ ~Producing(w[i].state) => ~Producing(g)

\* A write is outstanding that nothing on the wire will answer.
Silent == ~WRITE_ACK /\ inflight.job = "Write" /\ Noise(wire)

\* A write is outstanding and its window still open, with an answer on the wire.
Fresh ==
  /\ inflight.job = "Write" /\ inflight.sent = 0 /\ ~inflight.retry
  /\ wire # <<>> /\ pacing > 0

Heard ==
  /\ phase \in {"Cold", "Discovery"} => portOpen
  /\ wire # <<>> => device # "none"
  /\ portOpen /\ (enrolled \/ inflight.job = "AssignAddress") => addressed /\ device # "none"
  /\ phase \in {"Cold", "Discovery"} => Telling(wire, gen)

Steaming ==
  /\ portOpen /\ state = "On" => phase = "Running" /\ session # NoSession /\ (stopping => Silent)
  /\ portOpen /\ phase = "ReadyOff" /\ stopping => Fresh \/ Silent
  /\ portOpen /\ inflight.job = "Write" /\ inflight.state = "Off" => ~Producing(gen)
  /\ enrolled /\ (~portOpen \/ phase \in {"ReadyOff", "StoppingBeforeLatch", "Unavailable"})
       => ~Producing(gen)

\* What is behind the first frame is as noisy and as truthful as the whole.
LEMMA RestOfTheWire ==
  ASSUME NEW q \in Seq(SteamFrames), q # <<>>
  PROVE  /\ Noise(q) => Noise(Tail(q)) /\ Head(q) = Garbled
         /\ \A g : Telling(q, g) =>
              /\ Telling(Tail(q), g)
              /\ HasStatus(Head(q)) /\ ~Producing(Head(q).state) => ~Producing(g)
<1>1. /\ Len(Tail(q)) = Len(q) - 1 /\ Len(q) \in Nat \ {0} /\ Head(q) = q[1]
      /\ \A i \in 1..Len(Tail(q)) : Tail(q)[i] = q[i + 1] /\ i + 1 \in 1..Len(q)
  OBVIOUS
<1> QED BY <1>1 DEF Noise, Telling

\* One more frame.
LEMMA OneMoreFrame ==
  ASSUME NEW q \in Seq(SteamFrames), NEW f \in SteamFrames
  PROVE  /\ Noise(q) /\ f = Garbled => Noise(q \o <<f>>)
         /\ \A g : Telling(q, g) /\ (HasStatus(f) /\ ~Producing(f.state) => ~Producing(g))
                     => Telling(q \o <<f>>, g)
         /\ q \o <<f>> # <<>>
<1>1. /\ Len(q \o <<f>>) = Len(q) + 1 /\ Len(q) \in Nat
      /\ \A i \in 1..(Len(q) + 1) : (q \o <<f>>)[i] = IF i <= Len(q) THEN q[i] ELSE f
  OBVIOUS
<1>2. \A i \in 1..(Len(q) + 1) : i \in 1..Len(q) \/ (~(i <= Len(q)))
  BY <1>1
<1>3. q \o <<f>> # <<>>
  BY <1>1
<1> QED BY <1>1, <1>2, <1>3 DEF Noise, Telling

\* What a truthful wire makes of a request: at most one frame is heard of it,
\* and what is heard is the answer or noise.
LEMMA OneAnswer ==
  ASSUME TypeOK, TruthfulWire, NEW r \in RequestFields, NEW q \in Seq(SteamFrames), Deliver(r, q)
  PROVE  /\ Act(TRUE, r)
         /\ \/ q # <<>> /\ wire' = q
            \/ wire' = q \o Answer(r)
            \/ device # "none" /\ wire' = q \o <<Garbled>>
<1>1. Len(Answer(r)) \in {0, 1}
  BY DEF Answer
<1>2. PICK o \in Outcomes(r) :
        /\ Act(o.acts, r)
        /\ wire' = IF Len(q \o o.heard) <= WIRE_CAP THEN q \o o.heard ELSE q
  BY DEF Deliver
<1>3. \/ o = [acts |-> TRUE, heard |-> Answer(r)]
      \/ o \in [acts : {TRUE}, heard : {<<Garbled>>}] /\ device # "none"
  <2>1. "lost" \notin trouble /\ "stray" \notin trouble /\ "nak" \notin trouble /\ "error" \notin trouble
    BY DEF TruthfulWire
  <2>2. [acts : {FALSE},
         heard : {<<Bare(c)>> : c \in (IF "nak" \in trouble THEN {"DEV_NAK"} ELSE {})
                                 \cup (IF "error" \in trouble THEN {"ERROR"} ELSE {})}] = {}
    BY <2>1
  <2> QED BY <2>1, <2>2 DEF Outcomes
<1>4. /\ o.acts = TRUE
      /\ o.heard = Answer(r) \/ (o.heard = <<Garbled>> /\ device # "none")
  <2>1. CASE o = [acts |-> TRUE, heard |-> Answer(r)]
    BY <2>1
  <2>2. CASE o \in [acts : {TRUE}, heard : {<<Garbled>>}] /\ device # "none"
    BY <2>2
  <2> QED BY <1>3, <2>1, <2>2
<1>5. q = <<>> => Len(q \o o.heard) <= WIRE_CAP
  <2>1. Answer(r) \in Seq(SteamFrames) /\ <<Garbled>> \in Seq(SteamFrames)
    BY AnswersAreFrames, FramesByKind DEF TypeOK
  <2>2. Len(o.heard) \in {0, 1} /\ o.heard \in Seq(SteamFrames)
    BY <1>1, <1>4, <2>1
  <2>3. Len(<<>> \o o.heard) = Len(o.heard)
    BY <2>2
  <2>4. 0 <= WIRE_CAP /\ 1 <= WIRE_CAP
    <3>1. WIRE_CAP \in Nat \ {0}
      BY SteamAdapterAssumption
    <3> QED BY <3>1
  <2> QED BY <2>2, <2>3, <2>4
<1> QED BY <1>2, <1>4, <1>5

\* What a request put on a truthful wire leaves behind, in the terms of the
\* invariant.
LEMMA Carried ==
  ASSUME TypeOK, TruthfulWire, NEW r \in RequestFields, NEW q \in Seq(SteamFrames),
         q # <<>> => device # "none", Transmit(r, q)
  PROVE  /\ UNCHANGED <<device, trouble>>
         /\ wire' # <<>> => device # "none"
         /\ addressed => addressed'
         /\ portOpen /\ r.op = "AssignAddress" /\ device # "none" => addressed'
         /\ gen' = gen \/ (portOpen /\ IsWrite(r.op) /\ gen' = r.state)
         /\ portOpen /\ addressed /\ device # "none" /\ IsWrite(r.op) =>
              gen' = r.state /\ (WRITE_ACK => wire' # <<>>)
         /\ ~WRITE_ACK /\ IsWrite(r.op) /\ addressed /\ Noise(q) => Noise(wire')
         /\ Telling(q, gen) /\ (IsWrite(r.op) => r.state = "Off") => Telling(wire', gen')
<1> DEFINE Goal ==
      /\ UNCHANGED <<device, trouble>>
      /\ wire' # <<>> => device # "none"
      /\ addressed => addressed'
      /\ portOpen /\ r.op = "AssignAddress" /\ device # "none" => addressed'
      /\ gen' = gen \/ (portOpen /\ IsWrite(r.op) /\ gen' = r.state)
      /\ portOpen /\ addressed /\ device # "none" /\ IsWrite(r.op) =>
           gen' = r.state /\ (WRITE_ACK => wire' # <<>>)
      /\ ~WRITE_ACK /\ IsWrite(r.op) /\ addressed /\ Noise(q) => Noise(wire')
      /\ Telling(q, gen) /\ (IsWrite(r.op) => r.state = "Off") => Telling(wire', gen')
<1>1. CASE ~portOpen
  BY <1>1 DEF Transmit, Hush, generator
<1>2. CASE portOpen
  <2>1. /\ Act(TRUE, r)
        /\ \/ q # <<>> /\ wire' = q
           \/ wire' = q \o Answer(r)
           \/ device # "none" /\ wire' = q \o <<Garbled>>
    BY <1>2, OneAnswer DEF Transmit
  <2>2. UNCHANGED <<device, trouble>>
    BY <1>2 DEF Transmit, Deliver
  <2>3. /\ addressed => addressed'
        /\ r.op = "AssignAddress" /\ device # "none" => addressed'
        /\ gen' = gen \/ (IsWrite(r.op) /\ gen' = r.state)
        /\ addressed /\ device # "none" /\ IsWrite(r.op) => gen' = r.state
        /\ ~IsWrite(r.op) => gen' = gen
    BY <2>1 DEF Act, TypeOK, AdapterTypeOK
  <2>4. ASSUME Telling(q, gen), IsWrite(r.op) => r.state = "Off" PROVE Telling(q, gen')
    BY <2>3, <2>4 DEF Telling, Producing
  <2>5. CASE q # <<>> /\ wire' = q
    BY <1>2, <2>2, <2>3, <2>4, <2>5
  <2>6. CASE device # "none" /\ wire' = q \o <<Garbled>>
    <3>1. Garbled \in SteamFrames /\ ~HasStatus(Garbled)
      BY FramesByKind DEF HasStatus, Garbled, Bare, SteamFrame, StatusCarriers
    <3> QED BY <1>2, <2>2, <2>3, <2>4, <2>6, <3>1, OneMoreFrame
  <2>7. CASE wire' = q \o Answer(r)
    <3>1. CASE Answer(r) = <<>>
      <4>1. wire' = q
        BY <2>7, <3>1
      <4>2. addressed /\ device # "none" /\ IsWrite(r.op) => ~WRITE_ACK
        BY <3>1 DEF Answer, Opcode, IsWrite, IsDiscovery
      <4> QED BY <1>2, <2>2, <2>3, <2>4, <4>1, <4>2
    <3>2. CASE Answer(r) # <<>>
      <4>1. device # "none"
        BY <3>2 DEF Answer
      <4>2. ~(IsWrite(r.op) /\ addressed /\ ~WRITE_ACK)
        BY <3>2, <4>1 DEF Answer, Opcode, IsWrite, IsDiscovery
      <4>3. PICK f : Answer(r) = <<f>> /\ (HasStatus(f) => f.state = gen /\ ~IsWrite(r.op))
        <5>1. \A c, d : ~HasStatus(SteamFrame(c, d, "none", FALSE))
          BY DEF HasStatus, SteamFrame
        <5>2. ~HasStatus(Bare("DEV_ACK"))
          BY <5>1 DEF Bare
        <5>3. SteamFrame(CARRIER, "none", gen, broken).state = gen
          BY DEF SteamFrame
        <5>4. Opcode(r.op) = "GET_DEV_STATUS" => ~IsWrite(r.op)
          BY DEF Opcode, IsWrite
        <5>5. \/ Answer(r) = <<SteamFrame("DEV_REQUEST_ADDR", device, "none", FALSE)>>
              \/ Answer(r) = <<Bare("DEV_ACK")>>
              \/ Answer(r) = <<SteamFrame(CARRIER, "none", gen, broken)>>
                   /\ Opcode(r.op) = "GET_DEV_STATUS"
          BY <3>2 DEF Answer
        <5> QED BY <5>1, <5>2, <5>3, <5>4, <5>5
      <4>4. f \in SteamFrames
        <5>1. <<f>> \in Seq(SteamFrames)
          BY <4>3, AnswersAreFrames DEF TypeOK
        <5>2. <<f>>[1] = f /\ Len(<<f>>) = 1
          OBVIOUS
        <5> QED BY <5>1, <5>2
      <4>5. wire' = q \o <<f>>
        BY <2>7, <4>3
      <4>6. ASSUME Telling(q, gen), IsWrite(r.op) => r.state = "Off" PROVE Telling(wire', gen')
        <5>1. HasStatus(f) /\ ~Producing(f.state) => ~Producing(gen')
          BY <2>3, <4>3
        <5> QED BY <2>4, <4>4, <4>5, <4>6, <5>1, OneMoreFrame
      <4>7. wire' # <<>>
        BY <4>4, <4>5, OneMoreFrame
      <4> QED BY <1>2, <2>2, <2>3, <4>1, <4>2, <4>6, <4>7
    <3> QED BY <3>1, <3>2
  <2> QED BY <2>1, <2>5, <2>6, <2>7
<1> QED BY <1>1, <1>2

\* The trouble of a wire is settled once and for all.
LEMMA TroubleStays == [Next]_vars => UNCHANGED <<device, trouble>>
<1> SUFFICES ASSUME [Next]_vars PROVE UNCHANGED <<device, trouble>>
  OBVIOUS
<1>1. ASSUME NEW r, NEW q, Transmit(r, q) PROVE UNCHANGED <<device, trouble>>
  BY <1>1 DEF Transmit, Deliver, Hush
<1>2. ASSUME NEW job, NEW r, NEW q, Send(job, r, q) PROVE UNCHANGED <<device, trouble>>
  BY <1>1, <1>2 DEF Send
<1>3. ASSUME NEW q, Hush(q) PROVE UNCHANGED <<device, trouble>>
  BY <1>3 DEF Hush
<1>4. ASSUME NEW q, Degrade(q) \/ StopSession(q) \/ LosePort(q) \/ CloseAndLatch(q)
      PROVE  UNCHANGED <<device, trouble>>
  BY <1>2, <1>3, <1>4 DEF Degrade, StopSession, LosePort, CloseAndLatch
<1>5. Tick => UNCHANGED <<device, trouble>>
  BY <1>1, <1>2, <1>3, <1>4
     DEF Tick, ExpireSession, Retry, Occupied, Broadcast, Poll, ResendStop, FreshTick
<1>6. ResponseTimeout => UNCHANGED <<device, trouble>>
  BY <1>3, <1>4 DEF ResponseTimeout, StopUnanswered, AwaitRetry, DiscoveryUnanswered, GiveUp
<1>7. Receive => UNCHANGED <<device, trouble>>
  BY <1>2, <1>3, <1>4
     DEF Receive, Undecodable, DiscardStale, Unsolicited, Nakked, AddressRequested,
         AddressAssigned, AdapterRefused, FirstStatus, PollAnswered, StatusCondemns,
         WriteAcknowledged, StopAcknowledged
<1>8. Command => UNCHANGED <<device, trouble>>
  BY <1>2, <1>4 DEF Command, Start, Stop, SetTemperature, SetDuration, AcknowledgeLatch, adapterVars
<1>9. PortLost \/ PumpClosed \/ ServiceFailure \/ GeneratorBreaks \/ Elapse
        => UNCHANGED <<device, trouble>>
  BY <1>3, <1>4 DEF PortLost, PumpClosed, ServiceFailure, GeneratorBreaks, Break, Elapse, AdapterAges
<1> QED BY <1>5, <1>6, <1>7, <1>8, <1>9 DEF Next, vars, adapterVars

\* Everything the preservation of the invariant starts from.
Truth == TypeOK /\ Control /\ Enrolling /\ TruthfulWire /\ Heard /\ Steaming

\* The replies a step may leave on the wire: as they were, or less the first.
LEMMA TheWire ==
  ASSUME Truth
  PROVE  /\ wire \in Seq(SteamFrames)
         /\ wire # <<>> =>
              /\ Rest \in Seq(SteamFrames) /\ Frame \in SteamFrames
              /\ device # "none"
              /\ Noise(wire) => Frame = Garbled
              /\ Telling(wire, gen) => Telling(Rest, gen)
              /\ Telling(wire, gen) /\ HasStatus(Frame) /\ ~Producing(Frame.state) => ~Producing(gen)
BY RestOfTheWire, WhatIsLeftOfTheWire DEF Truth, TypeOK, AdapterTypeOK, Heard, Rest, Frame

\* An enrolled link whose port is open reaches its adapter.
LEMMA Reached ==
  ASSUME Truth, enrolled, portOpen
  PROVE  addressed /\ device # "none"
BY DEF Truth, Heard

LEMMA DegradeStaysTrue ==
  ASSUME Truth, NEW q \in Seq(SteamFrames), q # <<>> => device # "none", Degrade(q)
  PROVE  Heard' /\ Steaming'
<1>1. phase' = "StoppingBeforeLatch" /\ UNCHANGED <<enrolled, portOpen>>
      /\ inflight'.job \in {"none", "StopBeforeLatch"}
  BY DEF Degrade, Send, InFlight, StopFrame, Request, NoTransaction
<1>2. portOpen => state' = "Off"
  <2>1. portOpen /\ phase = "StoppingBeforeLatch" => state # "On"
    BY DEF Truth, Steaming
  <2> QED BY <2>1 DEF Degrade, Truth, TypeOK, OpStates
<1>3. /\ wire' # <<>> => device' # "none"
      /\ UNCHANGED device /\ (addressed => addressed')
      /\ enrolled => ~Producing(gen')
  <2>1. CASE phase = "StoppingBeforeLatch"
    <3>1. Hush(q)
      BY <2>1 DEF Degrade
    <3> QED BY <2>1, <3>1 DEF Hush, generator, Truth, Steaming
  <2>2. CASE phase # "StoppingBeforeLatch"
    <3>1. Transmit(StopFrame, q) /\ StopFrame \in RequestFields
      BY <2>2, RequestsAreTyped DEF Degrade, Send, Truth, TypeOK
    <3>2. StopFrame.state = "Off" /\ IsWrite(StopFrame.op)
      BY DEF StopFrame, Request, IsWrite
    <3>3. UNCHANGED device /\ (wire' # <<>> => device # "none") /\ (addressed => addressed')
      BY <3>1, Carried DEF Truth
    <3>4. portOpen /\ enrolled => gen' = "Off"
      BY <3>1, <3>2, Carried, Reached DEF Truth
    <3>5. ~portOpen => gen' = gen
      BY <3>1 DEF Transmit, Hush, generator
    <3>6. enrolled /\ ~portOpen => ~Producing(gen)
      BY DEF Truth, Steaming
    <3> QED BY <3>3, <3>4, <3>5, <3>6 DEF Producing
  <2> QED BY <2>1, <2>2
<1>4. portOpen /\ enrolled => addressed /\ device # "none"
  BY Reached
<1> QED BY <1>1, <1>2, <1>3, <1>4 DEF Heard, Steaming

\* The port is closed with the generator off.
LEMMA CloseStaysTrue ==
  ASSUME Truth, NEW reason, LatchNow(reason), portOpen' = FALSE, UNCHANGED enrolled,
         NEW q \in Seq(SteamFrames), q # <<>> => device # "none",
         \E read \in 0..Len(q) : Hush(SubSeq(q, 1, read)),
         enrolled => ~Producing(gen)
  PROVE  Heard' /\ Steaming'
<1>1. PICK read \in 0..Len(q) : Hush(SubSeq(q, 1, read))
  OBVIOUS
<1>2. q = <<>> => SubSeq(q, 1, read) = <<>>
  OBVIOUS
<1>3. UNCHANGED <<gen, device>> /\ (wire' # <<>> => device # "none") /\ phase' = "Unavailable"
  BY <1>1, <1>2 DEF Hush, generator, LatchNow
<1> QED BY <1>3 DEF Heard, Steaming

\* The stop of a session or of an operator.
LEMMA StopStaysTrue ==
  ASSUME Truth, enrolled, StopSession(wire), UNCHANGED <<phase, enrolled, portOpen>>,
         phase = "ReadyOff" => pacing' \in Nat \ {0}
  PROVE  Heard' /\ Steaming'
<1>1. Transmit(StopFrame, wire) /\ StopFrame \in RequestFields
  BY RequestsAreTyped DEF StopSession, Send, Truth, TypeOK
<1>2. StopFrame.state = "Off" /\ IsWrite(StopFrame.op)
  BY DEF StopFrame, Request, IsWrite
<1>3. /\ inflight'.job = "Write" /\ inflight'.sent = 0 /\ inflight'.retry = FALSE
      /\ state' = "Off" /\ stopping' = TRUE
  BY DEF StopSession, Send, InFlight
<1>4. wire \in Seq(SteamFrames) /\ (wire # <<>> => device # "none")
  BY TheWire
<1>5. /\ UNCHANGED device /\ (wire' # <<>> => device # "none") /\ (addressed => addressed')
      /\ portOpen => gen' = "Off" /\ (WRITE_ACK => wire' # <<>>)
      /\ Telling(wire, gen) => Telling(wire', gen')
  BY <1>1, <1>2, <1>4, Carried, Reached DEF Truth
<1>6. enrolled => ~Producing(gen')
  <2>1. ~portOpen => gen' = gen
    BY <1>1 DEF Transmit, Hush, generator
  <2>2. ~portOpen => ~Producing(gen)
    BY DEF Truth, Steaming
  <2> QED BY <1>5, <2>1, <2>2 DEF Producing
<1>7. portOpen /\ phase = "ReadyOff" => Fresh' \/ Silent'
  <2>1. wire' = <<>> => Noise(wire')
    BY DEF Noise
  <2> QED BY <1>3, <1>5, <2>1 DEF Fresh, Silent
<1>8. Heard'
  <2>1. phase \in {"Cold", "Discovery"} => portOpen /\ Telling(wire, gen)
    BY DEF Truth, Heard
  <2>2. portOpen => addressed /\ device # "none"
    BY Reached
  <2> QED BY <1>3, <1>5, <2>1, <2>2 DEF Heard
<1>9. Steaming'
  BY <1>3, <1>6, <1>7 DEF Steaming
<1> QED BY <1>8, <1>9

\* A step that sends nothing, forgets nothing it waits for and leaves what is
\* left of the wire.
LEMMA QuietStaysTrue ==
  ASSUME Truth, SameFrame, UNCHANGED <<phase, enrolled, state, stopping, portOpen>>,
         session' = NoSession <=> session = NoSession,
         UNCHANGED <<device, addressed>>, gen' \in {gen, "Off"},
         Noise(wire) => Noise(wire'), wire' # <<>> => wire # <<>>,
         Telling(wire, gen) => Telling(wire', gen'),
         Fresh => Fresh'
  PROVE  Heard' /\ Steaming'
<1>1. ~Producing(gen) => ~Producing(gen')
  BY DEF Producing
<1>2. Silent => Silent'
  BY DEF Silent, SameFrame
<1>3. Heard'
  BY DEF Truth, Heard, SameFrame
<1>4. Steaming'
  BY <1>1, <1>2 DEF Truth, Steaming, SameFrame
<1> QED BY <1>3, <1>4

LEMMA TicksStayTrue == Truth /\ Tick => Heard' /\ Steaming'
<1> SUFFICES ASSUME Truth, Tick PROVE Heard' /\ Steaming'
  OBVIOUS
<1>0. /\ wire \in Seq(SteamFrames) /\ (wire # <<>> => device # "none") /\ TypeOK /\ TruthfulWire
      /\ state \in OpStates
  BY TheWire DEF Truth, TypeOK
<1>1. CASE ExpireSession
  <2>1. session # NoSession /\ StopSession(wire) /\ UNCHANGED <<phase, enrolled, portOpen>>
    BY <1>1 DEF ExpireSession, SessionExpired, Steady
  <2>2. enrolled /\ phase # "ReadyOff"
    BY <2>1 DEF Truth, Enrolling
  <2> QED BY <2>1, <2>2, StopStaysTrue
<1>2. CASE Retry
  <2> DEFINE r == Request(inflight.op, inflight.state, inflight.minutes)
  <2>1. r \in RequestFields /\ r.op = inflight.op /\ r.state = inflight.state /\ r.state \in OpStates
    <3>1. inflight \in Transactions
      BY <1>2, <1>0, OutstandingIsATransaction, TypesAreTwo DEF Retry
    <3> QED BY <3>1 DEF Transactions, RequestFields, Request
  <2>2. Transmit(r, wire) /\ SameFrame
    BY <1>2, <1>0, SeenAgain DEF Retry
  <2>3. UNCHANGED <<phase, enrolled, state, stopping, session, portOpen>> /\ inflight.retry
    BY <1>2 DEF Retry, Steady, params
  <2> HIDE DEF r
  <2>4. /\ UNCHANGED device /\ (wire' # <<>> => device # "none") /\ (addressed => addressed')
        /\ gen' = gen \/ (portOpen /\ gen' = r.state)
        /\ portOpen /\ addressed /\ device # "none" /\ IsWrite(r.op) => gen' = r.state
        /\ ~WRITE_ACK /\ IsWrite(r.op) /\ addressed /\ Noise(wire) => Noise(wire')
        /\ Telling(wire, gen) /\ (IsWrite(r.op) => r.state = "Off") => Telling(wire', gen')
    BY <1>0, <2>1, <2>2, Carried
  <2>5. inflight.job = "Write" => IsWrite(r.op) /\ enrolled
    BY <2>1 DEF Truth, Control, JobFits, Enrolling
  <2>6. portOpen /\ phase # "Running" => r.state = "Off"
    BY <2>1 DEF Truth, Enrolling, Steaming, OpStates
  <2>7. Heard'
    <3>1. phase \in {"Cold", "Discovery"} => Telling(wire', gen')
      BY <2>4, <2>6 DEF Truth, Heard
    <3> QED BY <2>2, <2>3, <2>4, <3>1 DEF Truth, Heard, SameFrame
  <2>8. portOpen /\ Silent => Silent'
    BY <2>1, <2>2, <2>4, <2>5, Reached DEF Silent, SameFrame
  <2>9. portOpen /\ inflight.job = "Write" /\ inflight.state = "Off" => gen' = "Off"
    BY <2>1, <2>4, <2>5, Reached
  <2>10. ~Producing("Off")
    BY DEF Producing
  <2>11. ~Fresh
    BY <2>3 DEF Fresh
  <2>12. Steaming'
    BY <2>2, <2>3, <2>4, <2>6, <2>8, <2>9, <2>10, <2>11 DEF Truth, Steaming, SameFrame
  <2> QED BY <2>7, <2>12
<1>3. CASE Occupied
  BY <1>3, QuietStaysTrue
     DEF Occupied, TickTaken, Steady, params, SameFrame, Hush, generator, Fresh
<1>4. CASE Broadcast
  <2>1. Transmit(Plain("AddressOpportunity"), wire) /\ Plain("AddressOpportunity") \in RequestFields
    BY <1>4, RequestsAreTyped DEF Broadcast, FreshTick, Send, SteamOps
  <2>2. ~IsWrite(Plain("AddressOpportunity").op)
    BY DEF IsWrite, Plain, Request
  <2>3. phase' = "Discovery" /\ phase \in {"Cold", "Discovery"} /\ UNCHANGED <<enrolled, state, portOpen>>
        /\ inflight'.job = "AddressOpportunity"
    BY <1>4 DEF Broadcast, FreshTick, params, Send, InFlight
  <2>4. UNCHANGED device /\ (wire' # <<>> => device # "none") /\ (addressed => addressed')
        /\ (Telling(wire, gen) => Telling(wire', gen'))
    BY <1>0, <2>1, <2>2, Carried
  <2>5. portOpen /\ Telling(wire, gen) /\ state # "On" /\ (enrolled => addressed /\ device # "none")
    BY <2>3 DEF Truth, Heard, Steaming
  <2> QED BY <2>3, <2>4, <2>5 DEF Heard, Steaming
<1>5. CASE Poll
  <2>1. Transmit(Plain("ReadStatus"), wire) /\ Plain("ReadStatus") \in RequestFields
    BY <1>5, RequestsAreTyped DEF Poll, FreshTick, Send, SteamOps
  <2>2. ~IsWrite(Plain("ReadStatus").op)
    BY DEF IsWrite, Plain, Request
  <2>3. phase \in {"ReadyOff", "Running"} /\ UNCHANGED <<phase, enrolled, state, stopping, session, portOpen>>
        /\ inflight'.job = "Poll" /\ inflight.job # "Write"
    BY <1>5 DEF Poll, FreshTick, params, Send, InFlight, Outstanding
  <2>4. UNCHANGED <<device, gen>> /\ (wire' # <<>> => device # "none") /\ (addressed => addressed')
    BY <1>0, <2>1, <2>2, Carried
  <2>5. ~Silent /\ ~Fresh
    BY <2>3 DEF Silent, Fresh
  <2> QED BY <2>3, <2>4, <2>5 DEF Truth, Heard, Steaming
<1>6. CASE ResendStop
  <2>1. Transmit(StopFrame, wire) /\ StopFrame \in RequestFields
    BY <1>6, <1>0, RequestsAreTyped DEF ResendStop, FreshTick, Send, TypeOK
  <2>2. StopFrame.state = "Off"
    BY DEF StopFrame, Request
  <2>3. phase = "StoppingBeforeLatch" /\ UNCHANGED <<phase, enrolled, state, portOpen>>
        /\ inflight'.job = "StopBeforeLatch"
    BY <1>6 DEF ResendStop, FreshTick, params, Send, InFlight
  <2>4. UNCHANGED device /\ (wire' # <<>> => device # "none") /\ (addressed => addressed')
        /\ gen' \in {gen, "Off"}
    BY <1>0, <2>1, <2>2, Carried
  <2>5. enrolled => ~Producing(gen')
    BY <2>3, <2>4 DEF Truth, Steaming, Producing
  <2> QED BY <2>3, <2>4, <2>5 DEF Truth, Heard, Steaming
<1> QED BY <1>1, <1>2, <1>3, <1>4, <1>5, <1>6 DEF Truth, Tick

LEMMA TimeoutsStayTrue == Truth /\ ResponseTimeout => Heard' /\ Steaming'
<1> SUFFICES ASSUME Truth, ResponseTimeout PROVE Heard' /\ Steaming'
  OBVIOUS
<1>0. /\ wire \in Seq(SteamFrames) /\ (wire # <<>> => device # "none") /\ TypeOK
  BY TheWire DEF Truth
<1>1. CASE StopUnanswered
  <2>1. phase = "StoppingBeforeLatch"
    BY <1>1 DEF StopUnanswered, Truth, Control, JobFits
  <2>2. CASE CloseAndLatch(wire)
    BY <1>0, <2>1, <2>2, CloseStaysTrue DEF CloseAndLatch, Truth, Steaming
  <2>3. CASE inflight' = NoTransaction /\ Hush(wire) /\ Steady
             /\ UNCHANGED <<enrolled, params, stale, session, stopping>>
    BY <2>1, <2>3 DEF Hush, Steady, params, generator, NoTransaction, Truth, Heard, Steaming
  <2> QED BY <1>1, <2>2, <2>3 DEF StopUnanswered
<1>2. CASE AwaitRetry
  <2>1. ~Fresh
    <3>1. inflight.sent >= Wait(inflight.job)
      BY <1>2 DEF AwaitRetry, TimeoutTaken, TimedOut
    <3>2. Wait("Write") = REPLY
      BY DEF Wait
    <3> QED BY <3>1, <3>2, SteamMachineAssumption DEF Fresh
  <2> QED BY <1>0, <1>2, <2>1, SeenAgain, QuietStaysTrue DEF AwaitRetry, Steady, params, Hush, generator
<1>3. CASE DiscoveryUnanswered
  <2>1. ~enrolled
    BY <1>3 DEF DiscoveryUnanswered, Truth, Enrolling
  <2> QED BY <1>0, <1>3, <2>1, CloseStaysTrue DEF DiscoveryUnanswered, LosePort
<1>4. CASE GiveUp
  BY <1>0, <1>4, DegradeStaysTrue DEF GiveUp
<1> QED BY <1>1, <1>2, <1>3, <1>4 DEF ResponseTimeout

LEMMA RepliesStayTrue == Truth /\ Receive => Heard' /\ Steaming'
<1> SUFFICES ASSUME Truth, Receive PROVE Heard' /\ Steaming'
  OBVIOUS
<1>0. wire # <<>>
  BY DEF Receive, Undecodable, DiscardStale, Unsolicited, Nakked, AddressRequested,
         AddressAssigned, AdapterRefused, FirstStatus, PollAnswered, StatusCondemns,
         WriteAcknowledged, StopAcknowledged, Answers, FrameTaken
<1>t. /\ Rest \in Seq(SteamFrames) /\ device # "none" /\ TypeOK /\ TruthfulWire
      /\ Noise(wire) => Frame = Garbled
      /\ Telling(wire, gen) => Telling(Rest, gen)
      /\ Telling(wire, gen) /\ HasStatus(Frame) /\ ~Producing(Frame.state) => ~Producing(gen)
  BY <1>0, TheWire DEF Truth
<1>d. phase \in {"Cold", "Discovery"} => portOpen /\ Telling(wire, gen) /\ state # "On"
  BY DEF Truth, Heard, Steaming
<1>1. CASE Degrade(Rest)
  BY <1>1, <1>t, DegradeStaysTrue
<1>2. CASE DiscardStale
  <2>1. inflight.job = "none" /\ UNCHANGED <<phase, enrolled, state, stopping, session, portOpen, inflight>>
    BY <1>2 DEF DiscardStale, Outstanding, Steady, params
  <2>2. UNCHANGED <<device, addressed, gen>> /\ wire' = Rest
    BY <1>2 DEF DiscardStale, Hush, generator
  <2>3. ~Silent /\ ~Fresh
    BY <2>1 DEF Silent, Fresh
  <2> QED BY <1>t, <2>1, <2>2, <2>3 DEF Truth, Heard, Steaming
<1>3. CASE AddressRequested
  <2>1. Transmit(Plain("AssignAddress"), Rest) /\ Plain("AssignAddress") \in RequestFields
    BY <1>3, RequestsAreTyped DEF AddressRequested, Send, SteamOps
  <2>2. ~IsWrite(Plain("AssignAddress").op) /\ Plain("AssignAddress").op = "AssignAddress"
    BY DEF IsWrite, Plain, Request
  <2>3. UNCHANGED <<phase, enrolled, state, portOpen>> /\ phase = "Discovery"
        /\ inflight'.job = "AssignAddress"
    BY <1>3 DEF AddressRequested, Steady, params, Send, InFlight, Answers, Truth, Control, JobFits
  <2>4. UNCHANGED device /\ (portOpen => addressed') /\ (Telling(Rest, gen) => Telling(wire', gen'))
    BY <1>t, <2>1, <2>2, Carried
  <2> QED BY <1>t, <1>d, <2>3, <2>4 DEF Heard, Steaming
<1>4. CASE AddressAssigned
  <2>1. Transmit(Plain("ReadStatus"), Rest) /\ Plain("ReadStatus") \in RequestFields
    BY <1>4, RequestsAreTyped DEF AddressAssigned, Send, SteamOps
  <2>2. ~IsWrite(Plain("ReadStatus").op)
    BY DEF IsWrite, Plain, Request
  <2>3. UNCHANGED <<phase, state, portOpen>> /\ phase = "Discovery"
        /\ inflight'.job = "FirstStatus" /\ inflight.job = "AssignAddress"
    BY <1>4 DEF AddressAssigned, Steady, params, Send, InFlight, Answers, Truth, Control, JobFits
  <2>4. UNCHANGED device /\ (addressed => addressed') /\ (Telling(Rest, gen) => Telling(wire', gen'))
    BY <1>t, <2>1, <2>2, Carried
  <2>5. portOpen => addressed
    BY <2>3 DEF Truth, Heard
  <2> QED BY <1>t, <1>d, <2>3, <2>4, <2>5 DEF Heard, Steaming
<1>5. CASE AdapterRefused
  <2>1. ~enrolled /\ LosePort(Rest)
    BY <1>5 DEF AdapterRefused, Answers, Truth, Enrolling
  <2> QED BY <1>t, <2>1, CloseStaysTrue DEF LosePort
<1>6. CASE FirstStatus
  <2>1. phase = "Discovery" /\ enrolled /\ ~stopping /\ UNCHANGED <<enrolled, portOpen>>
    BY <1>6 DEF FirstStatus, Answers, Truth, Control, JobFits, Enrolling
  <2>2. addressed
    BY <1>d, <2>1, Reached
  <2>3. CASE state' = "Off" /\ Send("Write", StopFrame, Rest) /\ UNCHANGED phase
    <3>1. Transmit(StopFrame, Rest) /\ StopFrame \in RequestFields
      BY <2>3, RequestsAreTyped DEF Send, Truth, TypeOK
    <3>2. StopFrame.state = "Off" /\ IsWrite(StopFrame.op)
      BY DEF StopFrame, Request, IsWrite
    <3>3. UNCHANGED device /\ addressed' /\ gen' = "Off" /\ Telling(wire', gen')
      BY <1>t, <1>d, <2>1, <2>2, <3>1, <3>2, Carried
    <3>4. inflight'.job = "Write"
      BY <2>3 DEF Send, InFlight
    <3>5. ~Producing("Off")
      BY DEF Producing
    <3> QED BY <1>t, <1>d, <2>1, <2>3, <3>3, <3>4, <3>5 DEF Heard, Steaming
  <2>4. CASE /\ ~Producing(Frame.state) /\ Ready /\ inflight' = NoTransaction /\ Hush(Rest)
             /\ UNCHANGED <<state, stopping>>
    <3>1. ~Producing(gen)
      BY <1>6, <1>t, <1>d, <2>1, <2>4 DEF FirstStatus
    <3>2. UNCHANGED <<device, addressed, gen>> /\ phase' = "ReadyOff" /\ inflight'.job = "none"
      BY <2>4 DEF Hush, generator, Ready, NoTransaction
    <3> QED BY <1>t, <1>d, <2>1, <2>2, <2>4, <3>1, <3>2 DEF Heard, Steaming
  <2> QED BY <1>6, <2>3, <2>4 DEF FirstStatus
<1>7. CASE PollAnswered
  <2>1. inflight.job = "Poll" /\ phase \in {"ReadyOff", "Running"} /\ inflight'.job = "none"
        /\ UNCHANGED <<phase, enrolled, state, stopping, session, portOpen>>
    BY <1>7 DEF PollAnswered, Answers, Steady, params, NoTransaction, Truth, Control, JobFits
  <2>2. UNCHANGED <<device, addressed, gen>>
    BY <1>7 DEF PollAnswered, Hush, generator
  <2>3. ~Silent /\ ~Fresh
    BY <2>1 DEF Silent, Fresh
  <2> QED BY <1>t, <2>1, <2>2, <2>3 DEF Truth, Heard, Steaming
<1>8. CASE WriteAcknowledged
  <2>1. /\ inflight.job = "Write" /\ inflight'.job = "none" /\ Frame # Garbled /\ stopping' = FALSE
        /\ UNCHANGED <<enrolled, state, portOpen>>
    BY <1>8 DEF WriteAcknowledged, Answers, NoTransaction, params
  <2>2. UNCHANGED <<device, addressed, gen>> /\ wire' = Rest
    BY <1>8 DEF WriteAcknowledged, Hush, generator
  <2>3. ~Silent
    BY <1>t, <2>1 DEF Silent
  <2>4. CASE stopping
    <3>1. phase' = "ReadyOff"
      BY <1>8, <2>4 DEF WriteAcknowledged, Ready
    <3>2. portOpen => state # "On"
      BY <2>3, <2>4 DEF Truth, Steaming
    <3>3. inflight.state \in OpStates
      <4>1. inflight \in Transactions
        BY <2>1, <1>t, OutstandingIsATransaction, TypesAreTwo DEF Outstanding
      <4> QED BY <4>1 DEF Transactions
    <3>4. portOpen => inflight.state = "Off"
      BY <3>2, <3>3 DEF Truth, Enrolling, OpStates
    <3>5. portOpen => ~Producing(gen)
      BY <2>1, <3>4 DEF Truth, Steaming
    <3>6. enrolled => ~Producing(gen)
      BY <3>5 DEF Truth, Steaming
    <3> QED BY <1>t, <2>1, <2>2, <3>1, <3>2, <3>6 DEF Truth, Heard, Steaming
  <2>5. CASE ~stopping
    <3>1. UNCHANGED <<phase, session>>
      BY <1>8, <2>5 DEF WriteAcknowledged
    <3> QED BY <1>t, <2>1, <2>2, <2>5, <3>1 DEF Truth, Heard, Steaming
  <2> QED BY <2>4, <2>5
<1>9. CASE StopAcknowledged
  <2>1. phase = "StoppingBeforeLatch" /\ CloseAndLatch(Rest)
    BY <1>9 DEF StopAcknowledged, Answers, Truth, Control, JobFits
  <2>2. enrolled => ~Producing(gen)
    BY <2>1 DEF Truth, Steaming
  <2> QED BY <1>t, <2>1, <2>2, CloseStaysTrue DEF CloseAndLatch
<1> QED BY <1>1, <1>2, <1>3, <1>4, <1>5, <1>6, <1>7, <1>8, <1>9
        DEF Receive, Undecodable, Unsolicited, Nakked, StatusCondemns

\* A write that an operator asked for, with the state it carries, once the
\* window of the one before has passed.
LEMMA WriteStaysTrue ==
  ASSUME Truth, NEW r \in RequestFields, IsWrite(r.op), enrolled, pacing = 0,
         Send("Write", r, wire), UNCHANGED <<enrolled, portOpen, stopping>>,
         state' = r.state, r.state \in OpStates,
         \/ UNCHANGED <<phase, state, session>> /\ phase \in {"ReadyOff", "Running"}
         \/ phase = "ReadyOff" /\ phase' = "Running" /\ session' # NoSession
  PROVE  Heard' /\ Steaming'
<1>1. Transmit(r, wire) /\ inflight'.job = "Write" /\ inflight'.state = r.state
  BY DEF Send, InFlight
<1>2. wire \in Seq(SteamFrames) /\ (wire # <<>> => device # "none") /\ TypeOK /\ TruthfulWire
  BY TheWire DEF Truth
<1>3. /\ UNCHANGED device /\ (wire' # <<>> => device # "none") /\ (addressed => addressed')
      /\ portOpen => gen' = r.state
      /\ portOpen /\ ~WRITE_ACK /\ Noise(wire) => Noise(wire')
  BY <1>1, <1>2, Carried, Reached
<1>4. ~portOpen => gen' = gen
  BY <1>1 DEF Transmit, Hush, generator
<1>5. ~Producing("Off")
  BY DEF Producing
<1>6. ~Fresh
  BY DEF Fresh
<1>7. portOpen /\ Silent => Silent'
  BY <1>1, <1>3 DEF Silent
<1>8. portOpen => addressed /\ device # "none"
  BY Reached
<1>9. Heard'
  BY <1>1, <1>3, <1>8 DEF Heard
<1>10. portOpen /\ phase = "ReadyOff" => state = "Off"
  BY DEF Truth, TypeOK, OpStates, Steaming
<1>11. Steaming'
  <2>1. CASE phase = "ReadyOff" /\ phase' = "Running" /\ session' # NoSession
    BY <1>1, <1>3, <1>4, <1>5, <1>6, <1>7, <2>1 DEF Truth, Steaming, OpStates
  <2>2. CASE UNCHANGED <<phase, state, session>> /\ phase \in {"ReadyOff", "Running"}
    BY <1>1, <1>3, <1>4, <1>5, <1>6, <1>7, <1>10, <2>2 DEF Truth, Steaming, OpStates
  <2> QED BY <2>1, <2>2
<1> QED BY <1>9, <1>11

\* A session that begins has time in it.
LEMMA SessionsBegin ==
  ASSUME NEW requested \in MINUTES
  PROVE  Smaller(requested, SESSION_CAP) > 0
         /\ [ran |-> 0, limit |-> Smaller(requested, SESSION_CAP)] # NoSession
<1>1. requested \in Nat \ {0} /\ SESSION_CAP \in Nat \ {0}
  BY SteamAdapterAssumption, SteamMachineAssumption
<1>2. Smaller(requested, SESSION_CAP) > 0
  BY <1>1 DEF Smaller
<1>3. [ran |-> 0, limit |-> Smaller(requested, SESSION_CAP)].limit # NoSession.limit
  BY <1>2 DEF NoSession
<1> QED BY <1>2, <1>3

LEMMA CommandsStayTrue == Truth /\ Command => Heard' /\ Steaming'
<1> SUFFICES ASSUME Truth, Command PROVE Heard' /\ Steaming'
  OBVIOUS
<1>0. state \in OpStates /\ minutes \in MINUTES
  BY DEF Truth, TypeOK
<1>1. ASSUME NEW requested \in MINUTES, Start(requested) PROVE Heard' /\ Steaming'
  <2> DEFINE r == Request("Start", "On", requested)
  <2>1. r \in RequestFields /\ IsWrite(r.op) /\ r.state = "On" /\ "On" \in OpStates
    BY RequestsAreTyped DEF SteamOps, OpStates, IsWrite, Request
  <2>2. Send("Write", r, wire) /\ state' = "On" /\ UNCHANGED <<enrolled, portOpen, stopping>>
        /\ enrolled /\ pacing = 0 /\ phase = "ReadyOff" /\ phase' = "Running"
    BY <1>1 DEF Start, Accepted, Paced
  <2>3. session' # NoSession
    BY <1>1, SessionsBegin DEF Start
  <2> HIDE DEF r
  <2> QED BY <2>1, <2>2, <2>3, WriteStaysTrue
<1>2. ASSUME NEW requested \in MINUTES, SetDuration(requested) PROVE Heard' /\ Steaming'
  <2> DEFINE r == Request("SetDuration", state, requested)
  <2>1. r \in RequestFields /\ IsWrite(r.op) /\ r.state = state
    BY <1>0, RequestsAreTyped DEF SteamOps, IsWrite, Request
  <2>2. Send("Write", r, wire) /\ UNCHANGED <<phase, session, state, enrolled, portOpen, stopping>>
        /\ enrolled /\ pacing = 0 /\ phase \in {"ReadyOff", "Running"}
    BY <1>2 DEF SetDuration, Accepted, Paced
  <2> HIDE DEF r
  <2> QED BY <1>0, <2>1, <2>2, WriteStaysTrue
<1>3. CASE Stop
  <2>1. StopSession(wire) /\ enrolled /\ UNCHANGED <<phase, enrolled, portOpen>> /\ pacing' = REPLY
    BY <1>3 DEF Stop, Accepted
  <2> QED BY <2>1, StopStaysTrue, SteamMachineAssumption
<1>4. CASE SetTemperature
  <2> DEFINE r == Request("SetTemperature", state, minutes)
  <2>1. r \in RequestFields /\ IsWrite(r.op) /\ r.state = state
    BY <1>0, RequestsAreTyped DEF SteamOps, IsWrite, Request
  <2>2. Send("Write", r, wire) /\ UNCHANGED <<phase, session, state, enrolled, portOpen, stopping>>
        /\ enrolled /\ pacing = 0 /\ phase \in {"ReadyOff", "Running"}
    BY <1>4 DEF SetTemperature, Accepted, Paced, params
  <2> HIDE DEF r
  <2> QED BY <1>0, <2>1, <2>2, WriteStaysTrue
<1>5. CASE AcknowledgeLatch
  BY <1>5, QuietStaysTrue DEF AcknowledgeLatch, params, loopVars, adapterVars, SameFrame, Fresh
<1> QED BY <1>1, <1>2, <1>3, <1>4, <1>5 DEF Command

LEMMA EventsStayTrue ==
  Truth /\ (PortLost \/ PumpClosed \/ ServiceFailure \/ GeneratorBreaks \/ Elapse \/ UNCHANGED vars)
    => Heard' /\ Steaming'
<1> SUFFICES ASSUME Truth,
                    PortLost \/ PumpClosed \/ ServiceFailure \/ GeneratorBreaks \/ Elapse \/ UNCHANGED vars
             PROVE  Heard' /\ Steaming'
  OBVIOUS
<1>1. "port" \notin trouble /\ "service" \notin trouble /\ "late" \notin trouble
  BY DEF Truth, TruthfulWire
<1>2. CASE PumpClosed
  <2>1. ~portOpen /\ ~portOpen'
    BY <1>1, <1>2 DEF PumpClosed
  <2>2. PICK read \in 0..Len(wire) : Hush(SubSeq(wire, 1, read))
    BY <1>2 DEF PumpClosed
  <2>3. wire = <<>> => SubSeq(wire, 1, read) = <<>>
    OBVIOUS
  <2>4. UNCHANGED <<gen, device>> /\ (wire' # <<>> => wire # <<>>)
    BY <2>2, <2>3 DEF Hush, generator
  <2>5. UNCHANGED <<phase, enrolled, state, stopping, session, inflight>>
    BY <1>2 DEF PumpClosed, params
  <2> QED BY <2>1, <2>4, <2>5 DEF Truth, Heard, Steaming
<1>3. CASE GeneratorBreaks
  BY <1>3, QuietStaysTrue DEF GeneratorBreaks, Break, generator, params, loopVars, SameFrame, Fresh
<1>4. CASE Elapse
  <2>1. wire = <<>> /\ wire' = <<>>
    BY <1>1, <1>4 DEF Elapse, AdapterAges
  <2>2. SameFrame
    BY <1>4, SeenAgain DEF Truth
  <2>3. session' = NoSession <=> session = NoSession
    BY <1>4, SessionsRunOn DEF Elapse, Truth
  <2>4. gen' \in {gen, "Off"} /\ UNCHANGED <<device, addressed, phase, enrolled, state, stopping, portOpen>>
    BY <1>4 DEF Elapse, AdapterAges, params
  <2>5. ~Fresh
    BY <2>1 DEF Fresh
  <2>6. Telling(wire', gen')
    BY <2>1 DEF Telling
  <2> QED BY <2>1, <2>2, <2>3, <2>4, <2>5, <2>6, QuietStaysTrue
<1>5. CASE UNCHANGED vars
  BY <1>5, QuietStaysTrue DEF vars, params, loopVars, adapterVars, SameFrame, Fresh
<1> QED BY <1>1, <1>2, <1>3, <1>4, <1>5 DEF PortLost, ServiceFailure

\* The inductive invariant: what is true of every wire, and what is true of one
\* that loses nothing, delays nothing and answers nothing falsely.
Sound == TypeOK /\ Control /\ Enrolling /\ (TruthfulWire => Heard /\ Steaming)

LEMMA SoundAtFirst == Init => Sound
<1> SUFFICES ASSUME Init PROVE Sound
  OBVIOUS
<1>1. TypeOK
  BY InitIsTyped
<1>2. Control
  BY NothingFits DEF Init, Control, StoppingIsDegraded, KernelLatchedFirst, Unlatched, IsLatched
<1>3. Enrolling
  BY DEF Init, Enrolling, NoTransaction
<1>4. Telling(wire, gen)
  BY DEF Init, AdapterInit, Telling
<1>5. Heard /\ Steaming
  BY <1>4 DEF Init, AdapterInit, Heard, Steaming, NoTransaction
<1> QED BY <1>1, <1>2, <1>3, <1>5 DEF Sound

LEMMA SoundIsKept == Sound /\ TypeOK' /\ [Next]_vars => Sound'
<1> SUFFICES ASSUME Sound, TypeOK', [Next]_vars PROVE Sound'
  OBVIOUS
<1>1. Control' /\ Enrolling'
  BY ControlIsKept, EnrollingIsKept DEF Sound
<1>2. ASSUME TruthfulWire' PROVE Heard' /\ Steaming'
  <2>1. Truth
    BY <1>2, TroubleStays DEF Sound, Truth, TruthfulWire
  <2> QED BY <2>1, TicksStayTrue, TimeoutsStayTrue, RepliesStayTrue, CommandsStayTrue,
             EventsStayTrue DEF Next
<1> QED BY <1>1, <1>2 DEF Sound

LEMMA SoundAlways == Spec => []Sound
BY SteamTyping, SoundAtFirst, SoundIsKept, PTL DEF Spec

\* Wherever an enrolled link is shown as ready, is being stopped for good or has
\* been given up, its generator makes no steam, as long as its wire loses, delays
\* and falsifies nothing: the acknowledgement the machine waits for is that of
\* the stop it sent, whatever writes are acknowledged and whatever else is asked
\* meanwhile (steam.rs on_write_acknowledged, begin_stop_before_latch, on_first_status).
THEOREM SteamOffBeforeReady == Spec => []OffBeforeReadyOrLatched
<1>1. Sound => OffBeforeReadyOrLatched
  BY DEF Sound, Steaming, OffBeforeReadyOrLatched
<1> QED BY <1>1, SoundAlways, PTL

-----------------------------------------------------------------------------
(* Which steps turn the generator on.                                       *)

\* A request turns it on only where it says so; a stop, a refusal and silence
\* never do.
LEMMA TurnedOn ==
  ASSUME NEW r, NEW q, Transmit(r, q), gen' = "On", gen # "On"
  PROVE  IsWrite(r.op) /\ r.state = "On"
BY DEF Transmit, Deliver, Hush, generator, Act

LEMMA NeverTurnedOn ==
  ASSUME NEW q, Degrade(q) \/ StopSession(q) \/ LosePort(q) \/ CloseAndLatch(q) \/ Hush(q),
         gen' = "On"
  PROVE  gen = "On"
<1>1. StopFrame.state = "Off"
  BY DEF StopFrame, Request
<1> QED BY <1>1, TurnedOn DEF Degrade, StopSession, LosePort, CloseAndLatch, Send, Hush, generator

TimeLeft ==
  /\ phase' = "Running" /\ session' # NoSession
  /\ \/ session'.ran < session'.limit
     \/ inflight'.op \in {"SetTemperature", "SetDuration"}

LEMMA OnlyInSession ==
  ASSUME Sound, Next, TruthfulWire, gen' = "On", gen # "On"
  PROVE  TimeLeft
<1>0. Truth
  BY DEF Sound, Truth
<1>1. ASSUME NEW op, ~IsWrite(op), NEW q, NEW job, Send(job, Plain(op), q) PROVE FALSE
  <2>1. Transmit(Plain(op), q) /\ Plain(op).op = op
    BY <1>1 DEF Send, Plain, Request
  <2> QED BY <1>1, <2>1, TurnedOn
<1>2. ASSUME NEW q, NEW job, Send(job, StopFrame, q) PROVE FALSE
  <2>1. StopFrame.state = "Off"
    BY DEF StopFrame, Request
  <2> QED BY <1>2, <2>1, TurnedOn DEF Send
<1>3. ~IsWrite("ReadStatus") /\ ~IsWrite("AssignAddress") /\ ~IsWrite("AddressOpportunity")
  BY DEF IsWrite
<1>4. CASE Tick
  <2>1. Retry
    BY <1>1, <1>2, <1>3, <1>4, NeverTurnedOn
       DEF Tick, ExpireSession, Occupied, Broadcast, Poll, ResendStop, FreshTick
  <2> DEFINE r == Request(inflight.op, inflight.state, inflight.minutes)
  <2>2. r.state = inflight.state /\ Transmit(r, wire)
    BY <2>1 DEF Retry, Request
  <2> HIDE DEF r
  <2>3. inflight.state = "On" /\ portOpen
    BY <2>2, TurnedOn DEF Transmit, Hush, generator
  <2>4. state = "On"
    BY <1>0, <2>3 DEF Truth, Enrolling
  <2>5. phase = "Running" /\ session # NoSession
    BY <1>0, <2>3, <2>4 DEF Truth, Steaming
  <2>6. UNCHANGED <<phase, session>> /\ ~(session.ran >= session.limit)
    BY <2>1, <2>5 DEF Retry, Steady, SessionExpired
  <2>7. session.ran \in Nat /\ session.limit \in Nat
    BY <1>0, SteamMachineAssumption DEF Truth, TypeOK
  <2> QED BY <2>5, <2>6, <2>7 DEF TimeLeft
<1>5. ~ResponseTimeout
  BY NeverTurnedOn DEF ResponseTimeout, StopUnanswered, AwaitRetry, DiscoveryUnanswered, GiveUp
<1>6. ~Receive
  BY <1>1, <1>2, <1>3, NeverTurnedOn
     DEF Receive, Undecodable, DiscardStale, Unsolicited, Nakked, AddressRequested,
         AddressAssigned, AdapterRefused, FirstStatus, PollAnswered, StatusCondemns,
         WriteAcknowledged, StopAcknowledged
<1>7. CASE Command
  <2>1. ASSUME NEW requested \in MINUTES, Start(requested) PROVE TimeLeft
    <3>1. phase' = "Running" /\ session' = [ran |-> 0, limit |-> Smaller(requested, SESSION_CAP)]
      BY <2>1 DEF Start
    <3> QED BY <3>1, SessionsBegin DEF TimeLeft
  <2>2. ASSUME NEW requested \in MINUTES, SetDuration(requested) PROVE TimeLeft
    <3> DEFINE r == Request("SetDuration", state, requested)
    <3>1. r.state = state /\ Transmit(r, wire)
      BY <2>2 DEF SetDuration, Send, Request
    <3>2. inflight'.op = "SetDuration" /\ UNCHANGED <<phase, session>>
      BY <2>2 DEF SetDuration, Send, InFlight, Request
    <3> HIDE DEF r
    <3>3. state = "On" /\ portOpen
      BY <3>1, TurnedOn DEF Transmit, Hush, generator
    <3> QED BY <1>0, <3>2, <3>3 DEF Truth, Steaming, TimeLeft
  <2>3. CASE SetTemperature
    <3> DEFINE r == Request("SetTemperature", state, minutes)
    <3>1. r.state = state /\ Transmit(r, wire)
      BY <2>3 DEF SetTemperature, Send, Request
    <3>2. inflight'.op = "SetTemperature" /\ UNCHANGED <<phase, session>>
      BY <2>3 DEF SetTemperature, Send, InFlight, Request
    <3> HIDE DEF r
    <3>3. state = "On" /\ portOpen
      BY <3>1, TurnedOn DEF Transmit, Hush, generator
    <3> QED BY <1>0, <3>2, <3>3 DEF Truth, Steaming, TimeLeft
  <2> QED BY <1>7, <2>1, <2>2, <2>3, NeverTurnedOn DEF Command, Stop, AcknowledgeLatch, adapterVars
<1>8. ~(PortLost \/ PumpClosed \/ ServiceFailure \/ GeneratorBreaks \/ Elapse)
  BY NeverTurnedOn DEF PortLost, PumpClosed, ServiceFailure, GeneratorBreaks, Break, generator,
                       Elapse, AdapterAges
<1> QED BY <1>4, <1>5, <1>6, <1>7, <1>8 DEF Next

\* On a truthful wire steam is turned on only under a running machine with time
\* left in its session, or by a setpoint or a duration that was taken ahead of the
\* tick that ends it (steam.rs on_tick, on_command, encode's parameter block).
THEOREM SteamTurnsOnInSession == Spec => SteamOnlyInSession
<1>1. Sound /\ [Next]_vars =>
        [TruthfulWire /\ gen' = "On" /\ gen # "On" =>
           /\ phase' = "Running" /\ session' # NoSession
           /\ \/ session'.ran < session'.limit
              \/ inflight'.op \in {"SetTemperature", "SetDuration"}]_vars
  BY OnlyInSession DEF TimeLeft
<1> QED BY <1>1, SoundAlways, PTL DEF Spec, SteamOnlyInSession

=============================================================================
