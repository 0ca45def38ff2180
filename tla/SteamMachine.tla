---------------------------- MODULE SteamMachine ----------------------------
(***************************************************************************)
(* The steam link: kdtv-engine's SteamMachine with the part of the safety  *)
(* kernel that rules on its link, driven by the control loop of the        *)
(* supervisor, over the wire of SteamAdapter.                              *)
(*                                                                         *)
(* An action is one event taken off the loop together with everything      *)
(* drive_steam does with it: the machine's step, the kernel's ruling, the  *)
(* transmission, then the effects.  Instants are kept as ages and          *)
(* countdowns, as in ZoneMachine.                                          *)
(***************************************************************************)
EXTENDS Integers, Sequences, KernelRules, SteamAdapter

CONSTANTS
  TICK, REPLY, ENQUIRY,  \* DtvTimings: tick, reply, address_enquiry_timeout
  RETRIES,               \* DtvTimings::retries
  SESSION_CAP,           \* the session cap
  STALE_MAX,             \* where the u8 count of stale replies stops
  DEFAULT_MINUTES,       \* the duration the link starts life believing in
  COMMANDS               \* the operator commands that may arrive

ASSUME SteamMachineAssumption ==
  /\ TICK \in Nat \ {0} /\ REPLY \in Nat \ {0} /\ ENQUIRY \in Nat \ {0}
  /\ RETRIES \in Nat \ {0} /\ SESSION_CAP \in Nat \ {0} /\ STALE_MAX \in Nat
  /\ DEFAULT_MINUTES \in MINUTES
  /\ COMMANDS \subseteq {"Start", "Stop", "SetTemperature", "SetDuration", "Acknowledge"}

VARIABLES
  \* SteamMachine
  phase, latch, attempts, enrolled, state, minutes, inflight, stale, session,
  stopping,
  \* the SafetyKernel's LinkState for this link
  kernel,
  \* the supervisor's SteamRuntime and its clock
  tickIn, pacing, portOpen, pumpUp, served

params == <<state, minutes>>
loopVars == <<tickIn, pacing, served, pumpUp>>
vars == <<phase, latch, attempts, enrolled, params, inflight, stale, session,
          stopping, kernel, loopVars, portOpen, adapterVars>>

-----------------------------------------------------------------------------

\* RetryBudget::from_dtv.
ATTEMPTS == RETRIES + 1
CEILING == TICK * ATTEMPTS

\* SteamSettings::stop_attempts.
STOP_ATTEMPTS == RETRIES

Smaller(a, b) == IF a <= b THEN a ELSE b
Less1(n) == IF n > 0 THEN n - 1 ELSE 0
Plus1(n, cap) == IF n < cap THEN n + 1 ELSE n

Phases ==
  {"Cold", "Discovery", "ReadyOff", "Running", "StoppingBeforeLatch", "Unavailable"}

\* SteamPhase::link_phase, the phase the encoder judges a frame by.
LinkPhase(p) ==
  CASE p = "Cold"                                     -> "Booting"
    [] p \in {"StoppingBeforeLatch", "Unavailable"}   -> "Faulted"
    [] OTHER                                          -> p

Jobs ==
  {"AddressOpportunity", "AssignAddress", "FirstStatus", "Poll", "Write",
   "StopBeforeLatch"}

\* An outstanding transaction, with what its frame said: a retry sends the
\* same frame again.
InFlight(job, r) ==
  [job |-> job, op |-> r.op, state |-> r.state, minutes |-> r.minutes,
   sent |-> 0, total |-> 0, attempts |-> 1, retry |-> FALSE]

NoTransaction ==
  [job |-> "none", op |-> "none", state |-> "Off", minutes |-> 0,
   sent |-> 0, total |-> 0, attempts |-> 0, retry |-> FALSE]

Outstanding == inflight.job # "none"

NoLatch == [reason |-> "none", ack |-> FALSE]
NoSession == [ran |-> 0, limit |-> 0]

\* Frames that carry no parameter block.
Plain(op) == Request(op, "Off", 0)

-----------------------------------------------------------------------------
(* Deadlines: next_deadline, steam_wait and SessionDeadline.                *)

SessionExpired == session # NoSession /\ session.ran >= session.limit

\* The address enquiry has a deadline of its own.
Wait(job) == IF job = "AddressOpportunity" THEN ENQUIRY ELSE REPLY

TimedOut ==
  /\ phase # "Unavailable"
  /\ Outstanding /\ ~inflight.retry
  /\ inflight.sent >= Wait(inflight.job)

Due == phase # "Unavailable" /\ (tickIn = 0 \/ TimedOut \/ SessionExpired)

-----------------------------------------------------------------------------
(* Building blocks.  q is the reply queue the step leaves behind.           *)

Init ==
  /\ phase = "Cold" /\ latch = NoLatch /\ kernel = Unlatched("Cold")
  /\ attempts = 0 /\ enrolled = FALSE
  /\ state = "Off" /\ minutes = DEFAULT_MINUTES
  /\ inflight = NoTransaction /\ stale = 0
  /\ session = NoSession /\ stopping = FALSE
  /\ tickIn = 0 /\ pacing = 0 /\ portOpen = TRUE /\ pumpUp = TRUE
  /\ served = FALSE
  /\ AdapterInit

\* PortHandle::transmit drops the frame when the port is closed.
Transmit(r, q) == IF portOpen THEN Deliver(r, q) ELSE Hush(q)

Send(job, r, q) == inflight' = InFlight(job, r) /\ Transmit(r, q)

\* abandon(): one late reply is now expected.
Abandon == stale' = IF Outstanding THEN Plus1(stale, STALE_MAX) ELSE stale

\* A step that leaves the machine in its phase and the kernel undisturbed.
Steady == UNCHANGED <<phase, latch, attempts, kernel, portOpen>>

StopFrame == Request("Stop", "Off", minutes)

\* stop_session(): command the generator off and wait for the acknowledgement.
StopSession(q) ==
  /\ Abandon
  /\ state' = "Off" /\ stopping' = TRUE
  /\ Send("Write", StopFrame, q)
  /\ UNCHANGED minutes

\* latch(), without the transmission of a stop.
LatchNow(reason) ==
  /\ inflight' = NoTransaction /\ stale' = 0
  /\ session' = NoSession /\ stopping' = FALSE
  /\ state' = "Off" /\ attempts' = 0
  /\ phase' = "Unavailable" /\ latch' = [reason |-> reason, ack |-> FALSE]
  /\ UNCHANGED minutes

\* Mutation: the kernel hears of it when the stop has been answered.
Degrade_TellsTheKernelLater(q) ==
  /\ UNCHANGED <<kernel, enrolled, latch, session, minutes, portOpen>>
  /\ IF phase = "StoppingBeforeLatch"
     THEN /\ inflight' = NoTransaction
          /\ UNCHANGED <<phase, attempts, state, stale, stopping>>
          /\ Hush(q)
     ELSE /\ phase' = "StoppingBeforeLatch" /\ attempts' = 1
          /\ state' = "Off" /\ stale' = 0 /\ stopping' = FALSE
          /\ Send("StopBeforeLatch", StopFrame, q)

\* Mutation: a degraded link is latched without being told to stop.
Degrade_LatchesAtOnce(q) ==
  /\ kernel' = Ruled(kernel, "SteamLinkDegraded")
  /\ UNCHANGED <<enrolled, minutes>>
  /\ LatchNow("SteamLinkDegraded")
  /\ portOpen' = FALSE
  /\ Hush(q)

\* escalate(SteamLinkDegraded) and begin_stop_before_latch: the kernel latches
\* the link at once; the machine puts a stop on the wire first and latches
\* when it is answered.  The callers have let the transaction go.
Degrade(q) ==
  /\ kernel' = Ruled(kernel, "SteamLinkDegraded")
  /\ UNCHANGED <<enrolled, latch, session, minutes, portOpen>>
  /\ IF phase = "StoppingBeforeLatch"
     THEN /\ inflight' = NoTransaction
          /\ UNCHANGED <<phase, attempts, state, stale, stopping>>
          /\ Hush(q)
     ELSE /\ phase' = "StoppingBeforeLatch" /\ attempts' = 1
          /\ state' = "Off" /\ stale' = 0 /\ stopping' = FALSE
          /\ Send("StopBeforeLatch", StopFrame, q)

\* escalate(PortLost): latched directly, and the port is closed.  Of the
\* replies still coming, only those the pump has already read will be seen.
LosePort(q) ==
  /\ kernel' = Ruled(kernel, "PortLost")
  /\ LatchNow("PortLost")
  /\ portOpen' = FALSE
  /\ \E read \in 0..Len(q) : Hush(SubSeq(q, 1, read))
  /\ UNCHANGED enrolled

\* The end of the stop-then-latch sequence: only now does the port close.
CloseAndLatch(q) ==
  /\ LatchNow("SteamLinkDegraded")
  /\ portOpen' = FALSE
  /\ \E read \in 0..Len(q) : Hush(SubSeq(q, 1, read))
  /\ UNCHANGED <<enrolled, kernel>>

\* The link is ready again, or for the first time.
Ready ==
  /\ phase' = "ReadyOff" /\ attempts' = 0
  /\ kernel' = MarkReady(kernel)

-----------------------------------------------------------------------------
(* on_tick.                                                                 *)

TickTaken ==
  /\ Due /\ ~TimedOut
  /\ tickIn' = TICK /\ served' = TRUE
  /\ UNCHANGED <<pacing, pumpUp>>

\* The session is looked at before anything else is done.
ExpireSession ==
  /\ TickTaken /\ SessionExpired
  /\ StopSession(wire)
  /\ Steady
  /\ UNCHANGED <<enrolled, session>>

Retry ==
  /\ TickTaken /\ ~SessionExpired
  /\ Outstanding /\ inflight.retry
  /\ inflight' = [inflight EXCEPT !.retry = FALSE, !.sent = 0,
                                  !.attempts = Plus1(inflight.attempts, ATTEMPTS)]
  /\ Transmit(Request(inflight.op, inflight.state, inflight.minutes), wire)
  /\ Steady
  /\ UNCHANGED <<enrolled, params, stale, session, stopping>>

\* A tick that finds the wire occupied transmits nothing.
Occupied ==
  /\ TickTaken /\ ~SessionExpired
  /\ Outstanding /\ ~inflight.retry
  /\ Hush(wire)
  /\ Steady
  /\ UNCHANGED <<enrolled, params, inflight, stale, session, stopping>>

\* What a tick sends when nothing is outstanding.
FreshTick(job, r) ==
  /\ TickTaken /\ ~SessionExpired /\ ~Outstanding
  /\ Send(job, r, wire)
  /\ UNCHANGED <<latch, kernel, portOpen, enrolled, params, stale, session, stopping>>

Broadcast ==
  /\ phase \in {"Cold", "Discovery"}
  /\ phase' = "Discovery"
  /\ FreshTick("AddressOpportunity", Plain("AddressOpportunity"))
  /\ UNCHANGED attempts

Poll ==
  /\ phase \in {"ReadyOff", "Running"}
  /\ FreshTick("Poll", Plain("ReadStatus"))
  /\ UNCHANGED <<phase, attempts>>

\* send_stop_before_latch.  The count is a u8; it is only ever compared with
\* STOP_ATTEMPTS and stops there.
ResendStop ==
  /\ phase = "StoppingBeforeLatch"
  /\ attempts' = Plus1(attempts, STOP_ATTEMPTS)
  /\ FreshTick("StopBeforeLatch", StopFrame)
  /\ UNCHANGED phase

Tick == ExpireSession \/ Retry \/ Occupied \/ Broadcast \/ Poll \/ ResendStop

-----------------------------------------------------------------------------
(* on_timeout.                                                              *)

TimeoutTaken ==
  /\ TimedOut
  /\ served' = FALSE
  /\ UNCHANGED <<tickIn, pacing, pumpUp>>

\* Mutation: the stop is sent until it is answered.
StopUnanswered_NeverGivesUp ==
  /\ TimeoutTaken
  /\ inflight.job = "StopBeforeLatch"
  /\ inflight' = NoTransaction
  /\ Hush(wire) /\ Steady
  /\ UNCHANGED <<enrolled, params, stale, session, stopping>>

\* retry_stop_or_latch: given up once it has been sent STOP_ATTEMPTS times,
\* and otherwise sent again by the next tick.
StopUnanswered ==
  /\ TimeoutTaken
  /\ inflight.job = "StopBeforeLatch"
  /\ \/ /\ attempts >= STOP_ATTEMPTS
        /\ CloseAndLatch(wire)
     \/ /\ attempts < STOP_ATTEMPTS
        /\ inflight' = NoTransaction
        /\ Hush(wire) /\ Steady
        /\ UNCHANGED <<enrolled, params, stale, session, stopping>>

BudgetSpent == inflight.total >= CEILING \/ inflight.attempts >= ATTEMPTS

\* Mutation: discovery asks for as long as nobody answers.
AwaitRetry_Forever ==
  /\ TimeoutTaken
  /\ inflight.job # "StopBeforeLatch"
  /\ inflight' = [inflight EXCEPT !.retry = TRUE]
  /\ Hush(wire) /\ Steady
  /\ UNCHANGED <<enrolled, params, stale, session, stopping>>

AwaitRetry ==
  /\ TimeoutTaken
  /\ inflight.job # "StopBeforeLatch" /\ ~BudgetSpent
  /\ inflight' = [inflight EXCEPT !.retry = TRUE]
  /\ Hush(wire) /\ Steady
  /\ UNCHANGED <<enrolled, params, stale, session, stopping>>

\* refuse_adapter: nothing on this port is the steam adapter.
DiscoveryUnanswered ==
  /\ TimeoutTaken
  /\ inflight.job \in {"AddressOpportunity", "AssignAddress"} /\ BudgetSpent
  /\ LosePort(wire)

GiveUp ==
  /\ TimeoutTaken
  /\ inflight.job \in {"FirstStatus", "Poll", "Write"} /\ BudgetSpent
  /\ Degrade(wire)

ResponseTimeout == StopUnanswered \/ AwaitRetry \/ DiscoveryUnanswered \/ GiveUp

-----------------------------------------------------------------------------
(* feed_steam_bytes: one frame off the wire, then on_response or            *)
(* on_decode_failed.  A frame is matched with whatever is outstanding: the  *)
(* link carries no correlation, and neither does this.                      *)

Frame == Head(wire)
Rest == Tail(wire)

FrameTaken ==
  /\ wire # <<>>
  /\ served' = FALSE
  /\ UNCHANGED <<tickIn, pacing, pumpUp>>

\* Bytes that do not decode degrade the link whatever it was doing.
Undecodable ==
  /\ FrameTaken
  /\ Frame = Garbled
  /\ Degrade(Rest)

\* The late reply of an abandoned transaction, with nothing outstanding.
DiscardStale ==
  /\ FrameTaken
  /\ Frame # Garbled /\ ~Outstanding /\ stale > 0
  /\ stale' = stale - 1
  /\ Hush(Rest) /\ Steady
  /\ UNCHANGED <<enrolled, params, inflight, session, stopping>>

\* A frame this master cannot account for.
Unsolicited ==
  /\ FrameTaken
  /\ Frame # Garbled /\ ~Outstanding /\ stale = 0
  /\ Degrade(Rest)

\* A rejected command is not sent again.
Nakked ==
  /\ FrameTaken
  /\ Outstanding /\ Frame.cmd = "DEV_NAK"
  /\ Degrade(Rest)

Answers(job) ==
  /\ FrameTaken
  /\ Frame # Garbled /\ Frame.cmd # "DEV_NAK"
  /\ inflight.job = job

\* on_address_request.
AddressRequested ==
  /\ Answers("AddressOpportunity")
  /\ AsksForAddress(Frame) /\ Frame.device = "steam"
  /\ Send("AssignAddress", Plain("AssignAddress"), Rest)
  /\ Steady
  /\ UNCHANGED <<enrolled, params, stale, session, stopping>>

\* on_address_assigned.
AddressAssigned ==
  /\ Answers("AssignAddress")
  /\ Frame.cmd = "DEV_ACK"
  /\ enrolled' = TRUE
  /\ Send("FirstStatus", Plain("ReadStatus"), Rest)
  /\ Steady
  /\ UNCHANGED <<params, stale, session, stopping>>

\* Either of them goes wrong: something else is on this port.
AdapterRefused ==
  /\ \/ /\ Answers("AddressOpportunity")
        /\ ~(AsksForAddress(Frame) /\ Frame.device = "steam")
     \/ /\ Answers("AssignAddress")
        /\ Frame.cmd # "DEV_ACK"
  /\ LosePort(Rest)

\* on_first_status: a generator found producing is stopped before the link is
\* called ready.
FirstStatus ==
  /\ Answers("FirstStatus")
  /\ HasStatus(Frame) /\ ~Frame.fault
  /\ \/ /\ Producing(Frame.state)
        /\ state' = "Off" /\ stopping' = TRUE
        /\ Send("Write", StopFrame, Rest)
        /\ UNCHANGED <<phase, attempts, kernel>>
     \/ /\ ~Producing(Frame.state)
        /\ Ready
        /\ inflight' = NoTransaction
        /\ Hush(Rest)
        /\ UNCHANGED <<state, stopping>>
  /\ UNCHANGED <<enrolled, minutes, latch, portOpen, stale, session>>

PollAnswered ==
  /\ Answers("Poll")
  /\ HasStatus(Frame) /\ ~Frame.fault
  /\ inflight' = NoTransaction
  /\ Hush(Rest) /\ Steady
  /\ UNCHANGED <<enrolled, params, stale, session, stopping>>

\* absorb_status: no status where one was asked for, or one with any error
\* bit set.  A write's answer need not carry one.
StatusCondemns ==
  /\ \/ /\ Answers("FirstStatus") \/ Answers("Poll")
        /\ ~HasStatus(Frame) \/ Frame.fault
     \/ /\ Answers("Write")
        /\ HasStatus(Frame) /\ Frame.fault
  /\ Degrade(Rest)

\* Mutation: the session outlives the stop.
WriteAcknowledged_KeepsTheSession ==
  /\ Answers("Write")
  /\ ~(HasStatus(Frame) /\ Frame.fault)
  /\ inflight' = NoTransaction
  /\ IF stopping THEN Ready ELSE UNCHANGED <<phase, attempts, kernel>>
  /\ stopping' = FALSE
  /\ Hush(Rest)
  /\ UNCHANGED <<enrolled, params, stale, latch, portOpen, session>>

\* on_write_acknowledged: any frame but a NAK acknowledges a write, and an
\* acknowledged stop ends the session.
WriteAcknowledged ==
  /\ Answers("Write")
  /\ ~(HasStatus(Frame) /\ Frame.fault)
  /\ inflight' = NoTransaction
  /\ IF stopping THEN Ready ELSE UNCHANGED <<phase, attempts, kernel>>
  /\ stopping' = FALSE
  /\ session' = IF stopping THEN NoSession ELSE session
  /\ Hush(Rest)
  /\ UNCHANGED <<enrolled, params, stale, latch, portOpen>>

\* on_stop_acknowledged: the stop went out and came back.
StopAcknowledged ==
  /\ Answers("StopBeforeLatch")
  /\ CloseAndLatch(Rest)

Receive ==
  \/ Undecodable \/ DiscardStale \/ Unsolicited \/ Nakked
  \/ AddressRequested \/ AddressAssigned \/ AdapterRefused
  \/ FirstStatus \/ PollAnswered \/ StatusCondemns
  \/ WriteAcknowledged \/ StopAcknowledged

-----------------------------------------------------------------------------
(* steam_command and acknowledge of the supervisor, on_command.             *)

\* refuse_steam_command: one commanded frame per reply window, except the
\* stop of a running generator.
Paced(command) ==
  /\ command \in COMMANDS
  /\ pacing = 0 \/ (command = "Stop" /\ phase = "Running")

\* refuse_command, and what every accepted command leaves behind.
Accepted(command, phases) ==
  /\ Paced(command)
  /\ phase \in phases /\ enrolled
  /\ pacing' = REPLY /\ served' = FALSE
  /\ UNCHANGED <<tickIn, pumpUp, latch, attempts, enrolled, kernel, portOpen>>

\* The kernel is not asked: a start of the steam needs no grant.  Whatever stop
\* is still unanswered is not forgotten.
Start(requested) ==
  /\ Accepted("Start", {"ReadyOff"})
  /\ Abandon
  /\ state' = "On" /\ minutes' = requested
  /\ session' = [ran |-> 0, limit |-> Smaller(requested, SESSION_CAP)]
  /\ phase' = "Running"
  /\ Send("Write", Request("Start", "On", requested), wire)
  /\ UNCHANGED stopping

\* Stopping is accepted wherever there is an address to send it to.
Stop ==
  /\ Accepted("Stop", Phases \ {"Unavailable"})
  /\ StopSession(wire)
  /\ UNCHANGED <<phase, session>>

\* Mutation: the new setpoint turns the generator on.
SetTemperature_TurnsOn ==
  /\ Accepted("SetTemperature", {"Running", "ReadyOff"})
  /\ Abandon
  /\ Send("Write", Request("SetTemperature", "On", minutes), wire)
  /\ UNCHANGED <<phase, params, session, stopping>>

\* Mutation: a setpoint is accepted as soon as there is an address.
SetTemperature_InDiscovery ==
  /\ Accepted("SetTemperature", {"Running", "ReadyOff", "Discovery"})
  /\ Abandon
  /\ Send("Write", Request("SetTemperature", state, minutes), wire)
  /\ UNCHANGED <<phase, params, session, stopping>>

\* The block is written whole: the state and the duration are carried forward.
SetTemperature ==
  /\ Accepted("SetTemperature", {"Running", "ReadyOff"})
  /\ Abandon
  /\ Send("Write", Request("SetTemperature", state, minutes), wire)
  /\ UNCHANGED <<phase, params, session, stopping>>

SetDuration(requested) ==
  /\ Accepted("SetDuration", {"Running", "ReadyOff"})
  /\ Abandon
  /\ minutes' = requested
  /\ Send("Write", Request("SetDuration", state, requested), wire)
  /\ UNCHANGED <<phase, state, session, stopping>>

\* acknowledge() and on_acknowledged: what the kernel notes, the machine notes
\* only once it is unavailable.
AcknowledgeLatch ==
  /\ "Acknowledge" \in COMMANDS
  /\ IsLatched(kernel)
  /\ kernel' = Acknowledge(kernel)
  /\ latch' = IF phase = "Unavailable" THEN [latch EXCEPT !.ack = TRUE] ELSE latch
  /\ UNCHANGED <<phase, attempts, enrolled, params, inflight, stale, session,
                 stopping, loopVars, portOpen, adapterVars>>

Command ==
  \/ \E requested \in MINUTES : Start(requested) \/ SetDuration(requested)
  \/ Stop \/ SetTemperature \/ AcknowledgeLatch

-----------------------------------------------------------------------------
(* Reports and events that are not about one frame.                         *)

\* LinkReport::Failed with a terminal error.
PortLost ==
  /\ "port" \in trouble /\ pumpUp
  /\ pumpUp' = FALSE /\ served' = FALSE
  /\ LosePort(wire)
  /\ UNCHANGED <<tickIn, pacing>>

\* LinkReport::Closed: after the port was closed from this side, or of a pump
\* that ended by itself without having reported the port lost.
PumpClosed ==
  /\ pumpUp /\ (~portOpen \/ "port" \in trouble)
  /\ pumpUp' = FALSE /\ portOpen' = FALSE
  /\ \E read \in 0..Len(wire) : Hush(SubSeq(wire, 1, read))
  /\ UNCHANGED <<phase, latch, attempts, enrolled, params, inflight, stale,
                 session, stopping, kernel, tickIn, pacing, served>>

\* escalate_shared(): the service has failed.  The link is latched with its
\* port open and nothing sent.
ServiceFailure ==
  /\ "service" \in trouble
  /\ served' = FALSE
  /\ kernel' = Ruled(kernel, "ServiceFailure")
  /\ LatchNow("ServiceFailure")
  /\ Hush(wire)
  /\ UNCHANGED <<enrolled, portOpen, tickIn, pacing, pumpUp>>

GeneratorBreaks ==
  /\ Break
  /\ UNCHANGED <<phase, latch, attempts, enrolled, params, inflight, stale,
                 session, stopping, kernel, loopVars, portOpen>>

-----------------------------------------------------------------------------
\* Time passes once every deadline has been served, and on a prompt wire once
\* every reply has been read.
Elapse ==
  /\ ~Due \/ served
  /\ wire = <<>> \/ "late" \in trouble
  /\ served' = FALSE
  /\ tickIn' = Less1(tickIn) /\ pacing' = Less1(pacing)
  /\ inflight' = IF Outstanding
                 THEN [inflight EXCEPT !.sent = Plus1(inflight.sent, Wait(inflight.job)),
                                       !.total = Plus1(inflight.total, CEILING)]
                 ELSE inflight
  /\ session' = [session EXCEPT !.ran = Plus1(session.ran, session.limit)]
  /\ AdapterAges
  /\ UNCHANGED <<phase, latch, attempts, enrolled, params, stale, stopping,
                 kernel, portOpen, pumpUp>>

Next ==
  \/ Tick \/ ResponseTimeout \/ Receive \/ Command
  \/ PortLost \/ PumpClosed \/ ServiceFailure \/ GeneratorBreaks \/ Elapse

Spec == Init /\ [][Next]_vars

\* The loop serves a deadline before it waits, and alternates with the reports,
\* which come before commands.  Nothing obliges the adapter to answer.
Fairness ==
  /\ WF_vars(Tick) /\ WF_vars(ResponseTimeout) /\ WF_vars(Receive)
  /\ SF_vars(Elapse)

FairSpec == Spec /\ Fairness

-----------------------------------------------------------------------------
(* Properties.                                                              *)

Transactions ==
  [job : Jobs, op : SteamOps, state : OpStates, minutes : MINUTES \cup {0},
   sent : 0..(IF REPLY > ENQUIRY THEN REPLY ELSE ENQUIRY), total : 0..CEILING,
   attempts : 1..ATTEMPTS, retry : BOOLEAN]

\* Every variable stays in its range.
TypeOK ==
  /\ phase \in Phases
  /\ latch \in [reason : Faults \cup {"none"}, ack : BOOLEAN]
  /\ attempts \in 0..STOP_ATTEMPTS
  /\ enrolled \in BOOLEAN /\ state \in OpStates /\ minutes \in MINUTES
  /\ inflight \in Transactions \cup {NoTransaction}
  /\ stale \in 0..STALE_MAX
  /\ session \in [ran : 0..SESSION_CAP, limit : 0..SESSION_CAP]
  /\ stopping \in BOOLEAN
  /\ kernel \in LinkStates
  /\ tickIn \in 0..TICK /\ pacing \in 0..REPLY
  /\ portOpen \in BOOLEAN /\ pumpUp \in BOOLEAN /\ served \in BOOLEAN
  /\ AdapterTypeOK

\* The kernel hears of a fault before the machine acts on it: a link that is
\* being stopped for good or has been given up is latched in the kernel, for the
\* reason the machine shows, and what the machine shows as acknowledged the kernel
\* was told of.  A link the kernel has not latched is cold for the one exactly
\* when it is in discovery for the other.
KernelLatchedFirst ==
  /\ phase \in {"StoppingBeforeLatch", "Unavailable"} => IsLatched(kernel)
  /\ phase = "Unavailable" => latch.reason = kernel.reason
  /\ phase = "Unavailable" /\ latch.ack => kernel.ack
  /\ ~IsLatched(kernel) =>
       (kernel.state = "Cold" <=> phase \in {"Cold", "Discovery"})

\* The encoder is never asked for a frame it would refuse: a refusal is a
\* shared fault that takes every valve down.
EncoderNeverRefuses ==
  Outstanding => SteamEncodable(inflight.op, LinkPhase(phase))

\* On a wire that loses nothing, delays nothing and answers nothing falsely, a
\* generator is off wherever its link is shown as ready, is being stopped for
\* good or has been given up (STEAM-18: the stop goes out and comes back first).
\* Before enrolment there is no address to send a stop to.
TruthfulWire == trouble \subseteq {"garbled"}

OffBeforeReadyOrLatched ==
  TruthfulWire /\ enrolled
    /\ phase \in {"ReadyOff", "StoppingBeforeLatch", "Unavailable"} => ~Producing(gen)

\* On such a wire steam is turned on only under a running machine with time left
\* in its session.  A setpoint or a duration that is taken as the session runs
\* out, ahead of the tick that ends it, still carries the state of the session:
\* where the generator's own timer ran out with it, that frame turns it on again
\* until the tick.
SteamOnlyInSession ==
  [][TruthfulWire /\ gen' = "On" /\ gen # "On" =>
       /\ phase' = "Running" /\ session' # NoSession
       /\ \/ session'.ran < session'.limit
          \/ inflight'.op \in {"SetTemperature", "SetDuration"}]_vars

\* A link the kernel has latched is down, or on its way down: its machine reaches
\* Unavailable when the stop is acknowledged or its budget is spent.  It is not so:
\* an ordinary stop, of an operator or of a session that runs out meanwhile, takes
\* the place of the one being waited for, and its acknowledgement makes the link
\* ready.
LatchedLinkStaysDown ==
  IsLatched(kernel) => phase \in {"StoppingBeforeLatch", "Unavailable"}

\* On a wire that only loses frames, a link that is being stopped for good is
\* given up.  Two things may keep it from that: its session runs out meanwhile,
\* after which each tick sends the ordinary stop again and starts its count of
\* failures afresh, or an operator stops it over and over.
StopIsGivenUp ==
  \/ []<><<Stop>>_vars
  \/ (phase = "StoppingBeforeLatch" /\ trouble \subseteq {"lost"})
       ~> (phase # "StoppingBeforeLatch" \/ SessionExpired)

\* Boot ends, whatever the wire does: the generator's link is ready and its
\* generator confirmed off, or it is being given up.  A generator found producing
\* is stopped first.  Only an operator who stops the link over and over keeps it
\* in discovery.
DiscoverySettles ==
  \/ []<><<Stop>>_vars
  \/ (phase = "Cold") ~> (phase \in {"ReadyOff", "StoppingBeforeLatch", "Unavailable"})

\* A session that has run out is ended, with the generator off, on a wire that
\* takes every request and does not answer with noise for ever.
ExpiredSessionStops ==
  \/ []<><<Undecodable>>_vars
  \/ (TruthfulWire /\ SessionExpired) ~> (session = NoSession /\ ~Producing(gen))

=============================================================================
