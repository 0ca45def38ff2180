----------------------------- MODULE ZoneMachine -----------------------------
(***************************************************************************)
(* One valve zone: kdtv-engine's ZoneMachine with the part of kdtv-safety's *)
(* kernel that rules on its link, driven by the control loop of            *)
(* kdtv-service's supervisor, over the bus of ValveBus.                    *)
(*                                                                         *)
(* An action is one event taken off the loop together with everything      *)
(* drive_zone does with it: the machine's step, the kernel's ruling, the   *)
(* transmission, then the effects.  Instants are kept as ages and          *)
(* countdowns; Elapse lets one unit pass, and never past a deadline the    *)
(* loop has not served.                                                    *)
(***************************************************************************)
EXTENDS Integers, Sequences, FiniteSets, KernelRules, ValveBus

CONSTANTS
  VALVE_ADDR_MIN, VALVE_ADDR_MAX,  \* the range discovery probes
  IDENTIFY, POLL,                  \* the boot reads and the poll rotation
  TICK, RESPONSE,                  \* Timings::tick, Timings::response
  ATTEMPTS,                        \* RetryBudget::attempts
  PURGE,                           \* length of a purge; 0 is Purge::Disabled
  SESSION_CAP, DURATIONS,          \* the cap, and what callers may ask for
  STALE_MAX,                       \* where the u8 count of stale replies stops
  COMMANDS,                        \* the operator commands that may arrive
  PORT_FAILS, SHARED_FAULTS        \* may the port go, may the service fail?

ASSUME ZoneMachineAssumption ==
  /\ VALVE_ADDR_MIN \in Nat /\ VALVE_ADDR_MAX \in Nat
  /\ VALVE_ADDR_MIN > 0 /\ VALVE_ADDR_MIN <= VALVE_ADDR_MAX
  /\ IDENTIFY \in Seq(Reads) /\ Len(IDENTIFY) > 0
  /\ POLL \in Seq({"ReadTemperature", "ReadFaults", "ReadOutlets"}) /\ Len(POLL) > 0
  /\ TICK \in Nat \ {0} /\ RESPONSE \in Nat \ {0} /\ STAGGER \in Nat \ {0}
  /\ ATTEMPTS \in Nat \ {0} /\ PURGE \in Nat
  /\ SESSION_CAP \in Nat \ {0} /\ DURATIONS \subseteq Nat \ {0}
  /\ STALE_MAX \in Nat
  /\ COMMANDS \subseteq
       {"Start", "Stop", "Pause", "Resume", "SetTemperature", "Acknowledge"}
  /\ PORT_FAILS \in BOOLEAN /\ SHARED_FAULTS \in BOOLEAN

VARIABLES
  \* ZoneMachine
  phase, latch, address, scanNext, found, identifyStep, pollStep,
  inflight, stale, stagger, session, grant, stopping, outlets, health,
  purgeLeft,
  \* the SafetyKernel's LinkState for this link
  kernel,
  \* the supervisor's ZoneRuntime and its clock
  tickIn, pacing, portOpen, pumpUp, served

scanVars == <<address, scanNext, found, identifyStep>>
sessionVars == <<session, stagger, grant, stopping>>
loopVars == <<tickIn, pacing, served, pumpUp>>
vars == <<phase, latch, scanVars, pollStep, inflight, stale, sessionVars,
          outlets, health, purgeLeft, kernel, tickIn, pacing, portOpen, pumpUp,
          served, busVars>>

-----------------------------------------------------------------------------

\* RetryBudget::from_saturn: one attempt per tick, for ATTEMPTS ticks.
CEILING == TICK * ATTEMPTS

Smaller(a, b) == IF a <= b THEN a ELSE b
Less1(n) == IF n > 0 THEN n - 1 ELSE 0
Plus1(n, cap) == IF n < cap THEN n + 1 ELSE n

Phases ==
  {"Cold", "Discovery", "Identify", "ConfirmOff", "ReadyOff", "Running",
   "Paused", "Purging", "Unavailable"}

Watering == phase \in {"Running", "Paused"}

\* ZonePhase::link_phase, the phase the encoder judges a frame by.
LinkPhase(p) ==
  CASE p \in {"Cold", "Identify", "ConfirmOff"} -> "Booting"
    [] p = "Discovery"                          -> "Discovery"
    [] p \in {"ReadyOff", "Purging"}            -> "ReadyOff"
    [] p = "Unavailable"                        -> "Faulted"
    [] OTHER                                    -> p

Jobs ==
  {"Probe", "Identify", "ConfirmOff", "Poll", "SetTemperature", "Open",
   "Pause", "Resume"}

\* An outstanding transaction.  count is the outlets an Open asks for, sent
\* and total the time since the last and the first transmission.
InFlight(job, op, count, target) ==
  [job |-> job, op |-> op, count |-> count, target |-> target,
   sent |-> 0, total |-> 0, attempts |-> 1, retry |-> FALSE]

NoTransaction ==
  [job |-> "none", op |-> "none", count |-> 0, target |-> 0,
   sent |-> 0, total |-> 0, attempts |-> 0, retry |-> FALSE]

Outstanding == inflight.job # "none"

NoAddress == 0
NoLatch == [reason |-> "none", ack |-> FALSE]
NoStagger == [next |-> 0, total |-> 0]
NoSession == [ran |-> 0, limit |-> 0]
NotPurging == 0

\* send() for everything but a probe.
OwnTarget == IF address = NoAddress THEN VALVE_ADDR_MIN ELSE address

-----------------------------------------------------------------------------
(* Deadlines: next_deadline, SessionDeadline and StaggerPlan.               *)

SessionExpired == session # NoSession /\ session.ran >= session.limit

\* Step i of the plan is due i + 1 spacings after the start.
StaggerDue ==
  stagger # NoStagger /\ session.ran >= (stagger.next + 1) * STAGGER

PurgeOver == phase = "Purging" /\ purgeLeft = 0

\* Mutation: an answer is overdue one unit too soon.
TimedOut_TooSoon ==
  /\ phase # "Unavailable"
  /\ Outstanding /\ ~inflight.retry
  /\ inflight.sent + 1 >= RESPONSE

\* on_deadline: awaiting_until has passed.
TimedOut ==
  /\ phase # "Unavailable"
  /\ Outstanding /\ ~inflight.retry
  /\ inflight.sent >= RESPONSE

Due ==
  /\ phase # "Unavailable"
  /\ tickIn = 0 \/ TimedOut \/ StaggerDue \/ SessionExpired \/ PurgeOver

-----------------------------------------------------------------------------
(* Building blocks.  q is the reply queue the step leaves behind.           *)

Init ==
  /\ phase = "Cold" /\ latch = NoLatch /\ kernel = Unlatched("Cold")
  /\ address = NoAddress /\ scanNext = VALVE_ADDR_MIN /\ found = {}
  /\ identifyStep = 1 /\ pollStep = 0
  /\ inflight = NoTransaction /\ stale = 0
  /\ stagger = NoStagger /\ session = NoSession
  /\ grant = FALSE /\ stopping = FALSE
  /\ outlets = 0 /\ health = "Unknown" /\ purgeLeft = NotPurging
  /\ tickIn = 0 /\ pacing = 0 /\ portOpen = TRUE /\ pumpUp = TRUE
  /\ served = FALSE
  /\ BusInit

\* PortHandle::transmit drops the frame when the port is closed; the machine
\* waits for its answer all the same.
Transmit(op, count, target, q) ==
  IF portOpen THEN Carry(op, count, target, q, TRUE) ELSE Silence(q)

Send(job, op, count, target, q) ==
  /\ inflight' = InFlight(job, op, count, target)
  /\ Transmit(op, count, target, q)

\* abandon(): one late reply is now expected.
Abandon == stale' = IF Outstanding THEN Plus1(stale, STALE_MAX) ELSE stale

\* escalate() of any fault: the kernel latches the link, and the machine
\* applies AllOff and Latch in one step, of which the all-off's transmission
\* is all that is left.  Then ClosePort is performed: of the replies still
\* coming, only those the pump has already read will be seen.
Escalate(event, q) ==
  /\ kernel' = Ruled(kernel, event)
  /\ phase' = "Unavailable"
  /\ latch' = [reason |-> event, ack |-> FALSE]
  /\ inflight' = NoTransaction /\ stale' = 0
  /\ session' = NoSession /\ stagger' = NoStagger
  /\ grant' = FALSE /\ stopping' = FALSE
  /\ outlets' = 0 /\ purgeLeft' = NotPurging
  /\ portOpen' = (portOpen /\ ~ClosesPort(event))
  /\ IF ~portOpen THEN Silence(q)
     ELSE IF ~ClosesPort(event) THEN Carry("AllOff", 0, OwnTarget, q, TRUE)
     ELSE \E read \in 0..Len(q) :
            \/ Carry("AllOff", 0, OwnTarget, SubSeq(q, 1, read), FALSE)
            \/ event = "PortLost" /\ Silence(SubSeq(q, 1, read))
  /\ UNCHANGED pollStep

\* A step that leaves the machine in its phase and the kernel undisturbed.
Steady == UNCHANGED <<phase, latch, kernel, purgeLeft, portOpen>>

\* Mutation: of several valves, the lowest address is taken.
FinishDiscovery_TakesTheFirst(f, q) ==
  \/ /\ f = {}
     /\ Escalate("SafetyResponseMissed", q)
     /\ UNCHANGED <<address, identifyStep>>
  \/ \E a \in f :
       /\ \A b \in f : a <= b
       /\ address' = a
       /\ phase' = "Identify" /\ identifyStep' = 1
       /\ Send("Identify", IDENTIFY[1], 0, a, q)
       /\ UNCHANGED <<latch, kernel, purgeLeft, portOpen, pollStep, stale,
                      sessionVars, outlets>>

\* finish_discovery(): exactly one valve, or the link is given up.
FinishDiscovery(f, q) ==
  \/ /\ f = {}
     /\ Escalate("SafetyResponseMissed", q)
     /\ UNCHANGED <<address, identifyStep>>
  \/ \E a \in f :
       /\ f = {a}
       /\ address' = a
       /\ phase' = "Identify" /\ identifyStep' = 1
       /\ Send("Identify", IDENTIFY[1], 0, a, q)
       /\ UNCHANGED <<latch, kernel, purgeLeft, portOpen, pollStep, stale,
                      sessionVars, outlets>>
  \/ /\ \E a, b \in f : a # b
     /\ Escalate("OutOfRangeValue", q)
     /\ UNCHANGED <<address, identifyStep>>

\* next_probe(), with f the addresses that have answered so far.
NextProbe(f, q) ==
  /\ found' = f
  /\ UNCHANGED health
  /\ IF scanNext <= VALVE_ADDR_MAX
     THEN /\ Send("Probe", "ReadFirmwareType", 0, scanNext, q)
          /\ scanNext' = scanNext + 1
          /\ Steady
          /\ UNCHANGED <<address, identifyStep, pollStep, stale, sessionVars, outlets>>
     ELSE scanNext' = scanNext /\ FinishDiscovery(f, q)

-----------------------------------------------------------------------------
(* Deadlines: what on_deadline does when wake_at has come.                  *)

\* The answer is not overdue, so the loop hands the machine a Tick.
TickTaken ==
  /\ Due /\ ~TimedOut
  /\ tickIn' = TICK /\ served' = TRUE
  /\ UNCHANGED <<pacing, pumpUp>>

\* finish_purge(), in the same tick as whatever the tick goes on to do.
SettlePurge ==
  /\ phase' = IF PurgeOver THEN "ReadyOff" ELSE phase
  /\ kernel' = IF PurgeOver THEN MarkReady(kernel) ELSE kernel
  /\ UNCHANGED <<latch, purgeLeft, portOpen, stale, sessionVars, outlets, health>>

\* Mutation: the all-off of an expiry waits for the transaction in hand.
ExpireSession_AfterTheTransaction ==
  /\ TickTaken /\ SessionExpired
  /\ kernel' = Ruled(kernel, "SessionExpired")
  /\ phase' = "ConfirmOff" /\ stagger' = NoStagger /\ stopping' = TRUE
  /\ IF Outstanding THEN UNCHANGED inflight /\ Silence(replies)
     ELSE Send("ConfirmOff", "AllOff", 0, OwnTarget, replies)
  /\ UNCHANGED <<latch, scanVars, pollStep, stale, session, grant, outlets,
                 health, purgeLeft, portOpen>>

\* The session is looked at before anything is transmitted.  Its expiry is
\* the one escalation that latches nothing: AllOff abandons whatever was
\* outstanding and the zone waits for the acknowledgement, the session and
\* the grant still in hand.
ExpireSession ==
  /\ TickTaken /\ SessionExpired
  /\ kernel' = Ruled(kernel, "SessionExpired")
  /\ Abandon
  /\ phase' = "ConfirmOff" /\ stagger' = NoStagger /\ stopping' = TRUE
  /\ Send("ConfirmOff", "AllOff", 0, OwnTarget, replies)
  /\ UNCHANGED <<latch, scanVars, pollStep, session, grant, outlets, health,
                 purgeLeft, portOpen>>

\* Mutation: a retry that is due goes out before the session is looked at.
Retry_BeforeTheSession ==
  /\ TickTaken
  /\ Outstanding /\ inflight.retry
  /\ SettlePurge
  /\ inflight' = [inflight EXCEPT !.retry = FALSE, !.sent = 0,
                                  !.attempts = Plus1(inflight.attempts, ATTEMPTS)]
  /\ Transmit(inflight.op, inflight.count, inflight.target, replies)
  /\ UNCHANGED <<scanVars, pollStep>>

\* A retry goes out on a tick and never sooner.
Retry ==
  /\ TickTaken /\ ~SessionExpired
  /\ Outstanding /\ inflight.retry
  /\ SettlePurge
  /\ inflight' = [inflight EXCEPT !.retry = FALSE, !.sent = 0,
                                  !.attempts = Plus1(inflight.attempts, ATTEMPTS)]
  /\ Transmit(inflight.op, inflight.count, inflight.target, replies)
  /\ UNCHANGED <<scanVars, pollStep>>

\* A tick that finds the bus occupied transmits nothing.
Occupied ==
  /\ TickTaken /\ ~SessionExpired
  /\ Outstanding /\ ~inflight.retry
  /\ SettlePurge
  /\ Silence(replies)
  /\ UNCHANGED <<scanVars, pollStep, inflight>>

BeginDiscovery ==
  /\ TickTaken /\ ~SessionExpired
  /\ ~Outstanding /\ phase = "Cold"
  /\ phase' = "Discovery"
  /\ found' = {} /\ scanNext' = VALVE_ADDR_MIN + 1
  /\ Send("Probe", "ReadFirmwareType", 0, VALVE_ADDR_MIN, replies)
  /\ UNCHANGED <<latch, address, identifyStep, pollStep, stale, sessionVars,
                 outlets, health, purgeLeft, kernel, portOpen>>

\* Mutation: a plan that was held up catches up with every step that is due.
OpenNextOutlet_CatchesUp ==
  /\ TickTaken /\ ~SessionExpired
  /\ ~Outstanding /\ phase = "Running" /\ StaggerDue
  /\ SettlePurge
  /\ Send("Open", "SetOutlets", Smaller(stagger.total, session.ran \div STAGGER),
          OwnTarget, replies)
  /\ UNCHANGED <<scanVars, pollStep>>

\* run_tick() with a step of the stagger plan due.
OpenNextOutlet ==
  /\ TickTaken /\ ~SessionExpired
  /\ ~Outstanding /\ phase = "Running" /\ StaggerDue
  /\ SettlePurge
  /\ Send("Open", "SetOutlets", stagger.next + 1, OwnTarget, replies)
  /\ UNCHANGED <<scanVars, pollStep>>

\* send_poll().  on_tick has arms for Discovery, Identify and ConfirmOff with
\* nothing outstanding too; no tick finds one (BootStepsAreOutstanding), so
\* they have no action here.
Poll ==
  /\ TickTaken /\ ~SessionExpired
  /\ ~Outstanding
  /\ \/ phase \in {"ReadyOff", "Purging", "Paused"}
     \/ phase = "Running" /\ ~StaggerDue
  /\ SettlePurge
  /\ pollStep' = (pollStep + 1) % Len(POLL)
  /\ Send("Poll", POLL[pollStep + 1], 0, OwnTarget, replies)
  /\ UNCHANGED scanVars

Tick ==
  \/ ExpireSession \/ Retry \/ Occupied
  \/ BeginDiscovery \/ OpenNextOutlet \/ Poll

-----------------------------------------------------------------------------
(* on_timeout.                                                              *)

TimeoutTaken ==
  /\ TimedOut
  /\ served' = FALSE
  /\ UNCHANGED <<tickIn, pacing, pumpUp>>

\* Mutation: an empty address is asked again on a later tick.
ProbeUnanswered_AsksAgain ==
  /\ TimeoutTaken
  /\ inflight.job = "Probe"
  /\ inflight' = [inflight EXCEPT !.retry = TRUE]
  /\ Steady /\ Silence(replies)
  /\ UNCHANGED <<scanVars, pollStep, stale, sessionVars, outlets, health>>

\* Silence is the expected answer of an empty address.
ProbeUnanswered ==
  /\ TimeoutTaken
  /\ inflight.job = "Probe"
  /\ NextProbe(found, replies)

BudgetSpent == inflight.total >= CEILING \/ inflight.attempts >= ATTEMPTS

\* Mutation: a valve that no longer answers is taken to be off.
GiveUp_AssumesOff ==
  /\ TimeoutTaken
  /\ inflight.job # "Probe" /\ BudgetSpent
  /\ phase' = "ReadyOff" /\ kernel' = MarkReady(kernel)
  /\ inflight' = NoTransaction /\ outlets' = 0
  /\ Silence(replies)
  /\ UNCHANGED <<latch, purgeLeft, portOpen, pollStep, stale, sessionVars,
                 scanVars, health>>

GiveUp ==
  /\ TimeoutTaken
  /\ inflight.job # "Probe" /\ BudgetSpent
  /\ Escalate("SafetyResponseMissed", replies)
  /\ UNCHANGED <<scanVars, health>>

AwaitRetry ==
  /\ TimeoutTaken
  /\ inflight.job # "Probe" /\ ~BudgetSpent
  /\ inflight' = [inflight EXCEPT !.retry = TRUE]
  /\ Steady /\ Silence(replies)
  /\ UNCHANGED <<scanVars, pollStep, stale, sessionVars, outlets, health>>

ResponseTimeout == ProbeUnanswered \/ GiveUp \/ AwaitRetry

-----------------------------------------------------------------------------
(* feed_zone_bytes: one frame off the wire, decoded against whatever is     *)
(* outstanding, then on_response or on_decode_failed.                       *)

Frame == Head(replies)

FrameTaken ==
  /\ replies # <<>>
  /\ served' = FALSE
  /\ UNCHANGED <<tickIn, pacing, pumpUp>>

Rest == Tail(replies)

\* A frame decoded with something outstanding and within its deadline.
Decoded == Outstanding /\ ~Refused(Frame, inflight.op) /\ inflight.sent <= RESPONSE

\* The late reply of an abandoned transaction, with nothing outstanding.
DiscardStale ==
  /\ FrameTaken
  /\ ~Outstanding /\ ~BadChecksum(Frame) /\ stale > 0
  /\ stale' = stale - 1
  /\ Steady /\ Silence(Rest)
  /\ UNCHANGED <<scanVars, pollStep, inflight, sessionVars, outlets, health>>

\* Nothing was outstanding and nothing was abandoned, or it did not decode.
Unsolicited ==
  /\ FrameTaken
  /\ ~Outstanding /\ (BadChecksum(Frame) \/ stale = 0)
  /\ Escalate("MalformedResponse", Rest)
  /\ UNCHANGED <<scanVars, health>>

\* During a probe a broken frame and an error are answers too.
ProbeAnswered ==
  /\ FrameTaken
  /\ inflight.job = "Probe"
  /\ Refused(Frame, inflight.op) \/ (Decoded /\ Frame.kind # "nak")
  /\ NextProbe(found \cup {inflight.target}, Rest)

Undecodable ==
  /\ FrameTaken
  /\ Outstanding /\ inflight.job # "Probe"
  /\ Refused(Frame, inflight.op)
  /\ Escalate(IF BadChecksum(Frame) /\ inflight.op \in Writes
              THEN "ChecksumFailedOnWrite" ELSE "MalformedResponse", Rest)
  /\ UNCHANGED <<scanVars, health>>

\* An answer past its own deadline correlates with nothing.
TooLate ==
  /\ FrameTaken
  /\ Outstanding /\ ~Refused(Frame, inflight.op) /\ inflight.sent > RESPONSE
  /\ Escalate("MalformedResponse", Rest)
  /\ UNCHANGED <<scanVars, health>>

Nakked ==
  /\ FrameTaken
  /\ Decoded /\ Frame.kind = "nak"
  /\ Escalate("SafetyResponseMissed", Rest)
  /\ UNCHANGED <<scanVars, health>>

\* on_error_response outside discovery.
ErrorAnswered ==
  /\ FrameTaken
  /\ Decoded /\ Frame.kind = "error" /\ inflight.job # "Probe"
  /\ Escalate(IF Frame.val = BAD THEN "Welded" ELSE "ValveFault", Rest)
  /\ health' = "Unknown"
  /\ UNCHANGED scanVars

Echoed(job) == FrameTaken /\ Decoded /\ Frame.kind = "echo" /\ inflight.job = job

\* absorb() and absorb_poll(): the fault a payload proves, if any, and what
\* is remembered of it.
Condemned ==
  /\ Frame.val = BAD
  /\ inflight.op \in {"ReadFirmwareType", "ReadOutlets", "ReadTemperature", "ReadFaults"}

\* A read of the faults condemns the zone unless it is clear in both byte
\* orders; the others condemn it by a value outside their table.
ReadCondemned ==
  /\ \E job \in {"Identify", "Poll"} : Echoed(job)
  /\ Condemned
  /\ Escalate(IF inflight.op = "ReadFaults" THEN "ValveFault" ELSE "OutOfRangeValue", Rest)
  /\ health' = IF inflight.op = "ReadFaults" THEN "Faulted" ELSE health
  /\ UNCHANGED scanVars

Remember ==
  /\ outlets' = IF inflight.op = "ReadOutlets" THEN Frame.val ELSE outlets
  /\ health' = IF inflight.op = "ReadFaults" THEN "Clear" ELSE health

IdentityRead ==
  /\ Echoed("Identify") /\ ~Condemned
  /\ Remember
  /\ IF identifyStep < Len(IDENTIFY)
     THEN /\ identifyStep' = identifyStep + 1
          /\ Send("Identify", IDENTIFY[identifyStep + 1], 0, OwnTarget, Rest)
          /\ UNCHANGED <<phase, stopping>>
     ELSE /\ UNCHANGED identifyStep
          /\ phase' = "ConfirmOff" /\ stopping' = FALSE
          /\ Send("ConfirmOff", "AllOff", 0, OwnTarget, Rest)
  /\ UNCHANGED <<latch, kernel, purgeLeft, portOpen, address, scanNext, found,
                 pollStep, stale, session, stagger, grant>>

PollAnswered ==
  /\ Echoed("Poll") /\ ~Condemned
  /\ Remember
  /\ inflight' = NoTransaction
  /\ Steady /\ Silence(Rest)
  /\ UNCHANGED <<scanVars, pollStep, stale, sessionVars>>

\* Mutation: the grant survives the stop.
OffConfirmed_KeepsTheGrant ==
  /\ Echoed("ConfirmOff")
  /\ outlets' = 0 /\ stopping' = FALSE
  /\ session' = IF stopping THEN NoSession ELSE session
  /\ LET told == IF stopping THEN MarkStopped(kernel) ELSE kernel IN
       IF PURGE > 0
       THEN phase' = "Purging" /\ purgeLeft' = PURGE /\ kernel' = told
       ELSE phase' = "ReadyOff" /\ purgeLeft' = NotPurging /\ kernel' = MarkReady(told)
  /\ inflight' = NoTransaction
  /\ Silence(Rest)
  /\ UNCHANGED <<latch, portOpen, scanVars, pollStep, stale, stagger, grant, health>>

\* Mutation: a zone that was stopped is ready at once, without its purge.
OffConfirmed_SkipsThePurge ==
  /\ Echoed("ConfirmOff")
  /\ outlets' = 0 /\ stopping' = FALSE
  /\ session' = IF stopping THEN NoSession ELSE session
  /\ grant' = (grant /\ ~stopping)
  /\ LET told == IF stopping THEN MarkStopped(kernel) ELSE kernel IN
       IF PURGE > 0 /\ ~stopping
       THEN phase' = "Purging" /\ purgeLeft' = PURGE /\ kernel' = told
       ELSE phase' = "ReadyOff" /\ purgeLeft' = NotPurging /\ kernel' = MarkReady(told)
  /\ inflight' = NoTransaction
  /\ Silence(Rest)
  /\ UNCHANGED <<latch, portOpen, scanVars, pollStep, stale, stagger, health>>

\* on_off_confirmed(): what a stop was holding is let go, and the kernel is
\* told the zone is ready unless a purge has to run first.
OffConfirmed ==
  /\ Echoed("ConfirmOff")
  /\ outlets' = 0 /\ stopping' = FALSE
  /\ session' = IF stopping THEN NoSession ELSE session
  /\ grant' = (grant /\ ~stopping)
  /\ LET told == IF stopping THEN MarkStopped(kernel) ELSE kernel IN
       IF PURGE > 0
       THEN phase' = "Purging" /\ purgeLeft' = PURGE /\ kernel' = told
       ELSE phase' = "ReadyOff" /\ purgeLeft' = NotPurging /\ kernel' = MarkReady(told)
  /\ inflight' = NoTransaction
  /\ Silence(Rest)
  /\ UNCHANGED <<latch, portOpen, scanVars, pollStep, stale, stagger, health>>

SetpointAcknowledged ==
  /\ Echoed("SetTemperature")
  /\ inflight' = NoTransaction
  /\ Steady /\ Silence(Rest)
  /\ UNCHANGED <<scanVars, pollStep, stale, sessionVars, outlets, health>>

\* Mutation: the cache records what was asked for, not what was acknowledged.
OutletAcknowledged_CachesThePlan ==
  /\ Echoed("Open")
  /\ outlets' = IF stagger = NoStagger THEN inflight.count ELSE stagger.total
  /\ stagger' = IF stagger = NoStagger \/ stagger.next + 1 >= stagger.total
                THEN NoStagger ELSE [stagger EXCEPT !.next = stagger.next + 1]
  /\ inflight' = NoTransaction
  /\ Steady /\ Silence(Rest)
  /\ UNCHANGED <<scanVars, pollStep, stale, session, grant, stopping, health>>

\* The plan moves on when the valve acknowledges a step.
OutletAcknowledged ==
  /\ Echoed("Open")
  /\ outlets' = inflight.count
  /\ stagger' = IF stagger = NoStagger \/ stagger.next + 1 >= stagger.total
                THEN NoStagger ELSE [stagger EXCEPT !.next = stagger.next + 1]
  /\ inflight' = NoTransaction
  /\ Steady /\ Silence(Rest)
  /\ UNCHANGED <<scanVars, pollStep, stale, session, grant, stopping, health>>

PauseAcknowledged ==
  /\ \E job \in {"Pause", "Resume"} : Echoed(job)
  /\ phase' = CASE inflight.job = "Pause" /\ phase = "Running" -> "Paused"
                [] inflight.job = "Resume" /\ phase = "Paused" -> "Running"
                [] OTHER -> phase
  /\ inflight' = NoTransaction
  /\ Silence(Rest)
  /\ UNCHANGED <<latch, kernel, purgeLeft, portOpen, scanVars, pollStep, stale,
                 sessionVars, outlets, health>>

Receive ==
  \/ DiscardStale \/ Unsolicited \/ ProbeAnswered \/ Undecodable \/ TooLate
  \/ Nakked \/ ErrorAnswered \/ ReadCondemned \/ IdentityRead \/ PollAnswered
  \/ OffConfirmed \/ SetpointAcknowledged \/ OutletAcknowledged
  \/ PauseAcknowledged

-----------------------------------------------------------------------------
(* Commands: start(), zone_command() and acknowledge() of the supervisor.   *)

\* refuse_zone_command: one commanded frame per response window, except a
\* stop of a zone that is not already stopping.
Paced(command) ==
  /\ command \in COMMANDS
  /\ pacing = 0 \/ (command = "Stop" /\ phase # "ConfirmOff")

CommandSent ==
  /\ pacing' = RESPONSE /\ served' = FALSE
  /\ UNCHANGED <<tickIn, pumpUp>>

\* Mutation: the setpoint is left to the operator.
Start_WithoutSetpoint(count, requested) ==
  /\ Paced("Start") /\ MayOpen(kernel)
  /\ phase = "ReadyOff" /\ health = "Clear"
  /\ kernel' = Opened
  /\ grant' = TRUE
  /\ session' = [ran |-> 0, limit |-> Smaller(requested, SESSION_CAP)]
  /\ stagger' = [next |-> 0, total |-> count]
  /\ phase' = "Running"
  /\ inflight' = NoTransaction /\ Silence(replies)
  /\ Abandon
  /\ CommandSent
  /\ UNCHANGED <<latch, scanVars, pollStep, stopping, outlets, health,
                 purgeLeft, portOpen>>

\* authorize_open moves the kernel first; then the machine takes the grant
\* and writes the setpoint, over whatever poll was outstanding.
Start(count, requested) ==
  /\ Paced("Start") /\ MayOpen(kernel)
  /\ phase = "ReadyOff" /\ health = "Clear"
  /\ kernel' = Opened
  /\ grant' = TRUE
  /\ session' = [ran |-> 0, limit |-> Smaller(requested, SESSION_CAP)]
  /\ stagger' = [next |-> 0, total |-> count]
  /\ phase' = "Running"
  /\ Send("SetTemperature", "SetTemperature", 0, OwnTarget, replies)
  /\ CommandSent
  /\ UNCHANGED <<latch, scanVars, pollStep, stale, stopping, outlets, health,
                 purgeLeft, portOpen>>

\* The kernel agreed and the machine did not: the kernel is put back.
RefuseStart ==
  /\ Paced("Start") /\ MayOpen(kernel)
  /\ ~(phase = "ReadyOff" /\ health = "Clear")
  /\ kernel' = MarkStopped(Opened)
  /\ UNCHANGED <<phase, latch, scanVars, pollStep, inflight, stale, sessionVars,
                 outlets, health, purgeLeft, portOpen, loopVars, busVars>>

\* Mutation: the all-off goes out on the next tick, like a retry.
Stop_OnTheTick ==
  /\ Paced("Stop") /\ phase # "Unavailable"
  /\ Abandon
  /\ stagger' = NoStagger /\ stopping' = TRUE /\ phase' = "ConfirmOff"
  /\ purgeLeft' = NotPurging
  /\ inflight' = [InFlight("ConfirmOff", "AllOff", 0, OwnTarget) EXCEPT !.retry = TRUE]
  /\ Silence(replies)
  /\ CommandSent
  /\ UNCHANGED <<latch, kernel, scanVars, pollStep, session, grant, outlets,
                 health, portOpen>>

Stop ==
  /\ Paced("Stop") /\ phase # "Unavailable"
  /\ Abandon
  /\ stagger' = NoStagger /\ stopping' = TRUE /\ phase' = "ConfirmOff"
  /\ purgeLeft' = NotPurging
  /\ Send("ConfirmOff", "AllOff", 0, OwnTarget, replies)
  /\ CommandSent
  /\ UNCHANGED <<latch, kernel, scanVars, pollStep, session, grant, outlets,
                 health, portOpen>>

\* The other commands transmit and wait; their acknowledgement moves the phase.
Order(command, allowed) ==
  /\ Paced(command) /\ allowed
  /\ Abandon
  /\ Send(command, command, 0, OwnTarget, replies)
  /\ CommandSent
  /\ Steady
  /\ UNCHANGED <<scanVars, pollStep, sessionVars, outlets, health>>

Pause == Order("Pause", phase = "Running")
Resume == Order("Resume", phase = "Paused")
SetTemperature == Order("SetTemperature", Watering)

AcknowledgeLatch ==
  /\ "Acknowledge" \in COMMANDS
  /\ IsLatched(kernel)
  /\ kernel' = Acknowledge(kernel)
  /\ latch' = IF phase = "Unavailable" THEN [latch EXCEPT !.ack = TRUE] ELSE latch
  /\ UNCHANGED <<phase, scanVars, pollStep, inflight, stale, sessionVars, outlets,
                 health, purgeLeft, portOpen, loopVars, busVars>>

Command ==
  \/ \E count \in 1..MAX_OUTLETS, requested \in DURATIONS : Start(count, requested)
  \/ RefuseStart \/ Stop \/ Pause \/ Resume \/ SetTemperature \/ AcknowledgeLatch

-----------------------------------------------------------------------------
(* Reports and events that are not about one frame.                         *)

\* LinkReport::Failed with a terminal error.  A pump reports one, once, and
\* may do so after the zone was latched for another reason.
PortLost ==
  /\ PORT_FAILS /\ pumpUp
  /\ pumpUp' = FALSE /\ served' = FALSE
  /\ Escalate("PortLost", replies)
  /\ UNCHANGED <<scanVars, health, tickIn, pacing>>

\* LinkReport::Closed, after the port was closed from this side.
PumpClosed ==
  /\ pumpUp /\ ~portOpen
  /\ pumpUp' = FALSE
  /\ UNCHANGED <<phase, latch, scanVars, pollStep, inflight, stale, sessionVars,
                 outlets, health, purgeLeft, kernel, portOpen, tickIn, pacing,
                 served, busVars>>

\* escalate_shared(): the service has failed, on whichever link it showed.
ServiceFailure ==
  /\ SHARED_FAULTS
  /\ served' = FALSE
  /\ Escalate("ServiceFailure", replies)
  /\ UNCHANGED <<scanVars, health, tickIn, pacing, pumpUp>>

-----------------------------------------------------------------------------
\* Mutation: the session's clock stands still while the zone is paused.
Elapse_PauseHoldsTheSession ==
  /\ ~Due \/ served
  /\ served' = FALSE
  /\ tickIn' = Less1(tickIn) /\ pacing' = Less1(pacing)
  /\ purgeLeft' = Less1(purgeLeft)
  /\ inflight' = IF Outstanding
                 THEN [inflight EXCEPT !.sent = Plus1(inflight.sent, RESPONSE + 1),
                                       !.total = Plus1(inflight.total, CEILING)]
                 ELSE inflight
  /\ session' = IF phase = "Paused" THEN session
                ELSE [session EXCEPT !.ran = Plus1(session.ran, session.limit)]
  /\ ValveAges
  /\ UNCHANGED <<phase, latch, scanVars, pollStep, stale, stagger, grant, stopping,
                 outlets, health, kernel, portOpen, pumpUp>>

\* Time passes once every deadline has been served.  A deadline that a tick
\* leaves in the past may be served again before it passes.
Elapse ==
  /\ ~Due \/ served
  /\ served' = FALSE
  /\ tickIn' = Less1(tickIn) /\ pacing' = Less1(pacing)
  /\ purgeLeft' = Less1(purgeLeft)
  /\ inflight' = IF Outstanding
                 THEN [inflight EXCEPT !.sent = Plus1(inflight.sent, RESPONSE + 1),
                                       !.total = Plus1(inflight.total, CEILING)]
                 ELSE inflight
  /\ session' = [session EXCEPT !.ran = Plus1(session.ran, session.limit)]
  /\ ValveAges
  /\ UNCHANGED <<phase, latch, scanVars, pollStep, stale, stagger, grant, stopping,
                 outlets, health, kernel, portOpen, pumpUp>>

Next ==
  \/ Tick \/ ResponseTimeout \/ Receive \/ Command
  \/ PortLost \/ PumpClosed \/ ServiceFailure \/ Elapse

Spec == Init /\ [][Next]_vars

\* The loop serves a deadline that is due before it waits on anything, at
\* most one pass apart, and time passes however busy the loop is: a deadline
\* that stays in the past cannot hold the clock.  Nothing obliges the valve to
\* answer or the operator to act.
Fairness == WF_vars(Tick) /\ WF_vars(ResponseTimeout) /\ SF_vars(Elapse)

FairSpec == Spec /\ Fairness

-----------------------------------------------------------------------------
(* Properties.                                                              *)

Transactions ==
  [job : Jobs, op : Ops, count : 0..MAX_OUTLETS,
   target : VALVE_ADDR_MIN..VALVE_ADDR_MAX, sent : 0..(RESPONSE + 1),
   total : 0..CEILING, attempts : 1..ATTEMPTS, retry : BOOLEAN]

\* Every variable stays in its range.
TypeOK ==
  /\ phase \in Phases
  /\ latch \in [reason : Faults \cup {"none"}, ack : BOOLEAN]
  /\ address \in (VALVE_ADDR_MIN..VALVE_ADDR_MAX) \cup {NoAddress}
  /\ scanNext \in VALVE_ADDR_MIN..(VALVE_ADDR_MAX + 1)
  /\ found \subseteq VALVE_ADDR_MIN..VALVE_ADDR_MAX
  /\ identifyStep \in 1..Len(IDENTIFY)
  /\ pollStep \in 0..(Len(POLL) - 1)
  /\ inflight \in Transactions \cup {NoTransaction}
  /\ stale \in 0..STALE_MAX
  /\ stagger \in [next : 0..MAX_OUTLETS, total : 0..MAX_OUTLETS]
  /\ session \in [ran : 0..SESSION_CAP, limit : 0..SESSION_CAP]
  /\ grant \in BOOLEAN /\ stopping \in BOOLEAN
  /\ outlets \in 0..MAX_OUTLETS
  /\ health \in {"Unknown", "Clear", "Faulted"}
  /\ purgeLeft \in 0..PURGE
  /\ kernel \in LinkStates
  /\ tickIn \in 0..TICK /\ pacing \in 0..RESPONSE
  /\ portOpen \in BOOLEAN /\ pumpUp \in BOOLEAN /\ served \in BOOLEAN
  /\ BusTypeOK

\* The kernel's belief and the machine's phase never part: a link is latched
\* exactly when its machine is unavailable, for the same reason and with the
\* same acknowledgement; water is on in the kernel whenever the machine is
\* running or paused, and at no other time but a stop; a zone that was never
\* confirmed off is cold in the kernel.
KernelAgrees ==
  /\ IsLatched(kernel) <=> phase = "Unavailable"
  /\ phase = "Unavailable" =>
       latch.reason = kernel.reason /\ latch.ack = kernel.ack
  /\ Watering => kernel.state = "Running"
  /\ kernel.state = "Running" => Watering \/ phase = "ConfirmOff"
  /\ phase = "ReadyOff" => kernel.state = "Ready"
  /\ phase \in {"Cold", "Discovery", "Identify"} => kernel.state = "Cold"

\* A grant is in hand exactly while a session is, and only while water is on
\* or being stopped; an outlet plan outlives neither.
GrantHasSession ==
  /\ grant <=> session # NoSession
  /\ Watering => grant
  /\ grant => Watering \/ (phase = "ConfirmOff" /\ stopping)
  /\ stagger # NoStagger => Watering /\ stagger.next < stagger.total

\* The boot steps and the confirmation of an all-off always have a
\* transaction outstanding: no step of them is left for a tick to make good,
\* and an all-off never waits for one.
BootStepsAreOutstanding ==
  phase \in {"Discovery", "Identify", "ConfirmOff"} => Outstanding

\* The encoder is never asked for a frame it would refuse.  A refusal is a
\* shared fault that takes every other zone down.
EncoderNeverRefuses ==
  Outstanding => Encodable(inflight.op, LinkPhase(phase), grant)

\* No outlet opens but under a running machine whose kernel says running,
\* with a grant in hand and time left in its session.
OpensOnlyInSession ==
  [][open' > open =>
       /\ phase = "Running" /\ phase' = "Running"
       /\ kernel.state = "Running"
       /\ grant /\ ~SessionExpired]_vars

\* A latched zone stays latched, and the only frames it sends close outlets.
LatchIsAbsorbing ==
  [][phase = "Unavailable" =>
       /\ phase' = "Unavailable" /\ IsLatched(kernel')
       /\ open' <= open /\ (heated' => heated) /\ paused' = paused]_vars

\* The supervisor's confirmed_off(): what a report of this zone as off rests on.
ConfirmedOff == phase = "ReadyOff" /\ outlets = 0

\* A zone reported as confirmed off has a closed valve.
ConfirmedOffMeansClosed == ConfirmedOff => open = 0

\* With nothing on the bus, the outlets the cache shows (and the API reports
\* as valve_on) are the outlets the valve holds open.
CacheMatchesValve ==
  Watering /\ ~Outstanding /\ replies = <<>> => outlets = open

\* A zone that purges is not ready again before the purge has run: the last
\* outlet was energised at least that long ago.
PurgeBeforeReady == phase = "ReadyOff" => sinceOpen >= Smaller(PURGE, STAGGER)

\* Water is on only after discovery found the one valve on the bus, and the
\* machine talks to that valve.  It is so unless a stop cuts the boot short.
WaterOnlyFromTheOneValve == Watering => valves = {address}

\* The setpoint of the session reached the valve before any outlet opened.
SetpointBeforeFlow == [][open' > open => heated]_vars

\* Solenoids are energised one at a time: on a bus that loses nothing the valve
\* is never further behind the plan than the step that is next.
OneSolenoidAtATime == [][open' <= open + 1]_vars

\* A zone on a bus where nothing goes wrong is never latched.
NeverLatches == phase # "Unavailable"

\* The boot sequence ends, confirmed off or unavailable, whatever the bus does.
BootSettles == (phase = "Cold") ~> (phase \in {"ReadyOff", "Unavailable"})

\* Water never runs past its session: running and paused zones are left.
SessionEnds == Watering ~> ~Watering

-----------------------------------------------------------------------------
(* ZoneMachine and its kernel implement ZoneAuthority.  A zone that is being *)
(* stopped is running until its all-off is confirmed, paused or not.         *)

AuthorityPhase ==
  IF IsLatched(kernel) THEN "Latched"
  ELSE IF kernel.state = "Cold" THEN "Discovery"
  ELSE IF ~grant THEN "ReadyOff"
  ELSE IF phase = "Paused" THEN "Paused" ELSE "Running"

Authority == INSTANCE ZoneAuthority WITH
  REASONS <- Faults,
  LIMITS <- {Smaller(d, SESSION_CAP) : d \in DURATIONS},
  phase <- AuthorityPhase,
  link <- portOpen

\* The machine, the kernel and the port together behave as the one value that
\* owns a link: water only from ReadyOff and in a session that is never
\* extended, and a link that is latched is gone in the same step and for good.
ImplementsAuthority == Authority!Spec

=============================================================================
