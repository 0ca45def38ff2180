------------------------- MODULE ZoneMachineProofs -------------------------
(***************************************************************************)
(* Proofs about ZoneMachine.  The first half is about the machine and its  *)
(* kernel and holds for any bus, timings, budgets and commands.            *)
(*                                                                         *)
(* KernelAgrees and GrantHasSession are not inductive by themselves: what  *)
(* an answer does to the phase depends on the job it answers, so the       *)
(* invariant has to say which jobs can be outstanding in which phase.      *)
(*                                                                         *)
(* The second half is about what a zone's machine may believe of its       *)
(* valve: it relates the machine to what the valve does and to the replies *)
(* that are still on their way, and each theorem says what it asks of the  *)
(* bus.                                                                    *)
(***************************************************************************)
EXTENDS MCZoneOrderly, KernelRulesProofs, FiniteSetTheorems, SequenceTheorems

\* The control part of the type invariant, which is all that the control
\* invariants rest on.
ControlTypeOK ==
  /\ phase \in Phases
  /\ kernel \in LinkStates
  /\ latch \in [reason : Faults \cup {"none"}, ack : BOOLEAN]
  /\ stagger \in [next : Nat, total : Nat]
  /\ session \in [ran : Nat, limit : Nat]
  /\ grant \in BOOLEAN /\ stopping \in BOOLEAN

\* Which job may be outstanding in which phase, and which writes it makes.
JobFits(job, op, p) ==
  /\ p = "Discovery" <=> job = "Probe"
  /\ p = "Identify" <=> job = "Identify"
  /\ p = "ConfirmOff" <=> job = "ConfirmOff"
  /\ job = "Poll" => p \in {"ReadyOff", "Purging", "Running", "Paused"}
  /\ job \in {"Open", "Pause"} => p = "Running"
  /\ job = "Resume" => p = "Paused"
  /\ job = "SetTemperature" => p \in {"Running", "Paused"}
  /\ op = "SetOutlets" => job = "Open"
  /\ op \in {"SetTemperature", "Pause", "Resume"} => job = op
  /\ job # "none" => job \in Jobs

JobFitsPhase == JobFits(inflight.job, inflight.op, phase)

\* t has the fields of a transaction and no others.
IsTransaction(t) ==
  t = [job |-> t.job, op |-> t.op, count |-> t.count, target |-> t.target,
       sent |-> t.sent, total |-> t.total, attempts |-> t.attempts, retry |-> t.retry]

\* The inductive invariant.
Control ==
  /\ ControlTypeOK
  /\ KernelAgrees
  /\ GrantHasSession
  /\ JobFitsPhase
  /\ IsTransaction(inflight)
  /\ kernel.state = "Running" => grant
  /\ session # NoSession => session.limit > 0

-----------------------------------------------------------------------------

controlVars == <<phase, kernel, latch, stagger, session, grant, stopping>>

\* The fields of a transaction that was just sent.
LEMMA InFlightFields ==
  ASSUME NEW job, NEW op, NEW count, NEW target
  PROVE  /\ InFlight(job, op, count, target).job = job
         /\ InFlight(job, op, count, target).op = op
         /\ InFlight(job, op, count, target).count = count
         /\ IsTransaction(InFlight(job, op, count, target))
BY DEF InFlight, IsTransaction

\* The same of the absent transaction.
LEMMA NothingIsATransaction ==
  /\ IsTransaction(NoTransaction)
  /\ NoTransaction.job = "none" /\ NoTransaction.count = 0
BY DEF IsTransaction, NoTransaction

\* t and u are the same request, at different ages.
SameRequest(t, u) ==
  IsTransaction(u) /\ u.job = t.job /\ u.op = t.op /\ u.count = t.count

\* The times and the retry mark of a transaction do not change what it asks.
LEMMA Touched ==
  ASSUME NEW t, IsTransaction(t), NEW r
  PROVE  /\ SameRequest(t, [t EXCEPT !.sent = r])
         /\ SameRequest(t, [t EXCEPT !.total = r])
         /\ SameRequest(t, [t EXCEPT !.attempts = r])
         /\ SameRequest(t, [t EXCEPT !.retry = r])
<1>1. SameRequest(t, [t EXCEPT !.sent = r])
  BY DEF IsTransaction, SameRequest
<1>2. SameRequest(t, [t EXCEPT !.total = r])
  BY DEF IsTransaction, SameRequest
<1>3. SameRequest(t, [t EXCEPT !.attempts = r])
  BY DEF IsTransaction, SameRequest
<1>4. SameRequest(t, [t EXCEPT !.retry = r])
  BY DEF IsTransaction, SameRequest
<1> QED BY <1>1, <1>2, <1>3, <1>4

\* A transaction that has aged asks what it asked.
LEMMA Aged ==
  ASSUME NEW t, IsTransaction(t), NEW r, NEW s
  PROVE  SameRequest(t, [t EXCEPT !.sent = r, !.total = s])
<1> DEFINE a == [t EXCEPT !.sent = r]
<1>1. SameRequest(t, a)
  BY Touched
<1> HIDE DEF a
<1>2. SameRequest(a, [a EXCEPT !.total = s])
  BY <1>1, Touched DEF SameRequest
<1>3. [t EXCEPT !.sent = r, !.total = s] = [a EXCEPT !.total = s]
  BY DEF a
<1>4. SameRequest(t, [a EXCEPT !.total = s])
  BY <1>1, <1>2 DEF SameRequest
<1> QED BY <1>3, <1>4

\* A retry asks what the first transmission asked.
LEMMA Retransmitted ==
  ASSUME NEW t, IsTransaction(t), NEW r, NEW s, NEW u
  PROVE  SameRequest(t, [t EXCEPT !.retry = r, !.sent = s, !.attempts = u])
<1> DEFINE a == [t EXCEPT !.retry = r]
           b == [a EXCEPT !.sent = s]
<1>1. SameRequest(t, a)
  BY Touched
<1> HIDE DEF a
<1>2. SameRequest(a, b)
  BY <1>1, Touched DEF SameRequest
<1> HIDE DEF b
<1>3. SameRequest(b, [b EXCEPT !.attempts = u])
  BY <1>2, Touched DEF SameRequest
<1>4. [t EXCEPT !.retry = r, !.sent = s, !.attempts = u] = [b EXCEPT !.attempts = u]
  BY DEF a, b
<1>5. SameRequest(t, [b EXCEPT !.attempts = u])
  BY <1>1, <1>2, <1>3 DEF SameRequest
<1> QED BY <1>4, <1>5

\* A step that changes neither the control state nor what is outstanding.
LEMMA Undisturbed ==
  ASSUME Control, UNCHANGED controlVars, SameRequest(inflight, inflight')
  PROVE  Control'
<1> USE DEF controlVars
<1>1. ControlTypeOK'
  BY DEF Control, ControlTypeOK
<1>2. KernelAgrees'
  BY DEF Control, KernelAgrees, Watering
<1>3. GrantHasSession'
  BY DEF Control, GrantHasSession, Watering
<1>4. JobFitsPhase' /\ IsTransaction(inflight')
  BY DEF Control, JobFitsPhase, SameRequest
<1>5. (kernel.state = "Running" => grant)' /\ (session # NoSession => session.limit > 0)'
  BY DEF Control
<1> QED BY <1>1, <1>2, <1>3, <1>4, <1>5 DEF Control

\* A step that sends something new and leaves the control state alone.
LEMMA Asked ==
  ASSUME Control, UNCHANGED controlVars,
         NEW job, NEW op, NEW count, NEW target,
         inflight' = InFlight(job, op, count, target), JobFits(job, op, phase)
  PROVE  Control'
<1> USE DEF controlVars
<1>1. ControlTypeOK' /\ KernelAgrees' /\ GrantHasSession'
  BY DEF Control, ControlTypeOK, KernelAgrees, GrantHasSession, Watering
<1>2. JobFitsPhase' /\ IsTransaction(inflight')
  BY InFlightFields DEF JobFitsPhase
<1>3. (kernel.state = "Running" => grant)' /\ (session # NoSession => session.limit > 0)'
  BY DEF Control
<1> QED BY <1>1, <1>2, <1>3 DEF Control

\* A step that ends the outstanding transaction, outside the phases that always
\* have one.
LEMMA Answered ==
  ASSUME Control, UNCHANGED controlVars, inflight' = NoTransaction,
         phase \notin {"Discovery", "Identify", "ConfirmOff"}
  PROVE  Control'
<1> USE DEF controlVars
<1>1. ControlTypeOK' /\ KernelAgrees' /\ GrantHasSession'
  BY DEF Control, ControlTypeOK, KernelAgrees, GrantHasSession, Watering
<1>2. JobFitsPhase' /\ IsTransaction(inflight')
  BY NothingIsATransaction DEF Control, JobFitsPhase, JobFits, NoTransaction
<1>3. (kernel.state = "Running" => grant)' /\ (session # NoSession => session.limit > 0)'
  BY DEF Control
<1> QED BY <1>1, <1>2, <1>3 DEF Control

\* A fault establishes the invariant, whatever the machine was doing.
LEMMA EscalationIsSafe ==
  ASSUME NEW event \in Faults, NEW q, Escalate(event, q)
  PROVE  Control'
<1>1. kernel' = LatchedFor(event)
  BY DEF Escalate, Ruled, Routine, Faults, ZoneFaults, LinkFaults, SharedFaults
<1>2. /\ kernel'.state = "Latched" /\ kernel'.reason = event /\ kernel'.ack = FALSE
      /\ latch' = [reason |-> event, ack |-> FALSE] /\ phase' = "Unavailable"
      /\ inflight' = NoTransaction /\ session' = NoSession /\ stagger' = NoStagger
      /\ grant' = FALSE /\ stopping' = FALSE
  BY <1>1 DEF Escalate, LatchedFor
<1>3. ControlTypeOK'
  <2>1. kernel' \in LinkStates
    BY <1>1 DEF LatchedFor, LinkStates
  <2> QED BY <1>2, <2>1 DEF ControlTypeOK, Phases, NoSession, NoStagger
<1>4. KernelAgrees'
  BY <1>2 DEF KernelAgrees, IsLatched, Watering
<1>5. GrantHasSession'
  BY <1>2 DEF GrantHasSession, Watering
<1>6. JobFitsPhase' /\ IsTransaction(inflight')
  BY <1>2, NothingIsATransaction DEF JobFitsPhase, JobFits, NoTransaction
<1>7. (kernel.state = "Running" => grant)' /\ (session # NoSession => session.limit > 0)'
  BY <1>2
<1> QED BY <1>3, <1>4, <1>5, <1>6, <1>7 DEF Control

-----------------------------------------------------------------------------
(* Where the machine is in the boot reads and in the poll rotation.         *)

StepsInRange ==
  /\ identifyStep \in 1..Len(IDENTIFY)
  /\ pollStep \in 0..(Len(POLL) - 1)

\* Both start inside their lists.
LEMMA FirstSteps == Init => StepsInRange
<1>1. Len(IDENTIFY) \in Nat /\ Len(IDENTIFY) > 0 /\ Len(POLL) \in Nat /\ Len(POLL) > 0
  BY ZoneMachineAssumption
<1> QED BY <1>1 DEF Init, StepsInRange

\* Every step of the specification leaves both where they are, but for four.
LEMMA StepsStayInRange ==
  ASSUME StepsInRange, [Next]_vars
  PROVE  StepsInRange'
<1>0. Len(IDENTIFY) \in Nat /\ Len(IDENTIFY) > 0 /\ Len(POLL) \in Nat /\ Len(POLL) > 0
  BY ZoneMachineAssumption
<1>1. ASSUME NEW f, NEW q, NextProbe(f, q) PROVE StepsInRange'
  <2>1. pollStep' = pollStep /\ (identifyStep' = identifyStep \/ identifyStep' = 1)
    BY <1>1 DEF NextProbe, FinishDiscovery, Escalate
  <2> QED BY <1>0, <2>1 DEF StepsInRange
<1>2. CASE IdentityRead
  <2>1. /\ pollStep' = pollStep
        /\ \/ identifyStep' = identifyStep
           \/ identifyStep < Len(IDENTIFY) /\ identifyStep' = identifyStep + 1
    BY <1>2 DEF IdentityRead
  <2> QED BY <1>0, <2>1 DEF StepsInRange
<1>3. CASE Poll
  <2>1. pollStep' = (pollStep + 1) % Len(POLL) /\ identifyStep' = identifyStep
    BY <1>3 DEF Poll, scanVars
  <2>2. (pollStep + 1) % Len(POLL) \in 0..(Len(POLL) - 1)
    BY <1>0 DEF StepsInRange
  <2> QED BY <2>1, <2>2 DEF StepsInRange
<1>4. CASE UNCHANGED <<identifyStep, pollStep>>
  BY <1>4 DEF StepsInRange
<1>5. CASE Tick
  <2>1. \/ Poll
        \/ UNCHANGED <<identifyStep, pollStep>>
    BY <1>5 DEF Tick, ExpireSession, Retry, Occupied, BeginDiscovery, OpenNextOutlet, scanVars
  <2> QED BY <2>1, <1>3, <1>4
<1>6. CASE ResponseTimeout
  <2>1. \/ NextProbe(found, replies)
        \/ UNCHANGED <<identifyStep, pollStep>>
    BY <1>6 DEF ResponseTimeout, ProbeUnanswered, GiveUp, AwaitRetry, Escalate, scanVars
  <2> QED BY <2>1, <1>1, <1>4
<1>7. CASE Receive
  <2>1. \/ ProbeAnswered \/ IdentityRead
        \/ UNCHANGED <<identifyStep, pollStep>>
    BY <1>7 DEF Receive, DiscardStale, Unsolicited, Undecodable, TooLate, Nakked,
         ErrorAnswered, ReadCondemned, PollAnswered, OffConfirmed, SetpointAcknowledged,
         OutletAcknowledged, PauseAcknowledged, Escalate, scanVars
  <2>2. CASE ProbeAnswered
    <3>1. NextProbe(found \cup {inflight.target}, Rest)
      BY <2>2 DEF ProbeAnswered
    <3> QED BY <3>1, <1>1
  <2> QED BY <2>1, <2>2, <1>2, <1>4
<1>8. CASE Command
  <2>1. UNCHANGED <<identifyStep, pollStep>>
    BY <1>8 DEF Command, Start, RefuseStart, Stop, Pause, Resume, SetTemperature, Order,
         AcknowledgeLatch, scanVars
  <2> QED BY <2>1, <1>4
<1>9. CASE PortLost \/ PumpClosed \/ ServiceFailure \/ Elapse
  <2>1. UNCHANGED <<identifyStep, pollStep>>
    BY <1>9 DEF PortLost, PumpClosed, ServiceFailure, Elapse, Escalate, scanVars
  <2> QED BY <2>1, <1>4
<1>10. CASE UNCHANGED vars
  BY <1>4, <1>10 DEF vars, scanVars
<1> QED BY <1>5, <1>6, <1>7, <1>8, <1>9, <1>10 DEF Next

\* So the machine reads and never writes on its own in these two jobs.
LEMMA RoutineReads ==
  ASSUME StepsInRange
  PROVE  /\ POLL[pollStep + 1] \notin {"SetOutlets", "SetTemperature", "Pause", "Resume"}
         /\ identifyStep < Len(IDENTIFY) =>
              IDENTIFY[identifyStep + 1] \notin {"SetOutlets", "SetTemperature", "Pause", "Resume"}
         /\ IDENTIFY[1] \notin {"SetOutlets", "SetTemperature", "Pause", "Resume"}
<1>0. Len(IDENTIFY) \in Nat /\ Len(IDENTIFY) > 0 /\ Len(POLL) \in Nat /\ Len(POLL) > 0
  BY ZoneMachineAssumption
<1>1. /\ \A i \in 1..Len(IDENTIFY) : IDENTIFY[i] \in Reads
      /\ \A i \in 1..Len(POLL) :
           POLL[i] \in {"ReadTemperature", "ReadFaults", "ReadOutlets"}
  BY ZoneMachineAssumption
<1>2. pollStep + 1 \in 1..Len(POLL)
  BY <1>0 DEF StepsInRange
<1>3. identifyStep < Len(IDENTIFY) => identifyStep + 1 \in 1..Len(IDENTIFY)
  BY <1>0 DEF StepsInRange
<1>4. 1 \in 1..Len(IDENTIFY)
  BY <1>0
<1> QED BY <1>1, <1>2, <1>3, <1>4 DEF Reads

-----------------------------------------------------------------------------
(* Ticks.                                                                   *)

\* The end of a purge makes the zone ready in the machine and in the kernel.
LEMMA SettlingIsSafe ==
  ASSUME Control, SettlePurge, JobFits(inflight'.job, inflight'.op, phase'),
         IsTransaction(inflight')
  PROVE  Control'
<1>1. UNCHANGED <<latch, stagger, session, grant, stopping>>
  BY DEF SettlePurge, sessionVars
<1>2. CASE PurgeOver
  <2>1. phase = "Purging" /\ phase' = "ReadyOff" /\ kernel' = MarkReady(kernel)
    BY <1>2 DEF SettlePurge, PurgeOver
  <2>2. ~IsLatched(kernel) /\ ~grant
    BY <2>1 DEF Control, KernelAgrees, GrantHasSession, Watering
  <2>3. kernel' = Unlatched("Ready")
    BY <2>1, <2>2 DEF MarkReady
  <2>4. ControlTypeOK'
    BY <1>1, <2>1, <2>3 DEF Control, ControlTypeOK, Phases, Unlatched, LinkStates
  <2>5. KernelAgrees'
    BY <2>1, <2>3 DEF KernelAgrees, Unlatched, IsLatched, Watering
  <2>6. GrantHasSession'
    BY <1>1, <2>1 DEF Control, GrantHasSession, Watering
  <2>7. (kernel.state = "Running" => grant)' /\ (session # NoSession => session.limit > 0)'
    BY <1>1, <2>3 DEF Control, Unlatched
  <2> QED BY <2>4, <2>5, <2>6, <2>7 DEF Control, JobFitsPhase
<1>3. CASE ~PurgeOver
  <2>1. UNCHANGED controlVars
    BY <1>1, <1>3 DEF SettlePurge, controlVars
  <2>2. ControlTypeOK' /\ KernelAgrees' /\ GrantHasSession'
    BY <2>1 DEF controlVars, Control, ControlTypeOK, KernelAgrees, GrantHasSession, Watering
  <2>3. (kernel.state = "Running" => grant)' /\ (session # NoSession => session.limit > 0)'
    BY <2>1 DEF controlVars, Control
  <2> QED BY <2>2, <2>3 DEF Control, JobFitsPhase
<1> QED BY <1>2, <1>3

\* An expiry is the one escalation that leaves the zone answerable.
LEMMA ExpiryIsSafe ==
  ASSUME Control, ExpireSession
  PROVE  Control'
<1>1. /\ phase # "Unavailable"
      /\ kernel' = MarkStopped(kernel)
      /\ phase' = "ConfirmOff" /\ stagger' = NoStagger /\ stopping' = TRUE
      /\ inflight' = InFlight("ConfirmOff", "AllOff", 0, OwnTarget)
      /\ UNCHANGED <<latch, session, grant>>
  BY DEF ExpireSession, TickTaken, Due, Send, Ruled, Routine
<1>2. ~IsLatched(kernel)
  BY <1>1 DEF Control, KernelAgrees
<1>3. kernel' \in LinkStates /\ ~IsLatched(kernel') /\ kernel'.state # "Running"
  BY <1>1, <1>2, RulingsAreTyped, NothingElseRuns
     DEF Control, ControlTypeOK, MarkStopped, Unlatched, IsLatched
<1>4. ControlTypeOK'
  BY <1>1, <1>3 DEF Control, ControlTypeOK, Phases, NoStagger
<1>5. KernelAgrees'
  BY <1>1, <1>3 DEF KernelAgrees, Watering
<1>6. GrantHasSession'
  BY <1>1 DEF Control, GrantHasSession, Watering
<1>7. JobFitsPhase' /\ IsTransaction(inflight')
  BY <1>1, InFlightFields DEF JobFitsPhase, JobFits, Jobs
<1>8. (kernel.state = "Running" => grant)' /\ (session # NoSession => session.limit > 0)'
  BY <1>1, <1>3 DEF Control
<1> QED BY <1>4, <1>5, <1>6, <1>7, <1>8 DEF Control

\* Whatever a tick goes on to do keeps the invariant.
LEMMA TicksAreSafe ==
  ASSUME Control, StepsInRange, Tick
  PROVE  Control'
<1>0. phase # "Unavailable"
  BY DEF Tick, ExpireSession, Retry, Occupied, BeginDiscovery, OpenNextOutlet, Poll,
         TickTaken, Due
<1>1. CASE ExpireSession
  BY <1>1, ExpiryIsSafe
<1>2. CASE Retry \/ Occupied
  <2>0. IsTransaction(inflight)
    BY DEF Control
  <2>1. SettlePurge /\ SameRequest(inflight, inflight')
    <3>1. CASE Retry
      BY <1>2, <2>0, <3>1, Retransmitted DEF Retry
    <3>2. CASE Occupied
      BY <1>2, <2>0, <3>2 DEF Occupied, SameRequest
    <3> QED BY <1>2, <3>1, <3>2
  <2>2. JobFits(inflight.job, inflight.op, phase')
    BY <2>1 DEF Control, JobFitsPhase, JobFits, SettlePurge, PurgeOver
  <2> QED BY <2>1, <2>2, SettlingIsSafe DEF SameRequest
<1>3. CASE BeginDiscovery
  <2>1. /\ phase = "Cold" /\ phase' = "Discovery"
        /\ inflight' = InFlight("Probe", "ReadFirmwareType", 0, VALVE_ADDR_MIN)
        /\ UNCHANGED <<kernel, latch, stagger, session, grant, stopping>>
    BY <1>3 DEF BeginDiscovery, Send, sessionVars
  <2>2. ControlTypeOK'
    BY <2>1 DEF Control, ControlTypeOK, Phases
  <2>3. KernelAgrees' /\ GrantHasSession'
    BY <2>1 DEF Control, KernelAgrees, GrantHasSession, Watering
  <2>4. JobFitsPhase' /\ IsTransaction(inflight')
    BY <2>1, InFlightFields DEF JobFitsPhase, JobFits, Jobs
  <2>5. (kernel.state = "Running" => grant)' /\ (session # NoSession => session.limit > 0)'
    BY <2>1 DEF Control
  <2> QED BY <2>2, <2>3, <2>4, <2>5 DEF Control
<1>4. CASE OpenNextOutlet
  <2>1. /\ phase = "Running" /\ SettlePurge
        /\ inflight' = InFlight("Open", "SetOutlets", stagger.next + 1, OwnTarget)
    BY <1>4 DEF OpenNextOutlet, Send
  <2>2. phase' = "Running"
    BY <2>1 DEF SettlePurge, PurgeOver
  <2>3. JobFits(inflight'.job, inflight'.op, phase') /\ IsTransaction(inflight')
    BY <2>1, <2>2, InFlightFields DEF JobFits, Jobs
  <2> QED BY <2>1, <2>3, SettlingIsSafe
<1>5. CASE Poll
  <2>1. /\ phase \in {"ReadyOff", "Purging", "Paused", "Running"} /\ SettlePurge
        /\ inflight' = InFlight("Poll", POLL[pollStep + 1], 0, OwnTarget)
    BY <1>5 DEF Poll, Send
  <2>2. phase' \in {"ReadyOff", "Purging", "Paused", "Running"}
    BY <2>1 DEF SettlePurge
  <2>3. POLL[pollStep + 1] \notin {"SetOutlets", "SetTemperature", "Pause", "Resume"}
    BY RoutineReads
  <2>4. JobFits(inflight'.job, inflight'.op, phase') /\ IsTransaction(inflight')
    BY <2>1, <2>2, <2>3, InFlightFields DEF JobFits, Jobs
  <2> QED BY <2>1, <2>4, SettlingIsSafe
<1> QED BY <1>1, <1>2, <1>3, <1>4, <1>5 DEF Tick

-----------------------------------------------------------------------------
(* Timeouts.                                                                *)

\* Discovery goes on, ends at the one valve, or gives the link up.
LEMMA ProbingIsSafe ==
  ASSUME Control, StepsInRange, phase = "Discovery", NEW f, NEW q, NextProbe(f, q)
  PROVE  Control'
<1>1. CASE inflight' = InFlight("Probe", "ReadFirmwareType", 0, scanNext) /\ UNCHANGED controlVars
  <2>1. JobFits("Probe", "ReadFirmwareType", phase)
    BY DEF JobFits, Jobs
  <2> QED BY <1>1, <2>1, Asked
<1>2. CASE Escalate("SafetyResponseMissed", q) \/ Escalate("OutOfRangeValue", q)
  BY <1>2, EscalationIsSafe DEF Faults, ZoneFaults
<1>3. CASE \E a \in f : /\ phase' = "Identify" /\ inflight' = InFlight("Identify", IDENTIFY[1], 0, a)
                        /\ UNCHANGED <<latch, kernel, session, stagger, grant, stopping>>
  <2>1. PICK a \in f : inflight' = InFlight("Identify", IDENTIFY[1], 0, a)
    BY <1>3
  <2>2. phase' = "Identify" /\ UNCHANGED <<latch, kernel, session, stagger, grant, stopping>>
    BY <1>3
  <2>3. ControlTypeOK'
    BY <2>2 DEF Control, ControlTypeOK, Phases
  <2>4. KernelAgrees' /\ GrantHasSession'
    BY <2>2 DEF Control, KernelAgrees, GrantHasSession, Watering
  <2>5. JobFitsPhase' /\ IsTransaction(inflight')
    BY <2>1, <2>2, InFlightFields, RoutineReads DEF JobFitsPhase, JobFits, Jobs
  <2>6. (kernel.state = "Running" => grant)' /\ (session # NoSession => session.limit > 0)'
    BY <2>2 DEF Control
  <2> QED BY <2>3, <2>4, <2>5, <2>6 DEF Control
<1>4. CASE scanNext <= VALVE_ADDR_MAX
  <2>1. inflight' = InFlight("Probe", "ReadFirmwareType", 0, scanNext) /\ UNCHANGED controlVars
    BY <1>4 DEF NextProbe, Send, Steady, sessionVars, controlVars
  <2> QED BY <2>1, <1>1
<1>5. CASE ~(scanNext <= VALVE_ADDR_MAX)
  <2>1. FinishDiscovery(f, q)
    BY <1>5 DEF NextProbe
  <2>2. \/ Escalate("SafetyResponseMissed", q) \/ Escalate("OutOfRangeValue", q)
        \/ \E a \in f : /\ phase' = "Identify" /\ inflight' = InFlight("Identify", IDENTIFY[1], 0, a)
                        /\ UNCHANGED <<latch, kernel, session, stagger, grant, stopping>>
    BY <2>1 DEF FinishDiscovery, Send, sessionVars
  <2> QED BY <2>2, <1>2, <1>3
<1> QED BY <1>4, <1>5

\* So does an answer that fails to come.
LEMMA TimeoutsAreSafe ==
  ASSUME Control, StepsInRange, ResponseTimeout
  PROVE  Control'
<1>1. CASE ProbeUnanswered
  <2>1. phase = "Discovery" /\ NextProbe(found, replies)
    BY <1>1 DEF ProbeUnanswered, Control, JobFitsPhase, JobFits
  <2> QED BY <2>1, ProbingIsSafe
<1>2. CASE GiveUp
  <2>1. Escalate("SafetyResponseMissed", replies)
    BY <1>2 DEF GiveUp
  <2> QED BY <2>1, EscalationIsSafe DEF Faults, ZoneFaults
<1>3. CASE AwaitRetry
  <2>1. UNCHANGED controlVars
    BY <1>3 DEF AwaitRetry, Steady, sessionVars, controlVars
  <2>2. IsTransaction(inflight) /\ inflight' = [inflight EXCEPT !.retry = TRUE]
    BY <1>3 DEF AwaitRetry, Control
  <2>3. SameRequest(inflight, inflight')
    BY <2>2, Touched
  <2> QED BY <2>1, <2>3, Undisturbed
<1> QED BY <1>1, <1>2, <1>3 DEF ResponseTimeout

-----------------------------------------------------------------------------
(* Replies.                                                                 *)

\* Every frame that condemns the zone is a fault, whatever was outstanding.
LEMMA FaultyRepliesAreSafe ==
  ASSUME Unsolicited \/ Undecodable \/ TooLate \/ Nakked \/ ErrorAnswered \/ ReadCondemned
  PROVE  Control'
<1>1. \E event \in Faults : Escalate(event, Rest)
  <2>1. CASE Unsolicited \/ TooLate
    BY <2>1 DEF Unsolicited, TooLate, Faults, ZoneFaults
  <2>2. CASE Undecodable
    <3> DEFINE event == IF BadChecksum(Frame) /\ inflight.op \in Writes
                        THEN "ChecksumFailedOnWrite" ELSE "MalformedResponse"
    <3>1. Escalate(event, Rest)
      BY <2>2 DEF Undecodable
    <3>2. event \in Faults
      BY DEF Faults, ZoneFaults
    <3> QED BY <3>1, <3>2
  <2>3. CASE Nakked
    BY <2>3 DEF Nakked, Faults, ZoneFaults
  <2>4. CASE ErrorAnswered
    <3> DEFINE event == IF Frame.val = BAD THEN "Welded" ELSE "ValveFault"
    <3>1. Escalate(event, Rest)
      BY <2>4 DEF ErrorAnswered
    <3>2. event \in Faults
      BY DEF Faults, ZoneFaults
    <3> QED BY <3>1, <3>2
  <2>5. CASE ReadCondemned
    <3> DEFINE event == IF inflight.op = "ReadFaults" THEN "ValveFault" ELSE "OutOfRangeValue"
    <3>1. Escalate(event, Rest)
      BY <2>5 DEF ReadCondemned
    <3>2. event \in Faults
      BY DEF Faults, ZoneFaults
    <3> QED BY <3>1, <3>2
  <2> QED BY <2>1, <2>2, <2>3, <2>4, <2>5
<1> QED BY <1>1, EscalationIsSafe

\* The boot reads end by asking for the all-off.
LEMMA IdentityIsSafe ==
  ASSUME Control, StepsInRange, IdentityRead
  PROVE  Control'
<1>0. phase = "Identify" /\ UNCHANGED <<latch, kernel, session, stagger, grant>>
  BY DEF IdentityRead, Echoed, Control, JobFitsPhase, JobFits
<1>1. CASE identifyStep < Len(IDENTIFY)
  <2>1. /\ inflight' = InFlight("Identify", IDENTIFY[identifyStep + 1], 0, OwnTarget)
        /\ UNCHANGED controlVars
    BY <1>0, <1>1 DEF IdentityRead, Send, controlVars
  <2>2. JobFits("Identify", IDENTIFY[identifyStep + 1], phase)
    BY <1>0, <1>1, RoutineReads DEF JobFits, Jobs
  <2> QED BY <2>1, <2>2, Asked
<1>2. CASE ~(identifyStep < Len(IDENTIFY))
  <2>1. /\ inflight' = InFlight("ConfirmOff", "AllOff", 0, OwnTarget)
        /\ phase' = "ConfirmOff" /\ stopping' = FALSE
    BY <1>2 DEF IdentityRead, Send
  <2>2. ControlTypeOK'
    BY <1>0, <2>1 DEF Control, ControlTypeOK, Phases
  <2>3. KernelAgrees'
    BY <1>0, <2>1 DEF Control, KernelAgrees, Watering
  <2>4. GrantHasSession'
    BY <1>0, <2>1 DEF Control, GrantHasSession, Watering
  <2>5. JobFitsPhase' /\ IsTransaction(inflight')
    BY <2>1, InFlightFields DEF JobFitsPhase, JobFits, Jobs
  <2>6. (kernel.state = "Running" => grant)' /\ (session # NoSession => session.limit > 0)'
    BY <1>0 DEF Control
  <2> QED BY <2>2, <2>3, <2>4, <2>5, <2>6 DEF Control
<1> QED BY <1>1, <1>2

\* A confirmed all-off lets go of the grant and the session together, and of
\* nothing when there was none.
LEMMA ConfirmationIsSafe ==
  ASSUME Control, OffConfirmed
  PROVE  Control'
<1> DEFINE told == IF stopping THEN MarkStopped(kernel) ELSE kernel
<1>1. phase = "ConfirmOff" /\ inflight' = NoTransaction /\ UNCHANGED <<latch, stagger>>
  BY DEF OffConfirmed, Echoed, Control, JobFitsPhase, JobFits
<1>2. /\ stopping' = FALSE /\ grant' = (grant /\ ~stopping)
      /\ session' = IF stopping THEN NoSession ELSE session
  BY DEF OffConfirmed
<1>3. \/ phase' = "Purging" /\ kernel' = told
      \/ phase' = "ReadyOff" /\ kernel' = MarkReady(told)
  BY DEF OffConfirmed
<1>4. /\ kernel \in LinkStates /\ ~IsLatched(kernel) /\ grant \in BOOLEAN /\ stopping \in BOOLEAN
      /\ grant => stopping
      /\ kernel.state = "Running" => grant
  BY <1>1 DEF Control, ControlTypeOK, KernelAgrees, GrantHasSession, Watering
<1>5. told \in LinkStates /\ ~IsLatched(told) /\ told.state # "Running"
  BY <1>4, RulingsAreTyped, NothingElseRuns DEF MarkStopped, Unlatched, IsLatched
<1>6. MarkReady(told) = Unlatched("Ready") /\ Unlatched("Ready") \in LinkStates
  BY <1>5, RulingsAreTyped DEF MarkReady
<1>7. /\ kernel' \in LinkStates /\ ~IsLatched(kernel') /\ kernel'.state # "Running"
      /\ phase' \in {"Purging", "ReadyOff"} /\ (phase' = "ReadyOff" => kernel'.state = "Ready")
  <2> HIDE DEF told
  <2>1. CASE phase' = "Purging" /\ kernel' = told
    BY <1>5, <2>1
  <2>2. CASE phase' = "ReadyOff" /\ kernel' = MarkReady(told)
    <3>1. kernel' \in LinkStates /\ kernel' = Unlatched("Ready")
      BY <1>6, <2>2
    <3> QED BY <2>2, <3>1 DEF Unlatched, IsLatched
  <2> QED BY <1>3, <2>1, <2>2
<1>8. grant' = FALSE /\ session' = NoSession
  BY <1>2, <1>4 DEF Control, GrantHasSession
<1>9. ControlTypeOK'
  <2>1. session' \in [ran : Nat, limit : Nat]
    BY <1>8 DEF NoSession
  <2>2. phase' \in Phases /\ grant' \in BOOLEAN /\ stopping' \in BOOLEAN
    BY <1>2, <1>7, <1>8 DEF Phases
  <2> QED BY <1>1, <1>7, <2>1, <2>2 DEF Control, ControlTypeOK
<1>10. KernelAgrees'
  BY <1>7 DEF KernelAgrees, Watering
<1>11. GrantHasSession'
  BY <1>1, <1>7, <1>8 DEF Control, GrantHasSession, Watering
<1>12. JobFitsPhase' /\ IsTransaction(inflight')
  BY <1>1, <1>7, NothingIsATransaction DEF JobFitsPhase, JobFits, NoTransaction
<1>13. (kernel.state = "Running" => grant)' /\ (session # NoSession => session.limit > 0)'
  BY <1>7, <1>8
<1> QED BY <1>9, <1>10, <1>11, <1>12, <1>13 DEF Control

\* The other answers end a transaction and leave the control state alone, but
\* for the outlet plan and the pause.
LEMMA AcknowledgementsAreSafe ==
  ASSUME Control,
         SetpointAcknowledged \/ PollAnswered \/ OutletAcknowledged \/ PauseAcknowledged
  PROVE  Control'
<1>1. CASE SetpointAcknowledged \/ PollAnswered
  <2>1. inflight' = NoTransaction /\ UNCHANGED controlVars
    BY <1>1 DEF SetpointAcknowledged, PollAnswered, Steady, sessionVars, controlVars
  <2>2. phase \notin {"Discovery", "Identify", "ConfirmOff"}
    BY <1>1 DEF SetpointAcknowledged, PollAnswered, Echoed, Control, JobFitsPhase, JobFits
  <2> QED BY <2>1, <2>2, Answered
<1>2. CASE OutletAcknowledged
  <2>1. phase = "Running"
    BY <1>2 DEF OutletAcknowledged, Echoed, Control, JobFitsPhase, JobFits
  <2>2. inflight' = NoTransaction /\ UNCHANGED <<phase, kernel, latch, session, grant, stopping>>
    BY <1>2 DEF OutletAcknowledged, Steady
  <2>3. /\ stagger' \in [next : Nat, total : Nat]
        /\ stagger' = NoStagger \/ stagger'.next < stagger'.total
    <3>0. stagger \in [next : Nat, total : Nat]
      BY DEF Control, ControlTypeOK
    <3>1. CASE stagger = NoStagger \/ stagger.next + 1 >= stagger.total
      BY <1>2, <3>1 DEF OutletAcknowledged, NoStagger
    <3>2. CASE ~(stagger = NoStagger \/ stagger.next + 1 >= stagger.total)
      <4>1. stagger' = [stagger EXCEPT !.next = stagger.next + 1]
        BY <1>2, <3>2 DEF OutletAcknowledged
      <4>2. stagger.next + 1 < stagger.total
        BY <3>0, <3>2
      <4> QED BY <3>0, <4>1, <4>2
    <3> QED BY <3>1, <3>2
  <2>4. ControlTypeOK' /\ KernelAgrees'
    BY <2>2, <2>3 DEF Control, ControlTypeOK, KernelAgrees, Watering
  <2>5. GrantHasSession'
    BY <2>1, <2>2, <2>3 DEF Control, GrantHasSession, Watering
  <2>6. JobFitsPhase' /\ IsTransaction(inflight')
    BY <2>1, <2>2, NothingIsATransaction DEF JobFitsPhase, JobFits, NoTransaction
  <2>7. (kernel.state = "Running" => grant)' /\ (session # NoSession => session.limit > 0)'
    BY <2>2 DEF Control
  <2> QED BY <2>4, <2>5, <2>6, <2>7 DEF Control
<1>3. CASE PauseAcknowledged
  <2>1. /\ inflight.job = "Pause" => phase = "Running"
        /\ inflight.job = "Resume" => phase = "Paused"
        /\ inflight.job \in {"Pause", "Resume"}
    BY <1>3 DEF PauseAcknowledged, Echoed, Control, JobFitsPhase, JobFits
  <2>2. phase \in {"Running", "Paused"} /\ phase' \in {"Running", "Paused"}
    BY <1>3, <2>1 DEF PauseAcknowledged
  <2>3. inflight' = NoTransaction /\ UNCHANGED <<kernel, latch, stagger, session, grant, stopping>>
    BY <1>3 DEF PauseAcknowledged, sessionVars
  <2>4. ControlTypeOK'
    BY <2>2, <2>3 DEF Control, ControlTypeOK, Phases
  <2>5. KernelAgrees'
    BY <2>2, <2>3 DEF Control, KernelAgrees, Watering
  <2>6. GrantHasSession'
    BY <2>2, <2>3 DEF Control, GrantHasSession, Watering
  <2>7. JobFitsPhase' /\ IsTransaction(inflight')
    BY <2>2, <2>3, NothingIsATransaction DEF JobFitsPhase, JobFits, NoTransaction
  <2>8. (kernel.state = "Running" => grant)' /\ (session # NoSession => session.limit > 0)'
    BY <2>3 DEF Control
  <2> QED BY <2>4, <2>5, <2>6, <2>7, <2>8 DEF Control
<1> QED BY <1>1, <1>2, <1>3

\* So does every frame, whatever it answers.
LEMMA RepliesAreSafe ==
  ASSUME Control, StepsInRange, Receive
  PROVE  Control'
<1>1. CASE DiscardStale
  <2>1. UNCHANGED controlVars /\ SameRequest(inflight, inflight')
    BY <1>1 DEF DiscardStale, Steady, sessionVars, controlVars, SameRequest, Control
  <2> QED BY <2>1, Undisturbed
<1>2. CASE ProbeAnswered
  <2>1. phase = "Discovery" /\ NextProbe(found \cup {inflight.target}, Rest)
    BY <1>2 DEF ProbeAnswered, Control, JobFitsPhase, JobFits
  <2> QED BY <2>1, ProbingIsSafe
<1>3. CASE Unsolicited \/ Undecodable \/ TooLate \/ Nakked \/ ErrorAnswered \/ ReadCondemned
  BY <1>3, FaultyRepliesAreSafe
<1>4. CASE IdentityRead
  BY <1>4, IdentityIsSafe
<1>5. CASE OffConfirmed
  BY <1>5, ConfirmationIsSafe
<1>6. CASE SetpointAcknowledged \/ PollAnswered \/ OutletAcknowledged \/ PauseAcknowledged
  BY <1>6, AcknowledgementsAreSafe
<1> QED BY <1>1, <1>2, <1>3, <1>4, <1>5, <1>6 DEF Receive

-----------------------------------------------------------------------------
(* Commands.                                                                *)

\* The kernel and the machine take a start together.
LEMMA StartIsSafe ==
  ASSUME Control, NEW count \in 1..MAX_OUTLETS, NEW requested \in DURATIONS,
         Start(count, requested)
  PROVE  Control'
<1>1. /\ phase' = "Running" /\ kernel' = Opened /\ grant' = TRUE
      /\ session' = [ran |-> 0, limit |-> Smaller(requested, SESSION_CAP)]
      /\ stagger' = [next |-> 0, total |-> count]
      /\ inflight' = InFlight("SetTemperature", "SetTemperature", 0, OwnTarget)
      /\ UNCHANGED <<latch, stopping>>
  BY DEF Start, Send
<1>2. Smaller(requested, SESSION_CAP) \in Nat /\ Smaller(requested, SESSION_CAP) > 0
  BY ZoneMachineAssumption DEF Smaller
<1>3. count \in Nat /\ count > 0
  BY ValveBusAssumption
<1>4. Opened \in LinkStates /\ Opened.state = "Running"
  BY DEF Opened, Unlatched, LinkStates
<1>5. ControlTypeOK'
  BY <1>1, <1>2, <1>3, <1>4 DEF Control, ControlTypeOK, Phases
<1>6. KernelAgrees'
  BY <1>1, <1>4 DEF KernelAgrees, IsLatched, Watering
<1>7. GrantHasSession'
  <2>1. session' # NoSession
    BY <1>1, <1>2 DEF NoSession
  <2> QED BY <1>1, <1>3, <2>1 DEF GrantHasSession, Watering
<1>8. JobFitsPhase' /\ IsTransaction(inflight')
  BY <1>1, InFlightFields DEF JobFitsPhase, JobFits, Jobs
<1>9. (kernel.state = "Running" => grant)' /\ (session # NoSession => session.limit > 0)'
  BY <1>1, <1>2
<1> QED BY <1>5, <1>6, <1>7, <1>8, <1>9 DEF Control

\* A start the machine refuses leaves the kernel where it was.
LEMMA RefusalIsSafe ==
  ASSUME Control, RefuseStart
  PROVE  Control'
<1>1. kernel.state = "Ready" /\ kernel \in LinkStates
  BY DEF RefuseStart, MayOpen, Control, ControlTypeOK
<1>2. kernel = Unlatched("Ready")
  BY <1>1 DEF LinkStates, Unlatched
<1>3. kernel' = kernel
  BY <1>2 DEF RefuseStart, MarkStopped, Opened, Unlatched
<1>4. UNCHANGED controlVars /\ SameRequest(inflight, inflight')
  BY <1>3 DEF RefuseStart, sessionVars, controlVars, SameRequest, Control
<1> QED BY <1>4, Undisturbed

\* A stop leaves the grant and the session to the confirmation.
LEMMA StopIsSafe ==
  ASSUME Control, Stop
  PROVE  Control'
<1>1. /\ phase # "Unavailable" /\ phase' = "ConfirmOff" /\ stagger' = NoStagger /\ stopping' = TRUE
      /\ inflight' = InFlight("ConfirmOff", "AllOff", 0, OwnTarget)
      /\ UNCHANGED <<latch, kernel, session, grant>>
  BY DEF Stop, Send
<1>2. ControlTypeOK'
  BY <1>1 DEF Control, ControlTypeOK, Phases, NoStagger
<1>3. KernelAgrees'
  BY <1>1 DEF Control, KernelAgrees, Watering
<1>4. GrantHasSession'
  BY <1>1 DEF Control, GrantHasSession, Watering
<1>5. JobFitsPhase' /\ IsTransaction(inflight')
  BY <1>1, InFlightFields DEF JobFitsPhase, JobFits, Jobs
<1>6. (kernel.state = "Running" => grant)' /\ (session # NoSession => session.limit > 0)'
  BY <1>1 DEF Control
<1> QED BY <1>2, <1>3, <1>4, <1>5, <1>6 DEF Control

\* An acknowledgement reaches the kernel and the machine alike.
LEMMA AcknowledgingIsSafe ==
  ASSUME Control, AcknowledgeLatch
  PROVE  Control'
<1>1. /\ phase = "Unavailable" /\ kernel \in LinkStates /\ IsLatched(kernel)
      /\ latch \in [reason : Faults \cup {"none"}, ack : BOOLEAN]
      /\ latch.reason = kernel.reason
  BY DEF AcknowledgeLatch, Control, ControlTypeOK, KernelAgrees
<1>2. /\ kernel' = [kernel EXCEPT !.ack = TRUE] /\ latch' = [latch EXCEPT !.ack = TRUE]
      /\ UNCHANGED <<phase, stagger, session, grant, stopping, inflight>>
  BY <1>1 DEF AcknowledgeLatch, Acknowledge, sessionVars
<1>3. /\ kernel' \in LinkStates /\ IsLatched(kernel')
      /\ kernel'.reason = kernel.reason /\ kernel'.ack = TRUE
  BY <1>1, <1>2 DEF LinkStates, IsLatched
<1>4. /\ latch' \in [reason : Faults \cup {"none"}, ack : BOOLEAN]
      /\ latch'.reason = latch.reason /\ latch'.ack = TRUE
  BY <1>1, <1>2
<1>5. ControlTypeOK'
  BY <1>2, <1>3, <1>4 DEF Control, ControlTypeOK
<1>6. KernelAgrees'
  BY <1>1, <1>2, <1>3, <1>4 DEF KernelAgrees, IsLatched, Watering
<1>7. GrantHasSession'
  BY <1>2 DEF Control, GrantHasSession, Watering
<1>8. JobFitsPhase' /\ IsTransaction(inflight')
  BY <1>2 DEF Control, JobFitsPhase
<1>9. (kernel.state = "Running" => grant)' /\ (session # NoSession => session.limit > 0)'
  BY <1>2, <1>3 DEF Control, IsLatched
<1> QED BY <1>5, <1>6, <1>7, <1>8, <1>9 DEF Control

\* So does every command of the operator.
LEMMA CommandsAreSafe ==
  ASSUME Control, Command
  PROVE  Control'
<1>1. CASE \E count \in 1..MAX_OUTLETS, requested \in DURATIONS : Start(count, requested)
  BY <1>1, StartIsSafe
<1>2. CASE RefuseStart
  BY <1>2, RefusalIsSafe
<1>3. CASE Stop
  BY <1>3, StopIsSafe
<1>4. CASE AcknowledgeLatch
  BY <1>4, AcknowledgingIsSafe
<1>5. CASE Pause \/ Resume \/ SetTemperature
  <2>1. PICK command \in {"Pause", "Resume", "SetTemperature"} :
          /\ inflight' = InFlight(command, command, 0, OwnTarget)
          /\ command = "Pause" => phase = "Running"
          /\ command = "Resume" => phase = "Paused"
          /\ command = "SetTemperature" => Watering
    BY <1>5 DEF Pause, Resume, SetTemperature, Order, Send
  <2>2. UNCHANGED controlVars
    BY <1>5 DEF Pause, Resume, SetTemperature, Order, Steady, sessionVars, controlVars
  <2>3. JobFits(command, command, phase)
    BY <2>1 DEF JobFits, Jobs, Watering
  <2> QED BY <2>1, <2>2, <2>3, Asked
<1> QED BY <1>1, <1>2, <1>3, <1>4, <1>5 DEF Command

-----------------------------------------------------------------------------
(* The passage of time.                                                     *)

\* The clock alone moves ages, and makes no session of none.
LEMMA TimeIsSafe ==
  ASSUME Control, Elapse
  PROVE  Control'
<1>1. /\ session' = [session EXCEPT !.ran = Plus1(session.ran, session.limit)]
      /\ UNCHANGED <<phase, latch, kernel, stagger, grant, stopping>>
  BY DEF Elapse
<1>2. session \in [ran : Nat, limit : Nat]
  BY DEF Control, ControlTypeOK
<1>3. Plus1(session.ran, session.limit) \in Nat
  BY <1>2 DEF Plus1
<1>4. session' \in [ran : Nat, limit : Nat] /\ session'.limit = session.limit
  BY <1>1, <1>2, <1>3
<1>5. session' = NoSession <=> session = NoSession
  <2>1. CASE session = NoSession
    BY <1>1, <1>2, <2>1 DEF NoSession, Plus1
  <2>2. CASE session # NoSession
    <3>1. session'.limit > 0
      BY <1>4, <2>2 DEF Control
    <3> QED BY <2>2, <3>1 DEF NoSession
  <2> QED BY <2>1, <2>2
<1>6. IsTransaction(inflight) /\ SameRequest(inflight, inflight')
  <2>1. IsTransaction(inflight)
    BY DEF Control
  <2>2. CASE Outstanding
    <3>1. inflight' = [inflight EXCEPT !.sent = Plus1(inflight.sent, RESPONSE + 1),
                                       !.total = Plus1(inflight.total, CEILING)]
      BY <2>2 DEF Elapse
    <3> QED BY <2>1, <3>1, Aged
  <2>3. CASE ~Outstanding
    BY <2>1, <2>3 DEF Elapse, SameRequest
  <2> QED BY <2>1, <2>2, <2>3
<1>7. ControlTypeOK' /\ KernelAgrees'
  BY <1>1, <1>4 DEF Control, ControlTypeOK, KernelAgrees, Watering
<1>8. GrantHasSession'
  BY <1>1, <1>5 DEF Control, GrantHasSession, Watering
<1>9. JobFitsPhase' /\ IsTransaction(inflight')
  BY <1>1, <1>6 DEF Control, JobFitsPhase, SameRequest
<1>10. (kernel.state = "Running" => grant)' /\ (session # NoSession => session.limit > 0)'
  BY <1>1, <1>4, <1>5 DEF Control
<1> QED BY <1>7, <1>8, <1>9, <1>10 DEF Control

-----------------------------------------------------------------------------
(* The inductive invariant, and what follows from it.                       *)

\* A fresh service satisfies the invariant, whatever the valve was left at.
LEMMA ControlAtFirst == Init => Control
<1> SUFFICES ASSUME Init PROVE Control
  OBVIOUS
<1>1. ControlTypeOK
  BY DEF Init, ControlTypeOK, Phases, Unlatched, LinkStates, NoLatch, NoStagger, NoSession
<1>2. KernelAgrees /\ GrantHasSession
  BY DEF Init, KernelAgrees, GrantHasSession, Unlatched, IsLatched, Watering
<1>3. JobFitsPhase /\ IsTransaction(inflight)
  BY NothingIsATransaction DEF Init, JobFitsPhase, JobFits, NoTransaction
<1>4. kernel.state # "Running" /\ session = NoSession
  BY DEF Init, Unlatched
<1> QED BY <1>1, <1>2, <1>3, <1>4 DEF Control

\* Every step keeps it.
LEMMA ControlIsKept ==
  ASSUME Control, StepsInRange, [Next]_vars
  PROVE  Control'
<1>1. CASE Tick
  BY <1>1, TicksAreSafe
<1>2. CASE ResponseTimeout
  BY <1>2, TimeoutsAreSafe
<1>3. CASE Receive
  BY <1>3, RepliesAreSafe
<1>4. CASE Command
  BY <1>4, CommandsAreSafe
<1>5. CASE PortLost
  <2>1. Escalate("PortLost", replies)
    BY <1>5 DEF PortLost
  <2> QED BY <2>1, EscalationIsSafe DEF Faults, LinkFaults
<1>6. CASE ServiceFailure
  <2>1. Escalate("ServiceFailure", replies)
    BY <1>6 DEF ServiceFailure
  <2> QED BY <2>1, EscalationIsSafe DEF Faults, SharedFaults
<1>7. CASE PumpClosed \/ UNCHANGED vars
  <2>1. UNCHANGED controlVars /\ SameRequest(inflight, inflight')
    BY <1>7 DEF PumpClosed, vars, sessionVars, controlVars, SameRequest, Control
  <2> QED BY <2>1, Undisturbed
<1>8. CASE Elapse
  BY <1>8, TimeIsSafe
<1> QED BY <1>1, <1>2, <1>3, <1>4, <1>5, <1>6, <1>7, <1>8 DEF Next

\* So both invariants hold throughout.
LEMMA ControlAlways == Spec => [](Control /\ StepsInRange)
<1>1. Init => Control /\ StepsInRange
  BY ControlAtFirst, FirstSteps
<1>2. Control /\ StepsInRange /\ [Next]_vars => (Control /\ StepsInRange)'
  BY ControlIsKept, StepsStayInRange
<1> QED BY <1>1, <1>2, PTL DEF Spec

\* The kernel's record of the link and the machine's phase never part,
\* although different calls update them: the two can only be read together.
THEOREM KernelAndMachineAgree == Spec => []KernelAgrees
<1>1. Control => KernelAgrees
  BY DEF Control
<1> QED BY <1>1, ControlAlways, PTL

\* Grant, session and outlet plan begin and end together, on every path out of
\* a session: stop, expiry, fault, confirmation.
THEOREM GrantsEndWithSessions == Spec => []GrantHasSession
<1>1. Control => GrantHasSession
  BY DEF Control
<1> QED BY <1>1, ControlAlways, PTL

\* No boot step and no confirmation is ever left without a transaction, so the
\* arms of on_tick for that case are dead and an all-off waits for no tick.
THEOREM AllOffNeverWaits == Spec => []BootStepsAreOutstanding
<1>1. Control => BootStepsAreOutstanding
  BY DEF Control, JobFitsPhase, JobFits, BootStepsAreOutstanding, Outstanding
<1> QED BY <1>1, ControlAlways, PTL

\* What is outstanding is a frame the encoder passes: the machine never takes
\* the other zones down by asking for one it refuses.
THEOREM EncoderAlwaysAccepts == Spec => []EncoderNeverRefuses
<1>1. ASSUME Control PROVE EncoderNeverRefuses
  <2>1. inflight.op \in {"SetOutlets", "SetTemperature", "Pause", "Resume"}
          => phase \in {"Running", "Paused"}
    BY <1>1 DEF Control, JobFitsPhase, JobFits
  <2>2. inflight.op = "SetOutlets" => grant
    BY <1>1 DEF Control, JobFitsPhase, JobFits, GrantHasSession, Watering
  <2>3. phase \in {"Running", "Paused"} => LinkPhase(phase) \notin {"Booting", "Discovery"}
    BY DEF LinkPhase
  <2> QED BY <2>1, <2>2, <2>3 DEF EncoderNeverRefuses, Encodable, Writes
<1> QED BY <1>1, ControlAlways, PTL

-----------------------------------------------------------------------------
(* What reaches the valve.                                                  *)

OnlyCloses == open' \in {open, 0}
NothingStarts == OnlyCloses /\ (heated' => heated) /\ paused' = paused

\* Only an outlet write opens an outlet, and an all-off starts nothing.
LEMMA OnTheWire ==
  ASSUME NEW op, NEW count, NEW target, NEW q, NEW listening,
         Carry(op, count, target, q, listening)
  PROVE  /\ OnlyCloses \/ (op = "SetOutlets" /\ open' = count)
         /\ op = "AllOff" => NothingStarts
<1>1. CASE UNCHANGED valveState
  BY <1>1 DEF valveState, OnlyCloses, NothingStarts
<1>2. CASE \E o \in Outcomes(op) :
             /\ open' = OpenAfter(o.acts, op, count)
             /\ paused' = IF o.acts /\ ControlByte(op) = "WRITE_PAUSE_STATE"
                          THEN op = "Pause" ELSE paused
             /\ heated' = CASE o.acts /\ op = "SetTemperature" -> TRUE
                            [] o.acts /\ op = "AllOff"         -> FALSE
                            [] OTHER                           -> heated
  <2>1. PICK o \in Outcomes(op) :
             /\ open' = OpenAfter(o.acts, op, count)
             /\ paused' = IF o.acts /\ ControlByte(op) = "WRITE_PAUSE_STATE"
                          THEN op = "Pause" ELSE paused
             /\ heated' = CASE o.acts /\ op = "SetTemperature" -> TRUE
                            [] o.acts /\ op = "AllOff"         -> FALSE
                            [] OTHER                           -> heated
    BY <1>2
  <2>2. OnlyCloses \/ (op = "SetOutlets" /\ open' = count)
    BY <2>1 DEF OpenAfter, OnlyCloses
  <2>3. ASSUME op = "AllOff" PROVE NothingStarts
    <3>1. OnlyCloses
      BY <2>2, <2>3
    <3>2. ControlByte(op) # "WRITE_PAUSE_STATE"
      BY <2>3 DEF ControlByte
    <3>3. paused' = paused
      BY <2>1, <3>2
    <3>4. heated' => heated
      BY <2>1, <2>3
    <3> QED BY <3>1, <3>3, <3>4 DEF NothingStarts
  <2> QED BY <2>2, <2>3
<1> QED BY <1>1, <1>2 DEF Carry

\* The same through the port, open or closed.
LEMMA Transmitted ==
  ASSUME NEW op, NEW count, NEW target, NEW q, Transmit(op, count, target, q)
  PROVE  OnlyCloses \/ (op = "SetOutlets" /\ open' = count)
BY OnTheWire DEF Transmit, Silence, valveState, OnlyCloses

\* An escalation sends an all-off or nothing.
LEMMA EscalationCloses ==
  ASSUME NEW event, NEW q, Escalate(event, q)
  PROVE  NothingStarts /\ inflight'.count = 0
<1>1. inflight'.count = 0
  BY NothingIsATransaction DEF Escalate
<1>2. \/ \E r : Silence(r)
      \/ \E r, l : Carry("AllOff", 0, OwnTarget, r, l)
  BY DEF Escalate
<1>3. NothingStarts
  BY <1>2, OnTheWire DEF Silence, valveState, OnlyCloses, NothingStarts
<1> QED BY <1>1, <1>3

\* Every step but a retry and the next step of the plan leaves the outlets as
\* they are or closes them all.
LEMMA OthersOnlyClose ==
  ASSUME Control, StepsInRange, [Next]_vars, ~Retry, ~OpenNextOutlet
  PROVE  OnlyCloses /\ inflight'.count \in {inflight.count, 0}
<1>1. ASSUME NEW job, NEW op, NEW target, NEW q, Send(job, op, 0, target, q), op # "SetOutlets"
      PROVE  OnlyCloses /\ inflight'.count \in {inflight.count, 0}
  BY <1>1, Transmitted, InFlightFields DEF Send
<1>2. ASSUME NEW event, NEW q, Escalate(event, q)
      PROVE  OnlyCloses /\ inflight'.count \in {inflight.count, 0}
  BY <1>2, EscalationCloses DEF NothingStarts
<1>3. ASSUME open' = open, inflight' \in {inflight, NoTransaction}
      PROVE  OnlyCloses /\ inflight'.count \in {inflight.count, 0}
  BY <1>3, NothingIsATransaction DEF OnlyCloses
<1>4. ASSUME NEW f, NEW q, NextProbe(f, q)
      PROVE  OnlyCloses /\ inflight'.count \in {inflight.count, 0}
  <2>1. \/ \E event : Escalate(event, q)
        \/ \E target : Send("Probe", "ReadFirmwareType", 0, target, q)
        \/ \E target : Send("Identify", IDENTIFY[1], 0, target, q)
    BY <1>4 DEF NextProbe, FinishDiscovery
  <2> QED BY <2>1, <1>1, <1>2, RoutineReads
<1>5. CASE Tick
  <2>1. \/ open' = open /\ inflight' \in {inflight, NoTransaction}
        \/ Send("ConfirmOff", "AllOff", 0, OwnTarget, replies)
        \/ Send("Probe", "ReadFirmwareType", 0, VALVE_ADDR_MIN, replies)
        \/ Send("Poll", POLL[pollStep + 1], 0, OwnTarget, replies)
    BY <1>5 DEF Tick, ExpireSession, Occupied, BeginDiscovery, Poll, Silence, valveState
  <2> QED BY <2>1, <1>1, <1>3, RoutineReads
<1>6. CASE ResponseTimeout
  <2>1. CASE AwaitRetry
    <3>1. open' = open /\ inflight' = [inflight EXCEPT !.retry = TRUE]
      BY <2>1 DEF AwaitRetry, Silence, valveState
    <3>2. SameRequest(inflight, inflight')
      BY <3>1, Touched DEF Control
    <3> QED BY <3>1, <3>2 DEF SameRequest, OnlyCloses
  <2>2. CASE ProbeUnanswered \/ GiveUp
    BY <2>2, <1>2, <1>4 DEF ProbeUnanswered, GiveUp
  <2> QED BY <1>6, <2>1, <2>2 DEF ResponseTimeout
<1>7. CASE Receive
  <2>1. CASE DiscardStale \/ SetpointAcknowledged \/ PollAnswered \/ OutletAcknowledged
               \/ PauseAcknowledged \/ OffConfirmed
    <3>1. open' = open /\ inflight' \in {inflight, NoTransaction}
      BY <2>1 DEF DiscardStale, SetpointAcknowledged, PollAnswered, OutletAcknowledged,
           PauseAcknowledged, OffConfirmed, Silence, valveState
    <3> QED BY <3>1, <1>3
  <2>2. CASE Unsolicited \/ Undecodable \/ TooLate \/ Nakked \/ ErrorAnswered \/ ReadCondemned
    <3>1. \E event : Escalate(event, Rest)
      BY <2>2 DEF Unsolicited, Undecodable, TooLate, Nakked, ErrorAnswered, ReadCondemned
    <3> QED BY <3>1, <1>2
  <2>3. CASE ProbeAnswered
    BY <2>3, <1>4 DEF ProbeAnswered
  <2>4. CASE IdentityRead
    <3>1. \/ identifyStep < Len(IDENTIFY)
             /\ Send("Identify", IDENTIFY[identifyStep + 1], 0, OwnTarget, Rest)
          \/ Send("ConfirmOff", "AllOff", 0, OwnTarget, Rest)
      BY <2>4 DEF IdentityRead
    <3> QED BY <3>1, <1>1, RoutineReads
  <2> QED BY <1>7, <2>1, <2>2, <2>3, <2>4 DEF Receive
<1>8. CASE Command
  <2>1. \/ open' = open /\ inflight' = inflight
        \/ \E job : \E op \in {"SetTemperature", "AllOff", "Pause", "Resume"} :
             Send(job, op, 0, OwnTarget, replies)
    BY <1>8 DEF Command, Start, RefuseStart, Stop, Pause, Resume, SetTemperature, Order,
         AcknowledgeLatch, busVars
  <2> QED BY <2>1, <1>1, <1>3
<1>9. CASE PortLost \/ ServiceFailure
  BY <1>9, <1>2 DEF PortLost, ServiceFailure
<1>10. CASE PumpClosed \/ UNCHANGED vars
  <2>1. open' = open /\ inflight' = inflight
    BY <1>10 DEF PumpClosed, vars, busVars
  <2> QED BY <2>1, <1>3
<1>11. CASE Elapse
  <2>1. open' = open
    BY <1>11 DEF Elapse, ValveAges
  <2>2. IsTransaction(inflight)
    BY DEF Control
  <2>3. inflight'.count = inflight.count
    <3>1. CASE Outstanding
      <4>1. inflight' = [inflight EXCEPT !.sent = Plus1(inflight.sent, RESPONSE + 1),
                                         !.total = Plus1(inflight.total, CEILING)]
        BY <1>11, <3>1 DEF Elapse
      <4>2. SameRequest(inflight, inflight')
        BY <2>2, <4>1, Aged
      <4> QED BY <4>2 DEF SameRequest
    <3>2. CASE ~Outstanding
      BY <1>11, <3>2 DEF Elapse
    <3> QED BY <3>1, <3>2
  <2> QED BY <2>1, <2>3 DEF OnlyCloses
<1> QED BY <1>5, <1>6, <1>7, <1>8, <1>9, <1>10, <1>11 DEF Next

\* The two steps that may open an outlet, and what holds when they do.
LEMMA WhatOpens ==
  ASSUME Control, Retry \/ OpenNextOutlet
  PROVE  \/ OnlyCloses /\ inflight'.count = inflight.count
         \/ /\ phase = "Running" /\ phase' = "Running" /\ kernel.state = "Running"
            /\ grant /\ ~SessionExpired
            /\ open' \in {open, 0, inflight'.count}
            /\ inflight'.count \in {inflight.count, stagger.next + 1}
<1>1. ASSUME phase = "Running", SettlePurge
      PROVE  phase' = "Running" /\ kernel.state = "Running" /\ grant
  BY <1>1 DEF SettlePurge, PurgeOver, Control, KernelAgrees, GrantHasSession, Watering
<1>2. CASE Retry
  <2>1. SettlePurge /\ ~SessionExpired /\ Transmit(inflight.op, inflight.count, inflight.target, replies)
    BY <1>2 DEF Retry
  <2>2. inflight'.count = inflight.count
    <3>1. IsTransaction(inflight)
      BY DEF Control
    <3>2. inflight' = [inflight EXCEPT !.retry = FALSE, !.sent = 0,
                                       !.attempts = Plus1(inflight.attempts, ATTEMPTS)]
      BY <1>2 DEF Retry
    <3>3. SameRequest(inflight, inflight')
      BY <3>1, <3>2, Retransmitted
    <3> QED BY <3>3 DEF SameRequest
  <2>3. inflight.op = "SetOutlets" => phase = "Running"
    BY DEF Control, JobFitsPhase, JobFits
  <2> QED BY <1>1, <2>1, <2>2, <2>3, Transmitted
<1>3. CASE OpenNextOutlet
  <2>1. /\ SettlePurge /\ ~SessionExpired /\ phase = "Running"
        /\ inflight' = InFlight("Open", "SetOutlets", stagger.next + 1, OwnTarget)
        /\ Transmit("SetOutlets", stagger.next + 1, OwnTarget, replies)
    BY <1>3 DEF OpenNextOutlet, Send
  <2>2. inflight'.count = stagger.next + 1
    BY <2>1, InFlightFields
  <2> QED BY <1>1, <2>1, <2>2, Transmitted DEF OnlyCloses
<1> QED BY <1>2, <1>3

\* How many outlets are open, and how many an outstanding write asks for.
Counted == open \in Nat /\ inflight.count \in Nat

\* Both are numbers throughout.
LEMMA CountedAlways == Spec => [](Control /\ StepsInRange /\ Counted)
<1>1. Init => Counted
  BY ValveBusAssumption, NothingIsATransaction DEF Init, BusInit, Counted
<1>2. ASSUME Control, StepsInRange, Counted, [Next]_vars PROVE Counted'
  <2>1. stagger.next \in Nat
    BY <1>2 DEF Control, ControlTypeOK
  <2>2. CASE Retry \/ OpenNextOutlet
    BY <1>2, <2>1, <2>2, WhatOpens DEF OnlyCloses, Counted
  <2>3. CASE ~Retry /\ ~OpenNextOutlet
    BY <1>2, <2>3, OthersOnlyClose DEF OnlyCloses, Counted
  <2> QED BY <2>2, <2>3
<1> QED BY <1>1, <1>2, ControlAlways, PTL DEF Spec

\* No outlet opens but in a session: the machine and the kernel both running,
\* the grant in hand, and the deadline not yet reached.  A retry is held to it
\* like a first transmission.
THEOREM WaterNeedsASession == Spec => OpensOnlyInSession
<1>1. ASSUME Control, StepsInRange, Counted, [Next]_vars
      PROVE  [open' > open =>
                /\ phase = "Running" /\ phase' = "Running"
                /\ kernel.state = "Running"
                /\ grant /\ ~SessionExpired]_vars
  <2> SUFFICES ASSUME open' > open
               PROVE  /\ phase = "Running" /\ phase' = "Running"
                      /\ kernel.state = "Running"
                      /\ grant /\ ~SessionExpired
    OBVIOUS
  <2>1. ~OnlyCloses
    BY <1>1 DEF OnlyCloses, Counted
  <2>2. Retry \/ OpenNextOutlet
    BY <1>1, <2>1, OthersOnlyClose
  <2> QED BY <1>1, <2>1, <2>2, WhatOpens
<1> QED BY <1>1, CountedAlways, PTL DEF Spec, OpensOnlyInSession

\* A latched zone stays latched, in the machine and in the kernel, and nothing
\* it still does starts water, heat or a pause.
THEOREM LatchedZonesStay == Spec => LatchIsAbsorbing
<1>1. ASSUME Control, StepsInRange, Counted, [Next]_vars
      PROVE  [phase = "Unavailable" =>
                /\ phase' = "Unavailable" /\ IsLatched(kernel')
                /\ open' <= open /\ (heated' => heated) /\ paused' = paused]_vars
  <2> SUFFICES ASSUME phase = "Unavailable"
               PROVE  /\ phase' = "Unavailable" /\ IsLatched(kernel')
                      /\ open' <= open /\ (heated' => heated) /\ paused' = paused
    OBVIOUS
  <2>1. IsLatched(kernel) /\ ~Outstanding
    BY <1>1 DEF Control, KernelAgrees, JobFitsPhase, JobFits, Jobs, Outstanding
  <2>2. ASSUME NEW event, NEW q, Escalate(event, q)
        PROVE  phase' = "Unavailable" /\ NothingStarts
    BY <2>2, EscalationCloses DEF Escalate
  <2>3. phase' = "Unavailable" /\ NothingStarts
    <3>1. CASE \E event, q : Escalate(event, q)
      BY <3>1, <2>2
    <3>2. CASE UNCHANGED <<phase, open, paused, heated>>
      BY <3>2 DEF NothingStarts, OnlyCloses
    <3>3. CASE Tick \/ ResponseTimeout
      BY <3>3 DEF Tick, ExpireSession, Retry, Occupied, BeginDiscovery, OpenNextOutlet, Poll,
           TickTaken, Due, ResponseTimeout, ProbeUnanswered, GiveUp, AwaitRetry,
           TimeoutTaken, TimedOut
    <3>4. CASE Receive
      <4>1. DiscardStale \/ Unsolicited
        BY <2>1, <3>4 DEF Receive, ProbeAnswered, Undecodable, TooLate, Nakked, ErrorAnswered,
             ReadCondemned, IdentityRead, PollAnswered, OffConfirmed, SetpointAcknowledged,
             OutletAcknowledged, PauseAcknowledged, Echoed, Decoded, Outstanding
      <4> QED BY <4>1, <3>1, <3>2 DEF DiscardStale, Unsolicited, Steady, Silence, valveState
    <3>5. CASE Command
      <4>1. AcknowledgeLatch
        BY <2>1, <3>5 DEF Command, Start, RefuseStart, Stop, Pause, Resume, SetTemperature,
             Order, MayOpen, IsLatched, Watering
      <4> QED BY <4>1, <3>2 DEF AcknowledgeLatch, busVars
    <3>6. CASE PortLost \/ ServiceFailure
      BY <3>6, <3>1 DEF PortLost, ServiceFailure
    <3>7. CASE PumpClosed \/ Elapse \/ UNCHANGED vars
      BY <3>7, <3>2 DEF PumpClosed, Elapse, ValveAges, vars, busVars
    <3> QED BY <1>1, <3>3, <3>4, <3>5, <3>6, <3>7 DEF Next
  <2>4. IsLatched(kernel')
    <3>1. Control'
      BY <1>1, ControlIsKept
    <3> QED BY <2>3, <3>1 DEF Control, KernelAgrees
  <2> QED BY <1>1, <2>3, <2>4 DEF NothingStarts, OnlyCloses, Counted
<1> QED BY <1>1, CountedAlways, PTL DEF Spec, LatchIsAbsorbing

-----------------------------------------------------------------------------
(* The zone implements ZoneAuthority, as long as no fault is shared: a      *)
(* shared fault leaves the port open for the answer to its all-off.         *)

\* A grant is never in hand on a link whose kernel is cold.
WarmGrant == grant => kernel.state # "Cold"

\* An escalation of a fault of this link is the owner's latch.
LEMMA EscalationIsTheLatch ==
  ASSUME NEW event \in ZoneFaults \cup {"PortLost"}, NEW q, Escalate(event, q)
  PROVE  Authority!Latch /\ kernel'.state = "Latched"
<1>1. event \in Faults /\ event \notin Routine /\ ClosesPort(event)
  BY DEF Faults, ZoneFaults, LinkFaults, Routine, ClosesPort
<1>2. kernel'.state = "Latched"
  BY <1>1 DEF Escalate, Ruled, LatchedFor
<1>3. AuthorityPhase' = "Latched"
  BY <1>2 DEF AuthorityPhase, IsLatched
<1>4. portOpen' = FALSE /\ session' = NoSession /\ latch' = [reason |-> event, ack |-> FALSE]
  BY <1>1 DEF Escalate
<1> QED BY <1>1, <1>2, <1>3, <1>4 DEF Authority!Latch, Authority!NoSession, NoSession

\* A step that keeps what the owner holds, a change of phase that is no pause
\* included, is none of the owner's steps.
LEMMA NothingOwned ==
  ASSUME UNCHANGED <<kernel, grant, portOpen, session, latch>>,
         phase' = phase \/ (phase # "Paused" /\ phase' # "Paused")
  PROVE  UNCHANGED Authority!vars
BY DEF AuthorityPhase, IsLatched, Authority!vars

\* The end of a purge is the owner's Ready; otherwise a tick owns nothing.
LEMMA SettlingIsReady ==
  ASSUME Control, SettlePurge
  PROVE  (Authority!Ready \/ UNCHANGED Authority!vars) /\ (WarmGrant => WarmGrant')
<1>1. UNCHANGED <<latch, portOpen, session, grant>>
  BY DEF SettlePurge, sessionVars
<1>2. CASE PurgeOver
  <2>1. phase = "Purging" /\ kernel' = MarkReady(kernel)
    BY <1>2 DEF SettlePurge, PurgeOver
  <2>2. ~IsLatched(kernel) /\ ~grant /\ session = NoSession /\ kernel' = Unlatched("Ready")
    BY <2>1 DEF Control, KernelAgrees, GrantHasSession, Watering, MarkReady
  <2>3. AuthorityPhase # "Latched" /\ AuthorityPhase' = "ReadyOff"
    BY <2>2, <1>1 DEF AuthorityPhase, IsLatched, Unlatched
  <2> QED BY <1>1, <2>2, <2>3
          DEF Authority!Ready, Authority!IsLatched, Authority!NoSession, NoSession, WarmGrant
<1>3. CASE ~PurgeOver
  <2>1. UNCHANGED <<kernel, phase>>
    BY <1>3 DEF SettlePurge
  <2> QED BY <1>1, <2>1, NothingOwned DEF WarmGrant
<1> QED BY <1>2, <1>3

OwnerStep == (Authority!Next \/ UNCHANGED Authority!vars) /\ WarmGrant'

\* Ticks: only the end of a purge and an expiry are seen by the owner, and of
\* an expiry only that a pause is over.
LEMMA OwnersTick ==
  ASSUME Control, WarmGrant, Tick
  PROVE  OwnerStep
<1>1. CASE Retry \/ Occupied \/ OpenNextOutlet \/ Poll
  <2>1. SettlePurge
    BY <1>1 DEF Retry, Occupied, OpenNextOutlet, Poll
  <2> QED BY <2>1, SettlingIsReady DEF OwnerStep, Authority!Next
<1>2. CASE BeginDiscovery
  <2>1. UNCHANGED <<kernel, grant, portOpen, session, latch>>
        /\ phase = "Cold" /\ phase' = "Discovery"
    BY <1>2 DEF BeginDiscovery, sessionVars
  <2> QED BY <2>1, NothingOwned DEF OwnerStep, WarmGrant
<1>3. CASE ExpireSession
  <2>1. /\ phase # "Unavailable" /\ phase' = "ConfirmOff"
        /\ kernel' = MarkStopped(kernel)
        /\ UNCHANGED <<grant, portOpen, session, latch>>
        /\ session # NoSession
    BY <1>3 DEF ExpireSession, TickTaken, Due, Ruled, Routine, SessionExpired
  <2>2. grant /\ ~IsLatched(kernel) /\ kernel.state # "Cold"
    BY <2>1 DEF Control, GrantHasSession, KernelAgrees, WarmGrant
  <2>3. kernel'.state # "Cold" /\ ~IsLatched(kernel')
    BY <2>1, <2>2 DEF MarkStopped, Unlatched, IsLatched
  <2>4. AuthorityPhase' = "Running"
    BY <2>1, <2>2, <2>3 DEF AuthorityPhase
  <2>5. AuthorityPhase \in {"Running", "Paused"}
    BY <2>2 DEF AuthorityPhase
  <2>6. CASE AuthorityPhase = "Running"
    BY <2>1, <2>3, <2>4, <2>6 DEF OwnerStep, Authority!vars, WarmGrant
  <2>7. CASE AuthorityPhase = "Paused"
    BY <2>1, <2>3, <2>4, <2>7 DEF OwnerStep, Authority!Next, Authority!Resume, WarmGrant
  <2> QED BY <2>5, <2>6, <2>7
<1> QED BY <1>1, <1>2, <1>3 DEF Tick

\* An escalation is a step of the owner's.
LEMMA OwnersLatch ==
  ASSUME NEW event \in ZoneFaults \cup {"PortLost"}, NEW q, Escalate(event, q)
  PROVE  OwnerStep
BY EscalationIsTheLatch DEF OwnerStep, Authority!Next, WarmGrant

\* The scan ends in a latch or in nothing the owner sees.
LEMMA OwnersProbe ==
  ASSUME Control, WarmGrant, NEW f, NEW q, NextProbe(f, q), inflight.job = "Probe"
  PROVE  OwnerStep
<1>1. phase = "Discovery"
  BY DEF Control, JobFitsPhase, JobFits
<1>2. \/ Escalate("SafetyResponseMissed", q) \/ Escalate("OutOfRangeValue", q)
      \/ /\ UNCHANGED <<kernel, grant, portOpen, session, latch>>
         /\ phase' \in {phase, "Identify"}
  BY DEF NextProbe, FinishDiscovery, Steady, sessionVars
<1> QED BY <1>1, <1>2, OwnersLatch, NothingOwned DEF ZoneFaults, OwnerStep, WarmGrant

\* Timeouts.
LEMMA OwnersTimeout ==
  ASSUME Control, WarmGrant, ResponseTimeout
  PROVE  OwnerStep
<1>1. CASE ProbeUnanswered
  BY <1>1, OwnersProbe DEF ProbeUnanswered
<1>2. CASE GiveUp
  BY <1>2, OwnersLatch DEF GiveUp, ZoneFaults
<1>3. CASE AwaitRetry
  BY <1>3, NothingOwned DEF AwaitRetry, Steady, sessionVars, OwnerStep, WarmGrant
<1> QED BY <1>1, <1>2, <1>3 DEF ResponseTimeout

\* Replies: a confirmed all-off is the owner's Ready, the end of a session or
\* of the boot; before a purge after the boot nothing is ready yet.
LEMMA OwnersOff ==
  ASSUME Control, WarmGrant, OffConfirmed
  PROVE  OwnerStep
<1>1. phase = "ConfirmOff" /\ ~IsLatched(kernel)
  BY DEF OffConfirmed, Echoed, Control, JobFitsPhase, JobFits, KernelAgrees
<1>2. grant => stopping
  BY <1>1 DEF Control, GrantHasSession, Watering
<1>3. ~grant' /\ session' = NoSession
  BY <1>2 DEF OffConfirmed, Control, GrantHasSession
<1>4. UNCHANGED <<latch, portOpen>>
  BY DEF OffConfirmed
<1>5. WarmGrant'
  BY <1>3 DEF WarmGrant
<1>6. AuthorityPhase # "Latched"
  BY <1>1 DEF AuthorityPhase
<1>7. kernel.state = "Running" => stopping
  BY <1>2 DEF Control
<1>8. kernel' \in {kernel, Unlatched("Ready")}
  BY <1>1 DEF OffConfirmed, MarkStopped, MarkReady, Unlatched, IsLatched
<1>9. CASE kernel'.state = "Cold"
  <2>1. UNCHANGED kernel /\ ~grant /\ session = NoSession
    BY <1>8, <1>9 DEF WarmGrant, Unlatched, Control, GrantHasSession
  <2> QED BY <1>3, <1>4, <1>5, <2>1, <1>9 DEF OwnerStep, Authority!vars, AuthorityPhase, IsLatched
<1>10. CASE kernel'.state # "Cold"
  <2>1. ~IsLatched(kernel')
    BY <1>1, <1>8 DEF IsLatched, Unlatched
  <2>2. AuthorityPhase' = "ReadyOff"
    BY <1>3, <1>10, <2>1 DEF AuthorityPhase
  <2> QED BY <1>3, <1>4, <1>5, <1>6, <2>2
          DEF OwnerStep, Authority!Next, Authority!Ready, Authority!IsLatched,
              Authority!NoSession, NoSession
<1> QED BY <1>9, <1>10

\* The acknowledgement of a pause or a resume is the owner's own.
LEMMA OwnersPause ==
  ASSUME Control, WarmGrant, PauseAcknowledged
  PROVE  OwnerStep
<1>1. UNCHANGED <<kernel, grant, portOpen, session, latch>>
  BY DEF PauseAcknowledged, sessionVars
<1>2. \/ phase = "Running" /\ phase' = "Paused"
      \/ phase = "Paused" /\ phase' = "Running"
      \/ phase' = phase
  BY DEF PauseAcknowledged
<1>3. CASE phase' = phase
  BY <1>1, <1>3, NothingOwned DEF OwnerStep, WarmGrant
<1>4. CASE phase # phase'
  <2>1. grant /\ kernel.state = "Running"
    BY <1>2, <1>4 DEF Control, GrantHasSession, KernelAgrees, Watering
  <2>2. AuthorityPhase = phase /\ AuthorityPhase' = phase'
    BY <1>1, <1>2, <1>4, <2>1 DEF AuthorityPhase, IsLatched
  <2> QED BY <1>1, <1>2, <1>4, <2>2
          DEF OwnerStep, Authority!Next, Authority!Pause, Authority!Resume, WarmGrant
<1> QED BY <1>3, <1>4

\* Replies: reads, acknowledgements and faults, with the two lemmas above.
LEMMA OwnersReply ==
  ASSUME Control, WarmGrant, Receive
  PROVE  OwnerStep
<1>1. CASE DiscardStale \/ PollAnswered \/ SetpointAcknowledged \/ OutletAcknowledged
  <2>1. UNCHANGED <<phase, kernel, grant, portOpen, session, latch>>
    BY <1>1 DEF DiscardStale, PollAnswered, SetpointAcknowledged, OutletAcknowledged,
         Steady, sessionVars
  <2> QED BY <2>1, NothingOwned DEF OwnerStep, WarmGrant
<1>2. CASE Unsolicited \/ Undecodable \/ TooLate \/ Nakked \/ ErrorAnswered \/ ReadCondemned
  <2>1. \E event \in ZoneFaults : Escalate(event, Rest)
    BY <1>2 DEF Unsolicited, Undecodable, TooLate, Nakked, ErrorAnswered, ReadCondemned,
         ZoneFaults
  <2> QED BY <2>1, OwnersLatch
<1>3. CASE ProbeAnswered
  BY <1>3, OwnersProbe DEF ProbeAnswered
<1>4. CASE IdentityRead
  <2>1. phase = "Identify"
    BY <1>4 DEF IdentityRead, Echoed, Control, JobFitsPhase, JobFits
  <2>2. /\ phase' \in {phase, "ConfirmOff"}
        /\ UNCHANGED <<kernel, grant, portOpen, session, latch>>
    BY <1>4 DEF IdentityRead
  <2> QED BY <2>1, <2>2, NothingOwned DEF OwnerStep, WarmGrant
<1> QED BY <1>1, <1>2, <1>3, <1>4, OwnersOff, OwnersPause DEF Receive

\* Commands: a start is the owner's, from ReadyOff and with a new session; a
\* stop ends a pause.
LEMMA OwnersCommand ==
  ASSUME Control, WarmGrant, Command
  PROVE  OwnerStep
<1>1. CASE \E count \in 1..MAX_OUTLETS, requested \in DURATIONS : Start(count, requested)
  <2>1. PICK requested \in DURATIONS :
               session' = [ran |-> 0, limit |-> Smaller(requested, SESSION_CAP)]
    BY <1>1 DEF Start
  <2>2. /\ MayOpen(kernel) /\ phase = "ReadyOff" /\ kernel' = Opened
        /\ grant' = TRUE /\ phase' = "Running" /\ UNCHANGED <<latch, portOpen>>
    BY <1>1 DEF Start
  <2>3. ~grant
    BY <2>2 DEF Control, GrantHasSession, Watering
  <2>4. AuthorityPhase = "ReadyOff"
    BY <2>2, <2>3 DEF AuthorityPhase, MayOpen, IsLatched
  <2>5. AuthorityPhase' = "Running" /\ WarmGrant'
    BY <2>2 DEF AuthorityPhase, Opened, Unlatched, IsLatched, WarmGrant
  <2> QED BY <2>1, <2>2, <2>4, <2>5 DEF OwnerStep, Authority!Next, Authority!Start
<1>2. CASE Stop
  <2>1. /\ phase # "Unavailable" /\ phase' = "ConfirmOff"
        /\ UNCHANGED <<kernel, grant, portOpen, session, latch>>
    BY <1>2 DEF Stop
  <2>2. CASE phase # "Paused"
    BY <2>1, <2>2, NothingOwned DEF OwnerStep, WarmGrant
  <2>3. CASE phase = "Paused"
    <3>1. grant /\ kernel.state = "Running"
      BY <2>3 DEF Control, GrantHasSession, KernelAgrees, Watering
    <3>2. AuthorityPhase = "Paused" /\ AuthorityPhase' = "Running"
      BY <2>1, <2>3, <3>1 DEF AuthorityPhase, IsLatched
    <3> QED BY <2>1, <3>2 DEF OwnerStep, Authority!Next, Authority!Resume, WarmGrant
  <2> QED BY <2>2, <2>3
<1>3. CASE RefuseStart
  <2>1. kernel.state = "Ready" /\ kernel' = Unlatched("Ready")
        /\ UNCHANGED <<phase, grant, portOpen, session, latch>>
    BY <1>3 DEF RefuseStart, MayOpen, MarkStopped, Opened, Unlatched, sessionVars
  <2>2. AuthorityPhase' = AuthorityPhase
    BY <2>1 DEF AuthorityPhase, IsLatched, Unlatched
  <2> QED BY <2>1, <2>2 DEF OwnerStep, WarmGrant, Authority!vars, Unlatched
<1>4. CASE Pause \/ Resume \/ SetTemperature
  <2>1. UNCHANGED <<phase, kernel, grant, portOpen, session, latch>>
    BY <1>4 DEF Pause, Resume, SetTemperature, Order, Steady, sessionVars
  <2> QED BY <2>1, NothingOwned DEF OwnerStep, WarmGrant
<1>5. CASE AcknowledgeLatch
  <2>1. /\ IsLatched(kernel) /\ phase = "Unavailable"
        /\ kernel' = [kernel EXCEPT !.ack = TRUE] /\ latch' = [latch EXCEPT !.ack = TRUE]
        /\ UNCHANGED <<phase, grant, portOpen, session>>
    BY <1>5 DEF AcknowledgeLatch, Acknowledge, Control, KernelAgrees, sessionVars
  <2>2. IsLatched(kernel')
    BY <2>1 DEF IsLatched, Control, ControlTypeOK, LinkStates
  <2>3. AuthorityPhase = "Latched" /\ AuthorityPhase' = "Latched" /\ WarmGrant'
    BY <2>1, <2>2 DEF AuthorityPhase, WarmGrant, IsLatched
  <2> QED BY <2>1, <2>3
          DEF OwnerStep, Authority!Next, Authority!Acknowledge, Authority!IsLatched
<1> QED BY <1>1, <1>2, <1>3, <1>4, <1>5 DEF Command

\* Time: a session runs on until its limit, paused or being stopped.
LEMMA OwnersTime ==
  ASSUME Control, WarmGrant, Elapse
  PROVE  OwnerStep
<1>1. UNCHANGED <<phase, kernel, grant, portOpen, latch>>
  BY DEF Elapse
<1>2. session \in [ran : Nat, limit : Nat]
  BY DEF Control, ControlTypeOK
<1>3. AuthorityPhase' = AuthorityPhase /\ WarmGrant'
  BY <1>1 DEF AuthorityPhase, IsLatched, WarmGrant
<1>4. CASE session.ran < session.limit
  <2>1. session # NoSession
    BY <1>2, <1>4 DEF NoSession
  <2>2. grant /\ phase # "Unavailable"
    BY <2>1 DEF Control, GrantHasSession, Watering
  <2>3. AuthorityPhase \in {"Running", "Paused"}
    BY <2>2 DEF AuthorityPhase, Control, KernelAgrees, WarmGrant
  <2>4. session' = [session EXCEPT !.ran = @ + 1]
    BY <1>2, <1>4 DEF Elapse, Plus1
  <2> QED BY <1>1, <1>3, <1>4, <2>3, <2>4
          DEF OwnerStep, Authority!Next, Authority!RunOn, Authority!IsRunning
<1>5. CASE ~(session.ran < session.limit)
  <2>1. session' = session
    BY <1>2, <1>5 DEF Elapse, Plus1
  <2> QED BY <1>1, <1>3, <2>1 DEF OwnerStep, Authority!vars
<1> QED BY <1>4, <1>5

\* Every step, then, is one of the owner's or is not seen by it.
LEMMA OwnersSteps ==
  ASSUME ~SHARED_FAULTS, Control, WarmGrant, [Next]_vars
  PROVE  OwnerStep
<1>1. CASE PortLost
  BY <1>1, OwnersLatch DEF PortLost
<1>2. CASE ServiceFailure
  BY <1>2 DEF ServiceFailure
<1>3. CASE PumpClosed \/ UNCHANGED vars
  <2>1. UNCHANGED <<phase, kernel, grant, portOpen, session, latch>>
    BY <1>3 DEF PumpClosed, vars, sessionVars
  <2> QED BY <2>1, NothingOwned DEF OwnerStep, WarmGrant
<1> QED BY <1>1, <1>2, <1>3, OwnersTick, OwnersTimeout, OwnersReply, OwnersCommand, OwnersTime
        DEF Next

\* The machine, its kernel and its port behave as the one owner of the link
\* that authority.rs describes: water only from ReadyOff, in a session that
\* nothing extends, and a latched link's port is gone in the same step.
THEOREM TheZoneIsAnAuthority ==
  ASSUME ~SHARED_FAULTS
  PROVE  Spec => ImplementsAuthority
<1>1. Init => Authority!Init /\ WarmGrant
  BY DEF Init, Authority!Init, AuthorityPhase, IsLatched, Unlatched, NoSession, NoLatch,
         Authority!NoSession, Authority!NoLatch, WarmGrant
<1>2. Control /\ WarmGrant /\ [Next]_vars =>
        [Authority!Next]_(Authority!vars) /\ WarmGrant'
  BY OwnersSteps DEF OwnerStep
<1> QED BY <1>1, <1>2, ControlAlways, PTL DEF Spec, ImplementsAuthority, Authority!Spec

-----------------------------------------------------------------------------
(* Types.                                                                   *)

Queues == Seq(Frames(MAX_OUTLETS))

\* What may come of a request: it acts or not, and is heard as frames of its
\* own operation.
LEMMA OutcomesAreHeard ==
  ASSUME NEW op \in Ops, open \in 0..MAX_OUTLETS, NEW o \in Outcomes(op)
  PROVE  o.acts \in BOOLEAN /\ o.heard \in Queues
<1>1. ASSUME NEW kind \in {"echo", "error", "nak", "garbled"}, NEW val \in BAD..MAX_OUTLETS
      PROVE  Reply(op, kind, val) \in Frames(MAX_OUTLETS)
  BY <1>1 DEF Reply, Frames
<1>2. 0 \in BAD..MAX_OUTLETS /\ BAD \in BAD..MAX_OUTLETS /\ open \in BAD..MAX_OUTLETS
  BY ValveBusAssumption DEF BAD
<1>3. Answer(op) \in Frames(MAX_OUTLETS)
  BY <1>1, <1>2 DEF Answer
<1>4. ASSUME NEW f \in Frames(MAX_OUTLETS) PROVE <<f>> \in Queues /\ <<f, f>> \in Queues
  BY <1>4 DEF Queues
<1>5. <<>> \in Queues
  BY DEF Queues
<1>6. /\ Reply(op, "garbled", 0) \in Frames(MAX_OUTLETS)
      /\ Reply(op, "error", 0) \in Frames(MAX_OUTLETS)
      /\ Reply(op, "error", BAD) \in Frames(MAX_OUTLETS)
      /\ Reply(op, "nak", 0) \in Frames(MAX_OUTLETS)
      /\ Reply(op, "echo", BAD) \in Frames(MAX_OUTLETS)
  BY <1>1, <1>2
<1>7. /\ o.acts \in BOOLEAN
      /\ o.heard \in {<<>>, <<Answer(op)>>, <<Answer(op), Answer(op)>>,
                      <<Reply(op, "garbled", 0)>>, <<Reply(op, "error", 0)>>,
                      <<Reply(op, "error", BAD)>>, <<Reply(op, "nak", 0)>>,
                      <<Reply(op, "echo", BAD)>>}
  <2>1. CASE o = [acts |-> TRUE, heard |-> <<Answer(op)>>]
    BY <2>1
  <2>2. CASE o = [acts |-> TRUE, heard |-> <<Answer(op), Answer(op)>>]
    BY <2>2
  <2>3. CASE o = [acts |-> FALSE, heard |-> <<Reply(op, "echo", BAD)>>]
    BY <2>3
  <2>4. CASE o \in [acts : BOOLEAN, heard : {<<>>}]
    BY <2>4
  <2>5. CASE o \in [acts : BOOLEAN, heard : {<<Reply(op, "garbled", 0)>>}]
    BY <2>5
  <2>6. CASE o \in [acts : {FALSE},
                    heard : {<<Reply(op, "error", 0)>>, <<Reply(op, "error", BAD)>>,
                             <<Reply(op, "nak", 0)>>}]
    BY <2>6
  <2> QED BY <2>1, <2>2, <2>3, <2>4, <2>5, <2>6 DEF Outcomes
<1> QED BY <1>3, <1>4, <1>5, <1>6, <1>7

\* A request leaves valve and queue in their ranges.
LEMMA CarryIsTyped ==
  ASSUME BusTypeOK, NEW op \in Ops, NEW count \in 0..MAX_OUTLETS, NEW target,
         NEW q \in Queues, NEW listening, Carry(op, count, target, q, listening)
  PROVE  BusTypeOK'
<1>1. CASE replies' = q /\ UNCHANGED valveState
  BY <1>1 DEF BusTypeOK, valveState, Queues
<1>2. ASSUME NEW o \in Outcomes(op),
             open' = OpenAfter(o.acts, op, count),
             sinceOpen' = IF open' > open THEN 0 ELSE sinceOpen,
             paused' = IF o.acts /\ ControlByte(op) = "WRITE_PAUSE_STATE"
                       THEN op = "Pause" ELSE paused,
             heated' = CASE o.acts /\ op = "SetTemperature" -> TRUE
                         [] o.acts /\ op = "AllOff"         -> FALSE
                         [] OTHER                           -> heated,
             replies' = IF listening /\ Len(q \o o.heard) <= BUS_CAP
                        THEN q \o o.heard ELSE q
      PROVE  BusTypeOK'
  <2>1. o.acts \in BOOLEAN /\ o.heard \in Queues
    BY OutcomesAreHeard DEF BusTypeOK
  <2>2. q \o o.heard \in Queues
    BY <2>1 DEF Queues
  <2>3. replies' \in Seq(Frames(MAX_OUTLETS))
    BY <1>2, <2>2 DEF Queues
  <2>4. open' \in 0..MAX_OUTLETS
    BY <1>2, ValveBusAssumption DEF OpenAfter, BusTypeOK
  <2>5. sinceOpen' \in 0..STAGGER
    BY <1>2, ValveBusAssumption DEF BusTypeOK
  <2>6. paused' \in BOOLEAN
    BY <1>2 DEF BusTypeOK
  <2>7. heated' \in BOOLEAN
    BY <1>2 DEF BusTypeOK
  <2> QED BY <2>3, <2>4, <2>5, <2>6, <2>7 DEF BusTypeOK
<1> QED BY <1>1, <1>2 DEF Carry

\* The same of a bus on which nothing is sent.
LEMMA SilenceIsTyped ==
  ASSUME BusTypeOK, NEW q \in Queues, Silence(q)
  PROVE  BusTypeOK'
BY DEF BusTypeOK, Silence, valveState, Queues

\* The same of a frame that a closed port drops, or an open one sends.
LEMMA TransmitIsTyped ==
  ASSUME BusTypeOK, NEW op \in Ops, NEW count \in 0..MAX_OUTLETS, NEW target,
         NEW q \in Queues, Transmit(op, count, target, q)
  PROVE  BusTypeOK'
BY CarryIsTyped, SilenceIsTyped DEF Transmit

\* The same of the all-off of an escalation, of whatever the pump still reads.
LEMMA EscalationIsTyped ==
  ASSUME BusTypeOK, NEW event, NEW q \in Queues, Escalate(event, q)
  PROVE  BusTypeOK'
<1>1. ASSUME NEW read \in 0..Len(q) PROVE SubSeq(q, 1, read) \in Queues
  BY <1>1 DEF Queues
<1>2. \/ Silence(q)
      \/ \E l : Carry("AllOff", 0, OwnTarget, q, l)
      \/ \E read \in 0..Len(q) :
           \/ Carry("AllOff", 0, OwnTarget, SubSeq(q, 1, read), FALSE)
           \/ Silence(SubSeq(q, 1, read))
  BY DEF Escalate
<1>3. "AllOff" \in Ops /\ 0 \in 0..MAX_OUTLETS
  BY ValveBusAssumption DEF Ops, Writes
<1> QED BY <1>1, <1>2, <1>3, CarryIsTyped, SilenceIsTyped

LoopTyped ==
  /\ tickIn \in 0..TICK /\ pacing \in 0..RESPONSE
  /\ portOpen \in BOOLEAN /\ pumpUp \in BOOLEAN /\ served \in BOOLEAN

\* The supervisor's clock and flags.
LEMMA LoopStaysTyped ==
  ASSUME LoopTyped, [Next]_vars
  PROVE  LoopTyped'
<1>1. /\ TICK \in Nat /\ RESPONSE \in Nat
      /\ \A n \in 0..TICK : Less1(n) \in 0..TICK
      /\ \A n \in 0..RESPONSE : Less1(n) \in 0..RESPONSE
  BY ZoneMachineAssumption DEF Less1
<1>2. /\ tickIn' \in {tickIn, TICK, Less1(tickIn)}
      /\ pacing' \in {pacing, RESPONSE, Less1(pacing)}
      /\ served' \in {served, TRUE, FALSE} /\ pumpUp' \in {pumpUp, FALSE}
  <2>1. CASE Tick
    BY <2>1 DEF Tick, ExpireSession, Retry, Occupied, BeginDiscovery, OpenNextOutlet, Poll,
         TickTaken
  <2>2. CASE ResponseTimeout
    BY <2>2 DEF ResponseTimeout, ProbeUnanswered, GiveUp, AwaitRetry, TimeoutTaken
  <2>3. CASE Receive
    BY <2>3 DEF Receive, DiscardStale, Unsolicited, ProbeAnswered, Undecodable, TooLate,
         Nakked, ErrorAnswered, ReadCondemned, IdentityRead, PollAnswered, OffConfirmed,
         SetpointAcknowledged, OutletAcknowledged, PauseAcknowledged, Echoed, FrameTaken
  <2>4. CASE Command
    BY <2>4 DEF Command, Start, RefuseStart, Stop, Pause, Resume, SetTemperature, Order,
         AcknowledgeLatch, CommandSent, loopVars
  <2>5. CASE PortLost \/ PumpClosed \/ ServiceFailure \/ Elapse \/ UNCHANGED vars
    BY <2>5 DEF PortLost, PumpClosed, ServiceFailure, Elapse, vars
  <2> QED BY <2>1, <2>2, <2>3, <2>4, <2>5 DEF Next
<1>3. portOpen' \in BOOLEAN
  <2>1. ASSUME NEW event, NEW q, Escalate(event, q) PROVE portOpen' \in BOOLEAN
    BY <2>1 DEF Escalate
  <2>2. ASSUME NEW f, NEW q, NextProbe(f, q) PROVE portOpen' \in BOOLEAN
    BY <2>1, <2>2 DEF NextProbe, FinishDiscovery, Steady, LoopTyped
  <2>3. CASE UNCHANGED portOpen
    BY <2>3 DEF LoopTyped
  <2>4. CASE Tick
    BY <2>3, <2>4 DEF Tick, ExpireSession, Retry, Occupied, BeginDiscovery, OpenNextOutlet,
         Poll, SettlePurge
  <2>5. CASE ResponseTimeout
    BY <2>1, <2>2, <2>3, <2>5
       DEF ResponseTimeout, ProbeUnanswered, GiveUp, AwaitRetry, Steady
  <2>6. CASE Receive
    BY <2>1, <2>2, <2>3, <2>6
       DEF Receive, DiscardStale, Unsolicited, ProbeAnswered, Undecodable, TooLate, Nakked,
         ErrorAnswered, ReadCondemned, IdentityRead, PollAnswered, OffConfirmed,
         SetpointAcknowledged, OutletAcknowledged, PauseAcknowledged, Steady
  <2>7. CASE Command
    BY <2>3, <2>7 DEF Command, Start, RefuseStart, Stop, Pause, Resume, SetTemperature,
         Order, AcknowledgeLatch, Steady
  <2>8. CASE PortLost \/ PumpClosed \/ ServiceFailure \/ Elapse \/ UNCHANGED vars
    BY <2>1, <2>3, <2>8 DEF PortLost, PumpClosed, ServiceFailure, Elapse, vars
  <2> QED BY <2>4, <2>5, <2>6, <2>7, <2>8 DEF Next
<1>4. tickIn' \in 0..TICK /\ pacing' \in 0..RESPONSE
  BY <1>1, <1>2 DEF LoopTyped
<1>5. pumpUp' \in BOOLEAN /\ served' \in BOOLEAN
  BY <1>2 DEF LoopTyped
<1> QED BY <1>3, <1>4, <1>5 DEF LoopTyped

ScanTyped ==
  /\ address \in (VALVE_ADDR_MIN..VALVE_ADDR_MAX) \cup {NoAddress}
  /\ scanNext \in VALVE_ADDR_MIN..(VALVE_ADDR_MAX + 1)
  /\ found \subseteq VALVE_ADDR_MIN..VALVE_ADDR_MAX

AskTyped == inflight \in Transactions \cup {NoTransaction}

\* What is sent is a transaction, when what is asked for is in range.
LEMMA WhatIsSentIsTyped ==
  ASSUME NEW job \in Jobs, NEW op \in Ops, NEW count \in 0..MAX_OUTLETS,
         NEW target \in VALVE_ADDR_MIN..VALVE_ADDR_MAX
  PROVE  InFlight(job, op, count, target) \in Transactions
<1>1. 0 \in 0..(RESPONSE + 1) /\ 0 \in 0..CEILING /\ 1 \in 1..ATTEMPTS
  <2>1. CEILING \in Nat
    BY ZoneMachineAssumption DEF CEILING
  <2> QED BY <2>1, ZoneMachineAssumption
<1> QED BY <1>1 DEF InFlight, Transactions

\* A frame to the zone's own valve goes to an address of the range.
LEMMA OwnTargetIsTyped ==
  ASSUME ScanTyped
  PROVE  OwnTarget \in VALVE_ADDR_MIN..VALVE_ADDR_MAX
BY ZoneMachineAssumption DEF ScanTyped, OwnTarget, NoAddress

\* The scan, and what a probe sends.
LEMMA ProbeIsTyped ==
  ASSUME ScanTyped, StepsInRange, NEW f \in SUBSET (VALVE_ADDR_MIN..VALVE_ADDR_MAX),
         NEW q, NextProbe(f, q)
  PROVE  ScanTyped' /\ AskTyped'
<1>0. VALVE_ADDR_MIN \in Nat /\ VALVE_ADDR_MAX \in Nat /\ 0 \in 0..MAX_OUTLETS
  BY ZoneMachineAssumption, ValveBusAssumption
<1>1. "Probe" \in Jobs /\ "Identify" \in Jobs /\ "ReadFirmwareType" \in Ops
  BY DEF Jobs, Ops, Reads
<1>2. CASE scanNext <= VALVE_ADDR_MAX
  <2>1. /\ inflight' = InFlight("Probe", "ReadFirmwareType", 0, scanNext)
        /\ scanNext' = scanNext + 1 /\ found' = f /\ address' = address
    BY <1>2 DEF NextProbe, Send
  <2>2. scanNext \in VALVE_ADDR_MIN..VALVE_ADDR_MAX
    BY <1>0, <1>2 DEF ScanTyped
  <2>3. AskTyped'
    BY <1>0, <1>1, <2>1, <2>2, WhatIsSentIsTyped DEF AskTyped
  <2> QED BY <1>0, <2>1, <2>2, <2>3 DEF ScanTyped
<1>3. CASE ~(scanNext <= VALVE_ADDR_MAX)
  <2>1. found' = f /\ scanNext' = scanNext
    BY <1>3 DEF NextProbe
  <2>2. \/ inflight' = NoTransaction /\ address' = address
        \/ \E a \in f : /\ address' = a
                        /\ inflight' = InFlight("Identify", IDENTIFY[1], 0, a)
    BY <1>3 DEF NextProbe, FinishDiscovery, Escalate, Send
  <2>3. IDENTIFY[1] \in Ops
    BY ZoneMachineAssumption DEF Ops
  <2> QED BY <1>0, <1>1, <2>1, <2>2, <2>3, WhatIsSentIsTyped DEF ScanTyped, AskTyped
<1> QED BY <1>2, <1>3

SessionTyped ==
  /\ stagger \in [next : 0..MAX_OUTLETS, total : 0..MAX_OUTLETS]
  /\ session \in [ran : 0..SESSION_CAP, limit : 0..SESSION_CAP]

CountsTyped ==
  /\ stale \in 0..STALE_MAX /\ outlets \in 0..MAX_OUTLETS
  /\ health \in {"Unknown", "Clear", "Faulted"} /\ purgeLeft \in 0..PURGE

\* The conjuncts of TypeOK under the names they are proved by.
LEMMA TypesTogether ==
  TypeOK <=> /\ phase \in Phases /\ kernel \in LinkStates
             /\ latch \in [reason : Faults \cup {"none"}, ack : BOOLEAN]
             /\ grant \in BOOLEAN /\ stopping \in BOOLEAN
             /\ StepsInRange /\ ScanTyped /\ AskTyped /\ SessionTyped /\ CountsTyped
             /\ LoopTyped /\ BusTypeOK
BY DEF TypeOK, StepsInRange, ScanTyped, AskTyped, SessionTyped, CountsTyped, LoopTyped

\* The reads of the lists are operations.
LEMMA RoutineIsTyped ==
  ASSUME StepsInRange
  PROVE  /\ POLL[pollStep + 1] \in Reads \cap Ops
         /\ IDENTIFY[1] \in Reads \cap Ops
         /\ identifyStep < Len(IDENTIFY) => IDENTIFY[identifyStep + 1] \in Reads \cap Ops
<1>1. /\ Len(IDENTIFY) \in Nat /\ Len(IDENTIFY) > 0 /\ Len(POLL) \in Nat /\ Len(POLL) > 0
      /\ \A i \in 1..Len(IDENTIFY) : IDENTIFY[i] \in Reads
      /\ \A i \in 1..Len(POLL) :
           POLL[i] \in {"ReadTemperature", "ReadFaults", "ReadOutlets"}
  BY ZoneMachineAssumption
<1>2. /\ pollStep + 1 \in 1..Len(POLL) /\ 1 \in 1..Len(IDENTIFY)
      /\ identifyStep < Len(IDENTIFY) => identifyStep + 1 \in 1..Len(IDENTIFY)
  BY <1>1 DEF StepsInRange
<1> QED BY <1>1, <1>2 DEF Reads, Ops

\* The next step of a plan is one of its outlets.
LEMMA NextOutletIsTyped ==
  ASSUME TypeOK, Control, StaggerDue
  PROVE  stagger.next + 1 \in 0..MAX_OUTLETS /\ stagger.next \in Nat
<1>1. stagger # NoStagger /\ stagger.next < stagger.total
  BY DEF StaggerDue, Control, GrantHasSession
<1>2. stagger \in [next : 0..MAX_OUTLETS, total : 0..MAX_OUTLETS] /\ MAX_OUTLETS \in Nat
  BY ValveBusAssumption DEF TypeOK
<1> QED BY <1>1, <1>2

\* The scan moves in a probe and at the beginning only.
LEMMA ScanStaysTyped ==
  ASSUME TypeOK, [Next]_vars
  PROVE  ScanTyped'
<1>0. /\ ScanTyped /\ StepsInRange /\ AskTyped
      /\ VALVE_ADDR_MIN \in Nat /\ VALVE_ADDR_MAX \in Nat /\ VALVE_ADDR_MIN <= VALVE_ADDR_MAX
  BY TypesTogether, ZoneMachineAssumption
<1>1. CASE UNCHANGED <<address, scanNext, found>>
  BY <1>0, <1>1 DEF ScanTyped
<1>2. ASSUME NEW event, NEW q, Escalate(event, q), UNCHANGED scanVars PROVE ScanTyped'
  BY <1>1, <1>2 DEF scanVars
<1>3. CASE Tick
  <2>1. CASE BeginDiscovery
    <3>1. found' = {} /\ scanNext' = VALVE_ADDR_MIN + 1 /\ address' = address
      BY <2>1 DEF BeginDiscovery
    <3> QED BY <1>0, <3>1 DEF ScanTyped
  <2>2. CASE ~BeginDiscovery
    BY <1>1, <1>3, <2>2 DEF Tick, ExpireSession, Retry, Occupied, OpenNextOutlet, Poll, scanVars
  <2> QED BY <2>1, <2>2
<1>4. CASE ResponseTimeout
  <2>1. CASE ProbeUnanswered
    BY <1>0, <2>1, ProbeIsTyped DEF ProbeUnanswered, ScanTyped
  <2>2. CASE GiveUp \/ AwaitRetry
    BY <1>1, <2>2 DEF GiveUp, AwaitRetry, scanVars
  <2> QED BY <1>4, <2>1, <2>2 DEF ResponseTimeout
<1>5. CASE Receive
  <2>1. CASE ProbeAnswered
    <3>1. inflight.target \in VALVE_ADDR_MIN..VALVE_ADDR_MAX
      BY <1>0, <2>1 DEF ProbeAnswered, AskTyped, Transactions, NoTransaction
    <3>2. found \cup {inflight.target} \in SUBSET (VALVE_ADDR_MIN..VALVE_ADDR_MAX)
      BY <1>0, <3>1 DEF ScanTyped
    <3>3. NextProbe(found \cup {inflight.target}, Rest)
      BY <2>1 DEF ProbeAnswered
    <3> QED BY <1>0, <3>2, <3>3, ProbeIsTyped
  <2>2. CASE ~ProbeAnswered
    BY <1>1, <1>5, <2>2
       DEF Receive, DiscardStale, Unsolicited, Undecodable, TooLate, Nakked, ErrorAnswered,
         ReadCondemned, IdentityRead, PollAnswered, OffConfirmed, SetpointAcknowledged,
         OutletAcknowledged, PauseAcknowledged, scanVars
  <2> QED BY <2>1, <2>2
<1>6. CASE Command
  BY <1>1, <1>6 DEF Command, Start, RefuseStart, Stop, Pause, Resume, SetTemperature, Order,
       AcknowledgeLatch, scanVars
<1>7. CASE PortLost \/ PumpClosed \/ ServiceFailure \/ Elapse \/ UNCHANGED vars
  BY <1>1, <1>7 DEF PortLost, PumpClosed, ServiceFailure, Elapse, vars, scanVars
<1> QED BY <1>3, <1>4, <1>5, <1>6, <1>7 DEF Next

\* The times of a transaction and its retry mark stay in range.
LEMMA TouchedIsTyped ==
  ASSUME NEW t \in Transactions
  PROVE  /\ [t EXCEPT !.retry = TRUE] \in Transactions
         /\ [t EXCEPT !.sent = Plus1(t.sent, RESPONSE + 1),
                      !.total = Plus1(t.total, CEILING)] \in Transactions
         /\ [t EXCEPT !.retry = FALSE, !.sent = 0,
                      !.attempts = Plus1(t.attempts, ATTEMPTS)] \in Transactions
<1>1. /\ t = [job |-> t.job, op |-> t.op, count |-> t.count, target |-> t.target,
              sent |-> t.sent, total |-> t.total, attempts |-> t.attempts, retry |-> t.retry]
      /\ t.job \in Jobs /\ t.op \in Ops /\ t.count \in 0..MAX_OUTLETS
      /\ t.target \in VALVE_ADDR_MIN..VALVE_ADDR_MAX /\ t.sent \in 0..(RESPONSE + 1)
      /\ t.total \in 0..CEILING /\ t.attempts \in 1..ATTEMPTS /\ t.retry \in BOOLEAN
  BY DEF Transactions
<1>2. RESPONSE \in Nat /\ CEILING \in Nat /\ ATTEMPTS \in Nat \ {0}
  BY ZoneMachineAssumption DEF CEILING
<1>3. /\ Plus1(t.sent, RESPONSE + 1) \in 0..(RESPONSE + 1)
      /\ Plus1(t.total, CEILING) \in 0..CEILING
      /\ Plus1(t.attempts, ATTEMPTS) \in 1..ATTEMPTS
      /\ 0 \in 0..(RESPONSE + 1)
  BY <1>1, <1>2 DEF Plus1
<1> DEFINE aged == Plus1(t.sent, RESPONSE + 1)
           total == Plus1(t.total, CEILING)
           tries == Plus1(t.attempts, ATTEMPTS)
<1>4. aged \in 0..(RESPONSE + 1) /\ total \in 0..CEILING /\ tries \in 1..ATTEMPTS
  BY <1>3
<1> HIDE DEF aged, total, tries
<1>5. [t EXCEPT !.retry = TRUE] \in Transactions
  BY <1>1 DEF Transactions
<1>6. [t EXCEPT !.sent = aged, !.total = total] \in Transactions
  <2> DEFINE u == [t EXCEPT !.sent = aged]
  <2>1. u \in Transactions
    BY <1>4 DEF Transactions
  <2> HIDE DEF u
  <2>2. [u EXCEPT !.total = total] \in Transactions
    BY <1>4, <2>1 DEF Transactions
  <2>3. [t EXCEPT !.sent = aged, !.total = total] = [u EXCEPT !.total = total]
    BY DEF u
  <2> QED BY <2>2, <2>3
<1>7. [t EXCEPT !.retry = FALSE, !.sent = 0, !.attempts = tries] \in Transactions
  <2> DEFINE u == [t EXCEPT !.retry = FALSE]
             v == [u EXCEPT !.sent = 0]
  <2>1. u \in Transactions
    BY DEF Transactions
  <2> HIDE DEF u
  <2>2. v \in Transactions
    BY <1>3, <2>1 DEF Transactions
  <2> HIDE DEF v
  <2>3. [v EXCEPT !.attempts = tries] \in Transactions
    BY <1>4, <2>2 DEF Transactions
  <2>4. [t EXCEPT !.retry = FALSE, !.sent = 0, !.attempts = tries] = [v EXCEPT !.attempts = tries]
    BY DEF u, v
  <2> QED BY <2>3, <2>4
<1> QED BY <1>5, <1>6, <1>7 DEF aged, total, tries

\* What is outstanding.
LEMMA AskStaysTyped ==
  ASSUME TypeOK, Control, [Next]_vars
  PROVE  AskTyped'
<1>0. ScanTyped /\ StepsInRange /\ AskTyped
  BY TypesTogether
<1>1. /\ OwnTarget \in VALVE_ADDR_MIN..VALVE_ADDR_MAX
      /\ VALVE_ADDR_MIN \in VALVE_ADDR_MIN..VALVE_ADDR_MAX
      /\ 0 \in 0..MAX_OUTLETS
  BY <1>0, OwnTargetIsTyped, ZoneMachineAssumption, ValveBusAssumption
<1>2. ASSUME NEW job \in Jobs, NEW op \in Ops, NEW q, Send(job, op, 0, OwnTarget, q)
      PROVE  AskTyped'
  BY <1>1, <1>2, WhatIsSentIsTyped DEF Send, AskTyped
<1>3. CASE inflight' \in {inflight, NoTransaction}
  BY <1>0, <1>3 DEF AskTyped
<1>4. ASSUME NEW event, NEW q, Escalate(event, q) PROVE AskTyped'
  BY <1>3, <1>4 DEF Escalate
<1>5. ASSUME Outstanding PROVE inflight \in Transactions
  BY <1>0, <1>5 DEF AskTyped, Outstanding, NoTransaction
<1>6. CASE Tick
  <2>1. CASE ExpireSession
    BY <1>2, <2>1, SMTT(30) DEF ExpireSession, Jobs, Ops, Writes
  <2>2. CASE Retry
    BY <1>5, <2>2, TouchedIsTyped DEF Retry, AskTyped
  <2>3. CASE Occupied
    BY <1>3, <2>3 DEF Occupied
  <2>4. CASE BeginDiscovery
    <3>1. inflight' = InFlight("Probe", "ReadFirmwareType", 0, VALVE_ADDR_MIN)
      BY <2>4 DEF BeginDiscovery, Send
    <3> QED BY <1>1, <3>1, WhatIsSentIsTyped DEF AskTyped, Jobs, Ops, Reads
  <2>5. CASE OpenNextOutlet
    <3>1. /\ StaggerDue
          /\ inflight' = InFlight("Open", "SetOutlets", stagger.next + 1, OwnTarget)
      BY <2>5 DEF OpenNextOutlet, Send
    <3>2. stagger.next + 1 \in 0..MAX_OUTLETS
      BY <3>1, NextOutletIsTyped
    <3> QED BY <1>1, <3>1, <3>2, WhatIsSentIsTyped DEF AskTyped, Jobs, Ops, Writes
  <2>6. CASE Poll
    BY <1>0, <1>2, <2>6, RoutineIsTyped DEF Poll, Jobs
  <2> QED BY <1>6, <2>1, <2>2, <2>3, <2>4, <2>5, <2>6 DEF Tick
<1>7. CASE ResponseTimeout
  <2>1. CASE ProbeUnanswered
    BY <1>0, <2>1, ProbeIsTyped DEF ProbeUnanswered, ScanTyped
  <2>2. CASE GiveUp
    BY <1>4, <2>2, SMTT(30) DEF GiveUp
  <2>3. CASE AwaitRetry
    <3>1. Outstanding /\ inflight' = [inflight EXCEPT !.retry = TRUE]
      BY <2>3 DEF AwaitRetry, TimeoutTaken, TimedOut
    <3> QED BY <1>5, <3>1, TouchedIsTyped DEF AskTyped
  <2> QED BY <1>7, <2>1, <2>2, <2>3 DEF ResponseTimeout
<1>8. CASE Receive
  <2>1. CASE ProbeAnswered
    <3>1. inflight.target \in VALVE_ADDR_MIN..VALVE_ADDR_MAX
      BY <1>0, <2>1 DEF ProbeAnswered, AskTyped, Transactions, NoTransaction
    <3>2. found \cup {inflight.target} \in SUBSET (VALVE_ADDR_MIN..VALVE_ADDR_MAX)
      BY <1>0, <3>1 DEF ScanTyped
    <3>3. NextProbe(found \cup {inflight.target}, Rest)
      BY <2>1 DEF ProbeAnswered
    <3> QED BY <1>0, <3>2, <3>3, ProbeIsTyped
  <2>2. CASE IdentityRead
    BY <1>0, <1>2, <2>2, RoutineIsTyped DEF IdentityRead, Jobs, Ops, Writes
  <2>3. CASE ~ProbeAnswered /\ ~IdentityRead
    BY <1>3, <1>4, <1>8, <2>3
       DEF Receive, DiscardStale, Unsolicited, Undecodable, TooLate, Nakked, ErrorAnswered,
         ReadCondemned, PollAnswered, OffConfirmed, SetpointAcknowledged,
         OutletAcknowledged, PauseAcknowledged
  <2> QED BY <2>1, <2>2, <2>3
<1>9. CASE Command
  <2>1. {"ConfirmOff", "SetTemperature", "Pause", "Resume"} \subseteq Jobs
        /\ {"AllOff", "SetTemperature", "Pause", "Resume"} \subseteq Ops
    BY DEF Jobs, Ops, Writes
  <2>2. \/ inflight' = inflight
        \/ \E job \in {"ConfirmOff", "SetTemperature", "Pause", "Resume"} :
             \E op \in {"AllOff", "SetTemperature", "Pause", "Resume"} :
               Send(job, op, 0, OwnTarget, replies)
    BY <1>9, SMTT(30) DEF Command, Start, RefuseStart, Stop, Pause, Resume, SetTemperature, Order,
         AcknowledgeLatch
  <2> QED BY <1>2, <1>3, <2>1, <2>2
<1>10. CASE Elapse
  BY <1>0, <1>5, <1>10, TouchedIsTyped DEF Elapse, AskTyped
<1>11. CASE PortLost \/ PumpClosed \/ ServiceFailure \/ UNCHANGED vars
  BY <1>3, <1>4, <1>11 DEF PortLost, PumpClosed, ServiceFailure, vars
<1> QED BY <1>6, <1>7, <1>8, <1>9, <1>10, <1>11 DEF Next

\* The session and its plan.
LEMMA SessionStaysTyped ==
  ASSUME TypeOK, Control, [Next]_vars
  PROVE  SessionTyped'
<1>0. /\ stagger \in [next : 0..MAX_OUTLETS, total : 0..MAX_OUTLETS]
      /\ session \in [ran : 0..SESSION_CAP, limit : 0..SESSION_CAP]
      /\ MAX_OUTLETS \in Nat \ {0} /\ SESSION_CAP \in Nat \ {0}
  BY ZoneMachineAssumption, ValveBusAssumption DEF TypeOK
<1>1. /\ NoStagger \in [next : 0..MAX_OUTLETS, total : 0..MAX_OUTLETS]
      /\ NoSession \in [ran : 0..SESSION_CAP, limit : 0..SESSION_CAP]
  BY <1>0 DEF NoStagger, NoSession
<1>2. CASE stagger' \in {stagger, NoStagger} /\ session' \in {session, NoSession}
  BY <1>0, <1>1, <1>2 DEF SessionTyped
<1>3. ASSUME NEW event, NEW q, Escalate(event, q) PROVE SessionTyped'
  BY <1>2, <1>3 DEF Escalate
<1>4. ASSUME NEW f, NEW q, NextProbe(f, q) PROVE SessionTyped'
  BY <1>2, <1>3, <1>4 DEF NextProbe, FinishDiscovery, sessionVars
<1>5. CASE Tick
  BY <1>2, <1>5 DEF Tick, ExpireSession, Retry, Occupied, BeginDiscovery, OpenNextOutlet,
       Poll, SettlePurge, sessionVars
<1>6. CASE ResponseTimeout
  BY <1>2, <1>3, <1>4, <1>6 DEF ResponseTimeout, ProbeUnanswered, GiveUp, AwaitRetry, sessionVars
<1>7. CASE Receive
  <2>1. CASE OutletAcknowledged
    <3>1. CASE stagger = NoStagger \/ stagger.next + 1 >= stagger.total
      BY <1>2, <2>1, <3>1 DEF OutletAcknowledged
    <3>2. CASE ~(stagger = NoStagger \/ stagger.next + 1 >= stagger.total)
      <4>1. stagger' = [stagger EXCEPT !.next = stagger.next + 1] /\ session' = session
        BY <2>1, <3>2 DEF OutletAcknowledged
      <4>2. stagger.next + 1 \in 0..MAX_OUTLETS
        BY <1>0, <3>2
      <4>3. stagger' \in [next : 0..MAX_OUTLETS, total : 0..MAX_OUTLETS]
        BY <1>0, <4>1, <4>2
      <4> QED BY <1>0, <4>1, <4>3 DEF SessionTyped
    <3> QED BY <3>1, <3>2
  <2>2. CASE ~OutletAcknowledged
    BY <1>2, <1>3, <1>4, <1>7, <2>2
       DEF Receive, DiscardStale, Unsolicited, ProbeAnswered, Undecodable, TooLate, Nakked,
         ErrorAnswered, ReadCondemned, IdentityRead, PollAnswered, OffConfirmed,
         SetpointAcknowledged, PauseAcknowledged, sessionVars
  <2> QED BY <2>1, <2>2
<1>8. CASE Command
  <2>1. ASSUME NEW count \in 1..MAX_OUTLETS, NEW requested \in DURATIONS, Start(count, requested)
        PROVE  SessionTyped'
    <3>1. /\ session' = [ran |-> 0, limit |-> Smaller(requested, SESSION_CAP)]
          /\ stagger' = [next |-> 0, total |-> count]
      BY <2>1 DEF Start
    <3>2. Smaller(requested, SESSION_CAP) \in 0..SESSION_CAP
      BY <1>0, ZoneMachineAssumption DEF Smaller
    <3> DEFINE limit == Smaller(requested, SESSION_CAP)
    <3>3. limit \in 0..SESSION_CAP
      BY <3>2
    <3> HIDE DEF limit
    <3>4. [ran |-> 0, limit |-> limit] \in [ran : 0..SESSION_CAP, limit : 0..SESSION_CAP]
      BY <1>0, <3>3
    <3>5. stagger' \in [next : 0..MAX_OUTLETS, total : 0..MAX_OUTLETS]
      BY <1>0, <3>1
    <3> QED BY <3>1, <3>4, <3>5 DEF SessionTyped, limit
  <2>2. CASE ~\E count \in 1..MAX_OUTLETS, requested \in DURATIONS : Start(count, requested)
    BY <1>2, <1>8, <2>2 DEF Command, RefuseStart, Stop, Pause, Resume, SetTemperature, Order,
         AcknowledgeLatch, sessionVars
  <2> QED BY <2>1, <2>2
<1>9. CASE Elapse
  <2>1. stagger' = stagger /\ session' = [session EXCEPT !.ran = Plus1(session.ran, session.limit)]
    BY <1>9 DEF Elapse
  <2>2. Plus1(session.ran, session.limit) \in 0..SESSION_CAP
    BY <1>0 DEF Plus1
  <2> DEFINE ran == Plus1(session.ran, session.limit)
  <2> HIDE DEF ran
  <2>3. [session EXCEPT !.ran = ran] \in [ran : 0..SESSION_CAP, limit : 0..SESSION_CAP]
    BY <1>0, <2>2 DEF ran
  <2> QED BY <1>0, <2>1, <2>3 DEF SessionTyped, ran
<1>10. CASE PortLost \/ PumpClosed \/ ServiceFailure \/ UNCHANGED vars
  BY <1>2, <1>3, <1>10 DEF PortLost, PumpClosed, ServiceFailure, vars, sessionVars
<1> QED BY <1>5, <1>6, <1>7, <1>8, <1>9, <1>10 DEF Next

\* The oldest reply is a frame, and what is behind it a queue of frames.
LEMMA RepliesAreFrames ==
  ASSUME BusTypeOK, replies # <<>>
  PROVE  Frame \in Frames(MAX_OUTLETS) /\ Rest \in Queues
BY DEF BusTypeOK, Frame, Rest, Queues

\* Stale replies, the remembered outlets and faults, and the purge timer.
LEMMA CountsStayTyped ==
  ASSUME TypeOK, [Next]_vars
  PROVE  CountsTyped'
<1>0. /\ stale \in 0..STALE_MAX /\ outlets \in 0..MAX_OUTLETS
      /\ health \in {"Unknown", "Clear", "Faulted"} /\ purgeLeft \in 0..PURGE
      /\ STALE_MAX \in Nat /\ PURGE \in Nat /\ MAX_OUTLETS \in Nat /\ AskTyped /\ BusTypeOK
  BY TypesTogether, ZoneMachineAssumption, ValveBusAssumption DEF CountsTyped
<1>1. inflight.count \in 0..MAX_OUTLETS
  BY <1>0 DEF AskTyped, Transactions, NoTransaction
<1>2. CASE UNCHANGED <<stale, outlets, health, purgeLeft>>
  BY <1>0, <1>2 DEF CountsTyped
<1>3. ASSUME NEW event, NEW q, Escalate(event, q), health' \in {health, "Unknown", "Faulted"}
      PROVE  CountsTyped'
  <2>1. stale' = 0 /\ outlets' = 0 /\ purgeLeft' = 0
    BY <1>3 DEF Escalate, NotPurging
  <2> QED BY <1>0, <1>3, <2>1 DEF CountsTyped
<1>4. ASSUME NEW f, NEW q, NextProbe(f, q)
      PROVE  CountsTyped'
  <2>1. \/ UNCHANGED <<stale, outlets, health, purgeLeft>>
        \/ \E event : Escalate(event, q) /\ health' = health
    BY <1>4 DEF NextProbe, FinishDiscovery, Steady
  <2> QED BY <1>2, <1>3, <2>1
<1>5. ASSUME stale' \in {stale, 0} \/ Abandon \/ (stale > 0 /\ stale' = stale - 1)
      PROVE  stale' \in 0..STALE_MAX
  BY <1>0, <1>5 DEF Abandon, Plus1
<1>6. CASE Tick
  <2>1. /\ outlets' = outlets /\ health' = health /\ purgeLeft' = purgeLeft
        /\ stale' = stale \/ Abandon
    BY <1>6 DEF Tick, ExpireSession, Retry, Occupied, BeginDiscovery, OpenNextOutlet, Poll,
         SettlePurge
  <2> QED BY <1>0, <1>5, <2>1 DEF CountsTyped
<1>7. CASE ResponseTimeout
  BY <1>2, <1>3, <1>4, <1>7
     DEF ResponseTimeout, ProbeUnanswered, GiveUp, AwaitRetry, Steady
<1>8. CASE Receive
  <2>1. CASE ProbeAnswered
    BY <1>4, <2>1 DEF ProbeAnswered
  <2>2. CASE IdentityRead \/ PollAnswered
    <3>1. /\ Remember /\ UNCHANGED <<stale, purgeLeft>> /\ replies # <<>>
          /\ inflight.op = "ReadOutlets" => Frame.val # BAD
      BY <2>2 DEF IdentityRead, PollAnswered, Steady, Condemned, Echoed, FrameTaken
    <3>2. Frame.val \in BAD..MAX_OUTLETS
      BY <1>0, <3>1, RepliesAreFrames DEF Frames
    <3>3. outlets' \in 0..MAX_OUTLETS
      BY <1>0, <3>1, <3>2 DEF Remember, BAD
    <3>4. health' \in {health, "Clear"}
      BY <3>1 DEF Remember
    <3> QED BY <1>0, <3>1, <3>3, <3>4 DEF CountsTyped
  <2>3. CASE OffConfirmed
    <3>1. outlets' = 0 /\ purgeLeft' \in {PURGE, 0} /\ UNCHANGED <<stale, health>>
      BY <2>3 DEF OffConfirmed, NotPurging
    <3> QED BY <1>0, <3>1 DEF CountsTyped
  <2>4. CASE OutletAcknowledged
    <3>1. outlets' = inflight.count /\ UNCHANGED <<purgeLeft, stale, health>>
      BY <2>4 DEF OutletAcknowledged, Steady
    <3> QED BY <1>0, <1>1, <3>1 DEF CountsTyped
  <2>5. CASE DiscardStale
    <3>1. stale > 0 /\ stale' = stale - 1 /\ UNCHANGED <<purgeLeft, outlets, health>>
      BY <2>5 DEF DiscardStale, Steady
    <3> QED BY <1>0, <1>5, <3>1 DEF CountsTyped
  <2>6. CASE \/ Unsolicited \/ Undecodable \/ TooLate \/ Nakked \/ ErrorAnswered
             \/ ReadCondemned \/ SetpointAcknowledged \/ PauseAcknowledged
    <3>1. \/ UNCHANGED <<stale, outlets, health, purgeLeft>>
          \/ \E event : Escalate(event, Rest) /\ health' \in {health, "Unknown", "Faulted"}
      BY <2>6 DEF Unsolicited, Undecodable, TooLate, Nakked, ErrorAnswered, ReadCondemned,
           SetpointAcknowledged, PauseAcknowledged, Steady
    <3> QED BY <1>2, <1>3, <3>1
  <2> QED BY <1>8, <2>1, <2>2, <2>3, <2>4, <2>5, <2>6 DEF Receive
<1>9. CASE Command
  <2>1. /\ outlets' = outlets /\ health' = health
        /\ purgeLeft' \in {purgeLeft, 0} /\ (stale' = stale \/ Abandon)
    BY <1>9 DEF Command, Start, RefuseStart, Stop, Pause, Resume, SetTemperature, Order,
         AcknowledgeLatch, Steady, NotPurging
  <2> QED BY <1>0, <1>5, <2>1 DEF CountsTyped
<1>10. CASE Elapse
  <2>1. purgeLeft' = Less1(purgeLeft) /\ UNCHANGED <<stale, outlets, health>>
    BY <1>10 DEF Elapse
  <2>2. purgeLeft' \in 0..PURGE
    BY <1>0, <2>1 DEF Less1
  <2> QED BY <1>0, <2>1, <2>2 DEF CountsTyped
<1>11. CASE PortLost \/ PumpClosed \/ ServiceFailure \/ UNCHANGED vars
  BY <1>2, <1>3, <1>11 DEF PortLost, PumpClosed, ServiceFailure, vars
<1> QED BY <1>6, <1>7, <1>8, <1>9, <1>10, <1>11 DEF Next

\* The bus, whatever is put on it.
LEMMA BusStaysTyped ==
  ASSUME TypeOK, Control, [Next]_vars
  PROVE  BusTypeOK'
<1>0. ScanTyped /\ StepsInRange /\ AskTyped /\ BusTypeOK /\ replies \in Queues
      /\ 0 \in 0..MAX_OUTLETS
  BY TypesTogether, ValveBusAssumption DEF BusTypeOK, Queues
<1>1. replies # <<>> => Rest \in Queues
  BY <1>0, RepliesAreFrames
<1>2. ASSUME NEW job, NEW op \in Ops, NEW target, NEW q \in Queues, Send(job, op, 0, target, q)
      PROVE  BusTypeOK'
  BY <1>0, <1>2, TransmitIsTyped DEF Send
<1>3. ASSUME NEW event, NEW q \in Queues, Escalate(event, q)
      PROVE  BusTypeOK'
  BY <1>0, <1>3, EscalationIsTyped
<1>4. ASSUME NEW f, NEW q \in Queues, NextProbe(f, q)
      PROVE  BusTypeOK'
  <2>1. \/ \E event : Escalate(event, q)
        \/ \E job, target : Send(job, "ReadFirmwareType", 0, target, q)
        \/ \E job, target : Send(job, IDENTIFY[1], 0, target, q)
    BY <1>4 DEF NextProbe, FinishDiscovery
  <2>2. "ReadFirmwareType" \in Ops /\ IDENTIFY[1] \in Ops
    BY <1>0, RoutineIsTyped DEF Ops, Reads
  <2> QED BY <1>2, <1>3, <2>1, <2>2, <1>4
<1>5. ASSUME NEW q \in Queues, Silence(q) PROVE BusTypeOK'
  BY <1>0, <1>5, SilenceIsTyped
<1>6. CASE Tick
  <2>1. CASE Retry
    <3>1. Outstanding /\ Transmit(inflight.op, inflight.count, inflight.target, replies)
      BY <2>1 DEF Retry
    <3>2. inflight.op \in Ops /\ inflight.count \in 0..MAX_OUTLETS
      BY <1>0, <3>1 DEF AskTyped, Transactions, NoTransaction, Outstanding
    <3> QED BY <1>0, <3>1, <3>2, TransmitIsTyped
  <2>2. CASE OpenNextOutlet
    <3>1. StaggerDue /\ Transmit("SetOutlets", stagger.next + 1, OwnTarget, replies)
      BY <2>2 DEF OpenNextOutlet, Send
    <3> QED BY <1>0, <3>1, NextOutletIsTyped, TransmitIsTyped DEF Ops, Writes
  <2>3. CASE Occupied
    BY <1>0, <1>5, <2>3 DEF Occupied
  <2>4. CASE ExpireSession \/ BeginDiscovery \/ Poll
    <3>1. \/ \E job, target : Send(job, "AllOff", 0, target, replies)
          \/ \E job, target : Send(job, "ReadFirmwareType", 0, target, replies)
          \/ \E job, target : Send(job, POLL[pollStep + 1], 0, target, replies)
      BY <2>4 DEF ExpireSession, BeginDiscovery, Poll
    <3>2. /\ "AllOff" \in Ops /\ "ReadFirmwareType" \in Ops /\ POLL[pollStep + 1] \in Ops
      BY <1>0, RoutineIsTyped DEF Ops, Reads, Writes
    <3> QED BY <1>0, <1>2, <3>1, <3>2
  <2> QED BY <1>6, <2>1, <2>2, <2>3, <2>4 DEF Tick
<1>7. CASE ResponseTimeout
  BY <1>0, <1>3, <1>4, <1>5, <1>7 DEF ResponseTimeout, ProbeUnanswered, GiveUp, AwaitRetry
<1>8. CASE Receive
  <2>1. replies # <<>>
    BY <1>8 DEF Receive, DiscardStale, Unsolicited, ProbeAnswered, Undecodable, TooLate, Nakked,
         ErrorAnswered, ReadCondemned, IdentityRead, PollAnswered, OffConfirmed,
         SetpointAcknowledged, OutletAcknowledged, PauseAcknowledged, Echoed, FrameTaken
  <2>2. \/ Silence(Rest)
        \/ \E event : Escalate(event, Rest)
        \/ \E f : NextProbe(f, Rest)
        \/ IdentityRead
    BY <1>8 DEF Receive, DiscardStale, Unsolicited, ProbeAnswered, Undecodable, TooLate, Nakked,
         ErrorAnswered, ReadCondemned, PollAnswered, OffConfirmed,
         SetpointAcknowledged, OutletAcknowledged, PauseAcknowledged
  <2>3. CASE IdentityRead
    <3>1. \/ identifyStep < Len(IDENTIFY) /\ \E job, target :
               Send(job, IDENTIFY[identifyStep + 1], 0, target, Rest)
          \/ \E job, target : Send(job, "AllOff", 0, target, Rest)
      BY <2>3 DEF IdentityRead
    <3>2. "AllOff" \in Ops /\ (identifyStep < Len(IDENTIFY) => IDENTIFY[identifyStep + 1] \in Ops)
      BY <1>0, RoutineIsTyped DEF Ops, Writes
    <3> QED BY <1>1, <1>2, <2>1, <3>1, <3>2
  <2> QED BY <1>1, <1>3, <1>4, <1>5, <2>1, <2>2, <2>3
<1>9. CASE Command
  <2>1. {"AllOff", "SetTemperature", "Pause", "Resume"} \subseteq Ops
    BY DEF Ops, Writes
  <2>2. \/ UNCHANGED busVars
        \/ \E job, target : \E op \in {"AllOff", "SetTemperature", "Pause", "Resume"} :
             Send(job, op, 0, target, replies)
    BY <1>9 DEF Command, Start, RefuseStart, Stop, Pause, Resume, SetTemperature, Order,
         AcknowledgeLatch
  <2> QED BY <1>0, <1>2, <2>1, <2>2 DEF BusTypeOK, busVars
<1>10. CASE Elapse
  <2>1. UNCHANGED <<open, paused, heated, replies>>
        /\ sinceOpen' = IF sinceOpen < STAGGER THEN sinceOpen + 1 ELSE STAGGER
    BY <1>10 DEF Elapse, ValveAges
  <2>2. sinceOpen' \in 0..STAGGER
    BY <1>0, <2>1, ValveBusAssumption DEF BusTypeOK
  <2> QED BY <1>0, <2>1, <2>2 DEF BusTypeOK
<1>11. CASE PortLost \/ ServiceFailure
  BY <1>0, <1>3, <1>11 DEF PortLost, ServiceFailure
<1>12. CASE PumpClosed \/ UNCHANGED vars
  BY <1>0, <1>12 DEF PumpClosed, vars, busVars, BusTypeOK
<1> QED BY <1>6, <1>7, <1>8, <1>9, <1>10, <1>11, <1>12 DEF Next

\* Types and control together, at first and after every step.
LEMMA TypedAlways == Spec => [](TypeOK /\ Control)
<1>1. Init => TypeOK
  <2> SUFFICES ASSUME Init PROVE TypeOK
    OBVIOUS
  <2>1. Control /\ StepsInRange
    BY ControlAtFirst, FirstSteps
  <2>2. ScanTyped /\ AskTyped
    BY ZoneMachineAssumption DEF Init, ScanTyped, AskTyped
  <2>3. LoopTyped
    <3>1. tickIn = 0 /\ pacing = 0 /\ portOpen = TRUE /\ pumpUp = TRUE /\ served = FALSE
      BY DEF Init
    <3>2. 0 \in 0..TICK /\ 0 \in 0..RESPONSE
      BY ZoneMachineAssumption
    <3> QED BY <3>1, <3>2 DEF LoopTyped
  <2>4. SessionTyped /\ CountsTyped
    BY ZoneMachineAssumption, ValveBusAssumption
       DEF Init, SessionTyped, CountsTyped, NoStagger, NoSession, NotPurging
  <2>5. BusTypeOK
    <3>1. /\ open \in {0, MAX_OUTLETS} /\ paused = FALSE /\ heated = FALSE
          /\ sinceOpen = STAGGER /\ replies = <<>>
      BY DEF Init, BusInit
    <3>2. open \in 0..MAX_OUTLETS /\ sinceOpen \in 0..STAGGER
      BY <3>1, ValveBusAssumption
    <3>3. replies \in Seq(Frames(MAX_OUTLETS))
      BY <3>1
    <3> QED BY <3>1, <3>2, <3>3 DEF BusTypeOK
  <2> QED BY <2>1, <2>2, <2>3, <2>4, <2>5, TypesTogether DEF Control, ControlTypeOK
<1>2. TypeOK /\ Control /\ [Next]_vars /\ Control' /\ StepsInRange' => TypeOK'
  <2> SUFFICES ASSUME TypeOK, Control, [Next]_vars, Control', StepsInRange'
               PROVE  TypeOK'
    OBVIOUS
  <2>1. /\ ScanTyped' /\ AskTyped' /\ SessionTyped' /\ CountsTyped' /\ LoopTyped' /\ BusTypeOK'
    BY ScanStaysTyped, AskStaysTyped, SessionStaysTyped, CountsStayTyped, LoopStaysTyped,
       BusStaysTyped, TypesTogether
  <2>2. /\ phase' \in Phases /\ kernel' \in LinkStates
        /\ latch' \in [reason : Faults \cup {"none"}, ack : BOOLEAN]
        /\ grant' \in BOOLEAN /\ stopping' \in BOOLEAN
    BY DEF Control, ControlTypeOK
  <2> QED BY <2>1, <2>2
          DEF TypeOK, StepsInRange, ScanTyped, AskTyped, SessionTyped, CountsTyped, LoopTyped
<1> QED BY <1>1, <1>2, ControlAlways, PTL DEF Spec

\* Every variable of a zone stays in its range: no count, timer or plan of the
\* machine runs out of the integer that holds it.
THEOREM ZoneTyping == Spec => []TypeOK
BY TypedAlways, PTL

-----------------------------------------------------------------------------
(* What a step puts on the bus.                                             *)

\* Only these two steps open an outlet, and only under a running machine.
LEMMA OpensWhileRunning ==
  ASSUME TypeOK, Control, [Next]_vars, open' > open
  PROVE  phase = "Running" /\ phase' = "Running" /\ (Retry \/ OpenNextOutlet)
<1>1. StepsInRange /\ open \in Nat
  BY TypesTogether, ValveBusAssumption DEF BusTypeOK
<1>2. ~OnlyCloses
  BY <1>1 DEF OnlyCloses
<1>3. Retry \/ OpenNextOutlet
  BY <1>1, <1>2, OthersOnlyClose
<1> QED BY <1>2, <1>3, WhatOpens

\* Two steps with no time between them are one instant to the valve.
LEMMA OneFrameAStep ==
  ASSUME [Next]_vars, ~Elapse
  PROVE  /\ valves' = valves
         /\ \/ UNCHANGED valveState
            \/ \E op, count, target, q, l : Carry(op, count, target, q, l)
<1>1. ASSUME NEW op, NEW count, NEW target, NEW q, Transmit(op, count, target, q)
      PROVE  (\E r : Silence(r)) \/ \E l : Carry(op, count, target, q, l)
  BY <1>1 DEF Transmit
<1>2. ASSUME NEW event, NEW q, Escalate(event, q)
      PROVE  (\E r : Silence(r)) \/ \E r, l : Carry("AllOff", 0, OwnTarget, r, l)
  BY <1>2 DEF Escalate
<1>3. ASSUME NEW f, NEW q, NextProbe(f, q)
      PROVE  (\E event : Escalate(event, q)) \/ \E op, count, target : Transmit(op, count, target, q)
  BY <1>3 DEF NextProbe, FinishDiscovery, Send
<1>4. \/ \E q : Silence(q)
      \/ UNCHANGED busVars
      \/ \E event, q : Escalate(event, q)
      \/ \E op, count, target, q : Transmit(op, count, target, q)
  <2>1. CASE Tick
    BY <2>1 DEF Tick, ExpireSession, Retry, Occupied, BeginDiscovery, OpenNextOutlet, Poll, Send
  <2>2. CASE ResponseTimeout
    BY <2>2, <1>3 DEF ResponseTimeout, ProbeUnanswered, GiveUp, AwaitRetry
  <2>3. CASE Receive
    BY <2>3, <1>3
       DEF Receive, DiscardStale, Unsolicited, ProbeAnswered, Undecodable, TooLate,
         Nakked, ErrorAnswered, ReadCondemned, IdentityRead, PollAnswered, OffConfirmed,
         SetpointAcknowledged, OutletAcknowledged, PauseAcknowledged, Send
  <2>4. CASE Command
    BY <2>4 DEF Command, Start, RefuseStart, Stop, Pause, Resume, SetTemperature, Order,
         AcknowledgeLatch, Send
  <2>5. CASE PortLost \/ PumpClosed \/ ServiceFailure \/ UNCHANGED vars
    BY <2>5 DEF PortLost, PumpClosed, ServiceFailure, vars
  <2> QED BY <2>1, <2>2, <2>3, <2>4, <2>5 DEF Next
<1>5. (\E q : Silence(q)) \/ UNCHANGED busVars \/ \E op, count, target, q, l : Carry(op, count, target, q, l)
  BY <1>1, <1>2, <1>4
<1> QED BY <1>5 DEF Silence, busVars, valveState, Carry

-----------------------------------------------------------------------------
(* The purge.                                                               *)

\* The purge and the time since the last solenoid opened run side by side, on
\* the same clock; whichever is longer at the start, the purge ends after both.
PurgeRuns ==
  /\ phase = "Purging" => purgeLeft + sinceOpen >= Smaller(PURGE, STAGGER)
  /\ PurgeBeforeReady

\* How a zone comes to purge and to be ready.
LEMMA WaysToBeReady ==
  ASSUME Control, [Next]_vars
  PROVE  /\ phase' = "ReadyOff" =>
              \/ phase = "ReadyOff"
              \/ phase = "Purging" /\ purgeLeft = 0 /\ ~Elapse
              \/ PURGE = 0
         /\ phase' = "Purging" =>
              \/ phase = "Purging" /\ (purgeLeft' = purgeLeft \/ Elapse)
              \/ purgeLeft' = PURGE
<1>1. ASSUME NEW event, NEW q, Escalate(event, q) PROVE phase' = "Unavailable"
  BY <1>1 DEF Escalate
<1>2. ASSUME NEW f, NEW q, NextProbe(f, q)
      PROVE  phase' \in {"Unavailable", "Identify"} \/ UNCHANGED <<phase, purgeLeft>>
  BY <1>1, <1>2 DEF NextProbe, FinishDiscovery, Steady
<1>3. CASE phase' \in {"Unavailable", "Identify", "ConfirmOff", "Discovery", "Running", "Paused"}
  BY <1>3
<1>4. CASE UNCHANGED <<phase, purgeLeft>>
  BY <1>4
<1>5. CASE Tick
  <2>1. ASSUME SettlePurge PROVE purgeLeft' = purgeLeft
                                 /\ (phase' = phase \/ (PurgeOver /\ phase' = "ReadyOff"))
    BY <2>1 DEF SettlePurge
  <2>2. ASSUME TickTaken PROVE ~Elapse
    BY <2>2 DEF TickTaken, Elapse
  <2> QED BY <1>3, <1>5, <2>1, <2>2
          DEF Tick, ExpireSession, Retry, Occupied, BeginDiscovery, OpenNextOutlet, Poll, PurgeOver
<1>6. CASE ResponseTimeout
  BY <1>1, <1>2, <1>3, <1>4, <1>6 DEF ResponseTimeout, ProbeUnanswered, GiveUp, AwaitRetry, Steady
<1>7. CASE Receive
  <2>1. CASE OffConfirmed
    BY <2>1, ZoneMachineAssumption DEF OffConfirmed
  <2>2. CASE PauseAcknowledged
    <3>1. UNCHANGED <<phase, purgeLeft>> \/ phase' \in {"Running", "Paused"}
      BY <2>2 DEF PauseAcknowledged
    <3> QED BY <1>3, <1>4, <3>1
  <2>3. CASE ~OffConfirmed /\ ~PauseAcknowledged
    BY <1>1, <1>2, <1>3, <1>4, <1>7, <2>3
       DEF Receive, DiscardStale, Unsolicited, ProbeAnswered, Undecodable, TooLate, Nakked,
         ErrorAnswered, ReadCondemned, IdentityRead, PollAnswered, SetpointAcknowledged,
         OutletAcknowledged, Steady
  <2> QED BY <2>1, <2>2, <2>3
<1>8. CASE Command
  BY <1>3, <1>4, <1>8 DEF Command, Start, RefuseStart, Stop, Pause, Resume, SetTemperature,
       Order, AcknowledgeLatch, Steady
<1>9. CASE Elapse
  BY <1>9 DEF Elapse
<1>10. CASE PortLost \/ PumpClosed \/ ServiceFailure \/ UNCHANGED vars
  BY <1>1, <1>3, <1>4, <1>10 DEF PortLost, PumpClosed, ServiceFailure, vars
<1> QED BY <1>5, <1>6, <1>7, <1>8, <1>9, <1>10 DEF Next

\* Time moves both timers by one; no other step moves either.
LEMMA PurgeKeepsRunning ==
  ASSUME TypeOK, Control, PurgeRuns, [Next]_vars
  PROVE  PurgeRuns'
<1>0. /\ purgeLeft \in Nat /\ sinceOpen \in Nat /\ sinceOpen <= STAGGER
      /\ PURGE \in Nat /\ STAGGER \in Nat /\ open \in Nat
  BY TypesTogether, ZoneMachineAssumption, ValveBusAssumption DEF CountsTyped, BusTypeOK
<1>1. CASE Elapse
  <2>1. /\ phase' = phase /\ purgeLeft' = Less1(purgeLeft)
        /\ sinceOpen' = IF sinceOpen < STAGGER THEN sinceOpen + 1 ELSE STAGGER
    BY <1>1 DEF Elapse, ValveAges
  <2> QED BY <1>0, <2>1 DEF PurgeRuns, PurgeBeforeReady, Less1, Smaller
<1>2. CASE ~Elapse
  <2>1. CASE sinceOpen' = sinceOpen
    BY <1>0, <1>2, <2>1, WaysToBeReady DEF PurgeRuns, PurgeBeforeReady, Smaller
  <2>2. CASE sinceOpen' # sinceOpen
    <3>1. open' > open
      BY <1>2, <2>2, OneFrameAStep DEF valveState, Carry
    <3>2. phase' = "Running"
      BY <3>1, OpensWhileRunning
    <3> QED BY <3>2 DEF PurgeRuns, PurgeBeforeReady
  <2> QED BY <2>1, <2>2
<1> QED BY <1>1, <1>2

\* A zone that purges is not ready again before the purge has run, however the
\* stop, the all-off's retries and the purge's own timer interleave with the
\* last solenoid's opening.
THEOREM PurgesRunOut == Spec => []PurgeBeforeReady
<1>1. Init => PurgeRuns
  BY ZoneMachineAssumption DEF Init, PurgeRuns, PurgeBeforeReady
<1>2. TypeOK /\ Control /\ PurgeRuns /\ [Next]_vars => PurgeRuns'
  BY PurgeKeepsRunning
<1>3. PurgeRuns => PurgeBeforeReady
  BY DEF PurgeRuns
<1> QED BY <1>1, <1>2, <1>3, TypedAlways, PTL DEF Spec

-----------------------------------------------------------------------------
(* A bus that loses nothing, to a valve that answers as its manual says.    *)
(* Replies may still be late, come twice, or never be asked for again.      *)

Honest == ~LOSSY /\ ~FAULTY

OutletFrame(f) == ControlByte(f.op) = "WRITE_OUTLET_STATES"
OwnValve == OwnTarget \in valves
Booting == phase \in {"Cold", "Discovery", "Identify"}
Booted == phase \in {"ReadyOff", "Purging", "Running", "Paused"}

\* Every reply in q is on its way in `replies`.
Leftovers(q) ==
  q \in Queues /\ \A i \in 1..Len(q) : \E j \in 1..Len(replies) : q[i] = replies[j]

\* What a job asks for, and of whom.
OpFitsJob ==
  /\ inflight.job = "ConfirmOff" => inflight.op = "AllOff"
  /\ inflight.job = "Open" => inflight.op = "SetOutlets"
  /\ inflight.job \in {"Probe", "Identify", "Poll"} => inflight.op \in Reads
  /\ inflight.job \in {"SetTemperature", "Pause", "Resume"} => inflight.op = inflight.job
  /\ Outstanding /\ inflight.job # "Probe" => inflight.target = OwnTarget

\* A zone whose port is closed is latched.
PortIsOpen == ~portOpen => phase = "Unavailable"

Fitting == OpFitsJob /\ PortIsOpen

\* t and u are the same request to the same address, at different ages.
SameAsk(t, u) == SameRequest(t, u) /\ u.target = t.target

\* Ageing and retrying keep the address too.
LEMMA AskedAgain ==
  ASSUME NEW t \in Transactions, NEW r, NEW s, NEW u
  PROVE  /\ SameAsk(t, [t EXCEPT !.retry = r])
         /\ SameAsk(t, [t EXCEPT !.sent = r, !.total = s])
         /\ SameAsk(t, [t EXCEPT !.retry = r, !.sent = s, !.attempts = u])
<1>1. IsTransaction(t)
  BY DEF Transactions, IsTransaction
<1>2. /\ [t EXCEPT !.retry = r].target = t.target
      /\ [t EXCEPT !.sent = r, !.total = s].target = t.target
      /\ [t EXCEPT !.retry = r, !.sent = s, !.attempts = u].target = t.target
  BY DEF Transactions
<1> QED BY <1>1, <1>2, Touched, Aged, Retransmitted DEF SameAsk

\* The address the machine talks to changes only when discovery ends, and no
\* zone that has booted boots again.
LEMMA AddressStays ==
  ASSUME Control, [Next]_vars, ~Booting
  PROVE  address' = address /\ ~Booting'
<1>1. ~Booting' <=> phase' \notin {"Cold", "Discovery", "Identify"}
  BY DEF Booting
<1>2. inflight.job \notin {"Probe", "Identify"}
  BY DEF Booting, Control, JobFitsPhase, JobFits
<1>3. CASE UNCHANGED <<address, phase>>
  BY <1>1, <1>3 DEF Booting
<1>4. ASSUME NEW event, NEW q, Escalate(event, q) PROVE phase' = "Unavailable"
  BY <1>4 DEF Escalate
<1>5. CASE Tick
  BY <1>1, <1>5 DEF Tick, ExpireSession, Retry, Occupied, BeginDiscovery, OpenNextOutlet, Poll,
       SettlePurge, scanVars, Booting
<1>6. CASE ResponseTimeout
  BY <1>1, <1>2, <1>3, <1>4, <1>6
     DEF ResponseTimeout, ProbeUnanswered, GiveUp, AwaitRetry, scanVars, Steady
<1>7. CASE Receive
  <2>1. CASE PauseAcknowledged \/ OffConfirmed
    <3>1. phase' \in {phase, "Running", "Paused", "Purging", "ReadyOff"} /\ address' = address
      BY <2>1 DEF PauseAcknowledged, OffConfirmed, scanVars
    <3> QED BY <1>1, <3>1 DEF Booting
  <2>2. CASE ~PauseAcknowledged /\ ~OffConfirmed
    BY <1>1, <1>2, <1>3, <1>4, <1>7, <2>2
       DEF Receive, DiscardStale, Unsolicited, ProbeAnswered, Undecodable, TooLate, Nakked,
         ErrorAnswered, ReadCondemned, IdentityRead, PollAnswered, SetpointAcknowledged,
         OutletAcknowledged, Steady, Echoed, scanVars
  <2> QED BY <2>1, <2>2
<1>8. CASE Command
  BY <1>1, <1>3, <1>8 DEF Command, Start, RefuseStart, Stop, Pause, Resume, SetTemperature,
       Order, AcknowledgeLatch, Steady, scanVars
<1>9. CASE PortLost \/ PumpClosed \/ ServiceFailure \/ Elapse \/ UNCHANGED vars
  BY <1>1, <1>3, <1>4, <1>9 DEF PortLost, PumpClosed, ServiceFailure, Elapse, vars, scanVars
<1> QED BY <1>5, <1>6, <1>7, <1>8, <1>9 DEF Next

\* A port is given up in the step that latches its zone.
LEMMA PortStays ==
  ASSUME Control, PortIsOpen, [Next]_vars
  PROVE  PortIsOpen'
<1>1. CASE phase' = "Unavailable"
  BY <1>1 DEF PortIsOpen
<1>2. CASE portOpen' = portOpen /\ portOpen
  BY <1>2 DEF PortIsOpen
<1>3. ASSUME NEW event, NEW q, Escalate(event, q) PROVE phase' = "Unavailable"
  BY <1>3 DEF Escalate
<1>4. ASSUME NEW f, NEW q, NextProbe(f, q) PROVE phase' = "Unavailable" \/ portOpen' = portOpen
  BY <1>3, <1>4 DEF NextProbe, FinishDiscovery, Steady
<1>5. phase' = "Unavailable" \/ portOpen' = portOpen
  <2>1. CASE Tick
    BY <2>1 DEF Tick, ExpireSession, Retry, Occupied, BeginDiscovery, OpenNextOutlet,
         Poll, SettlePurge
  <2>2. CASE ResponseTimeout
    BY <1>3, <1>4, <2>2 DEF ResponseTimeout, ProbeUnanswered, GiveUp, AwaitRetry, Steady
  <2>3. CASE Receive
    BY <1>3, <1>4, <2>3
       DEF Receive, DiscardStale, Unsolicited, ProbeAnswered, Undecodable, TooLate, Nakked,
         ErrorAnswered, ReadCondemned, IdentityRead, PollAnswered, OffConfirmed,
         SetpointAcknowledged, OutletAcknowledged, PauseAcknowledged, Steady
  <2>4. CASE Command
    BY <2>4 DEF Command, Start, RefuseStart, Stop, Pause, Resume, SetTemperature,
         Order, AcknowledgeLatch, Steady
  <2>5. CASE PortLost \/ PumpClosed \/ ServiceFailure \/ Elapse \/ UNCHANGED vars
    BY <1>3, <2>5 DEF PortLost, PumpClosed, ServiceFailure, Elapse, vars
  <2> QED BY <2>1, <2>2, <2>3, <2>4, <2>5 DEF Next
<1>6. CASE phase = "Unavailable"
  <2>1. IsLatched(kernel) /\ inflight.job = "none"
    BY <1>6 DEF Control, KernelAgrees, JobFitsPhase, JobFits, Jobs
  <2>2. phase' = "Unavailable"
    <3>1. CASE phase' = phase
      BY <1>6, <3>1
    <3>2. CASE Tick \/ ResponseTimeout
      BY <1>6, <3>2 DEF Tick, ExpireSession, Retry, Occupied, BeginDiscovery, OpenNextOutlet,
           Poll, TickTaken, Due, ResponseTimeout, ProbeUnanswered, GiveUp, AwaitRetry,
           TimeoutTaken, TimedOut
    <3>3. CASE Receive
      BY <1>3, <1>6, <2>1, <3>3
         DEF Receive, DiscardStale, Unsolicited, ProbeAnswered, Undecodable, TooLate, Nakked,
           ErrorAnswered, ReadCondemned, IdentityRead, PollAnswered, OffConfirmed,
           SetpointAcknowledged, OutletAcknowledged, PauseAcknowledged, Echoed, Decoded,
           Outstanding, Steady
    <3>4. CASE Command
      BY <1>6, <2>1, <3>4
         DEF Command, Start, RefuseStart, Stop, Pause, Resume, SetTemperature, Order,
           MayOpen, IsLatched, Watering, AcknowledgeLatch
    <3>5. CASE PortLost \/ PumpClosed \/ ServiceFailure \/ Elapse \/ UNCHANGED vars
      BY <1>3, <1>6, <3>5 DEF PortLost, PumpClosed, ServiceFailure, Elapse, vars
    <3> QED BY <3>2, <3>3, <3>4, <3>5 DEF Next
  <2> QED BY <1>1, <2>2
<1> QED BY <1>1, <1>2, <1>5, <1>6 DEF PortIsOpen

\* The request of a job is the one it names, to the zone's own valve.
LEMMA OpsStayFitting ==
  ASSUME TypeOK, Control, OpFitsJob, [Next]_vars
  PROVE  OpFitsJob'
<1>0. StepsInRange /\ ScanTyped /\ AskTyped
  BY TypesTogether
<1>1. ASSUME address' = address PROVE OwnTarget' = OwnTarget
  BY <1>1 DEF OwnTarget
<1>2. CASE inflight' = NoTransaction
  BY <1>2 DEF OpFitsJob, NoTransaction, Outstanding
<1>3. ASSUME NEW job, NEW op, NEW count, NEW q, Send(job, op, count, OwnTarget, q),
             address' = address,
             \/ job = "ConfirmOff" /\ op = "AllOff"
             \/ job = "Open" /\ op = "SetOutlets"
             \/ job \in {"Probe", "Identify", "Poll"} /\ op \in Reads
             \/ job \in {"SetTemperature", "Pause", "Resume"} /\ op = job
      PROVE  OpFitsJob'
  <2>1. /\ inflight'.job = job /\ inflight'.op = op /\ inflight'.target = OwnTarget
    BY <1>3 DEF Send, InFlight
  <2> QED BY <1>1, <1>3, <2>1 DEF OpFitsJob
<1>4. CASE SameAsk(inflight, inflight') /\ address' = address
  BY <1>1, <1>4 DEF SameAsk, SameRequest, OpFitsJob, Outstanding
<1>5. CASE inflight' = inflight /\ address' = address
  BY <1>1, <1>5 DEF OpFitsJob, Outstanding
<1>6. Outstanding => inflight \in Transactions
  BY <1>0 DEF AskTyped, Outstanding, NoTransaction
<1>7. ASSUME NEW f \in SUBSET (VALVE_ADDR_MIN..VALVE_ADDR_MAX), NEW q, NextProbe(f, q)
      PROVE  OpFitsJob'
  <2>1. \/ inflight' = NoTransaction
        \/ \E target : Send("Probe", "ReadFirmwareType", 0, target, q)
        \/ \E a \in f : address' = a /\ Send("Identify", IDENTIFY[1], 0, a, q)
    BY <1>7 DEF NextProbe, FinishDiscovery, Escalate
  <2>2. ASSUME NEW target, Send("Probe", "ReadFirmwareType", 0, target, q) PROVE OpFitsJob'
    <3>1. inflight'.job = "Probe" /\ inflight'.op = "ReadFirmwareType"
      BY <2>2 DEF Send, InFlight
    <3> QED BY <3>1 DEF OpFitsJob, Reads
  <2>3. ASSUME NEW a \in f, address' = a, Send("Identify", IDENTIFY[1], 0, a, q) PROVE OpFitsJob'
    <3>1. inflight'.job = "Identify" /\ inflight'.op = IDENTIFY[1] /\ inflight'.target = a
      BY <2>3 DEF Send, InFlight
    <3>2. IDENTIFY[1] \in Reads
      BY <1>0, RoutineIsTyped
    <3>3. a # NoAddress
      BY ZoneMachineAssumption DEF NoAddress
    <3>4. OwnTarget' = a
      BY <2>3, <3>3 DEF OwnTarget
    <3> QED BY <3>1, <3>2, <3>4 DEF OpFitsJob
  <2> QED BY <1>2, <2>1, <2>2, <2>3
<1>8. CASE Tick
  <2>1. CASE Retry
    <3>1. /\ Outstanding /\ address' = address
          /\ inflight' = [inflight EXCEPT !.retry = FALSE, !.sent = 0,
                                          !.attempts = Plus1(inflight.attempts, ATTEMPTS)]
      BY <2>1 DEF Retry, scanVars
    <3> QED BY <1>4, <1>6, <3>1, AskedAgain
  <2>2. CASE Occupied
    BY <1>5, <2>2 DEF Occupied, scanVars
  <2>3. CASE BeginDiscovery
    <3>1. inflight'.job = "Probe" /\ inflight'.op = "ReadFirmwareType"
      BY <2>3 DEF BeginDiscovery, Send, InFlight
    <3> QED BY <3>1 DEF OpFitsJob, Reads
  <2>4. CASE ExpireSession \/ OpenNextOutlet \/ Poll
    BY <1>0, <1>3, <2>4, RoutineIsTyped DEF ExpireSession, OpenNextOutlet, Poll, scanVars
  <2> QED BY <1>8, <2>1, <2>2, <2>3, <2>4 DEF Tick
<1>9. CASE ResponseTimeout
  <2>1. CASE ProbeUnanswered
    BY <1>0, <1>7, <2>1 DEF ProbeUnanswered, ScanTyped
  <2>2. CASE GiveUp
    BY <1>2, <2>2 DEF GiveUp, Escalate
  <2>3. CASE AwaitRetry
    <3>1. Outstanding /\ address' = address /\ inflight' = [inflight EXCEPT !.retry = TRUE]
      BY <2>3 DEF AwaitRetry, TimeoutTaken, TimedOut, scanVars
    <3> QED BY <1>4, <1>6, <3>1, AskedAgain
  <2> QED BY <1>9, <2>1, <2>2, <2>3 DEF ResponseTimeout
<1>10. CASE Receive
  <2>1. CASE ProbeAnswered
    <3>1. inflight.target \in VALVE_ADDR_MIN..VALVE_ADDR_MAX
      BY <1>0, <2>1 DEF ProbeAnswered, AskTyped, Transactions, NoTransaction
    <3>2. found \cup {inflight.target} \in SUBSET (VALVE_ADDR_MIN..VALVE_ADDR_MAX)
      BY <1>0, <3>1 DEF ScanTyped
    <3>3. NextProbe(found \cup {inflight.target}, Rest)
      BY <2>1 DEF ProbeAnswered
    <3> QED BY <1>7, <3>2, <3>3
  <2>2. CASE IdentityRead
    BY <1>0, <1>3, <2>2, RoutineIsTyped DEF IdentityRead
  <2>3. CASE ~ProbeAnswered /\ ~IdentityRead
    BY <1>2, <1>5, <1>10, <2>3
       DEF Receive, DiscardStale, Unsolicited, Undecodable, TooLate, Nakked, ErrorAnswered,
         ReadCondemned, PollAnswered, OffConfirmed, SetpointAcknowledged,
         OutletAcknowledged, PauseAcknowledged, Escalate, scanVars
  <2> QED BY <2>1, <2>2, <2>3
<1>11. CASE Command
  BY <1>3, <1>5, <1>11
     DEF Command, Start, RefuseStart, Stop, Pause, Resume, SetTemperature, Order,
       AcknowledgeLatch, scanVars
<1>12. CASE Elapse
  <2>1. /\ address' = address
        /\ inflight' = IF Outstanding
                       THEN [inflight EXCEPT !.sent = Plus1(inflight.sent, RESPONSE + 1),
                                             !.total = Plus1(inflight.total, CEILING)]
                       ELSE inflight
    BY <1>12 DEF Elapse, scanVars
  <2> QED BY <1>4, <1>5, <1>6, <2>1, AskedAgain
<1>13. CASE PortLost \/ PumpClosed \/ ServiceFailure \/ UNCHANGED vars
  BY <1>2, <1>5, <1>13 DEF PortLost, PumpClosed, ServiceFailure, Escalate, vars, scanVars
<1> QED BY <1>8, <1>9, <1>10, <1>11, <1>12, <1>13 DEF Next

\* Requests fit their jobs and closed ports their latches, on every run.
LEMMA FittingAlways == Spec => [](TypeOK /\ Control /\ Fitting)
<1>1. Init => Fitting
  BY DEF Init, Fitting, OpFitsJob, PortIsOpen, NoTransaction, Outstanding
<1>2. TypeOK /\ Control /\ Fitting /\ [Next]_vars => Fitting'
  BY OpsStayFitting, PortStays DEF Fitting
<1> QED BY <1>1, <1>2, TypedAlways, PTL DEF Spec

\* Outlets are written under a running machine and by an all-off only: one
\* that begins to stop or goes on stopping, or that latches the zone.
OutletWrite(op, count) ==
  \/ op = "AllOff" /\ phase' \in {"ConfirmOff", "Unavailable"}
  \/ /\ op = "SetOutlets" /\ phase = "Running" /\ phase' = "Running"
     /\ inflight'.job = "Open" /\ inflight'.count = count
     /\ (inflight.job = "Open" /\ count = inflight.count)
          \/ (StaggerDue /\ count = stagger.next + 1)

\* What goes out on an open port, and to whom.
LEMMA WhatGoesOut ==
  ASSUME TypeOK, Control, Fitting, [Next]_vars
  PROVE  \/ valves' = valves /\ replies' = replies /\ UNCHANGED <<open, paused, heated>>
         \/ \E q : /\ Leftovers(q)
                   /\ \/ Silence(q)
                      \/ \E op, count, target, l :
                           /\ Carry(op, count, target, q, l)
                           /\ \/ op \in Reads
                              \/ target = OwnTarget /\ address' = address /\
                                   \/ OutletWrite(op, count)
                                   \/ op \in {"SetTemperature", "Pause", "Resume"}
                                      /\ phase' \in {"Running", "Paused"}
<1> DEFINE Sent(q) ==
             \/ Silence(q)
             \/ \E op, count, target, l :
                  /\ Carry(op, count, target, q, l)
                  /\ \/ op \in Reads
                     \/ target = OwnTarget /\ address' = address /\
                          \/ OutletWrite(op, count)
                          \/ op \in {"SetTemperature", "Pause", "Resume"}
                             /\ phase' \in {"Running", "Paused"}
           Goal == \/ valves' = valves /\ replies' = replies /\ UNCHANGED <<open, paused, heated>>
                   \/ \E q : Leftovers(q) /\ Sent(q)
<1>0. StepsInRange /\ replies \in Queues /\ (replies # <<>> => Rest \in Queues)
  BY TypesTogether, RepliesAreFrames DEF BusTypeOK, Queues
<1>1. Leftovers(replies)
  BY <1>0 DEF Leftovers
<1>2. replies # <<>> => Leftovers(Rest)
  <2> SUFFICES ASSUME replies # <<>> PROVE Leftovers(Rest)
    OBVIOUS
  <2>1. \A i \in 1..Len(Rest) : i + 1 \in 1..Len(replies) /\ Rest[i] = replies[i + 1]
    BY <1>0 DEF Rest, Queues
  <2> QED BY <1>0, <2>1 DEF Leftovers
<1>3. ASSUME NEW q, Leftovers(q), NEW n \in 0..Len(q) PROVE Leftovers(SubSeq(q, 1, n))
  <2>1. q \in Queues
    BY <1>3 DEF Leftovers
  <2>2. /\ SubSeq(q, 1, n) \in Queues
        /\ Len(SubSeq(q, 1, n)) = n
        /\ \A i \in 1..n : i \in 1..Len(q) /\ SubSeq(q, 1, n)[i] = q[i]
    BY <1>3, <2>1 DEF Queues
  <2> QED BY <1>3, <2>2 DEF Leftovers
<1>4. ASSUME NEW event, NEW q, Leftovers(q), Escalate(event, q), address' = address
      PROVE  Goal
  <2>1. phase' = "Unavailable"
    BY <1>4 DEF Escalate
  <2>2. OutletWrite("AllOff", 0)
    BY <2>1 DEF OutletWrite
  <2>3. ASSUME NEW r, NEW l, Carry("AllOff", 0, OwnTarget, r, l) PROVE Sent(r)
    BY <1>4, <2>2, <2>3
  <2>4. \/ Silence(q)
        \/ \E l : Carry("AllOff", 0, OwnTarget, q, l)
        \/ \E n \in 0..Len(q) : \/ Silence(SubSeq(q, 1, n))
                                \/ Carry("AllOff", 0, OwnTarget, SubSeq(q, 1, n), FALSE)
    BY <1>4 DEF Escalate
  <2>5. Sent(q) \/ \E n \in 0..Len(q) : Sent(SubSeq(q, 1, n))
    BY <2>3, <2>4
  <2> HIDE DEF Sent
  <2> QED BY <1>3, <1>4, <2>5
<1>5. ASSUME NEW job, NEW op, NEW count, NEW target, NEW q, Leftovers(q),
             Send(job, op, count, target, q),
             \/ op \in Reads
             \/ target = OwnTarget /\ address' = address /\
                  \/ OutletWrite(op, count)
                  \/ op \in {"SetTemperature", "Pause", "Resume"}
                     /\ phase' \in {"Running", "Paused"}
      PROVE  Goal
  <2>1. Sent(q)
    BY <1>5 DEF Send, Transmit
  <2> HIDE DEF Sent
  <2> QED BY <1>5, <2>1
<1>6. ASSUME NEW q, Leftovers(q), Silence(q) PROVE Goal
  BY <1>6
<1>7. ASSUME NEW f, NEW q, Leftovers(q), NextProbe(f, q) PROVE Goal
  <2>1. IDENTIFY[1] \in Reads /\ "ReadFirmwareType" \in Reads
    BY <1>0, RoutineIsTyped DEF Reads
  <2>2. \/ \E job, target : Send(job, "ReadFirmwareType", 0, target, q)
        \/ \E job, target : Send(job, IDENTIFY[1], 0, target, q)
        \/ \E event : Escalate(event, q) /\ address' = address
    BY <1>7 DEF NextProbe, FinishDiscovery
  <2> HIDE DEF Goal
  <2> QED BY <1>4, <1>5, <1>7, <2>1, <2>2
<1>8. ASSUME valves' = valves, replies' = replies, UNCHANGED <<open, paused, heated>>
      PROVE  Goal
  BY <1>8
<1> SUFFICES Goal
  OBVIOUS
<1> HIDE DEF Goal
<1>9. CASE Tick
  <2>1. CASE Retry
    <3>1. /\ Outstanding /\ SettlePurge /\ address' = address
          /\ Transmit(inflight.op, inflight.count, inflight.target, replies)
          /\ inflight' = [inflight EXCEPT !.retry = FALSE, !.sent = 0,
                                          !.attempts = Plus1(inflight.attempts, ATTEMPTS)]
      BY <2>1 DEF Retry, scanVars
    <3>2. IsTransaction(inflight)
      BY DEF Control
    <3>3. inflight'.job = inflight.job /\ inflight'.count = inflight.count
      <4>1. SameRequest(inflight, inflight')
        BY <3>1, <3>2, Retransmitted
      <4> QED BY <4>1 DEF SameRequest
    <3>4. inflight.job \in Jobs
      BY <3>1 DEF Control, JobFitsPhase, JobFits, Outstanding
    <3>5. phase # "Purging" => phase' = phase
      BY <3>1 DEF SettlePurge, PurgeOver
    <3>6. CASE inflight.job \in {"Probe", "Identify", "Poll"}
      <4>1. inflight.op \in Reads
        BY <3>6 DEF Fitting, OpFitsJob
      <4>2. Silence(replies) \/ \E l : Carry(inflight.op, inflight.count, inflight.target, replies, l)
        BY <3>1 DEF Transmit
      <4> QED BY <1>1, <4>1, <4>2 DEF Goal
    <3>7. CASE inflight.job \notin {"Probe", "Identify", "Poll"}
      <4>1. inflight.target = OwnTarget
        BY <3>1, <3>7 DEF Fitting, OpFitsJob
      <4>2. \/ OutletWrite(inflight.op, inflight.count)
            \/ /\ inflight.op \in {"SetTemperature", "Pause", "Resume"}
               /\ phase' \in {"Running", "Paused"}
        <5>1. CASE inflight.job = "ConfirmOff"
          BY <3>5, <5>1 DEF Fitting, OpFitsJob, Control, JobFitsPhase, JobFits, OutletWrite
        <5>2. CASE inflight.job = "Open"
          BY <3>3, <3>5, <5>2 DEF Fitting, OpFitsJob, Control, JobFitsPhase, JobFits, OutletWrite
        <5>3. CASE inflight.job \in {"SetTemperature", "Pause", "Resume"}
          BY <3>5, <5>3 DEF Fitting, OpFitsJob, Control, JobFitsPhase, JobFits
        <5> QED BY <3>4, <3>7, <5>1, <5>2, <5>3 DEF Jobs
      <4>3. Silence(replies) \/ \E l : Carry(inflight.op, inflight.count, inflight.target, replies, l)
        BY <3>1 DEF Transmit
      <4> QED BY <1>1, <3>1, <4>1, <4>2, <4>3 DEF Goal
    <3> QED BY <3>6, <3>7
  <2>2. CASE Occupied
    BY <1>1, <1>6, <2>2 DEF Occupied
  <2>3. CASE BeginDiscovery
    BY <1>1, <1>5, <2>3 DEF BeginDiscovery, Reads
  <2>4. CASE ExpireSession
    <3>1. phase' = "ConfirmOff" /\ address' = address
          /\ Send("ConfirmOff", "AllOff", 0, OwnTarget, replies)
      BY <2>4 DEF ExpireSession, scanVars
    <3> QED BY <1>1, <1>5, <3>1 DEF OutletWrite
  <2>5. CASE OpenNextOutlet
    <3>1. /\ phase = "Running" /\ StaggerDue /\ address' = address /\ SettlePurge
          /\ Send("Open", "SetOutlets", stagger.next + 1, OwnTarget, replies)
      BY <2>5 DEF OpenNextOutlet, scanVars
    <3>2. phase' = "Running"
      BY <3>1 DEF SettlePurge, PurgeOver
    <3>3. inflight'.job = "Open" /\ inflight'.count = stagger.next + 1
      BY <3>1 DEF Send, InFlight
    <3>4. OutletWrite("SetOutlets", stagger.next + 1)
      BY <3>1, <3>2, <3>3 DEF OutletWrite
    <3> QED BY <1>1, <1>5, <3>1, <3>4
  <2>6. CASE Poll
    BY <1>0, <1>1, <1>5, <2>6, RoutineIsTyped DEF Poll
  <2> QED BY <1>9, <2>1, <2>2, <2>3, <2>4, <2>5, <2>6 DEF Tick
<1>10. CASE ResponseTimeout
  BY <1>1, <1>4, <1>6, <1>7, <1>10
     DEF ResponseTimeout, ProbeUnanswered, GiveUp, AwaitRetry, scanVars
<1>11. CASE Receive
  <2>1. replies # <<>>
    BY <1>11 DEF Receive, DiscardStale, Unsolicited, ProbeAnswered, Undecodable, TooLate, Nakked,
         ErrorAnswered, ReadCondemned, IdentityRead, PollAnswered, OffConfirmed,
         SetpointAcknowledged, OutletAcknowledged, PauseAcknowledged, Echoed, FrameTaken
  <2>2. Leftovers(Rest)
    BY <1>2, <2>1
  <2>3. CASE IdentityRead
    <3>1. CASE identifyStep < Len(IDENTIFY)
      BY <1>0, <1>5, <2>2, <2>3, <3>1, RoutineIsTyped DEF IdentityRead
    <3>2. CASE ~(identifyStep < Len(IDENTIFY))
      <4>1. phase' = "ConfirmOff" /\ address' = address
            /\ Send("ConfirmOff", "AllOff", 0, OwnTarget, Rest)
        BY <2>3, <3>2 DEF IdentityRead
      <4> QED BY <1>5, <2>2, <4>1 DEF OutletWrite
    <3> QED BY <3>1, <3>2
  <2>4. CASE ~IdentityRead
    <3>1. \/ Silence(Rest)
          \/ \E event : Escalate(event, Rest) /\ address' = address
          \/ \E f : NextProbe(f, Rest)
      BY <1>11, <2>4
         DEF Receive, DiscardStale, Unsolicited, ProbeAnswered, Undecodable, TooLate, Nakked,
           ErrorAnswered, ReadCondemned, PollAnswered, OffConfirmed, SetpointAcknowledged,
           OutletAcknowledged, PauseAcknowledged, scanVars
    <3> QED BY <1>4, <1>6, <1>7, <2>2, <3>1
  <2> QED BY <2>3, <2>4
<1>12. CASE Command
  <2>1. CASE Stop
    <3>1. phase' = "ConfirmOff" /\ address' = address
          /\ Send("ConfirmOff", "AllOff", 0, OwnTarget, replies)
      BY <2>1 DEF Stop, scanVars
    <3> QED BY <1>1, <1>5, <3>1 DEF OutletWrite
  <2>2. CASE ~Stop
    <3>1. \/ UNCHANGED busVars
          \/ \E op \in {"SetTemperature", "Pause", "Resume"} :
               /\ Send(op, op, 0, OwnTarget, replies) /\ address' = address
               /\ phase' \in {"Running", "Paused"}
      BY <1>12, <2>2 DEF Command, Start, RefuseStart, Pause, Resume, SetTemperature, Order,
           AcknowledgeLatch, scanVars, Steady, Watering
    <3> QED BY <1>1, <1>5, <1>8, <3>1 DEF busVars
  <2> QED BY <2>1, <2>2
<1>13. CASE PortLost \/ ServiceFailure
  BY <1>1, <1>4, <1>13 DEF PortLost, ServiceFailure, scanVars
<1>14. CASE PumpClosed \/ Elapse \/ UNCHANGED vars
  BY <1>8, <1>14 DEF PumpClosed, Elapse, ValveAges, vars, busVars
<1> QED BY <1>9, <1>10, <1>11, <1>12, <1>13, <1>14 DEF Next

\* Every frame heard names the operation it answers, and the echo of a write
\* is heard of a write that took effect.
LEMMA EchoesAreTrue ==
  ASSUME NEW op, NEW o \in Outcomes(op), NEW i \in 1..Len(o.heard)
  PROVE  o.heard[i].op = op /\ (o.heard[i].kind = "echo" => o.acts = TRUE \/ op \in Reads)
<1> DEFINE Says(f) == f.op = op /\ (f.kind = "echo" => o.acts = TRUE \/ op \in Reads)
<1>1. Answer(op).op = op
  BY DEF Answer, Reply
<1>2. CASE o = [acts |-> TRUE, heard |-> <<Answer(op)>>]
  BY <1>1, <1>2
<1>3. CASE o = [acts |-> TRUE, heard |-> <<Answer(op), Answer(op)>>]
  BY <1>1, <1>3
<1>4. CASE op \in Reads /\ o = [acts |-> FALSE, heard |-> <<Reply(op, "echo", BAD)>>]
  BY <1>4 DEF Reply
<1>5. CASE o \in [acts : BOOLEAN, heard : {<<>>}]
  BY <1>5
<1>6. CASE o \in [acts : BOOLEAN, heard : {<<Reply(op, "garbled", 0)>>}]
  BY <1>6 DEF Reply
<1>7. CASE o \in [acts : {FALSE},
                  heard : {<<Reply(op, "error", 0)>>, <<Reply(op, "error", BAD)>>,
                           <<Reply(op, "nak", 0)>>}]
  BY <1>7 DEF Reply
<1> QED BY <1>2, <1>3, <1>4, <1>5, <1>6, <1>7 DEF Outcomes

\* An outlet write has moved the outlets.
TookEffect(op, count) ==
  (op = "AllOff" => open' = 0) /\ (op = "SetOutlets" => open' = count)

\* What is on its way after a request was there before, or says so.
LEMMA Heard ==
  ASSUME BusTypeOK, NEW op \in Ops, NEW count, NEW target, NEW q \in Queues, NEW l,
         Carry(op, count, target, q, l)
  PROVE  \A i \in 1..Len(replies') :
           \/ \E j \in 1..Len(q) : replies'[i] = q[j]
           \/ /\ target \in valves /\ replies'[i].op = op
              /\ replies'[i].kind = "echo" => TookEffect(op, count)
<1> SUFFICES ASSUME NEW i \in 1..Len(replies')
             PROVE  \/ \E j \in 1..Len(q) : replies'[i] = q[j]
                    \/ /\ target \in valves /\ replies'[i].op = op
                       /\ replies'[i].kind = "echo" => TookEffect(op, count)
  OBVIOUS
<1>1. CASE replies' = q
  BY <1>1
<1>2. ASSUME target \in valves, NEW o \in Outcomes(op), open' = OpenAfter(o.acts, op, count),
             replies' = q \o o.heard
      PROVE  \/ \E j \in 1..Len(q) : replies'[i] = q[j]
             \/ /\ target \in valves /\ replies'[i].op = op
                /\ replies'[i].kind = "echo" => TookEffect(op, count)
  <2>1. o.heard \in Queues
    BY OutcomesAreHeard DEF BusTypeOK
  <2>2. \/ \E j \in 1..Len(q) : replies'[i] = q[j]
        \/ \E j \in 1..Len(o.heard) : replies'[i] = o.heard[j]
    <3>1. CASE i <= Len(q)
      <4>1. replies'[i] = q[i] /\ i \in 1..Len(q)
        BY <1>2, <2>1, <3>1 DEF Queues
      <4> QED BY <4>1
    <3>2. CASE ~(i <= Len(q))
      <4>1. replies'[i] = o.heard[i - Len(q)] /\ i - Len(q) \in 1..Len(o.heard)
        BY <1>2, <2>1, <3>2 DEF Queues
      <4> QED BY <4>1
    <3> QED BY <3>1, <3>2
  <2>3. ASSUME NEW j \in 1..Len(o.heard), replies'[i] = o.heard[j]
        PROVE  /\ target \in valves /\ replies'[i].op = op
               /\ replies'[i].kind = "echo" => TookEffect(op, count)
    <3>1. o.heard[j].op = op /\ (o.heard[j].kind = "echo" => o.acts = TRUE \/ op \in Reads)
      BY EchoesAreTrue
    <3>2. op \in Reads => op \notin {"AllOff", "SetOutlets"}
      BY DEF Reads
    <3>3. ASSUME o.acts = TRUE PROVE TookEffect(op, count)
      BY <1>2, <3>3 DEF OpenAfter, TookEffect
    <3>4. op \in Reads => TookEffect(op, count)
      BY <3>2 DEF TookEffect
    <3> QED BY <1>2, <2>3, <3>1, <3>3, <3>4
  <2> QED BY <2>2, <2>3
<1> QED BY <1>1, <1>2 DEF Carry

\* A reply to an outlet write is on its way only from the zone's own valve, and
\* only once the zone has been told to confirm that it is off.
EchoesAreOwn ==
  \A i \in 1..Len(replies) : OutletFrame(replies[i]) => OwnValve /\ ~Booting

\* So a zone that booted was answered by its valve.
Answering == EchoesAreOwn /\ (Booted => OwnValve)

\* The replies to outlet writes, step by step.
LEMMA EchoesStayOwn ==
  ASSUME TypeOK, Control, Fitting, EchoesAreOwn, [Next]_vars
  PROVE  EchoesAreOwn'
<1>0. BusTypeOK /\ address \in Int /\ (~Booting => address' = address /\ ~Booting')
  BY AddressStays, ZoneMachineAssumption DEF TypeOK, NoAddress
<1>1. ASSUME valves' = valves, ~Booting, OwnValve PROVE OwnValve' /\ ~Booting'
  BY <1>0, <1>1 DEF OwnValve, OwnTarget
<1>2. CASE valves' = valves /\ replies' = replies
  BY <1>1, <1>2 DEF EchoesAreOwn, OutletFrame
<1>3. ASSUME NEW q, Leftovers(q), NEW j \in 1..Len(q), OutletFrame(q[j])
      PROVE  OwnValve /\ ~Booting
  BY <1>3 DEF Leftovers, EchoesAreOwn
<1>4. ASSUME NEW q, Leftovers(q), Silence(q) PROVE EchoesAreOwn'
  BY <1>1, <1>3, <1>4 DEF Silence, EchoesAreOwn, OutletFrame
<1>5. ASSUME NEW q, Leftovers(q), NEW op, NEW count, NEW target, NEW l,
             Carry(op, count, target, q, l),
             \/ op \in Reads
             \/ target = OwnTarget /\ address' = address /\
                  \/ OutletWrite(op, count)
                  \/ op \in {"SetTemperature", "Pause", "Resume"}
                     /\ phase' \in {"Running", "Paused"}
      PROVE  EchoesAreOwn'
  <2>1. op \in Ops /\ q \in Queues /\ valves' = valves
    BY <1>5 DEF Ops, Writes, OutletWrite, Leftovers, Carry
  <2>0. \A i \in 1..Len(replies') :
          \/ \E j \in 1..Len(q) : replies'[i] = q[j]
          \/ /\ target \in valves /\ replies'[i].op = op
             /\ replies'[i].kind = "echo" => TookEffect(op, count)
    <3>1. BusTypeOK /\ op \in Ops /\ q \in Queues /\ Carry(op, count, target, q, l)
      BY <1>0, <1>5, <2>1
    <3> QED BY ONLY <3>1, Heard
  <2> SUFFICES ASSUME NEW i \in 1..Len(replies'),
                      ControlByte(replies'[i].op) = "WRITE_OUTLET_STATES"
               PROVE  OwnValve' /\ ~Booting'
    BY DEF EchoesAreOwn, OutletFrame
  <2>2. CASE \E j \in 1..Len(q) : replies'[i] = q[j]
    BY <1>1, <1>3, <1>5, <2>1, <2>2 DEF OutletFrame
  <2>3. CASE target \in valves /\ replies'[i].op = op
    <3>1. op \in {"AllOff", "SetOutlets"}
      BY <2>1, <2>3 DEF ControlByte, Ops, Writes, Reads
    <3>2. target = OwnTarget /\ address' = address /\ OutletWrite(op, count)
      BY <1>5, <3>1 DEF Reads
    <3>3. ~Booting'
      <4>1. phase' \in {"ConfirmOff", "Unavailable", "Running"}
        BY <3>2 DEF OutletWrite
      <4> QED BY <4>1 DEF Booting
    <3>4. OwnTarget \in valves /\ address' = address /\ valves' = valves
      BY <2>1, <2>3, <3>2
    <3>5. OwnValve'
      BY <3>4 DEF OwnValve, OwnTarget
    <3> QED BY <3>3, <3>5
  <2>4. \/ \E j \in 1..Len(q) : replies'[i] = q[j]
        \/ target \in valves /\ replies'[i].op = op
    BY <2>0
  <2> QED BY <2>2, <2>3, <2>4
<1> QED BY <1>2, <1>4, <1>5, WhatGoesOut

\* A zone becomes ready by the answer to its all-off.
LEMMA AnsweredBeforeReady ==
  ASSUME Control, [Next]_vars, ~Booted, Booted'
  PROVE  OffConfirmed
<1>1. ~Booted => phase \notin {"ReadyOff", "Purging", "Running", "Paused"}
  BY DEF Booted
<1>2. phase' \in {"ReadyOff", "Purging", "Running", "Paused"}
  BY DEF Booted
<1>3. ASSUME NEW event, NEW q, Escalate(event, q) PROVE phase' = "Unavailable"
  BY <1>3 DEF Escalate
<1>4. ASSUME NEW f, NEW q, NextProbe(f, q) PROVE phase' \in {"Unavailable", "Identify", phase}
  BY <1>3, <1>4 DEF NextProbe, FinishDiscovery, Steady
<1>5. CASE Tick
  BY <1>1, <1>2, <1>5 DEF Tick, ExpireSession, Retry, Occupied, BeginDiscovery, OpenNextOutlet,
       Poll, SettlePurge, PurgeOver
<1>6. CASE ResponseTimeout
  BY <1>1, <1>2, <1>3, <1>4, <1>6 DEF ResponseTimeout, ProbeUnanswered, GiveUp, AwaitRetry, Steady
<1>7. CASE Receive
  <2>1. CASE PauseAcknowledged
    <3>1. phase' = phase \/ phase \in {"Running", "Paused"}
      BY <2>1 DEF PauseAcknowledged
    <3> QED BY <1>1, <1>2, <3>1
  <2>2. CASE ~PauseAcknowledged
    BY <1>1, <1>2, <1>3, <1>4, <1>7, <2>2
       DEF Receive, DiscardStale, Unsolicited, ProbeAnswered, Undecodable, TooLate, Nakked,
         ErrorAnswered, ReadCondemned, IdentityRead, PollAnswered, SetpointAcknowledged,
         OutletAcknowledged, Steady
  <2> QED BY <2>1, <2>2
<1>8. CASE Command
  BY <1>1, <1>2, <1>8 DEF Command, Start, RefuseStart, Stop, Pause, Resume, SetTemperature,
       Order, AcknowledgeLatch, Steady
<1>9. CASE PortLost \/ PumpClosed \/ ServiceFailure \/ Elapse \/ UNCHANGED vars
  BY <1>1, <1>2, <1>3, <1>9 DEF PortLost, PumpClosed, ServiceFailure, Elapse, vars
<1> QED BY <1>5, <1>6, <1>7, <1>8, <1>9 DEF Next

\* The answer to an all-off is the reply to an outlet write.
LEMMA ConfirmedByAnOutletFrame ==
  ASSUME TypeOK, Fitting, OffConfirmed
  PROVE  /\ 1 \in 1..Len(replies) /\ OutletFrame(replies[1])
         /\ replies[1].kind = "echo" /\ Frame = replies[1]
         /\ replies[1] \in Frames(MAX_OUTLETS)
<1>1. replies # <<>> /\ replies \in Queues
  BY DEF OffConfirmed, Echoed, FrameTaken, TypeOK, BusTypeOK, Queues
<1>2. 1 \in 1..Len(replies) /\ Frame = replies[1] /\ replies[1] \in Frames(MAX_OUTLETS)
  BY <1>1 DEF Queues, Frame
<1>3. Frame.kind = "echo" /\ ~UnexpectedControl(Frame, "AllOff")
  BY DEF OffConfirmed, Echoed, Decoded, Refused, Fitting, OpFitsJob
<1> QED BY <1>2, <1>3 DEF UnexpectedControl, OutletFrame, ControlByte

\* Both together, on any bus.
LEMMA AnsweringAlways == Spec => [](TypeOK /\ Control /\ Fitting /\ Answering)
<1>1. Init => Answering
  BY DEF Init, BusInit, Answering, EchoesAreOwn, Booted
<1>2. ASSUME TypeOK, Control, Fitting, Answering, [Next]_vars PROVE Answering'
  <2>1. EchoesAreOwn'
    BY <1>2, EchoesStayOwn DEF Answering
  <2>2. valves' = valves
    <3>1. Elapse => valves' = valves
      BY DEF Elapse, ValveAges
    <3> QED BY <1>2, <3>1, OneFrameAStep
  <2>3. ASSUME Booted' PROVE OwnValve'
    <3>1. CASE Booted
      <4>1. ~Booting /\ OwnValve
        BY <1>2, <3>1 DEF Booted, Booting, Answering
      <4> QED BY <1>2, <2>2, <4>1, AddressStays DEF OwnValve, OwnTarget
    <3>2. CASE ~Booted
      <4>1. OffConfirmed
        BY <1>2, <2>3, <3>2, AnsweredBeforeReady
      <4>2. OwnValve /\ ~Booting
        BY <1>2, <4>1, ConfirmedByAnOutletFrame DEF Answering, EchoesAreOwn
      <4> QED BY <1>2, <2>2, <4>2, AddressStays DEF OwnValve, OwnTarget
    <3> QED BY <3>1, <3>2
  <2> QED BY <2>1, <2>3 DEF Answering
<1> QED BY <1>1, <1>2, FittingAlways, PTL DEF Spec

-----------------------------------------------------------------------------
(* What the valve has done.                                                 *)

\* On an honest bus the valve does what it is asked, and each reply says so.
LEMMA CarriedOut ==
  ASSUME Honest, NEW op, NEW count, NEW target, NEW q, NEW l, Carry(op, count, target, q, l)
  PROVE  /\ target \notin valves => open' = open /\ heated' = heated
         /\ target \in valves =>
              /\ op = "AllOff" => open' = 0
              /\ op = "SetOutlets" => open' = count
              /\ op \notin {"AllOff", "SetOutlets"} => open' = open
              /\ op = "SetTemperature" => heated'
              /\ op # "AllOff" => (heated => heated')
<1>1. CASE target \notin valves
  BY <1>1 DEF Carry, valveState
<1>2. CASE target \in valves
  <2>1. PICK o \in Outcomes(op) :
               /\ open' = OpenAfter(o.acts, op, count)
               /\ heated' = CASE o.acts /\ op = "SetTemperature" -> TRUE
                              [] o.acts /\ op = "AllOff"         -> FALSE
                              [] OTHER                           -> heated
    BY <1>2 DEF Carry
  <2>2. o.acts = TRUE
    BY DEF Honest, Outcomes
  <2> QED BY <1>2, <2>1, <2>2 DEF OpenAfter
<1> QED BY <1>1, <1>2

\* So a step leaves the outlets alone, closes them on the way to a stop or a
\* latch, or sets them to what the outstanding write asks for.
LEMMA Effects ==
  ASSUME Honest, TypeOK, Control, Fitting, [Next]_vars
  PROVE  \/ open' = open /\ (heated => heated')
         \/ phase' \in {"ConfirmOff", "Unavailable"} /\ open' \in {open, 0}
         \/ /\ phase = "Running" /\ phase' = "Running" /\ (heated => heated')
            /\ open' = inflight'.count /\ inflight'.job = "Open"
<1>1. ASSUME NEW op, NEW count, NEW target, NEW q, NEW l, Carry(op, count, target, q, l),
             \/ op \in Reads
             \/ target = OwnTarget /\ address' = address /\
                  \/ OutletWrite(op, count)
                  \/ op \in {"SetTemperature", "Pause", "Resume"}
                     /\ phase' \in {"Running", "Paused"}
      PROVE  \/ open' = open /\ (heated => heated')
             \/ phase' \in {"ConfirmOff", "Unavailable"} /\ open' \in {open, 0}
             \/ /\ phase = "Running" /\ phase' = "Running" /\ (heated => heated')
                /\ open' = inflight'.count /\ inflight'.job = "Open"
  <2>1. CASE op \notin {"AllOff", "SetOutlets"}
    BY <1>1, <2>1, CarriedOut
  <2>2. CASE op \in {"AllOff", "SetOutlets"}
    <3>1. OutletWrite(op, count)
      BY <1>1, <2>2 DEF Reads
    <3>2. CASE op = "AllOff"
      <4>1. phase' \in {"ConfirmOff", "Unavailable"}
        BY <3>1, <3>2 DEF OutletWrite
      <4> QED BY <1>1, <3>2, <4>1, CarriedOut
    <3>3. CASE op = "SetOutlets"
      <4>1. /\ phase = "Running" /\ phase' = "Running"
            /\ inflight'.job = "Open" /\ inflight'.count = count
        BY <3>1, <3>3 DEF OutletWrite
      <4> QED BY <1>1, <3>3, <4>1, CarriedOut
    <3> QED BY <2>2, <3>2, <3>3
  <2> QED BY <2>1, <2>2
<1>2. ASSUME NEW q, Silence(q) PROVE open' = open /\ (heated => heated')
  BY <1>2 DEF Silence, valveState
<1> QED BY <1>1, <1>2, WhatGoesOut

\* How a zone comes to be stopped: by an all-off that goes out at once.
LEMMA WaysToStop ==
  ASSUME Control, [Next]_vars, phase' \in {"ConfirmOff", "Purging", "ReadyOff"},
         phase \notin {"ConfirmOff", "Purging", "ReadyOff"}
  PROVE  /\ phase # "Unavailable" /\ address' = address
         /\ \E q : Send("ConfirmOff", "AllOff", 0, OwnTarget, q)
<1>1. ASSUME NEW event, NEW q, Escalate(event, q) PROVE phase' = "Unavailable"
  BY <1>1 DEF Escalate
<1>2. ASSUME NEW f, NEW q, NextProbe(f, q) PROVE phase' \in {"Unavailable", "Identify", phase}
  BY <1>1, <1>2 DEF NextProbe, FinishDiscovery, Steady
<1>3. CASE Tick
  <2>1. CASE ExpireSession
    BY <2>1 DEF ExpireSession, scanVars, TickTaken, Due
  <2>2. CASE ~ExpireSession
    BY <1>3, <2>2 DEF Tick, Retry, Occupied, BeginDiscovery, OpenNextOutlet,
         Poll, SettlePurge, PurgeOver
  <2> QED BY <2>1, <2>2
<1>4. CASE ResponseTimeout
  BY <1>1, <1>2, <1>4 DEF ResponseTimeout, ProbeUnanswered, GiveUp, AwaitRetry, Steady
<1>5. CASE Receive
  <2>1. CASE IdentityRead
    BY <2>1 DEF IdentityRead, Echoed, Control, JobFitsPhase, JobFits
  <2>2. CASE OffConfirmed
    BY <2>2 DEF OffConfirmed, Echoed, Control, JobFitsPhase, JobFits
  <2>3. CASE PauseAcknowledged
    <3>1. phase' = phase \/ phase' \in {"Running", "Paused"}
      BY <2>3 DEF PauseAcknowledged
    <3> QED BY <3>1
  <2>4. CASE ~IdentityRead /\ ~OffConfirmed /\ ~PauseAcknowledged
    BY <1>1, <1>2, <1>5, <2>4
       DEF Receive, DiscardStale, Unsolicited, ProbeAnswered, Undecodable, TooLate, Nakked,
         ErrorAnswered, ReadCondemned, PollAnswered, SetpointAcknowledged,
         OutletAcknowledged, Steady
  <2> QED BY <2>1, <2>2, <2>3, <2>4
<1>6. CASE Command
  BY <1>6 DEF Command, Start, RefuseStart, Stop, Pause, Resume, SetTemperature,
       Order, AcknowledgeLatch, Steady, scanVars
<1>7. CASE PortLost \/ PumpClosed \/ ServiceFailure \/ Elapse \/ UNCHANGED vars
  BY <1>1, <1>7 DEF PortLost, PumpClosed, ServiceFailure, Elapse, vars
<1> QED BY <1>3, <1>4, <1>5, <1>6, <1>7 DEF Next

Starts == \E count \in 1..MAX_OUTLETS, requested \in DURATIONS : Start(count, requested)

\* What moves the plan and the write that is outstanding, while water is on.
LEMMA PlanMoves ==
  ASSUME TypeOK, Control, [Next]_vars, phase' \in {"Running", "Paused"},
         ~Starts, ~OpenNextOutlet, ~OutletAcknowledged
  PROVE  /\ Watering /\ stagger' = stagger
         /\ inflight'.job = "Open" => inflight.job = "Open" /\ inflight'.count = inflight.count
<1> DEFINE Kept == /\ Watering /\ stagger' = stagger
                   /\ inflight'.job = "Open" =>
                        inflight.job = "Open" /\ inflight'.count = inflight.count
<1>0. IsTransaction(inflight)
  BY DEF Control
<1>1. ASSUME NEW event, NEW q, Escalate(event, q) PROVE phase' = "Unavailable"
  BY <1>1 DEF Escalate
<1>2. ASSUME NEW f, NEW q, NextProbe(f, q), inflight.job = "Probe" PROVE FALSE
  <2>1. phase = "Discovery"
    BY <1>2 DEF Control, JobFitsPhase, JobFits
  <2>2. phase' \in {"Unavailable", "Identify", phase}
    BY <1>1, <1>2 DEF NextProbe, FinishDiscovery, Steady
  <2> QED BY <2>1, <2>2
<1>3. ASSUME Watering, stagger' = stagger,
             \/ inflight' \in {inflight, NoTransaction}
             \/ SameRequest(inflight, inflight')
             \/ \E job, op, count, target, q : Send(job, op, count, target, q) /\ job # "Open"
      PROVE  Kept
  <2>1. CASE inflight' \in {inflight, NoTransaction}
    BY <1>3, <2>1, NothingIsATransaction
  <2>2. CASE SameRequest(inflight, inflight')
    BY <1>3, <2>2 DEF SameRequest
  <2>3. CASE \E job, op, count, target, q : Send(job, op, count, target, q) /\ job # "Open"
    BY <1>3, <2>3, InFlightFields DEF Send
  <2> QED BY <1>3, <2>1, <2>2, <2>3
<1> SUFFICES Kept
  OBVIOUS
<1> HIDE DEF Kept
<1>4. CASE Tick
  <2>1. ASSUME SettlePurge PROVE Watering /\ stagger' = stagger
    BY <2>1 DEF SettlePurge, PurgeOver, Watering, sessionVars
  <2>2. CASE Retry
    <3>1. /\ SettlePurge
          /\ inflight' = [inflight EXCEPT !.retry = FALSE, !.sent = 0,
                                          !.attempts = Plus1(inflight.attempts, ATTEMPTS)]
      BY <2>2 DEF Retry
    <3> QED BY <1>0, <1>3, <2>1, <3>1, Retransmitted
  <2>3. CASE ExpireSession \/ BeginDiscovery
    BY <2>3 DEF ExpireSession, BeginDiscovery
  <2>4. CASE Occupied \/ Poll
    BY <1>3, <2>1, <2>4 DEF Occupied, Poll
  <2> QED BY <1>4, <2>2, <2>3, <2>4 DEF Tick
<1>5. CASE ResponseTimeout
  <2>1. CASE AwaitRetry
    <3>1. phase' = phase /\ stagger' = stagger /\ inflight' = [inflight EXCEPT !.retry = TRUE]
      BY <2>1 DEF AwaitRetry, Steady, sessionVars
    <3> QED BY <1>0, <1>3, <3>1, Touched DEF Watering
  <2>2. CASE ProbeUnanswered \/ GiveUp
    BY <1>1, <1>2, <2>2 DEF ProbeUnanswered, GiveUp
  <2> QED BY <1>5, <2>1, <2>2 DEF ResponseTimeout
<1>6. CASE Receive
  <2>1. CASE PauseAcknowledged
    <3>1. /\ phase' = phase \/ phase \in {"Running", "Paused"}
          /\ stagger' = stagger /\ inflight' = NoTransaction
      BY <2>1 DEF PauseAcknowledged, sessionVars
    <3> QED BY <1>3, <3>1 DEF Watering
  <2>2. CASE IdentityRead
    BY <2>2 DEF IdentityRead, Echoed, Control, JobFitsPhase, JobFits
  <2>3. CASE DiscardStale \/ PollAnswered \/ SetpointAcknowledged
    <3>1. phase' = phase /\ stagger' = stagger /\ inflight' \in {inflight, NoTransaction}
      BY <2>3 DEF DiscardStale, PollAnswered, SetpointAcknowledged, Steady, sessionVars
    <3> QED BY <1>3, <3>1 DEF Watering
  <2>4. CASE OffConfirmed
    BY <2>4 DEF OffConfirmed
  <2>5. CASE ~PauseAcknowledged /\ ~IdentityRead /\ ~OffConfirmed
             /\ ~(DiscardStale \/ PollAnswered \/ SetpointAcknowledged)
    BY <1>1, <1>2, <1>6, <2>5
       DEF Receive, Unsolicited, ProbeAnswered, Undecodable, TooLate, Nakked, ErrorAnswered,
         ReadCondemned
  <2> QED BY <2>1, <2>2, <2>3, <2>4, <2>5
<1>7. CASE Command
  <2>1. CASE Stop
    BY <2>1 DEF Stop
  <2>2. CASE ~Stop
    <3>1. /\ phase' = phase /\ stagger' = stagger
          /\ \/ inflight' = inflight
             \/ \E job, op, count, target, q : Send(job, op, count, target, q) /\ job # "Open"
      BY <1>7, <2>2 DEF Command, Starts, RefuseStart, Pause, Resume, SetTemperature, Order,
           AcknowledgeLatch, Steady, sessionVars
    <3> QED BY <1>3, <3>1 DEF Watering
  <2> QED BY <2>1, <2>2
<1>8. CASE Elapse
  <2>1. /\ phase' = phase /\ stagger' = stagger
        /\ inflight' = IF Outstanding
                       THEN [inflight EXCEPT !.sent = Plus1(inflight.sent, RESPONSE + 1),
                                             !.total = Plus1(inflight.total, CEILING)]
                       ELSE inflight
    BY <1>8 DEF Elapse
  <2> QED BY <1>0, <1>3, <2>1, Aged DEF Watering
<1>9. CASE PortLost \/ PumpClosed \/ ServiceFailure \/ UNCHANGED vars
  BY <1>1, <1>3, <1>9 DEF PortLost, PumpClosed, ServiceFailure, vars, sessionVars, Watering
<1> QED BY <1>4, <1>5, <1>6, <1>7, <1>8, <1>9 DEF Next

\* A valve that was told to close, by a zone that has not opened it since, is
\* closed; one that is watering was heated first, and has done each step of the
\* plan that is past.
ClosedWhenOff ==
  OwnValve /\ phase \in {"ConfirmOff", "Purging", "ReadyOff"} => open = 0

PlanFollowed ==
  Watering =>
    /\ heated
    /\ stagger # NoStagger => stagger.next <= open
    /\ inflight.job = "Open" =>
         stagger # NoStagger /\ inflight.count = stagger.next + 1 /\ open = inflight.count

\* An all-off closes the valve before the zone starts to wait for its answer.
LEMMA ClosedBeforeConfirmed ==
  ASSUME Honest, TypeOK, Control, Fitting, Answering, ClosedWhenOff, [Next]_vars
  PROVE  ClosedWhenOff'
<1> SUFFICES ASSUME OwnValve', phase' \in {"ConfirmOff", "Purging", "ReadyOff"}
             PROVE  open' = 0
  BY DEF ClosedWhenOff
<1>1. valves' = valves
  <2>1. Elapse => valves' = valves
    BY DEF Elapse, ValveAges
  <2> QED BY <2>1, OneFrameAStep
<1>2. CASE phase \in {"ConfirmOff", "Purging", "ReadyOff"}
  <2>1. ~Booting
    BY <1>2 DEF Booting
  <2>2. OwnTarget' = OwnTarget
    BY <2>1, AddressStays DEF OwnTarget
  <2>3. open = 0
    BY <1>1, <1>2, <2>2 DEF OwnValve, ClosedWhenOff
  <2>4. open' \in {open, 0}
    BY <1>2, Effects
  <2> QED BY <2>3, <2>4
<1>3. CASE phase \notin {"ConfirmOff", "Purging", "ReadyOff"}
  <2>1. /\ phase # "Unavailable" /\ address' = address
        /\ \E q : Send("ConfirmOff", "AllOff", 0, OwnTarget, q)
    BY <1>3, WaysToStop
  <2>2. portOpen
    BY <2>1 DEF Fitting, PortIsOpen
  <2>3. PICK q : Carry("AllOff", 0, OwnTarget, q, TRUE)
    BY <2>1, <2>2 DEF Send, Transmit
  <2>4. OwnTarget \in valves
    BY <1>1, <2>1 DEF OwnValve, OwnTarget
  <2> QED BY <2>3, <2>4, CarriedOut
<1> QED BY <1>2, <1>3

\* A start heats the valve, and its plan begins at the beginning.
LEMMA StartHeats ==
  ASSUME Honest, TypeOK, Control, Fitting, Answering, Starts
  PROVE  PlanFollowed'
<1>1. /\ phase = "ReadyOff" /\ Send("SetTemperature", "SetTemperature", 0, OwnTarget, replies)
      /\ stagger'.next = 0
  BY DEF Starts, Start
<1>2. portOpen /\ OwnTarget \in valves
  BY <1>1 DEF Fitting, PortIsOpen, Answering, Booted, OwnValve
<1>3. Carry("SetTemperature", 0, OwnTarget, replies, TRUE)
  BY <1>1, <1>2 DEF Send, Transmit
<1>4. heated' /\ open' = open
  <2> DEFINE op == "SetTemperature"
  <2>1. Carry(op, 0, OwnTarget, replies, TRUE)
    BY <1>3
  <2>2. op = "SetTemperature"
    OBVIOUS
  <2> HIDE DEF op
  <2>3. /\ op \notin {"AllOff", "SetOutlets"} => open' = open
        /\ op = "SetTemperature" => heated'
    BY <1>2, <2>1, CarriedOut
  <2> QED BY <2>2, <2>3
<1>5. inflight'.job # "Open"
  BY <1>1, InFlightFields DEF Send
<1>6. open \in Nat
  BY ValveBusAssumption DEF TypeOK, BusTypeOK
<1> QED BY <1>1, <1>4, <1>5, <1>6 DEF PlanFollowed

\* The valve keeps up with the plan: a step is behind it when its answer comes.
LEMMA PlanStaysFollowed ==
  ASSUME Honest, TypeOK, Control, Fitting, Answering, PlanFollowed, [Next]_vars
  PROVE  PlanFollowed'
<1>0. /\ open \in Nat /\ stagger.next \in Nat /\ inflight.count \in Nat
      /\ stagger = [next |-> stagger.next, total |-> stagger.total]
  <2>1. AskTyped /\ SessionTyped /\ BusTypeOK /\ MAX_OUTLETS \in Nat
    BY TypesTogether, ValveBusAssumption
  <2>2. inflight.count \in 0..MAX_OUTLETS
    BY <2>1 DEF AskTyped, Transactions, NoTransaction
  <2> QED BY <2>1, <2>2 DEF SessionTyped, BusTypeOK
<1> SUFFICES ASSUME phase' \in {"Running", "Paused"}
             PROVE  PlanFollowed'
  BY DEF PlanFollowed, Watering
<1>1. CASE Starts
  BY <1>1, StartHeats
<1>2. CASE OpenNextOutlet
  <2>1. /\ phase = "Running" /\ StaggerDue /\ SettlePurge
        /\ Send("Open", "SetOutlets", stagger.next + 1, OwnTarget, replies)
    BY <1>2 DEF OpenNextOutlet
  <2>2. portOpen /\ OwnTarget \in valves /\ stagger' = stagger /\ stagger # NoStagger /\ heated
    BY <2>1 DEF Fitting, PortIsOpen, Answering, Booted, OwnValve, SettlePurge, sessionVars,
         StaggerDue, PlanFollowed, Watering
  <2>3. Carry("SetOutlets", stagger.next + 1, OwnTarget, replies, TRUE)
    BY <2>1, <2>2 DEF Send, Transmit
  <2>4. open' = stagger.next + 1 /\ heated'
    <3> DEFINE op == "SetOutlets"
               count == stagger.next + 1
    <3>1. Carry(op, count, OwnTarget, replies, TRUE)
      BY <2>3
    <3>2. op = "SetOutlets" /\ count = stagger.next + 1
      OBVIOUS
    <3> HIDE DEF op, count
    <3>3. /\ op = "SetOutlets" => open' = count
          /\ op # "AllOff" => (heated => heated')
      BY <2>2, <3>1, CarriedOut
    <3> QED BY <2>2, <3>2, <3>3
  <2>5. inflight'.count = stagger.next + 1
    BY <2>1, InFlightFields DEF Send
  <2> QED BY <1>0, <2>2, <2>4, <2>5 DEF PlanFollowed
<1>3. CASE OutletAcknowledged
  <2>1. /\ inflight.job = "Open" /\ open' = open /\ heated' = heated /\ phase' = phase
        /\ inflight' = NoTransaction
        /\ stagger' = IF stagger = NoStagger \/ stagger.next + 1 >= stagger.total
                      THEN NoStagger ELSE [stagger EXCEPT !.next = stagger.next + 1]
    BY <1>3 DEF OutletAcknowledged, Echoed, Silence, valveState, Steady
  <2>2. heated /\ open = stagger.next + 1
    BY <2>1 DEF PlanFollowed, Watering
  <2>3. stagger' = NoStagger \/ stagger'.next = stagger.next + 1
    BY <1>0, <2>1
  <2>4. NoStagger.next = 0
    BY DEF NoStagger
  <2> QED BY <1>0, <2>1, <2>2, <2>3, NothingIsATransaction DEF PlanFollowed
<1>4. CASE ~Starts /\ ~OpenNextOutlet /\ ~OutletAcknowledged
  <2>1. /\ Watering /\ stagger' = stagger
        /\ inflight'.job = "Open" => inflight.job = "Open" /\ inflight'.count = inflight.count
    BY <1>4, PlanMoves
  <2>2. heated' /\ open' = open
    <3>1. \/ open' = open /\ (heated => heated')
          \/ /\ (heated => heated') /\ open' = inflight'.count /\ inflight'.job = "Open"
      BY Effects
    <3> QED BY <2>1, <3>1 DEF PlanFollowed
  <2> QED BY <2>1, <2>2 DEF PlanFollowed
<1> QED BY <1>1, <1>2, <1>3, <1>4

Obeyed == ClosedWhenOff /\ PlanFollowed

\* The valve does as it is told, from the first all-off on.
LEMMA ObeyedAlways ==
  ASSUME Honest
  PROVE  Spec => [](TypeOK /\ Control /\ Fitting /\ Answering /\ Obeyed)
<1>1. Init => Obeyed
  BY DEF Init, Obeyed, ClosedWhenOff, PlanFollowed, Watering
<1>2. TypeOK /\ Control /\ Fitting /\ Answering /\ Obeyed /\ [Next]_vars => Obeyed'
  BY ClosedBeforeConfirmed, PlanStaysFollowed DEF Obeyed
<1> QED BY <1>1, <1>2, AnsweringAlways, PTL DEF Spec

\* A zone that is reported as confirmed off has a closed valve, whatever the
\* machine had outstanding, abandoned or retried, as long as replies are only
\* late or doubled.
THEOREM OffIsClosed ==
  ASSUME Honest
  PROVE  Spec => []ConfirmedOffMeansClosed
<1>1. Answering /\ Obeyed => ConfirmedOffMeansClosed
  BY DEF Answering, Booted, Obeyed, ClosedWhenOff, ConfirmedOffMeansClosed, ConfirmedOff
<1> QED BY <1>1, ObeyedAlways, PTL

\* No outlet opens on a valve that has not taken the session's setpoint: water
\* never runs at the temperature of another session.
THEOREM HeatBeforeWater ==
  ASSUME Honest
  PROVE  Spec => SetpointBeforeFlow
<1>1. TypeOK /\ Control /\ Obeyed /\ [Next]_vars => [open' > open => heated]_vars
  BY OpensWhileRunning DEF Obeyed, PlanFollowed, Watering
<1> QED BY <1>1, ObeyedAlways, PTL DEF Spec, SetpointBeforeFlow

\* No frame energises two solenoids: the spacing of the plan is the valve's
\* spacing too, across retries, pauses and setpoints written in between.
THEOREM OneAtATime ==
  ASSUME Honest
  PROVE  Spec => OneSolenoidAtATime
<1>1. ASSUME TypeOK, Control, Fitting, Answering, Obeyed, [Next]_vars
      PROVE  [open' <= open + 1]_vars
  <2>1. open \in Nat /\ open' \in Nat
    <3>1. BusTypeOK'
      BY <1>1, BusStaysTyped
    <3> QED BY <1>1, <3>1, ValveBusAssumption DEF TypeOK, BusTypeOK
  <2> SUFFICES ASSUME open' > open PROVE open' <= open + 1
    BY <2>1
  <2>2. phase = "Running" /\ phase' = "Running" /\ (Retry \/ OpenNextOutlet)
    BY <1>1, OpensWhileRunning
  <2>3. open' = inflight'.count /\ inflight'.job = "Open"
    BY <1>1, <2>1, <2>2, Effects
  <2>4. PlanFollowed'
    BY <1>1, PlanStaysFollowed DEF Obeyed
  <2>5. /\ stagger' # NoStagger /\ open' = stagger'.next + 1
    BY <2>2, <2>3, <2>4 DEF PlanFollowed, Watering
  <2>6. stagger' = stagger
    BY <2>2 DEF Retry, OpenNextOutlet, SettlePurge, sessionVars
  <2>7. stagger # NoStagger => stagger.next <= open
    BY <1>1, <2>2 DEF Obeyed, PlanFollowed, Watering
  <2>8. stagger.next \in Nat
    BY <1>1 DEF Control, ControlTypeOK
  <2> QED BY <2>1, <2>5, <2>6, <2>7, <2>8
<1> QED BY <1>1, ObeyedAlways, PTL DEF Spec, OneSolenoidAtATime

-----------------------------------------------------------------------------
(* Booting on any bus: frames lost, broken, late or answered by faults.     *)

\* With no start, nothing opens: what the boot found open it closes, and the
\* reply that makes the zone ready was sent by a valve that had closed.
NothingOpens ==
  /\ ~Watering
  /\ \A i \in 1..Len(replies) :
       OutletFrame(replies[i]) /\ replies[i].kind = "echo" => open = 0
  /\ phase \in {"ReadyOff", "Purging"} => open = 0

\* The boot, step by step.
LEMMA NothingStillOpens ==
  ASSUME "Start" \notin COMMANDS, TypeOK, Control, Fitting, NothingOpens, [Next]_vars
  PROVE  NothingOpens'
<1>0. BusTypeOK /\ StepsInRange /\ phase \notin {"Running", "Paused"}
  BY TypesTogether DEF NothingOpens, Watering
<1>1. ~Watering'
  <2>1. ~Starts
    BY DEF Starts, Start, Paced
  <2>2. ~OpenNextOutlet
    BY <1>0 DEF OpenNextOutlet
  <2>3. ~OutletAcknowledged
    BY <1>0 DEF OutletAcknowledged, Echoed, Control, JobFitsPhase, JobFits
  <2>4. phase' \notin {"Running", "Paused"}
    BY <2>1, <2>2, <2>3, PlanMoves DEF NothingOpens
  <2> QED BY <2>4 DEF Watering
<1>2. open = 0 => open' = 0
  <2>1. OnlyCloses
    <3>1. CASE Retry \/ OpenNextOutlet
      BY <1>0, <3>1, WhatOpens
    <3>2. CASE ~Retry /\ ~OpenNextOutlet
      BY <1>0, <3>2, OthersOnlyClose
    <3> QED BY <3>1, <3>2
  <2> QED BY <2>1 DEF OnlyCloses
<1>3. \A i \in 1..Len(replies') :
        ControlByte(replies'[i].op) = "WRITE_OUTLET_STATES" /\ replies'[i].kind = "echo" => open' = 0
  <2>1. CASE replies' = replies
    BY <1>2, <2>1 DEF NothingOpens, OutletFrame
  <2>2. ASSUME NEW q, Leftovers(q), NEW j \in 1..Len(q),
               ControlByte(q[j].op) = "WRITE_OUTLET_STATES", q[j].kind = "echo"
        PROVE  open' = 0
    BY <1>2, <2>2 DEF Leftovers, NothingOpens, OutletFrame
  <2>3. ASSUME NEW q, Leftovers(q), Silence(q)
        PROVE  \A i \in 1..Len(replies') :
                 ControlByte(replies'[i].op) = "WRITE_OUTLET_STATES" /\ replies'[i].kind = "echo" => open' = 0
    BY <2>2, <2>3 DEF Silence
  <2>4. ASSUME NEW q, Leftovers(q), NEW op, NEW count, NEW target, NEW l,
               Carry(op, count, target, q, l),
               \/ op \in Reads
               \/ OutletWrite(op, count)
               \/ op \in {"SetTemperature", "Pause", "Resume"}
        PROVE  \A i \in 1..Len(replies') :
                 ControlByte(replies'[i].op) = "WRITE_OUTLET_STATES" /\ replies'[i].kind = "echo" => open' = 0
    <3>1. op \in Ops /\ q \in Queues
      BY <2>4 DEF Ops, Writes, OutletWrite, Leftovers
    <3>2. op # "SetOutlets"
      BY <1>0, <2>4 DEF OutletWrite, Reads
    <3>3. \A i \in 1..Len(replies') :
            \/ \E j \in 1..Len(q) : replies'[i] = q[j]
            \/ /\ target \in valves /\ replies'[i].op = op
               /\ replies'[i].kind = "echo" => TookEffect(op, count)
      <4>1. BusTypeOK /\ op \in Ops /\ q \in Queues /\ Carry(op, count, target, q, l)
        BY <1>0, <2>4, <3>1
      <4> QED BY ONLY <4>1, Heard
    <3> SUFFICES ASSUME NEW i \in 1..Len(replies'),
                        ControlByte(replies'[i].op) = "WRITE_OUTLET_STATES",
                        replies'[i].kind = "echo"
                 PROVE  open' = 0
      OBVIOUS
    <3>4. CASE \E j \in 1..Len(q) : replies'[i] = q[j]
      BY <2>2, <2>4, <3>4
    <3>5. CASE replies'[i].op = op /\ TookEffect(op, count)
      <4>1. op = "AllOff"
        BY <3>1, <3>2, <3>5 DEF ControlByte, Ops, Writes, Reads
      <4> QED BY <3>5, <4>1 DEF TookEffect
    <3> QED BY <3>3, <3>4, <3>5
  <2> QED BY <2>1, <2>3, <2>4, WhatGoesOut
<1>4. ASSUME phase' \in {"ReadyOff", "Purging"} PROVE open' = 0
  <2>1. CASE Booted
    BY <1>0, <1>2, <2>1 DEF Booted, NothingOpens
  <2>2. CASE ~Booted
    <3>1. OffConfirmed
      BY <1>4, <2>2, AnsweredBeforeReady DEF Booted
    <3>2. open = 0
      BY <3>1, ConfirmedByAnOutletFrame DEF NothingOpens
    <3> QED BY <1>2, <3>2
  <2> QED BY <2>1, <2>2
<1> QED BY <1>1, <1>3, <1>4 DEF NothingOpens, OutletFrame

\* A zone that nothing has started since its boot is reported off only once its
\* valve has closed, whatever the bus does and whatever an earlier boot of the
\* service had left open.
THEOREM BootEndsClosed ==
  ASSUME "Start" \notin COMMANDS
  PROVE  Spec => []ConfirmedOffMeansClosed
<1>1. Init => NothingOpens
  BY DEF Init, BusInit, NothingOpens, Watering
<1>2. TypeOK /\ Control /\ Fitting /\ NothingOpens /\ [Next]_vars => NothingOpens'
  BY NothingStillOpens
<1>3. NothingOpens => ConfirmedOffMeansClosed
  BY DEF NothingOpens, ConfirmedOffMeansClosed, ConfirmedOff
<1> QED BY <1>1, <1>2, <1>3, FittingAlways, PTL DEF Spec

\* A zone that remembers what has happened to it is a zone: what is proved of
\* Spec holds of the runs that remember it.
THEOREM OrderlyIsAZone == OrderlySpec => Spec
<1>1. OrderlyInit => Init
  BY DEF OrderlyInit
<1>2. [OrderlyNext]_<<vars, memory>> => [Next]_vars
  BY DEF OrderlyNext, memory
<1> QED BY <1>1, <1>2, PTL DEF OrderlySpec, Spec

-----------------------------------------------------------------------------
(* One valve on the bus.  From here on the bus has no more than one answer  *)
(* for each frame, and room for an answer from every address of the scan.   *)

Prompted == Honest /\ ~DUPLICATES

\* What one frame adds to the replies that are on their way.
LEMMA OneAnswer ==
  ASSUME Prompted, NEW op, NEW count, NEW target, NEW q \in Queues,
         Carry(op, count, target, q, TRUE)
  PROVE  /\ target \notin valves => replies' = q
         /\ target \in valves => replies' = IF Len(q) < BUS_CAP THEN Append(q, Answer(op)) ELSE q
<1>1. CASE target \notin valves
  BY <1>1 DEF Carry
<1>2. CASE target \in valves
  <2>1. PICK o \in Outcomes(op) :
          replies' = IF Len(q \o o.heard) <= BUS_CAP THEN q \o o.heard ELSE q
    BY <1>2 DEF Carry
  <2>2. o.heard = <<Answer(op)>>
    BY DEF Prompted, Honest, Outcomes
  <2>3. q \o <<Answer(op)>> = Append(q, Answer(op)) /\ Len(q \o <<Answer(op)>>) = Len(q) + 1
    BY DEF Queues
  <2>4. Len(q) + 1 <= BUS_CAP <=> Len(q) < BUS_CAP
    BY ValveBusAssumption DEF Queues
  <2> QED BY <1>2, <2>1, <2>2, <2>3, <2>4
<1> QED BY <1>1, <1>2

\* So the replies in front stay in front, and at most one comes behind them.
LEMMA QueueAfter ==
  ASSUME Prompted, NEW op, NEW count, NEW target, NEW q \in Queues,
         Transmit(op, count, target, q)
  PROVE  /\ valves' = valves
         /\ Len(replies') \in {Len(q), Len(q) + 1}
         /\ Len(q) <= BUS_CAP => Len(replies') <= BUS_CAP
         /\ q # <<>> => replies' # <<>> /\ Head(replies') = Head(q)
         /\ target \notin valves => replies' = q
         /\ portOpen /\ target \in valves /\ Len(q) < BUS_CAP => Len(replies') = Len(q) + 1
<1>1. CASE ~portOpen
  BY <1>1 DEF Transmit, Silence, Queues
<1>2. CASE portOpen
  <2>1. Carry(op, count, target, q, TRUE) /\ valves' = valves
    BY <1>2 DEF Transmit, Carry
  <2> DEFINE a == Answer(op)
  <2>2. /\ target \notin valves => replies' = q
        /\ target \in valves => replies' = IF Len(q) < BUS_CAP THEN Append(q, a) ELSE q
    BY <2>1, OneAnswer
  <2>3. q \in Seq(Frames(MAX_OUTLETS) \cup {a}) /\ a \in Frames(MAX_OUTLETS) \cup {a}
    BY DEF Queues
  <2>4. Len(q) \in Nat /\ BUS_CAP \in Nat
    BY ValveBusAssumption DEF Queues
  <2> HIDE DEF a
  <2>5. /\ Len(Append(q, a)) = Len(q) + 1 /\ Append(q, a) # <<>>
        /\ q # <<>> => Head(Append(q, a)) = Head(q)
    BY <2>3, AppendProperties, HeadTailAppend
  <2>6. CASE replies' = q
    BY <2>1, <2>2, <2>4, <2>5, <2>6
  <2>7. CASE replies' = Append(q, a) /\ target \in valves /\ Len(q) < BUS_CAP
    BY <2>1, <2>4, <2>5, <2>7
  <2> QED BY <2>2, <2>6, <2>7
<1> QED BY <1>1, <1>2

Probed == VALVE_ADDR_MIN..(scanNext - 1)

\* Every valve that was probed has been found or is still to be heard, and a
\* probe is neither repeated nor answered twice.
Scanning ==
  phase = "Discovery" =>
    /\ ~inflight.retry /\ inflight.target = scanNext - 1
    /\ scanNext > VALVE_ADDR_MIN
    /\ found \subseteq VALVE_ADDR_MIN..(scanNext - 2)
    /\ Len(replies) + Cardinality(found) <= scanNext - VALVE_ADDR_MIN
    /\ Cardinality(valves \cap Probed) <= Len(replies) + Cardinality(found)

\* A valve that discovery has not found, because the answers came too late for
\* their probes, shows by an answer too many in front of each one that counts.
Another == address \in valves /\ valves # {address}
AnswerTooMany ==
  /\ phase = "Identify" => Len(replies) <= BUS_CAP /\ (Another => Len(replies) >= 2)
  /\ phase = "ConfirmOff" /\ Another => replies # <<>> /\ ~OutletFrame(Head(replies))

Named == phase \notin {"Cold", "Discovery", "Unavailable"} => address # NoAddress

Sole ==
  /\ phase = "Cold" => replies = <<>>
  /\ Scanning /\ AnswerTooMany /\ Named
  /\ Booted => valves = {address}

\* The wiring, and room for it on the wire.
Wired == valves \subseteq VALVE_ADDR_MIN..VALVE_ADDR_MAX
Room == BUS_CAP >= VALVE_ADDR_MAX - VALVE_ADDR_MIN + 1

\* The next probe, or the end of the scan, counts the valves still to be heard.
LEMMA ProbesAreCounted ==
  ASSUME Prompted, Room, Wired, TypeOK, PortIsOpen, phase = "Discovery",
         NEW f \in SUBSET Probed, NEW q \in Queues,
         Len(q) + Cardinality(f) <= scanNext - VALVE_ADDR_MIN,
         Cardinality(valves \cap Probed) <= Len(q) + Cardinality(f),
         NextProbe(f, q)
  PROVE  Sole'
<1>0. /\ VALVE_ADDR_MIN \in Nat /\ VALVE_ADDR_MAX \in Nat /\ VALVE_ADDR_MIN > 0
      /\ scanNext \in Nat /\ scanNext >= VALVE_ADDR_MIN /\ scanNext <= VALVE_ADDR_MAX + 1
      /\ BUS_CAP \in Nat /\ Len(q) \in Nat /\ portOpen
  BY ZoneMachineAssumption, ValveBusAssumption DEF TypeOK, PortIsOpen, Queues
<1>1. /\ IsFiniteSet(f) /\ Cardinality(f) \in Nat
      /\ IsFiniteSet(valves \cap Probed) /\ Cardinality(valves \cap Probed) \in Nat
  <2>1. IsFiniteSet(Probed)
    BY <1>0, FS_Interval DEF Probed
  <2>2. f \in SUBSET Probed /\ (valves \cap Probed) \in SUBSET Probed
    OBVIOUS
  <2> QED BY <2>1, <2>2, FS_Subset, FS_CardinalityType
<1>2. CASE scanNext <= VALVE_ADDR_MAX
  <2>1. /\ inflight' = InFlight("Probe", "ReadFirmwareType", 0, scanNext)
        /\ Transmit("ReadFirmwareType", 0, scanNext, q)
        /\ scanNext' = scanNext + 1 /\ found' = f /\ phase' = "Discovery" /\ address' = address
    BY <1>2 DEF NextProbe, Send, Steady
  <2>2. /\ valves' = valves
        /\ Len(replies') \in {Len(q), Len(q) + 1}
        /\ scanNext \notin valves => replies' = q
        /\ scanNext \in valves /\ Len(q) < BUS_CAP => Len(replies') = Len(q) + 1
    BY <1>0, <2>1, QueueAfter
  <2>3. Len(q) < BUS_CAP
    BY <1>0, <1>1, <1>2 DEF Room
  <2>4. inflight'.target = scanNext' - 1 /\ inflight'.retry = FALSE
    BY <1>0, <2>1 DEF InFlight
  <2>5. found' \subseteq VALVE_ADDR_MIN..(scanNext' - 2) /\ scanNext' > VALVE_ADDR_MIN
    BY <1>0, <2>1 DEF Probed
  <2>6. Len(replies') + Cardinality(found') <= scanNext' - VALVE_ADDR_MIN
    BY <1>0, <1>1, <2>1, <2>2
  <2>7. Cardinality(valves' \cap Probed') <= Len(replies') + Cardinality(found')
    <3>1. Probed' = Probed \cup {scanNext}
      BY <1>0, <2>1 DEF Probed
    <3>2. CASE scanNext \in valves
      <4>1. valves' \cap Probed' = (valves \cap Probed) \cup {scanNext}
        BY <2>2, <3>1, <3>2
      <4> DEFINE V == valves \cap Probed
      <4>2. IsFiniteSet(V)
        BY <1>1
      <4> HIDE DEF V
      <4>3. Cardinality(V \cup {scanNext}) \in {Cardinality(V), Cardinality(V) + 1}
        BY <4>2, FS_AddElement
      <4>4. Cardinality(valves' \cap Probed') \in {Cardinality(V), Cardinality(V) + 1}
        BY <4>1, <4>3 DEF V
      <4>5. Cardinality(V) \in Nat /\ Cardinality(V) <= Len(q) + Cardinality(f)
        BY <1>1 DEF V
      <4>6. Len(replies') = Len(q) + 1
        BY <2>2, <2>3, <3>2
      <4> QED BY <1>0, <1>1, <2>1, <4>4, <4>5, <4>6
    <3>3. CASE scanNext \notin valves
      <4>1. valves' \cap Probed' = valves \cap Probed
        BY <2>2, <3>1, <3>3
      <4> QED BY <2>1, <2>2, <3>3, <4>1
    <3> QED BY <3>2, <3>3
  <2>8. Scanning'
    BY <2>4, <2>5, <2>6, <2>7 DEF Scanning
  <2> QED BY <2>1, <2>8 DEF Sole, AnswerTooMany, Named, Booted
<1>3. CASE ~(scanNext <= VALVE_ADDR_MAX)
  <2>1. FinishDiscovery(f, q) /\ scanNext = VALVE_ADDR_MAX + 1
    BY <1>0, <1>3 DEF NextProbe
  <2>2. CASE phase' = "Unavailable"
    BY <2>2 DEF Sole, Scanning, AnswerTooMany, Named, Booted
  <2>3. ASSUME NEW a \in f, f = {a}, address' = a, phase' = "Identify",
               Transmit(IDENTIFY[1], 0, a, q)
        PROVE  Sole'
    <3>1. /\ valves' = valves
          /\ Len(replies') \in {Len(q), Len(q) + 1}
          /\ a \in valves /\ Len(q) < BUS_CAP => Len(replies') = Len(q) + 1
      BY <1>0, <2>3, QueueAfter
    <3>2. Cardinality(f) = 1
      BY <2>3, FS_Singleton
    <3>3. Len(q) < BUS_CAP
      BY <1>0, <2>1, <3>2 DEF Room
    <3>4. ASSUME a \in valves, valves # {a} PROVE Len(q) >= 1
      <4>1. valves \cap Probed = valves
        <5>1. Probed = VALVE_ADDR_MIN..VALVE_ADDR_MAX
          BY <1>0, <2>1 DEF Probed
        <5> QED BY <5>1 DEF Wired
      <4>2. IsFiniteSet(valves) /\ Cardinality(valves) \in Nat
        BY <1>1, <4>1
      <4>3. Cardinality(valves) # 0
        BY <3>4, <4>2, FS_EmptySet
      <4>4. Cardinality(valves) # 1
        <5> SUFFICES ASSUME Cardinality(valves) = 1 PROVE FALSE
          OBVIOUS
        <5>1. PICK x : valves = {x}
          BY <4>2, FS_Singleton
        <5> QED BY <3>4, <5>1
      <4>5. Cardinality(valves) <= Len(q) + 1
        BY <3>2, <4>1
      <4> QED BY <1>0, <4>2, <4>3, <4>4, <4>5
    <3>5. address' # NoAddress
      BY <1>0, <2>3 DEF Probed, NoAddress
    <3>6. Len(replies') <= BUS_CAP
      BY <1>0, <3>1, <3>3
    <3>7. Another' => Len(replies') >= 2
      BY <1>0, <2>3, <3>1, <3>3, <3>4 DEF Another
    <3>8. AnswerTooMany'
      BY <2>3, <3>6, <3>7 DEF AnswerTooMany
    <3> QED BY <2>3, <3>5, <3>8 DEF Sole, Scanning, Named, Booted
  <2> QED BY <2>1, <2>2, <2>3 DEF FinishDiscovery, Escalate, Send
<1> QED BY <1>2, <1>3

\* No step loses count of the valves, when nothing is stopped before it booted.
LEMMA SoleIsKept ==
  ASSUME Prompted, Room, Wired, TypeOK, Control, Fitting, Answering, Sole,
         [Next]_vars, Stop => ~Booting
  PROVE  Sole'
<1>0. /\ replies \in Queues /\ (replies # <<>> => Rest \in Queues /\ Len(Rest) = Len(replies) - 1)
      /\ Len(replies) \in Nat /\ BUS_CAP \in Nat /\ PortIsOpen
  BY ValveBusAssumption DEF TypeOK, BusTypeOK, Queues, Rest, Fitting
<1>1. valves' = valves
  <2>1. Elapse => valves' = valves
    BY DEF Elapse, ValveAges
  <2> QED BY <2>1, OneFrameAStep
<1>2. /\ phase = "Discovery" <=> inflight.job = "Probe"
      /\ phase = "Identify" <=> inflight.job = "Identify"
      /\ phase = "ConfirmOff" <=> inflight.job = "ConfirmOff"
      /\ inflight.job \in {"Poll", "Open", "Pause", "Resume", "SetTemperature"} => Booted
      /\ Watering => Booted
      /\ session # NoSession => Booted \/ phase = "ConfirmOff"
      /\ Outstanding => phase \notin {"Cold", "Unavailable"}
  BY DEF Control, JobFitsPhase, JobFits, Jobs, GrantHasSession, Watering, Booted, Outstanding
\* How phases are kept and left.
<1>3. CASE phase' = "Unavailable"
  BY <1>3 DEF Sole, Scanning, AnswerTooMany, Named, Booted
<1>4. ASSUME Booted, Booted', address' = address PROVE Sole'
  BY <1>1, <1>4 DEF Sole, Scanning, AnswerTooMany, Named, Booted
<1>5. ASSUME phase' = phase, address' = address, scanNext' = scanNext, found' = found,
             replies' = replies,
             phase = "Discovery" => inflight'.retry = inflight.retry
                                    /\ inflight'.target = inflight.target
      PROVE  Sole'
  BY <1>1, <1>5 DEF Sole, Scanning, AnswerTooMany, Named, Booted, Another, OutletFrame, Probed
<1>6. ASSUME phase' = "ConfirmOff", address' = address, Booted \/ phase = "ConfirmOff",
             replies # <<>> => replies' # <<>> /\ Head(replies') = Head(replies)
      PROVE  Sole'
  <2>1. address' # NoAddress
    BY <1>6 DEF Sole, Named, Booted
  <2>2. ASSUME Another' PROVE replies' # <<>> /\ ~OutletFrame(Head(replies'))
    <3>1. Another
      BY <1>1, <1>6, <2>2 DEF Another
    <3>2. replies # <<>> /\ ~OutletFrame(Head(replies))
      BY <1>6, <3>1 DEF Sole, AnswerTooMany, Another
    <3> QED BY <1>6, <3>2
  <2> QED BY <1>6, <2>1, <2>2 DEF Sole, Scanning, AnswerTooMany, Named, Booted, OutletFrame
<1>7. ASSUME NEW event, NEW q, Escalate(event, q) PROVE Sole'
  BY <1>3, <1>7 DEF Escalate
<1>8. CASE Tick
  <2>1. CASE ExpireSession
    <3>1. Booted \/ phase = "ConfirmOff"
      BY <1>2, <2>1 DEF ExpireSession, SessionExpired
    <3>2. phase' = "ConfirmOff" /\ address' = address /\ Transmit("AllOff", 0, OwnTarget, replies)
      BY <2>1 DEF ExpireSession, Send, scanVars
    <3> QED BY <1>0, <1>6, <3>1, <3>2, QueueAfter
  <2>2. CASE Retry
    <3>1. /\ phase' = phase \/ (phase = "Purging" /\ phase' = "ReadyOff")
          /\ Transmit(inflight.op, inflight.count, inflight.target, replies)
          /\ inflight.retry /\ phase \notin {"Cold", "Unavailable"} /\ address' = address
      BY <1>2, <2>2 DEF Retry, SettlePurge, PurgeOver, scanVars
    <3>2. phase # "Discovery"
      BY <3>1 DEF Sole, Scanning
    <3>3. CASE Booted
      BY <1>4, <3>1, <3>3 DEF Booted
    <3>4. CASE phase = "ConfirmOff"
      BY <1>0, <1>6, <3>1, <3>4, QueueAfter
    <3>5. CASE phase = "Identify"
      <4>1. /\ Len(replies') \in {Len(replies), Len(replies) + 1}
            /\ Len(replies) <= BUS_CAP => Len(replies') <= BUS_CAP
        BY <1>0, <3>1, QueueAfter
      <4>2. phase' = "Identify" /\ Named'
        BY <3>1, <3>5 DEF Sole, Named
      <4>3. Another' => Another
        BY <1>1, <3>1 DEF Another
      <4>4. Len(replies) <= BUS_CAP /\ (Another => Len(replies) >= 2)
        BY <3>5 DEF Sole, AnswerTooMany
      <4>5. Len(replies') <= BUS_CAP /\ (Another' => Len(replies') >= 2)
        BY <1>0, <4>1, <4>3, <4>4
      <4> QED BY <4>2, <4>5 DEF Sole, Scanning, AnswerTooMany, Booted
    <3>6. phase \in Phases
      BY DEF TypeOK
    <3> QED BY <3>1, <3>2, <3>3, <3>4, <3>5, <3>6 DEF Phases, Booted
  <2>3. CASE Occupied
    <3>1. /\ phase' = phase \/ (phase = "Purging" /\ phase' = "ReadyOff")
          /\ UNCHANGED <<address, scanNext, found, replies, inflight>>
      BY <2>3 DEF Occupied, SettlePurge, PurgeOver, scanVars, Silence
    <3>2. CASE phase' = phase
      BY <1>5, <3>1, <3>2
    <3>3. CASE phase = "Purging" /\ phase' = "ReadyOff"
      BY <1>4, <3>1, <3>3 DEF Booted
    <3> QED BY <3>1, <3>2, <3>3
  <2>4. CASE BeginDiscovery
    <3>1. /\ phase' = "Discovery" /\ found' = {} /\ scanNext' = VALVE_ADDR_MIN + 1
          /\ inflight' = InFlight("Probe", "ReadFirmwareType", 0, VALVE_ADDR_MIN)
          /\ Transmit("ReadFirmwareType", 0, VALVE_ADDR_MIN, replies)
          /\ replies = <<>> /\ portOpen
      BY <1>0, <2>4 DEF BeginDiscovery, Send, Sole, PortIsOpen
    <3>2. /\ VALVE_ADDR_MIN \in Nat /\ BUS_CAP > 0 /\ Len(replies) = 0
      BY <3>1, ZoneMachineAssumption, ValveBusAssumption
    <3>3. /\ Len(replies') \in {0, 1}
          /\ VALVE_ADDR_MIN \in valves => Len(replies') = 1
      <4>1. /\ Len(replies') \in {Len(replies), Len(replies) + 1}
            /\ VALVE_ADDR_MIN \in valves /\ Len(replies) < BUS_CAP =>
                 Len(replies') = Len(replies) + 1
        BY <1>0, <3>1, QueueAfter
      <4> QED BY <3>2, <4>1
    <3>4. Probed' = {VALVE_ADDR_MIN}
      BY <3>1, <3>2 DEF Probed
    <3>5. Cardinality(found') = 0
      BY <3>1, FS_EmptySet
    <3>6. Cardinality(valves' \cap Probed') <= Len(replies')
      <4>1. CASE VALVE_ADDR_MIN \in valves
        <5>1. valves' \cap Probed' = {VALVE_ADDR_MIN}
          BY <1>1, <3>4, <4>1
        <5>2. Cardinality({VALVE_ADDR_MIN}) = 1
          BY FS_Singleton
        <5>3. Len(replies') = 1
          BY <3>3, <4>1
        <5> QED BY <5>1, <5>2, <5>3
      <4>2. CASE VALVE_ADDR_MIN \notin valves
        <5>1. valves' \cap Probed' = {}
          BY <1>1, <3>4, <4>2
        <5> QED BY <3>3, <5>1, FS_EmptySet
      <4> QED BY <4>1, <4>2
    <3>7. inflight'.target = scanNext' - 1 /\ inflight'.retry = FALSE
      BY <3>1, <3>2 DEF InFlight
    <3>8. scanNext' > VALVE_ADDR_MIN /\ found' \subseteq VALVE_ADDR_MIN..(scanNext' - 2)
      BY <3>1, <3>2
    <3>9. Len(replies') + Cardinality(found') <= scanNext' - VALVE_ADDR_MIN
      <4>1. scanNext' - VALVE_ADDR_MIN = 1
        BY <3>1, <3>2
      <4>2. Len(replies') = 0 \/ Len(replies') = 1
        BY <3>3
      <4>3. CASE Len(replies') = 0
        BY <3>5, <4>1, <4>3
      <4>4. CASE Len(replies') = 1
        BY <3>5, <4>1, <4>4
      <4> QED BY <4>2, <4>3, <4>4
    <3>10. Cardinality(valves' \cap Probed') <= Len(replies') + Cardinality(found')
      <4>1. Len(replies') + Cardinality(found') = Len(replies')
        BY <3>3, <3>5
      <4> QED BY <3>6, <4>1
    <3> QED BY <3>1, <3>7, <3>8, <3>9, <3>10 DEF Sole, Scanning, AnswerTooMany, Named, Booted
  <2>5. CASE OpenNextOutlet \/ Poll
    <3>1. /\ phase \in {"ReadyOff", "Purging", "Paused", "Running"}
          /\ phase' \in {phase, "ReadyOff"} /\ address' = address
      BY <2>5 DEF OpenNextOutlet, Poll, SettlePurge, scanVars
    <3> QED BY <1>4, <3>1 DEF Booted
  <2> QED BY <1>8, <2>1, <2>2, <2>3, <2>4, <2>5 DEF Tick
<1>9. CASE ResponseTimeout
  <2>1. CASE ProbeUnanswered
    <3>1. phase = "Discovery" /\ NextProbe(found, replies)
      BY <1>2, <2>1 DEF ProbeUnanswered
    <3>2. /\ found \in SUBSET Probed
          /\ Len(replies) + Cardinality(found) <= scanNext - VALVE_ADDR_MIN
          /\ Cardinality(valves \cap Probed) <= Len(replies) + Cardinality(found)
      BY <3>1, ZoneMachineAssumption DEF Sole, Scanning, Probed, TypeOK
    <3> QED BY <1>0, <3>1, <3>2, ProbesAreCounted
  <2>2. CASE GiveUp
    BY <1>7, <2>2 DEF GiveUp
  <2>3. CASE AwaitRetry
    BY <1>2, <1>5, <2>3 DEF AwaitRetry, Steady, Silence, scanVars
  <2> QED BY <1>9, <2>1, <2>2, <2>3 DEF ResponseTimeout
<1>10. CASE Receive
  <2>0. replies # <<>>
    BY <1>10 DEF Receive, DiscardStale, Unsolicited, ProbeAnswered, Undecodable, TooLate, Nakked,
       ErrorAnswered, ReadCondemned, IdentityRead, PollAnswered, OffConfirmed,
       SetpointAcknowledged, OutletAcknowledged, PauseAcknowledged, Echoed, FrameTaken
  <2>1. CASE DiscardStale
    <3>1. /\ ~Outstanding /\ phase' = phase /\ address' = address
      BY <2>1 DEF DiscardStale, Steady, scanVars
    <3>2. phase \in {"Unavailable", "ReadyOff", "Purging", "Running", "Paused"}
      BY <1>2, <2>0, <3>1 DEF Sole, Outstanding, TypeOK, Phases
    <3> QED BY <1>3, <1>4, <3>1, <3>2 DEF Booted
  <2>2. CASE ProbeAnswered
    <3> DEFINE f == found \cup {inflight.target}
    <3>1. phase = "Discovery" /\ NextProbe(f, Rest)
      BY <1>2, <2>2 DEF ProbeAnswered
    <3>2. /\ inflight.target = scanNext - 1 /\ scanNext > VALVE_ADDR_MIN
          /\ found \subseteq VALVE_ADDR_MIN..(scanNext - 2)
          /\ Len(replies) + Cardinality(found) <= scanNext - VALVE_ADDR_MIN
          /\ Cardinality(valves \cap Probed) <= Len(replies) + Cardinality(found)
          /\ scanNext \in Nat /\ VALVE_ADDR_MIN \in Nat
      BY <3>1, ZoneMachineAssumption DEF Sole, Scanning, TypeOK
    <3>3. f \in SUBSET Probed /\ inflight.target \notin found
      BY <3>2 DEF Probed
    <3>4. IsFiniteSet(found)
      <4>1. IsFiniteSet(VALVE_ADDR_MIN..(scanNext - 2))
        BY <3>2, FS_Interval
      <4>2. found \in SUBSET (VALVE_ADDR_MIN..(scanNext - 2))
        BY <3>2
      <4> QED BY <4>1, <4>2, FS_Subset
    <3>5. Cardinality(f) = Cardinality(found) + 1 /\ Cardinality(found) \in Nat
      BY <3>3, <3>4, FS_AddElement, FS_CardinalityType
    <3>6. Len(Rest) + Cardinality(f) = Len(replies) + Cardinality(found)
      BY <1>0, <2>0, <3>5
    <3> HIDE DEF f
    <3> QED BY <1>0, <2>0, <3>1, <3>2, <3>3, <3>6, ProbesAreCounted
  <2>3. CASE IdentityRead
    <3>1. phase = "Identify" /\ address' = address /\ phase' \in {"Identify", "ConfirmOff"}
      BY <1>2, <2>3 DEF IdentityRead, Echoed, scanVars
    <3>2. PICK op : /\ Transmit(op, 0, OwnTarget, Rest)
                    /\ phase' = "ConfirmOff" => op = "AllOff"
      BY <2>3, <3>1 DEF IdentityRead, Send
    <3>3. /\ Len(replies) <= BUS_CAP /\ (Another => Len(replies) >= 2)
          /\ address # NoAddress /\ portOpen
      BY <1>0, <3>1 DEF Sole, AnswerTooMany, Named, PortIsOpen
    <3>4. /\ Len(replies') \in {Len(Rest), Len(Rest) + 1}
          /\ Rest # <<>> => replies' # <<>> /\ Head(replies') = Head(Rest)
          /\ OwnTarget \in valves /\ Len(Rest) < BUS_CAP => Len(replies') = Len(Rest) + 1
      BY <1>0, <2>0, <3>2, <3>3, QueueAfter
    <3>5. OwnTarget = address /\ (Another' <=> Another) /\ Named'
      BY <1>1, <3>1, <3>3 DEF OwnTarget, Another, Named
    <3>6. CASE phase' = "Identify"
      <4>1. Len(replies') <= BUS_CAP /\ (Another' => Len(replies') >= 2)
        BY <1>0, <2>0, <3>3, <3>4, <3>5 DEF Another
      <4> QED BY <3>5, <3>6, <4>1 DEF Sole, Scanning, AnswerTooMany, Booted
    <3>7. CASE phase' = "ConfirmOff"
      <4>1. ASSUME Another' PROVE replies' # <<>> /\ ~OutletFrame(Head(replies'))
        <5>1. Len(replies) >= 2
          BY <3>3, <3>5, <4>1
        <5>2. Rest # <<>> /\ Head(Rest) = replies[2] /\ 2 \in 1..Len(replies)
          <6>1. Rest \in Queues /\ Len(Rest) >= 1 /\ 2 \in 1..Len(replies)
            BY <1>0, <2>0, <5>1
          <6>2. Rest[1] = replies[2]
            BY <1>0, <2>0, <6>1 DEF Rest, Queues
          <6>3. Rest # <<>>
            BY <6>1
          <6>4. Head(Rest) = Rest[1]
            BY <6>1, <6>3 DEF Queues
          <6> QED BY <6>1, <6>2, <6>3, <6>4
        <5>3. ~OutletFrame(replies[2])
          BY <3>1, <5>2 DEF Answering, EchoesAreOwn, Booting
        <5> QED BY <3>4, <5>2, <5>3
      <4> QED BY <3>5, <3>7, <4>1 DEF Sole, Scanning, AnswerTooMany, Booted, OutletFrame
    <3> QED BY <3>1, <3>6, <3>7
  <2>4. CASE OffConfirmed
    <3>1. phase = "ConfirmOff" /\ phase' \in {"Purging", "ReadyOff"} /\ address' = address
      BY <1>2, <2>4 DEF OffConfirmed, Echoed, scanVars
    <3>2. 1 \in 1..Len(replies) /\ OutletFrame(replies[1]) /\ Frame = replies[1]
      BY <2>4, ConfirmedByAnOutletFrame
    <3>3. address # NoAddress /\ OwnValve
      BY <3>1, <3>2 DEF Sole, Named, Answering, EchoesAreOwn
    <3>4. ~Another
      BY <3>1, <3>2 DEF Sole, AnswerTooMany, Frame
    <3>5. valves = {address}
      BY <3>3, <3>4 DEF Another, OwnValve, OwnTarget
    <3> QED BY <1>1, <3>1, <3>3, <3>5 DEF Sole, Scanning, AnswerTooMany, Named, Booted
  <2>5. CASE PollAnswered \/ SetpointAcknowledged \/ OutletAcknowledged
    <3>1. Booted /\ phase' = phase /\ address' = address
      BY <1>2, <2>5 DEF PollAnswered, SetpointAcknowledged, OutletAcknowledged, Echoed, Steady, scanVars
    <3> QED BY <1>4, <3>1 DEF Booted
  <2>6. CASE PauseAcknowledged
    <3>1. Booted /\ phase' \in {phase, "Running", "Paused"} /\ address' = address
      BY <1>2, <2>6 DEF PauseAcknowledged, Echoed, scanVars
    <3> QED BY <1>4, <3>1 DEF Booted
  <2>7. CASE Unsolicited \/ Undecodable \/ TooLate \/ Nakked \/ ErrorAnswered \/ ReadCondemned
    BY <1>7, <2>7 DEF Unsolicited, Undecodable, TooLate, Nakked, ErrorAnswered, ReadCondemned
  <2> QED BY <1>10, <2>1, <2>2, <2>3, <2>4, <2>5, <2>6, <2>7 DEF Receive
<1>11. CASE Command
  <2>1. CASE Stop
    <3>1. phase' = "ConfirmOff" /\ address' = address /\ Transmit("AllOff", 0, OwnTarget, replies)
      BY <2>1 DEF Stop, Send, scanVars
    <3>2. Booted \/ phase = "ConfirmOff"
      BY <2>1 DEF Stop, Booting, Booted, TypeOK, Phases
    <3> QED BY <1>0, <1>6, <3>1, <3>2, QueueAfter
  <2>2. CASE RefuseStart \/ AcknowledgeLatch
    BY <1>5, <2>2 DEF RefuseStart, AcknowledgeLatch, scanVars, busVars
  <2>3. CASE \E count \in 1..MAX_OUTLETS, requested \in DURATIONS : Start(count, requested)
    BY <1>4, <2>3 DEF Start, scanVars, Booted
  <2>4. CASE Pause \/ Resume \/ SetTemperature
    <3>1. Watering /\ phase' = phase /\ address' = address
      BY <2>4 DEF Pause, Resume, SetTemperature, Order, Steady, scanVars, Watering
    <3> QED BY <1>2, <1>4, <3>1 DEF Booted
  <2> QED BY <1>11, <2>1, <2>2, <2>3, <2>4 DEF Command
<1>12. CASE PortLost \/ ServiceFailure
  BY <1>7, <1>12 DEF PortLost, ServiceFailure
<1>13. CASE PumpClosed \/ UNCHANGED vars
  BY <1>5, <1>13 DEF PumpClosed, vars, scanVars, busVars
<1>14. CASE Elapse
  <2>1. UNCHANGED <<phase, address, scanNext, found, replies>>
    BY <1>14 DEF Elapse, scanVars, ValveAges
  <2>2. phase = "Discovery" => inflight'.retry = inflight.retry /\ inflight'.target = inflight.target
    <3> SUFFICES ASSUME Outstanding
                 PROVE  inflight'.retry = inflight.retry /\ inflight'.target = inflight.target
      BY <1>2 DEF Outstanding
    <3>1. inflight \in Transactions
      BY DEF TypeOK, Outstanding, NoTransaction
    <3>2. \E r, s : inflight' = [inflight EXCEPT !.sent = r, !.total = s]
      BY <1>14 DEF Elapse
    <3> QED BY <3>1, <3>2 DEF Transactions
  <2> QED BY <1>5, <2>1, <2>2
<1> QED BY <1>8, <1>9, <1>10, <1>11, <1>12, <1>13, <1>14 DEF Next

\* On a prompt bus that loses nothing and that the wiring of the installation
\* fits, water is on only when the one valve on the bus is the one the machine
\* talks to, however late the answers to the probes come, unless a stop cut the
\* boot short.
THEOREM OneValveWaters ==
  ASSUME Prompted, Room,
         \A b \in Buses : b \subseteq VALVE_ADDR_MIN..VALVE_ADDR_MAX
  PROVE  OrderlySpec => []WaterAfterAWholeBoot
<1>1. OrderlyInit => Wired /\ Sole
  BY DEF OrderlyInit, Init, BusInit, Wired, Sole, Scanning, AnswerTooMany, Named, Booted
<1>2. TypeOK /\ Control /\ Fitting /\ Answering /\ Wired /\ (whole => Sole)
        /\ [OrderlyNext]_<<vars, memory>> => Wired' /\ (whole' => Sole')
  <2> SUFFICES ASSUME TypeOK, Control, Fitting, Answering, Wired, whole => Sole,
                      [OrderlyNext]_<<vars, memory>>
               PROVE  Wired' /\ (whole' => Sole')
    OBVIOUS
  <2>n. [Next]_vars
    BY DEF OrderlyNext, memory
  <2>1. valves' = valves
    <3>1. Elapse => valves' = valves
      BY DEF Elapse, ValveAges
    <3> QED BY <2>n, <3>1, OneFrameAStep
  <2>2. CASE UNCHANGED vars /\ whole' = whole
    BY <2>1, <2>2 DEF vars, scanVars, busVars, Wired, Sole, Scanning, AnswerTooMany, Named,
       Booted, Another, OutletFrame, Probed
  <2>3. CASE OrderlyNext
    <3>1. Wired'
      BY <2>1 DEF Wired
    <3>2. ASSUME whole' PROVE Sole'
      <4>1. whole /\ StopsAfterBoot
        BY <2>3, <3>2 DEF OrderlyNext
      <4>2. Stop => ~Booting
        BY <4>1 DEF StopsAfterBoot, Booting
      <4> QED BY <2>n, <4>1, <4>2, SoleIsKept
    <3> QED BY <3>1, <3>2
  <2>4. UNCHANGED <<vars, memory>> => UNCHANGED vars /\ whole' = whole
    BY DEF memory
  <2> QED BY <2>2, <2>3, <2>4
<1>3. (whole => Sole) => WaterAfterAWholeBoot
  BY DEF Sole, Booted, WaterAfterAWholeBoot, WaterOnlyFromTheOneValve, Watering
<1>4. OrderlySpec => [](TypeOK /\ Control /\ Fitting /\ Answering)
  BY OrderlyIsAZone, AnsweringAlways, PTL
<1> QED BY <1>1, <1>2, <1>3, <1>4, PTL DEF OrderlySpec

-----------------------------------------------------------------------------
(* A zone to which nothing has happened that its manual does not foresee.   *)

\* The one reply on its way is the answer to what is outstanding.
Awaited ==
  IF Outstanding /\ inflight.target \in valves THEN <<Answer(inflight.op)>> ELSE <<>>

\* Every valve below the address that is being probed has been found.
ScanIsExact ==
  phase = "Discovery" =>
    /\ inflight.target = scanNext - 1
    /\ found = valves \cap (VALVE_ADDR_MIN..(scanNext - 2))

\* The cache is right but for an outlet that opens and is still to be heard of.
CacheIsExact ==
  Booted => IF inflight.job = "Open" THEN open = inflight.count ELSE outlets = open

InOrder ==
  /\ \E a : valves = {a}
  /\ replies = Awaited /\ ~inflight.retry /\ AnswersInTime
  /\ phase # "Unavailable"
  /\ ScanIsExact /\ CacheIsExact
  /\ phase \notin {"Cold", "Discovery"} => valves = {address}

\* What one request to a quiet bus leaves behind.
LEMMA AskedInOrder ==
  ASSUME Prompted, TypeOK, portOpen, NEW job \in Jobs, NEW op \in Ops,
         NEW count, NEW target, Send(job, op, count, target, <<>>)
  PROVE  /\ valves' = valves
         /\ replies' = Awaited' /\ inflight'.retry = FALSE
         /\ inflight'.job = job /\ inflight'.target = target /\ inflight'.count = count
         /\ op \notin {"AllOff", "SetOutlets"} => open' = open
         /\ op = "SetOutlets" /\ target \in valves => open' = count
<1>1. /\ inflight' = InFlight(job, op, count, target)
      /\ Carry(op, count, target, <<>>, TRUE) /\ valves' = valves
  BY DEF Send, Transmit, Carry
<1>2. /\ inflight'.retry = FALSE /\ inflight'.job = job /\ inflight'.op = op
      /\ inflight'.target = target /\ inflight'.count = count
  BY <1>1 DEF InFlight
<1>3. Outstanding'
  BY <1>2 DEF Outstanding, Jobs
<1>4. /\ <<>> \in Queues /\ Len(<<>>) = 0 /\ BUS_CAP > 0
      /\ Append(<<>>, Answer(op)) = <<Answer(op)>>
  BY ValveBusAssumption DEF Queues
<1>5. /\ target \notin valves => replies' = <<>>
      /\ target \in valves => replies' = <<Answer(op)>>
  BY <1>1, <1>4, OneAnswer
<1>6. /\ op \notin {"AllOff", "SetOutlets"} => open' = open
      /\ op = "SetOutlets" /\ target \in valves => open' = count
  BY <1>1, CarriedOut DEF Prompted
<1>7. Reply(op, "echo", IF op = "ReadOutlets" THEN open' ELSE 0) = Answer(op)
  BY <1>6 DEF Answer
<1>8. replies' = Awaited'
  BY <1>1, <1>2, <1>3, <1>5, <1>7 DEF Awaited, Answer
<1> QED BY <1>1, <1>2, <1>6, <1>8

\* The next probe, or the end of a scan that found the one valve.
LEMMA ProbesInOrder ==
  ASSUME Prompted, Wired, TypeOK, portOpen, phase = "Discovery",
         NEW a, valves = {a},
         NextProbe(valves \cap (VALVE_ADDR_MIN..(scanNext - 1)), <<>>)
  PROVE  /\ replies' = Awaited' /\ inflight'.retry = FALSE
         /\ phase' \in {"Discovery", "Identify"} /\ valves' = valves
         /\ ScanIsExact'
         /\ phase' = "Identify" => valves' = {address'}
<1> DEFINE f == valves \cap (VALVE_ADDR_MIN..(scanNext - 1))
<1>0. /\ VALVE_ADDR_MIN \in Nat /\ VALVE_ADDR_MAX \in Nat
      /\ scanNext \in Nat /\ scanNext <= VALVE_ADDR_MAX + 1
      /\ "Probe" \in Jobs /\ "Identify" \in Jobs /\ "ReadFirmwareType" \in Ops
      /\ IDENTIFY[1] \in Ops
  <2>1. IDENTIFY[1] \in Reads
    BY ZoneMachineAssumption
  <2> QED BY <2>1, ZoneMachineAssumption DEF TypeOK, Jobs, Ops, Reads
<1>1. CASE scanNext <= VALVE_ADDR_MAX
  <2>1. /\ Send("Probe", "ReadFirmwareType", 0, scanNext, <<>>)
        /\ scanNext' = scanNext + 1 /\ found' = f /\ phase' = "Discovery"
    BY <1>1 DEF NextProbe, Steady
  <2>2. /\ valves' = valves /\ replies' = Awaited' /\ inflight'.retry = FALSE
        /\ inflight'.target = scanNext
    BY <1>0, <2>1, AskedInOrder
  <2>3. ScanIsExact'
    BY <1>0, <2>1, <2>2 DEF ScanIsExact
  <2> QED BY <2>1, <2>2, <2>3
<1>2. CASE ~(scanNext <= VALVE_ADDR_MAX)
  <2>1. f = {a}
    BY <1>0, <1>2 DEF Wired
  <2>2. address' = a /\ phase' = "Identify" /\ Send("Identify", IDENTIFY[1], 0, a, <<>>)
    BY <1>2, <2>1 DEF NextProbe, FinishDiscovery
  <2>3. valves' = valves /\ replies' = Awaited' /\ inflight'.retry = FALSE
    BY <1>0, <2>2, AskedInOrder
  <2> QED BY <2>2, <2>3 DEF ScanIsExact
<1> QED BY <1>1, <1>2

\* An answer is never refused, and condemns nothing.
LEMMA AnswersAreAccepted ==
  ASSUME TypeOK, NEW op \in Ops
  PROVE  ~Refused(Answer(op), op) /\ Answer(op).kind = "echo" /\ Answer(op).val # BAD
<1>1. open \in Nat
  BY ValveBusAssumption DEF TypeOK, BusTypeOK
<1>2. Answer(op).op = op /\ Answer(op).kind = "echo" /\ Answer(op).val \in Nat
  BY <1>1 DEF Answer, Reply
<1>3. ~Refused(Answer(op), op)
  BY <1>2 DEF Refused, BadChecksum, UnexpectedLength, UnexpectedControl, FrameLength
<1> QED BY <1>2, <1>3 DEF BAD

\* A zone in order stays in order as long as its valve answers in time and
\* nothing is given up for something else.
LEMMA OrderIsKept ==
  ASSUME Prompted, ~PORT_FAILS, ~SHARED_FAULTS, Wired,
         TypeOK, Control, Fitting, Obeyed, InOrder,
         Next, AnswersInTime', NothingAbandoned, Stop => ~Booting
  PROVE  InOrder'
<1> PICK a : valves = {a}
  BY DEF InOrder
<1>0. /\ portOpen /\ inflight.retry = FALSE /\ phase # "Unavailable" /\ StepsInRange
      /\ BusTypeOK /\ 0 \in 0..MAX_OUTLETS
      /\ replies # <<>> => Rest \in Queues
  BY TypesTogether, RepliesAreFrames, ValveBusAssumption
     DEF Fitting, PortIsOpen, InOrder, TypeOK
<1>1. /\ phase = "Discovery" <=> inflight.job = "Probe"
      /\ phase = "Identify" <=> inflight.job = "Identify"
      /\ phase = "ConfirmOff" <=> inflight.job = "ConfirmOff"
      /\ inflight.job \in {"Poll", "Open", "Pause", "Resume", "SetTemperature"} => Booted
      /\ inflight.job \in {"Open", "Pause"} => phase = "Running"
      /\ inflight.job \in Jobs \cup {"none"}
      /\ Watering => Booted
      /\ session # NoSession => Booted \/ phase = "ConfirmOff"
      /\ Outstanding => phase # "Cold"
  BY DEF Control, JobFitsPhase, JobFits, Jobs, GrantHasSession, Watering, Booted, Outstanding
<1>2. /\ ~Outstanding => replies = <<>>
      /\ phase \notin {"Cold", "Discovery"} => valves = {address} /\ OwnTarget = address
      /\ Outstanding => inflight.op \in Ops
  <2>1. ASSUME valves = {address} PROVE OwnTarget = address
    BY <2>1, ZoneMachineAssumption DEF Wired, OwnTarget, NoAddress
  <2>2. ~Outstanding => replies = <<>>
    BY DEF InOrder, Awaited
  <2>3. Outstanding => inflight.op \in Ops
    <3>1. Outstanding => inflight \in Transactions
      BY DEF TypeOK, Outstanding, NoTransaction
    <3> QED BY <3>1 DEF Transactions
  <2> QED BY <2>1, <2>2, <2>3 DEF InOrder
\* What a frame that is taken is.
<1>3. ASSUME replies # <<>>
      PROVE  /\ Outstanding /\ inflight.target \in valves /\ inflight.sent < RESPONSE
             /\ Frame = Answer(inflight.op) /\ Rest = <<>>
             /\ ~Refused(Frame, inflight.op) /\ Frame.kind = "echo" /\ Frame.val # BAD
  <2>1. /\ Outstanding /\ inflight.target \in valves /\ replies = <<Answer(inflight.op)>>
        /\ inflight.sent < RESPONSE
    BY <1>3 DEF InOrder, Awaited, AnswersInTime
  <2>2. Frame = Answer(inflight.op) /\ Rest = <<>>
    BY <2>1 DEF Frame, Rest
  <2> QED BY <1>2, <2>1, <2>2, AnswersAreAccepted
\* What a step leaves behind is in order when...
<1> DEFINE Quiet == phase' # "Unavailable" /\ valves' = valves
           Same == phase' \notin {"Cold", "Discovery"} /\ address' = address
                     /\ phase \notin {"Cold", "Discovery"}
<1>4. ASSUME Quiet, Same, replies' = Awaited', inflight'.retry = FALSE, CacheIsExact'
      PROVE  InOrder'
  BY <1>2, <1>4 DEF InOrder, ScanIsExact
<1>5. ASSUME UNCHANGED <<phase, address, scanNext, found, inflight, replies, valves, open, outlets>>
      PROVE  InOrder'
  BY <1>5 DEF InOrder, ScanIsExact, CacheIsExact, Awaited, Outstanding, Answer, Booted
<1>6. ASSUME Quiet, Same, NEW job \in Jobs, NEW op \in Ops, NEW count,
             Send(job, op, count, OwnTarget, <<>>),
             \/ ~Booted'
             \/ job = "Open" /\ op = "SetOutlets"
             \/ /\ job # "Open" /\ op \notin {"AllOff", "SetOutlets"}
                /\ outlets' = open
      PROVE  InOrder'
  <2>1. Prompted /\ TypeOK /\ portOpen /\ Send(job, op, count, OwnTarget, <<>>)
    BY <1>0, <1>6
  <2>2. job \in Jobs /\ op \in Ops
    BY <1>6
  <2>3. replies' = Awaited' /\ inflight'.retry = FALSE /\ inflight'.job = job
    BY ONLY <2>1, <2>2, AskedInOrder
  <2>4. inflight'.count = count /\ (op \notin {"AllOff", "SetOutlets"} => open' = open)
    BY ONLY <2>1, <2>2, AskedInOrder
  <2>5. ASSUME op = "SetOutlets", OwnTarget \in valves PROVE open' = count
    <3> DEFINE t == OwnTarget
    <3>1. Carry(op, count, t, <<>>, TRUE) /\ t \in valves /\ Honest
      BY <2>1, <2>5 DEF Send, Transmit, Prompted
    <3> HIDE DEF t
    <3> QED BY <2>5, <3>1, CarriedOut
  <2>6. OwnTarget \in valves
    BY <1>2, <1>6
  <2>7. CacheIsExact'
    BY <1>6, <2>3, <2>4, <2>5, <2>6 DEF CacheIsExact, Booted
  <2> QED BY <1>4, <1>6, <2>3, <2>7
<1>7. ASSUME Quiet, Same, inflight' = NoTransaction, Silence(<<>>), outlets' = open
      PROVE  InOrder'
  <2>1. replies' = Awaited' /\ inflight'.retry = FALSE /\ inflight'.job = "none"
    BY <1>7 DEF Silence, NoTransaction, Awaited, Outstanding
  <2>2. open' = open
    BY <1>7 DEF Silence, valveState
  <2> QED BY <1>4, <1>7, <2>1, <2>2 DEF CacheIsExact, Booted
<1>8. ASSUME phase = "Discovery",
             NextProbe(valves \cap (VALVE_ADDR_MIN..(scanNext - 1)), <<>>)
      PROVE  InOrder'
  <2>1. /\ replies' = Awaited' /\ inflight'.retry = FALSE
        /\ phase' \in {"Discovery", "Identify"} /\ valves' = valves
        /\ ScanIsExact'
        /\ phase' = "Identify" => valves' = {address'}
    BY <1>0, <1>8, ProbesInOrder
  <2> QED BY <2>1 DEF InOrder, CacheIsExact, Booted
<1>9. CASE Tick
  <2>1. CASE ExpireSession
    <3>1. ~Outstanding /\ (Booted \/ phase = "ConfirmOff")
      BY <1>1, <2>1 DEF NothingAbandoned, ExpireSession, SessionExpired
    <3>2. /\ phase' = "ConfirmOff" /\ address' = address
          /\ Send("ConfirmOff", "AllOff", 0, OwnTarget, <<>>)
      BY <1>2, <2>1, <3>1 DEF ExpireSession, scanVars
    <3> QED BY <1>0, <1>6, <3>1, <3>2, AskedInOrder DEF Booted, Jobs, Ops, Writes
  <2>2. CASE Retry
    BY <1>0, <2>2 DEF Retry
  <2>3. CASE Occupied
    <3>1. /\ phase' = phase \/ (phase = "Purging" /\ phase' = "ReadyOff")
          /\ UNCHANGED <<address, scanNext, found, replies, inflight, valves, open, outlets>>
      BY <2>3 DEF Occupied, SettlePurge, PurgeOver, scanVars, Silence, valveState
    <3>2. CASE phase' = phase
      BY <1>5, <3>1, <3>2
    <3>3. CASE phase = "Purging" /\ phase' = "ReadyOff"
      <4>1. replies' = Awaited' /\ inflight'.retry = FALSE
        BY <1>0, <3>1 DEF InOrder, Awaited, Outstanding, Answer
      <4>2. CacheIsExact'
        BY <3>1, <3>3 DEF InOrder, CacheIsExact, Booted
      <4> QED BY <1>4, <3>1, <3>3, <4>1, <4>2
    <3> QED BY <3>1, <3>2, <3>3
  <2>4. CASE BeginDiscovery
    <3>1. /\ phase' = "Discovery" /\ found' = {} /\ scanNext' = VALVE_ADDR_MIN + 1
          /\ Send("Probe", "ReadFirmwareType", 0, VALVE_ADDR_MIN, <<>>)
      BY <1>2, <2>4 DEF BeginDiscovery
    <3>2. /\ replies' = Awaited' /\ inflight'.retry = FALSE /\ valves' = valves
          /\ inflight'.target = VALVE_ADDR_MIN
      BY <1>0, <3>1, AskedInOrder DEF Jobs, Ops, Reads
    <3>3. ScanIsExact'
      BY <3>1, <3>2, ZoneMachineAssumption DEF ScanIsExact
    <3> QED BY <3>1, <3>2, <3>3 DEF InOrder, CacheIsExact, Booted
  <2>5. CASE OpenNextOutlet
    <3>1. /\ phase = "Running" /\ phase' = "Running" /\ address' = address
          /\ Send("Open", "SetOutlets", stagger.next + 1, OwnTarget, <<>>)
      BY <1>2, <2>5 DEF OpenNextOutlet, SettlePurge, PurgeOver, scanVars
    <3>2. "Open" \in Jobs /\ "SetOutlets" \in Ops
      BY DEF Jobs, Ops, Writes
    <3> QED BY <1>0, <1>6, <3>1, <3>2, AskedInOrder
  <2>6. CASE Poll
    <3>1. /\ phase \in {"ReadyOff", "Purging", "Paused", "Running"}
          /\ phase' \in {phase, "ReadyOff"} /\ address' = address /\ outlets' = outlets
          /\ Send("Poll", POLL[pollStep + 1], 0, OwnTarget, <<>>)
          /\ inflight.job = "none"
      BY <1>2, <2>6 DEF Poll, SettlePurge, scanVars, Outstanding
    <3>2. "Poll" \in Jobs /\ POLL[pollStep + 1] \in Reads /\ POLL[pollStep + 1] \in Ops
      BY <1>0, RoutineIsTyped DEF Jobs
    <3>3. outlets' = open
      BY <3>1 DEF InOrder, CacheIsExact, Booted
    <3>4. POLL[pollStep + 1] \notin {"AllOff", "SetOutlets"}
      BY <3>2 DEF Reads
    <3> QED BY <1>0, <1>6, <3>1, <3>2, <3>3, <3>4, AskedInOrder
  <2> QED BY <1>9, <2>1, <2>2, <2>3, <2>4, <2>5, <2>6 DEF Tick
<1>10. CASE ResponseTimeout
  <2>1. Outstanding /\ replies = <<>> /\ inflight.target \notin valves
    <3>1. Outstanding /\ inflight.sent >= RESPONSE
      BY <1>10 DEF ResponseTimeout, ProbeUnanswered, GiveUp, AwaitRetry, TimeoutTaken, TimedOut
    <3>2. inflight.sent \in Nat
      BY <3>1, ZoneMachineAssumption DEF TypeOK, Transactions, Outstanding, NoTransaction
    <3>3. replies = <<>>
      BY <1>3, <3>1, <3>2, ZoneMachineAssumption
    <3> QED BY <3>1, <3>3 DEF InOrder, Awaited
  <2>2. CASE inflight.job = "Probe"
    <3>1. phase = "Discovery" /\ NextProbe(found, replies)
      BY <1>1, <1>10, <2>2 DEF ResponseTimeout, ProbeUnanswered, GiveUp, AwaitRetry
    <3>2. found = valves \cap (VALVE_ADDR_MIN..(scanNext - 1))
      <4>1. /\ inflight.target = scanNext - 1 /\ scanNext \in Nat /\ VALVE_ADDR_MIN \in Nat
            /\ found = valves \cap (VALVE_ADDR_MIN..(scanNext - 2))
        BY <3>1, ZoneMachineAssumption DEF InOrder, ScanIsExact, TypeOK
      <4>2. scanNext - 1 \notin valves
        BY <2>1, <4>1
      <4>3. \A x \in valves : x \in Nat
        BY ZoneMachineAssumption DEF Wired
      <4> QED BY <4>1, <4>2, <4>3
    <3> QED BY <1>8, <2>1, <3>1, <3>2
  <2>3. CASE inflight.job # "Probe"
    <3>1. inflight.target = OwnTarget /\ phase \notin {"Cold", "Discovery"}
      BY <1>1, <2>1, <2>3 DEF Fitting, OpFitsJob
    <3> QED BY <1>2, <2>1, <3>1
  <2> QED BY <2>2, <2>3
<1>11. CASE Receive
  <2>0. replies # <<>>
    BY <1>11 DEF Receive, DiscardStale, Unsolicited, ProbeAnswered, Undecodable, TooLate, Nakked,
       ErrorAnswered, ReadCondemned, IdentityRead, PollAnswered, OffConfirmed,
       SetpointAcknowledged, OutletAcknowledged, PauseAcknowledged, Echoed, FrameTaken
  <2>1. CASE DiscardStale \/ Unsolicited
    BY <1>3, <2>0, <2>1 DEF DiscardStale, Unsolicited
  <2>2. CASE Undecodable \/ TooLate \/ Nakked \/ ErrorAnswered \/ ReadCondemned
    <3>1. ~(inflight.sent > RESPONSE)
      <4>1. inflight.sent \in Nat /\ RESPONSE \in Nat /\ inflight.sent < RESPONSE
        BY <1>3, <2>0, ZoneMachineAssumption DEF TypeOK, Transactions, Outstanding, NoTransaction
      <4> QED BY <4>1
    <3> QED BY <1>3, <2>0, <2>2, <3>1
            DEF Undecodable, TooLate, Nakked, ErrorAnswered, ReadCondemned, Condemned
  <2>3. CASE ProbeAnswered
    <3>1. phase = "Discovery" /\ NextProbe(found \cup {inflight.target}, <<>>)
      BY <1>1, <1>3, <2>0, <2>3 DEF ProbeAnswered
    <3>2. found \cup {inflight.target} = valves \cap (VALVE_ADDR_MIN..(scanNext - 1))
      <4>1. /\ inflight.target = scanNext - 1 /\ scanNext \in Nat /\ VALVE_ADDR_MIN \in Nat
            /\ found = valves \cap (VALVE_ADDR_MIN..(scanNext - 2))
        BY <3>1, ZoneMachineAssumption DEF InOrder, ScanIsExact, TypeOK
      <4>2. scanNext - 1 \in valves
        BY <1>3, <2>0, <4>1
      <4>3. \A x \in valves : x \in Nat /\ x >= VALVE_ADDR_MIN
        BY ZoneMachineAssumption DEF Wired
      <4> QED BY <4>1, <4>2, <4>3
    <3> QED BY <1>8, <3>1, <3>2
  <2>4. CASE IdentityRead
    <3>1. /\ phase = "Identify" /\ address' = address /\ phase' \in {"Identify", "ConfirmOff"}
          /\ \E op : /\ op = "AllOff" \/ (identifyStep < Len(IDENTIFY)
                                          /\ op = IDENTIFY[identifyStep + 1])
                     /\ \E job \in {"Identify", "ConfirmOff"} : Send(job, op, 0, OwnTarget, <<>>)
      BY <1>1, <1>3, <2>0, <2>4 DEF IdentityRead, Echoed, scanVars
    <3>2. PICK op \in Ops, job \in Jobs : Send(job, op, 0, OwnTarget, <<>>)
      BY <1>0, <3>1, RoutineIsTyped DEF Jobs, Ops, Writes
    <3>3. valves' = valves
      BY <1>0, <3>2, AskedInOrder
    <3> QED BY <1>6, <3>1, <3>2, <3>3 DEF Booted
  <2>5. CASE PollAnswered
    <3>1. /\ inflight.job = "Poll" /\ Booted /\ phase' = phase /\ address' = address
          /\ inflight' = NoTransaction /\ Silence(<<>>)
          /\ outlets' = IF inflight.op = "ReadOutlets" THEN Frame.val ELSE outlets
      BY <1>1, <1>3, <2>0, <2>5 DEF PollAnswered, Echoed, Steady, scanVars, Remember
    <3>2. outlets = open
      BY <3>1 DEF InOrder, CacheIsExact
    <3>3. Frame.val = IF inflight.op = "ReadOutlets" THEN open ELSE 0
      BY <1>3, <2>0 DEF Answer, Reply
    <3>4. outlets' = open
      BY <3>1, <3>2, <3>3
    <3> QED BY <1>0, <1>7, <3>1, <3>4 DEF Booted, Silence
  <2>6. CASE OffConfirmed
    <3>1. /\ phase = "ConfirmOff" /\ phase' \in {"Purging", "ReadyOff"} /\ address' = address
          /\ inflight' = NoTransaction /\ Silence(<<>>) /\ outlets' = 0
      BY <1>1, <1>3, <2>0, <2>6 DEF OffConfirmed, Echoed, scanVars
    <3>2. open = 0
      BY <1>2, <3>1 DEF Obeyed, ClosedWhenOff, OwnValve
    <3> QED BY <1>7, <3>1, <3>2 DEF Silence
  <2>7. CASE SetpointAcknowledged
    <3>1. /\ inflight.job = "SetTemperature" /\ Booted /\ phase' = phase /\ address' = address
          /\ inflight' = NoTransaction /\ Silence(<<>>) /\ outlets' = outlets
      BY <1>1, <1>3, <2>0, <2>7 DEF SetpointAcknowledged, Echoed, Steady, scanVars
    <3>2. outlets' = open
      BY <3>1 DEF InOrder, CacheIsExact
    <3> QED BY <1>0, <1>7, <3>1, <3>2 DEF Booted, Silence
  <2>8. CASE OutletAcknowledged
    <3>1. /\ inflight.job = "Open" /\ Booted /\ phase' = phase /\ address' = address
          /\ inflight' = NoTransaction /\ Silence(<<>>) /\ outlets' = inflight.count
      BY <1>1, <1>3, <2>0, <2>8 DEF OutletAcknowledged, Echoed, Steady, scanVars
    <3>2. outlets' = open
      BY <3>1 DEF InOrder, CacheIsExact
    <3> QED BY <1>0, <1>7, <3>1, <3>2 DEF Booted, Silence
  <2>9. CASE PauseAcknowledged
    <3>1. /\ inflight.job \in {"Pause", "Resume"} /\ Booted /\ address' = address
          /\ phase' \in {phase, "Running", "Paused"}
          /\ inflight' = NoTransaction /\ Silence(<<>>) /\ outlets' = outlets
      BY <1>1, <1>3, <2>0, <2>9 DEF PauseAcknowledged, Echoed, scanVars
    <3>2. outlets' = open
      BY <3>1 DEF InOrder, CacheIsExact
    <3> QED BY <1>0, <1>7, <3>1, <3>2 DEF Booted, Silence
  <2> QED BY <1>11, <2>1, <2>2, <2>3, <2>4, <2>5, <2>6, <2>7, <2>8, <2>9 DEF Receive
<1>12. CASE Command
  <2>1. CASE Stop
    <3>1. ~Outstanding /\ Booted
      BY <1>0, <1>1, <2>1 DEF NothingAbandoned, Booting, Booted, TypeOK, Phases, Outstanding
    <3>2. /\ phase' = "ConfirmOff" /\ address' = address
          /\ Send("ConfirmOff", "AllOff", 0, OwnTarget, <<>>)
      BY <1>2, <2>1, <3>1 DEF Stop, scanVars
    <3> QED BY <1>0, <1>6, <3>1, <3>2, AskedInOrder DEF Booted, Jobs, Ops, Writes
  <2>2. CASE RefuseStart \/ AcknowledgeLatch
    BY <1>5, <2>2 DEF RefuseStart, AcknowledgeLatch, scanVars, busVars
  <2>3. CASE \E count \in 1..MAX_OUTLETS, requested \in DURATIONS : Start(count, requested)
    <3>1. /\ phase = "ReadyOff" /\ phase' = "Running" /\ address' = address /\ outlets' = outlets
          /\ Send("SetTemperature", "SetTemperature", 0, OwnTarget, replies)
      BY <2>3 DEF Start, scanVars
    <3>2. inflight.job = "none" /\ replies = <<>>
      BY <1>2, <3>1 DEF NothingAbandoned, Outstanding
    <3>3. outlets' = open
      BY <3>1, <3>2 DEF InOrder, CacheIsExact, Booted
    <3>4. "SetTemperature" \in Jobs /\ "SetTemperature" \in Ops
      BY DEF Jobs, Ops, Writes
    <3> QED BY <1>0, <1>6, <3>1, <3>2, <3>3, <3>4, AskedInOrder
  <2>4. CASE Pause \/ Resume \/ SetTemperature
    <3>1. /\ Booted /\ phase' = phase /\ address' = address /\ outlets' = outlets
          /\ \E op \in {"Pause", "Resume", "SetTemperature"} : Send(op, op, 0, OwnTarget, replies)
      BY <1>1, <2>4 DEF Pause, Resume, SetTemperature, Order, Steady, scanVars, Watering
    <3>2. inflight.job = "none" /\ replies = <<>>
      BY <1>2, <2>4 DEF NothingAbandoned, Outstanding
    <3>3. outlets' = open
      BY <3>1, <3>2 DEF InOrder, CacheIsExact
    <3>4. PICK op \in {"Pause", "Resume", "SetTemperature"} : Send(op, op, 0, OwnTarget, <<>>)
      BY <3>1, <3>2
    <3>5. op \in Jobs /\ op \in Ops /\ op \notin {"AllOff", "SetOutlets"} /\ op # "Open"
      BY DEF Jobs, Ops, Writes
    <3> QED BY <1>0, <1>6, <3>1, <3>3, <3>4, <3>5, AskedInOrder DEF Booted
  <2> QED BY <1>12, <2>1, <2>2, <2>3, <2>4 DEF Command
<1>13. CASE PortLost \/ ServiceFailure
  BY <1>13 DEF PortLost, ServiceFailure
<1>14. CASE PumpClosed
  BY <1>5, <1>14 DEF PumpClosed, scanVars, busVars
<1>15. CASE Elapse
  <2>1. UNCHANGED <<phase, address, scanNext, found, replies, valves, open, outlets>>
    BY <1>15 DEF Elapse, scanVars, ValveAges
  <2>2. /\ inflight'.job = inflight.job /\ inflight'.op = inflight.op
        /\ inflight'.target = inflight.target /\ inflight'.count = inflight.count
        /\ inflight'.retry = inflight.retry
    <3>1. CASE inflight' = inflight
      BY <3>1
    <3>2. CASE inflight' # inflight
      <4>1. inflight \in Transactions
        BY <1>15, <3>2 DEF Elapse, TypeOK, Outstanding, NoTransaction
      <4>2. \E r, s : inflight' = [inflight EXCEPT !.sent = r, !.total = s]
        BY <1>15, <3>2 DEF Elapse
      <4> QED BY <4>1, <4>2 DEF Transactions
    <3> QED BY <3>1, <3>2
  <2>3. replies' = Awaited'
    BY <2>1, <2>2 DEF InOrder, Awaited, Outstanding, Answer
  <2>4. ScanIsExact' /\ CacheIsExact'
    BY <2>1, <2>2 DEF InOrder, ScanIsExact, CacheIsExact, Booted
  <2> QED BY <1>0, <2>1, <2>2, <2>3, <2>4 DEF InOrder
<1> QED BY <1>9, <1>10, <1>11, <1>12, <1>13, <1>14, <1>15 DEF Next

\* Order is lost by an answer too late or a transaction given up, not before.
LEMMA OrderlyAlways ==
  ASSUME Prompted, ~PORT_FAILS, ~SHARED_FAULTS,
         \A b \in Buses : b \subseteq VALVE_ADDR_MIN..VALVE_ADDR_MAX
  PROVE  OrderlySpec => [](orderly => InOrder)
<1>1. OrderlyInit => Wired /\ (orderly => InOrder)
  <2> SUFFICES ASSUME OrderlyInit PROVE Wired /\ (orderly => InOrder)
    OBVIOUS
  <2>1. Wired
    BY DEF OrderlyInit, Init, BusInit, Wired
  <2>2. ASSUME orderly PROVE \E a : valves = {a}
    <3>1. Cardinality(valves) = 1
      BY <2>2 DEF OrderlyInit
    <3>2. IsFiniteSet(VALVE_ADDR_MIN..VALVE_ADDR_MAX)
      BY ZoneMachineAssumption, FS_Interval
    <3>3. valves \in SUBSET (VALVE_ADDR_MIN..VALVE_ADDR_MAX)
      BY <2>1 DEF Wired
    <3>4. IsFiniteSet(valves)
      BY <3>2, <3>3, FS_Subset
    <3> QED BY <3>1, <3>4, FS_Singleton
  <2>3. replies = Awaited /\ ~inflight.retry /\ AnswersInTime
    BY DEF OrderlyInit, Init, BusInit, Awaited, Outstanding, NoTransaction, AnswersInTime
  <2>4. phase = "Cold"
    BY DEF OrderlyInit, Init
  <2> QED BY <2>1, <2>2, <2>3, <2>4 DEF InOrder, ScanIsExact, CacheIsExact, Booted
<1>2. TypeOK /\ Control /\ Fitting /\ Obeyed /\ Wired /\ (orderly => InOrder)
        /\ [OrderlyNext]_<<vars, memory>>
        => Wired' /\ (orderly' => InOrder')
  <2> SUFFICES ASSUME TypeOK, Control, Fitting, Obeyed, Wired, orderly => InOrder,
                      [OrderlyNext]_<<vars, memory>>
               PROVE  Wired' /\ (orderly' => InOrder')
    OBVIOUS
  <2>1. [Next]_vars
    BY DEF OrderlyNext, memory
  <2>2. Wired'
    <3>1. Elapse => valves' = valves
      BY DEF Elapse, ValveAges
    <3> QED BY <2>1, <3>1, OneFrameAStep DEF Wired
  <2>3. ASSUME UNCHANGED vars, orderly PROVE InOrder'
    BY <2>3 DEF vars, scanVars, busVars, InOrder, Awaited, Outstanding, Answer, ScanIsExact,
       CacheIsExact, Booted, AnswersInTime
  <2>4. ASSUME Next, StopsAfterBoot, AnswersInTime', NothingAbandoned, orderly PROVE InOrder'
    <3>1. Stop => ~Booting
      BY <2>4 DEF StopsAfterBoot, Booting
    <3> QED BY <2>2, <2>4, <3>1, OrderIsKept
  <2>5. CASE UNCHANGED <<vars, memory>>
    BY <2>2, <2>3, <2>5 DEF memory
  <2>6. CASE OrderlyNext
    <3>1. orderly' => orderly /\ StopsAfterBoot /\ AnswersInTime' /\ NothingAbandoned
      BY <2>6 DEF OrderlyNext
    <3> QED BY <2>2, <2>3, <2>4, <2>6, <3>1 DEF OrderlyNext
  <2> QED BY <2>5, <2>6
<1>3. OrderlySpec => Spec
  BY OrderlyIsAZone
<1>4. Spec => [](TypeOK /\ Control /\ Fitting /\ Answering /\ Obeyed)
  BY ObeyedAlways DEF Prompted
<1> QED BY <1>1, <1>2, <1>3, <1>4, PTL DEF OrderlySpec

\* A healthy zone on a prompt bus that loses nothing, whose operator waits for
\* each transaction and stops nothing before it booted, is never latched: no
\* answer is misread, no poll mistaken for a command, no second valve imagined.
THEOREM NoFalseAlarm ==
  ASSUME Prompted, ~PORT_FAILS, ~SHARED_FAULTS,
         \A b \in Buses : b \subseteq VALVE_ADDR_MIN..VALVE_ADDR_MAX
  PROVE  OrderlySpec => []OrderlyNeverLatches
<1>1. (orderly => InOrder) => OrderlyNeverLatches
  BY DEF InOrder, OrderlyNeverLatches, NeverLatches
<1> QED BY <1>1, OrderlyAlways, PTL

\* And the outlets it reports are the ones its valve holds open.
THEOREM CacheIsTrue ==
  ASSUME Prompted, ~PORT_FAILS, ~SHARED_FAULTS,
         \A b \in Buses : b \subseteq VALVE_ADDR_MIN..VALVE_ADDR_MAX
  PROVE  OrderlySpec => []OrderlyCacheMatches
<1>1. (orderly => InOrder) => OrderlyCacheMatches
  BY DEF InOrder, CacheIsExact, Booted, Outstanding, OrderlyCacheMatches, CacheMatchesValve,
     Watering
<1> QED BY <1>1, OrderlyAlways, PTL

=============================================================================
