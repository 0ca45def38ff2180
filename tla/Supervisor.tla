----------------------------- MODULE Supervisor -----------------------------
(***************************************************************************)
(* The control loop of kdtv-service over several links: the select of      *)
(* Supervisor::run, deadlines, reports, commands, and the drain that stops *)
(* water before the process exits.                                         *)
(*                                                                         *)
(* Each link's machine is here what the loop sees of it: the frames it     *)
(* asks for, the port it asks to close and whether it confirms that its    *)
(* link is off.  ZoneMachine and SteamMachine have the machines.           *)
(***************************************************************************)
EXTENDS Integers, Sequences, PortPump

CONSTANTS
  STEAM,       \* which of the links is the steam adapter; the others are zones
  TICK, RESPONSE, ATTEMPTS,   \* as in ZoneMachine
  GRACE,       \* SHUTDOWN_GRACE
  CLOSE_GRACE, \* CLOSE_GRACE
  BACKLOG,     \* bound: how many orders a slow pump may be behind by
  COMMANDS     \* what clients may ask: "Start", "Stop", "StopAll"

ASSUME SupervisorAssumption ==
  /\ STEAM \subseteq LINKS
  /\ TICK \in Nat \ {0} /\ RESPONSE \in Nat \ {0} /\ ATTEMPTS \in Nat \ {0}
  /\ GRACE \in Nat \ {0} /\ CLOSE_GRACE \in Nat \ {0} /\ BACKLOG \in Nat \ {0}
  /\ COMMANDS \subseteq {"Start", "Stop", "StopAll"}

VARIABLES
  mode,      \* Mode, and "Closing" and "Exited" for finish() and after it
  link,      \* each link's runtime: machine, deadlines and port handle
  served,    \* deadline_served
  shutdown,  \* has the shutdown trigger been pulled?
  left,      \* what is left of the grace of the drain, then of the close
  outcome    \* the links finish() names as unconfirmed

loopVars == <<mode, link, served, shutdown, left, outcome>>
vars == <<loopVars, pumpVars>>

NONE == -1

Phases == {"Booting", "ConfirmOff", "ReadyOff", "Running", "Stopping", "Unavailable"}

\* The operation outstanding: a frame, or the stop whose answer latches steam.
Ops == Frames \cup {"none", "LastOff"}
FrameOf(op) == IF op = "LastOff" THEN "Off" ELSE op

IsSteam(l) == l \in STEAM

-----------------------------------------------------------------------------
(* What a machine does with one event.                                      *)

\* A step: the runtime it leaves, the frame it puts on the wire, whether it
\* closes the port, and whether it refused a command.
Outcome(m, tx, close, refused) == [m |-> m, tx |-> tx, close |-> close, refused |-> refused]

Quiet(m) == Outcome(m, "none", FALSE, FALSE)
Refuses(m) == Outcome(m, "none", FALSE, TRUE)

\* The frame that an operation sends, as its first attempt.
Sends(m, op) ==
  Outcome([m EXCEPT !.op = op, !.retry = FALSE, !.tries = 1], FrameOf(op), FALSE, FALSE)

Settled(m) == [m EXCEPT !.op = "none", !.retry = FALSE, !.tries = 0]

\* Latched: all-off and the port closed behind it.
Latches(m) ==
  Outcome([Settled(m) EXCEPT !.phase = "Unavailable"], "Off", TRUE, FALSE)

\* A fault of its own degrades the steam link: the stop comes first and the
\* latch when it has been answered or given up.
Fault(l, m) ==
  IF ~IsSteam(l) THEN Latches(m)
  ELSE IF m.phase = "Stopping" THEN Quiet(Settled(m))
  ELSE Sends([m EXCEPT !.phase = "Stopping"], "LastOff")

GivesUp(l, m) ==
  IF IsSteam(l) /\ m.phase = "Stopping"
  THEN Outcome([Settled(m) EXCEPT !.phase = "Unavailable"], "none", TRUE, FALSE)
  ELSE Fault(l, m)

\* PortClosed: the steam machine latches without a stop.
PortLost(l, m) ==
  IF m.phase = "Unavailable" THEN Quiet(m)
  ELSE IF IsSteam(l)
  THEN Outcome([Settled(m) EXCEPT !.phase = "Unavailable"], "none", TRUE, FALSE)
  ELSE Latches(m)

\* What a tick sends when nothing is outstanding.
Fresh(m) ==
  CASE m.phase = "Running"    -> {Sends(m, "Ask"), Sends(m, "Open")}
    [] m.phase = "ConfirmOff" -> {Sends(m, "Off")}
    [] m.phase = "Stopping"   -> {Sends(m, "LastOff")}
    [] OTHER                  -> {Sends(m, "Ask")}

Ticks(m) ==
  IF m.phase = "Unavailable" THEN {Quiet(m)}
  ELSE IF m.op = "none" THEN Fresh(m)
  ELSE IF m.retry
  THEN {Outcome([m EXCEPT !.retry = FALSE, !.tries = @ + 1], FrameOf(m.op), FALSE, FALSE)}
  ELSE {Quiet(m)}

TimesOut(l, m) ==
  IF m.op = "none" THEN {Quiet(m)}
  ELSE IF m.tries < ATTEMPTS THEN {Quiet([m EXCEPT !.retry = TRUE])}
  ELSE {GivesUp(l, m)}

Off(m) == [Settled(m) EXCEPT !.phase = "ReadyOff", !.moving = FALSE]

\* A frame that answers the operation outstanding.
Answers(l, m, reply) ==
  CASE m.op = "LastOff" -> {GivesUp(l, m)}
    [] m.op = "Off"     -> {Quiet(Off(m))}
    [] m.op = "Open"    -> {Quiet([Settled(m) EXCEPT !.moving = TRUE])}
    [] OTHER            ->
         IF m.phase # "Booting" THEN {Quiet([Settled(m) EXCEPT !.moving = (reply = "on")])}
         ELSE IF IsSteam(l)
         THEN {Sends(m, "Ask"), IF reply = "on" THEN Sends(m, "Off") ELSE Quiet(Off(m))}
         ELSE {Sends(m, "Ask"), Sends([m EXCEPT !.phase = "ConfirmOff"], "Off")}

\* A zone's write is answered by its echo and a read by its data; a steam write
\* by anything.
Matches(l, m, reply) ==
  \/ m.op = "Ask" /\ reply \in {"on", "off"}
  \/ m.op \notin {"Ask", "none"} /\ (reply = "ack" \/ IsSteam(l))

\* A frame that answers nothing is one that was abandoned, or a fault.
Hears(l, m, reply) ==
  IF reply = "noise" THEN {Quiet(m)}
  ELSE IF Matches(l, m, reply) THEN Answers(l, m, reply)
  ELSE IF m.op = "none" THEN {Quiet(m), Fault(l, m)}
  ELSE {Fault(l, m)}

\* Commands.  A stop before the steam adapter has an address is refused.
StopsZone(m) == {Sends([m EXCEPT !.phase = "ConfirmOff"], "Off")}

TakesStop(l, m) ==
  IF m.phase = "Unavailable" THEN {Refuses(m)}
  ELSE IF ~IsSteam(l) THEN StopsZone(m)
  ELSE IF m.phase = "Booting" THEN {Refuses(m), Sends(m, "Off")}
  ELSE {Sends(m, "Off")}

\* A zone begins with its setpoint and steam with the start itself.  Either may
\* refuse for reasons of its own.
TakesStart(l, m) ==
  IF m.phase # "ReadyOff" THEN {Refuses(m)}
  ELSE {Refuses(m), Sends([m EXCEPT !.phase = "Running"], IF IsSteam(l) THEN "Open" ELSE "Ask")}

-----------------------------------------------------------------------------
(* apply_zone_step and apply_steam_step: transmit, then apply the effects.  *)

\* is_open().
IsOpen(l) == link[l].open /\ Running(l)

\* transmit() and close() on the port's queue.
Queued(l, frame, open, q) ==
  IF frame # "none" /\ open /\ Running(l) THEN Append(q, frame) ELSE q
StillOpen(l, frame, open) == open /\ (frame # "none" => Running(l))

\* The deadline is armed when a frame is handed over, whatever became of it;
\* nobody waits for a link that is latched.
Armed(o) ==
  IF o.m.phase = "Unavailable" THEN NONE ELSE IF o.tx # "none" THEN RESPONSE ELSE o.m.awaiting

\* Mutation: no deadline is armed for a frame that goes nowhere.
Applied_ArmsWhenQueued(l, o) ==
  LET open == StillOpen(l, o.tx, o.m.open)
      q == Queued(l, o.tx, o.m.open, orders[l])
  IN [m |-> [o.m EXCEPT !.open = open /\ ~o.close,
                        !.awaiting = IF open THEN Armed(o) ELSE o.m.awaiting],
      q |-> IF o.close THEN Queued(l, "Close", open, q) ELSE q,
      refused |-> o.refused]

Applied(l, o) ==
  LET open == StillOpen(l, o.tx, o.m.open)
      q == Queued(l, o.tx, o.m.open, orders[l])
  IN [m |-> [o.m EXCEPT !.open = open /\ ~o.close, !.awaiting = Armed(o)],
      q |-> IF o.close THEN Queued(l, "Close", open, q) ELSE q,
      refused |-> o.refused]

Stepped(l, os) == {Applied(l, o) : o \in os}

\* What a link becomes that nothing is asked of.
AsItWas(l) == {[m |-> link[l], q |-> orders[l], refused |-> FALSE]}

\* Every link in one pass, each with the steps allowed to it.
Choices(Steps(_)) ==
  {f \in [LINKS -> UNION {Steps(l) : l \in LINKS}] : \A l \in LINKS : f[l] \in Steps(l)}

Become(f) ==
  /\ link' = [l \in LINKS |-> f[l].m]
  /\ orders' = [l \in LINKS |-> f[l].q]

Drive(l, os) == \E r \in Stepped(l, os) :
  /\ link' = [link EXCEPT ![l] = r.m]
  /\ orders' = [orders EXCEPT ![l] = r.q]

\* A pump that ends takes its orders with it; nothing else of its is touched.
PumpsUntouched == UNCHANGED <<wireVars, pump>>

-----------------------------------------------------------------------------
(* confirmed_off, settled, next_wake.                                       *)

ConfirmedOff(l) == link[l].phase = "ReadyOff" /\ ~link[l].moving

AllSettled == \A l \in LINKS : ConfirmedOff(l) \/ ~IsOpen(l)

Unconfirmed == {l \in LINKS : ~ConfirmedOff(l)}

LinkDue(l) ==
  link[l].phase # "Unavailable" /\ (link[l].wake = 0 \/ link[l].awaiting = 0)

Due == \E l \in LINKS : LinkDue(l)

Looping == mode \in {"Serving", "Draining"}

DrainOver == mode = "Draining" /\ (AllSettled \/ left = 0)

\* Mutation: the deadline is one more arm of the select, after the others.
DeadlineFirst_Never == FALSE

\* A due deadline is served ahead of the select, every other pass.
DeadlineFirst == Due /\ ~served

\* The select is reached, and its earlier arms have nothing.
Selecting == Looping /\ ~DrainOver /\ ~DeadlineFirst
NoReport == reports = <<>>
AllGone == \A l \in LINKS : ~Running(l)

-----------------------------------------------------------------------------
(* on_deadline: one event for every link that is due.                       *)

OnDeadline ==
  LET Event(l) ==
        IF ~LinkDue(l) THEN AsItWas(l)
        ELSE IF link[l].awaiting = 0
        THEN Stepped(l, TimesOut(l, [link[l] EXCEPT !.awaiting = NONE]))
        ELSE Stepped(l, Ticks([link[l] EXCEPT !.wake = TICK]))
  IN \E f \in Choices(Event) : Become(f)

Deadline ==
  /\ Looping /\ ~DrainOver /\ Due
  /\ \/ DeadlineFirst /\ served' = TRUE
     \/ ~DeadlineFirst /\ NoReport /\ served' = FALSE
  /\ OnDeadline
  /\ UNCHANGED <<mode, shutdown, left, outcome, reports>>
  /\ PumpsUntouched

-----------------------------------------------------------------------------
(* on_report.                                                               *)

TakeReport ==
  /\ Selecting /\ reports # <<>>
  /\ reports' = Tail(reports)
  /\ served' = FALSE
  /\ UNCHANGED <<mode, shutdown, left, outcome>>
  /\ PumpsUntouched

\* A terminal failure escalates before it closes; escalating closes the port.
OnLost(l) == Drive(l, {PortLost(l, link[l])})

OnReport ==
  /\ TakeReport
  /\ LET l == Head(reports).link
         kind == Head(reports).kind
     IN \/ /\ kind \in Replies
           /\ Drive(l, Hears(l, IF kind = "noise" THEN link[l]
                                ELSE [link[l] EXCEPT !.awaiting = NONE], kind))
        \/ kind = "Lost" /\ OnLost(l)
        \/ /\ kind = "Closed"
           /\ link' = [link EXCEPT ![l].open = FALSE] /\ UNCHANGED orders
        \/ kind = "Failed" /\ UNCHANGED <<link, orders>>

-----------------------------------------------------------------------------
(* on_command.                                                              *)

\* A command's frame starts the link's pacing.
Commanded(l, os) ==
  {[r EXCEPT !.m.pacing = IF r.refused THEN @ ELSE RESPONSE] : r \in Stepped(l, os)}

\* refuse_zone_command and refuse_steam_command: a stop that has something to
\* stop is never made to wait.
TooSoon(l, what) ==
  /\ link[l].pacing > 0
  /\ ~(what = "Stop" /\ IF IsSteam(l) THEN link[l].phase = "Running"
                         ELSE link[l].phase # "ConfirmOff")

TurnedAway(l) == {[m |-> link[l], q |-> orders[l], refused |-> TRUE]}

Paced(l, what, os) == IF TooSoon(l, what) THEN TurnedAway(l) ELSE Commanded(l, os)

\* The bound on how far a pump falls behind: meanwhile no time passes and no
\* client asks for anything.
NotBehind == \A l \in LINKS : Len(orders[l]) < BACKLOG

\* A command is in the channel whenever a client put one there; what it is may
\* be decided when it is taken.  A draining service only answers.
TakeCommand ==
  /\ Selecting /\ NoReport /\ mode = "Serving" /\ NotBehind
  /\ served' = FALSE
  /\ UNCHANGED <<mode, shutdown, left, outcome, reports>>
  /\ PumpsUntouched

\* A start or a stop of one link.
Start(l) ==
  /\ "Start" \in COMMANDS
  /\ TakeCommand
  /\ \E f \in Choices(LAMBDA k : IF k = l THEN Paced(l, "Start", TakesStart(l, link[l]))
                                ELSE AsItWas(k)) : Become(f)

Stop(l) ==
  /\ "Stop" \in COMMANDS
  /\ TakeCommand
  /\ \E f \in Choices(LAMBDA k : IF k = l THEN Paced(l, "Stop", TakesStop(l, link[l]))
                                ELSE AsItWas(k)) : Become(f)

\* stop_all: one link after the other, each on its own terms.
StopAll ==
  /\ "StopAll" \in COMMANDS
  /\ TakeCommand
  /\ \E f \in Choices(LAMBDA l : Paced(l, "Stop", TakesStop(l, link[l]))) : Become(f)

Command == StopAll \/ \E l \in LINKS : Start(l) \/ Stop(l)

-----------------------------------------------------------------------------
(* Shutdown.                                                                *)

\* SIGTERM, SIGINT.
Trigger ==
  /\ mode = "Serving" /\ ~shutdown
  /\ shutdown' = TRUE
  /\ UNCHANGED <<mode, link, served, left, outcome, pumpVars>>

\* Mutation: the drain tells the zones only.
BeginDrain_ZonesOnly ==
  /\ Selecting /\ mode = "Serving" /\ NoReport
  /\ AllGone \/ shutdown
  /\ mode' = "Draining" /\ left' = GRACE
  /\ \E f \in Choices(LAMBDA l : IF IsSteam(l) THEN AsItWas(l)
                                  ELSE Commanded(l, TakesStop(l, link[l]))) : Become(f)
  /\ served' = FALSE
  /\ UNCHANGED <<shutdown, outcome, reports>>
  /\ PumpsUntouched

\* begin_drain, on the trigger or because every pump has gone: a stop on every
\* link, unpaced.
BeginDrain ==
  /\ Selecting /\ mode = "Serving" /\ NoReport
  /\ AllGone \/ shutdown
  /\ mode' = "Draining" /\ left' = GRACE
  /\ \E f \in Choices(LAMBDA l : Commanded(l, TakesStop(l, link[l]))) : Become(f)
  /\ served' = FALSE
  /\ UNCHANGED <<shutdown, outcome, reports>>
  /\ PumpsUntouched

\* finish: the outcome is decided, then every port is closed behind what is
\* already queued.
Finish ==
  /\ DrainOver
  /\ mode' = "Closing" /\ left' = CLOSE_GRACE
  /\ outcome' = Unconfirmed
  /\ link' = [l \in LINKS |-> [link[l] EXCEPT !.open = FALSE]]
  /\ orders' = [l \in LINKS |-> Queued(l, "Close", link[l].open, orders[l])]
  /\ served' = FALSE
  /\ UNCHANGED <<shutdown, reports>>
  /\ PumpsUntouched

\* Reports are read and thrown away while a pump is running.
Discard ==
  /\ mode = "Closing" /\ ~AllGone /\ reports # <<>>
  /\ reports' = Tail(reports)
  /\ UNCHANGED <<loopVars, orders>>
  /\ PumpsUntouched

\* Mutation: the service waits for its ports to be closed, not for its pumps.
Exit_WhenClosed ==
  /\ mode = "Closing"
  /\ \A l \in LINKS : ~IsOpen(l)
  /\ mode' = "Exited"
  /\ UNCHANGED <<link, served, shutdown, left, outcome, pumpVars>>

\* The process ends, and the pumps with it.
Exit ==
  /\ mode = "Closing"
  /\ AllGone \/ left = 0
  /\ mode' = "Exited"
  /\ UNCHANGED <<link, served, shutdown, left, outcome, pumpVars>>

-----------------------------------------------------------------------------

Pump(l) ==
  /\ mode # "Exited"
  /\ PumpStep(l)
  /\ UNCHANGED loopVars

Break ==
  /\ mode # "Exited"
  /\ \E l \in FRAGILE : Breaks(l)
  /\ UNCHANGED loopVars

Less1(n) == IF n > 0 THEN n - 1 ELSE n

\* The loop serves a deadline before time goes on.  A pump may be slow.
Elapse ==
  /\ mode # "Exited"
  /\ Looping => ~Due /\ NotBehind
  /\ left' = Less1(left)
  /\ link' = IF Looping
             THEN [l \in LINKS |-> [link[l] EXCEPT !.wake = Less1(@), !.awaiting = Less1(@),
                                                   !.pacing = Less1(@)]]
             ELSE link
  /\ PumpsAge
  /\ UNCHANGED <<mode, served, shutdown, outcome>>

Init ==
  /\ mode = "Serving" /\ served = FALSE /\ shutdown = FALSE
  /\ link = [l \in LINKS |-> [phase |-> "Booting", op |-> "none", retry |-> FALSE,
                              tries |-> 0, moving |-> FALSE, awaiting |-> NONE,
                              wake |-> 0, pacing |-> 0, open |-> TRUE]]
  /\ left = 0 /\ outcome = {}
  /\ PumpInit

Loop ==
  \/ Deadline \/ OnReport \/ BeginDrain \/ Finish \/ Discard \/ Exit

Next ==
  \/ Loop \/ Command \/ Trigger \/ Break \/ Elapse
  \/ \E l \in LINKS : Pump(l)

Spec == Init /\ [][Next]_vars

\* The loop and the pumps are tasks of one runtime, which runs each of them
\* again; the loop chooses by itself what it takes.  No client has to ask.
FairSpec ==
  /\ Spec
  /\ WF_vars(Loop) /\ SF_vars(Elapse)
  /\ \A l \in LINKS : WF_vars(Pump(l))

-----------------------------------------------------------------------------
(* Properties.                                                              *)

Links ==
  [phase : Phases, op : Ops, retry : BOOLEAN, tries : 0..ATTEMPTS, moving : BOOLEAN,
   awaiting : -1..RESPONSE, wake : 0..TICK, pacing : 0..RESPONSE, open : BOOLEAN]

\* Every variable stays in its range; no queue outgrows its channel.
TypeOK ==
  /\ mode \in {"Serving", "Draining", "Closing", "Exited"}
  /\ link \in [LINKS -> Links]
  /\ served \in BOOLEAN /\ shutdown \in BOOLEAN
  /\ left \in 0..(GRACE + CLOSE_GRACE) /\ outcome \subseteq LINKS
  /\ PumpTypeOK

\* The all-off of an escalation reaches the valve: a zone that is latched has
\* its valve closed, or the frame is still before its pump, or the pump's grace
\* ran out.  A receive pair knocked loose does not stop a stop.
EscalationReachesTheValve ==
  \A l \in LINKS \ STEAM :
    link[l].phase = "Unavailable" /\ health[l] \in {"good", "deaf", "noisy"}
      /\ mode # "Exited"
    => \/ ~water[l]
       \/ pump[l].state \in Live \cup {"LastWords"}
          /\ \E i \in 1..Len(orders[l]) : orders[l][i] = "Off"
       \/ pump[l].grace = 0

\* A service that exits saying that every link confirmed itself off leaves no
\* link open whose wire carries what is written to it, unless a pump was so
\* slow that the grace of the close ran out.
OutcomeIsTrue ==
  mode = "Exited" /\ outcome = {} /\ left > 0 =>
    \A l \in LINKS : health[l] = "good" => ~water[l]

\* A stop of everything, asked for or at shutdown, leaves no link running that
\* has not been told, whatever its pacing: an answer that speaks for one link
\* of them hides no other one.
EveryLinkIsToldToStop ==
  [][StopAll \/ BeginDrain =>
       \A l \in LINKS : link[l].phase = "Running" => link'[l].op = "Off"]_vars

\* A due deadline is served though a pump floods the loop with reports.
DeadlinesAreServed == \A l \in LINKS : LinkDue(l) ~> (~LinkDue(l) \/ mode = "Exited")

\* A drain ends, whatever the links do.
DrainEnds == (mode = "Draining") ~> (mode = "Exited")

\* A pump that ends, even without a word, leaves a link that is given up, once
\* clients stop asking: a stop that comes just as the last one times out is a
\* fresh operation with a fresh budget.
GonePumpsAreNoticed ==
  \A l \in LINKS :
    <>[](link[l].pacing = 0) =>
      (~Running(l) ~> (link[l].phase = "Unavailable" \/ mode = "Exited"))

=============================================================================
