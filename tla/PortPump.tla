------------------------------ MODULE PortPump ------------------------------
(***************************************************************************)
(* One byte pump per link (kdtv-service port.rs), the wire it holds, and   *)
(* the two channels between it and the control loop: a queue of orders of  *)
(* its own and the queue of reports that all pumps share.                  *)
(*                                                                         *)
(* A frame is known by what it does to the link: "Off" closes it, "Open"   *)
(* opens it, "Ask" does neither.  Reports that a frame was sent are only   *)
(* logged and are left out.                                                *)
(***************************************************************************)
EXTENDS Integers, Sequences

CONSTANTS
  LINKS,           \* the links, each with a pump
  MAX_FAILURES,    \* MAX_CONSECUTIVE_FAILURES
  TERMINAL_GRACE,  \* how long a pump outlives the failure it reports as terminal
  REPORT_CAPACITY, \* REPORT_CAPACITY of the shared queue
  LINE_CAP,        \* bound: replies waiting to be read; one more is lost
  FRAGILE,         \* the links that may break
  BREAKS           \* and how: see Conditions

Conditions ==
  {"good",    \* writes arrive, and are answered
   "silent",  \* nobody hears or answers
   "noisy",   \* reads always find bytes that are no frame
   "deaf",    \* reads fail, writes arrive: the receive pair is loose
   "mute",    \* writes fail
   "gone"}    \* both fail, and say that the device is gone

ASSUME PortPumpAssumption ==
  /\ MAX_FAILURES \in Nat \ {0} /\ TERMINAL_GRACE \in Nat \ {0}
  /\ REPORT_CAPACITY \in Nat \ {0} /\ LINE_CAP \in Nat
  /\ FRAGILE \subseteq LINKS /\ BREAKS \subseteq Conditions \cup {"panic"}

VARIABLES
  health,   \* the condition of each link
  water,    \* is its valve, or generator, open?
  line,     \* replies waiting to be read
  pump,     \* the pump's state, its consecutive failures, its grace
  orders,   \* LinkOrder queue of each pump
  reports   \* LinkReport queue shared by all of them

wireVars == <<health, water, line>>
pumpVars == <<wireVars, pump, orders, reports>>

Frames == {"Off", "Open", "Ask"}
Replies == {"ack", "on", "off", "noise"}

Report(l, kind) == [link |-> l, kind |-> kind]
Kinds == Replies \cup {"Failed", "Lost", "Closed"}

FreshPump == [state |-> "Reading", failures |-> 0, grace |-> TERMINAL_GRACE, held |-> <<>>]

States == {"Reading", "BackingOff", "LastWords", "Closing", "Ended"}

PumpTypeOK ==
  /\ health \in [LINKS -> Conditions] /\ water \in [LINKS -> BOOLEAN]
  /\ line \in [LINKS -> Seq(Replies)]
  /\ pump \in [LINKS -> [state : States, failures : 0..MAX_FAILURES,
                         grace : 0..TERMINAL_GRACE, held : Seq(Kinds)]]
  /\ orders \in [LINKS -> Seq(Frames \cup {"Close"})]
  /\ reports \in Seq([link : LINKS, kind : Kinds]) /\ Len(reports) <= REPORT_CAPACITY

\* is_running(): the pump's task has not ended.
Running(l) == pump[l].state # "Ended"

\* The pump is at its select, in one of the states S.
Idle(l, S) == pump[l].held = <<>> /\ pump[l].state \in S
Live == {"Reading", "BackingOff"}

PumpInit ==
  /\ health = [l \in LINKS |-> "good"] /\ water \in [LINKS -> BOOLEAN]
  /\ line = [l \in LINKS |-> <<>>] /\ pump = [l \in LINKS |-> FreshPump]
  /\ orders = [l \in LINKS |-> <<>>] /\ reports = <<>>

-----------------------------------------------------------------------------
\* A pump does nothing else until the loop has room for what it has to report.
\* Its last report ends the task.
Send(l) ==
  /\ pump[l].held # <<>>
  /\ Len(reports) < REPORT_CAPACITY
  /\ reports' = Append(reports, Report(l, Head(pump[l].held)))
  /\ pump' = [pump EXCEPT ![l].held = Tail(@),
                          ![l].state = IF Head(pump[l].held) = "Closed" THEN "Ended" ELSE @]
  /\ UNCHANGED <<wireVars, orders>>

\* The frame reaches the far end, which acts on it and answers.
Answered(l, frame) ==
  LET flows == CASE frame = "Off" -> FALSE [] frame = "Open" -> TRUE [] OTHER -> water[l]
      reply == IF frame # "Ask" THEN "ack" ELSE IF flows THEN "on" ELSE "off"
      heard == health[l] = "good" /\ Len(line[l]) < LINE_CAP
  IN
  /\ water' = [water EXCEPT ![l] = IF health[l] = "silent" THEN @ ELSE flows]
  /\ line' = [line EXCEPT ![l] = IF heard THEN Append(@, reply) ELSE @]

Writable(l) == health[l] \notin {"mute", "gone"}

\* The next order, whatever the pump is doing: the select is biased.
Ordered(l, o) == orders[l] # <<>> /\ Head(orders[l]) = o
Taken(l) == orders' = [orders EXCEPT ![l] = Tail(@)]

Write(l) ==
  /\ Idle(l, Live) /\ Writable(l)
  /\ \E frame \in Frames : Ordered(l, frame) /\ Answered(l, frame)
  /\ Taken(l)
  /\ UNCHANGED <<health, pump, reports>>

\* The fd goes, and the orders left with it; then the pump says so.
Ends(l) ==
  /\ pump' = [pump EXCEPT ![l].state = "Closing", ![l].held = <<"Closed">>]
  /\ orders' = [orders EXCEPT ![l] = <<>>]
  /\ UNCHANGED <<wireVars, reports>>

ObeyClose(l) == Idle(l, Live) /\ Ordered(l, "Close") /\ Ends(l)

Failing(l) == IF pump[l].failures < MAX_FAILURES THEN pump[l].failures + 1 ELSE MAX_FAILURES
Gone(l) == health[l] = "gone"

\* Mutation: a pump exits on the failure it reports.
Fails_WithoutLastWords(l, told) ==
  pump' = [pump EXCEPT ![l].failures = Failing(l),
                       ![l].state = IF Gone(l) \/ Failing(l) = MAX_FAILURES
                                    THEN "Closing" ELSE "BackingOff",
                       ![l].held = IF Gone(l) \/ Failing(l) = MAX_FAILURES
                                   THEN Append(told, "Closed") ELSE told]

\* A failure is counted, reported and backed off from.  A terminal one, or one
\* too many, leaves the pump its last words.
Fails(l, told) ==
  pump' = [pump EXCEPT ![l].failures = Failing(l), ![l].held = told,
                       ![l].state = IF Gone(l) \/ Failing(l) = MAX_FAILURES
                                    THEN "LastWords" ELSE "BackingOff"]

\* A failed write.  When it is one too many the pump ends without a word that
\* the link is gone.
WriteFails(l) ==
  /\ Idle(l, Live) /\ ~Writable(l)
  /\ \E frame \in Frames : Ordered(l, frame)
  /\ Taken(l)
  /\ Fails(l, <<IF Gone(l) THEN "Lost" ELSE "Failed">>)
  /\ UNCHANGED <<wireVars, reports>>

\* A read completes only while no order is waiting; it clears the count.
Read(l) ==
  /\ Idle(l, {"Reading"}) /\ orders[l] = <<>>
  /\ health[l] \notin {"deaf", "gone"}
  /\ \E heard \in Replies :
       /\ IF line[l] # <<>> THEN heard = Head(line[l]) /\ line' = [line EXCEPT ![l] = Tail(@)]
          ELSE heard = "noise" /\ health[l] = "noisy" /\ UNCHANGED line
       /\ pump' = [pump EXCEPT ![l].failures = 0, ![l].held = <<heard>>]
  /\ UNCHANGED <<health, water, orders, reports>>

\* A failed read; one too many is reported a second time, as a disconnection.
ReadFails(l) ==
  /\ Idle(l, {"Reading"}) /\ orders[l] = <<>>
  /\ health[l] \in {"deaf", "gone"}
  /\ Fails(l, IF Gone(l) THEN <<"Lost">>
              ELSE IF Failing(l) = MAX_FAILURES THEN <<"Failed", "Lost">>
              ELSE <<"Failed">>)
  /\ UNCHANGED <<wireVars, orders, reports>>

ReadAgain(l) ==
  /\ Idle(l, {"BackingOff"}) /\ orders[l] = <<>>
  /\ pump' = [pump EXCEPT ![l].state = "Reading"]
  /\ UNCHANGED <<wireVars, orders, reports>>

\* last_words: frames still ordered are written if they can be, and a write
\* that fails is not reported.  At the deadline a frame may still be written.
LastWord(l) ==
  /\ Idle(l, {"LastWords"})
  /\ \E frame \in Frames :
       /\ Ordered(l, frame)
       /\ IF Writable(l) THEN Answered(l, frame) ELSE UNCHANGED <<water, line>>
  /\ Taken(l)
  /\ UNCHANGED <<health, pump, reports>>

\* Until the loop closes the port or the grace is over.
NoMoreWords(l) ==
  /\ Idle(l, {"LastWords"})
  /\ Ordered(l, "Close") \/ pump[l].grace = 0
  /\ Ends(l)

PumpStep(l) ==
  \/ Send(l) \/ Write(l) \/ WriteFails(l) \/ ObeyClose(l)
  \/ Read(l) \/ ReadFails(l) \/ ReadAgain(l)
  \/ LastWord(l) \/ NoMoreWords(l)

\* The link breaks, or its driver panics and takes the task along without a
\* report.
Breaks(l) ==
  /\ health[l] = "good" /\ Running(l)
  /\ \/ /\ \E c \in BREAKS \ {"panic"} : health' = [health EXCEPT ![l] = c]
        /\ UNCHANGED <<pump, orders>>
     \/ /\ "panic" \in BREAKS
        /\ health' = [health EXCEPT ![l] = "gone"]
        /\ pump' = [pump EXCEPT ![l].state = "Ended", ![l].held = <<>>]
        /\ orders' = [orders EXCEPT ![l] = <<>>]
  /\ UNCHANGED <<water, line, reports>>

\* One unit of time.
PumpsAge ==
  /\ pump' = [l \in LINKS |->
                IF pump[l].state = "LastWords" /\ pump[l].grace > 0
                THEN [pump[l] EXCEPT !.grace = @ - 1] ELSE pump[l]]
  /\ UNCHANGED <<wireVars, orders, reports>>

=============================================================================
