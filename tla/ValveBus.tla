------------------------------ MODULE ValveBus ------------------------------
(***************************************************************************)
(* The far end of one Saturn bus: the valves wired to it, what the valve   *)
(* that hears a frame does with it, and the replies on their way back.     *)
(* Translated from the repository's own stand-in for the hardware, the     *)
(* emulator's SaturnValveModel and the WireFaults its link can inject.     *)
(*                                                                         *)
(* A request takes effect when it is transmitted: the bus is half duplex   *)
(* and keeps frames in order, so only the reply's delay can be observed,   *)
(* and a reply waits in `replies` for as long as the model likes.          *)
(***************************************************************************)
EXTENDS Integers, Sequences, SaturnCodec

CONSTANTS
  Buses,        \* the sets of addresses at which valves may be found at boot
  MAX_OUTLETS,  \* outlets the configuration gives the zone
  STAGGER,      \* spacing of solenoids; here it only bounds sinceOpen
  BUS_CAP,      \* bound: replies in flight; one past it is lost
  LOSSY,        \* may requests and replies go missing?
  FAULTY,       \* may the valve answer with errors, NAKs and bad frames?
  DUPLICATES    \* may a reply arrive twice?

ASSUME ValveBusAssumption ==
  /\ MAX_OUTLETS \in Nat \ {0} /\ STAGGER \in Nat /\ BUS_CAP \in Nat \ {0}
  /\ LOSSY \in BOOLEAN /\ FAULTY \in BOOLEAN /\ DUPLICATES \in BOOLEAN

VARIABLES
  valves,     \* addresses that answer on this bus; fixed by the wiring
  open,       \* how many outlets the valve holds open
  paused,     \* the valve's pause bit
  heated,     \* history: a setpoint reached the valve since it last closed
  sinceOpen,  \* time since it last energised a solenoid, up to STAGGER
  replies     \* frames on their way to the service, oldest first

valveState == <<open, paused, heated, sinceOpen>>
busVars == <<valves, open, paused, heated, sinceOpen, replies>>

BusTypeOK ==
  /\ open \in 0..MAX_OUTLETS
  /\ paused \in BOOLEAN
  /\ heated \in BOOLEAN
  /\ sinceOpen \in 0..STAGGER
  /\ replies \in Seq(Frames(MAX_OUTLETS))

\* The service may find a valve that an earlier boot left open.
BusInit ==
  /\ valves \in Buses
  /\ open \in {0, MAX_OUTLETS}
  /\ paused = FALSE
  /\ heated = FALSE
  /\ sinceOpen = STAGGER
  /\ replies = <<>>

-----------------------------------------------------------------------------

Reply(op, kind, val) == [op |-> op, kind |-> kind, val |-> val]

Answer(op) == Reply(op, "echo", IF op = "ReadOutlets" THEN open ELSE 0)

\* What may come of one request: whether the valve acts on it, and what is
\* heard of it.
Outcomes(op) ==
  {[acts |-> TRUE, heard |-> <<Answer(op)>>]}
    \cup (IF LOSSY
          THEN [acts : BOOLEAN, heard : {<<>>}] ELSE {})
    \cup (IF DUPLICATES
          THEN {[acts |-> TRUE, heard |-> <<Answer(op), Answer(op)>>]} ELSE {})
    \cup (IF FAULTY
          THEN [acts : BOOLEAN, heard : {<<Reply(op, "garbled", 0)>>}]
                 \cup [acts : {FALSE},
                       heard : {<<Reply(op, "error", 0)>>,
                                <<Reply(op, "error", BAD)>>,
                                <<Reply(op, "nak", 0)>>}]
                 \cup (IF op \in Reads
                       THEN {[acts |-> FALSE,
                              heard |-> <<Reply(op, "echo", BAD)>>]}
                       ELSE {})
          ELSE {})

\* The valve's outlets after it acted, or not, on a request.
OpenAfter(acts, op, count) ==
  CASE acts /\ op = "AllOff"     -> 0
    [] acts /\ op = "SetOutlets" -> count
    [] OTHER                     -> open

\* One request for `target` put on a live bus, behind the replies in q.  Nobody
\* listens for the answer once the port closes behind the request.
Carry(op, count, target, q, listening) ==
  /\ UNCHANGED valves
  /\ \/ /\ target \notin valves
        /\ replies' = q
        /\ UNCHANGED valveState
     \/ /\ target \in valves
        /\ \E o \in Outcomes(op) :
             /\ open' = OpenAfter(o.acts, op, count)
             /\ sinceOpen' = IF open' > open THEN 0 ELSE sinceOpen
             /\ paused' = IF o.acts /\ ControlByte(op) = "WRITE_PAUSE_STATE"
                          THEN op = "Pause" ELSE paused
             /\ heated' = CASE o.acts /\ op = "SetTemperature" -> TRUE
                            [] o.acts /\ op = "AllOff"         -> FALSE
                            [] OTHER                           -> heated
             /\ replies' = IF listening /\ Len(q \o o.heard) <= BUS_CAP
                           THEN q \o o.heard ELSE q

\* Nothing put on the bus; q is what is left of the replies.
Silence(q) == UNCHANGED <<valves, valveState>> /\ replies' = q

\* One unit of time at the valve.
ValveAges ==
  /\ sinceOpen' = IF sinceOpen < STAGGER THEN sinceOpen + 1 ELSE STAGGER
  /\ UNCHANGED <<valves, open, paused, heated, replies>>

=============================================================================
