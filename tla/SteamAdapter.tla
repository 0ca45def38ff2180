---------------------------- MODULE SteamAdapter ----------------------------
(***************************************************************************)
(* The far end of the DTV+ link: the adapter and the generator behind it,  *)
(* translated from the emulator's SteamAdapterModel, and the replies on    *)
(* their way back.  As on the Saturn bus a request takes effect when it is *)
(* transmitted.                                                            *)
(*                                                                         *)
(* `trouble` says what may go wrong on this link, once and for all:        *)
(*   lost      a request or a reply goes missing                           *)
(*   late      a reply may take longer than the master waits               *)
(*   garbled   a reply arrives as bytes that do not decode                 *)
(*   stray     a status arrives under another address                      *)
(*   nak       a request is answered by DEV_NAK and not acted on           *)
(*   error     a request is answered by ERROR and not acted on             *)
(*   port      the serial port goes away                                   *)
(*   service   a fault shared by every link takes this one with it         *)
(***************************************************************************)
EXTENDS Integers, Sequences, DtvCodec

CONSTANTS
  DEVICES,     \* what may be on the port: "steam", "other", "none"
  FOUND,       \* generator states the service may find at boot
  ADDRESSED,   \* may the adapter hold an address already?  subset of BOOLEAN
  CARRIER,     \* the opcode its status payloads travel under
  ASSIGN_ACK,  \* is the address assignment acknowledged?
  WRITE_ACK,   \* is a parameter write acknowledged?
  MINUTES,     \* durations a write may carry
  WIRE_CAP,    \* bound: replies in flight; one past it is lost
  TROUBLES     \* the troubles a wire may have, a set of sets

ASSUME SteamAdapterAssumption ==
  /\ DEVICES \subseteq {"steam", "other", "none"} /\ FOUND \subseteq StateBytes
  /\ ADDRESSED \subseteq BOOLEAN /\ CARRIER \in StatusCarriers
  /\ ASSIGN_ACK \in BOOLEAN /\ WRITE_ACK \in BOOLEAN
  /\ MINUTES \subseteq Nat \ {0} /\ WIRE_CAP \in Nat \ {0}
  /\ \A t \in TROUBLES : t \subseteq {"lost", "late", "garbled", "stray", "nak", "error", "port",
                                  "service"}

VARIABLES
  device,     \* what answers on the port
  trouble,    \* what this wire does to a transaction
  addressed,  \* the adapter holds an address
  gen,        \* the generator's operation state
  timer,      \* time left before the generator shuts itself off; 0 is no timer
  broken,     \* the generator reports an error
  wire        \* frames on their way to the service, oldest first

generator == <<addressed, gen, timer>>
adapterVars == <<device, trouble, addressed, gen, timer, broken, wire>>

AdapterTypeOK ==
  /\ device \in DEVICES /\ trouble \in TROUBLES
  /\ addressed \in BOOLEAN /\ gen \in StateBytes /\ broken \in BOOLEAN
  /\ \E m \in MINUTES \cup {0} : timer \in 0..m
  /\ wire \in Seq(SteamFrames)

AdapterInit ==
  /\ device \in DEVICES /\ trouble \in TROUBLES
  /\ addressed \in ADDRESSED
  /\ gen \in FOUND /\ timer = 0 /\ broken = FALSE
  /\ wire = <<>>

-----------------------------------------------------------------------------

\* A request: the operation, and the state and duration a write carries.
Request(op, state, minutes) == [op |-> op, state |-> state, minutes |-> minutes]

\* on_frame and dispatch: what an adapter that heard the request replies.
\* Discovery is routed on the opcode; everything else needs an address.
Answer(r) ==
  IF device = "none" \/ (~addressed /\ ~IsDiscovery(r.op)) THEN <<>>
  ELSE CASE Opcode(r.op) = "DEV_ADDRESS_OPP"  ->
              IF addressed THEN <<>>
              ELSE <<SteamFrame("DEV_REQUEST_ADDR", device, "none", FALSE)>>
         [] Opcode(r.op) = "DEV_ASSIGN_ADDR"  ->
              IF ASSIGN_ACK THEN <<Bare("DEV_ACK")>> ELSE <<>>
         [] Opcode(r.op) = "GET_DEV_STATUS"   ->
              <<SteamFrame(CARRIER, "none", gen, broken)>>
         [] OTHER                             ->
              IF WRITE_ACK THEN <<Bare("DEV_ACK")>> ELSE <<>>

\* What may come of a request: whether the adapter acts on it, and what is
\* heard of it.
Outcomes(r) ==
  {[acts |-> TRUE, heard |-> Answer(r)]}
    \cup (IF "lost" \in trouble THEN [acts : BOOLEAN, heard : {<<>>}] ELSE {})
    \cup (IF "garbled" \in trouble /\ device # "none"
          THEN [acts : {TRUE}, heard : {<<Garbled>>}] ELSE {})
    \cup (IF "stray" \in trouble /\ r.op = "ReadStatus" /\ Answer(r) # <<>>
          THEN [acts : {TRUE}, heard : {<<Stray(Head(Answer(r)))>>}] ELSE {})
    \cup (IF device # "none" /\ addressed /\ ~IsDiscovery(r.op)
          THEN [acts : {FALSE},
                heard : {<<Bare(c)>> :
                           c \in (IF "nak" \in trouble THEN {"DEV_NAK"} ELSE {})
                             \cup (IF "error" \in trouble THEN {"ERROR"} ELSE {})}]
          ELSE {})

\* on_set_param: the state byte and the timer are written together, and the
\* timer runs only while steam is made.
Act(acts, r) ==
  LET heeded == acts /\ device # "none" /\ addressed /\ IsWrite(r.op) IN
  /\ addressed' = (addressed \/ (acts /\ device # "none" /\ r.op = "AssignAddress"))
  /\ gen' = IF heeded THEN r.state ELSE gen
  /\ timer' = IF ~heeded THEN timer ELSE IF Producing(r.state) THEN r.minutes ELSE 0

\* One request put on a live wire, behind the replies in q.
Deliver(r, q) ==
  /\ UNCHANGED <<device, trouble, broken>>
  /\ \E o \in Outcomes(r) :
       /\ Act(o.acts, r)
       /\ wire' = IF Len(q \o o.heard) <= WIRE_CAP THEN q \o o.heard ELSE q

\* Nothing put on the wire; q is what is left of the replies.
Hush(q) == UNCHANGED <<device, trouble, generator, broken>> /\ wire' = q

\* inject_errors: the generator begins to report an error.
Break ==
  /\ ~broken /\ trouble # {}
  /\ broken' = TRUE
  /\ UNCHANGED <<device, trouble, generator, wire>>

\* advance(): one unit of time.  The generator's own shut-off is what stands
\* when the service is gone.
AdapterAges ==
  /\ timer' = IF timer > 0 THEN timer - 1 ELSE 0
  /\ gen' = IF timer = 1 THEN "Off" ELSE gen
  /\ UNCHANGED <<device, trouble, addressed, broken, wire>>

=============================================================================
