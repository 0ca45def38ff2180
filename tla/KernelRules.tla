----------------------------- MODULE KernelRules -----------------------------
(***************************************************************************)
(* The rulings of the safety kernel (kdtv-safety), link by link: what each *)
(* operation of SafetyKernel does to the one LinkState it touches, how far *)
(* a SafetyEvent escalates, and which effects it asks for.                 *)
(*                                                                         *)
(* An event is named by the latch reason it produces, so LatchReason is    *)
(* the identity on faults: "Welded" stands for a ValveFault whose byte is  *)
(* 35 and whose disposition is unrecoverable.  Texts carried by a reason   *)
(* (detail, op, field, raw code) are left out: no decision reads them.     *)
(***************************************************************************)

ZoneFaults ==
  {"ValveFault", "Welded", "ChecksumFailedOnWrite", "MalformedResponse",
   "OutOfRangeValue", "SafetyResponseMissed"}

SharedFaults ==
  {"ConfigCheckFailed", "WatchdogMissed", "UsbControllerLost", "ServiceFailure"}

LinkFaults == {"PortLost", "SteamLinkDegraded"}

Faults == ZoneFaults \cup LinkFaults \cup SharedFaults

\* The only event that stops water without latching anything.
Routine == {"SessionExpired"}

-----------------------------------------------------------------------------

LinkStates ==
  [state : {"Cold", "Ready", "Running"}, reason : {"none"}, ack : {FALSE}]
    \cup [state : {"Latched"}, reason : Faults, ack : BOOLEAN]

Unlatched(st) == [state |-> st, reason |-> "none", ack |-> FALSE]

LatchedFor(reason) == [state |-> "Latched", reason |-> reason, ack |-> FALSE]

IsLatched(s) == s.state = "Latched"

MarkReady(s) == IF IsLatched(s) THEN s ELSE Unlatched("Ready")

MarkStopped(s) == IF s.state = "Running" THEN Unlatched("Ready") ELSE s

\* authorize_open's verdict on the state of the link alone: latched, cold and
\* already-running zones are refused.
MayOpen(s) == s.state = "Ready"

Opened == Unlatched("Running")

Acknowledge(s) == IF IsLatched(s) THEN [s EXCEPT !.ack = TRUE] ELSE s

\* Mutation: the first fault stands, whatever comes after it.
Ruled_FirstFaultStands(s, event) ==
  CASE event \in Routine -> MarkStopped(s)
    [] IsLatched(s)      -> s
    [] OTHER             -> LatchedFor(event)

\* Mutation: an expiry latches like any other event.
Ruled_AlwaysLatches(s, event) == LatchedFor(event)

\* What on_event leaves on a link inside the scope of the event.  A fault on
\* a link already latched replaces the reason and clears the acknowledgement.
Ruled(s, event) ==
  IF event \in Routine THEN MarkStopped(s) ELSE LatchedFor(event)

\* Does the ruling give up the port?  A shared fault does not, so that the
\* all-off it commands can still be answered; a degraded steam link closes
\* its port itself, after the stop is acknowledged.
ClosesPort(event) == event \in ZoneFaults \cup {"PortLost"}

=============================================================================
