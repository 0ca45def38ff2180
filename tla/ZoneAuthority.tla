--------------------------- MODULE ZoneAuthority ---------------------------
(***************************************************************************)
(* What owning a zone's link promises: kdtv-safety's ZoneAuthority, which  *)
(* holds the port by value and gives it up by being latched.  The code     *)
(* builds one in its tests only; ZoneMachine is shown to behave as one.    *)
(***************************************************************************)
EXTENDS Integers

CONSTANTS
  REASONS,   \* LatchReason
  LIMITS     \* how long a session may be, positive numbers

VARIABLES
  phase,     \* the variant of the enum
  link,      \* is the port in it?
  session,   \* its SessionDeadline, as the time gone and the limit
  latch      \* why it was latched, and whether a person has seen it

vars == <<phase, link, session, latch>>

NoSession == [ran |-> 0, limit |-> 0]
NoLatch == [reason |-> "none", ack |-> FALSE]

IsLatched == phase = "Latched"
IsRunning == phase \in {"Running", "Paused"}

\* new()
Init ==
  /\ phase = "Discovery" /\ link = TRUE
  /\ session = NoSession /\ latch = NoLatch

\* Discovery is finished, or a session is over: the valve is confirmed off.
Ready ==
  /\ ~IsLatched
  /\ phase' = "ReadyOff" /\ session' = NoSession
  /\ UNCHANGED <<link, latch>>

\* Nothing leads to Running but ReadyOff, and the session is a new one.
Start ==
  /\ phase = "ReadyOff"
  /\ phase' = "Running"
  /\ \E limit \in LIMITS : session' = [ran |-> 0, limit |-> limit]
  /\ UNCHANGED <<link, latch>>

Pause ==
  /\ phase = "Running" /\ phase' = "Paused"
  /\ UNCHANGED <<link, session, latch>>

Resume ==
  /\ phase = "Paused" /\ phase' = "Running"
  /\ UNCHANGED <<link, session, latch>>

\* The deadline is not extended, by a pause or by anything else.
RunOn ==
  /\ IsRunning
  /\ session.ran < session.limit
  /\ session' = [session EXCEPT !.ran = @ + 1]
  /\ UNCHANGED <<phase, link, latch>>

\* From any phase, a latched one too: the link is dropped, which closes it.
Latch ==
  /\ phase' = "Latched" /\ link' = FALSE /\ session' = NoSession
  /\ \E reason \in REASONS : latch' = [reason |-> reason, ack |-> FALSE]

\* An acknowledgement hands no link back.
Acknowledge ==
  /\ IsLatched
  /\ latch' = [latch EXCEPT !.ack = TRUE]
  /\ UNCHANGED <<phase, link, session>>

Next == Ready \/ Start \/ Pause \/ Resume \/ RunOn \/ Latch \/ Acknowledge

Spec == Init /\ [][Next]_vars

=============================================================================
