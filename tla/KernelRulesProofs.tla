-------------------------- MODULE KernelRulesProofs --------------------------
(***************************************************************************)
(* What the kernel's rulings do to one LinkState, proved once for every    *)
(* module that uses them.                                                  *)
(***************************************************************************)
EXTENDS KernelRules, TLAPS

\* Every ruling maps link states to link states.
LEMMA RulingsAreTyped ==
  ASSUME NEW s \in LinkStates
  PROVE  /\ MarkReady(s) \in LinkStates
         /\ MarkStopped(s) \in LinkStates
         /\ Acknowledge(s) \in LinkStates
         /\ \A event \in Faults \cup Routine : Ruled(s, event) \in LinkStates
<1>1. MarkReady(s) \in LinkStates
  BY DEF MarkReady, Unlatched, LinkStates
<1>2. MarkStopped(s) \in LinkStates
  BY DEF MarkStopped, Unlatched, LinkStates
<1>3. Acknowledge(s) \in LinkStates
  BY DEF Acknowledge, IsLatched, LinkStates
<1>4. ASSUME NEW event \in Faults \cup Routine PROVE Ruled(s, event) \in LinkStates
  BY <1>2 DEF Ruled, LatchedFor, LinkStates
<1> QED BY <1>1, <1>2, <1>3, <1>4

\* authorize_open is the only way to Running: no other operation of the kernel
\* takes a link there.
LEMMA NothingElseRuns ==
  ASSUME NEW s \in LinkStates
  PROVE  /\ MarkReady(s).state # "Running"
         /\ MarkStopped(s).state # "Running"
         /\ Acknowledge(s).state = "Running" => s.state = "Running"
         /\ \A event \in Faults \cup Routine : Ruled(s, event).state # "Running"
<1>1. MarkReady(s).state # "Running"
  BY DEF MarkReady, Unlatched, IsLatched
<1>2. MarkStopped(s).state # "Running"
  BY DEF MarkStopped, Unlatched
<1>3. Acknowledge(s).state = "Running" => s.state = "Running"
  BY DEF Acknowledge, IsLatched, LinkStates
<1>4. ASSUME NEW event \in Faults \cup Routine PROVE Ruled(s, event).state # "Running"
  BY <1>2 DEF Ruled, LatchedFor
<1> QED BY <1>1, <1>2, <1>3, <1>4

\* A latched link stays latched under every ruling, and is refused water.
LEMMA LatchHolds ==
  ASSUME NEW s \in LinkStates, IsLatched(s)
  PROVE  /\ MarkReady(s) = s
         /\ MarkStopped(s) = s
         /\ IsLatched(Acknowledge(s))
         /\ \A event \in Faults \cup Routine : IsLatched(Ruled(s, event))
         /\ ~MayOpen(s)
<1>1. MarkReady(s) = s /\ MarkStopped(s) = s /\ ~MayOpen(s)
  BY DEF MarkReady, MarkStopped, MayOpen, IsLatched
<1>2. IsLatched(Acknowledge(s))
  BY DEF Acknowledge, IsLatched, LinkStates
<1>3. ASSUME NEW event \in Faults \cup Routine PROVE IsLatched(Ruled(s, event))
  BY <1>1 DEF Ruled, LatchedFor, IsLatched
<1> QED BY <1>1, <1>2, <1>3

=============================================================================
