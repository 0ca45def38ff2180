------------------------- MODULE SafetyKernelProofs -------------------------
(***************************************************************************)
(* Proofs about SafetyKernel, for any zones, commands, outlets and number  *)
(* of restarts.                                                            *)
(***************************************************************************)
EXTENDS SafetyKernel, KernelRulesProofs

\* A response has at most four stages.
LEMMA ShortSequences ==
  ASSUME NEW S, NEW a \in S, NEW b \in S, NEW c \in S, NEW d \in S
  PROVE  /\ <<a>> \in Seq(S) /\ <<a, b>> \in Seq(S)
         /\ <<a, b, c>> \in Seq(S) /\ <<a, b, c, d>> \in Seq(S)
OBVIOUS

\* What the typing of the effects says of the response to one event.
LEMMA ResponsesAreTyped ==
  ASSUME NEW event \in Faults \cup Routine, NEW link \in Links, About(event, link)
  PROVE  Response(event, link) \in Seq(SUBSET Effects)
<1> DEFINE R == Response(event, link)
<1>1. \A w \in {"AllOff", "SteamStopThenLatch", "ClosePort", "Latch", "OperatorMessage"},
         l \in Links : Effect(w, l) \in Effects
  BY DEF Effect, Effects
<1>2. CASE event \in SharedFaults
  <2>1. R = <<{Effect("AllOff", z) : z \in Zones}, {Effect("Latch", l) : l \in Links}>>
    BY <1>2 DEF Response, SharedFaults, Routine
  <2>2. {Effect("AllOff", z) : z \in Zones} \in SUBSET Effects
    BY <1>1 DEF Links
  <2>3. {Effect("Latch", l) : l \in Links} \in SUBSET Effects
    BY <1>1
  <2> QED BY <2>1, <2>2, <2>3
<1>3. CASE event \notin SharedFaults
  <2> DEFINE E(w) == {Effect(w, link)}
  <2>1. \A w \in {"AllOff", "SteamStopThenLatch", "ClosePort", "Latch", "OperatorMessage"} :
          E(w) \in SUBSET Effects
    BY <1>1
  <2>2. \/ R = <<E("AllOff")>>
        \/ R = <<E("SteamStopThenLatch"), E("Latch")>>
        \/ R = <<E("ClosePort"), E("Latch")>>
        \/ R = <<E("AllOff"), E("ClosePort"), E("Latch"), E("OperatorMessage")>>
        \/ R = <<E("AllOff"), E("ClosePort"), E("Latch")>>
    BY <1>3 DEF Response
  <2> HIDE DEF E
  <2>3. <<E("AllOff")>> \in Seq(SUBSET Effects)
    BY <2>1, ShortSequences
  <2>4. <<E("SteamStopThenLatch"), E("Latch")>> \in Seq(SUBSET Effects)
    BY <2>1, ShortSequences
  <2>5. <<E("ClosePort"), E("Latch")>> \in Seq(SUBSET Effects)
    BY <2>1, ShortSequences
  <2>6. <<E("AllOff"), E("ClosePort"), E("Latch"), E("OperatorMessage")>>
           \in Seq(SUBSET Effects)
    BY <2>1, ShortSequences
  <2>7. <<E("AllOff"), E("ClosePort"), E("Latch")>> \in Seq(SUBSET Effects)
    BY <2>1, ShortSequences
  <2> QED BY <2>2, <2>3, <2>4, <2>5, <2>6, <2>7
<1> QED BY <1>2, <1>3

\* Every variable stays in its range: no operation, in any order, takes the
\* kernel out of the states its type describes.
THEOREM Typing == Spec => []TypeOK
<1> USE SafetyKernelAssumption
<1>1. Init => TypeOK
  <2> SUFFICES ASSUME Init PROVE TypeOK
    OBVIOUS
  <2>1. links \in [Links -> LinkStates]
    BY DEF Init, Unlatched, LinkStates
  <2>2. effects \in Seq(SUBSET Effects)
    BY DEF Init, NoEffects
  <2> QED BY <2>1, <2>2 DEF Init, TypeOK
<1>2. TypeOK /\ [Next]_vars => TypeOK'
  <2> SUFFICES ASSUME TypeOK, [Next]_vars PROVE TypeOK'
    OBVIOUS
  <2> USE DEF TypeOK
  <2>0. NoEffects \in Seq(SUBSET Effects)
    BY DEF NoEffects
  <2>1. CASE Restart
    <3>1. links' \in [Links -> LinkStates]
      BY <2>1 DEF Restart, Unlatched, LinkStates
    <3> QED BY <2>0, <2>1, <3>1 DEF Restart
  <2>2. ASSUME NEW c \in CommandIds, Issue(c) PROVE TypeOK'
    BY <2>0, <2>2 DEF Issue
  <2>3. ASSUME NEW req \in Requests, NEW token \in tokens, AuthorizeOpen(req, token)
        PROVE TypeOK'
    <3>1. req.zone \in Zones /\ req.command \in CommandIds
      BY DEF Requests
    <3>2. token \in [boot : 1..boot, command : CommandIds]
      OBVIOUS
    <3>3. CASE Authorised(req, token)
      <4>0. Opened \in LinkStates
        BY DEF Opened, Unlatched, LinkStates
      <4>1. links' \in [Links -> LinkStates]
        BY <2>3, <3>1, <3>3, <4>0 DEF AuthorizeOpen
      <4>2. [zone |-> req.zone, command |-> req.command, boot |-> boot,
             issued |-> token.boot] \in Grants
        BY <3>1, <3>2 DEF Grants
      <4>3. grants' \in [Zones -> Grants \cup {NoGrant}]
        BY <2>3, <3>1, <3>3, <4>2 DEF AuthorizeOpen
      <4> QED BY <2>0, <2>3, <4>1, <4>3 DEF AuthorizeOpen
    <3>4. CASE ~Authorised(req, token)
      BY <2>0, <2>3, <3>4 DEF AuthorizeOpen
    <3> QED BY <3>3, <3>4
  <2>4. ASSUME NEW l \in Links, LinkReady(l) \/ OperatorAck(l) PROVE TypeOK'
    <3>1. MarkReady(links[l]) \in LinkStates /\ Acknowledge(links[l]) \in LinkStates
      BY RulingsAreTyped
    <3> QED BY <2>0, <2>4, <3>1 DEF LinkReady, OperatorAck
  <2>5. ASSUME NEW z \in Zones, ZoneStopped(z) PROVE TypeOK'
    <3>1. MarkStopped(links[z]) \in LinkStates
      BY RulingsAreTyped DEF Links
    <3> QED BY <2>0, <2>5, <3>1 DEF ZoneStopped
  <2>6. ASSUME NEW l \in Links, NEW event \in Faults \cup Routine, OnEvent(event, l)
        PROVE TypeOK'
    <3>1. \A k \in Links : Ruled(links[k], event) \in LinkStates
      BY RulingsAreTyped
    <3>2. links' \in [Links -> LinkStates]
      BY <2>6, <3>1 DEF OnEvent
    <3>3. effects' \in Seq(SUBSET Effects)
      BY <2>6, ResponsesAreTyped DEF OnEvent
    <3> QED BY <2>6, <3>2, <3>3 DEF OnEvent
  <2>7. CASE UNCHANGED vars
    BY <2>7 DEF vars
  <2> QED BY <2>1, <2>2, <2>3, <2>4, <2>5, <2>6, <2>7 DEF Next
<1> QED BY <1>1, <1>2, PTL DEF Spec

\* Water runs only under a grant this process minted, for that zone, from an
\* authorisation issued to this process: no start is replayed by a restart.
THEOREM FreshGrants == Spec => []RunsOnAFreshGrant
<1> USE SafetyKernelAssumption
<1>1. Init => RunsOnAFreshGrant
  BY DEF Init, RunsOnAFreshGrant, Unlatched, Links
<1>2. TypeOK /\ RunsOnAFreshGrant /\ [Next]_vars => RunsOnAFreshGrant'
  <2> SUFFICES ASSUME TypeOK, RunsOnAFreshGrant, [Next]_vars,
                      NEW z \in Zones, links'[z].state = "Running"
               PROVE  /\ grants'[z] # NoGrant
                      /\ grants'[z].zone = z
                      /\ grants'[z].boot = boot' /\ grants'[z].issued = boot'
    BY DEF RunsOnAFreshGrant
  <2> USE DEF TypeOK
  <2>0. z \in Links /\ links[z] \in LinkStates
    BY DEF Links
  <2>1. ASSUME links[z].state = "Running", grants'[z] = grants[z], boot' = boot
        PROVE  /\ grants'[z] # NoGrant
               /\ grants'[z].zone = z
               /\ grants'[z].boot = boot' /\ grants'[z].issued = boot'
    BY <2>1 DEF RunsOnAFreshGrant
  <2>2. CASE Restart
    BY <2>0, <2>2 DEF Restart, Unlatched
  <2>3. ASSUME NEW c \in CommandIds, Issue(c)
        PROVE  links[z].state = "Running" /\ UNCHANGED <<boot, grants>>
    BY <2>3 DEF Issue
  <2>4. ASSUME NEW req \in Requests, NEW token \in tokens, AuthorizeOpen(req, token)
        PROVE  /\ grants'[z] # NoGrant
               /\ grants'[z].zone = z
               /\ grants'[z].boot = boot' /\ grants'[z].issued = boot'
    <3>1. CASE Authorised(req, token) /\ req.zone = z
      <4>1. /\ grants'[z] = [zone |-> z, command |-> req.command, boot |-> boot,
                             issued |-> token.boot]
            /\ boot' = boot
            /\ token.boot = boot
        BY <2>4, <3>1 DEF AuthorizeOpen, Authorised
      <4>2. grants'[z].zone = z /\ grants'[z].boot = boot /\ grants'[z].issued = boot
        BY <4>1
      <4>3. NoGrant.zone # z
        BY DEF NoGrant
      <4> QED BY <4>1, <4>2, <4>3
    <3>2. CASE Authorised(req, token) /\ req.zone # z
      BY <2>0, <2>1, <2>4, <3>2 DEF AuthorizeOpen, Requests, Links
    <3>3. CASE ~Authorised(req, token)
      BY <2>1, <2>4, <3>3 DEF AuthorizeOpen
    <3> QED BY <3>1, <3>2, <3>3
  <2>5. ASSUME NEW l \in Links, LinkReady(l) \/ OperatorAck(l)
        PROVE  links[z].state = "Running" /\ UNCHANGED <<boot, grants>>
    <3>1. MarkReady(links[z]).state # "Running"
      BY <2>0, NothingElseRuns
    <3>2. Acknowledge(links[z]).state = "Running" => links[z].state = "Running"
      BY <2>0, NothingElseRuns
    <3> QED BY <2>0, <2>5, <3>1, <3>2 DEF LinkReady, OperatorAck
  <2>6. ASSUME NEW y \in Zones, ZoneStopped(y)
        PROVE  links[z].state = "Running" /\ UNCHANGED <<boot, grants>>
    <3>1. MarkStopped(links[z]).state # "Running"
      BY <2>0, NothingElseRuns
    <3> QED BY <2>0, <2>6, <3>1 DEF ZoneStopped, Links
  <2>7. ASSUME NEW l \in Links, NEW event \in Faults \cup Routine, OnEvent(event, l)
        PROVE  links[z].state = "Running" /\ UNCHANGED <<boot, grants>>
    <3>1. Ruled(links[z], event).state # "Running"
      BY <2>0, NothingElseRuns
    <3> QED BY <2>0, <2>7, <3>1 DEF OnEvent
  <2>8. CASE UNCHANGED vars
    BY <2>1, <2>8 DEF vars
  <2> QED BY <2>1, <2>2, <2>3, <2>4, <2>5, <2>6, <2>7, <2>8 DEF Next
<1> QED BY <1>1, <1>2, Typing, PTL DEF Spec

\* A latched link is latched until the process starts again.
THEOREM LatchesHold == Spec => LatchedUntilRestart
<1> USE SafetyKernelAssumption
<1>1. TypeOK /\ [Next]_vars =>
        [\A l \in Links : IsLatched(links[l]) => IsLatched(links'[l]) \/ boot' # boot]_vars
  <2> SUFFICES ASSUME TypeOK, Next, NEW l \in Links, IsLatched(links[l]), boot' = boot
               PROVE  IsLatched(links'[l])
    BY DEF vars
  <2> USE DEF TypeOK
  <2>0. links[l] \in LinkStates
    OBVIOUS
  <2>1. ~Restart
    BY DEF Restart
  <2>2. ASSUME NEW c \in CommandIds, Issue(c) PROVE IsLatched(links'[l])
    BY <2>2 DEF Issue
  <2>3. ASSUME NEW req \in Requests, NEW token \in tokens, AuthorizeOpen(req, token)
        PROVE  IsLatched(links'[l])
    <3>1. req.zone = l => ~Authorised(req, token)
      BY <2>0, LatchHolds DEF Authorised
    <3> QED BY <2>0, <2>3, <3>1 DEF AuthorizeOpen, Requests, Links
  <2>4. ASSUME NEW k \in Links, LinkReady(k) \/ OperatorAck(k) PROVE IsLatched(links'[l])
    <3>1. MarkReady(links[l]) = links[l] /\ IsLatched(Acknowledge(links[l]))
      BY <2>0, LatchHolds
    <3> QED BY <2>0, <2>4, <3>1 DEF LinkReady, OperatorAck
  <2>5. ASSUME NEW z \in Zones, ZoneStopped(z) PROVE IsLatched(links'[l])
    <3>1. MarkStopped(links[l]) = links[l]
      BY <2>0, LatchHolds
    <3> QED BY <2>0, <2>5, <3>1 DEF ZoneStopped, Links
  <2>6. ASSUME NEW k \in Links, NEW event \in Faults \cup Routine, OnEvent(event, k)
        PROVE  IsLatched(links'[l])
    <3>1. IsLatched(Ruled(links[l], event))
      BY <2>0, LatchHolds
    <3> QED BY <2>0, <2>6, <3>1 DEF OnEvent
  <2> QED BY <2>1, <2>2, <2>3, <2>4, <2>5, <2>6 DEF Next
<1> QED BY <1>1, Typing, PTL DEF Spec, LatchedUntilRestart

\* What latches a link spares every other, and a failure of the service itself
\* spares none.
THEOREM FaultsStayInScope == Spec => BlastRadius
<1> USE SafetyKernelAssumption
<1> DEFINE Contained(a) ==
      IF links'[a].reason \in SharedFaults /\ ~links'[a].ack
      THEN \A b \in Links : links'[b] = links'[a]
      ELSE Spared(a)
<1>1. TypeOK /\ [Next]_vars =>
        [\A a \in Links :
           IsLatched(links'[a]) /\ links'[a] # links[a] => Contained(a)]_vars
  <2> SUFFICES ASSUME TypeOK, Next, NEW a \in Links,
                      IsLatched(links'[a]), links'[a] # links[a]
               PROVE  Contained(a)
    BY DEF vars
  <2> USE DEF TypeOK
  <2>0. links[a] \in LinkStates
    OBVIOUS
  <2>1. ~Restart
    BY DEF Restart, Unlatched, IsLatched
  <2>2. \A c \in CommandIds : ~Issue(c)
    BY DEF Issue
  <2>3. ASSUME NEW req \in Requests, NEW token \in tokens, AuthorizeOpen(req, token)
        PROVE  FALSE
    <3>1. ~IsLatched(Opened)
      BY DEF Opened, Unlatched, IsLatched
    <3> QED BY <2>3, <3>1 DEF AuthorizeOpen, Requests, Links
  <2>4. ASSUME NEW l \in Links, LinkReady(l) PROVE FALSE
    <3>1. IsLatched(MarkReady(links[a])) => MarkReady(links[a]) = links[a]
      BY DEF MarkReady, Unlatched, IsLatched
    <3> QED BY <2>4, <3>1 DEF LinkReady
  <2>5. ASSUME NEW l \in Links, OperatorAck(l) PROVE Contained(a)
    <3>1. a = l /\ Spared(a)
      BY <2>5 DEF OperatorAck, Spared
    <3>2. links'[a] = Acknowledge(links[a])
      BY <2>5, <3>1 DEF OperatorAck
    <3>3. links'[a].ack
      BY <2>0, <3>2 DEF Acknowledge, LinkStates, IsLatched
    <3> QED BY <3>1, <3>3
  <2>6. ASSUME NEW z \in Zones, ZoneStopped(z) PROVE FALSE
    <3>1. IsLatched(MarkStopped(links[a])) => MarkStopped(links[a]) = links[a]
      BY DEF MarkStopped, Unlatched, IsLatched
    <3> QED BY <2>6, <3>1 DEF ZoneStopped, Links
  <2>7. ASSUME NEW l \in Links, NEW event \in Faults \cup Routine, OnEvent(event, l)
        PROVE  Contained(a)
    <3>1. CASE event \in SharedFaults
      <4>1. \A b \in Links : links'[b] = Ruled(links[b], event)
        BY <2>7, <3>1 DEF OnEvent, Scope
      <4>2. \A s : Ruled(s, event) = LatchedFor(event)
        BY <3>1 DEF Ruled, Routine, SharedFaults
      <4>3. \A b \in Links : links'[b] = LatchedFor(event)
        BY <4>1, <4>2
      <4>4. links'[a].reason = event /\ ~links'[a].ack
        BY <4>3 DEF LatchedFor
      <4> QED BY <3>1, <4>3, <4>4
    <3>2. CASE event \notin SharedFaults
      <4>1. a = l /\ Spared(a) /\ links'[a] = Ruled(links[a], event)
        BY <2>7, <3>2 DEF OnEvent, Scope, Spared
      <4>2. links'[a].reason = event
        <5>1. CASE event \in Routine
          <6>1. links'[a] = MarkStopped(links[a])
            BY <4>1, <5>1 DEF Ruled
          <6>2. MarkStopped(links[a]) = links[a] \/ ~IsLatched(MarkStopped(links[a]))
            BY DEF MarkStopped, Unlatched, IsLatched
          <6> QED BY <6>1, <6>2
        <5>2. CASE event \notin Routine
          BY <4>1, <5>2 DEF Ruled, LatchedFor
        <5> QED BY <5>1, <5>2
      <4> QED BY <3>2, <4>1, <4>2
    <3> QED BY <3>1, <3>2
  <2> QED BY <2>1, <2>2, <2>3, <2>4, <2>5, <2>6, <2>7 DEF Next
<1> QED BY <1>1, Typing, PTL DEF Spec, BlastRadius

\* A zone is latched only by a response whose first stage closes its valve.
THEOREM AllOffLeads == Spec => AllOffComesFirst
<1> USE SafetyKernelAssumption
<1> DEFINE Leads(z) ==
      \E i \in DOMAIN effects' :
        /\ AsksFor(effects', i, "AllOff", z)
        /\ \A j \in 1..(i - 1) :
             /\ ~AsksFor(effects', j, "ClosePort", z)
             /\ ~AsksFor(effects', j, "Latch", z)
<1>1. TypeOK /\ [Next]_vars =>
        [\A z \in Zones : IsLatched(links'[z]) /\ ~IsLatched(links[z]) => Leads(z)]_vars
  <2> SUFFICES ASSUME TypeOK, Next, NEW z \in Zones,
                      IsLatched(links'[z]), ~IsLatched(links[z])
               PROVE  Leads(z)
    BY DEF vars
  <2> USE DEF TypeOK
  <2>0. z \in Links /\ z # Steam
    BY DEF Links
  <2>1. ~Restart
    BY <2>0 DEF Restart, Unlatched, IsLatched
  <2>2. \A c \in CommandIds : ~Issue(c)
    BY DEF Issue
  <2>3. ASSUME NEW req \in Requests, NEW token \in tokens, AuthorizeOpen(req, token)
        PROVE  FALSE
    <3>1. ~IsLatched(Opened)
      BY DEF Opened, Unlatched, IsLatched
    <3> QED BY <2>0, <2>3, <3>1 DEF AuthorizeOpen, Requests
  <2>4. ASSUME NEW l \in Links, LinkReady(l) \/ OperatorAck(l) PROVE FALSE
    <3>1. ~IsLatched(MarkReady(links[z])) /\ ~IsLatched(Acknowledge(links[z]))
      BY DEF MarkReady, Acknowledge, Unlatched, IsLatched
    <3> QED BY <2>0, <2>4, <3>1 DEF LinkReady, OperatorAck
  <2>5. ASSUME NEW y \in Zones, ZoneStopped(y) PROVE FALSE
    <3>1. ~IsLatched(MarkStopped(links[z]))
      BY DEF MarkStopped, Unlatched, IsLatched
    <3> QED BY <2>0, <2>5, <3>1 DEF ZoneStopped
  <2>6. ASSUME NEW l \in Links, NEW event \in Faults \cup Routine, OnEvent(event, l)
        PROVE  Leads(z)
    <3>1. z \in Scope(event, l) /\ event \notin Routine
      <4>1. ~IsLatched(MarkStopped(links[z]))
        BY DEF MarkStopped, Unlatched, IsLatched
      <4> QED BY <2>0, <2>6, <4>1 DEF OnEvent, Ruled
    <3>2. Effect("AllOff", z) \in Response(event, l)[1] /\ 1 \in DOMAIN Response(event, l)
      <4>1. CASE event \in SharedFaults
        <5>1. Response(event, l) =
                <<{Effect("AllOff", y) : y \in Zones}, {Effect("Latch", k) : k \in Links}>>
          BY <4>1 DEF Response, SharedFaults, Routine
        <5> QED BY <5>1
      <4>2. CASE event \notin SharedFaults
        <5>1. l = z /\ event # "SteamLinkDegraded"
          BY <2>0, <2>6, <3>1, <4>2 DEF Scope, OnEvent, About, SharedFaults, ZoneFaults, Routine
        <5>2. \/ Response(event, l) =
                   <<{Effect("AllOff", z)}, {Effect("ClosePort", z)},
                     {Effect("Latch", z)}, {Effect("OperatorMessage", z)}>>
              \/ Response(event, l) =
                   <<{Effect("AllOff", z)}, {Effect("ClosePort", z)}, {Effect("Latch", z)}>>
          BY <2>0, <3>1, <4>2, <5>1 DEF Response
        <5> QED BY <5>2
      <4> QED BY <4>1, <4>2
    <3>3. effects' = Response(event, l)
      BY <2>6 DEF OnEvent
    <3>4. AsksFor(effects', 1, "AllOff", z) /\ 1 \in DOMAIN effects'
      BY <3>2, <3>3 DEF AsksFor
    <3> QED BY <3>4
  <2> QED BY <2>1, <2>2, <2>3, <2>4, <2>5, <2>6 DEF Next
<1> QED BY <1>1, Typing, PTL DEF Spec, AllOffComesFirst

=============================================================================
