----------------------------- MODULE SafetyKernel -----------------------------
(***************************************************************************)
(* kdtv-safety's SafetyKernel over every link of the house: who may open   *)
(* water, how far a fault reaches, and what a restart leaves behind.       *)
(*                                                                         *)
(* One action per public operation of the kernel, called in any order the  *)
(* types allow: an authorisation is spent by the call it is given to, and  *)
(* one minted before a restart may still be presented after it.            *)
(***************************************************************************)
EXTENDS Integers, Sequences, FiniteSets, KernelRules

CONSTANTS
  Zones,       \* ZoneId::ALL
  Steam,       \* LinkKind::Steam
  CommandIds,  \* the commands callers may name
  Slots,       \* every outlet slot
  Configured,  \* Bounds::configured_outlets
  MAX_BOOT     \* bound: how often the service starts

ASSUME SafetyKernelAssumption ==
  /\ Steam \notin Zones
  /\ Configured \in [Zones -> SUBSET Slots]
  /\ MAX_BOOT \in Nat \ {0}

VARIABLES
  boot,     \* the kernel's BootId
  links,    \* LinkState of every link
  tokens,   \* StartAuthorizations issued and not yet spent
  grants,   \* the OpenGrant last minted for each zone, if any
  effects   \* what the last call asked for: stages, in order, of sets

vars == <<boot, links, tokens, grants, effects>>

Links == Zones \cup {Steam}

Tokens == [boot : 1..MAX_BOOT, command : CommandIds]

\* issued is history: the boot its authorisation was minted in.
Grants == [zone : Zones, command : CommandIds, boot : 1..MAX_BOOT, issued : 1..MAX_BOOT]

NoGrant == [zone |-> Steam]

Requests == [zone : Zones, command : CommandIds, outlets : SUBSET Slots]

Effect(what, link) == [what |-> what, link |-> link]

Effects ==
  [what : {"AllOff", "SteamStopThenLatch", "ClosePort", "Latch", "OperatorMessage"},
   link : Links]

NoEffects == <<>>

-----------------------------------------------------------------------------

Init ==
  /\ boot = 1
  /\ links = [l \in Links |-> Unlatched("Cold")]
  /\ tokens = {}
  /\ grants = [z \in Zones |-> NoGrant]
  /\ effects = NoEffects

\* A process starts: nothing is restored, whatever the last one believed.
Restart ==
  /\ boot < MAX_BOOT
  /\ boot' = boot + 1
  /\ links' = [l \in Links |-> Unlatched("Cold")]
  /\ grants' = [z \in Zones |-> NoGrant]
  /\ effects' = NoEffects
  /\ UNCHANGED tokens

\* StartAuthorization::issue.
Issue(command) ==
  /\ tokens' = tokens \cup {[boot |-> boot, command |-> command]}
  /\ effects' = NoEffects
  /\ UNCHANGED <<boot, links, grants>>

\* Mutation: the boot of the authorisation is not looked at.
Authorised_AnyBoot(req, token) ==
  /\ token.command = req.command
  /\ MayOpen(links[req.zone])
  /\ req.outlets # {} /\ req.outlets \subseteq Configured[req.zone]

\* Everything authorize_open requires.
Authorised(req, token) ==
  /\ token.boot = boot
  /\ token.command = req.command
  /\ MayOpen(links[req.zone])
  /\ req.outlets # {} /\ req.outlets \subseteq Configured[req.zone]

\* The authorisation is taken by value, so a refusal spends it as well.
AuthorizeOpen(req, token) ==
  /\ token \in tokens
  /\ tokens' = tokens \ {token}
  /\ effects' = NoEffects
  /\ UNCHANGED boot
  /\ \/ /\ Authorised(req, token)
        /\ links' = [links EXCEPT ![req.zone] = Opened]
        /\ grants' = [grants EXCEPT ![req.zone] =
                        [zone |-> req.zone, command |-> req.command,
                         boot |-> boot, issued |-> token.boot]]
     \/ ~Authorised(req, token) /\ UNCHANGED <<links, grants>>

\* Mutation: a confirmed all-off makes any link ready.
LinkReady_Always(link) ==
  /\ links' = [links EXCEPT ![link] = Unlatched("Ready")]
  /\ effects' = NoEffects
  /\ UNCHANGED <<boot, tokens, grants>>

LinkReady(link) ==
  /\ links' = [links EXCEPT ![link] = MarkReady(links[link])]
  /\ effects' = NoEffects
  /\ UNCHANGED <<boot, tokens, grants>>

ZoneStopped(zone) ==
  /\ links' = [links EXCEPT ![zone] = MarkStopped(links[zone])]
  /\ effects' = NoEffects
  /\ UNCHANGED <<boot, tokens, grants>>

\* SafetyEvent::scope.  A zone's faults and its expiry reach the zone, a lost
\* port its link, and the failures of the service itself every link.
Scope(event, link) == IF event \in SharedFaults THEN Links ELSE {link}

\* The events that can be about a link.
About(event, link) ==
  \/ event \in SharedFaults \cup {"PortLost"}
  \/ event \in ZoneFaults \cup Routine /\ link \in Zones
  \/ event = "SteamLinkDegraded" /\ link = Steam

\* Mutation: the port is closed before the valve is told.
Response_ClosesFirst(event, link) ==
  CASE event \in SharedFaults ->
         <<{Effect("AllOff", z) : z \in Zones}, {Effect("Latch", l) : l \in Links}>>
    [] event \in Routine -> <<{Effect("AllOff", link)}>>
    [] OTHER ->
         <<{Effect("ClosePort", link)}, {Effect("AllOff", link)}, {Effect("Latch", link)}>>

\* The effects of an event, stage by stage: what stops water comes first.
Response(event, link) ==
  CASE event \in SharedFaults ->
         <<{Effect("AllOff", z) : z \in Zones}, {Effect("Latch", l) : l \in Links}>>
    [] event \in Routine -> <<{Effect("AllOff", link)}>>
    [] event = "SteamLinkDegraded" ->
         <<{Effect("SteamStopThenLatch", link)}, {Effect("Latch", link)}>>
    [] event = "PortLost" /\ link = Steam ->
         <<{Effect("ClosePort", link)}, {Effect("Latch", link)}>>
    [] event = "Welded" ->
         <<{Effect("AllOff", link)}, {Effect("ClosePort", link)},
           {Effect("Latch", link)}, {Effect("OperatorMessage", link)}>>
    [] OTHER ->
         <<{Effect("AllOff", link)}, {Effect("ClosePort", link)}, {Effect("Latch", link)}>>

\* Mutation: a failure of the service leaves alone what is already latched.
OnEvent_SparesTheLatched(event, link) ==
  /\ About(event, link)
  /\ links' = [l \in Links |->
                 IF l \in Scope(event, link)
                      /\ ~(event \in SharedFaults /\ IsLatched(links[l]))
                 THEN Ruled(links[l], event) ELSE links[l]]
  /\ effects' = Response(event, link)
  /\ UNCHANGED <<boot, tokens, grants>>

OnEvent(event, link) ==
  /\ About(event, link)
  /\ links' = [l \in Links |->
                 IF l \in Scope(event, link) THEN Ruled(links[l], event) ELSE links[l]]
  /\ effects' = Response(event, link)
  /\ UNCHANGED <<boot, tokens, grants>>

OperatorAck(link) ==
  /\ links' = [links EXCEPT ![link] = Acknowledge(links[link])]
  /\ effects' = NoEffects
  /\ UNCHANGED <<boot, tokens, grants>>

Next ==
  \/ Restart
  \/ \E c \in CommandIds : Issue(c)
  \/ \E req \in Requests, token \in tokens : AuthorizeOpen(req, token)
  \/ \E l \in Links : LinkReady(l) \/ OperatorAck(l)
  \/ \E z \in Zones : ZoneStopped(z)
  \/ \E l \in Links, event \in Faults \cup Routine : OnEvent(event, l)

Spec == Init /\ [][Next]_vars

-----------------------------------------------------------------------------
(* Properties.                                                              *)

\* Every variable stays in its range.
TypeOK ==
  /\ boot \in 1..MAX_BOOT
  /\ links \in [Links -> LinkStates]
  /\ tokens \subseteq [boot : 1..boot, command : CommandIds]
  /\ grants \in [Zones -> Grants \cup {NoGrant}]
  /\ effects \in Seq(SUBSET Effects)

\* Water runs on a zone only under a grant minted for that zone by this
\* process, from an authorisation issued to this process: no start is replayed
\* across a restart.
RunsOnAFreshGrant ==
  \A z \in Zones :
    links[z].state = "Running" =>
      /\ grants[z] # NoGrant
      /\ grants[z].zone = z /\ grants[z].boot = boot /\ grants[z].issued = boot

\* A latched link leaves the latch by a restart and in no other way: an
\* acknowledgement alone, or a late confirmation of an all-off, reopens nothing.
LatchedUntilRestart ==
  [][\A l \in Links :
       IsLatched(links[l]) => IsLatched(links'[l]) \/ boot' # boot]_vars

\* Position of an effect among the stages of a response.
AsksFor(stages, i, what, link) == Effect(what, link) \in stages[i]

\* Whenever a zone becomes latched its valve is told to close, before its port
\* is closed and before it is given up.
AllOffComesFirst ==
  [][\A z \in Zones :
       IsLatched(links'[z]) /\ ~IsLatched(links[z]) =>
         \E i \in DOMAIN effects' :
           /\ AsksFor(effects', i, "AllOff", z)
           /\ \A j \in 1..(i - 1) :
                /\ ~AsksFor(effects', j, "ClosePort", z)
                /\ ~AsksFor(effects', j, "Latch", z)]_vars

\* No other link is touched.
Spared(a) == \A b \in Links \ {a} : links'[b] = links[b]

\* What latches a link, or its acknowledgement, leaves every other link as it
\* was; unless the service itself has failed, and then every link is latched for
\* that very failure and none is spared (SafetyEvent::scope, on_event).
BlastRadius ==
  [][\A a \in Links :
       IsLatched(links'[a]) /\ links'[a] # links[a] =>
         IF links'[a].reason \in SharedFaults /\ ~links'[a].ack
         THEN \A b \in Links : links'[b] = links'[a]
         ELSE Spared(a)]_vars

=============================================================================
