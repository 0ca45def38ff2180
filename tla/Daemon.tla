-------------------------------- MODULE Daemon --------------------------------
(***************************************************************************)
(* kdtvd as a whole, around its control loop: what is validated, opened    *)
(* and made durable before the loop exists, the requests that reach it     *)
(* through the API, and the ways the process ends.                         *)
(*                                                                         *)
(* The loop itself is Supervisor's subject; here it takes commands from    *)
(* its queue, and its drain ends with every link confirmed off or not.     *)
(* The process runs on one thread, so whatever happens between two awaits  *)
(* of the code is one action, and nothing of it runs while an id is being  *)
(* saved; a crash or a power cut may come at any point.                    *)
(***************************************************************************)
EXTENDS Configuration, Hardware, Sessions, IdStore

CONSTANTS
  Sites,        \* what may be installed where: records [raw, machine, fixtures]
  Machines,     \* what the adapters may be replugged into
  Clients,
  Requests,     \* what may be asked: records [op, body]
  COMMAND_CAPACITY,
  MAX_STARTS, MAX_TIME, MAX_DRAWS   \* bounds: starts of the process, time, session ids

VARIABLES
  site,         \* the file, the machine and the embedded fixtures
  phase, code,  \* how far this process has come, and how the last one ended
  bound,        \* what validation resolved each link to
  authority,    \* {}, or what the gate granted
  opened,       \* the ports that are open: records [link, node]
  outcome,      \* {}, or how the drain of this process ended
  now, table, minted,     \* this process's clock, its sessions, the ids drawn for them
  request,      \* each client's request: {}, or what its handler holds
  queue,        \* the commands sent to the loop; those past the capacity wait
  heard,        \* the sessions clients have been told of
  starts

processVars == <<phase, code, bound, authority, opened, outcome>>
apiVars == <<now, table, minted, request, queue, heard>>
vars == <<site, processVars, apiVars, starts, idVars>>

raw == site.raw
machine == site.machine

WATER == {"start", "set_temperature", "set_outlets", "resume",
          "steam_start", "steam_set_temperature", "steam_set_duration"}
READS == {"state", "events"}

Idle == [c \in Clients |-> {}]

DaemonInit ==
  /\ IdInit
  /\ site \in Sites
  /\ phase = "down" /\ code = "none"
  /\ bound = <<>> /\ authority = {} /\ opened = {} /\ outcome = {}
  /\ now = 0 /\ table = EmptyTable /\ minted = 0
  /\ request = Idle /\ queue = <<>> /\ heard = {}
  /\ starts = 0

-----------------------------------------------------------------------------
(* How a process ends.                                                      *)

\* Everything it held is gone; what is on the disk is the store's business.
Ends(why) ==
  /\ phase' = "down" /\ code' = why
  /\ bound' = <<>> /\ authority' = {} /\ opened' = {}
  /\ now' = 0 /\ table' = EmptyTable /\ request' = Idle /\ queue' = <<>>
  /\ UNCHANGED <<site, minted, heard, starts>>

Fails(why) == Ends(why) /\ StoreLost /\ UNCHANGED outcome

\* Killed, or hung up: only SIGTERM and SIGINT have a handler.
Crash == phase # "down" /\ Fails("KILLED")

PowerCut == Ends("POWER") /\ PowerLost /\ UNCHANGED outcome

-----------------------------------------------------------------------------
(* Validation, which opens nothing.                                         *)

\* classify: two of the configuration's errors are about the hardware.
Classify(error) ==
  IF error \subseteq {"PortAbsent", "DuplicatePort"} THEN "HARDWARE" ELSE "CONFIG"

\* validate: the code it refuses with, or {}.
Refusal ==
  LET error == ConfigError(raw, machine)
  IN  IF error # {} THEN {Classify(error)}
      ELSE IF ResolveError(Links(raw), BindingPorts(raw), machine) # {} THEN {"HARDWARE"}
      ELSE IF machine.credential # "owner" \/ machine.token # "usable" THEN {"RUNTIME"}
      ELSE IF Grant(raw.gate, site.fixtures) = {} THEN {"GATE"}
      ELSE {}

\* The service manager starts it again unless it ended with OK.
Validate ==
  /\ phase = "down" /\ code # "OK" /\ starts < MAX_STARTS
  /\ starts' = starts + 1
  /\ outcome' = {}
  /\ IF Refusal # {}
       THEN /\ code' \in Refusal
            /\ UNCHANGED <<phase, bound, authority>>
       ELSE /\ phase' = "validated" /\ code' = "none"
            /\ bound' = Bindings(BindingPorts(raw), machine)
            /\ authority' = Grant(raw.gate, site.fixtures)
  /\ UNCHANGED <<site, opened, apiVars, idVars>>

\* Nothing holds an adapter where validation found it.
Replug ==
  /\ phase \in {"validated", "opening"}
  /\ \E l \in DOMAIN bound : bound[l].driver # "pty"
  /\ \E m \in Machines :
       site' = [raw |-> site.raw, machine |-> m, fixtures |-> site.fixtures]
  /\ UNCHANGED <<processVars, apiVars, starts, idVars>>

-----------------------------------------------------------------------------
(* Opening and assembling.                                                  *)

OpenStore ==
  /\ phase = "validated"
  /\ \/ /\ Open
        /\ phase' = "opening"
        /\ UNCHANGED <<site, code, bound, authority, opened, outcome, apiVars, starts>>
     \/ Fails("RUNTIME")            \* the counter is unreadable or corrupt

\* The links before the i-th are open, and no other.
Turn(i) == {port.link : port \in opened} = {Links(raw)[j] : j \in 1 .. (i - 1)}

\* permit_open: the gate, before anything is resolved into a descriptor.
PermitOpen(link) ==
  Backend(bound[link].node) = "serial" =>
    \E a \in authority : PermitsRealBusOn(a, link)

\* The node must still be there; whatever is behind it now is what opens.
CanOpen(link) ==
  /\ Hardens(bound[link], machine)
  /\ Backend(bound[link].node) = "pty" \/ bound[link].node \in DOMAIN machine.usb

\* One turn of Service::start's loop; a failure closes what was opened.
OpenLink ==
  /\ phase = "opening"
  /\ \E i \in DOMAIN Links(raw) :
       LET link == Links(raw)[i]
       IN  /\ Turn(i)
           /\ \/ ~ PermitOpen(link) /\ Fails("GATE")
              \/ PermitOpen(link) /\ Fails("HARDWARE")    \* not hardened, or not there
              \/ /\ PermitOpen(link) /\ CanOpen(link)
                 /\ opened' = opened \cup {[link |-> link, node |-> bound[link].node]}
                 /\ phase' = IF i = Len(Links(raw)) THEN "identity" ELSE "opening"
                 /\ UNCHANGED <<site, code, bound, authority, outcome, apiVars, starts, idVars>>

\* assemble begins with the boot id ...
TakeBootId ==
  /\ phase = "identity" /\ saving = {}
  /\ \/ BeginBoot /\ UNCHANGED <<site, processVars, apiVars, starts>>
     \/ BootsExhausted /\ Fails("RUNTIME")

\* ... then the kernel's, and ends with the id of the shutdown command.
TakeShutdownId ==
  /\ phase = "booted" /\ saving = {}
  /\ \/ /\ NextCommand
        /\ phase' = "assembled"
        /\ UNCHANGED <<site, code, bound, authority, opened, outcome, apiVars, starts>>
     \/ Reserve /\ UNCHANGED <<site, processVars, apiVars, starts>>
     \/ Fails("RUNTIME")            \* no kernel boot id, or no command id left

\* A plausible bug: what could not be brought up is dropped.
BringUp_DropsTheSupervisor ==
  /\ phase = "assembled"
  /\ \/ /\ phase' = "serving"
        /\ UNCHANGED <<site, code, bound, authority, opened, outcome, apiVars, starts, idVars>>
     \/ Fails("RUNTIME")

\* bring_up: the signal handlers, the credential again, the socket.
BringUp ==
  /\ phase = "assembled"
  /\ phase' \in {"serving", "aborting"}
  /\ UNCHANGED <<site, code, bound, authority, opened, outcome, apiVars, starts, idVars>>

-----------------------------------------------------------------------------
(* A save, step by step, and what waits for it.                             *)

\* The handler that asked for the id, if it was one.
Waiting == {c \in Clients : \E r \in request[c] : r.at = "saving"}

Answered(c) ==
  /\ request' = [request EXCEPT ![c] = {}]
  /\ heard' = heard \cup {[session |-> r.session, boot |-> issued.boot] : r \in request[c]}

\* Once the loop has gone there is no queue, and the answer is NotRunning.
Enqueue(c, id) ==
  \E r \in request[c] :
    IF phase = "closing"
      THEN Answered(c) /\ UNCHANGED queue
      ELSE /\ queue' = Append(queue, [op |-> r.op, session |-> r.session, admitted |-> r.admitted,
                                      established |-> r.established, command |-> id])
           /\ request' = [request EXCEPT ![c] = {[r EXCEPT !.at = "queued", !.command = id]}]
           /\ UNCHANGED heard

SaveStep ==
  /\ Rename
  /\ UNCHANGED <<site, processVars, apiVars, starts>>

SaveDone ==
  /\ SaveSynced
  /\ IF phase \in {"identity", "booted"}
       THEN /\ phase' = IF phase = "identity" THEN "booted" ELSE "assembled"
            /\ UNCHANGED apiVars
       ELSE /\ \A c \in Waiting : Enqueue(c, issued'.command)
            /\ UNCHANGED <<phase, now, table, minted>>
  /\ UNCHANGED <<site, code, bound, authority, opened, outcome, starts>>

\* In assemble the service does not start; a handler refuses, a stop too.
SaveFailed ==
  \/ /\ phase \in {"identity", "booted"} /\ saving # {}
     /\ Fails("RUNTIME")
  \/ /\ phase \notin {"identity", "booted"}
     /\ SaveFails
     /\ \A c \in Waiting : Answered(c)
     /\ UNCHANGED <<site, processVars, now, table, minted, queue, starts>>

DirectoryWrittenBack ==
  /\ Writeback
  /\ UNCHANGED <<site, processVars, apiVars, starts>>

-----------------------------------------------------------------------------
(* Requests.                                                                *)

Answering == phase \in {"serving", "draining"} /\ saving = {}

\* authenticate and require_fresh_session, for a caller with the credential.
\* A water-opening route is refused unless its session was live on arrival.
Arrive(c) ==
  /\ Answering /\ request[c] = {} /\ minted < MAX_DRAWS
  /\ \E q \in Requests, presented \in {{}} \cup {{h.session} : h \in heard} :
       LET a == Admit(table, presented, minted + 1, now)
       IN  /\ table' = a.table
           /\ minted' = IF a.freshness = "Established" THEN minted + 1 ELSE minted
           /\ IF q.op \in WATER /\ a.freshness # "Live"
                THEN /\ heard' = heard \cup {[session |-> a.session, boot |-> issued.boot]}
                     /\ UNCHANGED request
                ELSE /\ request' = [request EXCEPT ![c] =
                           {[op |-> q.op, body |-> q.body, session |-> a.session,
                             admitted |-> now, established |-> a.table.live[a.session],
                             at |-> "body", command |-> 0]}]
                     /\ UNCHANGED heard
  /\ UNCHANGED <<site, processVars, now, queue, starts, idVars>>

\* Slots of the request, none of them no slot.
Slots(body) == body.outlets # {} /\ body.outlets \subseteq SLOTS

\* What each handler checks before it asks for a command id.
Valid(op, body) ==
  LET bounds == Resolve(raw.bounds)
  IN  CASE op = "start" -> /\ Slots(body)
                           /\ ValveSetpoint(bounds, body.fahrenheit) # {}
                           /\ Session(bounds, body.seconds) # {}
        [] op = "set_temperature" -> ValveSetpoint(bounds, body.fahrenheit) # {}
        [] op = "set_outlets" -> FALSE      \* no authorisation for a running zone
        [] op = "steam_start" -> /\ SteamSetpoint(bounds, body.degrees) # {}
                                 /\ Minutes(bounds, body.minutes) # {}
        [] op = "steam_set_temperature" -> SteamSetpoint(bounds, body.degrees) # {}
        [] op = "steam_set_duration" -> Minutes(bounds, body.minutes) # {}
        [] OTHER -> TRUE

\* The handler, once the body has arrived, which may be much later: the checks,
\* the command id and the queue, with no await before the last.
Handle(c) ==
  /\ phase \in {"serving", "draining", "closing"} /\ saving = {}
  /\ \E r \in request[c] :
       /\ r.at = "body"
       /\ \/ /\ r.op \in READS \/ ~ Valid(r.op, r.body) \/ CommandsExhausted
             /\ Answered(c)
             /\ UNCHANGED <<site, processVars, now, table, minted, queue, starts, idVars>>
          \/ /\ r.op \notin READS /\ Valid(r.op, r.body)
             /\ NextCommand
             /\ Enqueue(c, issued'.command)
             /\ UNCHANGED <<site, processVars, now, table, minted, starts>>
          \/ /\ r.op \notin READS /\ Valid(r.op, r.body)
             /\ Reserve
             /\ request' = [request EXCEPT ![c] = {[r EXCEPT !.at = "saving"]}]
             /\ UNCHANGED <<site, processVars, now, table, minted, queue, heard, starts>>

\* The loop takes a command and answers it, whoever is left to hear it.  It
\* still takes them while it drains.
LoopTakes ==
  /\ phase \in {"serving", "draining"} /\ saving = {} /\ queue # <<>>
  /\ queue' = Tail(queue)
  /\ LET asked == {c \in Clients : \E r \in request[c] :
                     r.at = "queued" /\ r.command = Head(queue).command}
     IN  /\ request' = [c \in Clients |-> IF c \in asked THEN {} ELSE request[c]]
         /\ heard' = heard \cup {[session |-> Head(queue).session, boot |-> issued.boot] :
                                 c \in asked}
  /\ UNCHANGED <<site, processVars, now, table, minted, starts, idVars>>

\* The client goes away and its handler with it: a command that was waiting for
\* room is never sent, one in the channel is obeyed all the same.
Disconnect(c) ==
  /\ request[c] # {} /\ saving = {}
  /\ request' = [request EXCEPT ![c] = {}]
  /\ LET waiting == {i \in DOMAIN queue :
                       /\ i > COMMAND_CAPACITY
                       /\ \E r \in request[c] : r.at = "queued" /\ r.command = queue[i].command}
     IN  IF waiting = {} THEN UNCHANGED queue
         ELSE \E i \in waiting : queue' = RemoveAt(queue, i)
  /\ UNCHANGED <<site, processVars, now, table, minted, heard, starts, idVars>>

Tick ==
  /\ Answering /\ now < MAX_TIME
  /\ now' = now + 1
  /\ UNCHANGED <<site, processVars, table, minted, request, queue, heard, starts, idVars>>

-----------------------------------------------------------------------------
(* The end of the loop, and of the process.                                 *)

\* SIGTERM or SIGINT, or the loop drains of its own accord.
Shutdown ==
  /\ phase = "serving" /\ saving = {}
  /\ phase' = "draining"
  /\ UNCHANGED <<site, code, bound, authority, opened, outcome, apiVars, starts, idVars>>

\* supervisor.run() returns: the ports are closed, and what was still queued
\* is answered NotRunning.
Drained ==
  /\ phase \in {"draining", "aborting"} /\ saving = {}
  /\ outcome' \in {{"ConfirmedOff"}, {"UnconfirmedOff"}}
  /\ phase' = IF phase = "draining" THEN "closing" ELSE "aborted"
  /\ opened' = {}
  /\ queue' = <<>>
  /\ LET asked == {c \in Clients : \E r \in request[c] : r.at = "queued"}
     IN  /\ request' = [c \in Clients |-> IF c \in asked THEN {} ELSE request[c]]
         /\ heard' = heard \cup UNION {{[session |-> r.session, boot |-> issued.boot] :
                                        r \in request[c]} : c \in asked}
  /\ UNCHANGED <<site, code, bound, authority, now, table, minted, starts, idVars>>

ExitCodeFor(o) == IF o = {"ConfirmedOff"} THEN "OK" ELSE "UNCONFIRMED_OFF"

\* serve returns: a service that never served ends with the reason it did not.
Exit ==
  /\ phase \in {"closing", "aborted"} /\ saving = {}
  /\ Ends(IF phase = "closing" THEN ExitCodeFor(outcome) ELSE "RUNTIME")
  /\ StoreLost /\ UNCHANGED outcome

Process ==
  \/ Validate \/ OpenStore \/ OpenLink \/ TakeBootId \/ TakeShutdownId \/ BringUp
  \/ SaveStep \/ SaveDone \/ SaveFailed
  \/ Drained \/ Exit

DaemonNext ==
  \/ Process \/ LoopTakes
  \/ \E c \in Clients : Arrive(c) \/ Handle(c) \/ Disconnect(c)
  \/ Tick \/ Shutdown
  \/ Crash \/ PowerCut \/ Replug \/ DirectoryWrittenBack

Spec == DaemonInit /\ [][DaemonNext]_vars

-----------------------------------------------------------------------------

\* Two requests open water, never one: whatever reaches the loop that can open
\* an outlet, raise a setpoint or extend a session came on a session that an
\* earlier answer of this same boot had told, and that had not expired when
\* the request arrived (auth.rs, routes.rs; BOOT-07).
WaterTakesTwoRequests ==
  \A i \in DOMAIN queue :
    queue[i].op \in WATER =>
      /\ [session |-> queue[i].session, boot |-> issued.boot] \in heard
      /\ queue[i].admitted - queue[i].established < SESSION_TTL

\* A real port is open only while every operation the encoder can emit has a
\* captured fixture in the pinned set and every link of the system an attested
\* polarity, and no two links ever share a device, whatever is replugged
\* between validation and opening (gate.rs, factory.rs, resolve.rs).
RealPortsAreAttested ==
  \A port \in opened :
    /\ Backend(port.node) = "serial" =>
         /\ raw.gate.pin = {site.fixtures.digest}
         /\ TransmitOps \subseteq site.fixtures.captured
         /\ \A link \in ALL : Attests(raw.gate, link)
    /\ \A other \in opened : port # other => port.node # other.node

\* Every path out of the process once its links are assembled goes through the
\* drain that stops water; only a kill or a power cut takes it down without
\* (main.rs, serve: every failure path from here ends OFF).
EveryFailureEndsOff ==
  [][(phase \in {"assembled", "serving", "draining", "aborting"} /\ opened' = {})
       => (outcome' # {} \/ code' \in {"KILLED", "POWER"})]_vars

=============================================================================
