# TLA+ models of the DTV+ controller service

The repository replaces the controller of a two-bathroom digital shower. Its core is the Rust
service under `controller/crates`: it talks to one Kohler *Saturn* mixing valve per zone over RS-485
and to one steam adapter over the DTV+ bus, and its first duty is that water (and steam) never runs
unless somebody asked for it within the last twenty minutes. These modules model the service from the
bytes on its buses to the exit code of its process, check the models with TLC, and prove what can be
proved of them with TLAPS.

File paths below are relative to `controller/crates` unless they start with `src/`.

## 1. The system

| Component | Source | State it keeps | Operations | Talks to |
|---|---|---|---|---|
| Safety kernel | `kdtv-safety/src/{kernel,event,grant}.rs` | `BootId`, one `LinkState` per link (cold, ready, running, latched) | `authorize_open`, `mark_ready`, `mark_stopped`, `on_event`, `acknowledge` | called by the machines and by the supervisor; answers with grants and lists of effects |
| Zone authority | `kdtv-safety/src/authority.rs` | a typestate that owns the port | `ready`, `start`, `pause`, `resume`, `latch`, `acknowledge` | only its tests; the promise a zone is held to |
| Zone machine | `kdtv-engine/src/zone.rs`, `budget.rs`, `kdtv-safety/src/session.rs` | phase, outstanding transaction, stale count, stagger plan, session, grant, cache | `step` on `Tick`, `Response`, `DecodeFailed`, `ResponseTimeout`, `Start`, `Command`, `Acknowledged`, `PortClosed`, `Safety` | synchronous: returns a `Step` with one transmission, effects, deadlines |
| Steam machine | `kdtv-engine/src/steam.rs` | phase, enrolment, believed state and length, outstanding transaction, session | the same events | the same |
| Saturn codec | `kdtv-proto/src/saturn` | none (a receive buffer) | `Encoder::encode`, `decode` | called by the supervisor |
| DTV codec | `kdtv-proto/src/dtv` | none (a receive buffer) | `encode`, `decode` | called by the supervisor |
| Supervisor | `kdtv-service/src/supervisor.rs` | one `ZoneRuntime` per zone, the steam runtime, the kernel, mode | `run` (one select loop), `on_deadline`, `on_report`, `on_command`, `stop_all`, `begin_drain`, `finish` | owns everything above; channels to pumps and callers |
| Port pump | `kdtv-service/src/port.rs` | failure count, back-off, grace | `pump`, `last_words` | a task per serial port; orders in, reports out |
| Service facade | `kdtv-service/src/service.rs` | handles, command queue, shutdown trigger | `start`, `ServiceHandle` calls | opens ports, spawns pumps and supervisor |
| HTTP API | `kdtv-api` | bearer token, session table | routes | queue of the facade |
| Configuration, units, transmit gate | `kdtv-config`, `kdtv-units`, `kdtv-proto/src/gate.rs` | none | `ValidatedConfig::load`, clamps, `resolve` | read once, at start-up |
| Hardware abstraction | `kdtv-hal` | the id file, the open ports | `resolve_distinct`, `FileIdStore`, the port factory | the operating system |
| Daemon | `kdtvd` | how far start-up has come | `check`, `serve`, `bring_up`, the drain, exit codes | everything above |
| Telemetry, tools and rig, browser application | `kdtv-telemetry`, `kdtv-emulator`, `src/app` | | | |

What makes it hard:

* **One bus, one transaction, no correlation.** A Saturn reply carries nothing of the request but a
  control byte, which two pairs of writes share. Everything about late, duplicated and abandoned
  replies rests on timing and on one counter. The steam adapter's acknowledgement says even less.
* **Two records of one link.** The kernel's `LinkState` and the machine's phase are changed by
  different calls, some before the other side has agreed.
* **Deadlines of several kinds in one tick.** Expiry, purge, retry, stagger and polls compete for
  one transmission per tick; a response timeout competes with the reply it waits for.
* **Faults arrive at any time**, from the wire, the port, the service itself; some close the port
  and some must not; replies read before the close come in after it.
* **Bytes arrive in pieces**, with noise before, after and inside them, into buffers that drop.
* **One biased loop, a pump per port, bounded queues between them.** Each waits for the other.
* **A restart remembers nothing but two counters**, and may find a valve open.
* **The device checked is not the device opened**: names are resolved when the file is validated.

What must be true, component by component:

* *Kernel*: water only under a grant from this boot's own authorisation; a latch only ends with the
  process; a fault reaches its own link and no other; every response closes the valve first.
* *Zone*: no outlet opens outside a session and a grant; solenoids one at a time; a zone reported off
  is off; kernel and machine agree; water is never opened on a bus whose wiring is in doubt; boot and
  sessions end; a healthy zone is left alone; the whole behaves as the zone authority.
* *Steam*: a stop is acknowledged before the link is given up; steam only in a session; every sequence
  ends.
* *Codecs*: what cannot be said must have no encoding; what is received does not depend on how reads
  cut it, and noise costs no more than it has to.
* *Supervisor and pumps*: deadlines are served whatever the bus says; a stop of everything reaches
  every link; what a shutdown reports as confirmed is; a stop that was queued is written before the
  port closes; a drain ends.
* *Daemon*: ports open only as the gate permits and never two links on one device; water takes a
  session told beforehand; no id is issued twice; no failed start-up skips the drain.

## 2. Modules

| Module | Models | Remarks |
|---|---|---|
| `KernelRules` | the kernel's ruling on one `LinkState` | shared by the next ones; pure operators |
| `SafetyKernel` | the kernel over all links, authorisations and grants | one action per public method |
| `ZoneAuthority` | the typestate | abstract specification |
| `SaturnCodec` | control bytes, the strict decoder's verdicts in their order, the encoder's phase and grant gates | frames are records, not bytes |
| `ValveBus` | the wiring of one bus, the valve, replies in flight, what the wire may do to them | from the emulator's `SaturnValveModel` and `WireFault` |
| `ZoneMachine` | one zone: machine, its link in the kernel, the supervisor's loop around it, over `ValveBus` | implements `ZoneAuthority` |
| `DtvCodec`, `SteamAdapter` | what the steam link may say and hear; the adapter, the generator and the wire | from the emulator's `SteamAdapterModel` |
| `SteamMachine` | the steam link, as `ZoneMachine` | over `SteamAdapter` |
| `PortPump` | the pumps, their wires, the two queues | |
| `Supervisor` | the loop over several links, drain and shutdown, over `PortPump` | machines reduced to what the loop sees |
| `ByteStrings` | what the loops of both codecs over a slice have in common; sums | recursive functions |
| `SaturnFraming`, `DtvFraming` | the bytes of a frame, and the decoder | over `ByteStrings` |
| `Receiver` | reads of any size into a bounded buffer, and the decode loop | over both framings |
| `Outlets`, `Bounds`, `Timings`, `ValveFaults`, `TransmitGate` | outlet table; limits and clamps; timing sets; error bytes; the gate | pure operators |
| `SaturnWire`, `SteamWire` | the bytes behind the two codecs' names, every refusal of the encoders, the directions | pure operators |
| `Configuration` | every rule of the file, in order, and what it hands on | pure operators |
| `Hardware` | resolving, hardening and opening devices | pure operators |
| `Sessions` | the session table of the API | pure operators |
| `IdStore` | the id file, a save in three steps, crash and power cut | state machine of its own |
| `Daemon` | the process: `Configuration`, `Hardware`, `Sessions` and `IdStore` together | implements `IdStore` |
| `MC...` | values and constraints for TLC | |
| `...Proofs` | the theorems | |

### ZoneMachine

An action is one event the supervisor takes off its loop, with everything `drive_zone` does about it
before the next one: `machine.step`, the kernel calls inside it, `apply_zone_step` (encode, transmit,
deadlines) and `apply_effect`. `on_deadline` becomes `Tick` and `ResponseTimeout`, `on_report` with
`feed_zone_bytes` becomes `Receive` (one frame at a time), `PortLost` and `PumpClosed`, `on_command`
becomes `Command`, and `escalate_shared` as it reaches one zone becomes `ServiceFailure`.

* `Option`s are a distinguished value (`NoTransaction`, `NoSession`, `NoStagger`, `NoAddress`).
* `Monotonic` instants are ages and countdowns, so that the state space is finite: `inflight.sent`,
  `inflight.total`, `session.ran`, `purgeLeft`, `tickIn`, `pacing`. `Elapse` lets one unit pass, but not
  while a deadline is due that the loop has not yet served (`served`).
* Outlet sets are numbers: the code opens cumulative prefixes of one set, so a set is its size.
* Temperatures, texts, notes, baseline drift and the cache's display fields are left out. A payload
  is good or `BAD`; what `BAD` condemns is what `absorb` and its helpers return an event for.
* `escalate` of a fault ends in `AllOff` then `Latch` inside one `apply`; only the all-off's
  transmission survives it, and then `ClosePort` is performed for the events that ask for it.
* `apply_zone_step` clears the receive buffer when a frame replaces an outstanding one. The buffer
  holds parts of frames only; frames still on the wire are not in it, and those are what `replies`
  holds.
* A port's pump reports what it read before it saw the close: `Escalate` keeps any prefix of `replies`.
* `on_tick`'s arms for Discovery, Identify and ConfirmOff with nothing outstanding have no action:
  `BootStepsAreOutstanding` says that no tick finds them, and `AllOffNeverWaits` proves it.

A request acts when it is transmitted; replies wait as long as the model likes and stay in order, as
on a half-duplex line. `LOSSY` lets the request or the reply vanish, `DUPLICATES` lets a reply come
twice, `FAULTY` lets the valve answer with an error, a NAK, a broken frame or a value outside its
table. `Buses` are the sets of addresses that may be wired. The valve may be found open at boot.
`heated` and `sinceOpen` are history: whether a setpoint reached the valve since it last closed,
and how long ago it last energised a solenoid.

`ZoneAuthority` is mapped onto machine and kernel together: a zone that is being discovered, purged
or whose stop is unanswered has not left the phase it was in for its owner, a latched one has lost
its link. A fault shared by all links latches the kernel while the port stays open, which the
typestate has no word for, so the refinement is stated for `~SHARED_FAULTS`.

### SteamMachine and SteamAdapter

One action per event of the loop again. The adapter holds an address or not, has a generator with an
operation state and a timer of its own, and answers status requests under the opcode the configuration
says. `trouble` says once per behaviour what the wire does: it loses, delays, garbles, refuses, errs,
carries a status that somebody else sent or was sent (`Stray`, which `steam_status` turns away before it
reads the payload), or its port or the whole service fails. Properties of a truthful wire are conditioned
on `trouble`, the others hold for all of it. `StoppingBeforeLatch` is the phase in which a link given up waits for its
stop to be answered.

`SteamOnlyInSession` has a second arm because of `on_command`: a setpoint or a duration is written as the
session stands (`steam.rs:984-1000`), and the loop may take the command at the very instant the session
runs out, ahead of the tick that ends it (the deadline has every other pass, `supervisor.rs:441-470`). If
the generator's own timer ran out with the session, that frame turns it on again until the tick, which
comes in the same instant and stops it.

### PortPump and Supervisor

A frame is `Off`, `Open` or `Ask`. A wire is good, silent, noisy, deaf (reads fail), mute (writes fail)
or gone, and a pump may panic. `PumpStep` takes an order, reads, fails, backs off, says its last words
and ends. `Supervisor` has each machine as phase, outstanding frame, retry and budget, enough for every
decision of the loop; which of a machine's possible frames comes next is a choice. `Deadline`,
`OnReport`, `Command`, `BeginDrain` are the arms of the select with its bias: a due deadline every other
pass, then reports, then the rest. `Finish`, `Discard`, `Exit` are `finish`. `BACKLOG` bounds how far a
pump falls behind before the model lets it catch up; the orders channel in the code is unbounded.

### Receiver

A script is a few frames and pieces of noise on one of the buses; `Feed` takes between one byte and
`CHUNK` of it, drops what does not fit, and decodes as `feed_zone_bytes` and `feed_steam_bytes` do: on a
valve bus each turn asks the machine anew what it expects (`supervisor.rs:257-263`, `705`), so a drain
chooses one of `AWAITINGS`, or nothing outstanding, for every turn. A sound frame that is not what is
expected is refused, and taken out of the buffer whole. `Clear` is `apply_zone_step` and its steam twin
emptying the buffer when a frame replaces an outstanding one (`supervisor.rs:1552-1568`, `1639-1641`);
`since` remembers where in the stream that was, and `found` has the frames taken out from there on.
Both decoders are written byte for byte from the code. `Reading` is independent of them: the sound frames
that stand in a string read as one whole, from left to right, told by what a frame is and not by how a
buffer is searched for one, nor by what was asked.

Every loop over a string is a value of `LeftToRight`: what the beginning of a string says, and what of it
is left to read. The theorem `Unfold` opens all of them one step at a time, provided that each step
leaves less. The decode loop itself is the function `loop` in `Drained`, one `Turn` after another.

### Daemon

The process is one thread of tasks that hand over at awaits, so what happens between two awaits is one
action, and while an id is saved (blocking, under a lock) nothing else runs. `Validate`, `OpenStore`,
`OpenLink` (one port each), `TakeBootId`, `BringUp`, `LoopTakes`, `Shutdown`, `TakeShutdownId`,
`Drained`, `Exit` are the life of `serve`; `Arrive`, `Handle`, `Disconnect` are a request; `Crash`,
`PowerCut` and `DirectoryWrittenBack` are the world's. A site is a file, a machine and the embedded
fixtures; `Replug` changes the machine under a running process. `IdStore` has `file`, what a new process
reads, and `disk`, what a power cut leaves.

## 3. Runs

| Run | Question | Bounds | Distinct states |
|---|---|---|---|
| `kernel` | authorisation, latching, scope and order of effects | 2 zones with different outlets, steam, 2 interchangeable commands (symmetry), one restart; one fault of each scope | 129,693 |
| `zone_boot` | boot with everything going wrong: off is off, kernel and machine agree, the sequence ends | 0 to 2 valves, 3 addresses, the full list of boot reads, all faults, two attempts, no start; `FairSpec` | 376,668 |
| `zone_session` | sessions and commands on a lossy bus: who opens water and when; the zone authority implemented; sessions end | 2 outlets, all five commands, session of 5 units, `FairSpec` | 211,343 |
| `zone_lossless` | what may be believed about the valve, one outlet at a time and heated first, and that a healthy zone is left alone | up to 2 valves, late but complete replies, stops at any time, in the boot too, a purge of 2 units, full poll rotation, two session lengths | 615,381 |
| `steam` | steam only in a session, off before ready or latched; discovery, a stop for good and an expired session end | 3 devices, generator found off or in a cleaning cycle, five kinds of wire, stray statuses among what they carry, three sends, requests shorter and longer than the cap, `FairSpec` | 236,199 |
| `service` | an escalation reaches the valve, deadlines served, drains end, dead pumps noticed | one zone, every way a wire or pump can break, `FairSpec` | 79,423 |
| `shutdown` | what the outcome of a shutdown is worth | a zone that may fall silent, and steam; starts, a stop of everything, the trigger | 1,100,373 |
| `framing` | cuts and noise | two or three of 8 or 9 pieces on each bus, reads of every length, any request outstanding at each turn, clears at any time | 271,000 |
| `daemon` | what is opened, who opens water, ids, failing starts | 12 sites, 3 states of the adapters, 2 clients, 1 session, 2 starts, 4 ids in blocks of 2 | 395,727 |
| `stop_in_boot`, `steam_latched`, `lossy_stop` | see "What the models found" | | |

Why the bounds suffice. *Zone.* Two outlets make a stagger plan that has a first, a last and a gap between
them. A session of 5 units is longer than the plan and a retry, and ends while either is under way.
`TICK` > `RESPONSE`, as in the defaults (525 ms and 320 ms), with the least values that leave a
moment before, at and after each deadline; `zone_lossless` uses 3 and 2 so that an answer can come
early, late and in the last instant. `ATTEMPTS` = 2 has a first, a last and, with `CEILING`, both
ways to spend a budget. `STALE_MAX` = 1 and `BUS_CAP` of 1 or 2 hold one late reply and the reply
that follows it. That is enough for every property of these runs but one on a lossy bus: with a queue of
three `OneSolenoidAtATime` fails there (section 4), and no shorter queue shows it. The others are
proved for every `BUS_CAP` (section 5), except that `WaterAfterAWholeBoot` needs a queue as long as the
range of addresses: a shorter one would lose answers, which a bus that loses nothing does not. Three
addresses include the first, a middle and the last of the range. `zone_lossless` cuts nothing
away: `MCZoneOrderly` remembers whether a stop has cut the boot short (`whole`) and whether everything has
gone in order (`orderly`), and three properties ask for one or the other; each is there because of
something found below.
*Steam.* `RETRIES` = 2 gives three sends, `SESSION_CAP` = 2 a session that can end during any of them.
The five sets of `Wires` put together what the machine treats alike; one set at a time, because two
troubles of different kinds on one wire add only their interleaving.
*Supervisor.* A full queue is one report; `MAX_FAILURES` = 2 has a failure that is not the last;
graces of one and two units let a pump be in time or not. `service` needs every kind of break, so it has
one link; `shutdown` needs two links of different kinds, so it has one kind of break, the one that leaves
a link unconfirmed beside one that is confirmed.
*Framing.* One or two bytes of data let a payload hold half a sync pair, a whole one, and each reserved
byte; the buffers hold the longest frame and part of another (14 bytes of 8, 20 of 14; in the code 64 of
20 and 128 of 42), and a read is longer than what is left, so that bytes are
dropped. What is outstanding is nothing or a poll whose reply is one of the pieces: each of the other frames is then refused at one turn and taken at
another. *Daemon.* The sites are right, or wrong in one respect each, so every
refusal is reached on its own. One start follows another after every way to end; a block of two
ids has one that costs a save and one that does not; two clients race for one place in the queue, one
session in the table.

`service`, `shutdown` and `daemon` do not look for deadlocks because the process really
exits, `framing` because a script ends.

Every property has a mutant, an operator beside the one it changes, that TLC must find to violate it
(`PROJECT.json`, "mutants"). The type invariants of modules other than `SafetyKernel` are not among the
runs' properties: they say what the variables hold, and the properties would fail first.

### Fairness

* `ZoneMachine`: weak fairness of `Tick` and `ResponseTimeout`: the select loop serves a deadline that
  is due. Strong fairness of `Elapse`: time passes however often the loop turns. A tick may leave a
  deadline in the past (a session that has run out, until its all-off is acknowledged; a step of the plan
  behind an outstanding frame), and the loop may serve it again in the same instant, as the code's may;
  `served` says that it has been served once, so the clock need not wait for a deadline that stays.
  Nothing is asked of the valve, the bus, the port or the operator. `BootSettles` is checked where nobody commands a stop (`zone_boot`): an operator who stops the zone again in each response
  window restarts the confirmation each time, so with him nothing settles. `SessionEnds` is checked with
  stops (`zone_session`): one leaves the phases it is about at once.
* `SteamMachine` (`steam`): the same, and weak fairness of `Receive`: reports come before commands in the biased
  select, so a frame that has arrived is taken. What keeps a sequence from ending is named in each property: an
  operator who stops the link over and over (`DiscoverySettles`, `StopIsGivenUp`), a session that runs out while
  a link is being stopped for good (`StopIsGivenUp`), a wire that answers with noise for ever
  (`ExpiredSessionStops`). `StopIsGivenUp` covers a link degraded while steam is on, until its session has run out;
  `DiscoverySettles` a generator that is found producing.
* `Supervisor`: weak fairness of `Loop`, of each `Pump` and strong fairness of `Elapse`: all tasks
  share a runtime that polls every one that can go on. `Loop` is one action with the arms of the select
  in it, so fairness does not decide which arm runs: the order in the code does, and a mutant that drops
  the deadline's turn ahead of the reports starves it. No client has to ask, and no wire has to work.

## 4. What the models found

Three are runs that TLC ends with a violation:

* **A stop cuts the boot short** (`stop_in_boot`). A stop is taken in every phase before ReadyOff, and what
  follows it is ConfirmOff (`zone.rs:1472`): no further address is probed and nothing is identified. With two
  valves on the bus, one of them acknowledges the all-off, the zone is ReadyOff, and a start waters from it,
  against `zone.rs:27-28` ("Discovery refuses to proceed if more than one valve answers") and line 37
  ("Only then `ReadyOff`"). `WaterAfterAWholeBoot` says what remains: a zone no stop cut short in its boot
  waters from the one valve there is.
* **A latched steam link becomes ready** (`steam_latched`). In StoppingBeforeLatch an operator's stop is an
  ordinary stop (`steam.rs:1036`): it takes the place of the one that was to end in Unavailable, and its
  acknowledgement (771-783) makes the machine ReadyOff with the link latched in the kernel. An expired
  session does the same from the tick (510). `steam.rs:94-101` and 322-325 say that such a link
  reaches Unavailable. The kernel still turns a start away. And on a silent wire an expired link is never
  given up: each tick sends the ordinary stop again, with a fresh count of failures (510, 1127), which is the
  case `StopIsGivenUp` leaves out.
* **A stop can be confirmed by the wrong frame** (`lossy_stop`). Outlet writes and all-offs echo the
  same control byte. A late reply to an outlet write that a stop abandoned, with the all-off itself
  lost, makes the zone ReadyOff with water running, against `kdtv-service/src/supervisor.rs:221-224`. On
  a bus that loses nothing the property holds, however late the replies (`zone_lossless`).

Seen while modelling, without a run:

* A late echo advances the stagger plan. The plan moves on when an outlet write is acknowledged
  (`zone.rs:1089`), and any echo of the byte acknowledges it. A zone is stopped, stopped again
  and started twice while its replies are late: the setpoint of the first session and its second all-off
  answer the new session's setpoint and its first outlet write, which was lost; the second write then opens
  two outlets at a valve with none open, against `zone.rs:463` ("energised one at a time, 500 ms apart,
  rather than together"). It takes a bus that loses and a queue of three late replies. On a bus that loses
  nothing it cannot happen, however late the replies: the write that is acknowledged too early has been
  obeyed all the same (`OneAtATime`).
* A failed start-up hides an unconfirmed off. When `bring_up` fails, `serve` drains and returns the bring-up
  error, with the drain's outcome only in its text (`kdtvd/src/main.rs:287`), so the process ends with the code of a
  failed start although a link did not confirm off; lines 96-99 give that outcome a code of its own.
* A silent valve is never given up after an expiry. `on_tick` escalates `SessionExpired` on every tick
  (`zone.rs:752`) until an all-off is acknowledged, and every escalation sends a new one with a fresh
  budget: the zone stays in ConfirmOff, without the operator message `zone.rs:34-36` promises. It keeps
  sending the all-off, so this fails towards closed.
* The reply of an abandoned poll latches a healthy zone. `zone.rs:1467-1469` expects it and means to
  ignore it once, but the count is looked at only when nothing is outstanding (`zone.rs:964`).
* A Saturn error answer is reported as a malformed frame, because its length is judged first
  (`decode.rs:403`); the test at line 738 says otherwise by its name. The fault code the kernel is told of
  is a low byte and can be 0.
* A session's openings can be closer together than the configured spacing when a poll holds up the first
  (`zone.rs:482`: the deadlines are absolute); a setpoint given up for a pause is not written before the
  resumed zone opens an outlet on a lossy bus.
* The steam engine degrades its link for any error bit and never asks `requires_immediate_off`. A
  latched link is acknowledged through `ServiceHandle::acknowledge`, which no route of the API calls.
* A tick at its floor of 150 ms cuts a retry train after two or three of its five sends
  (`AFastTickCutsTheTrain`), where `budget.rs` has them sent one a tick.
* The configuration asks a polarity note of the links that are configured and the gate of all three, so
  a claim without steam passes `check` and is then never granted.
* An id store that cannot save refuses a stop too, since every command needs an id first; water then ends
  with its session, the loop or the process.
* `ExecReload` sends a signal the daemon has no handler for; the comment "Identity first, and durable
  before anything is opened" is about a point where `Service::start` has opened the ports already.

## 5. Proofs

TLAPS proves, for all values of the constants:

* `KernelRulesProofs`: lemmas about one ruling: typed, Running only by authorisation, a latch holds.
* `SafetyKernelProofs`: `Typing`, `FreshGrants`, `LatchesHold`, `FaultsStayInScope` and `AllOffLeads`, the
  five properties of the `kernel` run, for any number of zones, commands, outlets and restarts. From
  `SafetyKernelAssumption` only (steam is not a zone; the configuration maps zones to outlets). `BlastRadius` has
  both halves: a fault of one link leaves the others as they were, and one of the service spares none.
  `TypeOK` is inductive by itself, and the other four take it as their invariant. `FreshGrants` is inductive
  with it and rests on the guard `token.boot = boot` and on `NothingElseRuns`, that only an authorisation
  leads to Running; the other three follow from the shape of single steps and `LatchHolds`.
* `ZoneMachineProofs`, for any wiring, timings, budget, set of commands and behaviour of the bus:
  `KernelAndMachineAgree`, `GrantsEndWithSessions`, `AllOffNeverWaits`, `EncoderAlwaysAccepts` about states,
  `WaterNeedsASession` and `LatchedZonesStay` about steps, and `TheZoneIsAnAuthority`, the refinement, for
  `~SHARED_FAULTS`. From `ZoneMachineAssumption` and `ValveBusAssumption` (the addresses probed are a range,
  the boot reads and polls are reads, timings and budgets are positive).
* `ZoneMachineProofs` again, about the machine and its valve together, each with what it asks of the bus, for any
  number of outlets, timings, budget, queue and delay:
  `PurgesRunOut` and `BootEndsClosed` (where nothing starts, off means closed) on any bus;
  `OffIsClosed`, `HeatBeforeWater`, `OneAtATime` on a bus that loses and falsifies nothing (`Honest`), late
  and repeated replies included; `OneValveWaters` where replies are not repeated either (`Prompted`) and
  the queue has room for one from each address (`Room`); `NoFalseAlarm` and `CacheIsTrue` for the orderly
  zone of `MCZoneOrderly` with a port and a service that do not fail. `OneValveWaters` states
  `WaterAfterAWholeBoot`, that is, unless a stop cut the boot short: with such a stop water may come from one
  of two valves (section 4). The last two have the same condition in `orderly`.
* `SteamMachineProofs`, for any adapter, wire, timings, budget and commands: `KernelLatchesFirst`,
  `SteamEncoderAccepts`, `SteamOffBeforeReady`, `SteamTurnsOnInSession`; with `SteamTyping`, all four
  safety properties of the `steam` run.
* `SupervisorProofs`, for any set of links, budget, grace and queue length: `SupervisorEscalates`,
  `SupervisorOutcome`, `SupervisorTellsAll`, the safety properties of `service` and `shutdown`.
* `DaemonProofs`. Of the configuration: no file widens a compiled-in bound; a setpoint is never hotter than
  what was asked for or allowed; steam requests stay in range; clamps say what they did; conversions do not
  heat; outlets commanded read back as the slots asked for. Of the id store: `IssuedIdsAreDurable` and
  `IdsAreNeverReissued`, for any block size and any number of crashes, failed saves and power cuts. Of the
  daemon: `TheDaemonKeepsToItsStore` (the daemon implements `IdStore`, whose theorems it inherits in
  `TheDaemonNeverReissues`), `OnlyAttestedPortsOpen`, `TheDrainComesFirst` and `WaterIsAskedForTwice`, for any
  sites, machines, clients, requests, number and life of sessions.
* `ReceiverProofs`, for any scripts, cuts into reads, number of turns, lengths and buffers that hold one
  frame, for whatever is awaited at each turn and clears at any time: `CutsDoNotMatter`, `NothingWaitsWhole`, `OnlyABurstIsDropped` and
  `NoiseHidesOneFrame`, the four properties of the `framing` run; and `FramesAreReadBack`, that what either
  encoder assembles, on a valve bus for this master, is read as that frame whatever bytes follow. From the three assumptions of `Receiver`
  (scripts are frames an encoder may build, and noise; buffers hold the longest frame; a read and the turns are not
  empty).
* `WireProofs`: no operation has a denied byte, and no frame asks for a power clean; the directions of the two
  buses do not overlap; the names `SaturnCodec` and `DtvCodec` compare are told apart exactly when their bytes
  are; their `Encodable` is what the full list of refusals leaves; error bytes are never health; budgets
  cover the train whenever the deadline is at most a tick.

How the zone's argument goes. `KernelAgrees` and `GrantHasSession` are not inductive: what an answer does
to the phase depends on the job it answers, so the invariant `Control` adds `JobFitsPhase`, which says
which jobs and writes can be outstanding in which phase, a grant behind every Running in the kernel,
and a positive limit to every session (so that time passing never makes one look like none). A fault
establishes `Control` whatever went before (`EscalationIsSafe`); every other action keeps it, one lemma
per group of actions. `StepsInRange` is a second invariant, proved first and by itself: the boot reads and
the poll rotation stay inside their lists, so what the machine sends on its own accord is a read. The two
theorems about steps classify every action by what it can do to the valve: `OthersOnlyClose` says all but a
retry and the next step of the plan leave the outlets or close them all, `WhatOpens` says what holds when
those two open one, and `EscalationCloses` that a latched zone starts nothing. The refinement adds
`WarmGrant`, that a grant is never held over a cold kernel, and shows each
action to be one step of the authority or none.

How the valve's goes. What the machine believes rests on replies that may be late, so every invariant here
says something of the frames on their way. `Fitting` (a job asks for its own operation, at the zone's
address) and `Answering` (a reply to an outlet write is on its way only from the zone's own valve, after
it was told to confirm off) hold on any honest bus. `Obeyed` is what the valve did for it: `ClosedWhenOff`, from the
first all-off to the next outlet write the valve is closed, whichever all-off the acknowledgement
answered; and `PlanFollowed`, a watering valve was heated and has done each step of the plan that
is past, whichever write was acknowledged. Honesty is needed where a request acts before it is answered;
that one echo passes for another does not matter then, and does on a lossy bus. `OffIsClosed`,
`HeatBeforeWater` and `OneAtATime` follow. `PurgeRuns` ties the purge to the time since the last opening.
`NothingOpens` replaces honesty where nothing is opened: an echo on its way says the valve has closed, and
nothing opens it again. `Sole` counts: in `Scanning` the valves at probed addresses are at most those found
and the replies still on their way, so a second valve is found or leaves an answer too many, and
`AnswerTooMany` follows that one to the phase where it fits nothing and latches the zone. `InOrder`
is exactness: one valve, one reply on its way and that the awaited one, no retry, an exact scan and cache.

How the steam link's goes. `Control` says which frame can be outstanding in which phase and that a phase
entered by a latch finds it in the kernel; `Enrolling` what enrolment, session and the stop's flag say of
each other. Both hold on every wire. On a truthful wire `Heard` says that whatever is on its way and
reports the generator off is still true, and `Steaming` that a machine that means to be on is Running
with a session, that one that counts itself ready, stops or has given up has its generator off, and
what is outstanding between the two. `Truth` is their conjunction; a wire that turns untruthful keeps the first two.

How the supervisor's goes. `Inv` has one conjunct per link and part: `LinkOK` (a machine sends what
its phase allows, the order to close is the last), `PumpOK` (what a pump says of itself is true), `BootOK`, `OffOK` (a good
link believed off is `Shut`: closed, or with an all-off behind its last opening among its orders),
`ZoneOK` (a latched zone's all-off is before a live pump); `OutcomeOK` and `GoneOK` are about the end. Each
arm of the loop is a step of one link by `Became` or leaves it `Alike`; each step of a pump disturbs
one link.

How the store's goes. `NeverReissued` is about steps and needs that what was issued is at most what is
durable. `IdInv` is `DurableFirst` with `BehindTheFile` (neither what was issued nor a store's memory is ahead of the file), `OneOfEach`
(at most one store and one save), `StoreInv` (an open store has issued no more than its block, and an id it
issues from memory alone was on the disk before) and `SaveInv` (where a save has got to says which of file and disk have its counters).

How the daemon's goes. `OnlyAttestedPortsOpen` follows from `PortInv`: the authority is what the gate
grants this site, validation bound every link to a node of its own, and an open port is a link's, at the
node it was bound to and with the gate's permission. A port is opened by the node that was bound
and not by its name: a replug changes what is behind a node, and never gives one node to two links. `TheDrainComesFirst` is about steps: every action that leaves the
phases with open links is the drain, its exit, or a kill. `WaterIsAskedForTwice` has `SessionInv`: the table's order is
the order its sessions were drawn and established in (`TableOK`), so what `Expire` leaves has not
expired; whoever was told of a session that is live was told by this boot (`ToldThisBoot`), because ids
are not drawn twice and a process starts with an empty table; and what a handler holds or the queue has
is vouched for, from its arrival to the loop. A boot id comes only to an API that has not started
(`SavesInTheirPhase`, `NothingEarly`), so nothing that was told to a boot is asked of another.

How the receiver's goes. `ChunkingDoesNotMatter` is not inductive: it says nothing of the bytes of half a
frame in the buffer. `NothingLost` says it for every string x that may come next: the frames found since the
last clear, and the reading of the buffer with x behind it, are the reading of the bytes received since with
x behind them. With it go `Shapes`, `Lengths` (a frame taken out leaves that much less to hold) and `Settled` (when the turns were not spent, what is left says
nothing and is shorter than a frame). What a read does to it follows from what one call of `decode` owes to the
reading, `Faithful`: it takes out the first frame, whether it hands it over or refuses it, or passes over what says
nothing, or waits with less than a frame that says nothing yet, each with any x behind, and whatever it was
told to expect. `ClearKeeps` is the empty buffer behind a clear. `SaturnDecodes` and `DtvDecodes` prove that of the two decoders, from facts
about each bus: on a valve bus the first five bytes decide the length and that many decide the frame
(`SaturnIsStable`); on the steam bus the scan stops at a delimiter, comes to the end, or hangs on an escape
(`ScanEnds`), and more bytes change only the last two. `TurnKeeps` and `DrainedKeeps` carry it
through the loop. `NoiseHidesOneFrame` takes the reading of the whole script and goes through the noise: where a
frame or a rejection in it ends, the reading goes on with less noise; where it runs out, it either comes to the first SOF, or
hangs on an escape that takes this SOF in and stops at the first frame's EOF, in front of the second.

The provers cannot use an induction theorem whose parameter is an operator, and none is needed here: a set
stands for the predicate. `Induction` says that a set of numbers that holds n whenever it holds
everything below n is Nat, from the library's fact that < is well-founded; `StringInduction` says the same of
strings by their length; `Recursion` and `AReadingExists` give the recursive functions their values, and
`DrainedUnfolds` and `JoinsUnfold` do so for the decode loop and for `FlattenSeq` of the community modules.

Every safety property and every action property of the runs is so proved for all constants. Model-checked
only: liveness, which needs fairness and ENABLED (`BootSettles`, `SessionEnds`, `StopIsGivenUp`,
`DiscoverySettles`, `ExpiredSessionStops`, `DeadlinesAreServed`, `DrainEnds`, `GonePumpsAreNoticed`).

## 6. Not modelled, and why

* *Telemetry*: records and their redaction; nothing reads them back.
* *Published state*: snapshots, event subscriptions, the systemd watchdog and the lateness report.
  They leave the loop and do not come back.
* *Input and output*: serial settings, the clock, HTTP, TOML, argument parsing, logging, the texts of
  errors and of the API.
* *Payload fields no decision reads*: temperatures in a status, firmware versions, serial numbers,
  calibration, capture mode and the fixtures themselves.
* *Emulator beyond the wire's behaviour*: the water's temperature, the valve's own runtime timer and its
  address management; the scenario runner.
* *Developer tools, packaging, browser application*: not part of the running service, which trusts
  none of them.

Not reached by a run though modelled: `BootsExhausted` needs more starts than ids, and the branch of
`TakeShutdownId` that has no id left needs a command queue longer than the run's.

Of what is modelled, these would come next: `Supervisor` with the detailed machines in place of the
reduced ones, one zone at a time, as a refinement; what a lossy bus still guarantees of the
stagger plan; a `Supervisor` run with two zones sharing a fault.
