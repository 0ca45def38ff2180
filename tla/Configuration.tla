---------------------------- MODULE Configuration ----------------------------
(***************************************************************************)
(* The configuration file: every rule it must satisfy, in the order they   *)
(* are applied, and what a file that satisfies them says.                  *)
(*                                                                         *)
(* A raw file is a record whose optional parts are sets of at most one     *)
(* element.  A port is [scheme, name]; the scheme is the prefix of the     *)
(* path, "placeholder" the one pseudo-terminal name that stands for none.  *)
(* The machine says which node each name leads to and who may read the     *)
(* credential.                                                             *)
(***************************************************************************)
EXTENDS Bounds, Outlets, TransmitGate

TTL_CEILING == 3600
TICK_FLOOR == 150
RETRIES_MAX == 5
UNSCALED == 100             \* hundredths: SessionScale is a fraction

ZONES == {"zone1", "zone2"}
Production(raw) == raw.profile = "production"

\* PortPath::parse.
ParseError(port, raw) ==
  CASE port.scheme = "tty"                                       -> {"UnstablePortPath"}
    [] port.scheme = "other"                                     -> {"UnknownPortScheme"}
    [] port.scheme \in {"pty", "placeholder"} /\ Production(raw) -> {"PtyUnderProduction"}
    [] OTHER                                                     -> {}

BenchError(raw) ==
  IF raw.bench = {} THEN {}
  ELSE IF Production(raw) THEN {"BenchTableUnderProduction"}
  ELSE IF \E scale \in raw.bench : scale \notin 1 .. UNSCALED THEN {"SessionScaleOutOfRange"}
  ELSE {}

\* build_zone and ZoneConfig::build.
ZoneError(zone, raw) ==
  LET z == raw.zone[zone]
  IN  IF ParseError(z.port, raw) # {} THEN ParseError(z.port, raw)
      ELSE IF \E i \in DOMAIN z.outlets : z.outlets[i].slot \notin SLOTS THEN {"SlotOutOfRange"}
      ELSE IF z.master \notin {0, 16} THEN {"MasterAddress"}
      ELSE IF z.outlets = <<>> THEN {"NoOutlets"}
      ELSE IF ~ Buildable(z.valve, z.outlets) THEN {"Outlets"}
      ELSE {}

SteamError(raw) ==
  UNION {IF \E p \in s.port : ParseError(p, raw) # {}
           THEN UNION {ParseError(p, raw) : p \in s.port}
         ELSE IF s.enabled /\ s.port = {} THEN {"SteamEnabledWithoutPort"}
         ELSE IF s.enabled /\ (\/ \E ms \in s.tick_ms : ms < TICK_FLOOR
                               \/ \E n \in s.retries : n > RETRIES_MAX) THEN {"SteamTiming"}
         ELSE {} : s \in raw.steam}

SteamEnabled(raw) == \E s \in raw.steam : s.enabled

\* ValidatedConfig::links, in order: steam only when it is enabled.
Links(raw) == IF SteamEnabled(raw) THEN <<"zone1", "zone2", "steam">> ELSE <<"zone1", "zone2">>

PortOf(raw, link) ==
  IF link \in ZONES THEN raw.zone[link].port
  ELSE CHOOSE p \in (CHOOSE s \in raw.steam : TRUE).port : TRUE

\* The ports whose devices must differ: a disabled steam port is one of them.
NamedPorts(raw) ==
  [link \in ZONES \cup (IF \E s \in raw.steam : s.port # {} THEN {"steam"} ELSE {}) |->
     PortOf(raw, link)]

\* bindings_of: the ports of the links; one that is not driven is not bound.
BindingPorts(raw) == [link \in {Links(raw)[i] : i \in DOMAIN Links(raw)} |-> PortOf(raw, link)]

Placeholder(port) == port.scheme = "placeholder"

Present(port, machine) == ~ Placeholder(port) /\ machine.target[port.name] # "absent"

\* check_ports_distinct: one device to a link, by name and by what the names
\* lead to.  Two placeholders are two links the rig has yet to bind.
PortsError(raw, machine) ==
  LET ports == NamedPorts(raw)
      clash(a, b) ==
        /\ ~ Placeholder(ports[a]) /\ ~ Placeholder(ports[b])
        /\ \/ ports[a] = ports[b]
           \/ /\ Present(ports[a], machine) /\ Present(ports[b], machine)
              /\ machine.target[ports[a].name] = machine.target[ports[b].name]
  IN  IF Production(raw) /\ \E l \in DOMAIN ports : ~ Present(ports[l], machine)
        THEN {"PortAbsent"}
      ELSE IF \E a, b \in DOMAIN ports : a # b /\ clash(a, b) THEN {"DuplicatePort"}
      ELSE {}

GateError(raw) ==
  IF ShapeHolds(raw.gate, ZONES \cup (IF SteamEnabled(raw) THEN {"steam"} ELSE {}))
  THEN {} ELSE {"Gate"}

ApiError(raw, machine) ==
  IF ~ raw.api.loopback THEN {"ApiBindNotLoopback"}
  ELSE IF raw.api.session_ttl \notin 1 .. TTL_CEILING THEN {"ApiSessionTtl"}
  ELSE IF machine.credential = "absent" THEN {"TokenFileMissing"}
  ELSE IF machine.credential = "world" THEN {"TokenFileWorldReadable"}
  ELSE {}

LoggingError(raw) ==
  IF raw.logging.directory = "" THEN {"LoggingDirectoryEmpty"}
  ELSE IF raw.logging.max_total_mb = 0 THEN {"LoggingBudgetZero"}
  ELSE {}

BoundsError(raw) ==
  IF ~ Narrows(raw.bounds) THEN {"BoundWiden"}
  ELSE IF ~ Ordered(Resolve(raw.bounds)) THEN {"RangeInverted"}
  ELSE {}

\* ValidatedConfig::validate: the first rule that fails names the error.
Errors(raw, machine) ==
  <<BenchError(raw), ZoneError("zone1", raw), ZoneError("zone2", raw), SteamError(raw),
    PortsError(raw, machine), GateError(raw), ApiError(raw, machine), LoggingError(raw),
    BoundsError(raw)>>

ConfigError(raw, machine) ==
  LET failing == {i \in DOMAIN Errors(raw, machine) : Errors(raw, machine)[i] # {}}
  IN  IF failing = {} THEN {}
      ELSE Errors(raw, machine)[CHOOSE i \in failing : \A j \in failing : i <= j]

\* scaled_max_session: in hundredths, so that a scaled second is exact.
ScaledMaxSession(raw) ==
  LET scale == IF raw.bench = {} THEN UNSCALED ELSE CHOOSE s \in raw.bench : TRUE
  IN  Resolve(raw.bounds).max_session * scale

=============================================================================
