-------------------------------- MODULE Bounds --------------------------------
(***************************************************************************)
(* The limits on what may be asked for: the compiled-in clamps, the        *)
(* narrower ones a configuration file may add, and the checks a request's  *)
(* numbers pass before they become a setpoint, a steam length or a session. *)
(*                                                                         *)
(* Temperatures are the wire's: half degrees Celsius for a valve, half     *)
(* degrees Fahrenheit for steam.  A request names tenths of a Fahrenheit   *)
(* degree for a valve and whole Fahrenheit degrees for steam.  An optional *)
(* value is a set of at most one element.  Every check answers the set of  *)
(* values it lets through, empty for a refusal.                            *)
(***************************************************************************)
EXTENDS Integers

VALVE_FLOOR == 60
VALVE_CEILING == 85
STEAM_FLOOR == 180
STEAM_CEILING == 250
HARD_LIMIT == 1200
MIN_MINUTES == 1
MAX_MINUTES == 20

COMPILED ==
  [setpoint_ceiling |-> VALVE_CEILING, setpoint_floor |-> VALVE_FLOOR,
   max_session |-> HARD_LIMIT,
   steam_ceiling |-> STEAM_CEILING, steam_floor |-> STEAM_FLOOR,
   steam_max_minutes |-> MAX_MINUTES]

Lower(compiled, request) ==
  LET tighter == {v \in request : v < compiled}
  IN  IF tighter = {} THEN compiled ELSE CHOOSE v \in tighter : TRUE

Higher(compiled, request) ==
  LET tighter == {v \in request : v > compiled}
  IN  IF tighter = {} THEN compiled ELSE CHOOSE v \in tighter : TRUE

\* The tighter of each compiled-in constant and what was asked for.
Resolve(request) ==
  [setpoint_ceiling |-> Lower(VALVE_CEILING, request.setpoint_ceiling),
   setpoint_floor |-> Higher(VALVE_FLOOR, request.setpoint_floor),
   max_session |-> Lower(HARD_LIMIT, request.max_session),
   steam_ceiling |-> Lower(STEAM_CEILING, request.steam_ceiling),
   steam_floor |-> Higher(STEAM_FLOOR, request.steam_floor),
   steam_max_minutes |-> Lower(MAX_MINUTES, request.steam_max_minutes)]

\* A request that would widen a bound is refused rather than ignored.
Narrows(request) ==
  /\ \A v \in request.setpoint_ceiling : v <= VALVE_CEILING
  /\ \A v \in request.setpoint_floor : v >= VALVE_FLOOR
  /\ \A v \in request.max_session : v <= HARD_LIMIT
  /\ \A v \in request.steam_ceiling : v <= STEAM_CEILING
  /\ \A v \in request.steam_floor : v >= STEAM_FLOOR
  /\ \A v \in request.steam_max_minutes : v <= MAX_MINUTES

Ordered(bounds) ==
  /\ bounds.setpoint_floor <= bounds.setpoint_ceiling
  /\ bounds.steam_floor <= bounds.steam_ceiling

Clamp(value, floor, ceiling) ==
  CASE value < floor   -> floor
    [] value > ceiling -> ceiling
    [] OTHER           -> value

\* SteamMinutes::clamped: a configured zero still leaves one minute, because
\* zero on the wire would switch the generator's own shutoff off.
MinutesClamped(minutes) == Clamp(minutes, MIN_MINUTES, MAX_MINUTES)

SteamMaxMinutes(bounds) == MinutesClamped(bounds.steam_max_minutes)

-----------------------------------------------------------------------------

\* What a clamp did: what was asked, what came out and the bound it hit.
ClampRecord(requested, emitted, bound) ==
  [requested |-> requested, emitted |-> emitted, bound |-> bound]

WasClamped(record) == record.bound # "none"

\* ValveSetpoint::clamped, below the refusals of try_new.
ValveClamped(cx2) ==
  ClampRecord(cx2, Clamp(cx2, VALVE_FLOOR, VALVE_CEILING),
              CASE cx2 < VALVE_FLOOR   -> "floor"
                [] cx2 > VALVE_CEILING -> "ceiling"
                [] OTHER               -> "none")

\* SteamSetpoint::clamped: a half degree goes down before the range is looked at.
WholeDegree(fx2) == fx2 - (fx2 % 2)

SteamClamped(fx2) ==
  ClampRecord(fx2, Clamp(WholeDegree(fx2), STEAM_FLOOR, STEAM_CEILING),
              IF WholeDegree(fx2) < STEAM_FLOOR THEN "floor"
              ELSE IF WholeDegree(fx2) > STEAM_CEILING THEN "ceiling"
              ELSE IF WholeDegree(fx2) # fx2 THEN "step"
              ELSE "none")

SessionClamped(seconds) == IF seconds > HARD_LIMIT THEN HARD_LIMIT ELSE seconds

\* Cx2::to_fx2 and fx2_to_lossy_cx2, in the integers of the shipped firmware.
TOP == 255
Saturating(value) == IF value > TOP THEN TOP ELSE value

ToFx2(cx2) == Saturating((cx2 * 9) \div 5 + 64)
ToLossyCx2(fx2) == IF fx2 < 64 THEN 0 ELSE Saturating(((fx2 - 64) * 5) \div 9)

\* cx2_from_celsius and fx2_from_fahrenheit: a temperature in the file, in
\* hundredths of a degree, must be on the step the wire has.
FileCelsius(hundredths) == {b \in 0 .. TOP : 50 * b = hundredths}
FileFahrenheit(hundredths) == {b \in FileCelsius(hundredths) : b % 2 = 0}

\* Bounds::valve_setpoint and Bounds::steam_setpoint: the file's range first,
\* the compiled-in one last.
BoundedValve(bounds, cx2) ==
  {c \in {cx2} : /\ c \in bounds.setpoint_floor .. bounds.setpoint_ceiling
                 /\ c \in VALVE_FLOOR .. VALVE_CEILING}

BoundedSteam(bounds, fx2) ==
  {f \in {fx2} : /\ f \in bounds.steam_floor .. bounds.steam_ceiling
                 /\ f % 2 = 0
                 /\ f \in STEAM_FLOOR .. STEAM_CEILING}

-----------------------------------------------------------------------------

\* Cx2::fahrenheit, in tenths of a degree.
Fahrenheit(cx2) == 9 * cx2 + 320

\* ValveSetpoint::from_fahrenheit: the hottest step not above the request.
FromFahrenheit(requested) ==
  {c \in VALVE_FLOOR .. VALVE_CEILING :
     /\ requested >= Fahrenheit(VALVE_FLOOR)
     /\ requested <= Fahrenheit(VALVE_CEILING)
     /\ Fahrenheit(c) <= requested
     /\ c < VALVE_CEILING => requested < Fahrenheit(c + 1)}

\* setpoint in routes.rs: the file's ceiling is compared with what was asked,
\* its floor with the step that was chosen.
ValveSetpoint(bounds, requested) ==
  {c \in FromFahrenheit(requested) :
     requested <= Fahrenheit(bounds.setpoint_ceiling) /\ BoundedValve(bounds, c) # {}}

SteamSetpoint(bounds, requested) ==
  {f \in {2 * requested} : f \in 0 .. TOP /\ BoundedSteam(bounds, f) # {}}

Minutes(bounds, requested) ==
  {m \in {requested} : m \in MIN_MINUTES .. MAX_MINUTES /\ m <= SteamMaxMinutes(bounds)}

Session(bounds, seconds) ==
  {s \in {seconds} : s <= bounds.max_session /\ s \in 1 .. HARD_LIMIT}

=============================================================================
