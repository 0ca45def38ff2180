------------------------------- MODULE MCDaemon -------------------------------
(***************************************************************************)
(* Values of Daemon's constants for TLC: files that are right and wrong in *)
(* one respect each, and the machines they are installed on.               *)
(***************************************************************************)
EXTENDS Daemon

Anyone == Permutations(Clients)

PTY == {"pts1", "pts2"}
OPS == {"outlets", "stop"}

Port(scheme, name) == [scheme |-> scheme, name |-> name]

OneOutlet == <<[slot |-> 1, wire_outlet |-> 0, status_index |-> 1]>>

Zone(port) == [port |-> port, valve |-> "Dtv6Port", master |-> 0, outlets |-> OneOutlet]

Unbounded ==
  [setpoint_ceiling |-> {}, setpoint_floor |-> {}, max_session |-> {},
   steam_ceiling |-> {}, steam_floor |-> {}, steam_max_minutes |-> {}]

\* The rig: pseudo-terminals, no steam, an emulator-only gate.
Rig ==
  [profile |-> "development", bench |-> {50},
   zone |-> [zone1 |-> Zone(Port("pty", "z1")), zone2 |-> Zone(Port("pty", "z2"))],
   steam |-> {}, gate |-> EmulatorOnly,
   api |-> [loopback |-> TRUE, session_ttl |-> 1],
   logging |-> [directory |-> "logs", max_total_mb |-> 1],
   bounds |-> [Unbounded EXCEPT !.setpoint_ceiling = {80}]]

Noted(links) == [link \in links |-> "noted"]

Claim(links) ==
  [scope |-> "real-bus-attested", capture |-> {"named"}, pin |-> {"set1"},
   polarity |-> Noted(links)]

\* The house: three converters by id, and the whole claim.
House ==
  [Rig EXCEPT !.profile = "production", !.bench = {},
     !.zone = [zone1 |-> Zone(Port("by-id", "a")), zone2 |-> Zone(Port("by-id", "b"))],
     !.steam = {[enabled |-> TRUE, port |-> {Port("by-id", "c")}, tick_ms |-> {600},
                 retries |-> {}]},
     !.gate = Claim(ALL)]

Closed == [House EXCEPT !.gate = EmulatorOnly]
NoSteam == [House EXCEPT !.steam = {}, !.gate = Claim(ZONES)]
Widened == [Rig EXCEPT !.bounds.max_session = {HARD_LIMIT + 1}]
Unstable == [House EXCEPT !.zone["zone1"] = Zone(Port("tty", "a"))]
Doubled == [House EXCEPT !.zone["zone2"] = Zone(Port("by-path", "a"))]
HalfClaimed == [Rig EXCEPT !.gate.pin = {"set1"}]

Adapter(n) == [usb |-> n, identity |-> n, driver |-> "ftdi_sio"]

Fitted ==
  [target |-> [z1 |-> "pts1", z2 |-> "pts2", a |-> "usb0", b |-> "usb1", c |-> "usb2"],
   usb |-> [usb0 |-> Adapter(1), usb1 |-> Adapter(2), usb2 |-> Adapter(3)],
   tree |-> "readable", low_latency |-> {"usb0", "usb1", "usb2"},
   credential |-> "owner", token |-> "usable"]

Unplugged ==
  [Fitted EXCEPT !.target["b"] = "absent",
                 !.usb = [usb0 |-> Adapter(1), usb2 |-> Adapter(3)]]
Swapped == [Fitted EXCEPT !.target["a"] = "usb1", !.target["b"] = "usb0"]
Clones == [Fitted EXCEPT !.usb["usb1"].identity = 1]
GroupReadable == [Fitted EXCEPT !.credential = "group"]

Captured == [digest |-> "set1", captured |-> OPS]
Documented == [digest |-> "set1", captured |-> {"stop"}]

Installed(toml, where, fixtures) == [raw |-> toml, machine |-> where, fixtures |-> fixtures]

AllSites ==
  {Installed(Rig, Fitted, Documented), Installed(House, Fitted, Captured)}
  \cup {Installed(House, Fitted, Documented), Installed(House, Unplugged, Captured),
        Installed(House, Clones, Captured), Installed(Rig, GroupReadable, Documented)}
  \cup {Installed(toml, Fitted, Captured) :
          toml \in {Closed, NoSteam, Widened, Unstable, Doubled, HalfClaimed}}

Plugs == {Fitted, Unplugged, Swapped}

Body(fahrenheit) ==
  [outlets |-> {1}, fahrenheit |-> fahrenheit, seconds |-> 60, degrees |-> 110, minutes |-> 5]

\* 100 degrees, and 105: above the ceiling of the rig's file.
Asked == {[op |-> "start", body |-> Body(1000)], [op |-> "start", body |-> Body(1050)],
          [op |-> "stop", body |-> Body(0)], [op |-> "state", body |-> Body(0)]}

=============================================================================
