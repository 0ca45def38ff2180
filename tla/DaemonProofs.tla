----------------------------- MODULE DaemonProofs -----------------------------
(***************************************************************************)
(* What is proved of the daemon and of the parts it is built from: the     *)
(* rules of its configuration, for every file and every request; its id    *)
(* store, for every size of the reservation and wherever the process or    *)
(* the power fails; and the daemon itself.                                 *)
(***************************************************************************)
EXTENDS Daemon, FiniteSetTheorems, SequenceTheorems, TLAPS

-----------------------------------------------------------------------------
(* The rules of the configuration: no file widens a bound, no accepted      *)
(* number leaves the compiled-in range, and the outlets that open are the   *)
(* slots asked for.                                                         *)

\* A request a file can hold: bytes for temperatures and minutes.
FileRequest(wanted) ==
  /\ wanted.setpoint_ceiling \in SUBSET Byte
  /\ wanted.setpoint_floor \in SUBSET Byte
  /\ wanted.max_session \in SUBSET Nat
  /\ wanted.steam_ceiling \in SUBSET Byte
  /\ wanted.steam_floor \in SUBSET Byte
  /\ wanted.steam_max_minutes \in SUBSET Byte

\* The tighter of a constant and an optional value is never above the constant.
LEMMA LowerIsLower ==
  ASSUME NEW compiled \in Nat, NEW wanted \in SUBSET Nat
  PROVE  Lower(compiled, wanted) \in Nat /\ Lower(compiled, wanted) <= compiled
<1> DEFINE tighter == {v \in wanted : v < compiled}
           pick == CHOOSE v \in tighter : TRUE
<1>1. tighter # {} => pick \in tighter
  OBVIOUS
<1>2. Lower(compiled, wanted) = IF tighter = {} THEN compiled ELSE pick
  BY DEF Lower
<1>3. tighter # {} => pick \in Nat /\ pick < compiled
  BY <1>1
<1> HIDE DEF tighter, pick
<1> QED
  BY <1>2, <1>3

\* The same for a floor.
LEMMA HigherIsHigher ==
  ASSUME NEW compiled \in Nat, NEW wanted \in SUBSET Nat
  PROVE  Higher(compiled, wanted) \in Nat /\ Higher(compiled, wanted) >= compiled
<1> DEFINE tighter == {v \in wanted : v > compiled}
           pick == CHOOSE v \in tighter : TRUE
<1>1. tighter # {} => pick \in tighter
  OBVIOUS
<1>2. Higher(compiled, wanted) = IF tighter = {} THEN compiled ELSE pick
  BY DEF Higher
<1>3. tighter # {} => pick \in Nat /\ pick > compiled
  BY <1>1
<1> HIDE DEF tighter, pick
<1> QED
  BY <1>2, <1>3

\* Bounds::resolve: whatever a file asks for, every resolved bound lies inside
\* the compiled-in one.
THEOREM NothingInAFileWidensABound ==
  ASSUME NEW wanted, FileRequest(wanted)
  PROVE  /\ Resolve(wanted).setpoint_ceiling <= VALVE_CEILING
         /\ Resolve(wanted).setpoint_floor >= VALVE_FLOOR
         /\ Resolve(wanted).max_session <= HARD_LIMIT
         /\ Resolve(wanted).steam_ceiling <= STEAM_CEILING
         /\ Resolve(wanted).steam_floor >= STEAM_FLOOR
         /\ Resolve(wanted).steam_max_minutes <= MAX_MINUTES
<1>1. SUBSET Byte \subseteq SUBSET Nat
  BY DEF Byte
<1>2. Lower(VALVE_CEILING, wanted.setpoint_ceiling) <= VALVE_CEILING
  BY <1>1, LowerIsLower DEF FileRequest, VALVE_CEILING
<1>3. Higher(VALVE_FLOOR, wanted.setpoint_floor) >= VALVE_FLOOR
  BY <1>1, HigherIsHigher DEF FileRequest, VALVE_FLOOR
<1>4. Lower(HARD_LIMIT, wanted.max_session) <= HARD_LIMIT
  BY LowerIsLower DEF FileRequest, HARD_LIMIT
<1>5. Lower(STEAM_CEILING, wanted.steam_ceiling) <= STEAM_CEILING
  BY <1>1, LowerIsLower DEF FileRequest, STEAM_CEILING
<1>6. Higher(STEAM_FLOOR, wanted.steam_floor) >= STEAM_FLOOR
  BY <1>1, HigherIsHigher DEF FileRequest, STEAM_FLOOR
<1>7. Lower(MAX_MINUTES, wanted.steam_max_minutes) <= MAX_MINUTES
  BY <1>1, LowerIsLower DEF FileRequest, MAX_MINUTES
<1> QED
  BY <1>2, <1>3, <1>4, <1>5, <1>6, <1>7 DEF Resolve

\* The valve path from a request in Fahrenheit to a wire step: the step is
\* never hotter than what was asked for, never above the file's ceiling, and
\* less than one step (nine tenths of a degree) below the request unless the
\* request was the compiled-in ceiling itself.
THEOREM ASetpointIsNeverHotterThanAsked ==
  ASSUME NEW bounds, NEW requested \in Int,
         bounds.setpoint_ceiling \in Nat, bounds.setpoint_floor \in Nat,
         NEW c \in ValveSetpoint(bounds, requested)
  PROVE  /\ Fahrenheit(c) <= requested
         /\ requested < Fahrenheit(c) + 9
         /\ c <= bounds.setpoint_ceiling /\ c <= VALVE_CEILING
         /\ c >= bounds.setpoint_floor /\ c >= VALVE_FLOOR
BY DEF ValveSetpoint, BoundedValve, FromFahrenheit, Fahrenheit, VALVE_FLOOR, VALVE_CEILING

\* At most one step answers a request.
THEOREM ASetpointIsUnique ==
  ASSUME NEW bounds, NEW requested \in Int,
         bounds.setpoint_ceiling \in Nat, bounds.setpoint_floor \in Nat,
         NEW c \in ValveSetpoint(bounds, requested),
         NEW d \in ValveSetpoint(bounds, requested)
  PROVE  c = d
BY DEF ValveSetpoint, BoundedValve, FromFahrenheit, Fahrenheit, VALVE_FLOOR, VALVE_CEILING

\* Steam: an accepted temperature is on the whole-degree step the generator
\* takes and inside both ranges, and an accepted length is never zero, which
\* on the wire would disable the generator's own automatic shutoff.
THEOREM SteamRequestsStayInRange ==
  ASSUME NEW bounds, NEW degrees \in Int, NEW minutes \in Int,
         bounds.steam_ceiling \in Nat, bounds.steam_floor \in Nat,
         bounds.steam_max_minutes \in Nat
  PROVE  /\ \A f \in SteamSetpoint(bounds, degrees) :
              f % 2 = 0 /\ f \in STEAM_FLOOR .. STEAM_CEILING /\ f <= bounds.steam_ceiling
         /\ \A m \in Minutes(bounds, minutes) : m \in MIN_MINUTES .. MAX_MINUTES
BY DEF SteamSetpoint, BoundedSteam, Minutes, STEAM_FLOOR, STEAM_CEILING, MIN_MINUTES, MAX_MINUTES

\* The encoder path saturates where the API path refuses: what comes out is
\* always inside the compiled-in range, is what was asked when that was, and
\* the record says so exactly when it was not.
THEOREM ClampsStayInRangeAndSayWhatTheyDid ==
  ASSUME NEW byte \in Byte
  PROVE  /\ ValveClamped(byte).emitted \in VALVE_FLOOR .. VALVE_CEILING
         /\ SteamClamped(byte).emitted \in STEAM_FLOOR .. STEAM_CEILING
         /\ SteamClamped(byte).emitted % 2 = 0
         /\ WasClamped(ValveClamped(byte)) <=> ValveClamped(byte).emitted # byte
         /\ WasClamped(SteamClamped(byte)) <=> SteamClamped(byte).emitted # byte
         /\ MinutesClamped(byte) \in MIN_MINUTES .. MAX_MINUTES
<1>1. /\ ValveClamped(byte).emitted = Clamp(byte, VALVE_FLOOR, VALVE_CEILING)
      /\ SteamClamped(byte).emitted = Clamp(WholeDegree(byte), STEAM_FLOOR, STEAM_CEILING)
  BY DEF ValveClamped, SteamClamped, ClampRecord
<1>2. /\ ValveClamped(byte).emitted \in VALVE_FLOOR .. VALVE_CEILING
      /\ ValveClamped(byte).emitted # byte <=> byte < VALVE_FLOOR \/ byte > VALVE_CEILING
  BY <1>1 DEF Clamp, VALVE_FLOOR, VALVE_CEILING, Byte
<1>3. WasClamped(ValveClamped(byte)) <=> byte < VALVE_FLOOR \/ byte > VALVE_CEILING
  BY DEF WasClamped, ValveClamped, ClampRecord, VALVE_FLOOR, VALVE_CEILING, Byte
<1>4. WholeDegree(byte) \in Int /\ WholeDegree(byte) % 2 = 0 /\ WholeDegree(byte) <= byte
  BY DEF WholeDegree, Byte
<1> DEFINE whole == WholeDegree(byte)
           emitted == SteamClamped(byte).emitted
<1>5. /\ emitted \in STEAM_FLOOR .. STEAM_CEILING
      /\ emitted % 2 = 0
      /\ emitted # byte
           <=> whole < STEAM_FLOOR \/ whole > STEAM_CEILING \/ whole # byte
  <2> HIDE DEF whole, emitted
  <2>1. whole \in Int /\ whole % 2 = 0 /\ whole <= byte /\ byte \in Int
    BY <1>4 DEF whole, Byte
  <2>2. CASE whole < STEAM_FLOOR
    <3>1. emitted = 180
      BY <1>1, <2>1, <2>2 DEF emitted, whole, Clamp, STEAM_FLOOR, STEAM_CEILING
    <3>2. whole # byte \/ byte < 180
      BY <2>1, <2>2 DEF STEAM_FLOOR
    <3>3. byte # 180
      BY <1>4, <2>2 DEF WholeDegree, whole, STEAM_FLOOR
    <3> QED
      BY <2>2, <3>1, <3>3 DEF STEAM_FLOOR, STEAM_CEILING
  <2>3. CASE whole > STEAM_CEILING
    <3>1. emitted = 250
      BY <1>1, <2>1, <2>3 DEF emitted, whole, Clamp, STEAM_FLOOR, STEAM_CEILING
    <3> QED
      BY <2>1, <2>3, <3>1 DEF STEAM_FLOOR, STEAM_CEILING
  <2>4. CASE whole \in STEAM_FLOOR .. STEAM_CEILING
    <3>1. emitted = whole
      BY <1>1, <2>1, <2>4 DEF emitted, whole, Clamp, STEAM_FLOOR, STEAM_CEILING
    <3> QED
      BY <2>1, <2>4, <3>1 DEF STEAM_FLOOR, STEAM_CEILING
  <2> QED
    BY <2>1, <2>2, <2>3, <2>4 DEF STEAM_FLOOR, STEAM_CEILING
<1>6. WasClamped(SteamClamped(byte))
        <=> whole < STEAM_FLOOR \/ whole > STEAM_CEILING \/ whole # byte
  BY <1>4 DEF WasClamped, SteamClamped, ClampRecord, STEAM_FLOOR, STEAM_CEILING, Byte
<1>7. MinutesClamped(byte) \in MIN_MINUTES .. MAX_MINUTES
  BY DEF MinutesClamped, Clamp, MIN_MINUTES, MAX_MINUTES, Byte
<1> QED
  BY <1>2, <1>3, <1>5, <1>6, <1>7

\* The conversion to half degrees Fahrenheit never wraps and never gets a
\* setpoint's order wrong; converted back it is never hotter than it was, and
\* at most one step cooler.  Saturation is out of a setpoint's reach.
THEOREM ConversionNeverHeats ==
  ASSUME NEW c \in Byte, NEW d \in Byte
  PROVE  /\ ToFx2(c) \in Byte
         /\ c <= d => ToFx2(c) <= ToFx2(d)
         /\ c \in VALVE_FLOOR .. VALVE_CEILING =>
              /\ ToFx2(c) < TOP
              /\ ToLossyCx2(ToFx2(c)) \in {c - 1, c}
BY DEF ToFx2, ToLossyCx2, Saturating, TOP, Byte, VALVE_FLOOR, VALVE_CEILING

-----------------------------------------------------------------------------

\* In a table that could be built, a slot names one mapping.
LEMMA MappingOfASlot ==
  ASSUME NEW valve, NEW mappings, Buildable(valve, mappings), NEW i \in DOMAIN mappings
  PROVE  Mapping(mappings, mappings[i].slot) = mappings[i]
BY DEF Buildable, Mapping

\* Two outlets of one family with the same mask bit are the same outlet.
LEMMA BitsTellOutletsApart ==
  ASSUME NEW valve, NEW a \in Int, NEW b \in Int, MaskBit(valve, a) = MaskBit(valve, b)
  PROVE  a = b
BY DEF MaskBit, FirstOutlet, FirstBit

\* OutletTable::bitmap and slots_from_bits: reading back what was commanded
\* names exactly the slots that were asked for, however the configuration
\* permutes slots and wire outlets, and leaves no bit unaccounted for.
THEOREM CommandedOutletsReadBack ==
  ASSUME NEW valve, NEW mappings, Buildable(valve, mappings),
         NEW slots \in SUBSET ConfiguredSlots(mappings)
  PROVE  SlotsFromBits(valve, mappings, Bitmap(valve, mappings, slots))
           = [slots |-> slots, unaccounted |-> {}]
<1> DEFINE bits == Bitmap(valve, mappings, slots)
           bit(i) == MaskBit(valve, mappings[i].wire_outlet)
           known == {i \in DOMAIN mappings : bit(i) \in bits}
<1>1. bits = {bit(i) : i \in {j \in DOMAIN mappings : mappings[j].slot \in slots}}
  <2>1. ASSUME NEW s \in slots
        PROVE  \E i \in DOMAIN mappings : mappings[i].slot = s /\ Mapping(mappings, s) = mappings[i]
    BY MappingOfASlot DEF ConfiguredSlots
  <2> QED
    BY <2>1, MappingOfASlot DEF Bitmap
<1>2. ASSUME NEW i \in DOMAIN mappings, NEW j \in DOMAIN mappings, bit(i) = bit(j)
      PROVE  i = j
  <2>1. mappings[i].wire_outlet \in Int /\ mappings[j].wire_outlet \in Int
    BY DEF Buildable, HasOutlet, FirstOutlet, MaskPositions
  <2>2. mappings[i].wire_outlet = mappings[j].wire_outlet
    BY <1>2, <2>1, BitsTellOutletsApart
  <2> QED
    BY <2>2 DEF Buildable
<1>3. known = {j \in DOMAIN mappings : mappings[j].slot \in slots}
  BY <1>1, <1>2
<1>4. {mappings[i].slot : i \in known} = slots
  BY <1>3 DEF ConfiguredSlots
<1>5. bits \ {bit(i) : i \in known} = {}
  BY <1>1, <1>3
<1> HIDE DEF bits
<1> QED
  BY <1>4, <1>5 DEF SlotsFromBits, bits

\* The status index answers one slot at most, so a state report can name no
\* slot but the one its index was configured for.
THEOREM AStatusIndexNamesOneSlot ==
  ASSUME NEW valve, NEW mappings, Buildable(valve, mappings), NEW i \in DOMAIN mappings
  PROVE  SlotForStatusIndex(mappings, mappings[i].status_index) = {mappings[i].slot}
BY DEF SlotForStatusIndex, Buildable

-----------------------------------------------------------------------------
(* The id store: no id is ever issued twice.                                *)

LEMMA TheStoreStarts == IdInit => IdInv
  BY IdAssumption
  DEF IdInit, IdInv, IdTypeOK, Counters, Fresh, OneOfEach, DurableFirst, BehindTheFile,
      StoreInv, SaveInv

Issued == [boots : Nat, boot : Nat, commands : Nat, command : Nat]

LEMMA IssuingABoot ==
  ASSUME issued \in Issued, NEW id \in Nat, IssueBoot(id)
  PROVE  /\ issued' \in Issued
         /\ issued'.boot = id /\ issued'.command = issued.command
         /\ issued'.commands = issued.commands
<1>1. issued = [boots |-> issued.boots, boot |-> issued.boot, commands |-> issued.commands,
                command |-> issued.command]
  BY DEF Issued
<1>2. issued' = [boots |-> issued.boots + 1, boot |-> id, commands |-> issued.commands,
                 command |-> issued.command]
  BY <1>1 DEF Issued, IssueBoot
<1>3. issued.boots + 1 \in Nat /\ issued.commands \in Nat /\ issued.command \in Nat
  BY DEF Issued
<1>. QED BY <1>2, <1>3 DEF Issued

LEMMA IssuingACommand ==
  ASSUME issued \in Issued, NEW id \in Nat, IssueCommand(id)
  PROVE  /\ issued' \in Issued
         /\ issued'.command = id /\ issued'.boot = issued.boot
         /\ issued'.boots = issued.boots
<1>1. issued = [boots |-> issued.boots, boot |-> issued.boot, commands |-> issued.commands,
                command |-> issued.command]
  BY DEF Issued
<1>2. issued' = [boots |-> issued.boots, boot |-> issued.boot,
                 commands |-> issued.commands + 1, command |-> id]
  BY <1>1 DEF Issued, IssueCommand
<1>3. issued.commands + 1 \in Nat /\ issued.boots \in Nat /\ issued.boot \in Nat
  BY DEF Issued
<1>. QED BY <1>2, <1>3 DEF Issued

LEMMA OpenKeeps == IdInv /\ Open => IdInv'
  BY DEF Open, IdInv, IdTypeOK, Counters, OneOfEach, DurableFirst, BehindTheFile,
         StoreInv, SaveInv

\* A save begins: only saving changes.
LEMMA BeginKeeps ==
  ASSUME IdInv, BeginBoot \/ Reserve
  PROVE  IdInv'
<1>. USE IdAssumption
<1>1. PICK s \in store :
        /\ saving = {}
        /\ UNCHANGED <<disk, file, store, issued>>
        /\ \/ Save("boot", [s.durable EXCEPT !.boot = @ + 1])
           \/ /\ s.next >= s.durable.command
              /\ Save("command", [s.durable EXCEPT !.command = @ + RESERVATION_BLOCK])
  BY DEF BeginBoot, Reserve
<1>2. s.durable \in Counters /\ s.next \in Nat /\ store = {s}
  BY DEF IdInv, IdTypeOK, OneOfEach
<1>3. [s.durable EXCEPT !.boot = @ + 1] \in Counters
      /\ [s.durable EXCEPT !.command = @ + RESERVATION_BLOCK] \in Counters
  BY <1>2 DEF Counters
<1>4. CASE Save("boot", [s.durable EXCEPT !.boot = @ + 1])
  BY <1>1, <1>2, <1>3, <1>4
  DEF Save, IdInv, IdTypeOK, OneOfEach, DurableFirst, BehindTheFile, StoreInv, SaveInv
<1>5. CASE /\ s.next >= s.durable.command
           /\ Save("command", [s.durable EXCEPT !.command = @ + RESERVATION_BLOCK])
  <2>1. s.next = s.durable.command
    BY <1>2, <1>5 DEF IdInv, StoreInv, Counters
  <2>. QED
    BY <1>1, <1>2, <1>3, <1>5, <2>1
    DEF Save, IdInv, IdTypeOK, OneOfEach, DurableFirst, BehindTheFile, StoreInv, SaveInv
<1>. QED BY <1>1, <1>4, <1>5

LEMMA NextCommandKeeps == IdInv /\ NextCommand => IdInv'
<1>. SUFFICES ASSUME IdInv, NextCommand PROVE IdInv'
  OBVIOUS
<1>1. PICK s \in store :
        /\ saving = {} /\ s.next < s.durable.command
        /\ store' = {[s EXCEPT !.next = @ + 1]}
        /\ IssueCommand(s.next + 1)
        /\ UNCHANGED <<disk, file, saving>>
  BY DEF NextCommand
<1>2. s \in [durable : Counters, next : Nat]
  BY DEF IdInv, IdTypeOK
<1>3. PICK t : t = [s EXCEPT !.next = @ + 1]
  OBVIOUS
<1>4. t \in [durable : Counters, next : Nat] /\ t.durable = s.durable /\ t.next = s.next + 1
  BY <1>2, <1>3
<1>5. store' = {t}
  BY <1>1, <1>3
<1>6. /\ issued' \in Issued
      /\ issued'.boot = issued.boot /\ issued'.command = s.next + 1
  BY <1>1, <1>2, IssuingACommand DEF IdInv, IdTypeOK, Issued
<1>. QED
  BY <1>1, <1>2, <1>4, <1>5, <1>6
  DEF Issued, IdInv, IdTypeOK, Counters, OneOfEach, DurableFirst, BehindTheFile, StoreInv, SaveInv

LEMMA RenameKeeps == IdInv /\ Rename => IdInv'
<1>. SUFFICES ASSUME IdInv, Rename PROVE IdInv'
  OBVIOUS
<1>. USE IdAssumption
<1>1. PICK w \in saving :
        /\ w.at = "temporary"
        /\ saving' = {[w EXCEPT !.at = "renamed"]}
        /\ file' = w.counters
        /\ UNCHANGED <<disk, store, issued>>
  BY DEF Rename
<1>2. w \in [kind : {"boot", "command"}, counters : Counters, at : {"temporary", "renamed"}]
  BY DEF IdInv, IdTypeOK
<1>3. PICK v : v = [w EXCEPT !.at = "renamed"]
  OBVIOUS
<1>4. /\ v \in [kind : {"boot", "command"}, counters : Counters, at : {"temporary", "renamed"}]
      /\ v.kind = w.kind /\ v.counters = w.counters /\ saving' = {v}
  BY <1>1, <1>2, <1>3
<1>5. PICK s \in store :
        w.counters = IF w.kind = "boot" THEN [s.durable EXCEPT !.boot = @ + 1]
                     ELSE [s.durable EXCEPT !.command = @ + RESERVATION_BLOCK]
  BY DEF IdInv, SaveInv
<1>6. s.durable \in Counters /\ store = {s}
  BY DEF IdInv, IdTypeOK, OneOfEach
<1>7. s.durable.boot <= file'.boot /\ s.durable.command <= file'.command
  BY <1>1, <1>2, <1>5, <1>6 DEF Counters
<1>8. BehindTheFile'
  BY <1>1, <1>2, <1>6, <1>7 DEF BehindTheFile, IdInv, IdTypeOK, StoreInv, Counters
<1>9. SaveInv'
  BY <1>1, <1>4, <1>5, <1>6 DEF SaveInv, IdInv
<1>. QED
  BY <1>1, <1>2, <1>4, <1>6, <1>8, <1>9
  DEF IdInv, IdTypeOK, OneOfEach, DurableFirst, StoreInv

LEMMA SaveFailsKeeps == IdInv /\ SaveFails => IdInv'
  BY DEF SaveFails, IdInv, IdTypeOK, Counters, OneOfEach, DurableFirst, BehindTheFile,
         StoreInv, SaveInv

\* The heart of it: what is issued is on the disk already.
LEMMA SaveSyncedKeeps == IdInv /\ SaveSynced => IdInv'
<1>. SUFFICES ASSUME IdInv, SaveSynced PROVE IdInv'
  OBVIOUS
<1>. USE IdAssumption
<1>1. PICK w \in saving, s \in store :
        /\ w.at = "renamed" /\ disk' = file /\ saving' = {} /\ file' = file
        /\ IF w.kind = "boot"
             THEN store' = {[s EXCEPT !.durable = w.counters]} /\ IssueBoot(w.counters.boot)
             ELSE /\ store' = {[durable |-> w.counters, next |-> s.next + 1]}
                  /\ IssueCommand(s.next + 1)
  BY DEF SaveSynced
<1>2. /\ w \in [kind : {"boot", "command"}, counters : Counters, at : {"temporary", "renamed"}]
      /\ s \in [durable : Counters, next : Nat] /\ store = {s}
      /\ issued \in [boots : Nat, boot : Nat, commands : Nat, command : Nat]
      /\ file = w.counters
  BY <1>1 DEF IdInv, IdTypeOK, OneOfEach, SaveInv
<1>3. w.counters = IF w.kind = "boot" THEN [s.durable EXCEPT !.boot = @ + 1]
                   ELSE [s.durable EXCEPT !.command = @ + RESERVATION_BLOCK]
  BY <1>2 DEF IdInv, SaveInv
<1>4. /\ issued.boot <= s.durable.boot /\ issued.command <= s.next
      /\ s.next <= s.durable.command
      /\ s.next < s.durable.command => s.durable.command <= disk.command
  BY DEF IdInv, StoreInv
<1>5. CASE w.kind = "boot"
  <2>1. PICK t : t = [s EXCEPT !.durable = w.counters]
    OBVIOUS
  <2>2. /\ store' = {t} /\ t \in [durable : Counters, next : Nat]
        /\ t.durable = w.counters /\ t.next = s.next
    BY <1>1, <1>2, <1>5, <2>1
  <2>3. /\ w.counters.boot = s.durable.boot + 1
        /\ w.counters.command = s.durable.command
    BY <1>2, <1>3, <1>5 DEF Counters
  <2>4. /\ issued' \in Issued
        /\ issued'.boot = w.counters.boot /\ issued'.command = issued.command
    BY <1>1, <1>2, <1>5, IssuingABoot DEF Issued, Counters
  <2>. QED
    BY <1>1, <1>2, <1>4, <2>2, <2>3, <2>4
    DEF Issued, IdInv, IdTypeOK, Counters, OneOfEach, DurableFirst, BehindTheFile, StoreInv, SaveInv
<1>6. CASE w.kind = "command"
  <2>1. PICK t : t = [durable |-> w.counters, next |-> s.next + 1]
    OBVIOUS
  <2>2. /\ store' = {t} /\ t \in [durable : Counters, next : Nat]
        /\ t.durable = w.counters /\ t.next = s.next + 1
    BY <1>1, <1>2, <1>6, <2>1
  <2>3. /\ w.counters.boot = s.durable.boot
        /\ w.counters.command = s.durable.command + RESERVATION_BLOCK
        /\ s.next = s.durable.command
    BY <1>2, <1>3, <1>6 DEF Counters, IdInv, SaveInv
  <2>4. /\ issued' \in Issued
        /\ issued'.boot = issued.boot /\ issued'.command = s.next + 1
    BY <1>1, <1>2, <1>6, IssuingACommand DEF Issued
  <2>. QED
    BY <1>1, <1>2, <1>4, <2>2, <2>3, <2>4
    DEF Issued, IdInv, IdTypeOK, Counters, OneOfEach, DurableFirst, BehindTheFile, StoreInv, SaveInv
<1>. QED BY <1>2, <1>5, <1>6

LEMMA LossKeeps == IdInv /\ (Writeback \/ StoreLost \/ PowerLost) => IdInv'
  BY DEF Writeback, StoreLost, PowerLost, IdInv, IdTypeOK, Counters, OneOfEach, DurableFirst,
         BehindTheFile, StoreInv, SaveInv

LEMMA TheStoreGoesOn == IdInv /\ [IdNext]_idVars => IdInv'
<1>. SUFFICES ASSUME IdInv, [IdNext]_idVars PROVE IdInv'
  OBVIOUS
<1>1. CASE UNCHANGED idVars
  BY <1>1 DEF idVars, IdInv, IdTypeOK, OneOfEach, DurableFirst, BehindTheFile, StoreInv, SaveInv
<1>. QED
  BY <1>1, OpenKeeps, BeginKeeps, NextCommandKeeps, RenameKeeps, SaveFailsKeeps,
     SaveSyncedKeeps, LossKeeps DEF IdNext

\* Whatever power cut comes, the disk is never behind an id that was issued:
\* FileIdStore makes an id durable first and issues it second.
THEOREM IssuedIdsAreDurable == IdSpec => []DurableFirst
<1>1. IdInv => DurableFirst
  BY DEF IdInv
<1>. QED
  BY TheStoreStarts, TheStoreGoesOn, <1>1, PTL DEF IdSpec

LEMMA StepsIssueUpwards ==
  ASSUME IdInv, [IdNext]_idVars
  PROVE  /\ issued'.boots > issued.boots => issued'.boot > issued.boot
         /\ issued'.commands > issued.commands => issued'.command > issued.command
<1>. USE IdAssumption
<1>0. issued \in [boots : Nat, boot : Nat, commands : Nat, command : Nat]
  BY DEF IdInv, IdTypeOK
<1>1. CASE issued' = issued
  BY <1>0, <1>1
<1>2. CASE NextCommand
  <2>1. PICK s \in store : IssueCommand(s.next + 1)
    BY <1>2 DEF NextCommand
  <2>2. s.next \in Nat /\ issued.command <= s.next
    BY DEF IdInv, IdTypeOK, StoreInv
  <2>. QED BY <1>0, <2>1, <2>2, IssuingACommand DEF Issued
<1>3. CASE SaveSynced
  <2>1. PICK w \in saving, s \in store :
          IF w.kind = "boot" THEN IssueBoot(w.counters.boot) ELSE IssueCommand(s.next + 1)
    BY <1>3 DEF SaveSynced
  <2>2. /\ s \in [durable : Counters, next : Nat] /\ store = {s}
        /\ issued.command <= s.next /\ issued.boot <= s.durable.boot
    BY DEF IdInv, IdTypeOK, OneOfEach, StoreInv
  <2>3. w.kind = "boot" => w.counters.boot = s.durable.boot + 1
    BY <2>2 DEF IdInv, SaveInv, Counters
  <2>. QED BY <1>0, <2>1, <2>2, <2>3, IssuingABoot, IssuingACommand DEF Issued, Counters
<1>. QED
  BY <1>1, <1>2, <1>3
  DEF IdNext, idVars, Open, BeginBoot, Reserve, Rename, SaveFails, Writeback, StoreLost, PowerLost

\* No id is ever issued twice: every id begin_boot or next_command returns is
\* above every one returned before it, in this process or an earlier one.
THEOREM IdsAreNeverReissued == IdSpec => NeverReissued
<1>1. IdInv /\ [IdNext]_idVars
        => [/\ issued'.boots > issued.boots => issued'.boot > issued.boot
            /\ issued'.commands > issued.commands => issued'.command > issued.command]_idVars
  BY StepsIssueUpwards
<1>. QED
  BY TheStoreStarts, TheStoreGoesOn, <1>1, PTL DEF IdSpec, NeverReissued

-----------------------------------------------------------------------------
(* The daemon uses its store only as the store allows, so that what is      *)
(* proved of the store holds of the daemon.                                 *)

\* A process that ends loses its store, whatever it ended of.
LEMMA FailingIsLosingTheStore == ASSUME NEW why, Fails(why) PROVE StoreLost
  BY DEF Fails

LEMMA StepsAreStoreSteps == [DaemonNext]_vars => [IdNext]_idVars
<1>. SUFFICES ASSUME [DaemonNext]_vars PROVE [IdNext]_idVars
  OBVIOUS
<1>1. CASE UNCHANGED vars
  BY <1>1 DEF vars
<1>2. CASE Process
  <2>1. CASE Validate
    BY <2>1 DEF Validate
  <2>2. CASE OpenStore
    BY <2>2, FailingIsLosingTheStore DEF OpenStore, IdNext
  <2>3. CASE OpenLink
    BY <2>3, FailingIsLosingTheStore DEF OpenLink, IdNext
  <2>4. CASE TakeBootId
    BY <2>4, FailingIsLosingTheStore DEF TakeBootId, IdNext
  <2>5. CASE TakeShutdownId
    BY <2>5, FailingIsLosingTheStore DEF TakeShutdownId, IdNext
  <2>6. CASE BringUp
    BY <2>6 DEF BringUp
  <2>7. CASE SaveStep
    BY <2>7 DEF SaveStep, IdNext
  <2>8. CASE SaveDone
    BY <2>8 DEF SaveDone, IdNext
  <2>9. CASE SaveFailed
    BY <2>9, FailingIsLosingTheStore DEF SaveFailed, IdNext
  <2>10. CASE Drained
    BY <2>10 DEF Drained
  <2>11. CASE Exit
    BY <2>11 DEF Exit, IdNext
  <2>. QED
    BY <1>2, <2>1, <2>2, <2>3, <2>4, <2>5, <2>6, <2>7, <2>8, <2>9, <2>10, <2>11 DEF Process
<1>3. CASE \E c \in Clients : Arrive(c) \/ Handle(c) \/ Disconnect(c)
  <2>. PICK c \in Clients : Arrive(c) \/ Handle(c) \/ Disconnect(c)
    BY <1>3
  <2>1. CASE Arrive(c)
    BY <2>1 DEF Arrive
  <2>2. CASE Handle(c)
    BY <2>2 DEF Handle, IdNext
  <2>3. CASE Disconnect(c)
    BY <2>3 DEF Disconnect
  <2>. QED
    BY <2>1, <2>2, <2>3
<1>4. CASE LoopTakes \/ Tick \/ Shutdown \/ Replug
  BY <1>4 DEF LoopTakes, Tick, Shutdown, Replug
<1>5. CASE Crash \/ PowerCut \/ DirectoryWrittenBack
  BY <1>5, FailingIsLosingTheStore DEF Crash, PowerCut, DirectoryWrittenBack, IdNext
<1>. QED
  BY <1>1, <1>2, <1>3, <1>4, <1>5 DEF DaemonNext

\* The daemon is one of the behaviours the store allows: every start, request,
\* failure, kill and power cut of it is a step of the store or leaves it alone.
THEOREM TheDaemonKeepsToItsStore == Spec => IdSpec
<1>1. DaemonInit => IdInit
  BY DEF DaemonInit
<1>. QED
  BY <1>1, StepsAreStoreSteps, PTL DEF Spec, IdSpec

\* No boot id and no command id of the daemon is ever issued twice.
THEOREM TheDaemonNeverReissues == Spec => NeverReissued
  BY TheDaemonKeepsToItsStore, IdsAreNeverReissued, PTL

-----------------------------------------------------------------------------
(* What is open was permitted.                                              *)

\* The authority is what the gate grants the file.
Granted == authority \subseteq Grant(raw.gate, site.fixtures)

\* Validation bound every link to a node of its own.
BoundApart ==
  phase # "down" =>
    \A i, j \in DOMAIN Links(raw) :
      i # j => bound[Links(raw)[i]].node # bound[Links(raw)[j]].node

\* Every open port is a link's, at its node, and the gate permitted it.
Permitted(port) ==
  \E i \in DOMAIN Links(raw) :
    /\ port = [link |-> Links(raw)[i], node |-> bound[Links(raw)[i]].node]
    /\ PermitOpen(Links(raw)[i])

OpenInv ==
  /\ phase = "down" => opened = {}
  /\ phase \in {"assembled", "serving", "draining", "aborting"} => opened # {}
  /\ phase \in {"identity", "booted"} => opened # {}
  /\ \A port \in opened : Permitted(port)

PortInv == Granted /\ BoundApart /\ OpenInv

LEMMA LinksAreNumbered == DOMAIN Links(raw) \subseteq Nat
  BY DEF Links

\* resolve_distinct refuses a link bound to the node of an earlier one.
LEMMA ResolvedApart ==
  ASSUME ResolveError(Links(raw), BindingPorts(raw), machine) = {},
         NEW i \in DOMAIN Links(raw), NEW j \in DOMAIN Links(raw), j < i
  PROVE  Bindings(BindingPorts(raw), machine)[Links(raw)[i]].node
           # Bindings(BindingPorts(raw), machine)[Links(raw)[j]].node
<1>. DEFINE ports == BindingPorts(raw)
            a == Links(raw)[i]
            b == Links(raw)[j]
            node == [l \in DOMAIN ports |-> IF ports[l].scheme = "placeholder" THEN "absent"
                                            ELSE machine.target[ports[l].name]]
<1>1. a \in DOMAIN ports /\ b \in DOMAIN ports
  BY DEF BindingPorts
<1>2. j \in 1 .. (i - 1)
  BY DEF Links
<1>3. /\ \A l \in DOMAIN ports : ports[l].scheme # "placeholder"
      /\ node[b] # node[a]
  BY <1>2 DEF ResolveError
<1>4. node[a] = machine.target[ports[a].name] /\ node[b] = machine.target[ports[b].name]
  BY <1>1, <1>3
<1>5. /\ Bindings(ports, machine)[a].node = machine.target[ports[a].name]
      /\ Bindings(ports, machine)[b].node = machine.target[ports[b].name]
  BY <1>1 DEF Bindings
<1>. QED
  BY <1>3, <1>4, <1>5

\* An end of the process leaves nothing open.
LEMMA EndsKeeps ==
  ASSUME PortInv, NEW why, Ends(why)
  PROVE  PortInv'
  BY DEF Ends, PortInv, Granted, BoundApart, OpenInv, raw

LEMMA ValidateKeeps == PortInv /\ Validate => PortInv'
<1>. SUFFICES ASSUME PortInv, Validate PROVE PortInv'
  OBVIOUS
<1>1. phase = "down" /\ opened = {} /\ opened' = {} /\ site' = site
  BY DEF Validate, PortInv, OpenInv
<1>2. CASE Refusal # {}
  BY <1>1, <1>2 DEF Validate, PortInv, Granted, BoundApart, OpenInv, raw
<1>3. CASE Refusal = {}
  <2>1. ResolveError(Links(raw), BindingPorts(raw), machine) = {}
    BY <1>3 DEF Refusal, Classify
  <2>2. /\ phase' = "validated"
        /\ bound' = Bindings(BindingPorts(raw), machine)
        /\ authority' = Grant(raw.gate, site.fixtures)
    BY <1>3 DEF Validate
  <2>3. ASSUME NEW i \in DOMAIN Links(raw), NEW j \in DOMAIN Links(raw), i # j
        PROVE  bound'[Links(raw)[i]].node # bound'[Links(raw)[j]].node
    <3>1. i < j \/ j < i
      BY <2>3, LinksAreNumbered
    <3>2. CASE j < i
      BY <2>1, <2>2, <3>2, ResolvedApart
    <3>3. CASE i < j
      BY <2>1, <2>2, <3>3, ResolvedApart
    <3>. QED BY <3>1, <3>2, <3>3
  <2>4. raw' = raw
    BY <1>1 DEF raw
  <2>5. Granted' /\ BoundApart'
    BY <1>1, <2>2, <2>3, <2>4 DEF Granted, BoundApart
  <2>6. OpenInv'
    BY <1>1, <2>2 DEF OpenInv
  <2>. QED BY <2>5, <2>6 DEF PortInv
<1>. QED BY <1>2, <1>3

\* Steps that only move the process on, or not at all.
LEMMA QuietStepsKeep ==
  ASSUME PortInv, raw' = raw, site'.fixtures = site.fixtures,
         UNCHANGED <<bound, authority, opened>>,
         phase # "down", phase' # "down",
         phase' \in {"identity", "booted", "assembled", "serving", "draining", "aborting"}
           => opened # {}
  PROVE  PortInv'
<1>1. Granted' /\ BoundApart'
  BY DEF PortInv, Granted, BoundApart
<1>2. \A port \in opened' : Permitted(port)'
  BY DEF PortInv, OpenInv, Permitted, PermitOpen
<1>. QED
  BY <1>1, <1>2 DEF PortInv, OpenInv

LEMMA OpenLinkKeeps == PortInv /\ OpenLink => PortInv'
<1>. SUFFICES ASSUME PortInv, OpenLink PROVE PortInv'
  OBVIOUS
<1>1. PICK i \in DOMAIN Links(raw) :
        \/ Fails("GATE") \/ Fails("HARDWARE")
        \/ /\ PermitOpen(Links(raw)[i])
           /\ opened' = opened \cup {[link |-> Links(raw)[i], node |-> bound[Links(raw)[i]].node]}
           /\ phase' \in {"identity", "opening"}
           /\ UNCHANGED <<site, bound, authority>>
  BY DEF OpenLink
<1>2. CASE Fails("GATE") \/ Fails("HARDWARE")
  BY <1>2, EndsKeeps DEF Fails
<1>3. CASE /\ PermitOpen(Links(raw)[i])
           /\ opened' = opened \cup {[link |-> Links(raw)[i], node |-> bound[Links(raw)[i]].node]}
           /\ phase' \in {"identity", "opening"}
           /\ UNCHANGED <<site, bound, authority>>
  <2>1. phase = "opening" /\ raw' = raw
    BY <1>3 DEF OpenLink, raw
  <2>2. Granted' /\ BoundApart'
    BY <1>3, <2>1 DEF PortInv, Granted, BoundApart
  <2>3. ASSUME NEW port \in opened' PROVE Permitted(port)'
    <3>1. Permitted(port)
      BY <1>3 DEF PortInv, OpenInv, Permitted
    <3>. QED BY <1>3, <2>1, <3>1 DEF Permitted, PermitOpen
  <2>4. OpenInv'
    BY <1>3, <2>1, <2>3 DEF OpenInv
  <2>. QED BY <2>2, <2>4 DEF PortInv
<1>. QED BY <1>1, <1>2, <1>3

LEMMA StartingKeeps ==
  ASSUME PortInv, OpenStore \/ TakeBootId \/ TakeShutdownId \/ BringUp \/ Replug
  PROVE  PortInv'
<1>1. CASE \E why : Fails(why)
  BY <1>1, EndsKeeps DEF Fails
<1>2. CASE ~ \E why : Fails(why)
  <2>1. UNCHANGED <<bound, authority, opened>> /\ raw' = raw /\ site'.fixtures = site.fixtures
    BY <1>2 DEF OpenStore, TakeBootId, TakeShutdownId, BringUp, Replug, processVars, raw
  <2>2. /\ phase # "down" /\ phase' # "down"
        /\ phase' \in {"identity", "booted", "assembled", "serving", "draining", "aborting"}
             => opened # {}
    BY <1>2 DEF OpenStore, TakeBootId, TakeShutdownId, BringUp, Replug, processVars, PortInv, OpenInv
  <2>. QED BY <2>1, <2>2, QuietStepsKeep
<1>. QED BY <1>1, <1>2

LEMMA SavingKeeps ==
  ASSUME PortInv, SaveStep \/ SaveDone \/ SaveFailed \/ DirectoryWrittenBack
  PROVE  PortInv'
<1>1. CASE \E why : Fails(why)
  BY <1>1, EndsKeeps DEF Fails
<1>2. CASE ~ \E why : Fails(why)
  <2>1. UNCHANGED <<site, bound, authority, opened>>
    BY <1>2 DEF SaveStep, SaveDone, SaveFailed, DirectoryWrittenBack, processVars
  <2>2. \/ phase' = phase
        \/ phase \in {"identity", "booted"} /\ phase' \in {"booted", "assembled"}
    BY <1>2 DEF SaveStep, SaveDone, SaveFailed, DirectoryWrittenBack, processVars
  <2>3. raw' = raw
    BY <2>1 DEF raw
  <2>4. CASE phase = "down"
    BY <2>1, <2>2, <2>3, <2>4 DEF PortInv, Granted, BoundApart, OpenInv
  <2>5. CASE phase # "down"
    BY <2>1, <2>2, <2>3, <2>5, QuietStepsKeep DEF PortInv, OpenInv
  <2>. QED BY <2>4, <2>5
<1>. QED BY <1>1, <1>2

\* A request moves nothing of the process.
LEMMA RequestsKeep ==
  ASSUME PortInv,
         UNCHANGED <<site, phase, bound, authority, opened>>
  PROVE  PortInv'
<1>1. raw' = raw
  BY DEF raw
<1>. QED
  BY <1>1 DEF PortInv, Granted, BoundApart, OpenInv, Permitted, PermitOpen

LEMMA DrainedKeeps == PortInv /\ Drained => PortInv'
<1>. SUFFICES ASSUME PortInv, Drained PROVE PortInv'
  OBVIOUS
<1>1. /\ opened' = {} /\ phase' \in {"closing", "aborted"} /\ phase # "down"
      /\ UNCHANGED <<site, bound, authority>>
  BY DEF Drained
<1>2. raw' = raw
  BY <1>1 DEF raw
<1>. QED
  BY <1>1, <1>2 DEF PortInv, Granted, BoundApart, OpenInv

LEMMA PortInvHolds == Spec => []PortInv
<1>1. DaemonInit => PortInv
  BY DEF DaemonInit, PortInv, Granted, BoundApart, OpenInv
<1>2. ASSUME PortInv, [DaemonNext]_vars PROVE PortInv'
  <2>1. CASE UNCHANGED vars
    BY <1>2, <2>1, RequestsKeep DEF vars, processVars
  <2>2. CASE Process
    <3>1. CASE Exit
      BY <1>2, <3>1, EndsKeeps DEF Exit
    <3>. QED
      BY <1>2, <2>2, <3>1, ValidateKeeps, OpenLinkKeeps, StartingKeeps, SavingKeeps, DrainedKeeps
      DEF Process
  <2>3. CASE \E c \in Clients : Arrive(c) \/ Handle(c) \/ Disconnect(c)
    BY <1>2, <2>3, RequestsKeep DEF Arrive, Handle, Disconnect, processVars
  <2>4. CASE LoopTakes \/ Tick
    BY <1>2, <2>4, RequestsKeep DEF LoopTakes, Tick, processVars
  <2>5. CASE Shutdown
    <3>1. raw' = raw
      BY <2>5 DEF Shutdown, raw
    <3>. QED BY <1>2, <2>5, <3>1, QuietStepsKeep DEF Shutdown, PortInv, OpenInv
  <2>6. CASE Crash \/ PowerCut
    BY <1>2, <2>6, EndsKeeps DEF Crash, PowerCut, Fails
  <2>. QED
    BY <1>2, <2>1, <2>2, <2>3, <2>4, <2>5, <2>6, StartingKeeps, SavingKeeps DEF DaemonNext
<1>. QED
  BY <1>1, <1>2, PTL DEF Spec

\* No real port is ever open without the whole of its evidence, and no two
\* links share a device, whatever file is installed on whatever machine and
\* however often it is replugged.
THEOREM OnlyAttestedPortsOpen == Spec => []RealPortsAreAttested
<1>1. ASSUME PortInv PROVE RealPortsAreAttested
  <2>1. ASSUME NEW port \in opened, Backend(port.node) = "serial"
        PROVE  /\ raw.gate.pin = {site.fixtures.digest}
               /\ TransmitOps \subseteq site.fixtures.captured
               /\ \A link \in ALL : Attests(raw.gate, link)
    <3>1. PICK a \in authority : a.real
      BY <1>1, <2>1 DEF PortInv, OpenInv, Permitted, PermitOpen, PermitsRealBusOn
    <3>2. a \in Grant(raw.gate, site.fixtures)
      BY <1>1 DEF PortInv, Granted
    <3>. QED
      BY <3>1, <3>2 DEF Grant, UnattestedFixtures, Unattested
  <2>2. ASSUME NEW port \in opened, NEW other \in opened, port # other
        PROVE  port.node # other.node
    <3>1. phase # "down"
      BY <1>1 DEF PortInv, OpenInv
    <3>2. PICK i \in DOMAIN Links(raw) :
            port = [link |-> Links(raw)[i], node |-> bound[Links(raw)[i]].node]
      BY <1>1 DEF PortInv, OpenInv, Permitted
    <3>3. PICK j \in DOMAIN Links(raw) :
            other = [link |-> Links(raw)[j], node |-> bound[Links(raw)[j]].node]
      BY <1>1 DEF PortInv, OpenInv, Permitted
    <3>4. i # j
      BY <2>2, <3>2, <3>3
    <3>. QED
      BY <1>1, <3>1, <3>2, <3>3, <3>4 DEF PortInv, BoundApart
  <2>. QED
    BY <2>1, <2>2 DEF RealPortsAreAttested
<1>. QED
  BY PortInvHolds, <1>1, PTL

\* Once the links are assembled, the process ends through its drain: it takes a
\* kill or a power cut to end it without.
THEOREM TheDrainComesFirst == Spec => EveryFailureEndsOff
<1>1. ASSUME PortInv, [DaemonNext]_vars,
             phase \in {"assembled", "serving", "draining", "aborting"}, opened' = {}
      PROVE  outcome' # {} \/ code' \in {"KILLED", "POWER"}
  <2>1. opened # {}
    BY <1>1 DEF PortInv, OpenInv
  <2>2. CASE opened' = opened
    BY <1>1, <2>1, <2>2
  <2>3. CASE Crash \/ PowerCut
    BY <2>3 DEF Crash, PowerCut, Fails, Ends
  <2>4. CASE Drained
    BY <2>4 DEF Drained
  <2>5. CASE SaveFailed
    BY <1>1, <2>1, <2>5 DEF SaveFailed, processVars
  <2>. QED
    BY <1>1, <2>2, <2>3, <2>4, <2>5
    DEF DaemonNext, vars, Process, Validate, OpenStore, OpenLink, TakeBootId, TakeShutdownId,
        BringUp, SaveStep, SaveDone, Exit, LoopTakes, Arrive, Handle, Disconnect, Tick, Shutdown,
        Replug, DirectoryWrittenBack, processVars
<1>2. PortInv /\ [DaemonNext]_vars =>
        [(phase \in {"assembled", "serving", "draining", "aborting"} /\ opened' = {})
           => (outcome' # {} \/ code' \in {"KILLED", "POWER"})]_vars
  BY <1>1
<1>. QED
  BY PortInvHolds, <1>2, PTL DEF Spec, EveryFailureEndsOff

-----------------------------------------------------------------------------
(* The sessions: who is let in, and what it takes to open water.            *)

\* A table: its live sessions are those of its order, which is the order they
\* were drawn and established in.
TableOK(t, m, at) ==
  /\ t.order \in Seq(1 .. m)
  /\ DOMAIN t.live = {t.order[i] : i \in DOMAIN t.order}
  /\ \A i \in DOMAIN t.order : t.live[t.order[i]] \in 0 .. at
  /\ \A i, j \in DOMAIN t.order :
       i < j => t.order[i] < t.order[j] /\ t.live[t.order[i]] <= t.live[t.order[j]]

\* Popping leaves a table: the rest of the order, and its sessions.
LEMMA PoppingLeavesATable ==
  ASSUME NEW t, NEW m \in Nat, NEW at \in Nat, TableOK(t, m, at),
         NEW n \in 0 .. Len(t.order)
  PROVE  /\ TableOK(Popped(t, n), m, at)
         /\ Len(Popped(t, n).order) = Len(t.order) - n
         /\ \A i \in 1 .. (Len(t.order) - n) : Popped(t, n).order[i] = t.order[i + n]
         /\ DOMAIN Popped(t, n).live \subseteq DOMAIN t.live
         /\ \A id \in DOMAIN Popped(t, n).live : Popped(t, n).live[id] = t.live[id]
<1> DEFINE L == Len(t.order)
           p == Popped(t, n)
<1>1. /\ t.order \in Seq(1 .. m) /\ L \in Nat /\ DOMAIN t.order = 1 .. L /\ n \in Nat /\ n <= L
      /\ \A i \in 1 .. L : t.order[i] \in 1 .. m
  BY DEF TableOK
<1>0. L \in Nat /\ n \in Nat /\ n <= L
  BY <1>1
<1>2. /\ p.order = SubSeq(t.order, n + 1, L)
      /\ p.live = [id \in DOMAIN t.live \ {t.order[i] : i \in 1 .. n} |-> t.live[id]]
  BY DEF Popped
<1>3. /\ p.order \in Seq(1 .. m)
      /\ Len(p.order) = L - n
      /\ \A i \in 1 .. (L - n) : p.order[i] = t.order[i + n]
  <2>1. \A i \in (n + 1) .. L : t.order[i] \in 1 .. m
    BY <1>1
  <2>2. /\ SubSeq(t.order, n + 1, L) \in Seq(1 .. m)
        /\ Len(SubSeq(t.order, n + 1, L)) = IF n + 1 <= L THEN L - (n + 1) + 1 ELSE 0
        /\ \A i \in 1 .. L - (n + 1) + 1 : SubSeq(t.order, n + 1, L)[i] = t.order[(n + 1) + i - 1]
    <3>. HIDE DEF L
    <3>. QED BY <1>1, <2>1, SubSeqProperties
  <2>. HIDE DEF L
  <2>. QED BY <1>1, <1>2, <2>2
<1>4. /\ DOMAIN p.live = DOMAIN t.live \ {t.order[i] : i \in 1 .. n}
      /\ \A id \in DOMAIN p.live : p.live[id] = t.live[id]
  BY <1>2
<1>5. DOMAIN p.order = 1 .. (L - n)
  <2>. HIDE DEF p, L
  <2>. QED BY <1>3
<1>. HIDE DEF p, L
<1>6. DOMAIN t.live = {t.order[i] : i \in 1 .. L}
  BY <1>1 DEF TableOK
<1>7. \A i, j \in 1 .. L : i < j => t.order[i] < t.order[j] /\ t.live[t.order[i]] <= t.live[t.order[j]]
  BY <1>1 DEF TableOK
<1>8. DOMAIN p.live = {p.order[i] : i \in 1 .. (L - n)}
  <2>1. ASSUME NEW id \in DOMAIN p.live PROVE \E i \in 1 .. (L - n) : p.order[i] = id
    <3>1. PICK k \in 1 .. L : t.order[k] = id
      BY <1>4, <1>6
    <3>2. k \notin 1 .. n
      BY <1>4, <2>1, <3>1
    <3>3. k - n \in 1 .. (L - n) /\ (k - n) + n = k
      BY <1>1, <3>2
    <3>. QED BY <1>3, <3>1, <3>3
  <2>2. ASSUME NEW i \in 1 .. (L - n) PROVE p.order[i] \in DOMAIN p.live
    <3>0. i + n \in 1 .. L /\ i + n \in Nat
      BY <1>0
    <3>1. i + n \in 1 .. L /\ p.order[i] = t.order[i + n] /\ i + n \in Nat
      BY <1>3, <3>0
    <3>2. ASSUME NEW j \in 1 .. n PROVE t.order[j] # t.order[i + n]
      <4>1. j \in 1 .. L /\ j < i + n
        BY <1>0
      <4>2. t.order[j] < t.order[i + n]
        BY <1>7, <3>1, <4>1
      <4>3. t.order[j] \in 1 .. m /\ t.order[i + n] \in 1 .. m
        <5>1. \A k \in 1 .. L : t.order[k] \in 1 .. m
          BY <1>1
        <5>. QED BY <3>1, <4>1, <5>1
      <4>. QED BY <4>2, <4>3
    <3>. QED BY <1>4, <1>6, <3>1, <3>2
  <2>. QED BY <2>1, <2>2
<1>9. ASSUME NEW i \in 1 .. (L - n)
      PROVE  /\ i + n \in 1 .. L /\ p.order[i] = t.order[i + n]
             /\ p.live[p.order[i]] = t.live[t.order[i + n]]
  <2>0. i + n \in 1 .. L
    BY <1>0
  <2>1. i + n \in 1 .. L /\ p.order[i] = t.order[i + n]
    BY <1>3, <2>0
  <2>2. p.order[i] \in DOMAIN p.live
    BY <1>8
  <2>. QED BY <1>4, <2>1, <2>2
<1>10. \A i \in 1 .. L : t.live[t.order[i]] \in 0 .. at
  BY <1>1 DEF TableOK
<1>11. \A i \in DOMAIN p.order : p.live[p.order[i]] \in 0 .. at
  BY <1>5, <1>9, <1>10
<1>12. ASSUME NEW i \in DOMAIN p.order, NEW j \in DOMAIN p.order, i < j
       PROVE  p.order[i] < p.order[j] /\ p.live[p.order[i]] <= p.live[p.order[j]]
  <2>0. i \in 1 .. (L - n) /\ j \in 1 .. (L - n)
    BY <1>5
  <2>1. i + n < j + n /\ i + n \in 1 .. L /\ j + n \in 1 .. L
    BY <1>0, <1>12, <2>0
  <2>. QED BY <1>7, <1>9, <2>0, <2>1
<1>13. TableOK(p, m, at)
  BY <1>3, <1>5, <1>8, <1>11, <1>12 DEF TableOK
<1>. QED
  BY <1>3, <1>4, <1>13 DEF p, L

\* What Expire leaves has not expired: the sessions go in the order they were
\* established, so the first that is live is followed by none that is not.
LEMMA ExpiryLeavesTheLive ==
  ASSUME NEW t, NEW m \in Nat, NEW at \in Nat, TableOK(t, m, at)
  PROVE  /\ TableOK(Expire(t, at), m, at)
         /\ DOMAIN Expire(t, at).live \subseteq DOMAIN t.live
         /\ \A id \in DOMAIN Expire(t, at).live : at - Expire(t, at).live[id] < SESSION_TTL
<1> DEFINE L == Len(t.order)
           gone == {i \in DOMAIN t.order :
                      \A j \in 1 .. i : at - t.live[t.order[j]] >= SESSION_TTL}
           n == Cardinality(gone)
           p == Popped(t, n)
<1>1. L \in Nat /\ DOMAIN t.order = 1 .. L /\ gone \subseteq 1 .. L
  BY DEF TableOK
<1>2. \A i \in gone : 1 .. i \subseteq gone
  <2>. HIDE DEF L
  <2>. QED BY <1>1
<1>3. /\ IsFiniteSet(1 .. L) /\ IsFiniteSet(gone)
      /\ n \in Nat /\ n <= L
  <2>1. IsFiniteSet(1 .. L) /\ Cardinality(1 .. L) = L
    <3>. HIDE DEF L
    <3>. QED BY <1>1, FS_Interval
  <2>2. IsFiniteSet(gone) /\ Cardinality(gone) <= Cardinality(1 .. L)
    BY <1>1, <2>1, FS_Subset
  <2>3. Cardinality(gone) \in Nat
    BY <2>2, FS_CardinalityType
  <2>. QED BY <2>1, <2>2, <2>3
<1>4. gone = 1 .. n
  <2>1. ASSUME NEW i \in gone PROVE i \in 1 .. n
    <3>1. i \in Nat /\ i >= 1
      BY <1>1
    <3>2. Cardinality(1 .. i) = i
      BY <3>1, FS_Interval
    <3>3. Cardinality(1 .. i) <= Cardinality(gone)
      BY <1>2, <1>3, FS_Subset
    <3>. QED BY <1>3, <3>1, <3>2, <3>3
  <2>2. IsFiniteSet(1 .. n) /\ Cardinality(1 .. n) = n
    <3>1. n \in Nat
      BY <1>3
    <3>. HIDE DEF n
    <3>. QED BY <3>1, FS_Interval
  <2>3. gone \subseteq 1 .. n
    BY <2>1
  <2>. QED BY <2>2, <2>3, FS_Subset
<1>5. Expire(t, at) = p
  BY DEF Expire
<1>6. n + 1 \in 1 .. L => at - t.live[t.order[n + 1]] < SESSION_TTL
  <2>. SUFFICES ASSUME n + 1 \in 1 .. L, ~ (at - t.live[t.order[n + 1]] < SESSION_TTL)
                PROVE  FALSE
    OBVIOUS
  <2>1. at - t.live[t.order[n + 1]] >= SESSION_TTL
    <3>1. t.live[t.order[n + 1]] \in 0 .. at
      BY <1>1 DEF TableOK
    <3>. HIDE DEF n
    <3>. QED BY <3>1, SessionsAssumption, SMTT(30)
  <2>2. \A j \in 1 .. n : at - t.live[t.order[j]] >= SESSION_TTL
    <3>. SUFFICES ASSUME NEW j \in 1 .. n PROVE at - t.live[t.order[j]] >= SESSION_TTL
      OBVIOUS
    <3>1. j \in gone /\ j \in 1 .. j
      BY <1>3, <1>4
    <3>. QED BY <3>1
  <2>3. \A j \in 1 .. (n + 1) : j \in 1 .. n \/ j = n + 1
    BY <1>3
  <2>4. n + 1 \in gone
    BY <1>1, <2>1, <2>2, <2>3
  <2>5. n \in Nat
    BY <1>3
  <2>. HIDE DEF n, gone
  <2>. QED BY <1>4, <2>4, <2>5
<1>. HIDE DEF n, gone
<1>7. n \in 0 .. L
  BY <1>1, <1>3
<1>8. /\ TableOK(p, m, at)
      /\ Len(p.order) = L - n
      /\ \A i \in 1 .. (L - n) : p.order[i] = t.order[i + n]
      /\ DOMAIN p.live \subseteq DOMAIN t.live
      /\ \A id \in DOMAIN p.live : p.live[id] = t.live[id]
  BY <1>7, PoppingLeavesATable
<1>. HIDE DEF p
<1>9. ASSUME NEW id \in DOMAIN p.live PROVE at - p.live[id] < SESSION_TTL
  <2>1. PICK i \in 1 .. (L - n) : p.order[i] = id
    <3>1. DOMAIN p.order = 1 .. (L - n)
      <4>1. p.order \in Seq(1 .. m)
        BY <1>8 DEF TableOK
      <4>. QED BY <1>8, <4>1
    <3>. QED BY <1>8, <3>1 DEF TableOK
  <2>2. p.live[id] = t.live[t.order[i + n]] /\ i + n \in 1 .. L /\ n + 1 \in 1 .. L
    BY <1>1, <1>3, <1>8, <2>1, SMTT(30)
  <2>3. t.live[t.order[n + 1]] <= t.live[t.order[i + n]]
    <3>1. CASE i = 1
      <4>1. t.live[t.order[n + 1]] \in 0 .. at
        BY <1>1, <2>2 DEF TableOK
      <4>. QED BY <1>3, <3>1, <4>1
    <3>2. CASE i # 1
      <4>1. n + 1 < i + n
        BY <1>3, <2>1, <3>2
      <4>. QED BY <1>1, <2>2, <4>1 DEF TableOK
    <3>. QED BY <3>1, <3>2
  <2>4. t.live[t.order[n + 1]] \in 0 .. at /\ t.live[t.order[i + n]] \in 0 .. at
    BY <1>1, <2>2 DEF TableOK
  <2>5. at - t.live[t.order[n + 1]] < SESSION_TTL
    BY <1>6, <2>2
  <2>. DEFINE first == t.live[t.order[n + 1]]
              this == t.live[t.order[i + n]]
  <2>6. at - this < SESSION_TTL
    <3>1. first \in Nat /\ this \in Nat /\ first <= this /\ at - first < SESSION_TTL
      BY <2>3, <2>4, <2>5
    <3>. HIDE DEF first, this
    <3>. QED BY <3>1, SessionsAssumption
  <2>. QED BY <2>2, <2>6
<1>. QED
  BY <1>5, <1>8, <1>9

\* A live session is one of the table's ids, and of a time it has seen.
LEMMA LiveIsInTheTable ==
  ASSUME NEW t, NEW m \in Nat, NEW at \in Nat, TableOK(t, m, at), NEW id \in DOMAIN t.live
  PROVE  id \in 1 .. m /\ t.live[id] \in 0 .. at
<1>1. PICK i \in DOMAIN t.order : t.order[i] = id
  BY DEF TableOK
<1>2. t.order[i] \in 1 .. m
  <2>1. t.order \in Seq(1 .. m)
    BY DEF TableOK
  <2>. QED BY <2>1
<1>3. t.live[t.order[i]] \in 0 .. at
  BY SMTT(30) DEF TableOK
<1>. QED
  BY <1>1, <1>2, <1>3

\* A new session joins at the end: it is the last drawn and the last established.
LEMMA JoiningKeepsTheTable ==
  ASSUME NEW t, NEW m \in Nat, NEW at \in Nat, TableOK(t, m, at),
         NEW u, u.order = Append(t.order, m + 1),
         u.live = [id \in DOMAIN t.live \cup {m + 1} |-> IF id = m + 1 THEN at ELSE t.live[id]]
  PROVE  TableOK(u, m + 1, at)
<1> DEFINE L == Len(t.order)
<1>1. t.order \in Seq(1 .. m) /\ L \in Nat /\ DOMAIN t.order = 1 .. L
  BY DEF TableOK
<1>2. \A i \in 1 .. L : t.order[i] \in 1 .. m
  BY <1>1, SMTT(30)
<1>3. t.order \in Seq(1 .. (m + 1)) /\ m + 1 \in 1 .. (m + 1)
  <2>1. \A i \in 1 .. L : t.order[i] \in 1 .. (m + 1)
    <3>. SUFFICES ASSUME NEW i \in 1 .. L PROVE t.order[i] \in 1 .. (m + 1)
      OBVIOUS
    <3>1. t.order[i] \in 1 .. m
      BY <1>2
    <3>. QED BY <3>1
  <2>2. t.order = [i \in 1 .. L |-> t.order[i]]
    BY <1>1
  <2>. HIDE DEF L
  <2>. QED BY <1>1, <2>1, <2>2, IsASeq
<1>4. /\ u.order \in Seq(1 .. (m + 1))
      /\ Len(u.order) = L + 1
      /\ \A i \in 1 .. L : u.order[i] = t.order[i]
      /\ u.order[L + 1] = m + 1
  BY <1>3, AppendProperties
<1>5. DOMAIN u.order = 1 .. (L + 1)
  BY <1>4
<1>. HIDE DEF L
<1>6. \A i \in 1 .. (L + 1) : i \in 1 .. L \/ i = L + 1
  BY <1>1
<1>7. 1 .. L \subseteq 1 .. (L + 1) /\ L + 1 \in 1 .. (L + 1)
  BY <1>1
<1>8. /\ DOMAIN u.live = DOMAIN t.live \cup {m + 1}
      /\ u.live[m + 1] = at
      /\ \A id \in DOMAIN t.live : id # m + 1 => u.live[id] = t.live[id]
  OBVIOUS
<1>9. DOMAIN t.live = {t.order[i] : i \in 1 .. L}
  BY <1>1 DEF TableOK
<1>10. DOMAIN u.live = {u.order[i] : i \in 1 .. (L + 1)}
  <2>1. ASSUME NEW id \in DOMAIN u.live PROVE \E i \in 1 .. (L + 1) : u.order[i] = id
    BY <1>4, <1>7, <1>8, <1>9
  <2>2. ASSUME NEW i \in 1 .. (L + 1) PROVE u.order[i] \in DOMAIN u.live
    BY <1>4, <1>6, <1>8, <1>9
  <2>. DEFINE D == DOMAIN u.live
  <2>3. \A id \in D : \E i \in 1 .. (L + 1) : u.order[i] = id
    BY <2>1
  <2>4. \A i \in 1 .. (L + 1) : u.order[i] \in D
    BY <2>2
  <2>. HIDE DEF D
  <2>5. D = {u.order[i] : i \in 1 .. (L + 1)}
    BY <2>3, <2>4
  <2>. QED BY <2>5 DEF D
<1>11. ASSUME NEW i \in 1 .. L
       PROVE  u.live[u.order[i]] = t.live[t.order[i]] /\ t.live[t.order[i]] \in 0 .. at
  <2>1. t.order[i] \in DOMAIN t.live /\ t.order[i] # m + 1
    BY <1>2, <1>9
  <2>2. t.live[t.order[i]] \in 0 .. at
    BY <1>1 DEF TableOK
  <2>. QED BY <1>4, <1>8, <2>1, <2>2
<1>12. \A i \in 1 .. (L + 1) : u.live[u.order[i]] \in 0 .. at
  <2>1. u.live[u.order[L + 1]] \in 0 .. at
    BY <1>4, <1>8
  <2>. QED BY <1>6, <1>11, <2>1
<1>13. ASSUME NEW i \in 1 .. (L + 1), NEW j \in 1 .. (L + 1), i < j
       PROVE  u.order[i] < u.order[j] /\ u.live[u.order[i]] <= u.live[u.order[j]]
  <2>1. i \in 1 .. L
    BY <1>1, <1>13
  <2>2. CASE j \in 1 .. L
    <3>1. t.order[i] < t.order[j] /\ t.live[t.order[i]] <= t.live[t.order[j]]
      BY <1>1, <1>13, <2>1, <2>2 DEF TableOK
    <3>. QED BY <1>4, <1>11, <2>1, <2>2, <3>1
  <2>3. CASE j = L + 1
    <3>1. t.order[i] \in 1 .. m /\ t.live[t.order[i]] \in 0 .. at
      BY <1>2, <1>11, <2>1
    <3>2. t.order[i] < m + 1 /\ t.live[t.order[i]] <= at
      BY <3>1
    <3>. QED BY <1>4, <1>8, <1>11, <2>1, <2>3, <3>2
  <2>. QED BY <1>6, <2>2, <2>3
<1>. QED
  BY <1>4, <1>5, <1>10, <1>12, <1>13 DEF TableOK

\* Who is let in: on a session of the table that has not expired, or on a new one.
LEMMA AdmissionIsFresh ==
  ASSUME NEW t, NEW m \in Nat, NEW at \in Nat, TableOK(t, m, at), NEW presented, NEW a,
         a = Admit(t, presented, m + 1, at)
  PROVE  \/ /\ a.freshness = "Live"
            /\ a.session \in presented /\ a.session \in DOMAIN a.table.live
            /\ at - a.table.live[a.session] < SESSION_TTL
            /\ TableOK(a.table, m, at)
            /\ DOMAIN a.table.live \subseteq DOMAIN t.live
         \/ /\ a.freshness = "Established"
            /\ a.session = m + 1 /\ a.session \in DOMAIN a.table.live
            /\ TableOK(a.table, m + 1, at)
            /\ DOMAIN a.table.live \subseteq DOMAIN t.live \cup {m + 1}
<1> DEFINE current == Expire(t, at)
           kept == presented \cap DOMAIN current.live
           n == Len(current.order)
           k == IF n >= MAX_SESSIONS THEN n - MAX_SESSIONS + 1 ELSE 0
           room == Popped(current, k)
           joined == [live  |-> [id \in DOMAIN room.live \cup {m + 1} |->
                                   IF id = m + 1 THEN at ELSE room.live[id]],
                      order |-> Append(room.order, m + 1)]
<1>1. /\ TableOK(current, m, at)
      /\ DOMAIN current.live \subseteq DOMAIN t.live
      /\ \A id \in DOMAIN current.live : at - current.live[id] < SESSION_TTL
  BY ExpiryLeavesTheLive
<1>2. room = Evict(current)
  BY DEF Evict
<1>3. a = IF kept # {}
            THEN [table |-> current, session |-> CHOOSE id \in kept : TRUE, freshness |-> "Live"]
            ELSE [table |-> joined, session |-> m + 1, freshness |-> "Established"]
  <2>. HIDE DEF room, current
  <2>. QED BY <1>2 DEF Admit, current
<1>. HIDE DEF current
<1>4. CASE kept # {}
  <2>1. a.session \in kept
    BY <1>3, <1>4
  <2>. QED BY <1>1, <1>3, <1>4, <2>1
<1>5. CASE kept = {}
  <2>1. n \in Nat
    <3>1. current.order \in Seq(1 .. m)
      BY <1>1 DEF TableOK
    <3>. QED BY <3>1
  <2>2. k \in 0 .. n
    <3>. HIDE DEF n
    <3>. QED BY <2>1, SessionsAssumption
  <2>3. TableOK(room, m, at) /\ DOMAIN room.live \subseteq DOMAIN current.live
    <3>. HIDE DEF k
    <3>. QED BY <1>1, <2>2, PoppingLeavesATable
  <2>. HIDE DEF room
  <2>4. TableOK(joined, m + 1, at)
    <3>1. /\ joined.order = Append(room.order, m + 1)
          /\ joined.live = [id \in DOMAIN room.live \cup {m + 1} |->
                              IF id = m + 1 THEN at ELSE room.live[id]]
      OBVIOUS
    <3>. HIDE DEF joined
    <3>. QED BY <2>3, <3>1, JoiningKeepsTheTable
  <2>5. DOMAIN joined.live = DOMAIN room.live \cup {m + 1}
    OBVIOUS
  <2>. HIDE DEF joined
  <2>6. a = [table |-> joined, session |-> m + 1, freshness |-> "Established"]
    BY <1>3, <1>5
  <2>. QED BY <1>1, <2>3, <2>4, <2>5, <2>6
<1>. QED
  BY <1>4, <1>5

\* The phases before the API answers its first request.
EARLY == {"down", "validated", "opening", "identity", "booted", "assembled"}

Ops == {q.op : q \in Requests}

\* What a handler holds, and what waits in the queue.
Held ==
  [op : Ops, body : {q.body : q \in Requests}, session : Nat, admitted : Nat,
   established : Nat, at : {"body", "saving", "queued"}, command : Nat]

Entries ==
  [op : Ops, session : Nat, admitted : Nat, established : Nat, command : Nat]

ApiTypeOK ==
  /\ now \in Nat /\ minted \in Nat
  /\ request \in [Clients -> SUBSET Held]
  /\ queue \in Seq(Entries)
  /\ TableOK(table, minted, now)

NothingEarly ==
  phase \in EARLY => table = EmptyTable /\ request = Idle /\ queue = <<>>

\* A boot id is saved in its phase alone, and every later save has a handler
\* that waits for it.
SavesInTheirPhase ==
  /\ \A w \in saving : w.kind = "boot" => phase = "identity"
  /\ saving # {} => phase \in {"identity", "booted"} \/ Waiting # {}

\* Whoever was told of a session that is live now was told of it by this boot.
ToldThisBoot ==
  \A h \in heard :
    /\ h.session \in 1 .. minted
    /\ h.session \in DOMAIN table.live => h = [session |-> h.session, boot |-> issued.boot]

\* Whatever can open water came on a session told before, fresh on arrival.
Vouched(x) ==
  x.op \in WATER =>
    /\ [session |-> x.session, boot |-> issued.boot] \in heard
    /\ x.admitted - x.established < SESSION_TTL

HandlersVouched ==
  \A c \in Clients : \A r \in request[c] : r.session \in 1 .. minted /\ Vouched(r)

QueueVouched ==
  \A i \in DOMAIN queue : queue[i].session \in 1 .. minted /\ Vouched(queue[i])

SessionInv ==
  /\ ApiTypeOK /\ NothingEarly /\ SavesInTheirPhase /\ ToldThisBoot
  /\ HandlersVouched /\ QueueVouched

\* A table stays one as ids are drawn and time goes by.
LEMMA TablesLast ==
  ASSUME NEW t, NEW m \in Nat, NEW at \in Nat, TableOK(t, m, at),
         NEW m2 \in Nat, NEW at2 \in Nat, m <= m2, at <= at2
  PROVE  TableOK(t, m2, at2)
<1>1. t.order \in Seq(1 .. m)
  BY DEF TableOK
<1>2. 1 .. m \subseteq 1 .. m2 /\ 0 .. at \subseteq 0 .. at2
  OBVIOUS
<1>3. t.order \in Seq(1 .. m2)
  <2>1. \A i \in 1 .. Len(t.order) : t.order[i] \in 1 .. m2
    BY <1>1, <1>2
  <2>2. t.order = [i \in 1 .. Len(t.order) |-> t.order[i]] /\ Len(t.order) \in Nat
    BY <1>1
  <2>. QED BY <2>1, <2>2, IsASeq
<1>. QED
  BY <1>2, <1>3 DEF TableOK

LEMMA NoSessionsIsATable ==
  ASSUME NEW m \in Nat, NEW at \in Nat
  PROVE  TableOK(EmptyTable, m, at) /\ DOMAIN EmptyTable.live = {}
<1>1. EmptyTable.order = <<>> /\ EmptyTable.live = <<>>
  BY DEF EmptyTable
<1>2. <<>> \in Seq(1 .. m) /\ DOMAIN <<>> = {}
  BY EmptySeq
<1>. QED
  BY <1>1, <1>2 DEF TableOK

\* The end of a process leaves nobody waiting and nobody live.
LEMMA EndsKeepSessions ==
  ASSUME SessionInv, NEW why, Ends(why), saving' = {}
  PROVE  SessionInv'
<1>1. /\ phase' = "down" /\ now' = 0 /\ table' = EmptyTable /\ request' = Idle /\ queue' = <<>>
      /\ UNCHANGED <<minted, heard>>
  BY DEF Ends
<1>2. minted \in Nat /\ TableOK(EmptyTable, minted, 0) /\ DOMAIN EmptyTable.live = {}
  BY NoSessionsIsATable DEF SessionInv, ApiTypeOK
<1>3. Idle \in [Clients -> SUBSET Held] /\ \A c \in Clients : Idle[c] = {}
  BY DEF Idle
<1>4. <<>> \in Seq(Entries) /\ DOMAIN <<>> = {}
  BY EmptySeq
<1>5. ApiTypeOK'
  BY <1>1, <1>2, <1>3, <1>4 DEF ApiTypeOK
<1>6. NothingEarly'
  BY <1>1 DEF NothingEarly
<1>7. SavesInTheirPhase'
  BY DEF SavesInTheirPhase
<1>8. ToldThisBoot'
  BY <1>1, <1>2 DEF ToldThisBoot, SessionInv
<1>9. HandlersVouched' /\ QueueVouched'
  BY <1>1, <1>3, <1>4 DEF HandlersVouched, QueueVouched
<1>. QED
  BY <1>5, <1>6, <1>7, <1>8, <1>9 DEF SessionInv

\* The process moves on and the API stands; a boot id comes only to an API that
\* has not started.
LEMMA StandingKeepsSessions ==
  ASSUME SessionInv, UNCHANGED apiVars,
         issued'.boot = issued.boot \/ phase \in EARLY,
         phase' \in EARLY => phase \in EARLY,
         SavesInTheirPhase'
  PROVE  SessionInv'
<1>1. ApiTypeOK' /\ NothingEarly'
  BY DEF apiVars, SessionInv, ApiTypeOK, NothingEarly
<1>2. CASE issued'.boot = issued.boot
  BY <1>1, <1>2
  DEF apiVars, SessionInv, ToldThisBoot, HandlersVouched, QueueVouched, Vouched
<1>3. CASE phase \in EARLY
  <2>1. table = EmptyTable /\ request = Idle /\ queue = <<>> /\ minted \in Nat
    BY <1>3 DEF SessionInv, NothingEarly, ApiTypeOK
  <2>2. /\ DOMAIN table'.live = {}
        /\ \A c \in Clients : request'[c] = {}
        /\ DOMAIN queue' = {}
    <3>1. DOMAIN EmptyTable.live = {}
      BY <2>1, NoSessionsIsATable
    <3>2. DOMAIN <<>> = {}
      BY EmptySeq
    <3>. QED BY <2>1, <3>1, <3>2 DEF apiVars, Idle
  <2>3. ToldThisBoot'
    BY <2>2 DEF ToldThisBoot, SessionInv, apiVars
  <2>4. HandlersVouched' /\ QueueVouched'
    BY <2>2 DEF HandlersVouched, QueueVouched
  <2>. QED BY <1>1, <2>3, <2>4 DEF SessionInv
<1>. QED
  BY <1>2, <1>3

\* The same request, further on.
Same(x, y) ==
  /\ x.op = y.op /\ x.session = y.session
  /\ x.admitted = y.admitted /\ x.established = y.established

\* What a step may do with the requests under way: pass them on, and answer.
PassesOn ==
  /\ request' \in [Clients -> SUBSET Held] /\ queue' \in Seq(Entries)
  /\ heard \subseteq heard'
  /\ \A c \in Clients : \A r \in request'[c] : \E was \in request[c] : Same(r, was)
  /\ \A i \in DOMAIN queue' :
       \/ \E j \in DOMAIN queue : queue'[i] = queue[j]
       \/ \E c \in Clients : \E was \in request[c] : Same(queue'[i], was)
  /\ \A h \in heard' :
       \/ h \in heard
       \/ /\ h = [session |-> h.session, boot |-> issued.boot]
          /\ \/ \E c \in Clients : \E was \in request[c] : h.session = was.session
             \/ \E j \in DOMAIN queue : h.session = queue[j].session

LEMMA PassingKeepsSessions ==
  ASSUME SessionInv, PassesOn, UNCHANGED <<now, table, minted>>, issued'.boot = issued.boot,
         phase \notin EARLY, phase' \notin EARLY, SavesInTheirPhase'
  PROVE  SessionInv'
<1>1. ApiTypeOK' /\ NothingEarly'
  BY DEF SessionInv, ApiTypeOK, NothingEarly, PassesOn
<1>2. ASSUME NEW x, NEW y, Vouched(y), Same(x, y) PROVE Vouched(x)'
  BY <1>2 DEF Vouched, Same, PassesOn
<1>3. ASSUME NEW h \in heard'
      PROVE  h.session \in 1 .. minted
             /\ (h.session \in DOMAIN table.live
                   => h = [session |-> h.session, boot |-> issued.boot])
  <2>1. CASE h \in heard
    BY <2>1 DEF SessionInv, ToldThisBoot
  <2>2. CASE h \notin heard
    <3>1. h = [session |-> h.session, boot |-> issued.boot]
      BY <2>2 DEF PassesOn
    <3>2. h.session \in 1 .. minted
      BY <2>2 DEF PassesOn, SessionInv, HandlersVouched, QueueVouched
    <3>. QED BY <3>1, <3>2
  <2>. QED BY <2>1, <2>2
<1>4. ToldThisBoot'
  BY <1>3 DEF ToldThisBoot
<1>5. ASSUME NEW c \in Clients, NEW r \in request'[c]
      PROVE  r.session \in 1 .. minted /\ Vouched(r)'
  <2>1. PICK was \in request[c] : Same(r, was)
    BY DEF PassesOn
  <2>2. was.session \in 1 .. minted /\ Vouched(was)
    BY DEF SessionInv, HandlersVouched
  <2>3. r.session \in 1 .. minted
    BY <2>1, <2>2 DEF Same
  <2>. QED BY <1>2, <2>1, <2>2, <2>3
<1>6. HandlersVouched'
  BY <1>5 DEF HandlersVouched
<1>7. ASSUME NEW i \in DOMAIN queue', NEW x, x = queue'[i]
      PROVE  x.session \in 1 .. minted /\ Vouched(x)'
  <2>1. CASE \E j \in DOMAIN queue : x = queue[j]
    <3>1. PICK j \in DOMAIN queue : x = queue[j]
      BY <2>1
    <3>2. queue[j].session \in 1 .. minted /\ Vouched(queue[j])
      BY DEF SessionInv, QueueVouched
    <3>3. Same(x, queue[j])
      BY <3>1 DEF Same
    <3>. QED BY <1>2, <3>1, <3>2, <3>3
  <2>2. CASE \E c \in Clients : \E was \in request[c] : Same(x, was)
    <3>0. PICK c \in Clients : \E was \in request[c] : Same(x, was)
      BY <2>2
    <3>1. PICK was \in request[c] : Same(x, was)
      BY <3>0
    <3>2. was.session \in 1 .. minted /\ Vouched(was)
      BY DEF SessionInv, HandlersVouched
    <3>3. x.session \in 1 .. minted
      BY <3>1, <3>2 DEF Same
    <3>. QED BY <1>2, <3>1, <3>2, <3>3
  <2>. QED BY <1>7, <2>1, <2>2 DEF PassesOn
<1>8. QueueVouched'
  BY <1>7 DEF QueueVouched, Vouched
<1>. QED
  BY <1>1, <1>4, <1>6, <1>8 DEF SessionInv

\* Nobody waits before the API has started.
LEMMA WaitingIsServing ==
  ASSUME SessionInv, NEW c \in Clients, request[c] # {}
  PROVE  phase \notin EARLY
<1>1. request # Idle
  BY DEF Idle
<1>. QED
  BY <1>1 DEF SessionInv, NothingEarly

LEMMA AnsweringPassesOn ==
  ASSUME SessionInv, NEW c \in Clients, Answered(c), UNCHANGED queue
  PROVE  PassesOn
<1>1. request \in [Clients -> SUBSET Held] /\ queue \in Seq(Entries)
  BY DEF SessionInv, ApiTypeOK
<1>2. request' = [request EXCEPT ![c] = {}] /\ queue' = queue
  BY DEF Answered
<1>3. heard' = heard \cup {[session |-> r.session, boot |-> issued.boot] : r \in request[c]}
  BY DEF Answered
<1>4. request' \in [Clients -> SUBSET Held]
  BY <1>1, <1>2
<1>5. \A d \in Clients : \A r \in request'[d] : \E was \in request[d] : Same(r, was)
  BY <1>1, <1>2 DEF Same
<1>6. \A h \in heard' :
        h \in heard \/ /\ h = [session |-> h.session, boot |-> issued.boot]
                       /\ \E was \in request[c] : h.session = was.session
  BY <1>3
<1>. QED
  BY <1>1, <1>2, <1>3, <1>4, <1>5, <1>6 DEF PassesOn

\* A handler that goes on holding its request, at another place.
LEMMA HoldingPassesOn ==
  ASSUME SessionInv, NEW c \in Clients, NEW r \in request[c],
         NEW at \in {"body", "saving", "queued"}, NEW id \in Nat,
         NEW next, next = [r EXCEPT !.at = at, !.command = id],
         request' = [request EXCEPT ![c] = {next}]
  PROVE  /\ request' \in [Clients -> SUBSET Held]
         /\ \A d \in Clients : \A x \in request'[d] : \E was \in request[d] : Same(x, was)
<1>1. request \in [Clients -> SUBSET Held]
  BY DEF SessionInv, ApiTypeOK
<1>2. r \in Held
  BY <1>1
<1>3. r = [op |-> r.op, body |-> r.body, session |-> r.session, admitted |-> r.admitted,
           established |-> r.established, at |-> r.at, command |-> r.command]
  BY <1>2 DEF Held
<1>4. next = [op |-> r.op, body |-> r.body, session |-> r.session, admitted |-> r.admitted,
              established |-> r.established, at |-> at, command |-> id]
  BY <1>3
<1>5. next \in Held
  BY <1>2, <1>4 DEF Held
<1>6. Same(next, r)
  BY <1>4 DEF Same
<1>7. request' \in [Clients -> SUBSET Held]
  BY <1>1, <1>5
<1>8. ASSUME NEW d \in Clients, NEW x \in request'[d]
      PROVE  \E was \in request[d] : Same(x, was)
  <2>1. CASE d = c
    BY <1>1, <1>6, <1>8, <2>1
  <2>2. CASE d # c
    BY <1>1, <1>8, <2>2 DEF Same
  <2>. QED BY <2>1, <2>2
<1>. QED
  BY <1>7, <1>8

LEMMA EnqueuingPassesOn ==
  ASSUME SessionInv, NEW c \in Clients, NEW id \in Nat, Enqueue(c, id)
  PROVE  PassesOn
<1>1. request \in [Clients -> SUBSET Held] /\ queue \in Seq(Entries)
  BY DEF SessionInv, ApiTypeOK
<1>2. CASE Answered(c) /\ UNCHANGED queue
  BY <1>2, AnsweringPassesOn
<1>3. CASE ~ (Answered(c) /\ UNCHANGED queue)
  <2>1. PICK r \in request[c] :
          /\ queue' = Append(queue, [op |-> r.op, session |-> r.session, admitted |-> r.admitted,
                                     established |-> r.established, command |-> id])
          /\ request' = [request EXCEPT ![c] = {[r EXCEPT !.at = "queued", !.command = id]}]
          /\ UNCHANGED heard
    BY <1>3 DEF Enqueue
  <2>. DEFINE e == [op |-> r.op, session |-> r.session, admitted |-> r.admitted,
                    established |-> r.established, command |-> id]
  <2>2. r \in Held
    BY <1>1
  <2>3. e \in Entries /\ Same(e, r)
    BY <2>2 DEF Entries, Held, Same
  <2>4. /\ request' \in [Clients -> SUBSET Held]
        /\ \A d \in Clients : \A x \in request'[d] : \E was \in request[d] : Same(x, was)
    <3>. DEFINE next == [r EXCEPT !.at = "queued", !.command = id]
    <3>1. request' = [request EXCEPT ![c] = {next}]
      BY <2>1
    <3>2. next = [r EXCEPT !.at = "queued", !.command = id]
      OBVIOUS
    <3>. HIDE DEF next
    <3>. QED BY <3>1, <3>2, HoldingPassesOn
  <2>5. queue' = Append(queue, e)
    BY <2>1
  <2>. HIDE DEF e
  <2>6. /\ queue' \in Seq(Entries)
        /\ \A i \in DOMAIN queue' : queue'[i] = e \/ \E j \in DOMAIN queue : queue'[i] = queue[j]
    BY <1>1, <2>3, <2>5, AppendProperties
  <2>7. \A i \in DOMAIN queue' :
          \/ \E j \in DOMAIN queue : queue'[i] = queue[j]
          \/ \E d \in Clients : \E was \in request[d] : Same(queue'[i], was)
    <3>1. ASSUME NEW i \in DOMAIN queue', queue'[i] = e
          PROVE  \E d \in Clients : \E was \in request[d] : Same(queue'[i], was)
      BY <2>3, <3>1
    <3>. QED BY <2>6, <3>1
  <2>. QED BY <2>1, <2>4, <2>6, <2>7 DEF PassesOn
<1>. QED
  BY <1>2, <1>3

\* Requests of some clients are answered, all others stand.
LEMMA DroppingKeepsTheRest ==
  ASSUME SessionInv, NEW asked \in SUBSET Clients,
         request' = [c \in Clients |-> IF c \in asked THEN {} ELSE request[c]]
  PROVE  /\ request' \in [Clients -> SUBSET Held]
         /\ \A c \in Clients : \A r \in request'[c] : \E was \in request[c] : Same(r, was)
<1>1. request \in [Clients -> SUBSET Held]
  BY DEF SessionInv, ApiTypeOK
<1>. QED
  BY <1>1 DEF Same

LEMMA TakingPassesOn ==
  ASSUME SessionInv, LoopTakes
  PROVE  PassesOn
<1>1. queue \in Seq(Entries) /\ queue # <<>>
  BY DEF SessionInv, ApiTypeOK, LoopTakes
<1> DEFINE asked == {c \in Clients : \E r \in request[c] :
                       r.at = "queued" /\ r.command = Head(queue).command}
<1>2. /\ request' = [c \in Clients |-> IF c \in asked THEN {} ELSE request[c]]
      /\ heard' = heard \cup {[session |-> Head(queue).session, boot |-> issued.boot] : c \in asked}
      /\ queue' = Tail(queue)
  BY DEF LoopTakes
<1>3. asked \in SUBSET Clients
  OBVIOUS
<1>. HIDE DEF asked
<1>4. /\ request' \in [Clients -> SUBSET Held]
      /\ \A c \in Clients : \A r \in request'[c] : \E was \in request[c] : Same(r, was)
  BY <1>2, <1>3, DroppingKeepsTheRest
<1>5. /\ queue' \in Seq(Entries)
      /\ \A i \in DOMAIN queue' : \E j \in DOMAIN queue : queue'[i] = queue[j]
  <2>1. /\ Tail(queue) \in Seq(Entries)
        /\ Len(Tail(queue)) = Len(queue) - 1
        /\ \A i \in 1 .. Len(Tail(queue)) : Tail(queue)[i] = queue[i + 1]
    BY <1>1, HeadTailProperties
  <2>2. DOMAIN queue = 1 .. Len(queue) /\ Len(queue) \in Nat
    BY <1>1
  <2>3. ASSUME NEW i \in DOMAIN queue' PROVE \E j \in DOMAIN queue : queue'[i] = queue[j]
    <3>1. i \in 1 .. (Len(queue) - 1)
      BY <1>2, <2>1
    <3>2. i + 1 \in DOMAIN queue
      BY <2>2, <3>1
    <3>. QED BY <1>2, <2>1, <3>1, <3>2
  <2>. QED BY <1>2, <2>1, <2>3
<1>6. 1 \in DOMAIN queue /\ Head(queue) = queue[1]
  BY <1>1
<1>7. ASSUME NEW h \in heard'
      PROVE  h \in heard \/ /\ h = [session |-> h.session, boot |-> issued.boot]
                            /\ \E j \in DOMAIN queue : h.session = queue[j].session
  BY <1>2, <1>6
<1>. QED
  BY <1>2, <1>4, <1>5, <1>7 DEF PassesOn

LEMMA DisconnectingPassesOn ==
  ASSUME SessionInv, NEW c \in Clients, Disconnect(c)
  PROVE  PassesOn
<1>1. request \in [Clients -> SUBSET Held] /\ queue \in Seq(Entries)
  BY DEF SessionInv, ApiTypeOK
<1>2. request' = [request EXCEPT ![c] = {}] /\ heard' = heard
  BY DEF Disconnect
<1>3. request' \in [Clients -> SUBSET Held]
  BY <1>1, <1>2
<1>4. \A d \in Clients : \A r \in request'[d] : \E was \in request[d] : Same(r, was)
  BY <1>1, <1>2 DEF Same
<1>5. queue' = queue \/ \E i \in DOMAIN queue : queue' = RemoveAt(queue, i)
  BY DEF Disconnect
<1>6. ASSUME NEW i \in DOMAIN queue, queue' = RemoveAt(queue, i)
      PROVE  /\ queue' \in Seq(Entries)
             /\ \A k \in DOMAIN queue' : \E j \in DOMAIN queue : queue'[k] = queue[j]
  <2>. DEFINE L == Len(queue)
              front == SubSeq(queue, 1, i - 1)
              back == SubSeq(queue, i + 1, L)
  <2>1. L \in Nat /\ DOMAIN queue = 1 .. L /\ i \in 1 .. L
    BY <1>1
  <2>2. \A k \in 1 .. L : queue[k] \in Entries
    BY <1>1
  <2>. HIDE DEF L
  <2>3. /\ front \in Seq(Entries) /\ Len(front) = i - 1
        /\ \A k \in 1 .. (i - 1) : front[k] = queue[k]
    <3>1. \A k \in 1 .. (i - 1) : queue[k] \in Entries
      BY <2>1, <2>2
    <3>2. /\ front \in Seq(Entries)
          /\ Len(front) = IF 1 <= i - 1 THEN (i - 1) - 1 + 1 ELSE 0
          /\ \A k \in 1 .. ((i - 1) - 1 + 1) : front[k] = queue[1 + k - 1]
      BY <2>1, <3>1, SubSeqProperties
    <3>. HIDE DEF front
    <3>. QED BY <2>1, <3>2
  <2>4. /\ back \in Seq(Entries) /\ Len(back) = L - i
        /\ \A k \in 1 .. (L - i) : back[k] = queue[k + i]
    <3>1. \A k \in (i + 1) .. L : queue[k] \in Entries
      BY <2>1, <2>2
    <3>2. /\ back \in Seq(Entries)
          /\ Len(back) = IF i + 1 <= L THEN L - (i + 1) + 1 ELSE 0
          /\ \A k \in 1 .. (L - (i + 1) + 1) : back[k] = queue[(i + 1) + k - 1]
      BY <2>1, <3>1, SubSeqProperties
    <3>. HIDE DEF back
    <3>3. Len(back) = L - i /\ L - (i + 1) + 1 = L - i
      BY <2>1, <3>2
    <3>4. ASSUME NEW k \in 1 .. (L - i) PROVE back[k] = queue[k + i]
      <4>1. (i + 1) + k - 1 = k + i
        BY <2>1
      <4>. QED BY <3>2, <3>3, <4>1
    <3>. QED BY <3>2, <3>3, <3>4
  <2>5. queue' = front \o back
    BY <1>6 DEF RemoveAt, L
  <2>. HIDE DEF front, back
  <2>6. /\ queue' \in Seq(Entries)
        /\ Len(queue') = (i - 1) + (L - i)
        /\ \A k \in 1 .. (i - 1) + (L - i) :
             queue'[k] = IF k <= i - 1 THEN front[k] ELSE back[k - (i - 1)]
    BY <2>3, <2>4, <2>5, ConcatProperties
  <2>7. ASSUME NEW k \in DOMAIN queue' PROVE \E j \in DOMAIN queue : queue'[k] = queue[j]
    <3>1. k \in 1 .. (i - 1) + (L - i)
      BY <2>6
    <3>2. CASE k <= i - 1
      <4>1. k \in 1 .. (i - 1) /\ k \in 1 .. L
        BY <2>1, <3>1, <3>2
      <4>. QED BY <2>1, <2>3, <2>6, <3>1, <3>2, <4>1
    <3>3. CASE ~ (k <= i - 1)
      <4>1. k - (i - 1) \in 1 .. (L - i) /\ (k - (i - 1)) + i \in 1 .. L
        BY <2>1, <3>1, <3>3
      <4>2. queue'[k] = back[k - (i - 1)]
        BY <2>6, <3>1, <3>3
      <4>. QED BY <2>1, <2>4, <4>1, <4>2
    <3>. QED BY <3>2, <3>3
  <2>. QED BY <2>6, <2>7
<1>7. /\ queue' \in Seq(Entries)
      /\ \A k \in DOMAIN queue' : \E j \in DOMAIN queue : queue'[k] = queue[j]
  BY <1>1, <1>5, <1>6
<1>. QED
  BY <1>2, <1>3, <1>4, <1>7 DEF PassesOn

LEMMA DrainingPassesOn ==
  ASSUME SessionInv, Drained
  PROVE  PassesOn
<1> DEFINE asked == {c \in Clients : \E r \in request[c] : r.at = "queued"}
<1>1. /\ queue' = <<>>
      /\ request' = [c \in Clients |-> IF c \in asked THEN {} ELSE request[c]]
      /\ heard' = heard \cup UNION {{[session |-> r.session, boot |-> issued.boot] :
                                      r \in request[c]} : c \in asked}
  BY DEF Drained
<1>2. asked \in SUBSET Clients
  OBVIOUS
<1>. HIDE DEF asked
<1>3. /\ request' \in [Clients -> SUBSET Held]
      /\ \A c \in Clients : \A r \in request'[c] : \E was \in request[c] : Same(r, was)
  BY <1>1, <1>2, DroppingKeepsTheRest
<1>4. queue' \in Seq(Entries) /\ DOMAIN queue' = {}
  BY <1>1, EmptySeq
<1>5. ASSUME NEW h \in heard'
      PROVE  h \in heard \/ /\ h = [session |-> h.session, boot |-> issued.boot]
                            /\ \E c \in Clients : \E was \in request[c] : h.session = was.session
  BY <1>1, <1>2
<1>. QED
  BY <1>1, <1>3, <1>4, <1>5 DEF PassesOn

\* The steps of the API itself.

LEMMA ArrivingKeepsSessions ==
  ASSUME SessionInv, NEW c \in Clients, Arrive(c)
  PROVE  SessionInv'
<1>1. /\ phase \in {"serving", "draining"} /\ saving = {} /\ request[c] = {}
      /\ UNCHANGED <<phase, now, queue, saving, issued>>
  BY DEF Arrive, Answering, processVars, idVars
<1>2. PICK q \in Requests, presented \in {{}} \cup {{h.session} : h \in heard} :
        LET a == Admit(table, presented, minted + 1, now)
        IN  /\ table' = a.table
            /\ minted' = IF a.freshness = "Established" THEN minted + 1 ELSE minted
            /\ IF q.op \in WATER /\ a.freshness # "Live"
                 THEN /\ heard' = heard \cup {[session |-> a.session, boot |-> issued.boot]}
                      /\ UNCHANGED request
                 ELSE /\ request' = [request EXCEPT ![c] =
                            {[op |-> q.op, body |-> q.body, session |-> a.session,
                              admitted |-> now, established |-> a.table.live[a.session],
                              at |-> "body", command |-> 0]}]
                      /\ UNCHANGED heard
  BY DEF Arrive
<1> DEFINE a == Admit(table, presented, minted + 1, now)
           new == [op |-> q.op, body |-> q.body, session |-> a.session,
                   admitted |-> now, established |-> a.table.live[a.session],
                   at |-> "body", command |-> 0]
<1>3. /\ now \in Nat /\ minted \in Nat /\ TableOK(table, minted, now)
      /\ request \in [Clients -> SUBSET Held] /\ queue \in Seq(Entries)
  BY DEF SessionInv, ApiTypeOK
<1>4. \/ /\ a.freshness = "Live"
         /\ a.session \in presented /\ a.session \in DOMAIN a.table.live
         /\ now - a.table.live[a.session] < SESSION_TTL
         /\ TableOK(a.table, minted, now)
         /\ DOMAIN a.table.live \subseteq DOMAIN table.live
      \/ /\ a.freshness = "Established"
         /\ a.session = minted + 1 /\ a.session \in DOMAIN a.table.live
         /\ TableOK(a.table, minted + 1, now)
         /\ DOMAIN a.table.live \subseteq DOMAIN table.live \cup {minted + 1}
  <2>1. now \in Nat /\ minted \in Nat /\ TableOK(table, minted, now)
    BY <1>3
  <2>2. ASSUME NEW b, b = Admit(table, presented, minted + 1, now)
        PROVE  \/ /\ b.freshness = "Live"
                  /\ b.session \in presented /\ b.session \in DOMAIN b.table.live
                  /\ now - b.table.live[b.session] < SESSION_TTL
                  /\ TableOK(b.table, minted, now)
                  /\ DOMAIN b.table.live \subseteq DOMAIN table.live
               \/ /\ b.freshness = "Established"
                  /\ b.session = minted + 1 /\ b.session \in DOMAIN b.table.live
                  /\ TableOK(b.table, minted + 1, now)
                  /\ DOMAIN b.table.live \subseteq DOMAIN table.live \cup {minted + 1}
    BY <2>1, <2>2, AdmissionIsFresh
  <2>. QED BY <2>2
<1>5. /\ table' = a.table
      /\ minted' = IF a.freshness = "Established" THEN minted + 1 ELSE minted
      /\ \/ /\ q.op \in WATER /\ a.freshness # "Live"
            /\ heard' = heard \cup {[session |-> a.session, boot |-> issued.boot]}
            /\ request' = request
         \/ /\ q.op \in WATER => a.freshness = "Live"
            /\ heard' = heard
            /\ request' = [request EXCEPT ![c] = {new}]
  BY <1>2
<1>. HIDE DEF a
<1>6. /\ minted' \in Nat /\ minted <= minted' /\ TableOK(a.table, minted', now)
      /\ a.session \in DOMAIN a.table.live
      /\ DOMAIN a.table.live \subseteq DOMAIN table.live \cup ((minted + 1) .. minted')
  BY <1>3, <1>4, <1>5
<1>7. a.session \in 1 .. minted' /\ a.table.live[a.session] \in 0 .. now
  BY <1>3, <1>6, LiveIsInTheTable
<1>8. new \in Held
  <2>1. /\ q.op \in Ops /\ q.body \in {p.body : p \in Requests}
        /\ a.session \in Nat /\ a.table.live[a.session] \in Nat
    BY <1>7 DEF Ops
  <2>. QED BY <1>3, <2>1 DEF Held
<1>9. heard \subseteq heard' /\ issued' = issued
  BY <1>1, <1>5
<1>10. ASSUME NEW x, Vouched(x) PROVE Vouched(x)'
  BY <1>9, <1>10 DEF Vouched
<1>11. \A h \in heard :
         /\ h.session \in 1 .. minted
         /\ h.session \in DOMAIN table.live => h = [session |-> h.session, boot |-> issued.boot]
  BY DEF SessionInv, ToldThisBoot
<1>12. ASSUME NEW h \in heard'
       PROVE  /\ h.session \in 1 .. minted'
              /\ h.session \in DOMAIN table'.live
                   => h = [session |-> h.session, boot |-> issued.boot]
  <2>1. CASE h \in heard
    <3>1. h.session \in 1 .. minted
      BY <1>11, <2>1
    <3>2. h.session \in 1 .. minted' /\ h.session \notin (minted + 1) .. minted'
      BY <1>3, <1>6, <3>1
    <3>. QED BY <1>5, <1>6, <1>11, <2>1, <3>2
  <2>2. CASE h \notin heard
    <3>1. h = [session |-> a.session, boot |-> issued.boot]
      BY <1>5, <1>12, <2>2
    <3>. QED BY <1>7, <3>1
  <2>. QED BY <2>1, <2>2
<1>13. ToldThisBoot'
  BY <1>9, <1>12 DEF ToldThisBoot
<1>14. ASSUME q.op \in WATER => a.freshness = "Live", NEW x, x = new
       PROVE  x.session \in 1 .. minted' /\ Vouched(x)'
  <2>1. ASSUME q.op \in WATER
        PROVE  /\ [session |-> a.session, boot |-> issued.boot] \in heard
               /\ now - a.table.live[a.session] < SESSION_TTL
    <3>1. /\ a.session \in presented /\ a.session \in DOMAIN table.live
          /\ now - a.table.live[a.session] < SESSION_TTL
      BY <1>4, <1>14, <2>1
    <3>2. PICK h \in heard : presented = {h.session}
      BY <3>1
    <3>3. h.session = a.session
      BY <3>1, <3>2
    <3>. QED BY <1>11, <3>1, <3>2, <3>3
  <2>2. q.op \in WATER => [session |-> a.session, boot |-> issued'.boot] \in heard'
    BY <1>9, <2>1
  <2>3. /\ x.session = a.session /\ x.op = q.op /\ x.admitted = now
        /\ x.established = a.table.live[a.session]
    BY <1>14
  <2>. HIDE DEF new
  <2>. QED BY <1>7, <2>1, <2>2, <2>3 DEF Vouched
<1>. HIDE DEF new
<1>15. \/ request' = request
       \/ /\ request' = [request EXCEPT ![c] = {new}]
          /\ q.op \in WATER => a.freshness = "Live"
  BY <1>5
<1>16. request' \in [Clients -> SUBSET Held]
  BY <1>3, <1>8, <1>15
<1>17. ASSUME NEW d \in Clients, NEW r \in request'[d]
       PROVE  r.session \in 1 .. minted' /\ Vouched(r)'
  <2>1. CASE r \in request[d]
    <3>1. r.session \in 1 .. minted /\ Vouched(r)
      BY <2>1 DEF SessionInv, HandlersVouched
    <3>2. r.session \in 1 .. minted'
      BY <1>3, <1>6, <3>1
    <3>. QED BY <1>10, <3>1, <3>2
  <2>2. CASE r \notin request[d]
    <3>1. r = new /\ (q.op \in WATER => a.freshness = "Live")
      BY <1>3, <1>15, <1>17, <2>2
    <3>. QED BY <1>14, <3>1
  <2>. QED BY <2>1, <2>2
<1>18. ASSUME NEW i \in DOMAIN queue, NEW x, x = queue[i]
       PROVE  x.session \in 1 .. minted' /\ Vouched(x)'
  <2>1. x.session \in 1 .. minted /\ Vouched(x)
    BY <1>18 DEF SessionInv, QueueVouched
  <2>2. x.session \in 1 .. minted'
    BY <1>3, <1>6, <2>1
  <2>. QED BY <1>10, <2>1, <2>2
<1>19. HandlersVouched' /\ QueueVouched'
  BY <1>1, <1>17, <1>18 DEF HandlersVouched, QueueVouched, Vouched
<1>20. ApiTypeOK' /\ NothingEarly' /\ SavesInTheirPhase'
  BY <1>1, <1>3, <1>5, <1>6, <1>16 DEF ApiTypeOK, NothingEarly, SavesInTheirPhase, EARLY
<1>. QED
  BY <1>13, <1>19, <1>20 DEF SessionInv

\* What the steps of the store leave of the ids: only a boot issues a boot id.
LEMMA BootIdStands ==
  ASSUME IdInv, NextCommand \/ (SaveSynced /\ \A w \in saving : w.kind # "boot")
  PROVE  issued'.boot = issued.boot
<1>1. issued \in Issued
  BY DEF IdInv, IdTypeOK, Issued
<1>2. PICK id \in Nat : IssueCommand(id)
  <2>1. \A s \in store : s.next + 1 \in Nat
    BY DEF IdInv, IdTypeOK, Counters
  <2>. QED BY <2>1 DEF NextCommand, SaveSynced
<1>. QED
  BY <1>1, <1>2, IssuingACommand

LEMMA HandlingKeepsSessions ==
  ASSUME SessionInv, IdInv, IdInv', NEW c \in Clients, Handle(c)
  PROVE  SessionInv'
<1>1. /\ phase \in {"serving", "draining", "closing"} /\ saving = {} /\ phase' = phase
      /\ UNCHANGED <<now, table, minted>>
  BY DEF Handle, processVars
<1>2. phase \notin EARLY /\ phase' \notin EARLY
  BY <1>1 DEF EARLY
<1>3. request \in [Clients -> SUBSET Held] /\ queue \in Seq(Entries)
  BY DEF SessionInv, ApiTypeOK
<1>4. CASE Answered(c) /\ UNCHANGED queue /\ UNCHANGED idVars
  <2>1. PassesOn
    BY <1>4, AnsweringPassesOn
  <2>2. SavesInTheirPhase'
    BY <1>1, <1>4 DEF SavesInTheirPhase, idVars
  <2>. QED BY <1>1, <1>2, <1>4, <2>1, <2>2, PassingKeepsSessions DEF idVars
<1>5. CASE NextCommand /\ Enqueue(c, issued'.command)
  <2>1. issued'.command \in Nat
    BY DEF IdInv, IdTypeOK
  <2>2. PassesOn
    <3>. DEFINE id == issued'.command
    <3>1. Enqueue(c, id) /\ id \in Nat
      BY <1>5, <2>1
    <3>. HIDE DEF id
    <3>. QED BY <3>1, EnqueuingPassesOn
  <2>3. SavesInTheirPhase' /\ issued'.boot = issued.boot
    BY <1>1, <1>5, BootIdStands DEF SavesInTheirPhase, NextCommand
  <2>. QED BY <1>1, <1>2, <2>2, <2>3, PassingKeepsSessions
<1>6. CASE \E r \in request[c] :
             /\ Reserve
             /\ request' = [request EXCEPT ![c] = {[r EXCEPT !.at = "saving"]}]
             /\ UNCHANGED <<queue, heard>>
  <2>1. PICK r \in request[c] :
             /\ Reserve
             /\ request' = [request EXCEPT ![c] = {[r EXCEPT !.at = "saving"]}]
             /\ UNCHANGED <<queue, heard>>
    BY <1>6
  <2>2. r \in Held
    BY <1>3
  <2>. DEFINE next == [r EXCEPT !.at = "saving"]
  <2>3. r = [op |-> r.op, body |-> r.body, session |-> r.session, admitted |-> r.admitted,
             established |-> r.established, at |-> r.at, command |-> r.command]
        /\ r.command \in Nat
    BY <2>2 DEF Held
  <2>4. next = [op |-> r.op, body |-> r.body, session |-> r.session, admitted |-> r.admitted,
                established |-> r.established, at |-> "saving", command |-> r.command]
    BY <2>3
  <2>5. next = [r EXCEPT !.at = "saving", !.command = r.command]
    BY <2>3, <2>4
  <2>6. request' = [request EXCEPT ![c] = {next}]
    BY <2>1
  <2>7. next.at = "saving"
    BY <2>4
  <2>. HIDE DEF next
  <2>8. /\ request' \in [Clients -> SUBSET Held]
        /\ \A d \in Clients : \A x \in request'[d] : \E was \in request[d] : Same(x, was)
    BY <2>3, <2>5, <2>6, HoldingPassesOn
  <2>9. PassesOn
    BY <1>3, <2>1, <2>8 DEF PassesOn
  <2>10. c \in Waiting'
    <3>1. request'[c] = {next}
      BY <1>3, <2>6
    <3>. QED BY <2>7, <3>1 DEF Waiting
  <2>11. SavesInTheirPhase' /\ issued' = issued
    BY <2>1, <2>10 DEF SavesInTheirPhase, Reserve, Save
  <2>. QED BY <1>1, <1>2, <2>9, <2>11, PassingKeepsSessions
<1>. QED
  BY <1>4, <1>5, <1>6 DEF Handle

LEMMA SavingKeepsSessions ==
  ASSUME SessionInv, IdInv, IdInv', SaveStep \/ SaveDone \/ SaveFailed \/ DirectoryWrittenBack
  PROVE  SessionInv'
<1>1. CASE SaveStep
  <2>1. UNCHANGED <<phase, apiVars, issued>> /\ saving # {}
        /\ \A w \in saving' : \E v \in saving : w.kind = v.kind
    <3>1. PICK w \in saving : saving' = {[w EXCEPT !.at = "renamed"]}
      BY <1>1 DEF SaveStep, Rename
    <3>2. w = [kind |-> w.kind, counters |-> w.counters, at |-> w.at]
      BY DEF IdInv, IdTypeOK
    <3>3. [w EXCEPT !.at = "renamed"] = [kind |-> w.kind, counters |-> w.counters, at |-> "renamed"]
      BY <3>2
    <3>. QED BY <1>1, <3>1, <3>3 DEF SaveStep, Rename, processVars
  <2>2. Waiting' = Waiting
    BY <2>1 DEF Waiting, apiVars
  <2>3. SavesInTheirPhase'
    BY <2>1, <2>2 DEF SessionInv, SavesInTheirPhase
  <2>. QED BY <2>1, <2>3, StandingKeepsSessions
<1>2. CASE DirectoryWrittenBack
  <2>1. UNCHANGED <<phase, apiVars, issued, saving>>
    BY <1>2 DEF DirectoryWrittenBack, Writeback, processVars
  <2>2. Waiting' = Waiting
    BY <2>1 DEF Waiting, apiVars
  <2>3. SavesInTheirPhase'
    BY <2>1, <2>2 DEF SessionInv, SavesInTheirPhase
  <2>. QED BY <2>1, <2>3, StandingKeepsSessions
<1>3. CASE SaveFailed /\ phase \in {"identity", "booted"}
  <2>1. Fails("RUNTIME")
    BY <1>3 DEF SaveFailed
  <2>. DEFINE why == "RUNTIME"
  <2>2. Ends(why) /\ saving' = {}
    BY <2>1 DEF Fails, StoreLost
  <2>. HIDE DEF why
  <2>. QED BY <2>2, EndsKeepSessions
<1>4. CASE SaveDone /\ phase \in {"identity", "booted"}
  <2>1. /\ UNCHANGED apiVars /\ saving' = {} /\ phase' \in {"booted", "assembled"}
    BY <1>4 DEF SaveDone, SaveSynced
  <2>2. phase \in EARLY /\ SavesInTheirPhase'
    BY <1>4, <2>1 DEF EARLY, SavesInTheirPhase
  <2>. QED BY <2>1, <2>2, StandingKeepsSessions
<1>5. CASE (SaveDone \/ SaveFailed) /\ phase \notin {"identity", "booted"}
  <2>1. /\ saving # {} /\ saving' = {} /\ phase' = phase
        /\ UNCHANGED <<now, table, minted>>
    BY <1>5 DEF SaveDone, SaveFailed, SaveSynced, SaveFails, processVars
  <2>2. PICK c \in Waiting : TRUE
    BY <1>5, <2>1 DEF SessionInv, SavesInTheirPhase
  <2>3. c \in Clients /\ request[c] # {}
    BY <2>2 DEF Waiting
  <2>4. phase \notin EARLY
    BY <2>3, WaitingIsServing
  <2>5. SavesInTheirPhase'
    BY <2>1 DEF SavesInTheirPhase
  <2>6. CASE SaveDone
    <3>. DEFINE id == issued'.command
    <3>1. Enqueue(c, id) /\ id \in Nat /\ SaveSynced
      BY <1>5, <2>2, <2>6 DEF SaveDone, IdInv, IdTypeOK
    <3>. HIDE DEF id
    <3>2. PassesOn
      BY <2>3, <3>1, EnqueuingPassesOn
    <3>3. issued'.boot = issued.boot
      BY <1>5, <3>1, BootIdStands DEF SessionInv, SavesInTheirPhase
    <3>. QED BY <2>1, <2>4, <2>5, <3>2, <3>3, PassingKeepsSessions
  <2>7. CASE SaveFailed
    <3>1. Answered(c) /\ UNCHANGED queue /\ issued' = issued
      BY <1>5, <2>2, <2>7 DEF SaveFailed, SaveFails
    <3>2. PassesOn
      BY <2>3, <3>1, AnsweringPassesOn
    <3>. QED BY <2>1, <2>4, <2>5, <3>1, <3>2, PassingKeepsSessions
  <2>. QED BY <1>5, <2>6, <2>7
<1>. QED
  BY <1>1, <1>2, <1>3, <1>4, <1>5

LEMMA TheRestKeepsSessions ==
  ASSUME SessionInv, LoopTakes \/ Drained \/ \E c \in Clients : Disconnect(c)
  PROVE  SessionInv'
<1>1. /\ saving = {} /\ saving' = {} /\ issued' = issued
      /\ UNCHANGED <<now, table, minted>>
  BY DEF LoopTakes, Drained, Disconnect, idVars
<1>2. PassesOn
  BY TakingPassesOn, DrainingPassesOn, DisconnectingPassesOn
<1>3. phase \notin EARLY /\ phase' \notin EARLY
  <2>1. CASE LoopTakes
    BY <2>1 DEF LoopTakes, processVars, EARLY
  <2>2. CASE Drained
    BY <2>2 DEF Drained, EARLY
  <2>3. CASE \E c \in Clients : Disconnect(c)
    BY <2>3, WaitingIsServing DEF Disconnect, processVars
  <2>. QED BY <2>1, <2>2, <2>3
<1>4. SavesInTheirPhase'
  BY <1>1 DEF SavesInTheirPhase
<1>. QED
  BY <1>1, <1>2, <1>3, <1>4, PassingKeepsSessions

LEMMA TickingKeepsSessions ==
  ASSUME SessionInv, Tick
  PROVE  SessionInv'
<1>1. /\ phase \in {"serving", "draining"} /\ now' = now + 1
      /\ UNCHANGED <<phase, table, minted, request, queue, heard, saving, issued>>
      /\ saving = {}
  BY DEF Tick, Answering, processVars, idVars
<1>2. now \in Nat /\ minted \in Nat /\ TableOK(table, minted, now)
  BY DEF SessionInv, ApiTypeOK
<1>3. now + 1 \in Nat /\ TableOK(table, minted, now + 1)
  BY <1>2, TablesLast
<1>4. ApiTypeOK'
  BY <1>1, <1>3 DEF SessionInv, ApiTypeOK
<1>. QED
  BY <1>1, <1>4
  DEF SessionInv, NothingEarly, SavesInTheirPhase, ToldThisBoot, HandlersVouched, QueueVouched,
      Vouched, EARLY

\* Nothing is being saved before the boot id is, nor between the shutdown id and
\* the first request.
LEMMA NothingIsSavedEarly ==
  ASSUME SessionInv, phase \in EARLY \ {"identity", "booted"}
  PROVE  saving = {}
<1>1. request = Idle
  BY DEF SessionInv, NothingEarly
<1>2. Waiting = {}
  BY <1>1 DEF Waiting, Idle
<1>. QED
  BY <1>2 DEF SessionInv, SavesInTheirPhase

LEMMA EndingKeepsSessions ==
  ASSUME SessionInv, PowerCut \/ Exit \/ \E why : Fails(why)
  PROVE  SessionInv'
<1>1. PICK why : Ends(why)
  BY DEF PowerCut, Exit, Fails
<1>2. saving' = {}
  BY DEF PowerCut, Exit, Fails, StoreLost, PowerLost
<1>. QED
  BY <1>1, <1>2, EndsKeepSessions

LEMMA MovingOnKeepsSessions ==
  ASSUME SessionInv,
         Validate \/ OpenStore \/ OpenLink \/ TakeBootId \/ TakeShutdownId \/ BringUp
           \/ Shutdown \/ Replug
  PROVE  SessionInv'
<1>1. CASE \E why : Fails(why)
  BY <1>1, EndingKeepsSessions
<1>2. CASE ~ \E why : Fails(why)
  <2>1. UNCHANGED apiVars
    BY <1>2
    DEF Validate, OpenStore, OpenLink, TakeBootId, TakeShutdownId, BringUp, Shutdown, Replug
  <2>2. CASE Validate \/ OpenStore \/ OpenLink \/ BringUp \/ Shutdown \/ Replug
    <3>1. /\ saving' = saving /\ issued' = issued
          /\ phase \in {"down", "validated", "opening", "assembled"} \/ saving = {}
      BY <1>2, <2>2
      DEF Validate, OpenStore, OpenLink, BringUp, Shutdown, Replug, processVars, idVars, Open
    <3>2. saving = {}
      BY <3>1, NothingIsSavedEarly DEF EARLY
    <3>3. phase' \in EARLY => phase \in EARLY
      BY <1>2, <2>2
      DEF Validate, OpenStore, OpenLink, BringUp, Shutdown, Replug, processVars, EARLY
    <3>4. SavesInTheirPhase'
      BY <3>1, <3>2 DEF SavesInTheirPhase
    <3>. QED BY <2>1, <3>1, <3>3, <3>4, StandingKeepsSessions
  <2>3. CASE TakeBootId \/ TakeShutdownId
    <3>1. phase \in EARLY
      BY <2>3 DEF TakeBootId, TakeShutdownId, EARLY
    <3>2. SavesInTheirPhase'
      BY <1>2, <2>3
      DEF TakeBootId, TakeShutdownId, SavesInTheirPhase, BeginBoot, NextCommand, Reserve, Save,
          processVars
    <3>. QED BY <2>1, <3>1, <3>2, StandingKeepsSessions
  <2>. QED BY <2>2, <2>3
<1>. QED
  BY <1>1, <1>2

LEMMA SessionInvHolds == Spec => []SessionInv
<1>1. DaemonInit => SessionInv
  <2>. SUFFICES ASSUME DaemonInit PROVE SessionInv
    OBVIOUS
  <2>1. /\ now = 0 /\ minted = 0 /\ table = EmptyTable /\ request = Idle /\ queue = <<>>
        /\ heard = {} /\ saving = {}
    BY DEF DaemonInit, IdInit
  <2>2. TableOK(table, minted, now)
    BY <2>1, NoSessionsIsATable
  <2>3. queue \in Seq(Entries) /\ DOMAIN queue = {}
    BY <2>1, EmptySeq
  <2>. QED
    BY <2>1, <2>2, <2>3
    DEF SessionInv, ApiTypeOK, NothingEarly, SavesInTheirPhase, ToldThisBoot, HandlersVouched,
        QueueVouched, Idle
<1>2. ASSUME SessionInv, IdInv, IdInv', [DaemonNext]_vars PROVE SessionInv'
  <2>1. CASE UNCHANGED vars
    <3>1. UNCHANGED <<phase, apiVars, saving, issued>>
      BY <2>1 DEF vars, processVars, idVars
    <3>2. SavesInTheirPhase'
      BY <1>2, <3>1 DEF SessionInv, SavesInTheirPhase, Waiting, apiVars
    <3>. QED BY <1>2, <3>1, <3>2, StandingKeepsSessions
  <2>2. CASE Process
    BY <1>2, <2>2, MovingOnKeepsSessions, SavingKeepsSessions, TheRestKeepsSessions,
       EndingKeepsSessions DEF Process
  <2>3. CASE \E c \in Clients : Arrive(c) \/ Handle(c) \/ Disconnect(c)
    BY <1>2, <2>3, ArrivingKeepsSessions, HandlingKeepsSessions, TheRestKeepsSessions
  <2>4. CASE Crash
    BY <1>2, <2>4, EndingKeepsSessions DEF Crash
  <2>. QED
    BY <1>2, <2>1, <2>2, <2>3, <2>4, TheRestKeepsSessions, TickingKeepsSessions,
       MovingOnKeepsSessions, EndingKeepsSessions, SavingKeepsSessions DEF DaemonNext
<1>3. Spec => []IdInv
  <2>1. IdSpec => []IdInv
    BY TheStoreStarts, TheStoreGoesOn, PTL DEF IdSpec
  <2>. QED BY <2>1, TheDaemonKeepsToItsStore, PTL
<1>. QED
  BY <1>1, <1>2, <1>3, PTL DEF Spec

\* Water takes two requests: whatever reaches the loop that could open an outlet,
\* raise a setpoint or extend a session came on a session that an earlier answer
\* of this boot had told, live on arrival, through restarts, evictions and ids
\* that are saved while the request waits.
THEOREM WaterIsAskedForTwice == Spec => []WaterTakesTwoRequests
<1>1. SessionInv => WaterTakesTwoRequests
  BY DEF SessionInv, QueueVouched, Vouched, WaterTakesTwoRequests
<1>. QED
  BY <1>1, SessionInvHolds, PTL

=============================================================================
