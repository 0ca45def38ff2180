-------------------------------- MODULE Outlets -------------------------------
(***************************************************************************)
(* The three numberings of a valve's outlets: the configuration's slots,   *)
(* the status index a controller reports an outlet under, and the valve    *)
(* family's own outlet numbers with the mask bit of each.  A mask is the   *)
(* set of its bit positions, and a table maps the configured slots.        *)
(***************************************************************************)
EXTENDS Integers, Sequences

SLOTS == 1 .. 6
Byte == 0 .. 255

FirstOutlet(valve) == IF valve = "Dtv6Port" THEN 0 ELSE 1

\* The bit of first_mask: 0x01 on a DTV valve, 0x04 on a Prompt.
FirstBit(valve) == IF valve = "Dtv6Port" THEN 0 ELSE 2

MaskPositions(valve) == IF valve = "Prompt2Port" THEN 2 ELSE 6

HasOutlet(valve, outlet) ==
  outlet \in FirstOutlet(valve) .. (FirstOutlet(valve) + MaskPositions(valve) - 1)

\* mask_for_outlet, of an outlet the family has.
MaskBit(valve, outlet) == outlet - FirstOutlet(valve) + FirstBit(valve)

\* OutletTable::new: no slot, wire outlet or status index twice, and every
\* wire outlet one that the family has.
Buildable(valve, mappings) ==
  /\ \A i \in DOMAIN mappings :
       mappings[i].slot \in SLOTS /\ HasOutlet(valve, mappings[i].wire_outlet)
  /\ \A i, j \in DOMAIN mappings :
       i # j => /\ mappings[i].slot # mappings[j].slot
                /\ mappings[i].wire_outlet # mappings[j].wire_outlet
                /\ mappings[i].status_index # mappings[j].status_index

ConfiguredSlots(mappings) == {mappings[i].slot : i \in DOMAIN mappings}

Mapping(mappings, slot) ==
  mappings[CHOOSE i \in DOMAIN mappings : mappings[i].slot = slot]

\* Only of configured slots: bitmap refuses any other.
Bitmap(valve, mappings, slots) ==
  {MaskBit(valve, Mapping(mappings, slot).wire_outlet) : slot \in slots}

SlotsFromBits(valve, mappings, bits) ==
  LET known == {i \in DOMAIN mappings : MaskBit(valve, mappings[i].wire_outlet) \in bits}
  IN  [slots |-> {mappings[i].slot : i \in known},
       unaccounted |-> bits \ {MaskBit(valve, mappings[i].wire_outlet) : i \in known}]

SlotForStatusIndex(mappings, index) ==
  {mappings[i].slot : i \in {j \in DOMAIN mappings : mappings[j].status_index = index}}

=============================================================================
