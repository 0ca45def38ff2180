------------------------------- MODULE Hardware -------------------------------
(***************************************************************************)
(* Binding links to devices, and opening them: resolve_distinct, the       *)
(* latency hardening and the factory's gate.                               *)
(*                                                                         *)
(* A machine maps names to nodes (target), and the nodes its kernel        *)
(* enumerates to [usb, identity, driver]; nodes in Pty are pseudo-         *)
(* terminals and have no such description.  latency says whether a node's  *)
(* timer keeps what is written to it.                                      *)
(***************************************************************************)
EXTENDS Integers, Sequences

CONSTANT Pty                \* the nodes that are pseudo-terminals

Absent(node) == node = "absent"

Backend(node) == IF node \in Pty THEN "pty" ELSE "serial"

\* devices_sharing_identity: how many devices report what a by-id name is
\* built from.
DevicesSharingIdentity(machine, node) ==
  {machine.usb[n].usb :
     n \in {m \in DOMAIN machine.usb : machine.usb[m].identity = machine.usb[node].identity}}

\* resolve_distinct, of the ports in link order: all of them, or the reason.
\* It binds what the names lead to now; nothing holds them there until they
\* are opened.
ResolveError(links, ports, machine) ==
  LET node == [l \in DOMAIN ports |->
                 IF ports[l].scheme = "placeholder" THEN "absent"
                 ELSE machine.target[ports[l].name]]
      serial(l) == node[l] \notin Pty
      bad(i) ==
        LET l == links[i]
        IN  \/ \E j \in 1 .. (i - 1) : node[links[j]] = node[l]
            \/ serial(l) /\ node[l] \notin DOMAIN machine.usb
            \/ /\ serial(l) /\ node[l] \in DOMAIN machine.usb /\ ports[l].scheme = "by-id"
               /\ \E a, b \in DevicesSharingIdentity(machine, node[l]) : a # b
  IN  IF \E l \in DOMAIN ports : ports[l].scheme = "placeholder" THEN {"UnboundPlaceholder"}
      ELSE IF \E l \in DOMAIN ports : Absent(node[l]) THEN {"NotPresent"}
      ELSE IF machine.tree = "unreadable" /\ \E l \in DOMAIN ports : serial(l)
        THEN {"Enumeration"}
      ELSE IF \E i \in DOMAIN links : bad(i) THEN {"Unusable"}
      ELSE {}

\* The bindings: the node a name led to, and the bridge family it had then.
Bindings(ports, machine) ==
  [l \in DOMAIN ports |->
     [node   |-> machine.target[ports[l].name],
      driver |-> IF machine.target[ports[l].name] \in Pty THEN "pty"
                 ELSE machine.usb[machine.target[ports[l].name]].driver]]

\* harden: an FTDI timer must take the write and read it back, a
\* pseudo-terminal has none, and no other family is opened.
Hardens(binding, machine) ==
  \/ binding.driver = "pty"
  \/ binding.driver = "ftdi_sio" /\ binding.node \in machine.low_latency

=============================================================================
