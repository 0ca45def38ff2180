-------------------------------- MODULE IdStore -------------------------------
(***************************************************************************)
(* The durable identifiers: FileIdStore, its one file, and what a crash of *)
(* the process or a power cut leaves of it.                                *)
(*                                                                         *)
(* file is what the next process reads; disk is what is left of it after a *)
(* power cut.  They differ between the rename of a new file and the sync   *)
(* of its directory.  A save is three steps with the store's lock held, so *)
(* that nothing else of the store runs between them, but the process may   *)
(* die at each.                                                            *)
(***************************************************************************)
EXTENDS Integers

CONSTANTS RESERVATION_BLOCK,    \* command ids made durable at a time
          MAX_ID                \* u64::MAX; also the bound of the runs

ASSUME IdAssumption == RESERVATION_BLOCK \in Nat \ {0} /\ MAX_ID \in Nat

VARIABLES
  disk, file,   \* [boot, command]: the highest ids made durable
  store,        \* {}, or the open store: {[durable, next]}
  saving,       \* {}, or the save under way: {[kind, counters, at]}
  issued        \* [boots, commands: how many; boot, command: the last]

idVars == <<disk, file, store, saving, issued>>

Counters == [boot : Nat, command : Nat]
Fresh == [boot |-> 0, command |-> 0]    \* Counters::default: there is no file

IdTypeOK ==
  /\ disk \in Counters /\ file \in Counters
  /\ store \in SUBSET [durable : Counters, next : Nat]
  /\ saving \in SUBSET [kind : {"boot", "command"}, counters : Counters,
                        at : {"temporary", "renamed"}]
  /\ issued \in [boots : Nat, boot : Nat, commands : Nat, command : Nat]

IdInit ==
  /\ disk = Fresh /\ file = Fresh
  /\ store = {} /\ saving = {}
  /\ issued = [boots |-> 0, boot |-> 0, commands |-> 0, command |-> 0]

IssueBoot(id) ==
  issued' = [issued EXCEPT !.boots = @ + 1, !.boot = id]

IssueCommand(id) ==
  issued' = [issued EXCEPT !.commands = @ + 1, !.command = id]

\* open_with: the first command id starts past whatever was made durable.  A
\* file that cannot be read or parsed refuses to open and changes nothing.
Open ==
  /\ store = {}
  /\ store' = {[durable |-> file, next |-> file.command]}
  /\ UNCHANGED <<disk, file, saving, issued>>

\* persist begins: the temporary file is written and synced, the old one stands.
Save(kind, counters) ==
  saving' = {[kind |-> kind, counters |-> counters, at |-> "temporary"]}

BeginBoot ==
  \E s \in store :
    /\ saving = {}
    /\ s.durable.boot < MAX_ID
    /\ Save("boot", [s.durable EXCEPT !.boot = @ + 1])
    /\ UNCHANGED <<disk, file, store, issued>>

\* next_command inside the reservation: nothing is written.
NextCommand ==
  \E s \in store :
    /\ saving = {}
    /\ s.next < s.durable.command
    /\ store' = {[s EXCEPT !.next = @ + 1]}
    /\ IssueCommand(s.next + 1)
    /\ UNCHANGED <<disk, file, saving>>

\* next_command past its end: another block is made durable first.
Reserve ==
  \E s \in store :
    /\ saving = {}
    /\ s.next >= s.durable.command
    /\ s.next < MAX_ID /\ s.durable.command + RESERVATION_BLOCK <= MAX_ID
    /\ Save("command", [s.durable EXCEPT !.command = @ + RESERVATION_BLOCK])
    /\ UNCHANGED <<disk, file, store, issued>>

BootsExhausted == \E s \in store : saving = {} /\ s.durable.boot = MAX_ID

CommandsExhausted ==
  \E s \in store :
    /\ saving = {} /\ s.next >= s.durable.command
    /\ s.next = MAX_ID \/ s.durable.command + RESERVATION_BLOCK > MAX_ID

Rename ==
  \E w \in saving :
    /\ w.at = "temporary"
    /\ saving' = {[w EXCEPT !.at = "renamed"]}
    /\ file' = w.counters
    /\ UNCHANGED <<disk, store, issued>>

\* Any step of persist may fail; what it has done stays done, and the store
\* goes on believing what was durable before.
SaveFails ==
  /\ saving # {}
  /\ saving' = {}
  /\ UNCHANGED <<disk, file, store, issued>>

\* A plausible bug: the directory is not synced after the rename.
SaveSynced_SkipsTheDirectory ==
  \E w \in saving, s \in store :
    /\ w.at = "renamed"
    /\ saving' = {}
    /\ IF w.kind = "boot"
         THEN /\ store' = {[s EXCEPT !.durable = w.counters]}
              /\ IssueBoot(w.counters.boot)
         ELSE /\ store' = {[durable |-> w.counters, next |-> s.next + 1]}
              /\ IssueCommand(s.next + 1)
    /\ UNCHANGED <<disk, file>>

\* The directory is synced: durable first, issued second.
SaveSynced ==
  \E w \in saving, s \in store :
    /\ w.at = "renamed"
    /\ disk' = file
    /\ saving' = {}
    /\ IF w.kind = "boot"
         THEN /\ store' = {[s EXCEPT !.durable = w.counters]}
              /\ IssueBoot(w.counters.boot)
         ELSE /\ store' = {[durable |-> w.counters, next |-> s.next + 1]}
              /\ IssueCommand(s.next + 1)
    /\ UNCHANGED file

\* The kernel may write the directory back at any time.
Writeback ==
  /\ disk # file
  /\ disk' = file
  /\ UNCHANGED <<file, store, saving, issued>>

\* The process ends, however it ends; only a power cut loses what was not
\* synced.
StoreLost ==
  /\ store' = {} /\ saving' = {}
  /\ UNCHANGED <<disk, file, issued>>

PowerLost ==
  /\ file' = disk
  /\ store' = {} /\ saving' = {}
  /\ UNCHANGED <<disk, issued>>

IdNext ==
  \/ Open \/ BeginBoot \/ NextCommand \/ Reserve
  \/ Rename \/ SaveFails \/ SaveSynced
  \/ Writeback \/ StoreLost \/ PowerLost

IdSpec == IdInit /\ [][IdNext]_idVars

-----------------------------------------------------------------------------

\* Whatever a power cut leaves is at least every id that was ever issued, so
\* the process after it cannot issue one of them again (ids.rs, persist).
DurableFirst == issued.boot <= disk.boot /\ issued.command <= disk.command

\* An id is never issued twice, across crashes, failed saves and power cuts:
\* each one is above every one before it (begin_boot and next_command).
NeverReissued ==
  [][/\ issued'.boots > issued.boots => issued'.boot > issued.boot
     /\ issued'.commands > issued.commands => issued'.command > issued.command]_idVars

\* What makes it so.  Neither a store's memory nor what was issued is ever ahead
\* of the file, and ids issued from memory alone were on the disk before.  (The
\* disk may be ahead of the file: a save that failed after its rename is
\* overwritten by the next one, which starts from the store's memory.)
StoreInv ==
  \A s \in store :
    /\ issued.boot <= s.durable.boot
    /\ issued.command <= s.next /\ s.next <= s.durable.command
    /\ s.next < s.durable.command => s.durable.command <= disk.command

SaveInv ==
  \A w \in saving :
    /\ w.at = "renamed" => file = w.counters
    /\ \E s \in store :
         w.counters =
           IF w.kind = "boot" THEN [s.durable EXCEPT !.boot = @ + 1]
           ELSE [s.durable EXCEPT !.command = @ + RESERVATION_BLOCK]
    /\ w.kind = "command" => \A s \in store : s.next = s.durable.command

OneOfEach ==
  /\ \A s, t \in store : s = t
  /\ \A v, w \in saving : v = w
  /\ saving # {} => store # {}

BehindTheFile ==
  /\ issued.boot <= file.boot /\ issued.command <= file.command
  /\ \A s \in store : s.durable.boot <= file.boot /\ s.durable.command <= file.command

IdInv == IdTypeOK /\ OneOfEach /\ DurableFirst /\ BehindTheFile /\ StoreInv /\ SaveInv

=============================================================================
