--------------------------- MODULE MCZoneOrderly ---------------------------
(***************************************************************************)
(* ZoneMachine with a memory of what has happened so far: whether a stop   *)
(* cut the boot short, and whether anything at all has gone wrong: that, a *)
(* late answer, a transaction given up for another one, a second valve.    *)
(***************************************************************************)
EXTENDS MCZone

VARIABLES
  whole,     \* no stop has come before the zone had booted
  orderly    \* nothing has gone wrong

memory == <<whole, orderly>>

OrderlyInit == Init /\ whole = TRUE /\ orderly = (Cardinality(valves) = 1)

OrderlyNext ==
  /\ Next
  /\ whole' = (whole /\ StopsAfterBoot)
  /\ orderly' = (orderly /\ StopsAfterBoot /\ AnswersInTime' /\ NothingAbandoned)

OrderlySpec == OrderlyInit /\ [][OrderlyNext]_<<vars, memory>>

\* A zone whose boot no stop cut short waters only from the one valve on its
\* bus.  One that was stopped before it had booted skips the rest of discovery
\* and identification, and may water although two valves answer.
WaterAfterAWholeBoot == whole => WaterOnlyFromTheOneValve

\* A healthy zone on a prompt bus, whose operator waits for each transaction,
\* is never latched.
OrderlyNeverLatches == orderly => NeverLatches

\* On such a zone the outlets that are reported are the ones that are open.
OrderlyCacheMatches == orderly => CacheMatchesValve

=============================================================================
