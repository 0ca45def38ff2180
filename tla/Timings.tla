------------------------------- MODULE Timings -------------------------------
(***************************************************************************)
(* The timing sets of the two protocols, in milliseconds, and what is      *)
(* derived from them: how long a retry train can take, whether it outruns  *)
(* its tick, the budget an engine gives one transaction, and the time a    *)
(* frame spends on the line.                                               *)
(***************************************************************************)
EXTENDS Integers

\* Timings::DOCUMENTED of the valve link.
SATURN ==
  [tick |-> 525, response |-> 320, retries |-> 3, transaction_budget |-> 525,
   address_enquiry_timeout |-> 400, address_enquiry_rate |-> 2000,
   address_clear_delay |-> 2000, stagger |-> 500, address_retries |-> 3]

RESPONSE_CANDIDATES == {320, 400}
RETRY_CANDIDATES == {3, 5}

\* DtvTimings::DOCUMENTED of the steam link.
DTV ==
  [tick |-> 500, response |-> 300, retries |-> 4, transaction_budget |-> 500,
   address_enquiry_timeout |-> 400]

DTV_TICK_FLOOR == 150
DTV_RETRIES_MAX == 5
MAX_TX_FAILURES == 250

\* with_tick and with_retries: the set they yield, or nothing.
WithTick(timings, tick) ==
  {t \in {[timings EXCEPT !.tick = tick]} : tick >= DTV_TICK_FLOOR}

WithRetries(timings, retries) ==
  {t \in {[timings EXCEPT !.retries = retries]} : retries <= DTV_RETRIES_MAX}

\* The first attempt and every retry, each waiting a full deadline.
WorstCase(timings) == timings.response * (timings.retries + 1)

Overruns(timings) == WorstCase(timings) > timings.transaction_budget

\* RetryBudget: one attempt a tick, for as many ticks as there are attempts.
\* The count of attempts saturates at a byte.
Attempts(timings) == IF timings.retries >= 255 THEN 255 ELSE timings.retries + 1

Ceiling(timings) == timings.tick * Attempts(timings)

\* Nanoseconds on the line at 9600 baud, ten bits a byte.
BAUD == 9600
LineTime(bytes) == (bytes * 10 * 1000000000) \div BAUD

=============================================================================
