------------------------------- MODULE Sessions -------------------------------
(***************************************************************************)
(* The sessions one boot of the API has issued.  A table is [live, order]: *)
(* when each live session was established, and the sessions in that order, *)
(* which is the order they expire in because the time to live is an        *)
(* absolute cap.                                                           *)
(***************************************************************************)
EXTENDS Integers, SequencesExt

CONSTANTS MAX_SESSIONS, SESSION_TTL

ASSUME SessionsAssumption == MAX_SESSIONS \in Nat \ {0} /\ SESSION_TTL \in Nat

EmptyTable == [live |-> <<>>, order |-> <<>>]

\* pop_front, n times: off the order, and out of what is live.
Popped(table, n) ==
  [live  |-> [id \in DOMAIN table.live \ {table.order[i] : i \in 1 .. n} |-> table.live[id]],
   order |-> SubSeq(table.order, n + 1, Len(table.order))]

\* A plausible bug: a session is good for one instant too long.
Expire_TooLate(table, now) ==
  Popped(table, Cardinality({i \in DOMAIN table.order :
           \A j \in 1 .. i : now - table.live[table.order[j]] > SESSION_TTL}))

\* Table::expire: from the front of the order, up to the first that is live.
Expire(table, now) ==
  Popped(table, Cardinality({i \in DOMAIN table.order :
           \A j \in 1 .. i : now - table.live[table.order[j]] >= SESSION_TTL}))

\* The oldest go until there is room for one more.
Evict(table) ==
  LET n == Len(table.order)
  IN  Popped(table, IF n >= MAX_SESSIONS THEN n - MAX_SESSIONS + 1 ELSE 0)

\* Sessions::admit of a presented session, {} for none, at a time.  fresh is the id
\* that mint would draw: one that no boot has drawn before.
Admit(table, presented, fresh, now) ==
  LET current == Expire(table, now)
      kept == presented \cap DOMAIN current.live
      room == Evict(current)
  IN  IF kept # {}
        THEN [table |-> current, session |-> CHOOSE id \in kept : TRUE, freshness |-> "Live"]
        ELSE [table |-> [live  |-> [id \in DOMAIN room.live \cup {fresh} |->
                                      IF id = fresh THEN now ELSE room.live[id]],
                         order |-> Append(room.order, fresh)],
              session |-> fresh, freshness |-> "Established"]

=============================================================================
