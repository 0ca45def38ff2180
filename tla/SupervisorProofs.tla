-------------------------- MODULE SupervisorProofs --------------------------
(***************************************************************************)
(* What is proved of Supervisor and of the port pumps it drives, for any   *)
(* links, budgets, graces and queue lengths.                               *)
(***************************************************************************)
EXTENDS Supervisor, TLAPS

-----------------------------------------------------------------------------
(* What a machine may do with one event.                                    *)

\* A machine that sends what it should in the phase it is in.
Fit(m) ==
  /\ m \in Links
  /\ m.retry => m.tries < ATTEMPTS
  /\ m.op = "Open" => m.phase = "Running"
  /\ m.op = "LastOff" => m.phase = "Stopping"
  /\ m.phase = "Unavailable" => m.op = "none"

\* A machine that believes its link off, or waits for the answer of an all-off.
Offish(m) ==
  \/ m.op \in {"Off", "LastOff"}
  \/ m.phase \in {"ReadyOff", "Stopping", "Unavailable"}

\* An outcome keeps the machine fit and the port as it is, closes the port with
\* the latch and only then; a zone sends its all-off first and stays latched.
\* A machine becomes one that believes its link off by an all-off, or knows.
Lawful(l, m, o, knows) ==
  /\ Fit(o.m)
  /\ o.tx \in Frames \cup {"none"} /\ o.close \in BOOLEAN /\ o.refused \in BOOLEAN
  /\ o.m.open = m.open
  /\ o.m.phase = "Booting" => m.phase = "Booting"
  /\ o.m.phase = "Unavailable" => m.phase = "Unavailable" \/ o.close
  /\ o.close => o.m.phase = "Unavailable"
  /\ o.tx = "Open" => o.m.op = "Open"
  /\ Offish(o.m) => Offish(m) \/ o.tx = "Off" \/ knows
  /\ l \notin STEAM /\ o.close => o.tx = "Off"
  /\ l \notin STEAM /\ m.phase = "Unavailable" => o.m.phase = "Unavailable"

LEMMA QuietLawful ==
  ASSUME NEW l, NEW m, Fit(m), NEW knows
  PROVE  Lawful(l, m, Quiet(m), knows) /\ Lawful(l, m, Refuses(m), knows)
BY DEF Lawful, Quiet, Refuses, Outcome

\* A frame sent in the phase it belongs to.
LEMMA SendsLawful ==
  ASSUME NEW l, NEW m, Fit(m), NEW knows, NEW p \in Phases, NEW op \in Ops \ {"none"},
         p # "Unavailable", p = "Booting" => m.phase = "Booting",
         l \notin STEAM => m.phase # "Unavailable",
         op = "Open" => p = "Running", op = "LastOff" => p = "Stopping",
         p \in {"ReadyOff", "Stopping"} => op \in {"Off", "LastOff"} \/ Offish(m)
  PROVE  Lawful(l, m, Sends([m EXCEPT !.phase = p], op), knows)
<1> USE SupervisorAssumption
<1> DEFINE o == Sends([m EXCEPT !.phase = p], op)
<1>1. /\ o.m = [m EXCEPT !.phase = p, !.op = op, !.retry = FALSE, !.tries = 1]
      /\ o.tx = FrameOf(op) /\ o.close = FALSE /\ o.refused = FALSE
  BY DEF Sends, Outcome, Fit, Links
<1> HIDE DEF o
<1>2. /\ o.m.phase = p /\ o.m.op = op /\ ~o.m.retry /\ o.m.open = m.open
  BY <1>1 DEF Fit, Links
<1>3. o.m \in Links
  <2>1. [m EXCEPT !.phase = p] \in Links
    BY DEF Fit, Links
  <2>2. [m EXCEPT !.phase = p, !.op = op] \in Links
    BY <2>1 DEF Links
  <2>3. [m EXCEPT !.phase = p, !.op = op, !.retry = FALSE] \in Links
    BY <2>2 DEF Links
  <2>4. 1 \in 0..ATTEMPTS
    OBVIOUS
  <2> QED
    BY <1>1, <2>3, <2>4 DEF Links
<1>5. Fit(o.m)
  BY <1>2, <1>3 DEF Fit
<1>4. /\ o.tx \in Frames
      /\ o.tx = "Open" => op = "Open"
      /\ op \in {"Off", "LastOff"} => o.tx = "Off"
  BY <1>1 DEF FrameOf, Ops, Frames
<1>6. Offish(o.m) => Offish(m) \/ o.tx = "Off"
  BY <1>2, <1>4 DEF Offish
<1>7. ~o.close /\ o.close \in BOOLEAN /\ o.refused \in BOOLEAN
  BY <1>1
<1>8. /\ o.m.phase = "Booting" => m.phase = "Booting"
      /\ o.m.phase # "Unavailable"
      /\ o.tx = "Open" => o.m.op = "Open"
      /\ l \notin STEAM => m.phase # "Unavailable"
  BY <1>2, <1>4
<1>9. Lawful(l, m, o, knows)
  BY <1>2, <1>5, <1>4, <1>6, <1>7, <1>8 DEF Lawful
<1> QED
  BY <1>9 DEF o

LEMMA SendsHereLawful ==
  ASSUME NEW l, NEW m, Fit(m), NEW knows, NEW op \in Ops \ {"none"},
         m.phase # "Unavailable",
         op = "Open" => m.phase = "Running", op = "LastOff" => m.phase = "Stopping"
  PROVE  Lawful(l, m, Sends(m, op), knows)
<1>1. m = [m EXCEPT !.phase = m.phase] /\ m.phase \in Phases
  BY DEF Fit, Links
<1>2. Lawful(l, m, Sends([m EXCEPT !.phase = m.phase], op), knows)
  BY <1>1, SendsLawful DEF Offish
<1> QED
  BY <1>1, <1>2

\* A machine with nothing outstanding, in the phase it was in or another one.
LEMMA SettledFits ==
  ASSUME NEW m, Fit(m)
  PROVE  /\ Settled(m) \in Links /\ Fit(Settled(m))
         /\ Settled(m).phase = m.phase /\ Settled(m).op = "none"
         /\ Settled(m).open = m.open
<1> USE SupervisorAssumption
<1> DEFINE n == Settled(m)
<1>1. n \in Links
  <2>1. [m EXCEPT !.op = "none"] \in Links
    BY DEF Fit, Links, Ops
  <2>2. [m EXCEPT !.op = "none", !.retry = FALSE] \in Links
    BY <2>1 DEF Links
  <2>3. 0 \in 0..ATTEMPTS
    OBVIOUS
  <2> QED
    BY <2>2, <2>3 DEF Links, Settled
<1>2. n.phase = m.phase /\ n.op = "none" /\ n.open = m.open /\ ~n.retry
  BY DEF Settled, Fit, Links
<1> HIDE DEF n
<1>3. Fit(n)
  BY <1>1, <1>2 DEF Fit
<1> QED
  BY <1>1, <1>2, <1>3 DEF n

LEMMA SettledElsewhereFits ==
  ASSUME NEW m, Fit(m), NEW p \in Phases, NEW b \in BOOLEAN
  PROVE  /\ Fit([Settled(m) EXCEPT !.phase = p])
         /\ [Settled(m) EXCEPT !.phase = p].phase = p
         /\ [Settled(m) EXCEPT !.phase = p].op = "none"
         /\ [Settled(m) EXCEPT !.phase = p].open = m.open
         /\ Fit([Settled(m) EXCEPT !.moving = b])
         /\ [Settled(m) EXCEPT !.moving = b].phase = m.phase
         /\ [Settled(m) EXCEPT !.moving = b].op = "none"
         /\ [Settled(m) EXCEPT !.moving = b].open = m.open
<1> DEFINE n == Settled(m)
<1>1. /\ n \in Links /\ Fit(n) /\ n.phase = m.phase /\ n.op = "none" /\ n.open = m.open
      /\ ~n.retry
  <2>1. ~n.retry
    BY DEF Settled, Fit, Links
  <2> QED
    BY <2>1, SettledFits
<1> HIDE DEF n
<1>2. /\ [n EXCEPT !.phase = p] \in Links /\ [n EXCEPT !.moving = b] \in Links
  BY <1>1 DEF Links
<1>3. /\ Fit([n EXCEPT !.phase = p])
      /\ [n EXCEPT !.phase = p].phase = p
      /\ [n EXCEPT !.phase = p].op = "none"
      /\ [n EXCEPT !.phase = p].open = m.open
  BY <1>1, <1>2 DEF Fit, Links
<1>4. /\ Fit([n EXCEPT !.moving = b])
      /\ [n EXCEPT !.moving = b].phase = m.phase
      /\ [n EXCEPT !.moving = b].op = "none"
      /\ [n EXCEPT !.moving = b].open = m.open
  BY <1>1, <1>2 DEF Fit, Links
<1> QED
  BY <1>3, <1>4 DEF n

LEMMA OffFits ==
  ASSUME NEW m, Fit(m)
  PROVE  /\ Fit(Off(m)) /\ Off(m).phase = "ReadyOff" /\ Off(m).op = "none"
         /\ Off(m).open = m.open
<1> DEFINE n == Settled(m)
           k == [n EXCEPT !.phase = "ReadyOff"]
<1>1. Fit(k) /\ k.phase = "ReadyOff" /\ k.op = "none" /\ k.open = m.open /\ k \in Links
  BY SettledElsewhereFits, ZenonT(60) DEF Phases, Fit
<1>2. Off(m) = [k EXCEPT !.moving = FALSE]
  BY DEF Off
<1> HIDE DEF k
<1> QED
  BY <1>1, <1>2 DEF Fit, Links

\* A machine that is settled off, latched or where it was.
LEMMA SettlesLawful ==
  ASSUME NEW l, NEW m, Fit(m), NEW knows, NEW n, Fit(n), n.op = "none", n.open = m.open,
         n.phase = m.phase \/ (n.phase = "ReadyOff" /\ (Offish(m) \/ knows)
                                 /\ m.phase # "Unavailable")
  PROVE  Lawful(l, m, Quiet(n), knows)
<1>1. Quiet(n).m = n /\ Quiet(n).tx = "none" /\ ~Quiet(n).close
      /\ Quiet(n).close \in BOOLEAN /\ Quiet(n).refused \in BOOLEAN
  BY DEF Quiet, Outcome
<1>2. Offish(n) => Offish(m) \/ knows
  BY DEF Offish
<1> QED
  BY <1>1, <1>2 DEF Lawful

\* The latch, behind an all-off or, when the port is gone, without one.
LEMMA LatchesLawful ==
  ASSUME NEW l, NEW m, Fit(m), NEW knows, NEW tx \in {"Off", "none"},
         tx = "none" => l \in STEAM /\ (Offish(m) \/ knows)
  PROVE  Lawful(l, m, Outcome([Settled(m) EXCEPT !.phase = "Unavailable"], tx, TRUE, FALSE),
                knows)
<1> DEFINE n == [Settled(m) EXCEPT !.phase = "Unavailable"]
           o == Outcome(n, tx, TRUE, FALSE)
<1>1. Fit(n) /\ n.phase = "Unavailable" /\ n.op = "none" /\ n.open = m.open
  BY SettledElsewhereFits DEF Phases
<1> HIDE DEF n
<1>2. o.m = n /\ o.tx = tx /\ o.close /\ o.close \in BOOLEAN /\ o.refused \in BOOLEAN
  BY DEF Outcome
<1> HIDE DEF o
<1>3. Lawful(l, m, o, knows)
  BY <1>1, <1>2 DEF Lawful, Frames
<1> QED
  BY <1>3 DEF o, n

\* A fault of its own, and a budget that is spent.
LEMMA FaultLawful ==
  ASSUME NEW l, NEW m, Fit(m), NEW knows
  PROVE  Lawful(l, m, Fault(l, m), knows)
<1>1. CASE ~IsSteam(l)
  BY <1>1, LatchesLawful DEF Fault, Latches
<1>2. CASE IsSteam(l) /\ m.phase = "Stopping"
  <2>1. Lawful(l, m, Quiet(Settled(m)), knows)
    BY SettledFits, SettlesLawful
  <2> QED
    BY <1>2, <2>1 DEF Fault
<1>3. CASE IsSteam(l) /\ m.phase # "Stopping"
  <2>1. Lawful(l, m, Sends([m EXCEPT !.phase = "Stopping"], "LastOff"), knows)
    BY <1>3, SendsLawful DEF Phases, Ops, IsSteam
  <2> QED
    BY <1>3, <2>1 DEF Fault
<1> QED
  BY <1>1, <1>2, <1>3

LEMMA GivesUpLawful ==
  ASSUME NEW l, NEW m, Fit(m), NEW knows
  PROVE  Lawful(l, m, GivesUp(l, m), knows)
<1>1. CASE IsSteam(l) /\ m.phase = "Stopping"
  <2>1. Offish(m) /\ l \in STEAM
    BY <1>1 DEF Offish, IsSteam
  <2> QED
    BY <1>1, <2>1, LatchesLawful DEF GivesUp
<1> QED
  BY <1>1, FaultLawful DEF GivesUp

\* A port that closed: the zone sends its all-off into it, and steam knows.
LEMMA PortLostLawful ==
  ASSUME NEW l, NEW m, Fit(m), NEW knows, knows
  PROVE  Lawful(l, m, PortLost(l, m), knows)
<1>1. CASE m.phase = "Unavailable"
  BY <1>1, QuietLawful DEF PortLost
<1>2. CASE m.phase # "Unavailable" /\ IsSteam(l)
  BY <1>2, LatchesLawful DEF PortLost, IsSteam
<1>3. CASE m.phase # "Unavailable" /\ ~IsSteam(l)
  BY <1>3, LatchesLawful DEF PortLost, Latches
<1> QED
  BY <1>1, <1>2, <1>3

\* A tick.
LEMMA TicksLawful ==
  ASSUME NEW l, NEW m, Fit(m), NEW knows, NEW o \in Ticks(m)
  PROVE  Lawful(l, m, o, knows)
<1> USE SupervisorAssumption
<1>1. CASE m.phase = "Unavailable"
  BY <1>1, QuietLawful DEF Ticks
<1>2. CASE m.phase # "Unavailable" /\ m.op = "none"
  <2>1. /\ Lawful(l, m, Sends(m, "Ask"), knows) /\ Lawful(l, m, Sends(m, "Off"), knows)
        /\ m.phase = "Running" => Lawful(l, m, Sends(m, "Open"), knows)
        /\ m.phase = "Stopping" => Lawful(l, m, Sends(m, "LastOff"), knows)
    BY <1>2, SendsHereLawful DEF Ops, Frames
  <2>2. o \in Fresh(m)
    BY <1>2 DEF Ticks
  <2> QED
    BY <2>1, <2>2 DEF Fresh
<1>3. CASE m.phase # "Unavailable" /\ m.op # "none" /\ m.retry
  <2> DEFINE n == [m EXCEPT !.retry = FALSE, !.tries = @ + 1]
  <2>1. o = Outcome(n, FrameOf(m.op), FALSE, FALSE)
    BY <1>3 DEF Ticks
  <2>2. n \in Links
    <3>1. [m EXCEPT !.retry = FALSE] \in Links
      BY DEF Fit, Links
    <3>2. m.tries + 1 \in 0..ATTEMPTS
      BY <1>3 DEF Fit, Links
    <3> QED
      BY <3>1, <3>2 DEF Links
  <2>3. n.phase = m.phase /\ n.op = m.op /\ n.open = m.open /\ ~n.retry
    BY DEF Fit, Links
  <2> HIDE DEF n
  <2>4. Fit(n) /\ (Offish(n) => Offish(m))
    BY <2>2, <2>3 DEF Fit, Offish
  <2>5. /\ o.m = n /\ o.tx = FrameOf(m.op) /\ ~o.close /\ o.close \in BOOLEAN
        /\ o.refused \in BOOLEAN
    BY <2>1 DEF Outcome
  <2>6. o.tx \in Frames /\ (o.tx = "Open" => m.op = "Open")
    BY <1>3, <2>5 DEF FrameOf, Ops, Frames, Fit, Links
  <2> QED
    BY <1>3, <2>3, <2>4, <2>5, <2>6 DEF Lawful
<1>4. CASE m.phase # "Unavailable" /\ m.op # "none" /\ ~m.retry
  BY <1>4, QuietLawful DEF Ticks
<1> QED
  BY <1>1, <1>2, <1>3, <1>4

\* A deadline that passed.
LEMMA TimesOutLawful ==
  ASSUME NEW l, NEW m, Fit(m), NEW knows, NEW o \in TimesOut(l, m)
  PROVE  Lawful(l, m, o, knows)
<1>1. CASE m.op = "none"
  BY <1>1, QuietLawful DEF TimesOut
<1>2. CASE m.op # "none" /\ m.tries < ATTEMPTS
  <2> DEFINE n == [m EXCEPT !.retry = TRUE]
  <2>1. o = Quiet(n)
    BY <1>2 DEF TimesOut
  <2>2. /\ n \in Links /\ n.phase = m.phase /\ n.op = m.op /\ n.open = m.open
        /\ n.tries = m.tries
    BY DEF Fit, Links
  <2> HIDE DEF n
  <2>3. Fit(n) /\ (Offish(n) => Offish(m))
    BY <1>2, <2>2 DEF Fit, Offish
  <2>4. /\ o.m = n /\ o.tx = "none" /\ ~o.close /\ o.close \in BOOLEAN
        /\ o.refused \in BOOLEAN
    BY <2>1 DEF Outcome, Quiet
  <2> QED
    BY <2>2, <2>3, <2>4 DEF Lawful
<1>3. CASE m.op # "none" /\ ~(m.tries < ATTEMPTS)
  BY <1>3, GivesUpLawful DEF TimesOut
<1> QED
  BY <1>1, <1>2, <1>3

\* Commands.
LEMMA TakesStopLawful ==
  ASSUME NEW l, NEW m, Fit(m), NEW knows, NEW o \in TakesStop(l, m)
  PROVE  Lawful(l, m, o, knows)
<1>1. Lawful(l, m, Refuses(m), knows)
  BY QuietLawful
<1>2. m.phase # "Unavailable" => Lawful(l, m, Sends(m, "Off"), knows)
  BY SendsHereLawful DEF Ops, Frames
<1>3. m.phase # "Unavailable" =>
        Lawful(l, m, Sends([m EXCEPT !.phase = "ConfirmOff"], "Off"), knows)
  BY SendsLawful DEF Ops, Frames, Phases
<1> QED
  BY <1>1, <1>2, <1>3 DEF TakesStop, StopsZone

LEMMA TakesStartLawful ==
  ASSUME NEW l, NEW m, Fit(m), NEW knows, NEW o \in TakesStart(l, m)
  PROVE  Lawful(l, m, o, knows)
<1>1. Lawful(l, m, Refuses(m), knows)
  BY QuietLawful
<1>2. m.phase # "Unavailable" =>
        /\ Lawful(l, m, Sends([m EXCEPT !.phase = "Running"], "Open"), knows)
        /\ Lawful(l, m, Sends([m EXCEPT !.phase = "Running"], "Ask"), knows)
  BY SendsLawful DEF Ops, Frames, Phases
<1> QED
  BY <1>1, <1>2 DEF TakesStart

\* A frame heard.  Only a steam adapter that says it is off while booting is
\* taken at its word.
LEMMA HearsLawful ==
  ASSUME NEW l, NEW m, Fit(m), NEW reply, NEW o \in Hears(l, m, reply),
         NEW knows, m.phase = "Booting" /\ reply = "off" => knows, reply # "noise"
  PROVE  Lawful(l, m, o, knows)
<1>1. CASE ~Matches(l, m, reply)
  BY <1>1, QuietLawful, FaultLawful DEF Hears
<1>2. CASE Matches(l, m, reply)
  <2>1. o \in Answers(l, m, reply) /\ m.op # "none" /\ m.phase # "Unavailable"
    BY <1>2 DEF Hears, Matches, Fit
  <2>2. CASE m.op = "LastOff"
    BY <2>1, <2>2, GivesUpLawful DEF Answers
  <2>3. ASSUME Offish(m) \/ knows
        PROVE  Lawful(l, m, Quiet(Off(m)), knows)
    <3>1. /\ Fit(Off(m)) /\ Off(m).phase = "ReadyOff" /\ Off(m).op = "none"
          /\ Off(m).open = m.open
      BY OffFits
    <3> HIDE DEF Off
    <3> QED
      BY <2>1, <2>3, <3>1, SettlesLawful
  <2>4. ASSUME NEW b \in BOOLEAN
        PROVE  Lawful(l, m, Quiet([Settled(m) EXCEPT !.moving = b]), knows)
    <3> DEFINE n == [Settled(m) EXCEPT !.moving = b]
    <3>1. "ReadyOff" \in Phases
      BY DEF Phases
    <3>2. Fit(n) /\ n.phase = m.phase /\ n.op = "none" /\ n.open = m.open
      BY <3>1, SettledElsewhereFits, Zenon
    <3> HIDE DEF n
    <3>3. Lawful(l, m, Quiet(n), knows)
      BY <3>2, SettlesLawful
    <3> QED
      BY <3>3 DEF n
  <2>5. CASE m.op = "Off"
    BY <2>1, <2>3, <2>5 DEF Answers, Offish
  <2>6. CASE m.op = "Open"
    BY <2>1, <2>4, <2>6 DEF Answers
  <2>7. CASE m.op = "Ask"
    <3>1. CASE m.phase # "Booting"
      BY <2>1, <2>4, <2>7, <3>1 DEF Answers
    <3>2. Lawful(l, m, Sends(m, "Ask"), knows) /\ Lawful(l, m, Sends(m, "Off"), knows)
      BY <2>1, SendsHereLawful DEF Ops, Frames
    <3>3. CASE m.phase = "Booting" /\ IsSteam(l)
      <4>1. reply \in {"on", "off"}
        BY <1>2, <2>7 DEF Matches
      <4> QED
        BY <2>1, <2>3, <2>7, <3>2, <3>3, <4>1 DEF Answers
    <3>4. CASE m.phase = "Booting" /\ ~IsSteam(l)
      <4>1. Lawful(l, m, Sends([m EXCEPT !.phase = "ConfirmOff"], "Off"), knows)
        BY <2>1, SendsLawful DEF Phases, Ops, Frames
      <4> QED
        BY <2>1, <2>7, <3>2, <3>4, <4>1 DEF Answers
    <3> QED
      BY <3>1, <3>3, <3>4
  <2> QED
    BY <2>1, <2>2, <2>5, <2>6, <2>7 DEF Fit, Links, Ops, Frames
<1> QED
  BY <1>1, <1>2

-----------------------------------------------------------------------------
(* What waits before a pump.                                                *)

Orders == Frames \cup {"Close"}

\* Whatever may open the link, and an open link itself, has an all-off behind it.
Covered(s, open) ==
  /\ \A i \in 1..Len(s) : s[i] = "Open" => \E j \in i..Len(s) : s[j] = "Off"
  /\ open => \E j \in 1..Len(s) : s[j] = "Off"

NoOpen(s) == \A i \in 1..Len(s) : s[i] # "Open"

\* A close is the last that is ordered, and leaves the port closed.
Ending(s, open) == \A i \in 1..Len(s) : s[i] = "Close" => i = Len(s) /\ ~open

LEMMA OneMore ==
  ASSUME NEW s \in Seq(Orders), NEW x \in Orders
  PROVE  /\ Append(s, x) \in Seq(Orders)
         /\ x = "Off" => Covered(Append(s, x), TRUE)
         /\ \A w \in BOOLEAN : Covered(s, w) /\ x # "Open" => Covered(Append(s, x), w)
         /\ NoOpen(s) /\ x # "Open" => NoOpen(Append(s, x))
         /\ Ending(s, TRUE) /\ x # "Close" => Ending(Append(s, x), TRUE)
         /\ Ending(s, TRUE) => Ending(Append(s, x), FALSE)
<1> DEFINE t == Append(s, x)
<1>1. /\ t \in Seq(Orders) /\ Len(t) = Len(s) + 1 /\ Len(s) \in Nat
      /\ t[Len(s) + 1] = x /\ \A i \in 1..Len(s) : t[i] = s[i]
  OBVIOUS
<1> HIDE DEF t
<1>2. ASSUME x = "Off" PROVE Covered(t, TRUE)
  BY <1>1, <1>2 DEF Covered
<1>3. ASSUME NEW w \in BOOLEAN, Covered(s, w), x # "Open" PROVE Covered(t, w)
  <2>1. ASSUME NEW i \in 1..Len(t), t[i] = "Open"
        PROVE  \E j \in i..Len(t) : t[j] = "Off"
    <3>1. i \in 1..Len(s) /\ s[i] = "Open"
      BY <1>1, <1>3, <2>1
    <3>2. PICK j \in i..Len(s) : s[j] = "Off"
      BY <1>3, <3>1 DEF Covered
    <3>3. j \in i..Len(t) /\ j \in 1..Len(s)
      BY <1>1, <3>1, <3>2
    <3>4. t[j] = "Off"
      BY <1>1, <3>2, <3>3
    <3> QED
      BY <3>3, <3>4
  <2>2. ASSUME w PROVE \E j \in 1..Len(t) : t[j] = "Off"
    <3>1. PICK j \in 1..Len(s) : s[j] = "Off"
      BY <1>3, <2>2 DEF Covered
    <3> QED
      BY <1>1, <3>1
  <2> QED
    BY <2>1, <2>2 DEF Covered
<1>4. NoOpen(s) /\ x # "Open" => NoOpen(t)
  BY <1>1 DEF NoOpen
<1>5. /\ Ending(s, TRUE) /\ x # "Close" => Ending(t, TRUE)
      /\ Ending(s, TRUE) => Ending(t, FALSE)
  BY <1>1 DEF Ending
<1> QED
  BY <1>1, <1>2, <1>3, <1>4, <1>5 DEF t

LEMMA OneLess ==
  ASSUME NEW s \in Seq(Orders), s # <<>>
  PROVE  /\ Tail(s) \in Seq(Orders) /\ Head(s) \in Orders
         /\ \A w \in BOOLEAN : Covered(s, w) =>
              /\ Head(s) = "Off" => Covered(Tail(s), FALSE)
              /\ Head(s) = "Open" => Covered(Tail(s), TRUE)
              /\ Head(s) \notin {"Off", "Open"} => Covered(Tail(s), w)
         /\ NoOpen(s) => NoOpen(Tail(s)) /\ Head(s) # "Open"
         /\ \A b \in BOOLEAN : Ending(s, b) =>
              /\ Ending(Tail(s), b)
              /\ Head(s) = "Close" => ~b /\ Len(s) = 1
<1> DEFINE t == Tail(s)
<1>1. /\ t \in Seq(Orders) /\ Len(t) = Len(s) - 1 /\ Len(s) \in Nat /\ Len(s) > 0
      /\ Head(s) = s[1] /\ Head(s) \in Orders
      /\ \A i \in 1..Len(t) : t[i] = s[i + 1]
  OBVIOUS
<1>2. \A i \in 2..Len(s) : i - 1 \in 1..Len(t) /\ t[i - 1] = s[i]
  BY <1>1
<1> HIDE DEF t
<1>3. ASSUME NEW w \in BOOLEAN, Covered(s, w)
      PROVE  /\ Head(s) = "Off" => Covered(t, FALSE)
             /\ Head(s) = "Open" => Covered(t, TRUE)
             /\ Head(s) \notin {"Off", "Open"} => Covered(t, w)
  <2>1. ASSUME NEW i \in 1..Len(t), t[i] = "Open"
        PROVE  \E j \in i..Len(t) : t[j] = "Off"
    <3>1. i + 1 \in 1..Len(s) /\ s[i + 1] = "Open"
      BY <1>1, <2>1
    <3>2. PICK j \in (i + 1)..Len(s) : s[j] = "Off"
      BY <1>3, <3>1 DEF Covered
    <3>3. j \in 2..Len(s) /\ j - 1 \in i..Len(t)
      BY <1>1, <3>2
    <3> QED
      BY <1>2, <3>2, <3>3
  <2>2. ASSUME Head(s) # "Off", NEW k \in 1..Len(s), s[k] = "Off"
        PROVE  \E j \in 1..Len(t) : t[j] = "Off"
    <3>1. k \in 2..Len(s)
      BY <1>1, <2>2
    <3> QED
      BY <1>2, <2>2, <3>1
  <2>3. Head(s) = "Open" => \E k \in 1..Len(s) : s[k] = "Off"
    BY <1>1, <1>3 DEF Covered
  <2> QED
    BY <1>3, <2>1, <2>2, <2>3 DEF Covered
<1>4. NoOpen(s) => NoOpen(t) /\ Head(s) # "Open"
  BY <1>1 DEF NoOpen
<1>5. ASSUME NEW b \in BOOLEAN, Ending(s, b)
      PROVE  /\ Ending(t, b)
             /\ Head(s) = "Close" => ~b /\ Len(s) = 1
  <2>1. ASSUME NEW i \in 1..Len(t), t[i] = "Close"
        PROVE  i = Len(t) /\ ~b
    <3>1. i + 1 \in 1..Len(s) /\ s[i + 1] = "Close"
      BY <1>1, <2>1
    <3> QED
      BY <1>1, <1>5, <3>1 DEF Ending
  <2>2. Head(s) = "Close" => ~b /\ Len(s) = 1
    BY <1>1, <1>5 DEF Ending
  <2> QED
    BY <2>1, <2>2 DEF Ending
<1> QED
  BY <1>1, <1>3, <1>4, <1>5 DEF t

LEMMA NothingOrdered ==
  /\ <<>> \in Seq(Orders) /\ NoOpen(<<>>) /\ Covered(<<>>, FALSE)
  /\ \A b \in BOOLEAN : Ending(<<>>, b)
  /\ \A w \in BOOLEAN : Covered(<<>>, w) => ~w
BY DEF NoOpen, Covered, Ending

\* A queue that ends in a close alone covers nothing that is open.
LEMMA CloseCoversNothing ==
  ASSUME NEW s \in Seq(Orders), s # <<>>, Head(s) = "Close", Len(s) = 1,
         NEW w \in BOOLEAN, Covered(s, w)
  PROVE  ~w
BY DEF Covered

-----------------------------------------------------------------------------
(* What a link becomes, whatever the loop did to it.                        *)

\* Nothing that is ordered of the link, and the link itself, is open for good.
Shut(l) == Covered(orders[l], water[l])

\* The runtime n and the queue q that a step of the loop may leave of link l.
Became(l, n, q, knows) ==
  /\ Fit(n)
  /\ n.open => link[l].open
  /\ ~n.open => ~link[l].open \/ ~Running(l) \/ n.phase = "Unavailable"
  /\ n.phase = "Unavailable" => link[l].phase = "Unavailable" \/ ~n.open
  /\ n.phase = "Booting" => link[l].phase = "Booting"
  /\ Offish(n) =>
       Offish(link[l]) \/ Covered(q, TRUE) \/ ~link[l].open \/ ~Running(l) \/ knows
  /\ l \notin STEAM /\ n.phase = "Unavailable" =>
       link[l].phase = "Unavailable" \/ Covered(q, TRUE) \/ ~link[l].open \/ ~Running(l)
  /\ l \notin STEAM /\ link[l].phase = "Unavailable" => n.phase = "Unavailable"
  /\ q \in Seq(Orders)
  /\ q = orders[l] \/ (link[l].open /\ Running(l))
  /\ \A w \in BOOLEAN : Covered(orders[l], w) /\ n.op # "Open" => Covered(q, w)
  /\ NoOpen(orders[l]) /\ n.op # "Open" => NoOpen(q)
  /\ Ending(orders[l], link[l].open) => Ending(q, n.open)

\* The same machine but for its deadlines.
Alike(l, m) ==
  /\ m.phase = link[l].phase /\ m.op = link[l].op /\ m.open = link[l].open

LEMMA EndingWeakens ==
  ASSUME NEW s, NEW b \in BOOLEAN
  PROVE  /\ Ending(s, TRUE) => Ending(s, b)
         /\ Ending(s, b) => Ending(s, FALSE)
BY DEF Ending

\* A lawful outcome, applied.
LEMMA AppliedBecomes ==
  ASSUME NEW l \in LINKS, orders[l] \in Seq(Orders), NEW m, Alike(l, m), m \in Links,
         NEW knows, NEW o, Lawful(l, m, o, knows)
  PROVE  /\ Became(l, Applied(l, o).m, Applied(l, o).q, knows)
         /\ Applied(l, o).refused \in BOOLEAN
<1> USE SupervisorAssumption
<1> DEFINE r == Applied(l, o)
           b == link[l].open
           open == StillOpen(l, o.tx, b)
           s == orders[l]
           q1 == Queued(l, o.tx, b, s)
           n == r.m
<1>1. /\ o.m.open = b /\ b \in BOOLEAN /\ o.m \in Links
      /\ o.tx \in Frames \cup {"none"} /\ o.close \in BOOLEAN
  BY DEF Lawful, Fit, Alike, Links
<1>2. /\ r.m = [o.m EXCEPT !.open = open /\ ~o.close, !.awaiting = Armed(o)]
      /\ r.q = (IF o.close THEN Queued(l, "Close", open, q1) ELSE q1)
      /\ r.refused = o.refused
  BY <1>1 DEF Applied
<1>3. open \in BOOLEAN /\ (open <=> b /\ (o.tx # "none" => Running(l)))
  BY <1>1 DEF StillOpen
<1>4. Armed(o) \in -1..RESPONSE
  BY <1>1 DEF Armed, NONE, Links
<1>5. /\ n.phase = o.m.phase /\ n.op = o.m.op /\ n.retry = o.m.retry /\ n.tries = o.m.tries
      /\ n.open = (open /\ ~o.close)
  <2> HIDE DEF open, r
  <2> QED
    BY <1>1, <1>2 DEF Links
<1>6. n \in Links
  <2> HIDE DEF open, r
  <2>1. (open /\ ~o.close) \in BOOLEAN
    BY <1>1, <1>3
  <2>2. [o.m EXCEPT !.open = open /\ ~o.close] \in Links
    BY <1>1, <2>1 DEF Links
  <2> QED
    BY <1>2, <1>4, <2>2 DEF Links
<1> HIDE DEF r, n, open
<1>7. Fit(n) /\ (Offish(n) <=> Offish(o.m))
  BY <1>5, <1>6 DEF Lawful, Fit, Offish
<1>8. n.open <=> open /\ ~o.close
  BY <1>1, <1>3, <1>5
<1>9. Offish(m) <=> Offish(link[l])
  BY DEF Offish, Alike
<1>10. ASSUME ~(b /\ Running(l)) \/ (o.tx = "none" /\ ~o.close)
       PROVE  Became(l, n, r.q, knows)
  <2>1. r.q = s
    BY <1>2, <1>3, <1>10 DEF Queued
  <2>2. o.tx = "none" /\ ~o.close => (n.open <=> b)
    BY <1>3, <1>8
  <2>3. Ending(s, b) => Ending(r.q, n.open)
    <3>1. n.open => b
      BY <1>3, <1>8
    <3>2. n.open \in BOOLEAN
      BY <1>6 DEF Links
    <3> QED
      BY <2>1, <3>1, <3>2 DEF Ending
  <2>4. /\ n.open => b
        /\ ~n.open => ~b \/ ~Running(l) \/ n.phase = "Unavailable"
        /\ n.phase = "Unavailable" => link[l].phase = "Unavailable" \/ ~n.open
        /\ n.phase = "Booting" => link[l].phase = "Booting"
        /\ Offish(n) => Offish(link[l]) \/ ~b \/ ~Running(l) \/ knows
        /\ l \notin STEAM /\ n.phase = "Unavailable" =>
             link[l].phase = "Unavailable" \/ ~b \/ ~Running(l)
        /\ l \notin STEAM /\ link[l].phase = "Unavailable" => n.phase = "Unavailable"
    BY <1>1, <1>3, <1>5, <1>7, <1>8, <1>9, <1>10, <2>2 DEF Lawful, Alike
  <2> QED
    BY <1>7, <2>1, <2>3, <2>4 DEF Became
<1>11. ASSUME b /\ Running(l) /\ ~(o.tx = "none" /\ ~o.close)
       PROVE  Became(l, n, r.q, knows)
  <2>1. open /\ q1 = IF o.tx = "none" THEN s ELSE Append(s, o.tx)
    BY <1>3, <1>11 DEF Queued
  <2>2. r.q = IF o.close THEN Append(q1, "Close") ELSE q1
    BY <1>2, <1>11, <2>1 DEF Queued
  <2>3. n.open <=> ~o.close
    BY <1>8, <2>1
  <2>4. /\ o.tx = "Open" => n.op = "Open"
        /\ o.close => n.phase = "Unavailable"
    BY <1>5 DEF Lawful
  <2>5. /\ q1 \in Seq(Orders)
        /\ o.tx = "Off" => Covered(q1, TRUE)
        /\ \A w \in BOOLEAN : Covered(s, w) /\ n.op # "Open" => Covered(q1, w)
        /\ NoOpen(s) /\ n.op # "Open" => NoOpen(q1)
        /\ Ending(s, TRUE) => Ending(q1, TRUE)
    <3>1. CASE o.tx = "none"
      BY <2>1, <3>1
    <3>2. CASE o.tx # "none"
      <4>1. o.tx \in Frames /\ o.tx \in Orders /\ o.tx # "Close"
        BY <1>1, <3>2 DEF Orders, Frames
      <4> QED
        BY <2>1, <2>4, <3>2, <4>1, OneMore
    <3> QED
      BY <3>1, <3>2
  <2> HIDE DEF q1
  <2>6. /\ r.q \in Seq(Orders)
        /\ o.tx = "Off" => Covered(r.q, TRUE)
        /\ \A w \in BOOLEAN : Covered(s, w) /\ n.op # "Open" => Covered(r.q, w)
        /\ NoOpen(s) /\ n.op # "Open" => NoOpen(r.q)
        /\ Ending(s, TRUE) => Ending(r.q, ~o.close)
    <3>1. CASE ~o.close
      BY <2>2, <2>5, <3>1
    <3>2. CASE o.close
      <4>1. "Close" \in Orders /\ TRUE \in BOOLEAN
        BY DEF Orders
      <4>2. r.q = Append(q1, "Close")
        BY <2>2, <3>2
      <4>3. /\ r.q \in Seq(Orders)
            /\ \A w \in BOOLEAN : Covered(q1, w) => Covered(r.q, w)
            /\ NoOpen(q1) => NoOpen(r.q)
            /\ Ending(q1, TRUE) => Ending(r.q, FALSE)
        BY <2>5, <4>1, <4>2, OneMore
      <4> QED
        BY <2>5, <3>2, <4>3
    <3> QED
      BY <3>1, <3>2
  <2>7. Ending(s, b) => Ending(r.q, n.open)
    BY <1>1, <1>11, <2>3, <2>6 DEF Ending
  <2>8. /\ n.open => b
        /\ ~n.open => n.phase = "Unavailable"
        /\ n.phase = "Unavailable" => link[l].phase = "Unavailable" \/ ~n.open
        /\ n.phase = "Booting" => link[l].phase = "Booting"
        /\ Offish(n) => Offish(link[l]) \/ Covered(r.q, TRUE) \/ knows
        /\ l \notin STEAM /\ n.phase = "Unavailable" =>
             link[l].phase = "Unavailable" \/ Covered(r.q, TRUE)
        /\ l \notin STEAM /\ link[l].phase = "Unavailable" => n.phase = "Unavailable"
    BY <1>1, <1>5, <1>7, <1>9, <1>11, <2>3, <2>4, <2>6 DEF Lawful, Alike
  <2> QED
    BY <1>7, <1>11, <2>6, <2>7, <2>8 DEF Became
<1>12. Became(l, n, r.q, knows)
  BY <1>10, <1>11
<1>13. r.refused \in BOOLEAN
  BY <1>2 DEF Lawful
<1> QED
  BY <1>12, <1>13 DEF n, r

-----------------------------------------------------------------------------
(* The inductive invariant.                                                 *)

Said(l, kind) == \E i \in 1..Len(reports) : reports[i] = Report(l, kind)
Holds(l, kind) == \E i \in 1..Len(pump[l].held) : pump[l].held[i] = kind
Waits(l, reply) == \E i \in 1..Len(line[l]) : line[l][i] = reply

\* The pump is done with its orders.
Over(l) == pump[l].state \in {"Closing", "Ended"}

\* The machine is fit, a latched one has closed its port, and the order to
\* close is the last one.
LinkOK(l) ==
  /\ Fit(link[l])
  /\ link[l].phase = "Unavailable" => ~link[l].open
  /\ Ending(orders[l], link[l].open)

\* What a pump has said of itself is true, and one on a good link ends only
\* when it is told to, after the last order.
PumpOK(l) ==
  /\ Said(l, "Closed") => ~Running(l)
  /\ Holds(l, "Closed") => Over(l)
  /\ Said(l, "Lost") \/ Holds(l, "Lost") => health[l] # "good"
  /\ pump[l].state = "LastWords" => health[l] # "good"
  /\ health[l] = "good" /\ Over(l) => ~link[l].open /\ orders[l] = <<>>

\* A link that boots was never asked to open, so that one that says it is off
\* is off.
BootOK(l) ==
  link[l].phase = "Booting" =>
    /\ NoOpen(orders[l])
    /\ water[l] => ~Waits(l, "off") /\ ~Holds(l, "off") /\ ~Said(l, "off")

\* A good link that is believed off, or is to be, or whose port is closed, is
\* shut.
OffOK(l) ==
  health[l] = "good" /\ ((Looping /\ ~link[l].open) \/ Offish(link[l])) => Shut(l)

\* The port of a zone is closed by its latch or because its pump has ended; a
\* pump ends of itself only when its grace is over or its wire is gone; and a
\* zone whose frames arrive is latched behind an all-off that its pump still
\* has before it.
ZoneOK(l) ==
  /\ Looping /\ ~link[l].open /\ link[l].phase # "Unavailable" => ~Running(l)
  /\ Looping /\ link[l].phase # "Unavailable" /\ Over(l) =>
       pump[l].grace = 0 \/ health[l] = "gone"
  /\ link[l].phase = "Unavailable" /\ health[l] \in {"good", "deaf", "noisy"} =>
       pump[l].grace = 0 \/ (Shut(l) /\ (orders[l] # <<>> => ~Over(l)))

\* The outcome is that of the machines, which stand still once it is decided.
OutcomeOK == ~Looping /\ outcome = {} => \A l \in LINKS : link[l].phase = "ReadyOff"

\* The service leaves before its time only when every pump has ended.
GoneOK == mode = "Exited" /\ left > 0 => AllGone

EachOK(l) ==
  LinkOK(l) /\ PumpOK(l) /\ BootOK(l) /\ OffOK(l) /\ (l \notin STEAM => ZoneOK(l))

Inv == TypeOK /\ (\A l \in LINKS : EachOK(l)) /\ OutcomeOK /\ GoneOK

\* The link is known to be off, or is not one whose frames arrive and whose
\* answers come.
Excused(l) == health[l] = "good" => Shut(l)

\* What every step of the loop that touches a machine does.
LoopStep ==
  /\ Looping /\ mode' \in {"Serving", "Draining"} /\ outcome' = outcome
  /\ link' \in [LINKS -> Links] /\ orders' \in [LINKS -> Seq(Orders)]
  /\ \A l \in LINKS : Became(l, link'[l], orders'[l], Excused(l))
  /\ reports' = reports \/ (reports # <<>> /\ reports' = Tail(reports))
  /\ UNCHANGED <<health, water, line, pump>>

LEMMA FewerReports ==
  ASSUME TypeOK, reports' = reports \/ (reports # <<>> /\ reports' = Tail(reports))
  PROVE  /\ reports' \in Seq([link : LINKS, kind : Kinds])
         /\ Len(reports') <= REPORT_CAPACITY
         /\ \A l, kind : Said(l, kind)' => Said(l, kind)
<1>1. reports \in Seq([link : LINKS, kind : Kinds]) /\ Len(reports) <= REPORT_CAPACITY
  BY DEF TypeOK, PumpTypeOK
<1>2. CASE reports' = reports
  BY <1>1, <1>2 DEF Said
<1>3. CASE reports # <<>> /\ reports' = Tail(reports)
  <2>1. /\ reports' \in Seq([link : LINKS, kind : Kinds])
        /\ Len(reports') = Len(reports) - 1 /\ Len(reports) \in Nat
        /\ \A i \in 1..Len(reports') : reports'[i] = reports[i + 1]
    BY <1>1, <1>3
  <2>2. ASSUME NEW l, NEW kind, Said(l, kind)' PROVE Said(l, kind)
    <3>1. PICK i \in 1..Len(reports') : reports'[i] = Report(l, kind)
      BY <2>2 DEF Said, Report
    <3>2. i + 1 \in 1..Len(reports) /\ reports[i + 1] = Report(l, kind)
      BY <2>1, <3>1
    <3> QED
      BY <3>2 DEF Said
  <2>3. Len(reports') <= REPORT_CAPACITY
    BY <1>1, <2>1, PortPumpAssumption
  <2> QED
    BY <2>1, <2>2, <2>3
<1> QED
  BY <1>2, <1>3

LEMMA LoopStepKeeps ==
  ASSUME Inv, LoopStep, NEW l \in LINKS
  PROVE  EachOK(l)'
<1> DEFINE m == link[l]
           n == link'[l]
           s == orders[l]
           q == orders'[l]
<1>1. /\ LinkOK(l) /\ PumpOK(l) /\ BootOK(l) /\ OffOK(l) /\ (l \notin STEAM => ZoneOK(l))
  BY DEF Inv, EachOK
<1>2. /\ Became(l, n, q, Excused(l)) /\ Looping
      /\ health' = health /\ water' = water /\ line' = line /\ pump' = pump
      /\ n \in Links /\ m \in Links /\ water[l] \in BOOLEAN
      /\ s \in Seq(Orders)
  BY DEF LoopStep, Inv, TypeOK, PumpTypeOK, Orders
<1>3. /\ Running(l)' <=> Running(l)
      /\ Over(l)' <=> Over(l)
      /\ \A kind : Said(l, kind)' => Said(l, kind)
      /\ \A kind : Holds(l, kind)' <=> Holds(l, kind)
      /\ \A kind : Waits(l, kind)' <=> Waits(l, kind)
  BY <1>2, FewerReports DEF Running, Over, Holds, Waits, LoopStep, Inv
<1>4. Shut(l)' <=> Covered(q, water[l])
  BY <1>2 DEF Shut
<1>5. Covered(q, TRUE) => Covered(q, water[l])
  BY <1>2 DEF Covered
<1>6. /\ Fit(n)
      /\ n.open => m.open
      /\ ~n.open => ~m.open \/ ~Running(l) \/ n.phase = "Unavailable"
      /\ n.phase = "Unavailable" => m.phase = "Unavailable" \/ ~n.open
      /\ n.phase = "Booting" => m.phase = "Booting"
      /\ Offish(n) => Offish(m) \/ Covered(q, TRUE) \/ ~m.open \/ ~Running(l) \/ Excused(l)
      /\ l \notin STEAM /\ n.phase = "Unavailable" =>
           m.phase = "Unavailable" \/ Covered(q, TRUE) \/ ~m.open \/ ~Running(l)
      /\ l \notin STEAM /\ m.phase = "Unavailable" => n.phase = "Unavailable"
      /\ q = s \/ (m.open /\ Running(l))
      /\ Covered(s, water[l]) /\ n.op # "Open" => Covered(q, water[l])
      /\ NoOpen(s) /\ n.op # "Open" => NoOpen(q)
      /\ Ending(s, m.open) => Ending(q, n.open)
  BY <1>2 DEF Became
<1>7. Offish(n) => n.op # "Open"
  BY <1>6 DEF Offish, Fit
<1>8. ~Running(l) => Over(l)
  BY DEF Running, Over
<1>9. LinkOK(l)'
  <2>1. n.phase = "Unavailable" => ~n.open
    BY <1>1, <1>6 DEF LinkOK
  <2>2. Ending(q, n.open)
    BY <1>1, <1>6 DEF LinkOK
  <2>3. Fit(link[l])'
    BY <1>6 DEF Fit
  <2>4. Ending(orders[l], link[l].open)'
    BY <2>2 DEF Ending
  <2> QED
    BY <2>1, <2>3, <2>4 DEF LinkOK
<1>10. PumpOK(l)'
  BY <1>1, <1>2, <1>3, <1>6, <1>8 DEF PumpOK
<1>11. BootOK(l)'
  <2>1. n.phase = "Booting" => n.op # "Open"
    BY <1>6 DEF Fit
  <2>2. NoOpen(orders[l])' <=> NoOpen(q)
    BY DEF NoOpen
  <2> QED
    BY <1>1, <1>2, <1>3, <1>6, <2>1, <2>2 DEF BootOK
<1>12. OffOK(l)'
  <2>1. Offish(link[l])' <=> Offish(n)
    BY DEF Offish
  <2>2. ASSUME health[l] = "good", ~n.open \/ Offish(n)
        PROVE  Covered(q, water[l])
    <3>1. ~Running(l) => ~m.open
      BY <1>1, <1>8, <2>2 DEF PumpOK
    <3>2. CASE ~m.open
      BY <1>1, <1>2, <1>6, <2>2, <3>1, <3>2 DEF OffOK, Shut
    <3>3. CASE m.open
      <4>1. Offish(n) /\ n.op # "Open"
        BY <1>6, <1>7, <2>2, <3>1, <3>3 DEF Offish
      <4>2. Offish(m) \/ Covered(q, TRUE) \/ Excused(l)
        BY <1>6, <3>1, <3>3, <4>1
      <4>3. Offish(m) \/ Excused(l) => Covered(s, water[l])
        BY <1>1, <2>2 DEF OffOK, Excused, Shut
      <4> QED
        BY <1>5, <1>6, <4>1, <4>2, <4>3
    <3> QED
      BY <3>2, <3>3
  <2> QED
    BY <1>2, <1>4, <2>1, <2>2 DEF OffOK
<1>13. ASSUME l \notin STEAM PROVE ZoneOK(l)'
  <2>1. ZoneOK(l)
    BY <1>1, <1>13
  <2>2. ~n.open /\ n.phase # "Unavailable" => ~Running(l)
    BY <1>2, <1>6, <1>13, <2>1 DEF ZoneOK
  <2>3. n.phase # "Unavailable" /\ Over(l) => pump[l].grace = 0 \/ health[l] = "gone"
    BY <1>2, <1>6, <1>13, <2>1 DEF ZoneOK
  <2>4. ASSUME n.phase = "Unavailable", health[l] \in {"good", "deaf", "noisy"},
               pump[l].grace # 0
        PROVE  Covered(q, water[l]) /\ (q # <<>> => ~Over(l))
    <3>1. CASE m.phase = "Unavailable"
      BY <1>1, <1>6, <2>1, <2>4, <3>1 DEF ZoneOK, LinkOK, Shut
    <3>2. CASE m.phase # "Unavailable"
      <4>1. ~Over(l) /\ Running(l) /\ m.open
        BY <1>2, <1>8, <2>1, <2>4, <3>2 DEF ZoneOK
      <4> QED
        BY <1>5, <1>6, <1>13, <2>4, <3>2, <4>1
    <3> QED
      BY <3>1, <3>2
  <2> QED
    BY <1>2, <1>3, <1>4, <2>2, <2>3, <2>4 DEF ZoneOK
<1> QED
  BY <1>9, <1>10, <1>11, <1>12, <1>13 DEF EachOK

LEMMA LoopStepKeepsInv ==
  ASSUME Inv, LoopStep, served' \in BOOLEAN, shutdown' \in BOOLEAN,
         left' \in 0..(GRACE + CLOSE_GRACE)
  PROVE  Inv'
<1>1. TypeOK'
  BY FewerReports DEF Inv, LoopStep, TypeOK, PumpTypeOK, Orders
<1>2. OutcomeOK' /\ GoneOK'
  BY DEF LoopStep, OutcomeOK, GoneOK, Looping
<1> QED
  BY <1>1, <1>2, LoopStepKeeps DEF Inv

-----------------------------------------------------------------------------
(* Each event of the loop is such a step.                                   *)

\* A link that nothing is asked of.
LEMMA UntouchedBecomes ==
  ASSUME Inv, NEW l \in LINKS, NEW knows
  PROVE  Became(l, link[l], orders[l], knows)
<1>1. LinkOK(l) /\ orders[l] \in Seq(Orders)
  BY DEF Inv, EachOK, TypeOK, PumpTypeOK, Orders
<1> QED
  BY <1>1 DEF Became, LinkOK

\* Lawful outcomes, applied, with or without the pacing of a command.
LEMMA SteppedBecomes ==
  ASSUME Inv, NEW l \in LINKS, NEW m \in Links, Alike(l, m), NEW knows,
         NEW os, \A o \in os : Lawful(l, m, o, knows)
  PROVE  /\ \A r \in Stepped(l, os) : Became(l, r.m, r.q, knows)
         /\ \A r \in Commanded(l, os) : Became(l, r.m, r.q, knows)
<1> USE SupervisorAssumption
<1>1. orders[l] \in Seq(Orders)
  BY DEF Inv, TypeOK, PumpTypeOK, Orders
<1>2. ASSUME NEW o \in os
      PROVE  /\ Became(l, Applied(l, o).m, Applied(l, o).q, knows)
             /\ Applied(l, o).refused \in BOOLEAN
  BY <1>1, <1>2, AppliedBecomes
<1>3. ASSUME NEW r \in Commanded(l, os)
      PROVE  Became(l, r.m, r.q, knows)
  <2>1. PICK o \in os :
          r = [Applied(l, o) EXCEPT !.m.pacing =
                 IF Applied(l, o).refused THEN @ ELSE RESPONSE]
    BY <1>3 DEF Commanded, Stepped
  <2> DEFINE a == Applied(l, o)
             n == a.m
             x == IF a.refused THEN n.pacing ELSE RESPONSE
  <2>2. a = [m |-> a.m, q |-> a.q, refused |-> a.refused]
    BY DEF Applied
  <2>3. Became(l, n, a.q, knows) /\ n \in Links
    BY <1>2 DEF Became, Fit
  <2> HIDE DEF a
  <2>4. r.q = a.q /\ r.m = [n EXCEPT !.pacing = x]
    BY <2>1, <2>2 DEF a
  <2>5. x \in 0..RESPONSE
    BY <2>3 DEF Links
  <2> HIDE DEF x, n
  <2>6. /\ r.m \in Links /\ r.m.phase = n.phase /\ r.m.op = n.op /\ r.m.open = n.open
        /\ r.m.retry = n.retry /\ r.m.tries = n.tries
    BY <2>3, <2>4, <2>5 DEF Links
  <2>7. (Fit(n) => Fit(r.m)) /\ (Offish(r.m) <=> Offish(n))
    BY <2>6 DEF Fit, Offish
  <2> QED
    BY <2>3, <2>4, <2>6, <2>7 DEF Became
<1> QED
  BY <1>2, <1>3 DEF Stepped

\* A command is taken, or turned away because it comes too soon.
LEMMA PacedBecomes ==
  ASSUME Inv, NEW l \in LINKS, NEW knows, NEW what,
         NEW os, \A o \in os : Lawful(l, link[l], o, knows)
  PROVE  \A r \in Paced(l, what, os) : Became(l, r.m, r.q, knows)
<1>1. link[l] \in Links /\ Alike(l, link[l])
  BY DEF Inv, TypeOK, Alike
<1>2. \A r \in Commanded(l, os) : Became(l, r.m, r.q, knows)
  BY <1>1, SteppedBecomes
<1>3. \A r \in TurnedAway(l) : Became(l, r.m, r.q, knows)
  BY UntouchedBecomes DEF TurnedAway
<1> QED
  BY <1>2, <1>3 DEF Paced

\* The links in one pass.
LEMMA BecomeIsLoopStep ==
  ASSUME Inv, Looping, mode' \in {"Serving", "Draining"}, outcome' = outcome,
         reports' = reports \/ (reports # <<>> /\ reports' = Tail(reports)),
         PumpsUntouched, NEW f, Become(f),
         \A l \in LINKS : Became(l, f[l].m, f[l].q, Excused(l))
  PROVE  LoopStep
<1>1. /\ link' = [l \in LINKS |-> f[l].m] /\ orders' = [l \in LINKS |-> f[l].q]
  BY DEF Become
<1>2. \A l \in LINKS : f[l].m \in Links /\ f[l].q \in Seq(Orders)
  BY DEF Became, Fit
<1>3. \A l \in LINKS : Became(l, link'[l], orders'[l], Excused(l))
  BY <1>1
<1> QED
  BY <1>1, <1>2, <1>3 DEF LoopStep, PumpsUntouched, wireVars

\* One link alone.
LEMMA DriveIsLoopStep ==
  ASSUME Inv, Looping, mode' \in {"Serving", "Draining"}, outcome' = outcome,
         reports' = reports \/ (reports # <<>> /\ reports' = Tail(reports)),
         PumpsUntouched, NEW k \in LINKS, NEW n, NEW q, Became(k, n, q, Excused(k)),
         link' = [link EXCEPT ![k] = n], orders' = [orders EXCEPT ![k] = q]
  PROVE  LoopStep
<1>1. link \in [LINKS -> Links] /\ orders \in [LINKS -> Seq(Orders)]
  BY DEF Inv, TypeOK, PumpTypeOK, Orders
<1>2. n \in Links /\ q \in Seq(Orders)
  BY DEF Became, Fit
<1>3. ASSUME NEW l \in LINKS PROVE Became(l, link'[l], orders'[l], Excused(l))
  <2>1. CASE l = k
    <3>1. link'[l] = n /\ orders'[l] = q
      BY <1>1, <2>1
    <3> QED
      BY <2>1, <3>1
  <2>2. CASE l # k
    <3>1. link'[l] = link[l] /\ orders'[l] = orders[l]
      BY <1>1, <2>2
    <3> DEFINE e == Excused(l)
    <3> HIDE DEF e
    <3>2. Became(l, link[l], orders[l], e)
      BY UntouchedBecomes
    <3> QED
      BY <3>1, <3>2 DEF e
  <2> QED
    BY <2>1, <2>2
<1> QED
  BY <1>1, <1>2, <1>3 DEF LoopStep, PumpsUntouched, wireVars

\* A deadline or a tick of one link.
LEMMA OnDeadlineBecomes ==
  ASSUME Inv, NEW l \in LINKS, NEW knows
  PROVE  /\ \A r \in Stepped(l, TimesOut(l, [link[l] EXCEPT !.awaiting = NONE])) :
              Became(l, r.m, r.q, knows)
         /\ \A r \in Stepped(l, Ticks([link[l] EXCEPT !.wake = TICK])) :
              Became(l, r.m, r.q, knows)
<1> USE SupervisorAssumption
<1>1. link[l] \in Links /\ Fit(link[l])
  BY DEF Inv, TypeOK, EachOK, LinkOK
<1>2. ASSUME NEW m \in {[link[l] EXCEPT !.awaiting = NONE], [link[l] EXCEPT !.wake = TICK]}
      PROVE  m \in Links /\ Alike(l, m) /\ Fit(m)
  <2>1. m \in Links
    BY <1>1 DEF Links, NONE
  <2>2. /\ m.phase = link[l].phase /\ m.op = link[l].op /\ m.open = link[l].open
        /\ m.retry = link[l].retry /\ m.tries = link[l].tries
    BY <1>1 DEF Links
  <2> QED
    BY <1>1, <2>1, <2>2 DEF Alike, Fit
<1>3. \A r \in Stepped(l, TimesOut(l, [link[l] EXCEPT !.awaiting = NONE])) :
        Became(l, r.m, r.q, knows)
  <2> DEFINE m == [link[l] EXCEPT !.awaiting = NONE]
  <2>1. m \in Links /\ Alike(l, m) /\ Fit(m)
    BY <1>2
  <2> HIDE DEF m
  <2>2. \A o \in TimesOut(l, m) : Lawful(l, m, o, knows)
    BY <2>1, TimesOutLawful
  <2>3. \A r \in Stepped(l, TimesOut(l, m)) : Became(l, r.m, r.q, knows)
    BY <2>1, <2>2, SteppedBecomes
  <2> QED
    BY <2>3 DEF m
<1>4. \A r \in Stepped(l, Ticks([link[l] EXCEPT !.wake = TICK])) :
        Became(l, r.m, r.q, knows)
  <2> DEFINE m == [link[l] EXCEPT !.wake = TICK]
  <2>1. m \in Links /\ Alike(l, m) /\ Fit(m)
    BY <1>2
  <2> HIDE DEF m
  <2>2. \A o \in Ticks(m) : Lawful(l, m, o, knows)
    BY <2>1, TicksLawful
  <2>3. \A r \in Stepped(l, Ticks(m)) : Became(l, r.m, r.q, knows)
    BY <2>1, <2>2, SteppedBecomes
  <2> QED
    BY <2>3 DEF m
<1> QED
  BY <1>3, <1>4

LEMMA DeadlineSteps ==
  ASSUME Inv, Deadline
  PROVE  LoopStep
<1> DEFINE Event(l) ==
      IF ~LinkDue(l) THEN AsItWas(l)
      ELSE IF link[l].awaiting = 0
      THEN Stepped(l, TimesOut(l, [link[l] EXCEPT !.awaiting = NONE]))
      ELSE Stepped(l, Ticks([link[l] EXCEPT !.wake = TICK]))
<1>1. PICK f : (\A l \in LINKS : f[l] \in Event(l)) /\ Become(f)
  BY DEF Deadline, OnDeadline, Choices
<1>2. ASSUME NEW l \in LINKS, NEW knows
      PROVE  \A r \in Event(l) : Became(l, r.m, r.q, knows)
  <2>1. \A r \in AsItWas(l) : Became(l, r.m, r.q, knows)
    BY UntouchedBecomes DEF AsItWas
  <2> QED
    BY <2>1, OnDeadlineBecomes
<1> HIDE DEF Event
<1>3. ASSUME NEW l \in LINKS PROVE Became(l, f[l].m, f[l].q, Excused(l))
  <2> DEFINE e == Excused(l)
  <2> HIDE DEF e
  <2>1. Became(l, f[l].m, f[l].q, e)
    BY <1>1, <1>2
  <2> QED
    BY <2>1 DEF e
<1> QED
  BY <1>1, <1>3, BecomeIsLoopStep DEF Deadline, Looping

\* Commands, and the drain.
LEMMA TakenBecomes ==
  ASSUME Inv, NEW l \in LINKS, NEW knows
  PROVE  /\ \A what : \A r \in Paced(l, what, TakesStart(l, link[l])) :
              Became(l, r.m, r.q, knows)
         /\ \A what : \A r \in Paced(l, what, TakesStop(l, link[l])) :
              Became(l, r.m, r.q, knows)
         /\ \A r \in Commanded(l, TakesStop(l, link[l])) : Became(l, r.m, r.q, knows)
         /\ \A r \in AsItWas(l) : Became(l, r.m, r.q, knows)
<1>1. link[l] \in Links /\ Fit(link[l]) /\ Alike(l, link[l])
  BY DEF Inv, TypeOK, EachOK, LinkOK, Alike
<1>2. /\ \A o \in TakesStart(l, link[l]) : Lawful(l, link[l], o, knows)
      /\ \A o \in TakesStop(l, link[l]) : Lawful(l, link[l], o, knows)
  BY <1>1, TakesStartLawful, TakesStopLawful
<1>3. \A what : \A r \in Paced(l, what, TakesStart(l, link[l])) : Became(l, r.m, r.q, knows)
  BY <1>2, PacedBecomes
<1>4. \A what : \A r \in Paced(l, what, TakesStop(l, link[l])) : Became(l, r.m, r.q, knows)
  BY <1>2, PacedBecomes
<1>5. \A r \in Commanded(l, TakesStop(l, link[l])) : Became(l, r.m, r.q, knows)
  BY <1>1, <1>2, SteppedBecomes
<1>6. \A r \in AsItWas(l) : Became(l, r.m, r.q, knows)
  BY UntouchedBecomes DEF AsItWas
<1> QED
  BY <1>3, <1>4, <1>5, <1>6

LEMMA CommandSteps ==
  ASSUME Inv, Command
  PROVE  LoopStep
<1>1. TakeCommand
  BY DEF Command, StopAll, Start, Stop
<1>2. PICK f : Become(f) /\ \A l \in LINKS :
        \/ f[l] \in AsItWas(l)
        \/ f[l] \in Paced(l, "Start", TakesStart(l, link[l]))
        \/ f[l] \in Paced(l, "Stop", TakesStop(l, link[l]))
  <2>1. CASE StopAll
    BY <2>1 DEF StopAll, Choices
  <2>2. ASSUME NEW k \in LINKS, Start(k)
        PROVE  \E f : Become(f) /\ \A l \in LINKS :
          f[l] \in AsItWas(l) \/ f[l] \in Paced(l, "Start", TakesStart(l, link[l]))
    <3>1. PICK f : Become(f) /\ \A l \in LINKS :
            f[l] \in (IF l = k THEN Paced(k, "Start", TakesStart(k, link[k])) ELSE AsItWas(l))
      BY <2>2 DEF Start, Choices
    <3> QED
      BY <3>1
  <2>3. ASSUME NEW k \in LINKS, Stop(k)
        PROVE  \E f : Become(f) /\ \A l \in LINKS :
          f[l] \in AsItWas(l) \/ f[l] \in Paced(l, "Stop", TakesStop(l, link[l]))
    <3>1. PICK f : Become(f) /\ \A l \in LINKS :
            f[l] \in (IF l = k THEN Paced(k, "Stop", TakesStop(k, link[k])) ELSE AsItWas(l))
      BY <2>3 DEF Stop, Choices
    <3> QED
      BY <3>1
  <2> QED
    BY <2>1, <2>2, <2>3 DEF Command
<1>3. ASSUME NEW l \in LINKS PROVE Became(l, f[l].m, f[l].q, Excused(l))
  <2> DEFINE e == Excused(l)
  <2> HIDE DEF e
  <2>1. Became(l, f[l].m, f[l].q, e)
    BY <1>2, TakenBecomes
  <2> QED
    BY <2>1 DEF e
<1> QED
  BY <1>1, <1>2, <1>3, BecomeIsLoopStep DEF TakeCommand, Selecting, Looping

LEMMA BeginDrainSteps ==
  ASSUME Inv, BeginDrain
  PROVE  LoopStep
<1>1. PICK f : Become(f) /\ \A l \in LINKS : f[l] \in Commanded(l, TakesStop(l, link[l]))
  BY DEF BeginDrain, Choices
<1>2. ASSUME NEW l \in LINKS PROVE Became(l, f[l].m, f[l].q, Excused(l))
  <2> DEFINE e == Excused(l)
  <2> HIDE DEF e
  <2>1. Became(l, f[l].m, f[l].q, e)
    BY <1>1, TakenBecomes
  <2> QED
    BY <2>1 DEF e
<1> QED
  BY <1>1, <1>2, BecomeIsLoopStep DEF BeginDrain, Selecting, Looping

\* A report.
LEMMA DrivenSteps ==
  ASSUME Inv, TakeReport, NEW l \in LINKS, NEW os, Drive(l, os),
         \A r \in Stepped(l, os) : Became(l, r.m, r.q, Excused(l))
  PROVE  LoopStep
<1>1. PICK r \in Stepped(l, os) :
        link' = [link EXCEPT ![l] = r.m] /\ orders' = [orders EXCEPT ![l] = r.q]
  BY DEF Drive
<1>2. Became(l, r.m, r.q, Excused(l))
  BY <1>1
<1> QED
  BY <1>1, <1>2, DriveIsLoopStep DEF TakeReport, Selecting, Looping

\* What a booting adapter says of itself is taken at its word because nobody
\* has asked it to open.
LEMMA OffAtBoot ==
  ASSUME Inv, NEW l \in LINKS, link[l].phase = "Booting", Said(l, "off")
  PROVE  Excused(l)
<1>1. NoOpen(orders[l]) /\ ~water[l] /\ water[l] \in BOOLEAN
  BY DEF Inv, EachOK, BootOK, TypeOK, PumpTypeOK
<1> QED
  BY <1>1 DEF Excused, Shut, Covered, NoOpen

LEMMA OnReportSteps ==
  ASSUME Inv, OnReport
  PROVE  LoopStep
<1> USE SupervisorAssumption
<1> DEFINE l == Head(reports).link
           kind == Head(reports).kind
<1>1. TakeReport /\ reports # <<>> /\ reports' = Tail(reports) /\ Looping
  BY DEF OnReport, TakeReport, Selecting
<1>2. Head(reports) \in [link : LINKS, kind : Kinds] /\ Head(reports) = reports[1]
      /\ 1 \in 1..Len(reports)
  <2>1. reports \in Seq([link : LINKS, kind : Kinds])
    BY DEF Inv, TypeOK, PumpTypeOK
  <2> DEFINE S == [link : LINKS, kind : Kinds]
  <2> HIDE DEF S
  <2>2. reports \in Seq(S) /\ reports # <<>>
    BY <1>1, <2>1 DEF S
  <2>3. Head(reports) \in S /\ Head(reports) = reports[1] /\ 1 \in 1..Len(reports)
    BY <2>2
  <2> QED
    BY <2>3 DEF S
<1>3. l \in LINKS /\ kind \in Kinds /\ Head(reports) = Report(l, kind)
  BY <1>2 DEF Report
<1>4. Said(l, kind)
  BY <1>2, <1>3 DEF Said
<1>5. \/ /\ kind \in Replies
         /\ Drive(l, Hears(l, IF kind = "noise" THEN link[l]
                              ELSE [link[l] EXCEPT !.awaiting = NONE], kind))
      \/ kind = "Lost" /\ OnLost(l)
      \/ kind = "Closed" /\ link' = [link EXCEPT ![l].open = FALSE] /\ UNCHANGED orders
      \/ kind = "Failed" /\ UNCHANGED <<link, orders>>
  BY DEF OnReport
<1> HIDE DEF l, kind
<1>6. /\ link[l] \in Links /\ Fit(link[l]) /\ Alike(l, link[l]) /\ LinkOK(l) /\ PumpOK(l)
      /\ orders[l] \in Seq(Orders)
  BY <1>3 DEF Inv, TypeOK, PumpTypeOK, EachOK, LinkOK, Alike, Orders
<1> DEFINE e == Excused(l)
<1>7. CASE kind = "noise"
  <2>1. Drive(l, {Quiet(link[l])})
    BY <1>5, <1>7 DEF Hears, Replies
  <2> HIDE DEF e
  <2>2. \A o \in {Quiet(link[l])} : Lawful(l, link[l], o, e)
    BY <1>6, QuietLawful
  <2>3. \A r \in Stepped(l, {Quiet(link[l])}) : Became(l, r.m, r.q, e)
    BY <1>3, <1>6, <2>2, SteppedBecomes
  <2> QED
    BY <1>1, <1>3, <2>1, <2>3, DrivenSteps DEF e
<1>8. CASE kind \in Replies \ {"noise"}
  <2> DEFINE m == [link[l] EXCEPT !.awaiting = NONE]
  <2>1. Drive(l, Hears(l, m, kind))
    BY <1>5, <1>8 DEF Replies
  <2>2. m \in Links
    <3>1. link[l] \in Links /\ NONE \in -1..RESPONSE
      BY <1>6 DEF NONE
    <3> QED
      BY <3>1 DEF Links
  <2>3. Alike(l, m) /\ m.retry = link[l].retry /\ m.tries = link[l].tries
    BY <1>6 DEF Links, Alike
  <2> HIDE DEF m
  <2>4. Fit(m)
    BY <1>6, <2>2, <2>3 DEF Fit, Alike
  <2>5. m.phase = "Booting" /\ kind = "off" => e
    BY <1>3, <1>4, <2>3, OffAtBoot DEF Alike
  <2> HIDE DEF e
  <2>6. \A o \in Hears(l, m, kind) : Lawful(l, m, o, e)
    BY <1>8, <2>4, <2>5, HearsLawful
  <2>7. \A r \in Stepped(l, Hears(l, m, kind)) : Became(l, r.m, r.q, e)
    BY <1>3, <2>2, <2>3, <2>6, SteppedBecomes
  <2> QED
    BY <1>1, <1>3, <2>1, <2>7, DrivenSteps DEF e
<1>9. CASE kind = "Lost"
  <2>1. Drive(l, {PortLost(l, link[l])})
    BY <1>5, <1>9 DEF OnLost, Replies
  <2>2. e
    BY <1>4, <1>6, <1>9 DEF Excused, PumpOK
  <2> HIDE DEF e
  <2>3. \A o \in {PortLost(l, link[l])} : Lawful(l, link[l], o, e)
    BY <1>6, <2>2, PortLostLawful
  <2>4. \A r \in Stepped(l, {PortLost(l, link[l])}) : Became(l, r.m, r.q, e)
    BY <1>3, <1>6, <2>3, SteppedBecomes
  <2> QED
    BY <1>1, <1>3, <2>1, <2>4, DrivenSteps DEF e
<1>10. CASE kind = "Closed"
  <2> DEFINE n == [link[l] EXCEPT !.open = FALSE]
  <2>1. ~Running(l)
    BY <1>4, <1>6, <1>10 DEF PumpOK
  <2>2. link' = [link EXCEPT ![l].open = FALSE] /\ orders' = orders
    BY <1>5, <1>10 DEF Replies
  <2>3. link' = [link EXCEPT ![l] = n] /\ orders' = [orders EXCEPT ![l] = orders[l]]
    BY <1>3, <2>2 DEF Inv, TypeOK, PumpTypeOK
  <2>4. n \in Links /\ n.phase = link[l].phase /\ n.op = link[l].op /\ ~n.open
        /\ n.retry = link[l].retry /\ n.tries = link[l].tries
    BY <1>6 DEF Links
  <2> HIDE DEF n, e
  <2>5. Fit(n) /\ (Offish(n) <=> Offish(link[l]))
    BY <1>6, <2>4 DEF Fit, Offish
  <2>6. Ending(orders[l], link[l].open) => Ending(orders[l], n.open)
    BY <2>4 DEF Ending
  <2>7. Became(l, n, orders[l], e)
    BY <1>6, <2>1, <2>4, <2>5, <2>6 DEF Became, LinkOK
  <2> QED
    BY <1>1, <1>3, <2>3, <2>7, DriveIsLoopStep DEF TakeReport, Selecting, Looping, e
<1>11. CASE kind = "Failed"
  <2>1. link' = link /\ orders' = orders
    BY <1>5, <1>11 DEF Replies
  <2>2. link' = [link EXCEPT ![l] = link[l]] /\ orders' = [orders EXCEPT ![l] = orders[l]]
    BY <1>3, <2>1 DEF Inv, TypeOK, PumpTypeOK
  <2> HIDE DEF e
  <2>3. Became(l, link[l], orders[l], e)
    BY <1>3, UntouchedBecomes
  <2> QED
    BY <1>1, <1>3, <2>2, <2>3, DriveIsLoopStep DEF TakeReport, Selecting, Looping, e
<1> QED
  BY <1>3, <1>7, <1>8, <1>9, <1>10, <1>11 DEF Kinds, Replies

-----------------------------------------------------------------------------
(* The other steps of the loop, and time.                                   *)

\* A link whose machine, queue and wire are as they were, but for deadlines
\* and a grace that is used up.
LEMMA NothingNew ==
  ASSUME NEW l \in LINKS, EachOK(l), Fit(link'[l]),
         link'[l].phase = link[l].phase, link'[l].op = link[l].op,
         link'[l].open = link[l].open,
         orders'[l] = orders[l], water'[l] = water[l], line'[l] = line[l],
         health'[l] = health[l],
         pump'[l].state = pump[l].state, pump'[l].held = pump[l].held,
         pump[l].grace = 0 => pump'[l].grace = 0,
         \A kind : Said(l, kind)' => Said(l, kind),
         Looping' => Looping
  PROVE  EachOK(l)'
<1>1. /\ (Running(l)' <=> Running(l)) /\ (Over(l)' <=> Over(l))
      /\ \A kind : Holds(l, kind)' <=> Holds(l, kind)
      /\ \A kind : Waits(l, kind)' <=> Waits(l, kind)
      /\ (Shut(l)' <=> Shut(l)) /\ (Offish(link[l])' <=> Offish(link[l]))
      /\ (NoOpen(orders[l])' <=> NoOpen(orders[l]))
      /\ (Ending(orders[l], link[l].open)' <=> Ending(orders[l], link[l].open))
      /\ Fit(link[l])'
  BY DEF Running, Over, Holds, Waits, Shut, Covered, Offish, NoOpen, Ending, Fit
<1>2. LinkOK(l)'
  BY <1>1 DEF EachOK, LinkOK
<1>3. PumpOK(l)'
  BY <1>1 DEF EachOK, PumpOK
<1>4. BootOK(l)'
  BY <1>1 DEF EachOK, BootOK
<1>5. OffOK(l)'
  BY <1>1 DEF EachOK, OffOK
<1>6. l \notin STEAM => ZoneOK(l)'
  BY <1>1 DEF EachOK, ZoneOK
<1> QED
  BY <1>2, <1>3, <1>4, <1>5, <1>6 DEF EachOK

\* Nothing of the links at all.
LEMMA NothingOfLinks ==
  ASSUME Inv, UNCHANGED <<link, orders, health, water, line, pump>>, Looping' => Looping,
         \A l, kind : Said(l, kind)' => Said(l, kind)
  PROVE  \A l \in LINKS : EachOK(l)'
<1> SUFFICES ASSUME NEW l \in LINKS PROVE EachOK(l)'
  OBVIOUS
<1>1. EachOK(l) /\ Fit(link'[l])
  BY DEF Inv, EachOK, LinkOK
<1> QED
  BY <1>1, NothingNew

LEMMA FinishKeeps ==
  ASSUME Inv, Finish
  PROVE  Inv'
<1> USE SupervisorAssumption
<1>1. /\ Looping /\ mode' = "Closing" /\ left' = CLOSE_GRACE /\ outcome' = Unconfirmed
      /\ served' = FALSE /\ shutdown' = shutdown
      /\ health' = health /\ water' = water /\ line' = line /\ pump' = pump
      /\ reports' = reports
      /\ link' = [l \in LINKS |-> [link[l] EXCEPT !.open = FALSE]]
      /\ orders' = [l \in LINKS |-> Queued(l, "Close", link[l].open, orders[l])]
  BY DEF Finish, DrainOver, Looping, PumpsUntouched, wireVars
<1>2. ~Looping'
  BY <1>1 DEF Looping
<1>3. ASSUME NEW l \in LINKS
      PROVE  /\ link'[l] \in Links /\ orders'[l] \in Seq(Orders)
             /\ link'[l].phase = link[l].phase /\ link'[l].op = link[l].op
             /\ ~link'[l].open /\ Fit(link'[l])
             /\ orders'[l] = orders[l] \/ (link[l].open /\ Running(l))
             /\ \A w \in BOOLEAN : Covered(orders[l], w) => Covered(orders'[l], w)
             /\ NoOpen(orders[l]) => NoOpen(orders'[l])
             /\ Ending(orders'[l], FALSE)
  <2>1. /\ link[l] \in Links /\ orders[l] \in Seq(Orders) /\ Fit(link[l])
        /\ Ending(orders[l], link[l].open) /\ link[l].open \in BOOLEAN
    BY DEF Inv, TypeOK, PumpTypeOK, EachOK, LinkOK, Orders, Links
  <2>2. /\ link'[l] = [link[l] EXCEPT !.open = FALSE]
        /\ orders'[l] = Queued(l, "Close", link[l].open, orders[l])
    BY <1>1
  <2>3. /\ link'[l] \in Links /\ link'[l].phase = link[l].phase /\ link'[l].op = link[l].op
        /\ ~link'[l].open /\ link'[l].retry = link[l].retry /\ link'[l].tries = link[l].tries
    BY <2>1, <2>2 DEF Links
  <2>4. Fit(link'[l])
    BY <2>1, <2>3 DEF Fit
  <2>5. CASE link[l].open /\ Running(l)
    <3>1. orders'[l] = Append(orders[l], "Close") /\ "Close" \in Orders
      BY <2>2, <2>5 DEF Queued, Orders
    <3>2. Ending(orders[l], TRUE)
      BY <2>1, <2>5 DEF Ending
    <3> QED
      BY <2>1, <2>3, <2>4, <2>5, <3>1, <3>2, OneMore
  <2>6. CASE ~(link[l].open /\ Running(l))
    <3>1. orders'[l] = orders[l]
      BY <2>2, <2>6 DEF Queued
    <3>2. Ending(orders[l], FALSE)
      BY <2>1 DEF Ending
    <3> QED
      BY <2>1, <2>3, <2>4, <3>1, <3>2
  <2> QED
    BY <2>5, <2>6
<1>4. ASSUME NEW l \in LINKS PROVE EachOK(l)'
  <2>1. LinkOK(l) /\ PumpOK(l) /\ BootOK(l) /\ OffOK(l) /\ (l \notin STEAM => ZoneOK(l))
        /\ water[l] \in BOOLEAN
    BY DEF Inv, EachOK, TypeOK, PumpTypeOK
  <2>2. /\ (Running(l)' <=> Running(l)) /\ (Over(l)' <=> Over(l))
        /\ \A kind : Said(l, kind)' <=> Said(l, kind)
        /\ \A kind : Holds(l, kind)' <=> Holds(l, kind)
        /\ \A kind : Waits(l, kind)' <=> Waits(l, kind)
        /\ (Offish(link[l])' <=> Offish(link[l]))
        /\ (Shut(l) => Shut(l)') /\ (NoOpen(orders[l]) => NoOpen(orders[l])')
        /\ Ending(orders[l], link[l].open)' /\ Fit(link[l])'
    <3>1. /\ (Running(l)' <=> Running(l)) /\ (Over(l)' <=> Over(l))
          /\ \A kind : Said(l, kind)' <=> Said(l, kind)
          /\ \A kind : Holds(l, kind)' <=> Holds(l, kind)
          /\ \A kind : Waits(l, kind)' <=> Waits(l, kind)
      BY <1>1 DEF Running, Over, Said, Holds, Waits
    <3>2. Offish(link[l])' <=> Offish(link[l])
      BY <1>3 DEF Offish
    <3>3. (Shut(l) => Shut(l)') /\ (NoOpen(orders[l]) => NoOpen(orders[l])')
      BY <1>1, <1>3, <2>1 DEF Shut, NoOpen
    <3>4. Ending(orders[l], link[l].open)'
      BY <1>3 DEF Ending
    <3>5. Fit(link[l])'
      BY <1>3 DEF Fit
    <3> QED
      BY <3>1, <3>2, <3>3, <3>4, <3>5
  <2>3. LinkOK(l)'
    BY <1>3, <2>2 DEF LinkOK
  <2>4. PumpOK(l)'
    BY <1>1, <1>3, <2>1, <2>2 DEF PumpOK
  <2>5. BootOK(l)'
    BY <1>1, <1>3, <2>1, <2>2 DEF BootOK
  <2>6. OffOK(l)'
    BY <1>1, <1>2, <2>1, <2>2 DEF OffOK
  <2>7. l \notin STEAM => ZoneOK(l)'
    BY <1>1, <1>2, <1>3, <2>1, <2>2 DEF ZoneOK, LinkOK
  <2> QED
    BY <2>3, <2>4, <2>5, <2>6, <2>7 DEF EachOK
<1>5. TypeOK'
  <2>1. link' \in [LINKS -> Links] /\ orders' \in [LINKS -> Seq(Orders)]
    BY <1>1, <1>3
  <2>2. left' \in 0..(GRACE + CLOSE_GRACE) /\ outcome' \subseteq LINKS
    BY <1>1 DEF Unconfirmed
  <2> QED
    BY <1>1, <2>1, <2>2 DEF Inv, TypeOK, PumpTypeOK, Orders
<1>6. OutcomeOK'
  <2>1. ASSUME outcome' = {}, NEW l \in LINKS PROVE link'[l].phase = "ReadyOff"
    BY <1>1, <1>3, <2>1 DEF Unconfirmed, ConfirmedOff
  <2> QED
    BY <2>1 DEF OutcomeOK
<1>7. GoneOK'
  BY <1>1 DEF GoneOK
<1> QED
  BY <1>4, <1>5, <1>6, <1>7 DEF Inv

LEMMA DiscardKeeps ==
  ASSUME Inv, Discard
  PROVE  Inv'
<1>1. /\ reports # <<>> /\ reports' = Tail(reports) /\ mode # "Exited" /\ mode' = mode
      /\ UNCHANGED <<link, served, shutdown, left, outcome, orders, health, water, line, pump>>
  BY DEF Discard, loopVars, PumpsUntouched, wireVars
<1>2. TypeOK' /\ \A l, kind : Said(l, kind)' => Said(l, kind)
  BY <1>1, FewerReports DEF Inv, TypeOK, PumpTypeOK
<1>3. \A l \in LINKS : EachOK(l)'
  BY <1>1, <1>2, NothingOfLinks DEF Looping
<1>4. OutcomeOK' /\ GoneOK'
  BY <1>1 DEF Inv, OutcomeOK, GoneOK, Looping
<1> QED
  BY <1>2, <1>3, <1>4 DEF Inv

LEMMA ExitKeeps ==
  ASSUME Inv, Exit \/ Trigger
  PROVE  Inv'
<1>1. UNCHANGED <<link, left, outcome, orders, health, water, line, pump, reports>>
  BY DEF Exit, Trigger, pumpVars, wireVars
<1>2. Looping' <=> Looping
  BY DEF Exit, Trigger, Looping
<1>3. TypeOK'
  BY <1>1 DEF Inv, TypeOK, PumpTypeOK, Exit, Trigger
<1>4. \A l, kind : Said(l, kind)' => Said(l, kind)
  BY <1>1 DEF Said
<1>5. \A l \in LINKS : EachOK(l)'
  BY <1>1, <1>2, <1>4, NothingOfLinks
<1>6. OutcomeOK'
  BY <1>1, <1>2 DEF Inv, OutcomeOK
<1>7. GoneOK'
  <2>1. AllGone => AllGone'
    BY <1>1 DEF AllGone, Running
  <2> QED
    BY <1>1, <2>1 DEF Inv, GoneOK, Exit, Trigger, TypeOK
<1> QED
  BY <1>3, <1>5, <1>6, <1>7 DEF Inv

LEMMA ElapseKeeps ==
  ASSUME Inv, Elapse
  PROVE  Inv'
<1> USE SupervisorAssumption, PortPumpAssumption
<1>1. /\ mode # "Exited" /\ left' = Less1(left)
      /\ link' = (IF Looping
                  THEN [l \in LINKS |-> [link[l] EXCEPT !.wake = Less1(@), !.awaiting = Less1(@),
                                                        !.pacing = Less1(@)]]
                  ELSE link)
      /\ pump' = [l \in LINKS |->
                    IF pump[l].state = "LastWords" /\ pump[l].grace > 0
                    THEN [pump[l] EXCEPT !.grace = @ - 1] ELSE pump[l]]
      /\ UNCHANGED <<mode, served, shutdown, outcome, orders, reports, health, water, line>>
  BY DEF Elapse, PumpsAge, wireVars
<1>2. ASSUME NEW l \in LINKS
      PROVE  /\ link'[l] \in Links /\ Fit(link'[l])
             /\ link'[l].phase = link[l].phase /\ link'[l].op = link[l].op
             /\ link'[l].open = link[l].open
  <2>1. link[l] \in Links /\ Fit(link[l])
    BY DEF Inv, TypeOK, EachOK, LinkOK
  <2>2. CASE ~Looping
    BY <1>1, <2>1, <2>2
  <2>3. CASE Looping
    <3> DEFINE w == Less1(link[l].wake)
               a == Less1(link[l].awaiting)
               p == Less1(link[l].pacing)
    <3>1. link'[l] = [link[l] EXCEPT !.wake = w, !.awaiting = a, !.pacing = p]
      <4>1. link'[l] = [link[l] EXCEPT !.wake = Less1(@), !.awaiting = Less1(@),
                                       !.pacing = Less1(@)]
        BY <1>1, <2>3
      <4> QED
        BY <2>1, <4>1 DEF Links
    <3>2. w \in 0..TICK /\ a \in -1..RESPONSE /\ p \in 0..RESPONSE
      BY <2>1 DEF Links, Less1
    <3> HIDE DEF w, a, p
    <3>3. [link[l] EXCEPT !.wake = w] \in Links
      BY <2>1, <3>2 DEF Links
    <3>4. [link[l] EXCEPT !.wake = w, !.awaiting = a] \in Links
      BY <3>2, <3>3 DEF Links
    <3>5. link'[l] \in Links
      BY <3>1, <3>2, <3>4 DEF Links
    <3>6. /\ link'[l].phase = link[l].phase /\ link'[l].op = link[l].op
          /\ link'[l].open = link[l].open /\ link'[l].retry = link[l].retry
          /\ link'[l].tries = link[l].tries
      BY <2>1, <3>1 DEF Links
    <3> QED
      BY <2>1, <3>5, <3>6 DEF Fit
  <2> QED
    BY <2>2, <2>3
<1> DEFINE P == [state : States, failures : 0..MAX_FAILURES,
                 grace : 0..TERMINAL_GRACE, held : Seq(Kinds)]
<1>3. ASSUME NEW l \in LINKS
      PROVE  /\ pump'[l] \in P /\ pump'[l].state = pump[l].state
             /\ pump'[l].held = pump[l].held
             /\ pump[l].grace = 0 => pump'[l].grace = 0
  <2>1. pump[l] \in P
    BY DEF Inv, TypeOK, PumpTypeOK
  <2>2. CASE pump[l].state = "LastWords" /\ pump[l].grace > 0
    <3>1. pump'[l] = [pump[l] EXCEPT !.grace = @ - 1]
      BY <1>1, <2>2
    <3>2. pump[l].grace - 1 \in 0..TERMINAL_GRACE /\ pump[l].grace # 0
      BY <2>1, <2>2
    <3> QED
      BY <2>1, <3>1, <3>2
  <2>3. CASE ~(pump[l].state = "LastWords" /\ pump[l].grace > 0)
    BY <1>1, <2>1, <2>3
  <2> QED
    BY <2>2, <2>3
<1>4. TypeOK'
  <2>1. link' \in [LINKS -> Links]
    BY <1>1, <1>2 DEF Inv, TypeOK
  <2>2. pump' \in [LINKS -> P]
    BY <1>1, <1>3
  <2>3. left' \in 0..(GRACE + CLOSE_GRACE)
    <3>1. left \in 0..(GRACE + CLOSE_GRACE) /\ left' = Less1(left)
      BY <1>1 DEF Inv, TypeOK
    <3> QED
      BY <3>1 DEF Less1
  <2> QED
    BY <1>1, <2>1, <2>2, <2>3 DEF Inv, TypeOK, PumpTypeOK
<1>5. \A l, kind : Said(l, kind)' => Said(l, kind)
  BY <1>1 DEF Said
<1>6. Looping' <=> Looping
  BY <1>1 DEF Looping
<1>7. ASSUME NEW l \in LINKS PROVE EachOK(l)'
  <2>1. EachOK(l) /\ orders'[l] = orders[l] /\ water'[l] = water[l] /\ line'[l] = line[l]
        /\ health'[l] = health[l]
    BY <1>1 DEF Inv
  <2> QED
    BY <1>2, <1>3, <1>5, <1>6, <2>1, NothingNew
<1>8. OutcomeOK' /\ GoneOK'
  BY <1>1, <1>2, <1>6 DEF Inv, OutcomeOK, GoneOK
<1> QED
  BY <1>4, <1>7, <1>8 DEF Inv

-----------------------------------------------------------------------------
(* The pumps.                                                               *)

\* A step of one pump leaves the other links alone.
LEMMA OnePump ==
  ASSUME Inv, UNCHANGED loopVars, mode # "Exited", NEW l \in LINKS,
         PumpTypeOK', EachOK(l)',
         \A k \in LINKS \ {l} :
           /\ orders'[k] = orders[k] /\ water'[k] = water[k] /\ line'[k] = line[k]
           /\ health'[k] = health[k] /\ pump'[k] = pump[k]
           /\ \A kind : Said(k, kind)' => Said(k, kind)
  PROVE  Inv'
<1>1. UNCHANGED <<mode, link, served, shutdown, left, outcome>>
  BY DEF loopVars
<1>2. TypeOK'
  BY <1>1 DEF Inv, TypeOK
<1>3. ASSUME NEW k \in LINKS, k # l PROVE EachOK(k)'
  <2>1. EachOK(k) /\ Fit(link'[k]) /\ link'[k] = link[k]
    BY <1>1 DEF Inv, EachOK, LinkOK
  <2>2. Looping' => Looping
    BY <1>1 DEF Looping
  <2> QED
    BY <1>3, <2>1, <2>2, NothingNew
<1>4. OutcomeOK' /\ GoneOK'
  BY <1>1 DEF Inv, OutcomeOK, GoneOK, Looping
<1> QED
  BY <1>2, <1>3, <1>4 DEF Inv

\* The machine of the link, which a pump does not touch.
LEMMA MachineStands ==
  ASSUME UNCHANGED loopVars, NEW l
  PROVE  /\ link' = link /\ (Looping' <=> Looping)
         /\ (Offish(link[l])' <=> Offish(link[l])) /\ (Fit(link[l]) => Fit(link[l])')
BY DEF loopVars, Looping, Offish, Fit

LEMMA SendKeeps ==
  ASSUME Inv, UNCHANGED loopVars, mode # "Exited", NEW l \in LINKS, Send(l)
  PROVE  Inv'
<1> DEFINE h == Head(pump[l].held)
           R == [link : LINKS, kind : Kinds]
           P == [state : States, failures : 0..MAX_FAILURES,
                 grace : 0..TERMINAL_GRACE, held : Seq(Kinds)]
           s == IF h = "Closed" THEN "Ended" ELSE pump[l].state
<1>1. /\ pump[l].held # <<>> /\ Len(reports) < REPORT_CAPACITY
      /\ reports' = Append(reports, Report(l, h))
      /\ health' = health /\ water' = water /\ line' = line /\ orders' = orders
  BY DEF Send, wireVars
<1>2. pump \in [LINKS -> P] /\ pump[l] \in P /\ reports \in Seq(R)
  BY DEF Inv, TypeOK, PumpTypeOK
<1>3. /\ pump[l].held \in Seq(Kinds)
      /\ h \in Kinds /\ Tail(pump[l].held) \in Seq(Kinds) /\ 1 \in 1..Len(pump[l].held)
      /\ pump[l].held[1] = h
      /\ Len(Tail(pump[l].held)) = Len(pump[l].held) - 1 /\ Len(pump[l].held) \in Nat
      /\ \A i \in 1..Len(Tail(pump[l].held)) : Tail(pump[l].held)[i] = pump[l].held[i + 1]
  <2>1. pump[l].held \in Seq(Kinds)
    BY <1>2
  <2> QED
    BY <1>1, <2>1
<1>4. pump' = [pump EXCEPT ![l] = [pump[l] EXCEPT !.held = Tail(pump[l].held), !.state = s]]
  BY <1>2 DEF Send
<1>5. /\ pump'[l].held = Tail(pump[l].held) /\ pump'[l].state = s
      /\ pump'[l].grace = pump[l].grace /\ pump'[l] \in P
      /\ pump' \in [LINKS -> P]
      /\ \A k \in LINKS \ {l} : pump'[k] = pump[k]
  <2>1. s \in States
    BY <1>2 DEF States
  <2> DEFINE p == [pump[l] EXCEPT !.held = Tail(pump[l].held), !.state = s]
  <2> HIDE DEF s
  <2>2. p \in P /\ p.held = Tail(pump[l].held) /\ p.state = s /\ p.grace = pump[l].grace
    BY <1>2, <1>3, <2>1
  <2>3. pump' = [pump EXCEPT ![l] = p]
    BY <1>4 DEF s
  <2> HIDE DEF p, P
  <2> QED
    BY <1>2, <2>2, <2>3
<1> HIDE DEF P
<1>6. /\ reports' \in Seq(R) /\ Len(reports') = Len(reports) + 1 /\ Len(reports) \in Nat
      /\ reports'[Len(reports) + 1] = Report(l, h)
      /\ \A i \in 1..Len(reports) : reports'[i] = reports[i]
  <2>1. Report(l, h) \in R
    BY <1>3 DEF Report
  <2> HIDE DEF R, h
  <2> QED
    BY <1>1, <1>2, <2>1
<1>7. ASSUME NEW k, NEW kind, Said(k, kind)'
      PROVE  Said(k, kind) \/ (k = l /\ kind = h)
  <2>1. PICK i \in 1..Len(reports') : reports'[i] = Report(k, kind)
    BY <1>7 DEF Said, Report
  <2>2. CASE i \in 1..Len(reports)
    BY <1>6, <2>1, <2>2 DEF Said
  <2>3. CASE i = Len(reports) + 1
    BY <1>6, <2>1, <2>3 DEF Report
  <2> QED
    BY <1>6, <2>2, <2>3
<1>8. ASSUME NEW kind, Holds(l, kind)' PROVE Holds(l, kind)
  <2>1. PICK i \in 1..Len(pump'[l].held) : pump'[l].held[i] = kind
    BY <1>8 DEF Holds
  <2>2. i + 1 \in 1..Len(pump[l].held) /\ pump[l].held[i + 1] = kind
    BY <1>3, <1>5, <2>1
  <2> QED
    BY <2>2 DEF Holds
<1>9. Holds(l, h)
  BY <1>3 DEF Holds
<1>10. EachOK(l)
  BY DEF Inv
<1>11. /\ Over(l)' <=> Over(l)
       /\ Running(l)' => Running(l)
       /\ h = "Closed" => ~Running(l)'
       /\ pump'[l].state = "LastWords" => pump[l].state = "LastWords"
  BY <1>5, <1>9, <1>10 DEF Over, Running, EachOK, PumpOK
<1>12. /\ (Shut(l)' <=> Shut(l)) /\ (NoOpen(orders[l])' <=> NoOpen(orders[l]))
       /\ (Ending(orders[l], link[l].open)' <=> Ending(orders[l], link[l].open))
       /\ \A kind : Waits(l, kind)' <=> Waits(l, kind)
  BY <1>1, MachineStands DEF Shut, Covered, NoOpen, Ending, Waits
<1> HIDE DEF h, s
<1>13. EachOK(l)'
  <2>1. LinkOK(l)'
    BY <1>10, <1>12, MachineStands DEF EachOK, LinkOK
  <2>2. PumpOK(l)'
    BY <1>1, <1>7, <1>8, <1>9, <1>10, <1>11, MachineStands DEF EachOK, PumpOK
  <2>3. BootOK(l)'
    BY <1>1, <1>7, <1>8, <1>9, <1>10, <1>12, MachineStands DEF EachOK, BootOK
  <2>4. OffOK(l)'
    BY <1>1, <1>10, <1>12, MachineStands DEF EachOK, OffOK
  <2>5. l \notin STEAM => ZoneOK(l)'
    BY <1>1, <1>5, <1>10, <1>11, <1>12, MachineStands DEF EachOK, ZoneOK
  <2> QED
    BY <2>1, <2>2, <2>3, <2>4, <2>5 DEF EachOK
<1>14. PumpTypeOK'
  <2>1. Len(reports') <= REPORT_CAPACITY
    BY <1>1, <1>6, PortPumpAssumption
  <2> QED
    BY <1>1, <1>5, <1>6, <2>1 DEF Inv, TypeOK, PumpTypeOK, P
<1> QED
  BY <1>1, <1>5, <1>7, <1>13, <1>14, OnePump

\* A frame taken off the queue, and written if it can be.
LEMMA WritesKeep ==
  ASSUME Inv, UNCHANGED loopVars, mode # "Exited", NEW l \in LINKS,
         pump[l].state \in Live \cup {"LastWords"},
         NEW frame \in Frames, Ordered(l, frame), Taken(l),
         IF Writable(l) THEN Answered(l, frame) ELSE UNCHANGED <<water, line>>,
         UNCHANGED <<health, pump, reports>>
  PROVE  Inv'
<1>1. /\ orders[l] # <<>> /\ Head(orders[l]) = frame /\ orders \in [LINKS -> Seq(Orders)]
      /\ orders[l] \in Seq(Orders) /\ orders' = [orders EXCEPT ![l] = Tail(orders[l])]
      /\ water \in [LINKS -> BOOLEAN] /\ line \in [LINKS -> Seq(Replies)]
  BY DEF Ordered, Taken, Inv, TypeOK, PumpTypeOK, Orders
<1>2. /\ orders'[l] = Tail(orders[l]) /\ \A k \in LINKS \ {l} : orders'[k] = orders[k]
      /\ orders' \in [LINKS -> Seq(Orders)]
  BY <1>1, OneLess
<1> DEFINE flows == CASE frame = "Off" -> FALSE [] frame = "Open" -> TRUE [] OTHER -> water[l]
           reply == IF frame # "Ask" THEN "ack" ELSE IF flows THEN "on" ELSE "off"
           heard == health[l] = "good" /\ Len(line[l]) < LINE_CAP
<1>3. /\ flows \in BOOLEAN /\ reply \in Replies
      /\ (frame = "Off" => ~flows) /\ (frame = "Ask" => (flows <=> water[l]))
      /\ (reply = "off" => ~flows)
  BY <1>1 DEF Frames, Replies
<1>4. CASE ~Writable(l)
  <2>1. water' = water /\ line' = line /\ health[l] \notin {"good", "deaf", "noisy"}
    BY <1>4 DEF Writable
  <2>2. EachOK(l)
    BY DEF Inv
  <2>3. EachOK(l)'
    <3>1. /\ (Over(l)' <=> Over(l)) /\ (Running(l)' <=> Running(l))
          /\ \A kind : Said(l, kind)' <=> Said(l, kind)
          /\ \A kind : Holds(l, kind)' <=> Holds(l, kind)
          /\ \A kind : Waits(l, kind)' <=> Waits(l, kind)
      BY <2>1 DEF Over, Running, Said, Holds, Waits
    <3>2. NoOpen(orders[l]) => NoOpen(orders[l])'
      BY <1>1, <1>2, OneLess DEF NoOpen
    <3>3. Ending(orders[l], link[l].open)'
      <4>1. Ending(orders[l], link[l].open) /\ link[l].open \in BOOLEAN
        BY <2>2 DEF EachOK, LinkOK, Fit, Links
      <4>2. Ending(Tail(orders[l]), link[l].open)
        BY <1>1, <4>1, OneLess
      <4> QED
        BY <1>2, <4>2, MachineStands DEF Ending
    <3>4. LinkOK(l)' /\ PumpOK(l)' /\ BootOK(l)' /\ OffOK(l)'
      BY <2>1, <2>2, <3>1, <3>2, <3>3, MachineStands
      DEF EachOK, LinkOK, PumpOK, BootOK, OffOK
    <3>5. l \notin STEAM => ZoneOK(l)'
      BY <2>1, <2>2, <3>1, MachineStands DEF EachOK, ZoneOK
    <3> QED
      BY <3>4, <3>5 DEF EachOK
  <2>4. PumpTypeOK'
    BY <1>2, <2>1 DEF Inv, TypeOK, PumpTypeOK, Orders
  <2> QED
    BY <1>2, <2>1, <2>3, <2>4, OnePump DEF Said
<1>5. CASE Writable(l)
  <2>1. /\ water' = [water EXCEPT ![l] = IF health[l] = "silent" THEN water[l] ELSE flows]
        /\ line' = [line EXCEPT ![l] = IF heard THEN Append(line[l], reply) ELSE line[l]]
    BY <1>5 DEF Answered
  <2>2. /\ water'[l] = (IF health[l] = "silent" THEN water[l] ELSE flows)
        /\ line'[l] = (IF heard THEN Append(line[l], reply) ELSE line[l])
        /\ water' \in [LINKS -> BOOLEAN] /\ line[l] \in Seq(Replies)
        /\ \A k \in LINKS \ {l} : water'[k] = water[k] /\ line'[k] = line[k]
    <3> HIDE DEF flows, reply, heard
    <3> QED
      BY <1>1, <1>3, <2>1
  <2>3. line' \in [LINKS -> Seq(Replies)]
    <3> HIDE DEF flows, reply, heard
    <3>1. Append(line[l], reply) \in Seq(Replies)
      BY <1>3, <2>2
    <3> QED
      BY <1>1, <2>1, <3>1
  <2>4. PumpTypeOK'
    BY <1>2, <2>2, <2>3 DEF Inv, TypeOK, PumpTypeOK, Orders
  <2>5. ASSUME NEW kind, Waits(l, kind)'
        PROVE  Waits(l, kind) \/ (heard /\ kind = reply)
    <3> HIDE DEF flows, reply, heard
    <3>1. CASE ~heard
      BY <2>2, <2>5, <3>1 DEF Waits
    <3>2. CASE heard
      <4>1. line'[l] = Append(line[l], reply)
        BY <2>2, <3>2
      <4>2. PICK i \in 1..Len(line'[l]) : line'[l][i] = kind
        BY <2>5 DEF Waits
      <4>3. CASE i \in 1..Len(line[l])
        <5>1. line[l][i] = kind
          BY <1>3, <2>2, <4>1, <4>2, <4>3
        <5> QED
          BY <4>3, <5>1 DEF Waits
      <4>4. CASE i = Len(line[l]) + 1
        BY <1>3, <2>2, <3>2, <4>1, <4>2, <4>4
      <4> QED
        BY <1>3, <2>2, <4>1, <4>3, <4>4
    <3> QED
      BY <3>1, <3>2
  <2>6. EachOK(l)
    BY DEF Inv
  <2> HIDE DEF flows, reply
  <2>7. EachOK(l)'
    <3>1. /\ (Over(l)' <=> Over(l)) /\ (Running(l)' <=> Running(l)) /\ ~Over(l)
          /\ \A kind : Said(l, kind)' <=> Said(l, kind)
          /\ \A kind : Holds(l, kind)' <=> Holds(l, kind)
      BY DEF Over, Running, Said, Holds, Live
    <3>2. NoOpen(orders[l]) => NoOpen(orders[l])' /\ frame # "Open"
      BY <1>1, <1>2, OneLess DEF NoOpen
    <3>3. Ending(orders[l], link[l].open)'
      <4>1. Ending(orders[l], link[l].open) /\ link[l].open \in BOOLEAN
        BY <2>6 DEF EachOK, LinkOK, Fit, Links
      <4>2. Ending(Tail(orders[l]), link[l].open)
        BY <1>1, <4>1, OneLess
      <4> QED
        BY <1>2, <4>2, MachineStands DEF Ending
    <3>4. health[l] # "silent" /\ Shut(l) => Shut(l)'
      <4>1. ASSUME health[l] # "silent", Covered(orders[l], water[l])
            PROVE  Covered(Tail(orders[l]), water'[l])
        <5>1. /\ frame = "Off" => Covered(Tail(orders[l]), FALSE)
              /\ frame = "Open" => Covered(Tail(orders[l]), TRUE)
              /\ frame = "Ask" => Covered(Tail(orders[l]), water[l])
          BY <1>1, <4>1, OneLess
        <5>2. water'[l] = flows
          BY <2>2, <4>1
        <5> QED
          BY <1>3, <5>1, <5>2 DEF Covered, Frames
      <4> QED
        BY <1>2, <4>1 DEF Shut, Covered
    <3>5. LinkOK(l)' /\ PumpOK(l)'
      BY <2>6, <3>1, <3>3, MachineStands DEF EachOK, LinkOK, PumpOK
    <3>6. BootOK(l)'
      <4>1. ASSUME link[l].phase = "Booting", water'[l]
            PROVE  water[l] /\ ~Waits(l, "off")'
        <5>1. frame # "Open"
          BY <2>6, <3>2, <4>1 DEF EachOK, BootOK
        <5>2. water[l]
          BY <1>3, <2>2, <4>1, <5>1 DEF Frames
        <5>3. ~(heard /\ reply = "off")
          BY <1>3, <2>2, <4>1
        <5> QED
          BY <2>5, <2>6, <4>1, <5>2, <5>3 DEF EachOK, BootOK
      <4> QED
        BY <2>6, <3>1, <3>2, <4>1, MachineStands DEF EachOK, BootOK
    <3>7. OffOK(l)'
      BY <2>6, <3>4, MachineStands DEF EachOK, OffOK
    <3>8. l \notin STEAM => ZoneOK(l)'
      BY <2>6, <3>1, <3>4, MachineStands DEF EachOK, ZoneOK
    <3> QED
      BY <3>5, <3>6, <3>7, <3>8 DEF EachOK
  <2> QED
    BY <1>2, <2>2, <2>4, <2>7, OnePump DEF Said
<1> QED
  BY <1>4, <1>5

PumpStates == [state : States, failures : 0..MAX_FAILURES,
               grace : 0..TERMINAL_GRACE, held : Seq(Kinds)]

\* A pump that goes on, with something read or a failure to report.
LEMMA TurnsKeep ==
  ASSUME Inv, UNCHANGED loopVars, mode # "Exited", NEW l \in LINKS,
         ~Over(l), UNCHANGED <<health, water, reports>>,
         NEW p \in PumpStates, pump' = [pump EXCEPT ![l] = p], p.grace = pump[l].grace,
         p.state \notin {"Closing", "Ended"},
         p.state = "LastWords" => health[l] # "good",
         \A i \in 1..Len(p.held) :
           /\ p.held[i] # "Closed"
           /\ p.held[i] = "Lost" => health[l] # "good"
           /\ p.held[i] = "off" => Waits(l, "off") \/ Holds(l, "off"),
         \/ orders' = orders
         \/ /\ orders[l] # <<>> /\ orders' = [orders EXCEPT ![l] = Tail(orders[l])]
            /\ health[l] \notin {"good", "deaf", "noisy"},
         \/ line' = line
         \/ line[l] # <<>> /\ line' = [line EXCEPT ![l] = Tail(line[l])]
  PROVE  Inv'
<1>1. /\ orders \in [LINKS -> Seq(Orders)] /\ line \in [LINKS -> Seq(Replies)]
      /\ pump \in [LINKS -> PumpStates]
  BY DEF Inv, TypeOK, PumpTypeOK, Orders, PumpStates
<1>2. /\ pump'[l] = p /\ pump' \in [LINKS -> PumpStates]
      /\ \A k \in LINKS \ {l} : pump'[k] = pump[k]
  <2> HIDE DEF PumpStates
  <2> QED
    BY <1>1
<1>3. /\ orders' \in [LINKS -> Seq(Orders)]
      /\ \A k \in LINKS \ {l} : orders'[k] = orders[k]
      /\ \/ orders'[l] = orders[l]
         \/ /\ orders[l] # <<>> /\ orders'[l] = Tail(orders[l])
            /\ health[l] \notin {"good", "deaf", "noisy"}
  <2>1. CASE orders' = orders
    BY <1>1, <2>1
  <2>2. CASE /\ orders[l] # <<>> /\ orders' = [orders EXCEPT ![l] = Tail(orders[l])]
             /\ health[l] \notin {"good", "deaf", "noisy"}
    <3> DEFINE t == Tail(orders[l])
    <3>1. t \in Seq(Orders)
      BY <1>1, <2>2
    <3>2. orders' = [orders EXCEPT ![l] = t]
      BY <2>2
    <3> HIDE DEF t
    <3>3. /\ orders' \in [LINKS -> Seq(Orders)] /\ orders'[l] = t
          /\ \A k \in LINKS \ {l} : orders'[k] = orders[k]
      BY <1>1, <3>1, <3>2
    <3> QED
      BY <2>2, <3>3 DEF t
  <2> QED
    BY <2>1, <2>2
<1>4. /\ line' \in [LINKS -> Seq(Replies)]
      /\ \A k \in LINKS \ {l} : line'[k] = line[k]
      /\ line'[l] = line[l] \/ (line[l] # <<>> /\ line'[l] = Tail(line[l]))
  <2>1. CASE line' = line
    BY <1>1, <2>1
  <2>2. CASE line[l] # <<>> /\ line' = [line EXCEPT ![l] = Tail(line[l])]
    <3> DEFINE t == Tail(line[l])
    <3>1. t \in Seq(Replies)
      BY <1>1, <2>2
    <3>2. line' = [line EXCEPT ![l] = t]
      BY <2>2
    <3> HIDE DEF t
    <3>3. /\ line' \in [LINKS -> Seq(Replies)] /\ line'[l] = t
          /\ \A k \in LINKS \ {l} : line'[k] = line[k]
      BY <1>1, <3>1, <3>2
    <3> QED
      BY <2>2, <3>3 DEF t
  <2> QED
    BY <2>1, <2>2
<1>5. ASSUME NEW kind, Waits(l, kind)' PROVE Waits(l, kind)
  <2>1. line[l] \in Seq(Replies)
    BY <1>1
  <2>2. CASE line'[l] = line[l]
    BY <1>5, <2>2 DEF Waits
  <2>3. CASE line[l] # <<>> /\ line'[l] = Tail(line[l])
    <3>1. PICK i \in 1..Len(line'[l]) : line'[l][i] = kind
      BY <1>5 DEF Waits
    <3>2. i + 1 \in 1..Len(line[l]) /\ line[l][i + 1] = kind
      BY <2>1, <2>3, <3>1
    <3> QED
      BY <3>2 DEF Waits
  <2> QED
    BY <1>4, <2>2, <2>3
<1>6. /\ \A kind : Said(l, kind)' <=> Said(l, kind)
      /\ Running(l) /\ Running(l)' /\ ~Over(l)'
      /\ ~Holds(l, "Closed")' /\ (Holds(l, "Lost")' => health[l] # "good")
      /\ Holds(l, "off")' => Waits(l, "off") \/ Holds(l, "off")
  BY <1>2 DEF Said, Running, Over, Holds
<1>7. EachOK(l)
  BY DEF Inv
<1>8. EachOK(l)'
  <2>1. NoOpen(orders[l]) => NoOpen(orders[l])'
    <3>1. orders[l] \in Seq(Orders)
      BY <1>1
    <3>2. NoOpen(orders[l]) => NoOpen(orders'[l])
      BY <1>3, <3>1, OneLess
    <3> QED
      BY <3>2 DEF NoOpen
  <2>2. Ending(orders[l], link[l].open)'
    <3>1. Ending(orders[l], link[l].open) /\ link[l].open \in BOOLEAN
      BY <1>7 DEF EachOK, LinkOK, Fit, Links
    <3>2. orders[l] \in Seq(Orders)
      BY <1>1
    <3>3. Ending(orders'[l], link[l].open)
      BY <1>3, <3>1, <3>2, OneLess
    <3> QED
      BY <3>3, MachineStands DEF Ending
  <2>3. health[l] \in {"good", "deaf", "noisy"} => (Shut(l)' <=> Shut(l))
    BY <1>3, SMTT(30) DEF Shut, Covered
  <2>4. LinkOK(l)' /\ BootOK(l)'
    BY <1>5, <1>6, <1>7, <2>1, <2>2, MachineStands DEF EachOK, LinkOK, BootOK
  <2>5. PumpOK(l)'
    BY <1>2, <1>6, <1>7, MachineStands DEF EachOK, PumpOK
  <2>6. OffOK(l)'
    BY <1>7, <2>3, MachineStands DEF EachOK, OffOK
  <2>7. l \notin STEAM => ZoneOK(l)'
    BY <1>2, <1>6, <1>7, <2>3, MachineStands DEF EachOK, ZoneOK
  <2> QED
    BY <2>4, <2>5, <2>6, <2>7 DEF EachOK
<1>9. PumpTypeOK'
  BY <1>2, <1>3, <1>4 DEF Inv, TypeOK, PumpTypeOK, Orders, PumpStates
<1> QED
  BY <1>2, <1>3, <1>4, <1>8, <1>9, OnePump DEF Said

\* What a failure leaves of the pump.
LEMMA FailsLeaves ==
  ASSUME Inv, NEW l \in LINKS, NEW told \in Seq(Kinds), Fails(l, told)
  PROVE  \E p \in PumpStates :
           /\ pump' = [pump EXCEPT ![l] = p]
           /\ p.grace = pump[l].grace /\ p.held = told
           /\ p.state \in {"LastWords", "BackingOff"}
<1> USE PortPumpAssumption
<1> DEFINE s == IF Gone(l) \/ Failing(l) = MAX_FAILURES THEN "LastWords" ELSE "BackingOff"
           p == [pump[l] EXCEPT !.failures = Failing(l), !.held = told, !.state = s]
<1>1. pump \in [LINKS -> PumpStates] /\ pump[l] \in PumpStates
  BY DEF Inv, TypeOK, PumpTypeOK, PumpStates
<1>2. Failing(l) \in 0..MAX_FAILURES
  BY <1>1 DEF Failing, PumpStates
<1>3. pump' = [pump EXCEPT ![l] = p]
  BY <1>1 DEF Fails
<1>4. s \in {"LastWords", "BackingOff"} /\ s \in States
  BY DEF States
<1> HIDE DEF s
<1>5. p \in PumpStates /\ p.grace = pump[l].grace /\ p.held = told /\ p.state = s
  BY <1>1, <1>2, <1>4 DEF PumpStates
<1> QED
  BY <1>3, <1>4, <1>5

LEMMA FailuresKeep ==
  ASSUME Inv, UNCHANGED loopVars, mode # "Exited", NEW l \in LINKS,
         WriteFails(l) \/ ReadFails(l)
  PROVE  Inv'
<1> DEFINE Told == {<<"Lost">>, <<"Failed">>, <<"Failed", "Lost">>}
<1>1. PICK told \in Told : Fails(l, told)
  BY DEF WriteFails, ReadFails
<1>2. /\ told \in Seq(Kinds)
      /\ \A i \in 1..Len(told) : told[i] \notin {"Closed", "off"}
  <2>1. "Lost" \in Kinds /\ "Failed" \in Kinds
    BY DEF Kinds
  <2>2. CASE told = <<"Lost">>
    BY <2>1, <2>2
  <2>3. CASE told = <<"Failed">>
    BY <2>1, <2>3
  <2>4. CASE told = <<"Failed", "Lost">>
    BY <2>1, <2>4
  <2> QED
    BY <1>1, <2>2, <2>3, <2>4
<1>3. PICK p \in PumpStates :
        /\ pump' = [pump EXCEPT ![l] = p]
        /\ p.grace = pump[l].grace /\ p.held = told
        /\ p.state \in {"LastWords", "BackingOff"}
  BY <1>1, <1>2, FailsLeaves
<1>4. ~Over(l) /\ UNCHANGED <<health, water, line, reports>> /\ health[l] # "good"
  BY DEF WriteFails, ReadFails, Idle, Live, Over, Writable, wireVars
<1>5. \/ orders' = orders
      \/ /\ orders[l] # <<>> /\ orders' = [orders EXCEPT ![l] = Tail(orders[l])]
         /\ health[l] \notin {"good", "deaf", "noisy"}
  <2>1. CASE ReadFails(l)
    BY <2>1 DEF ReadFails
  <2>2. CASE WriteFails(l)
    <3>1. orders[l] # <<>> /\ Taken(l) /\ health[l] \in {"mute", "gone"}
      BY <2>2 DEF WriteFails, Ordered, Writable
    <3>2. orders' = [orders EXCEPT ![l] = Tail(orders[l])]
      BY <3>1 DEF Taken, Inv, TypeOK, PumpTypeOK
    <3> QED
      BY <3>1, <3>2
  <2> QED
    BY <2>1, <2>2
<1> HIDE DEF Told
<1> QED
  BY <1>2, <1>3, <1>4, <1>5, TurnsKeep

LEMMA ReadKeeps ==
  ASSUME Inv, UNCHANGED loopVars, mode # "Exited", NEW l \in LINKS, Read(l)
  PROVE  Inv'
<1> USE PortPumpAssumption
<1>1. /\ pump[l].state = "Reading" /\ UNCHANGED <<health, water, orders, reports>>
      /\ pump \in [LINKS -> PumpStates] /\ pump[l] \in PumpStates
      /\ line[l] \in Seq(Replies)
  BY DEF Read, Idle, Inv, TypeOK, PumpTypeOK, PumpStates
<1>2. PICK heard \in Replies :
        /\ IF line[l] # <<>> THEN heard = Head(line[l]) /\ line' = [line EXCEPT ![l] = Tail(@)]
           ELSE heard = "noise" /\ health[l] = "noisy" /\ UNCHANGED line
        /\ pump' = [pump EXCEPT ![l].failures = 0, ![l].held = <<heard>>]
  BY DEF Read
<1> DEFINE p == [pump[l] EXCEPT !.failures = 0, !.held = <<heard>>]
<1>3. pump' = [pump EXCEPT ![l] = p]
  BY <1>1, <1>2
<1>4. <<heard>> \in Seq(Kinds) /\ 0 \in 0..MAX_FAILURES
  BY DEF Kinds
<1>5. /\ p \in PumpStates /\ p.grace = pump[l].grace /\ p.held = <<heard>>
      /\ p.state = "Reading"
  BY <1>1, <1>4 DEF PumpStates
<1>6. \/ line' = line
      \/ line[l] # <<>> /\ line' = [line EXCEPT ![l] = Tail(line[l])]
  BY <1>2 DEF Inv, TypeOK, PumpTypeOK
<1>7. heard = "off" => Waits(l, "off")
  <2>1. line[l] # <<>> => 1 \in 1..Len(line[l]) /\ Head(line[l]) = line[l][1]
    BY <1>1
  <2> QED
    BY <1>2, <2>1 DEF Waits
<1> HIDE DEF p
<1>8. \A i \in 1..Len(p.held) :
        /\ p.held[i] # "Closed" /\ p.held[i] # "Lost"
        /\ p.held[i] = "off" => Waits(l, "off") \/ Holds(l, "off")
  BY <1>5, <1>7 DEF Replies
<1>9. ~Over(l)
  BY <1>1 DEF Over
<1> QED
  BY <1>1, <1>3, <1>5, <1>6, <1>8, <1>9, TurnsKeep

LEMMA ReadAgainKeeps ==
  ASSUME Inv, UNCHANGED loopVars, mode # "Exited", NEW l \in LINKS, ReadAgain(l)
  PROVE  Inv'
<1> DEFINE p == [pump[l] EXCEPT !.state = "Reading"]
<1>1. /\ pump[l].state = "BackingOff" /\ pump[l].held = <<>>
      /\ UNCHANGED <<health, water, line, orders, reports>>
      /\ pump \in [LINKS -> PumpStates] /\ pump[l] \in PumpStates
  BY DEF ReadAgain, Idle, wireVars, Inv, TypeOK, PumpTypeOK, PumpStates
<1>2. pump' = [pump EXCEPT ![l] = p]
  BY <1>1 DEF ReadAgain
<1>3. /\ p \in PumpStates /\ p.grace = pump[l].grace /\ p.held = <<>>
      /\ p.state = "Reading"
  BY <1>1 DEF PumpStates, States
<1> HIDE DEF p
<1>4. ~Over(l)
  BY <1>1 DEF Over
<1>5. \A i \in 1..Len(p.held) :
        /\ p.held[i] # "Closed" /\ p.held[i] # "Lost" /\ p.held[i] # "off"
  BY <1>3
<1> QED
  BY <1>1, <1>2, <1>3, <1>4, <1>5, TurnsKeep

\* A pump that ends, told to or because its grace is over.
LEMMA EndsKeep ==
  ASSUME Inv, UNCHANGED loopVars, mode # "Exited", NEW l \in LINKS,
         ObeyClose(l) \/ NoMoreWords(l)
  PROVE  Inv'
<1> DEFINE p == [pump[l] EXCEPT !.state = "Closing", !.held = <<"Closed">>]
<1>1. /\ Ends(l) /\ pump[l].state \in Live \cup {"LastWords"}
      /\ Ordered(l, "Close") \/ (pump[l].grace = 0 /\ pump[l].state = "LastWords")
  BY DEF ObeyClose, NoMoreWords, Idle
<1>2. /\ pump \in [LINKS -> PumpStates] /\ pump[l] \in PumpStates
      /\ orders \in [LINKS -> Seq(Orders)] /\ orders[l] \in Seq(Orders)
      /\ water[l] \in BOOLEAN
  BY DEF Inv, TypeOK, PumpTypeOK, PumpStates, Orders
<1>3. /\ pump' = [pump EXCEPT ![l] = p]
      /\ orders' = [orders EXCEPT ![l] = <<>>]
      /\ UNCHANGED <<health, water, line, reports>>
  BY <1>1, <1>2 DEF Ends, wireVars
<1>4. <<"Closed">> \in Seq(Kinds) /\ "Closing" \in States
  BY DEF Kinds, States
<1>5. /\ p \in PumpStates /\ p.grace = pump[l].grace /\ p.held = <<"Closed">>
      /\ p.state = "Closing"
  BY <1>2, <1>4 DEF PumpStates
<1> HIDE DEF p
<1>6. /\ pump'[l] = p /\ pump' \in [LINKS -> PumpStates]
      /\ orders'[l] = <<>> /\ orders' \in [LINKS -> Seq(Orders)]
      /\ \A k \in LINKS \ {l} : pump'[k] = pump[k] /\ orders'[k] = orders[k]
  <2> HIDE DEF PumpStates
  <2> QED
    BY <1>2, <1>3, <1>5
<1>7. EachOK(l) /\ ~Over(l) /\ Running(l) /\ Over(l)' /\ Running(l)'
  BY <1>1, <1>5, <1>6 DEF Inv, Over, Running, Live
<1>8. /\ \A kind : Said(l, kind)' <=> Said(l, kind)
      /\ \A kind : Waits(l, kind)' <=> Waits(l, kind)
      /\ \A kind : Holds(l, kind)' => kind = "Closed"
  BY <1>3, <1>5, <1>6 DEF Said, Waits, Holds
<1>9. Ordered(l, "Close") => ~link[l].open /\ (Shut(l) => ~water[l])
  <2> SUFFICES ASSUME Ordered(l, "Close")
               PROVE  ~link[l].open /\ (Shut(l) => ~water[l])
    OBVIOUS
  <2>1. orders[l] # <<>> /\ Head(orders[l]) = "Close"
    BY DEF Ordered
  <2>2. Ending(orders[l], link[l].open) /\ link[l].open \in BOOLEAN
    BY <1>7 DEF EachOK, LinkOK, Fit, Links
  <2>3. ~link[l].open /\ Len(orders[l]) = 1
    BY <1>2, <2>1, <2>2, OneLess
  <2>4. Shut(l) => ~water[l]
    BY <1>2, <2>1, <2>3, CloseCoversNothing DEF Shut
  <2> QED
    BY <2>3, <2>4
<1>10. pump[l].state = "LastWords" => health[l] # "good"
  BY <1>7 DEF EachOK, PumpOK
<1>11. NoOpen(orders[l])' /\ Ending(orders[l], link[l].open)' /\ (~water[l] => Shut(l)')
  BY <1>3, <1>6 DEF NoOpen, Ending, Shut, Covered
<1>12. EachOK(l)'
  <2>1. LinkOK(l)' /\ BootOK(l)'
    BY <1>3, <1>7, <1>8, <1>11, MachineStands DEF EachOK, LinkOK, BootOK
  <2>2. PumpOK(l)'
    BY <1>1, <1>3, <1>5, <1>6, <1>7, <1>8, <1>9, <1>10, MachineStands DEF EachOK, PumpOK
  <2>3. OffOK(l)'
    BY <1>1, <1>3, <1>7, <1>9, <1>10, <1>11, MachineStands DEF EachOK, OffOK
  <2>4. l \notin STEAM => ZoneOK(l)'
    BY <1>1, <1>3, <1>5, <1>6, <1>7, <1>9, <1>11, MachineStands DEF EachOK, ZoneOK
  <2> QED
    BY <2>1, <2>2, <2>3, <2>4 DEF EachOK
<1>13. PumpTypeOK'
  BY <1>3, <1>6 DEF Inv, TypeOK, PumpTypeOK, Orders, PumpStates
<1> QED
  BY <1>3, <1>6, <1>12, <1>13, OnePump DEF Said

LEMMA PumpKeeps ==
  ASSUME Inv, NEW l \in LINKS, Pump(l)
  PROVE  Inv'
<1>1. UNCHANGED loopVars /\ mode # "Exited" /\ PumpStep(l)
  BY DEF Pump
<1>2. CASE Write(l)
  <2>1. PICK frame \in Frames : Ordered(l, frame) /\ Answered(l, frame)
    BY <1>2 DEF Write
  <2>2. pump[l].state \in Live \cup {"LastWords"} /\ Writable(l) /\ Taken(l)
        /\ UNCHANGED <<health, pump, reports>>
    BY <1>2 DEF Write, Idle
  <2> QED
    BY <1>1, <2>1, <2>2, WritesKeep
<1>3. CASE LastWord(l)
  <2>1. PICK frame \in Frames :
          /\ Ordered(l, frame)
          /\ IF Writable(l) THEN Answered(l, frame) ELSE UNCHANGED <<water, line>>
    BY <1>3 DEF LastWord
  <2>2. pump[l].state \in Live \cup {"LastWords"} /\ Taken(l)
        /\ UNCHANGED <<health, pump, reports>>
    BY <1>3 DEF LastWord, Idle
  <2> QED
    BY <1>1, <2>1, <2>2, WritesKeep
<1> QED
  BY <1>1, <1>2, <1>3, SendKeeps, FailuresKeep, ReadKeeps, ReadAgainKeeps, EndsKeep
  DEF PumpStep

\* A link that breaks while its pump runs.
LEMMA BreakKeeps ==
  ASSUME Inv, Break
  PROVE  Inv'
<1> USE PortPumpAssumption
<1>1. PICK l \in FRAGILE : Breaks(l)
  BY DEF Break
<1>2. /\ mode # "Exited" /\ UNCHANGED loopVars /\ l \in LINKS /\ health[l] = "good"
      /\ Running(l) /\ UNCHANGED <<water, line, reports>> /\ EachOK(l)
      /\ pump \in [LINKS -> PumpStates] /\ pump[l] \in PumpStates
      /\ orders \in [LINKS -> Seq(Orders)] /\ health \in [LINKS -> Conditions]
  BY <1>1 DEF Break, Breaks, Inv, TypeOK, PumpTypeOK, PumpStates, Orders
<1>3. CASE (\E c \in BREAKS \ {"panic"} : health' = [health EXCEPT ![l] = c])
           /\ UNCHANGED <<pump, orders>>
  <2>1. PICK c \in BREAKS \ {"panic"} : health' = [health EXCEPT ![l] = c]
    BY <1>3
  <2>2. /\ health' \in [LINKS -> Conditions] /\ \A k \in LINKS \ {l} : health'[k] = health[k]
    BY <1>2, <2>1
  <2>3. /\ (Over(l)' <=> Over(l)) /\ (Running(l)' <=> Running(l))
        /\ \A kind : Said(l, kind)' <=> Said(l, kind)
        /\ \A kind : Holds(l, kind)' <=> Holds(l, kind)
        /\ \A kind : Waits(l, kind)' <=> Waits(l, kind)
        /\ (Shut(l)' <=> Shut(l)) /\ (NoOpen(orders[l])' <=> NoOpen(orders[l]))
        /\ (Ending(orders[l], link[l].open)' <=> Ending(orders[l], link[l].open))
    BY <1>2, <1>3, MachineStands
    DEF Over, Running, Said, Holds, Waits, Shut, Covered, NoOpen, Ending
  <2>4. LinkOK(l)' /\ PumpOK(l)' /\ BootOK(l)' /\ OffOK(l)'
    BY <1>2, <1>3, <2>3, MachineStands DEF EachOK, LinkOK, PumpOK, BootOK, OffOK
  <2>5. l \notin STEAM => ZoneOK(l)'
    BY <1>2, <1>3, <2>3, MachineStands DEF EachOK, ZoneOK
  <2>6. EachOK(l)'
    BY <2>4, <2>5 DEF EachOK
  <2>7. PumpTypeOK'
    BY <1>2, <1>3, <2>2 DEF Inv, TypeOK, PumpTypeOK
  <2> QED
    BY <1>2, <1>3, <2>2, <2>6, <2>7, OnePump DEF Said
<1>4. CASE /\ health' = [health EXCEPT ![l] = "gone"]
           /\ pump' = [pump EXCEPT ![l].state = "Ended", ![l].held = <<>>]
           /\ orders' = [orders EXCEPT ![l] = <<>>]
  <2> DEFINE p == [pump[l] EXCEPT !.state = "Ended", !.held = <<>>]
  <2>1. pump' = [pump EXCEPT ![l] = p]
    BY <1>2, <1>4
  <2>2. p \in PumpStates /\ p.state = "Ended" /\ p.held = <<>>
    <3>1. <<>> \in Seq(Kinds) /\ "Ended" \in States
      BY DEF States
    <3> QED
      BY <1>2, <3>1 DEF PumpStates
  <2> HIDE DEF p
  <2>3. /\ pump'[l] = p /\ pump' \in [LINKS -> PumpStates]
        /\ orders'[l] = <<>> /\ orders' \in [LINKS -> Seq(Orders)]
        /\ health'[l] = "gone" /\ health' \in [LINKS -> Conditions]
        /\ \A k \in LINKS \ {l} :
             pump'[k] = pump[k] /\ orders'[k] = orders[k] /\ health'[k] = health[k]
    <3>1. "gone" \in Conditions
      BY DEF Conditions
    <3>2. /\ health'[l] = "gone" /\ health' \in [LINKS -> Conditions]
          /\ \A k \in LINKS \ {l} : health'[k] = health[k]
      BY <1>2, <1>4, <3>1
    <3>3. /\ orders'[l] = <<>> /\ orders' \in [LINKS -> Seq(Orders)]
          /\ \A k \in LINKS \ {l} : orders'[k] = orders[k]
      BY <1>2, <1>4
    <3>4. /\ pump'[l] = p /\ pump' \in [LINKS -> PumpStates]
          /\ \A k \in LINKS \ {l} : pump'[k] = pump[k]
      BY <1>2, <2>1, <2>2
    <3> QED
      BY <3>2, <3>3, <3>4
  <2>4. /\ ~Running(l)' /\ Over(l)' /\ \A kind : ~Holds(l, kind)'
        /\ \A kind : Said(l, kind)' <=> Said(l, kind)
        /\ \A kind : Waits(l, kind)' <=> Waits(l, kind)
        /\ NoOpen(orders[l])' /\ Ending(orders[l], link[l].open)'
    BY <1>2, <2>2, <2>3 DEF Running, Over, Holds, Said, Waits, NoOpen, Ending
  <2>5. LinkOK(l)' /\ BootOK(l)'
    BY <1>2, <2>4, MachineStands DEF EachOK, LinkOK, BootOK
  <2>6. PumpOK(l)' /\ OffOK(l)'
    BY <1>2, <2>2, <2>3, <2>4, MachineStands DEF EachOK, PumpOK, OffOK
  <2>7. l \notin STEAM => ZoneOK(l)'
    BY <2>3, <2>4 DEF ZoneOK
  <2>8. EachOK(l)'
    BY <2>5, <2>6, <2>7 DEF EachOK
  <2>9. PumpTypeOK'
    BY <1>2, <2>3 DEF Inv, TypeOK, PumpTypeOK, Orders, PumpStates
  <2> QED
    BY <1>2, <2>3, <2>8, <2>9, OnePump DEF Said
<1> QED
  BY <1>1, <1>3, <1>4 DEF Breaks

-----------------------------------------------------------------------------
(* What follows.                                                            *)

LEMMA InitOK ==
  ASSUME Init
  PROVE  Inv
<1> USE SupervisorAssumption, PortPumpAssumption
<1> DEFINE m0 == [phase |-> "Booting", op |-> "none", retry |-> FALSE,
                  tries |-> 0, moving |-> FALSE, awaiting |-> NONE,
                  wake |-> 0, pacing |-> 0, open |-> TRUE]
<1>1. /\ link = [l \in LINKS |-> m0] /\ mode = "Serving" /\ served = FALSE
      /\ shutdown = FALSE /\ left = 0 /\ outcome = {} /\ reports = <<>>
      /\ health = [l \in LINKS |-> "good"] /\ water \in [LINKS -> BOOLEAN]
      /\ line = [l \in LINKS |-> <<>>] /\ pump = [l \in LINKS |-> FreshPump]
      /\ orders = [l \in LINKS |-> <<>>]
  BY DEF Init, PumpInit
<1>2. m0 \in Links /\ Fit(m0) /\ ~Offish(m0)
  BY DEF Links, Fit, Offish, Phases, Ops, Frames, NONE
<1>3. /\ FreshPump.state = "Reading" /\ FreshPump.held = <<>>
      /\ FreshPump \in PumpStates
  BY DEF FreshPump, PumpStates, States
<1>4. /\ <<>> \in Seq(Orders) /\ <<>> \in Seq(Replies)
      /\ <<>> \in Seq([link : LINKS, kind : Kinds]) /\ "good" \in Conditions
  BY DEF Conditions
<1>5. m0.phase = "Booting" /\ m0.open
  OBVIOUS
<1> HIDE DEF m0
<1>6. TypeOK
  <2>1. link \in [LINKS -> Links] /\ pump \in [LINKS -> PumpStates]
    BY <1>1, <1>2, <1>3
  <2>2. /\ health \in [LINKS -> Conditions] /\ orders \in [LINKS -> Seq(Orders)]
        /\ line \in [LINKS -> Seq(Replies)]
    <3>1. health \in [LINKS -> Conditions] /\ orders \in [LINKS -> Seq(Orders)]
      BY <1>1, <1>4
    <3>2. line \in [LINKS -> Seq(Replies)]
      BY <1>1, <1>4
    <3> QED
      BY <3>1, <3>2
  <2>3. reports \in Seq([link : LINKS, kind : Kinds])
    BY <1>1, <1>4
  <2>4. Len(reports) <= REPORT_CAPACITY
    BY <1>1
  <2>5. PumpTypeOK
    BY <1>1, <2>1, <2>2, <2>3, <2>4 DEF PumpTypeOK, Orders, PumpStates
  <2>6. /\ mode \in {"Serving", "Draining", "Closing", "Exited"}
        /\ served \in BOOLEAN /\ shutdown \in BOOLEAN /\ outcome \subseteq LINKS
    BY <1>1
  <2>7. left \in 0..(GRACE + CLOSE_GRACE)
    <3>1. left = 0
      BY <1>1
    <3> QED
      BY <3>1
  <2> QED
    BY <2>1, <2>5, <2>6, <2>7 DEF TypeOK
<1>7. ASSUME NEW l \in LINKS PROVE EachOK(l)
  <2>1. /\ link[l] = m0 /\ health[l] = "good" /\ line[l] = <<>> /\ orders[l] = <<>>
        /\ pump[l].state = "Reading" /\ pump[l].held = <<>>
    BY <1>1, <1>3
  <2>2. \A kind : ~Said(l, kind) /\ ~Holds(l, kind) /\ ~Waits(l, kind)
    BY <1>1, <2>1 DEF Said, Holds, Waits
  <2>3. LinkOK(l)
    BY <1>2, <1>5, <2>1 DEF LinkOK, Ending
  <2>4. PumpOK(l) /\ BootOK(l)
    BY <2>1, <2>2 DEF PumpOK, BootOK, Over, NoOpen
  <2>5. OffOK(l)
    BY <1>2, <1>5, <2>1 DEF OffOK
  <2>6. ZoneOK(l)
    BY <1>5, <2>1 DEF ZoneOK, Over
  <2> QED
    BY <2>3, <2>4, <2>5, <2>6 DEF EachOK
<1>8. OutcomeOK /\ GoneOK
  BY <1>1 DEF OutcomeOK, GoneOK, Looping
<1> QED
  BY <1>6, <1>7, <1>8 DEF Inv

LEMMA NextKeeps ==
  ASSUME Inv, [Next]_vars
  PROVE  Inv'
<1> USE SupervisorAssumption
<1>1. TypeOK
  BY DEF Inv
<1>2. CASE Deadline
  <2>1. LoopStep
    BY <1>2, DeadlineSteps
  <2>2. served' \in BOOLEAN /\ shutdown' = shutdown /\ left' = left
    BY <1>2 DEF Deadline
  <2> QED
    BY <1>1, <2>1, <2>2, LoopStepKeepsInv DEF TypeOK
<1>3. CASE OnReport
  <2>1. LoopStep
    BY <1>3, OnReportSteps
  <2>2. served' \in BOOLEAN /\ shutdown' = shutdown /\ left' = left
    BY <1>3 DEF OnReport, TakeReport
  <2> QED
    BY <1>1, <2>1, <2>2, LoopStepKeepsInv DEF TypeOK
<1>4. CASE BeginDrain
  <2>1. LoopStep
    BY <1>4, BeginDrainSteps
  <2>2. served' \in BOOLEAN /\ shutdown' = shutdown /\ left' = GRACE
    BY <1>4 DEF BeginDrain
  <2>3. left' \in 0..(GRACE + CLOSE_GRACE)
    BY <2>2
  <2> QED
    BY <1>1, <2>1, <2>2, <2>3, LoopStepKeepsInv DEF TypeOK
<1>5. CASE Command
  <2>1. LoopStep
    BY <1>5, CommandSteps
  <2>2. served' \in BOOLEAN /\ shutdown' = shutdown /\ left' = left
    BY <1>5 DEF Command, StopAll, Start, Stop, TakeCommand
  <2> QED
    BY <1>1, <2>1, <2>2, LoopStepKeepsInv DEF TypeOK
<1>6. CASE UNCHANGED vars
  <2>1. UNCHANGED <<mode, link, served, shutdown, left, outcome, orders, health, water,
                    line, pump, reports>>
    BY <1>6 DEF vars, loopVars, pumpVars, wireVars
  <2>2. \A l, kind : Said(l, kind)' => Said(l, kind)
    BY <2>1 DEF Said
  <2>3. \A l \in LINKS : EachOK(l)'
    BY <2>1, <2>2, NothingOfLinks DEF Looping
  <2>4. TypeOK' /\ OutcomeOK' /\ GoneOK'
    BY <2>1 DEF Inv, TypeOK, PumpTypeOK, OutcomeOK, GoneOK, Looping, AllGone, Running
  <2> QED
    BY <2>3, <2>4 DEF Inv
<1> QED
  BY <1>2, <1>3, <1>4, <1>5, <1>6, FinishKeeps, DiscardKeeps, ExitKeeps, ElapseKeeps,
     BreakKeeps, PumpKeeps DEF Next, Loop

LEMMA Holding == Spec => []Inv
<1>1. Init => Inv
  BY InitOK
<1>2. Inv /\ [Next]_vars => Inv'
  BY NextKeeps
<1> QED
  BY <1>1, <1>2, PTL DEF Spec

\* Every variable stays in its range, and the shared queue within its capacity,
\* whatever the links do.
THEOREM SupervisorTyping == Spec => []TypeOK
<1>1. Inv => TypeOK
  BY DEF Inv
<1> QED
  BY <1>1, Holding, PTL

\* The all-off of an escalation reaches the valve: a zone that is latched is
\* closed, or has the frame still before its pump, unless the pump's grace ran
\* out or its frames do not arrive.
THEOREM SupervisorEscalates == Spec => []EscalationReachesTheValve
<1>1. Inv => EscalationReachesTheValve
  <2> SUFFICES ASSUME Inv, NEW l \in LINKS \ STEAM, link[l].phase = "Unavailable",
                      health[l] \in {"good", "deaf", "noisy"}, water[l],
                      pump[l].grace # 0
               PROVE  /\ pump[l].state \in Live \cup {"LastWords"}
                      /\ \E i \in 1..Len(orders[l]) : orders[l][i] = "Off"
    BY DEF EscalationReachesTheValve
  <2>1. ZoneOK(l) /\ pump[l].state \in States
    BY DEF Inv, EachOK, TypeOK, PumpTypeOK
  <2>2. Shut(l) /\ (orders[l] # <<>> => ~Over(l))
    BY <2>1 DEF ZoneOK
  <2>3. PICK i \in 1..Len(orders[l]) : orders[l][i] = "Off"
    BY <2>2 DEF Shut, Covered
  <2>4. orders[l] # <<>>
    BY <2>3
  <2> QED
    BY <2>1, <2>2, <2>3, <2>4 DEF Over, Live, States
<1> QED
  BY <1>1, Holding, PTL

\* A service that exits before its time saying that every link confirmed itself
\* off leaves no link open whose wire is whole.
THEOREM SupervisorOutcome == Spec => []OutcomeIsTrue
<1>1. Inv => OutcomeIsTrue
  <2> SUFFICES ASSUME Inv, mode = "Exited", outcome = {}, left > 0,
                      NEW l \in LINKS, health[l] = "good"
               PROVE  ~water[l]
    BY DEF OutcomeIsTrue
  <2>1. ~Looping /\ ~Running(l) /\ link[l].phase = "ReadyOff"
    BY DEF Inv, OutcomeOK, GoneOK, AllGone, Looping
  <2>2. PumpOK(l) /\ OffOK(l) /\ water[l] \in BOOLEAN
    BY DEF Inv, EachOK, TypeOK, PumpTypeOK
  <2>3. orders[l] = <<>>
    BY <2>1, <2>2 DEF PumpOK, Over, Running
  <2>4. Covered(<<>>, water[l])
    BY <2>1, <2>2, <2>3 DEF OffOK, Offish, Shut
  <2> QED
    BY <2>2, <2>4, NothingOrdered
<1> QED
  BY <1>1, Holding, PTL

\* A stop of a running link, paced or not, puts an all-off before it.
LEMMA RunningIsTold ==
  ASSUME NEW l, Fit(link[l]), link[l].phase = "Running"
  PROVE  /\ \A r \in Commanded(l, TakesStop(l, link[l])) : r.m.op = "Off"
         /\ \A r \in Paced(l, "Stop", TakesStop(l, link[l])) : r.m.op = "Off"
<1> DEFINE m == link[l]
<1>1. ~TooSoon(l, "Stop")
  BY DEF TooSoon
<1>2. ASSUME NEW o \in TakesStop(l, m)
      PROVE  o.m \in Links /\ o.m.op = "Off"
  <2>1. o.m \in Links
    BY <1>2, TakesStopLawful DEF Lawful, Fit
  <2>2. \/ o = Sends(m, "Off")
        \/ o = Sends([m EXCEPT !.phase = "ConfirmOff"], "Off")
    BY <1>2 DEF TakesStop, StopsZone
  <2>3. /\ Sends(m, "Off").m.op = "Off"
        /\ Sends([m EXCEPT !.phase = "ConfirmOff"], "Off").m.op = "Off"
    BY DEF Sends, Outcome, Fit, Links
  <2> QED
    BY <2>1, <2>2, <2>3
<1>3. ASSUME NEW r \in Commanded(l, TakesStop(l, m)) PROVE r.m.op = "Off"
  <2>1. PICK o \in TakesStop(l, m) :
          r = [Applied(l, o) EXCEPT !.m.pacing =
                 IF Applied(l, o).refused THEN @ ELSE RESPONSE]
    BY <1>3 DEF Commanded, Stepped
  <2> DEFINE a == Applied(l, o)
             x == IF a.refused THEN a.m.pacing ELSE RESPONSE
  <2>2. a = [m |-> a.m, q |-> a.q, refused |-> a.refused]
    BY DEF Applied
  <2>3. "op" \in DOMAIN a.m /\ a.m.op = "Off"
    <3> DEFINE open == StillOpen(l, o.tx, o.m.open) /\ ~o.close
               due == Armed(o)
    <3>1. a.m = [o.m EXCEPT !.open = open, !.awaiting = due]
      BY DEF Applied
    <3> HIDE DEF open, due
    <3> QED
      BY <1>2, <3>1 DEF Links
  <2> HIDE DEF a
  <2>4. r.m = [a.m EXCEPT !.pacing = x]
    BY <2>1, <2>2 DEF a
  <2> HIDE DEF x
  <2> QED
    BY <2>3, <2>4
<1> QED
  BY <1>1, <1>3 DEF Paced

\* A stop of everything, asked for or at shutdown, tells every running link,
\* whatever its pacing.
THEOREM SupervisorTellsAll == Spec => EveryLinkIsToldToStop
<1>1. ASSUME Inv, StopAll, NEW l \in LINKS, link[l].phase = "Running"
      PROVE  link'[l].op = "Off"
  <2>1. PICK f : /\ \A k \in LINKS : f[k] \in Paced(k, "Stop", TakesStop(k, link[k]))
                 /\ Become(f)
    BY <1>1 DEF StopAll, Choices
  <2>2. Fit(link[l])
    BY <1>1 DEF Inv, EachOK, LinkOK
  <2> QED
    BY <1>1, <2>1, <2>2, RunningIsTold DEF Become
<1>2. ASSUME Inv, BeginDrain, NEW l \in LINKS, link[l].phase = "Running"
      PROVE  link'[l].op = "Off"
  <2>1. PICK f : /\ \A k \in LINKS : f[k] \in Commanded(k, TakesStop(k, link[k]))
                 /\ Become(f)
    BY <1>2 DEF BeginDrain, Choices
  <2>2. Fit(link[l])
    BY <1>2 DEF Inv, EachOK, LinkOK
  <2> QED
    BY <1>2, <2>1, <2>2, RunningIsTold DEF Become
<1>3. Inv => [StopAll \/ BeginDrain =>
                \A l \in LINKS : link[l].phase = "Running" => link'[l].op = "Off"]_vars
  BY <1>1, <1>2
<1> QED
  BY <1>3, Holding, PTL DEF EveryLinkIsToldToStop

=============================================================================
