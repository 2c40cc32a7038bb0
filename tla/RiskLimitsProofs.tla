---------------------------- MODULE RiskLimitsProofs ----------------------------
(***************************************************************************)
(* With one clock the risk gate enforces its limits: the inductive         *)
(* invariant of RiskLimits, and from it the bound on a day's loss and what *)
(* every entry can rely on. The only arithmetic beyond sums is that days   *)
(* follow the clock, UtcDayGrows.                                          *)
(***************************************************************************)
EXTENDS RiskLimits, TLAPS

\* A time lies in its day: the quotient and what is left of the time.
LEMMA UtcDayOf ==
  ASSUME NEW t \in Nat
  PROVE  /\ UtcDay(t) \in Nat
         /\ DayLength * UtcDay(t) <= t
         /\ t < DayLength * UtcDay(t) + DayLength
  BY DayAssumption DEF UtcDay

\* A later time is not of an earlier day.
LEMMA UtcDayGrows ==
  ASSUME NEW s \in Nat, NEW t \in Nat, s <= t
  PROVE  UtcDay(s) <= UtcDay(t)
  <1> DEFINE a == UtcDay(s)
  <1> DEFINE b == UtcDay(t)
  <1>1. a \in Nat /\ b \in Nat /\ DayLength * a <= s
        /\ t < DayLength * b + DayLength
    BY UtcDayOf
  <1> SUFFICES ASSUME a > b PROVE FALSE
    BY <1>1
  <1> HIDE DEF a, b
  <1>2. a >= b + 1
    BY <1>1
  <1>3. DayLength * a >= DayLength * (b + 1)
    BY <1>1, <1>2, DayAssumption
  <1>4. DayLength * (b + 1) = DayLength * b + DayLength
    BY <1>1, DayAssumption
  <1> QED
    BY <1>1, <1>3, <1>4, DayAssumption

\* The times of the model are natural numbers, and their days its days.
LEMMA TimeFacts ==
  ASSUME NEW t \in Times
  PROVE  t \in Nat /\ UtcDay(t) \in Days /\ UtcDay(t) \in Nat
  BY UtcDayOf, TimeAssumption DEF Times, Days

\* A refreshed gate is a gate of the time's day.
LEMMA RefreshType ==
  ASSUME NEW g \in Gate, NEW t \in Times
  PROVE  RefreshForTime(g, t) \in Gate /\ RefreshForTime(g, t).day = UtcDay(t)
  <1>1. ResetDaily(g) \in Gate
    BY DEF ResetDaily, Gate, Never
  <1>2. UtcDay(t) \in Nat
    BY TimeFacts
  <1> QED
    BY <1>1, <1>2 DEF RefreshForTime, Gate

\* A result leaves a gate.
LEMMA ClosedType ==
  ASSUME NEW g \in Gate, NEW t \in Times, NEW pnl \in Int
  PROVE  OnTradeClosed(g, pnl, t) \in Gate
  <1> DEFINE r == RefreshForTime(g, t)
  <1>1. r \in Gate
    BY RefreshType
  <1> HIDE DEF r
  <1>2. OnePositionLess(r) \in Gate
    BY <1>1 DEF OnePositionLess, Gate
  <1>3. t \in Nat
    BY TimeFacts
  <1>4. Realize(OnePositionLess(r), pnl, t) \in Gate
    BY <1>2, <1>3 DEF Realize, Gate
  <1> QED
    BY <1>4 DEF OnTradeClosed, r

\* The initial state satisfies the inductive invariant.
LEMMA InitIInv == Init => IInv
  <1> SUFFICES ASSUME Init PROVE IInv
    OBVIOUS
  <1>1. 0 \in Times /\ \A t \in Times : UtcDay(t) \in Nat
    BY TimeAssumption, TimeFacts DEF Times
  <1>2. Days \subseteq Nat /\ Today \in Nat
    BY <1>1 DEF Days, Today, Init
  <1>3. TypeOK
    BY <1>1, RiskAssumption, TimeAssumption
    DEF Init, TypeOK, Gate, NewGate, Never
  <1>4. GateDay /\ GateCounts
    BY <1>2 DEF Init, GateDay, GateCounts, NewGate, Never
  <1>5. LossAhead /\ NoLossNoTrade /\ DailyLossBounded /\ CountsOpenTrade
    BY RiskAssumption, StakeAssumption
    DEF Init, LossAhead, NoLossNoTrade, DailyLossBounded, CountsOpenTrade, NewGate
  <1> QED
    BY <1>3, <1>4, <1>5 DEF IInv

\* What a gate that has caught up with the clock counts: the results of today.
LEMMA RefreshedCounts ==
  ASSUME IInv
  PROVE  LET r == RefreshForTime(gate, clock)
         IN  /\ r \in Gate /\ r.day = Today /\ r.open = gate.open
             /\ r.pnl = dayPnl[Today] /\ r.losses = streak[Today]
             /\ r.lossAt = IF lastLoss # Never /\ UtcDay(lastLoss) = Today
                           THEN lastLoss ELSE Never
  <1>1. clock \in Times /\ gate \in Gate /\ Today \in Days /\ Today \in Nat
    BY TimeFacts DEF IInv, TypeOK, Today
  <1>2. RefreshForTime(gate, clock) \in Gate
        /\ RefreshForTime(gate, clock).day = Today
    BY <1>1, RefreshType DEF Today
  <1>3. CASE gate.day = Today
    <2>1. RefreshForTime(gate, clock) = gate
      BY <1>3 DEF RefreshForTime, Today
    <2>2. gate.day # Never
      BY <1>1, <1>3 DEF Never
    <2> QED
      BY <1>1, <1>2, <1>3, <2>1, <2>2 DEF IInv, GateCounts
  <1>4. CASE gate.day # Today
    <2> DEFINE r == [ResetDaily(gate) EXCEPT !.day = UtcDay(clock)]
    <2>1. RefreshForTime(gate, clock) = r
      BY <1>4 DEF RefreshForTime, Today
    <2>2. r.open = gate.open /\ r.pnl = 0 /\ r.losses = 0 /\ r.lossAt = Never
      BY DEF ResetDaily
    <2>3. Today > gate.day
      BY <1>1, <1>4 DEF IInv, GateDay, Gate, Never
    <2>4. dayPnl[Today] = 0 /\ streak[Today] = 0
      BY <1>1, <2>3 DEF IInv, GateDay
    <2>5. ~(lastLoss # Never /\ UtcDay(lastLoss) = Today)
      BY <1>1, <2>3 DEF IInv, GateDay, Gate, Never
    <2> QED
      BY <1>2, <2>1, <2>2, <2>4, <2>5
  <1> QED
    BY <1>3, <1>4

\* With one clock a tick's time is the clock's.
LEMMA TickIsNow ==
  ASSUME MaxSkew = 0, IInv, NEW t \in Times, TickOf(t)
  PROVE  t = clock
  BY TimeFacts DEF TickOf, IInv, TypeOK

\* Time passes: the gate's day does not become a later one.
LEMMA AdvanceStep ==
  ASSUME IInv, Advance
  PROVE  IInv'
  <1> USE DEF IInv, Advance, history
  <1>1. clock \in Nat /\ clock + 1 \in Times /\ tickTime \in Nat /\ gate \in Gate
    BY TimeAssumption DEF TypeOK, Times
  <1>2. UtcDay(clock) <= UtcDay(clock + 1) /\ UtcDay(clock) \in Nat
        /\ UtcDay(clock + 1) \in Nat /\ Days \subseteq Nat
    BY <1>1, UtcDayGrows, UtcDayOf, TimeFacts DEF Days
  <1>3. TypeOK'
    BY <1>1 DEF TypeOK, Times
  <1>4. GateDay'
    BY <1>1, <1>2 DEF GateDay, Today, TypeOK, Gate, Never, Times
  <1>5. LossAhead'
    BY <1>1, <1>2 DEF LossAhead, Today
  <1> QED
    BY <1>3, <1>4, <1>5
    DEF GateCounts, NoLossNoTrade, DailyLossBounded, CountsOpenTrade

\* The engine consults the gate: its counters become today's, and a trade is
\* entered only while today is below its limits.
LEMMA ConsultStep ==
  ASSUME MaxSkew = 0, IInv, Consult
  PROVE  IInv'
  <1> USE DEF IInv
  <1>1. PICK t \in Times :
          /\ TickOf(t)
          /\ gate' = RefreshForTime(gate, t)
          /\ \/ UNCHANGED <<trade, trades>>
             \/ /\ trade = "none" /\ trades < MaxTrades
                /\ CanTrade(gate, t)
                /\ trade' = "entering" /\ trades' = trades + 1
    BY DEF Consult
  <1>2. t = clock /\ tickTime' = clock /\ clock \in Nat
    BY <1>1, TickIsNow, TimeFacts DEF TickOf, TypeOK
  <1>3. /\ clock' = clock
        /\ dayPnl' = dayPnl /\ streak' = streak /\ lastLoss' = lastLoss
    BY DEF Consult, history
  <1>4. /\ gate' \in Gate /\ gate'.day = Today /\ gate'.open = gate.open
        /\ gate'.pnl = dayPnl[Today] /\ gate'.losses = streak[Today]
        /\ gate'.lossAt = IF lastLoss # Never /\ UtcDay(lastLoss) = Today
                          THEN lastLoss ELSE Never
    BY <1>1, <1>2, RefreshedCounts
  <1>5. Today \in Nat /\ Today \in Days /\ Today' = Today /\ Days \subseteq Nat
    BY <1>3, TimeFacts DEF Today, TypeOK, Days
  <1>6. \/ trade' = trade /\ trades' = trades
        \/ /\ trade = "none" /\ trade' = "entering" /\ trades' = trades + 1
           /\ trades < MaxTrades /\ -dayPnl[Today] < MaxLossPerDay
    BY <1>1, <1>2, <1>4 DEF CanTrade, WithinLimits
  <1>7. TypeOK'
    BY <1>1, <1>2, <1>3, <1>4, <1>6, TimeAssumption DEF TypeOK
  <1>8. GateDay'
    <2>1. gate.day \in Int /\ gate.day <= Today
      BY DEF GateDay, Gate, TypeOK, Never
    <2>2. lastLoss # Never => UtcDay(lastLoss) \in Nat
      BY TimeFacts DEF TypeOK
    <2>3. \A d \in Days : d > Today => dayPnl[d] = 0 /\ streak[d] = 0
      BY <1>5, <2>1 DEF GateDay
    <2>4. lastLoss # Never => UtcDay(lastLoss) <= Today /\ lastLoss <= clock
      BY <1>5, <2>1, <2>2 DEF GateDay
    <2> QED
      BY <2>3, <2>4, <1>2, <1>3, <1>4, <1>5 DEF GateDay
  <1>9. GateCounts'
    BY <1>3, <1>4, <1>5 DEF GateCounts, Never
  <1>10. LossAhead' /\ NoLossNoTrade'
    <2>1. \A d \in Days : d > Today => dayPnl[d] = 0
      BY <1>5 DEF GateDay, TypeOK, Gate, Never
    <2>2. dayPnl \in [Days -> Int] /\ MaxLossPerDay \in Nat
      BY RiskAssumption DEF TypeOK
    <2>3. CASE trade' = trade
      BY <2>3, <1>3, <1>5 DEF LossAhead, NoLossNoTrade
    <2>4. CASE -dayPnl[Today] < MaxLossPerDay /\ trade = "none"
      <3>1. MaxLossPerDay # 0
        BY <2>4, <1>5 DEF NoLossNoTrade
      <3>2. \A d \in Days : d >= Today => dayPnl[d] > -MaxLossPerDay
        BY <2>1, <2>2, <2>4, <3>1, <1>5
      <3> QED
        BY <3>1, <3>2, <1>3, <1>5 DEF LossAhead, NoLossNoTrade
    <2> QED
      BY <1>6, <2>3, <2>4
  <1>11. DailyLossBounded' /\ CountsOpenTrade'
    BY <1>3, <1>4, <1>6 DEF DailyLossBounded, CountsOpenTrade
  <1> QED
    BY <1>7, <1>8, <1>9, <1>10, <1>11

\* A result arrives: it is counted for today, on the gate as on the record, and
\* costs at most one stake more than the limit.
LEMMA ClosedStep ==
  ASSUME MaxSkew = 0, IInv, Closed
  PROVE  IInv'
  <1> USE DEF IInv
  <1>1. PICK pnl \in Results, b \in Balances :
          /\ gate' = UpdateBalance(OnTradeClosed(gate, pnl, clock), b)
          /\ dayPnl' = [dayPnl EXCEPT ![Today] = @ + pnl]
          /\ streak' = [streak EXCEPT ![Today] = IF pnl < 0 THEN @ + 1 ELSE 0]
          /\ lastLoss' = IF pnl < 0 THEN clock ELSE lastLoss
    BY DEF Closed
  <1>2. /\ trade = "open" /\ trade' = "none"
        /\ clock' = clock /\ tickTime' = tickTime /\ trades' = trades
    BY DEF Closed
  <1> DEFINE r == RefreshForTime(gate, clock)
  <1>3. /\ r \in Gate /\ r.day = Today /\ r.open = gate.open
        /\ r.pnl = dayPnl[Today] /\ r.losses = streak[Today]
        /\ r.lossAt = IF lastLoss # Never /\ UtcDay(lastLoss) = Today
                      THEN lastLoss ELSE Never
    BY RefreshedCounts
  <1>4. /\ Today \in Nat /\ Today \in Days /\ Today' = Today /\ Days \subseteq Nat
        /\ clock \in Nat /\ clock \in Times /\ pnl \in Int /\ b \in Int
        /\ pnl >= -MaxStake
        /\ MaxStake \in Nat \ {0} /\ MaxLossPerDay \in Nat
    BY <1>2, TimeFacts, RiskAssumption, StakeAssumption
    DEF Today, TypeOK, Days, Results, Balances
  <1> DEFINE q == OnTradeClosed(gate, pnl, clock)
  <1>5. /\ q \in Gate /\ q.day = Today
        /\ q.open = IF gate.open > 0 THEN gate.open - 1 ELSE 0
        /\ q.pnl = dayPnl[Today] + pnl
        /\ q.losses = IF pnl < 0 THEN streak[Today] + 1 ELSE 0
        /\ q.lossAt = IF pnl < 0 THEN clock ELSE r.lossAt
    <2>1. q \in Gate
      BY <1>4, ClosedType DEF TypeOK
    <2> HIDE DEF r
    <2>2. OnePositionLess(r).open = IF gate.open > 0 THEN gate.open - 1 ELSE 0
      BY <1>3 DEF OnePositionLess, Gate
    <2>3. /\ OnePositionLess(r).pnl = r.pnl
          /\ OnePositionLess(r).losses = r.losses
          /\ OnePositionLess(r).lossAt = r.lossAt
          /\ OnePositionLess(r).day = r.day
      BY <1>3 DEF OnePositionLess, Gate
    <2>4. q = Realize(OnePositionLess(r), pnl, clock)
      BY DEF OnTradeClosed, r
    <2> QED
      BY <2>1, <2>2, <2>3, <2>4, <1>3 DEF Realize
  <1> HIDE DEF q, r
  <1>6. /\ gate' \in Gate /\ gate'.day = Today /\ gate'.open = q.open
        /\ gate'.pnl = q.pnl /\ gate'.losses = q.losses
        /\ gate'.lossAt = q.lossAt
    BY <1>1, <1>4, <1>5 DEF UpdateBalance, Gate, q
  <1>7. /\ dayPnl' \in [Days -> Int] /\ dayPnl'[Today] = dayPnl[Today] + pnl
        /\ streak' \in [Days -> Nat]
        /\ streak'[Today] = IF pnl < 0 THEN streak[Today] + 1 ELSE 0
        /\ \A d \in Days \ {Today} :
             dayPnl'[d] = dayPnl[d] /\ streak'[d] = streak[d]
    BY <1>1, <1>4 DEF TypeOK
  <1>8. TypeOK'
    BY <1>1, <1>2, <1>4, <1>6, <1>7 DEF TypeOK
  <1>9. GateDay'
    <2>1. gate.day \in Int /\ gate.day <= Today /\ tickTime <= clock
      BY DEF GateDay, Gate, TypeOK, Never
    <2>2. lastLoss # Never => UtcDay(lastLoss) \in Nat
      BY TimeFacts DEF TypeOK
    <2>3. \A d \in Days : d > Today => dayPnl'[d] = 0 /\ streak'[d] = 0
      BY <1>4, <1>7, <2>1 DEF GateDay
    <2>4. lastLoss' # Never => UtcDay(lastLoss') <= Today /\ lastLoss' <= clock
      BY <1>1, <1>4, <2>1, <2>2 DEF GateDay, Today
    <2> QED
      BY <2>1, <2>3, <2>4, <1>2, <1>4, <1>6, <1>5 DEF GateDay
  <1>10. GateCounts'
    <2>1. gate'.lossAt = IF lastLoss' # Never /\ UtcDay(lastLoss') = Today
                         THEN lastLoss' ELSE Never
      BY <1>1, <1>3, <1>4, <1>5, <1>6 DEF Today, Never
    <2> QED
      BY <2>1, <1>4, <1>5, <1>6, <1>7 DEF GateCounts, Never
  <1>11. LossAhead' /\ NoLossNoTrade'
    BY <1>2, <1>4 DEF LossAhead, NoLossNoTrade
  <1>12. DailyLossBounded'
    <2>1. dayPnl[Today] > -MaxLossPerDay
      BY <1>2, <1>4 DEF LossAhead
    <2>2. dayPnl[Today] \in Int
      BY <1>4 DEF TypeOK
    <2>3. dayPnl'[Today] > -(MaxLossPerDay + MaxStake)
      BY <2>1, <2>2, <1>4, <1>7
    <2> QED
      BY <2>3, <1>7 DEF DailyLossBounded
  <1>13. CountsOpenTrade'
    BY <1>2, <1>5, <1>6 DEF CountsOpenTrade
  <1> QED
    BY <1>8, <1>9, <1>10, <1>11, <1>12, <1>13

\* The position is counted or released; nothing else changes.
LEMMA PositionStep ==
  ASSUME IInv, Opened \/ EntryFails \/ Aborted
  PROVE  IInv'
  <1> USE DEF IInv
  <1>1. /\ clock' = clock /\ tickTime' = tickTime /\ trades' = trades
        /\ dayPnl' = dayPnl /\ streak' = streak /\ lastLoss' = lastLoss
        /\ trade # "none"
    BY DEF Opened, EntryFails, Aborted, history
  <1>2. gate \in Gate /\ gate.open = IF trade = "open" THEN 1 ELSE 0
    BY DEF TypeOK, CountsOpenTrade
  <1>3. /\ gate' \in Gate
        /\ gate'.open = IF trade' = "open" THEN 1 ELSE 0
        /\ gate'.pnl = gate.pnl /\ gate'.losses = gate.losses
        /\ gate'.lossAt = gate.lossAt /\ gate'.day = gate.day
    <2>1. CASE Opened
      BY <2>1, <1>2 DEF Opened, OnTradeOpened, Gate
    <2>2. CASE EntryFails
      BY <2>2, <1>2 DEF EntryFails
    <2>3. CASE Aborted
      BY <2>3, <1>2 DEF Aborted, OnePositionLess, Gate
    <2> QED
      BY <2>1, <2>2, <2>3
  <1>4. trade' \in {"none", "open"}
    BY DEF Opened, EntryFails, Aborted
  <1>5. TypeOK'
    BY <1>1, <1>3, <1>4 DEF TypeOK
  <1>6. GateDay' /\ GateCounts'
    BY <1>1, <1>3, <1>4 DEF GateDay, GateCounts, Today
  <1>7. LossAhead' /\ NoLossNoTrade' /\ DailyLossBounded' /\ CountsOpenTrade'
    BY <1>1, <1>3, <1>4
    DEF LossAhead, NoLossNoTrade, DailyLossBounded, CountsOpenTrade, Today
  <1> QED
    BY <1>5, <1>6, <1>7

\* The broker's balance touches no counter.
LEMMA BalanceStep ==
  ASSUME IInv, Balance
  PROVE  IInv'
  <1> USE DEF IInv
  <1>1. PICK b \in Balances : gate' = UpdateBalance(gate, b)
    BY DEF Balance
  <1>2. /\ clock' = clock /\ tickTime' = tickTime /\ trades' = trades
        /\ dayPnl' = dayPnl /\ streak' = streak /\ lastLoss' = lastLoss
        /\ trade' = trade
    BY DEF Balance, history
  <1>3. /\ gate' \in Gate
        /\ gate'.open = gate.open /\ gate'.pnl = gate.pnl
        /\ gate'.losses = gate.losses /\ gate'.lossAt = gate.lossAt
        /\ gate'.day = gate.day
    BY <1>1, RiskAssumption DEF UpdateBalance, Balances, Gate, TypeOK
  <1>4. TypeOK' /\ GateDay' /\ GateCounts'
    BY <1>2, <1>3 DEF TypeOK, GateDay, GateCounts, Today
  <1>5. LossAhead' /\ NoLossNoTrade' /\ DailyLossBounded' /\ CountsOpenTrade'
    BY <1>2, <1>3
    DEF LossAhead, NoLossNoTrade, DailyLossBounded, CountsOpenTrade, Today
  <1> QED
    BY <1>4, <1>5

\* Every step keeps the inductive invariant.
LEMMA NextIInv ==
  ASSUME MaxSkew = 0, IInv, [Next]_vars
  PROVE  IInv'
  <1>1. CASE Advance
    BY <1>1, AdvanceStep
  <1>2. CASE Consult
    BY <1>2, ConsultStep
  <1>3. CASE Opened \/ EntryFails \/ Aborted
    BY <1>3, PositionStep
  <1>4. CASE Closed
    BY <1>4, ClosedStep
  <1>5. CASE Balance
    BY <1>5, BalanceStep
  <1>6. CASE UNCHANGED vars
    BY <1>6
    DEF IInv, vars, history, TypeOK, GateDay, GateCounts, LossAhead, Today,
        NoLossNoTrade, DailyLossBounded, CountsOpenTrade
  <1> QED
    BY <1>1, <1>2, <1>3, <1>4, <1>5, <1>6 DEF Next

\* With one clock, the inductive invariant holds in every reachable state.
THEOREM LimitsInductive ==
  ASSUME MaxSkew = 0
  PROVE  Spec => []IInv
  <1>1. IInv /\ [Next]_vars => IInv'
    BY NextIInv
  <1> QED
    BY <1>1, InitIInv, PTL DEF Spec

\* Whatever the limits, the stakes and the results are, no day loses more than
\* its limit and one trade.
THEOREM DailyLossIsBounded ==
  ASSUME MaxSkew = 0
  PROVE  Spec => []DailyLossBounded
  <1>1. IInv => DailyLossBounded
    BY DEF IInv
  <1> QED
    BY <1>1, LimitsInductive, PTL

\* What an entry can rely on: the gate that consented had today's counters.
LEMMA EntryChecked ==
  ASSUME MaxSkew = 0, IInv, Next, Enters
  PROVE  /\ tickTime' = clock
         /\ WithinLimits(RefreshForTime(gate, clock), clock)
  <1>1. Consult
    BY DEF Next, Enters, Advance, Opened, EntryFails, Closed, Aborted, Balance
  <1>2. PICK t \in Times : TickOf(t) /\ CanTrade(gate, t)
    BY <1>1 DEF Consult, Enters
  <1> QED
    BY <1>2, TickIsNow DEF TickOf, CanTrade

\* A day whose losses have reached the limit sees no further entry.
THEOREM LossStopsEntries ==
  ASSUME MaxSkew = 0
  PROVE  Spec => DailyLossStopsEntries
  <1>1. IInv /\ [Next]_vars
          => [Enters => -dayPnl[UtcDay(tickTime')] < MaxLossPerDay]_vars
    BY EntryChecked, RefreshedCounts DEF WithinLimits, Today
  <1> QED
    BY <1>1, LimitsInductive, PTL DEF Spec, DailyLossStopsEntries

\* Nor does a day that ends in the allowed number of losses in a row.
THEOREM StreakEndsEntries ==
  ASSUME MaxSkew = 0
  PROVE  Spec => StreakStopsEntries
  <1>1. IInv /\ [Next]_vars
          => [Enters => streak[UtcDay(tickTime')] < MaxConsecutiveLosses]_vars
    BY EntryChecked, RefreshedCounts DEF WithinLimits, Today
  <1> QED
    BY <1>1, LimitsInductive, PTL DEF Spec, StreakStopsEntries

\* Within a day, the cooldown after a loss is kept.
THEOREM CooldownIsKept ==
  ASSUME MaxSkew = 0
  PROVE  Spec => CooldownKept
  <1>1. IInv /\ [Next]_vars
          => [Enters /\ lastLoss # Never
                /\ UtcDay(lastLoss) = UtcDay(tickTime')
              => tickTime' - lastLoss >= CooldownAfterLoss]_vars
    BY EntryChecked, RefreshedCounts DEF WithinLimits, Today
  <1> QED
    BY <1>1, LimitsInductive, PTL DEF Spec, CooldownKept
-------------------------------------------------------------------------------
(* Two clocks, whatever their difference *)

\* Catching up with a day, be it a later or an earlier one, only makes room for
\* losses and leaves the position alone.
LEMMA RefreshMakesRoom ==
  ASSUME NEW g \in Gate, NEW t \in Times
  PROVE  LET r == RefreshForTime(g, t)
         IN  r \in Gate /\ r.open = g.open /\ (r.pnl = g.pnl \/ r.pnl = 0)
  BY RefreshType DEF RefreshForTime, ResetDaily

LEMMA InitTwoClocks == Init => TwoClocksInv
  <1> SUFFICES ASSUME Init PROVE TwoClocksInv
    OBVIOUS
  <1>1. TypeOK
    BY InitIInv DEF IInv
  <1> QED
    BY <1>1, RiskAssumption, StakeAssumption
    DEF Init, TwoClocksInv, CountsOpenTrade, ConsentLasts, CountedLossBounded, NewGate

\* Steps of the clock, the balance and the position leave what is counted.
LEMMA CountedUnchanged ==
  ASSUME TwoClocksInv,
         Advance \/ Opened \/ EntryFails \/ Aborted \/ Balance
  PROVE  TwoClocksInv'
  <1> USE DEF TwoClocksInv, history
  <1>1. /\ gate \in Gate /\ gate.open = IF trade = "open" THEN 1 ELSE 0
        /\ MinBalance - 1 \in Int /\ InitialBalance \in Int
    BY RiskAssumption DEF TypeOK, CountsOpenTrade
  <1>2. /\ gate' \in Gate /\ gate'.pnl = gate.pnl
        /\ gate'.open = IF trade' = "open" THEN 1 ELSE 0
        /\ trade' # "none" => trade # "none"
        /\ trade' \in {"none", "entering", "open"}
    <2>1. CASE Advance
      BY <2>1, <1>1 DEF Advance, TypeOK
    <2>2. CASE Opened
      BY <2>2, <1>1 DEF Opened, OnTradeOpened, Gate
    <2>3. CASE EntryFails
      BY <2>3, <1>1 DEF EntryFails
    <2>4. CASE Aborted
      BY <2>4, <1>1 DEF Aborted, OnePositionLess, Gate
    <2>5. CASE Balance
      <3>1. PICK b \in Balances : gate' = UpdateBalance(gate, b)
        BY <2>5 DEF Balance
      <3>2. trade' = trade /\ b \in Int
        BY <2>5, <1>1 DEF Balance, Balances
      <3> QED
        BY <1>1, <3>1, <3>2 DEF UpdateBalance, Gate, TypeOK
    <2> QED
      BY <2>1, <2>2, <2>3, <2>4, <2>5
  <1>3. TypeOK'
    BY <1>2, TimeAssumption
    DEF TypeOK, Times, Advance, Opened, EntryFails, Aborted, Balance
  <1> QED
    BY <1>2, <1>3 DEF CountsOpenTrade, ConsentLasts, CountedLossBounded

LEMMA ConsultTwoClocks ==
  ASSUME TwoClocksInv, Consult
  PROVE  TwoClocksInv'
  <1> USE DEF TwoClocksInv
  <1>1. PICK t \in Times :
          /\ TickOf(t)
          /\ gate' = RefreshForTime(gate, t)
          /\ \/ UNCHANGED <<trade, trades>>
             \/ /\ trade = "none" /\ trades < MaxTrades
                /\ CanTrade(gate, t)
                /\ trade' = "entering" /\ trades' = trades + 1
    BY DEF Consult
  <1>2. /\ gate' \in Gate /\ gate'.open = gate.open
        /\ gate'.pnl = gate.pnl \/ gate'.pnl = 0
        /\ gate.pnl \in Int /\ gate'.pnl \in Int
        /\ MaxLossPerDay \in Nat /\ MaxStake \in Nat /\ MaxStake > 0
    <2>1. /\ gate \in Gate /\ gate' \in Gate /\ gate'.open = gate.open
          /\ gate'.pnl = gate.pnl \/ gate'.pnl = 0
      BY <1>1, RefreshMakesRoom DEF TypeOK
    <2> QED
      BY <2>1, RiskAssumption, StakeAssumption DEF Gate
  <1>3. CountedLossBounded'
    BY <1>2 DEF CountedLossBounded
  <1>4. CASE UNCHANGED <<trade, trades>>
    <2>1. TypeOK'
      BY <1>1, <1>2, <1>4 DEF TypeOK, TickOf, Consult, history
    <2>2. CountsOpenTrade' /\ ConsentLasts'
      BY <1>2, <1>4 DEF CountsOpenTrade, ConsentLasts
    <2> QED
      BY <1>3, <2>1, <2>2
  <1>5. CASE /\ trade = "none" /\ trades < MaxTrades /\ CanTrade(gate, t)
             /\ trade' = "entering" /\ trades' = trades + 1
    <2>1. TypeOK'
      BY <1>1, <1>2, <1>5, TimeAssumption DEF TypeOK, TickOf, Consult, history
    <2>2. -gate'.pnl < MaxLossPerDay
      BY <1>1, <1>5 DEF CanTrade, WithinLimits
    <2>3. CountsOpenTrade' /\ ConsentLasts'
      BY <1>2, <1>5, <2>2 DEF CountsOpenTrade, ConsentLasts
    <2> QED
      BY <1>3, <2>1, <2>3
  <1> QED
    BY <1>1, <1>4, <1>5

LEMMA ClosedTwoClocks ==
  ASSUME TwoClocksInv, Closed
  PROVE  TwoClocksInv'
  <1> USE DEF TwoClocksInv
  <1>1. PICK pnl \in Results, b \in Balances :
          /\ gate' = UpdateBalance(OnTradeClosed(gate, pnl, clock), b)
          /\ dayPnl' = [dayPnl EXCEPT ![Today] = @ + pnl]
          /\ streak' = [streak EXCEPT ![Today] = IF pnl < 0 THEN @ + 1 ELSE 0]
          /\ lastLoss' = IF pnl < 0 THEN clock ELSE lastLoss
    BY DEF Closed
  <1>2. /\ trade = "open" /\ trade' = "none"
        /\ clock' = clock /\ tickTime' = tickTime /\ trades' = trades
        /\ clock \in Times /\ gate \in Gate /\ gate.open = 1
    BY DEF Closed, TypeOK, CountsOpenTrade
  <1>3. /\ pnl \in Int /\ b \in Int /\ pnl >= -MaxStake
        /\ MaxStake \in Nat /\ MaxLossPerDay \in Nat /\ Today \in Days
    BY <1>2, TimeFacts, RiskAssumption, StakeAssumption DEF Results, Balances, Today
  <1> DEFINE r == RefreshForTime(gate, clock)
  <1>4. r \in Gate /\ r.open = 1 /\ (r.pnl = gate.pnl \/ r.pnl = 0) /\ gate.pnl \in Int
    BY <1>2, RefreshMakesRoom DEF Gate
  <1> DEFINE q == OnTradeClosed(gate, pnl, clock)
  <1>5. q \in Gate
    BY <1>2, <1>3, ClosedType
  <1>6. q = Realize(OnePositionLess(r), pnl, clock)
    BY DEF OnTradeClosed
  <1> HIDE DEF q, r
  <1>7. q.open = 0 /\ q.pnl = r.pnl + pnl
    BY <1>4, <1>6 DEF Realize, OnePositionLess, Gate
  <1>8. gate' \in Gate /\ gate'.open = 0 /\ gate'.pnl = r.pnl + pnl
    BY <1>1, <1>3, <1>5, <1>7 DEF UpdateBalance, Gate, q
  <1>9. MaxLossPerDay # 0 /\ gate.pnl > -MaxLossPerDay
    BY <1>2 DEF ConsentLasts
  <1>10. TypeOK'
    <2>1. dayPnl' \in [Days -> Int] /\ streak' \in [Days -> Nat]
      BY <1>1, <1>3 DEF TypeOK
    <2> QED
      BY <1>1, <1>2, <1>8, <2>1 DEF TypeOK
  <1>11. CountedLossBounded'
    BY <1>3, <1>4, <1>8, <1>9 DEF CountedLossBounded
  <1> QED
    BY <1>2, <1>8, <1>9, <1>10, <1>11 DEF CountsOpenTrade, ConsentLasts

\* Whatever the difference of the two clocks, the gate counts the open trade and
\* what it consented to while there was room for one more loss.
THEOREM TwoClocksInductive == Spec => []TwoClocksInv
  <1>1. TwoClocksInv /\ [Next]_vars => TwoClocksInv'
    <2> SUFFICES ASSUME TwoClocksInv, [Next]_vars PROVE TwoClocksInv'
      OBVIOUS
    <2>1. CASE UNCHANGED vars
      BY <2>1
      DEF TwoClocksInv, vars, history, TypeOK, CountsOpenTrade, ConsentLasts,
          CountedLossBounded
    <2> QED
      BY <2>1, CountedUnchanged, ConsultTwoClocks, ClosedTwoClocks DEF Next
  <1> QED
    BY InitTwoClocks, <1>1, PTL DEF Spec

\* Between two resets the gate counts no more than its limit and one trade lost,
\* also where a tick of one day and the result of another reset it to and fro.
THEOREM CountedLossIsBounded == Spec => []CountedLossBounded
  <1>1. TwoClocksInv => CountedLossBounded
    BY DEF TwoClocksInv
  <1> QED
    BY <1>1, TwoClocksInductive, PTL
===============================================================================
