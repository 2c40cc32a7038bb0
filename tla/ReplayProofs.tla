----------------------------- MODULE ReplayProofs -----------------------------
(***************************************************************************)
(* What a replay keeps, by what is known of the recording. Over any        *)
(* recording the gate counts the open trade, trades do not overlap and no  *)
(* replay touches the rows of another. Without holes no trade is entered   *)
(* on the tick that settles another, so the row of an open trade is open   *)
(* and a result its own. In a complete recording no trade is entered at    *)
(* the start of a window, so no window ends at a trade's expiry            *)
(* (TradeInWindow), each window opens with a price and the features can be *)
(* had after the warm-up, so no result is lost.                            *)
(***************************************************************************)
EXTENDS Replay, SequenceTheorems, FiniteSetTheorems, TLAPS

-------------------------------------------------------------------------------
(* Any recording *)

LEMMA InitAny == Init => AnyInv
  <1> SUFFICES ASSUME Init PROVE AnyInv
    OBVIOUS
  <1>1. gate \in Gate /\ gate.open = 0
    BY RiskAssumption DEF Init, NewGate, Gate, Never
  <1>2. s0 \in BOOLEAN
    BY Zenon DEF Init
  <1>3. TypeOK
    BY <1>1, <1>2, BoundAssumption DEF Init, TypeOK, Never
  <1> QED
    BY <1>1, <1>3 DEF Init, AnyInv, RowOfTrade, OfThisReplay, GateFollowsTrade,
       TradesDoNotOverlap

\* The tick read next is a recorded one, or a later one that there is room for.
LEMMA TickRead ==
  ASSUME AnyInv, NEW t \in NextTicks
  PROVE  /\ t \in Tick
         /\ position < Len(ticks) \/ position < MaxTicks
         /\ position < Len(ticks) => t = ticks[position + 1]
         /\ position = Len(ticks) /\ position = 0 => t.time = FirstTime
         /\ position = Len(ticks) /\ position # 0 =>
              \E g \in Gaps : t.time = ticks[position].time + g
  <1>1. ticks \in Seq(Tick) /\ position \in 0..Len(ticks) /\ Len(ticks) <= MaxTicks
    BY DEF AnyInv, TypeOK
  <1>2. CASE position < Len(ticks)
    <2>1. t = ticks[position + 1] /\ position + 1 \in 1..Len(ticks)
      BY <1>1, <1>2 DEF NextTicks
    <2> QED
      BY <1>1, <1>2, <2>1
  <1>3. CASE ~(position < Len(ticks)) /\ position = 0
    <2>1. t \in [time : {FirstTime}, price : Prices] /\ position # MaxTicks
      BY <1>3 DEF NextTicks
    <2>2. FirstTime \in Nat
      BY DurationAssumption DEF FirstTime
    <2> QED
      BY <1>1, <1>3, <2>1, <2>2, BoundAssumption DEF Tick
  <1>4. CASE ~(position < Len(ticks)) /\ position # 0
    <2>1. /\ t \in [time : {ticks[position].time + g : g \in Gaps}, price : Prices]
          /\ position # MaxTicks
      BY <1>4 DEF NextTicks
    <2>2. PICK g \in Gaps : t.time = ticks[position].time + g
      BY <2>1
    <2>3. ticks[position] \in Tick
      BY <1>1, <1>4
    <2>4. t.time \in Nat
      BY <2>2, <2>3, TickAssumption DEF Tick
    <2> QED
      BY <1>1, <1>4, <2>1, <2>2, <2>4, BoundAssumption DEF Tick
  <1> QED
    BY <1>2, <1>3, <1>4

\* A row's replay and time of entry are natural numbers.
LEMMA RowTypes ==
  ASSUME AnyInv
  PROVE  \A k \in DOMAIN rows : rows[k].replay \in Nat /\ rows[k].entered \in Nat
  <1>1. \A k \in DOMAIN rows : rows[k] \in ExecutedTrade
    BY DEF AnyInv, TypeOK
  <1> QED
    BY <1>1, BoundAssumption DEF ExecutedTrade

\* Reading a tick records it at most, at the end.
LEMMA ReadsTick ==
  ASSUME AnyInv, NEW t \in NextTicks, Reads(t)
  PROVE  /\ ticks' \in Seq(Tick) /\ Len(ticks') <= MaxTicks
         /\ position' \in 1..Len(ticks') /\ position' = position + 1
         /\ ticks'[position'] = t /\ Now' = t.time
         /\ replay' = replay /\ contractStart' \in Nat /\ s0' \in BOOLEAN
         /\ \/ ticks' = ticks
            \/ /\ position = Len(ticks) /\ Len(ticks') = Len(ticks) + 1
               /\ \A i \in 1..Len(ticks) : ticks'[i] = ticks[i]
  <1>1. /\ ticks \in Seq(Tick) /\ position \in 0..Len(ticks)
        /\ contractStart \in Nat \cup {Never} /\ Len(ticks) <= MaxTicks
        /\ s0 \in BOOLEAN
    BY DEF AnyInv, TypeOK
  <1>2. /\ t \in Tick /\ t.time \in Nat
        /\ position < Len(ticks) \/ position < MaxTicks
        /\ position < Len(ticks) => t = ticks[position + 1]
    BY TickRead DEF Tick
  <1>3. contractStart' \in Nat
    BY <1>1, <1>2 DEF Reads, StartsWindow
  <1>3a. s0' \in BOOLEAN
    BY <1>1 DEF Reads, HasReference
  <1>4. CASE position < Len(ticks)
    <2>1. ticks' = ticks /\ position' = position + 1
      BY <1>4 DEF Reads
    <2> QED
      BY <1>1, <1>2, <1>3, <1>3a, <1>4, <2>1 DEF Reads, Now
  <1>5. CASE ~(position < Len(ticks))
    <2>1. position = Len(ticks) /\ ticks' = Append(ticks, t) /\ position' = Len(ticks) + 1
      BY <1>1, <1>5 DEF Reads
    <2>2. Len(ticks') = Len(ticks) + 1 /\ ticks' \in Seq(Tick)
          /\ ticks'[Len(ticks) + 1] = t
          /\ \A i \in 1..Len(ticks) : ticks'[i] = ticks[i]
      BY <1>1, <1>2, <2>1
    <2> QED
      BY <1>1, <1>2, <1>3, <1>3a, <2>1, <2>2, BoundAssumption DEF Reads, Now
  <1> QED
    BY <1>4, <1>5

\* A result is realized and the position released, at whatever time.
LEMMA SettledGateCounts ==
  ASSUME AnyInv, NEW t \in Tick
  PROVE  /\ SettledGate(t) \in Gate
         /\ SettledGate(t).open = IF RemainingTrade(t) = None THEN 0 ELSE 1
         /\ RefreshForTime(SettledGate(t), t.time) \in Gate
         /\ RefreshForTime(SettledGate(t), t.time).open = SettledGate(t).open
  <1>1. t.time \in Nat /\ UtcDay(t.time) \in Nat
    BY DayAssumption DEF Tick, UtcDay
  <1>2. \A g \in Gate : /\ RefreshForTime(g, t.time) \in Gate
                        /\ RefreshForTime(g, t.time).open = g.open
    BY <1>1 DEF RefreshForTime, ResetDaily, Gate, Never
  <1>3. SettledGate(t) \in Gate
        /\ SettledGate(t).open = IF RemainingTrade(t) = None THEN 0 ELSE 1
    <2>1. gate \in Gate /\ gate.open = IF openTrade = None THEN 0 ELSE 1
      BY DEF AnyInv, TypeOK, GateFollowsTrade
    <2>2. CASE ~Settles(t)
      BY <2>1, <2>2 DEF SettledGate, RemainingTrade
    <2>3. CASE Settles(t)
      <3> DEFINE r == RefreshForTime(gate, t.time)
      <3>1. r \in Gate /\ r.open = 1
        BY <1>2, <2>1, <2>3 DEF Settles
      <3> HIDE DEF r
      <3> DEFINE o == OnePositionLess(r)
      <3>2. o \in Gate /\ o.open = 0
        BY <3>1 DEF OnePositionLess, Gate
      <3> HIDE DEF o
      <3>3. Pnl(t) \in Int
        BY DEF Pnl
      <3>4. Realize(o, Pnl(t), t.time) \in Gate
            /\ Realize(o, Pnl(t), t.time).open = 0
        BY <1>1, <3>2, <3>3 DEF Realize, Gate
      <3>5. SettledGate(t) = Realize(o, Pnl(t), t.time) /\ RemainingTrade(t) = None
        BY <2>3 DEF SettledGate, RemainingTrade, OnTradeClosed, o, r
      <3> QED
        BY <3>4, <3>5
    <2> QED
      BY <2>2, <2>3
  <1> QED
    BY <1>2, <1>3

\* The indices of a sequence of length n, and the one after them.
LEMMA Indices ==
  \A n \in Nat :
    /\ n + 1 # n
    /\ \A k \in 1..n : (k < n \/ k = n) /\ (k < n => k # n) /\ k \in 1..(n + 1)
  OBVIOUS

\* A result is written into a row; the other rows stay.
LEMMA ResultWritten ==
  ASSUME AnyInv, NEW t \in Tick, Settles(t),
         NEW rs \in Seq(ExecutedTrade), NEW n \in 1..Len(rs)
  PROVE  LET r == WithResult(rs, n, t) IN
         /\ r \in Seq(ExecutedTrade) /\ Len(r) = Len(rs)
         /\ \A k \in 1..Len(rs) :
              /\ r[k].replay = rs[k].replay /\ r[k].entered = rs[k].entered
              /\ k # n => r[k] = rs[k]
         /\ r[n].status = "simulated_settled" /\ r[n].result = openTrade.entered
  <1> DEFINE row == [replay |-> rs[n].replay, entered |-> rs[n].entered,
                     direction |-> rs[n].direction, price |-> rs[n].price,
                     status |-> "simulated_settled",
                     result |-> openTrade.entered, exit |-> t.price, won |-> Wins(t)]
  <1>1. row \in ExecutedTrade
    <2>1. rs[n] \in ExecutedTrade
      OBVIOUS
    <2>2. Wins(t) \in BOOLEAN
      <3>1. position \in 1..Len(ticks)
        BY DEF Settles, AnyInv, TypeOK, RowOfTrade
      <3>2. ticks[position].price \in Nat /\ t.price \in Nat
        <4>1. ticks[position] \in Tick
          BY <3>1 DEF AnyInv, TypeOK
        <4> QED
          BY <4>1, TickAssumption DEF Tick
      <3>3. (t.price >= ticks[position].price) \in BOOLEAN
            /\ (t.price <= ticks[position].price) \in BOOLEAN
        BY <3>2
      <3> QED
        BY <3>3 DEF Wins
    <2>3. openTrade.entered \in Nat /\ t.price \in Prices
      BY DEF Settles, AnyInv, TypeOK, SimulatedTrade, Tick
    <2> QED
      BY <2>1, <2>2, <2>3 DEF ExecutedTrade
  <1>2. WithResult(rs, n, t) = [rs EXCEPT ![n] = row]
    BY DEF WithResult
  <1>3. /\ row.replay = rs[n].replay /\ row.entered = rs[n].entered
        /\ row.status = "simulated_settled" /\ row.result = openTrade.entered
    OBVIOUS
  <1> HIDE DEF row
  <1>4. /\ [rs EXCEPT ![n] = row] \in Seq(ExecutedTrade)
        /\ Len([rs EXCEPT ![n] = row]) = Len(rs)
        /\ \A k \in 1..Len(rs) : [rs EXCEPT ![n] = row][k] = IF k = n THEN row ELSE rs[k]
    BY <1>1, ExceptSeq
  <1> QED
    BY <1>2, <1>3, <1>4

\* The lookup by time of entry finds the row of the open trade, if no later row
\* has that time.
LEMMA OwnRowFound ==
  ASSUME NEW t \in Tick, Settles(t),
         NEW rs \in Seq(ExecutedTrade), NEW n \in 1..Len(rs),
         rs[n].entered = openTrade.entered,
         \A k \in 1..Len(rs) : k > n => rs[k].entered # openTrade.entered
  PROVE  PersistSettlement(rs, t) = WithResult(rs, n, t)
  <1> DEFINE R == RowsOfEntry(rs, openTrade.entered)
             f == FindLatest(rs, openTrade.entered)
  <1>1. n \in R /\ \A j \in R : j \in Nat /\ j <= n
    BY DEF RowsOfEntry
  <1>2. f \in R /\ \A j \in R : j <= f
    BY <1>1, Zenon DEF FindLatest
  <1> HIDE DEF f, R
  <1>3. f = n
    BY <1>1, <1>2
  <1> QED
    BY <1>1, <1>3 DEF PersistSettlement, f, R

\* The result of the open trade goes into the last row, which is its own.
LEMMA SettlementWritten ==
  ASSUME AnyInv, NEW t \in Tick
  PROVE  LET r == PersistSettlement(rows, t) IN
         /\ r \in Seq(ExecutedTrade) /\ Len(r) = Len(rows)
         /\ \A k \in 1..Len(rows) :
              /\ r[k].replay = rows[k].replay /\ r[k].entered = rows[k].entered
              /\ ~Settles(t) \/ k < Len(rows) => r[k] = rows[k]
         /\ Settles(t) =>
              /\ Len(rows) \in OfThisReplay
              /\ r[Len(rows)].status = "simulated_settled"
              /\ r[Len(rows)].result = r[Len(rows)].entered
  <1>1. rows \in Seq(ExecutedTrade) /\ DOMAIN rows = 1..Len(rows) /\ Len(rows) \in Nat
    BY DEF AnyInv, TypeOK
  <1>2. CASE ~Settles(t)
    BY <1>1, <1>2 DEF PersistSettlement
  <1>3. CASE Settles(t)
    <2> DEFINE n == Len(rows)
    <2>1. n \in OfThisReplay /\ rows[n].entered = openTrade.entered /\ n \in 1..n
      BY <1>1, <1>3 DEF Settles, AnyInv, RowOfTrade, OfThisReplay
    <2>2. PersistSettlement(rows, t) = WithResult(rows, n, t)
      <3>1. \A k \in 1..n : ~(k > n)
        BY <1>1
      <3> QED
        BY <1>1, <1>3, <2>1, <3>1, OwnRowFound
    <2>3. LET r == WithResult(rows, n, t) IN
          /\ r \in Seq(ExecutedTrade) /\ Len(r) = n
          /\ \A k \in 1..n :
               /\ r[k].replay = rows[k].replay /\ r[k].entered = rows[k].entered
               /\ k # n => r[k] = rows[k]
          /\ r[n].status = "simulated_settled" /\ r[n].result = openTrade.entered
      BY <1>1, <1>3, <2>1, ResultWritten
    <2>4. \A k \in 1..n : k < n => k # n
      BY <1>1, Indices, Zenon
    <2> QED
      BY <1>3, <2>1, <2>2, <2>3, <2>4
  <1> QED
    BY <1>2, <1>3

\* So does one that comes on the tick of the next entry, where it is written
\* into the new row too.
LEMMA EntryWritten ==
  ASSUME AnyInv, NEW t \in Tick, t.time - lastTrade > Duration,
         NEW direction \in Directions
  PROVE  LET r == PersistEntry(t, direction)
             n == Len(rows)
         IN  /\ r \in Seq(ExecutedTrade) /\ Len(r) = n + 1
             /\ \A k \in 1..n :
                  /\ r[k].replay = rows[k].replay /\ r[k].entered = rows[k].entered
                  /\ ~Settles(t) \/ k < n => r[k] = rows[k]
             /\ r[n + 1].replay = replay /\ r[n + 1].entered = t.time
             /\ Settles(t) => n \in OfThisReplay
             /\ ~Settles(t) => r[n + 1].status = "open" /\ r[n + 1].result = Never
  <1> DEFINE n == Len(rows)
             row == NewRow(t, direction)
             ins == Append(rows, row)
  <1>1. rows \in Seq(ExecutedTrade) /\ DOMAIN rows = 1..n /\ n \in Nat
    BY DEF AnyInv, TypeOK
  <1>2. row \in ExecutedTrade /\ row.replay = replay /\ row.entered = t.time
        /\ row.status = "open" /\ row.result = Never
    BY DEF NewRow, ExecutedTrade, Tick, AnyInv, TypeOK
  <1> HIDE DEF row
  <1>3. /\ ins \in Seq(ExecutedTrade) /\ Len(ins) = n + 1 /\ ins[n + 1] = row
        /\ \A k \in 1..n : ins[k] = rows[k]
    BY <1>1, <1>2
  <1> HIDE DEF ins
  <1>4. CASE ~Settles(t)
    <2>1. PersistEntry(t, direction) = ins
      BY <1>4 DEF PersistEntry, PersistSettlement, ins, row
    <2> QED
      BY <1>2, <1>3, <1>4, <2>1
  <1>5. CASE Settles(t)
    <2> DEFINE first == WithResult(ins, n + 1, t)
    <2>1. n + 1 \in 1..Len(ins) /\ n + 1 \in 1..(n + 1) /\ \A k \in 1..n : k \in 1..(n + 1)
                                                            /\ k # n + 1
      BY <1>1, <1>3
    <2>2. /\ first \in Seq(ExecutedTrade) /\ Len(first) = n + 1
          /\ first[n + 1].replay = replay /\ first[n + 1].entered = t.time
          /\ \A k \in 1..n : first[k] = rows[k]
      <3>1. LET r == WithResult(ins, n + 1, t) IN
            /\ r \in Seq(ExecutedTrade) /\ Len(r) = Len(ins)
            /\ \A k \in 1..Len(ins) :
                 /\ r[k].replay = ins[k].replay /\ r[k].entered = ins[k].entered
                 /\ k # n + 1 => r[k] = ins[k]
        BY <1>3, <1>5, <2>1, ResultWritten
      <3> QED
        BY <1>2, <1>3, <2>1, <3>1
    <2>3. PersistEntry(t, direction) = PersistSettlement(first, t)
      BY <1>3, <1>5 DEF PersistEntry, ins, row
    <2> HIDE DEF first
    <2>4. n \in OfThisReplay /\ rows[n].entered = openTrade.entered /\ n \in 1..n
      BY <1>1, <1>5 DEF Settles, AnyInv, RowOfTrade, OfThisReplay
    <2>5. t.time # openTrade.entered
      <3>1. openTrade.entered \in Nat /\ t.time \in Nat /\ Duration \in Nat /\ Duration > 0
        BY <1>5, DurationAssumption DEF Settles, AnyInv, TypeOK, SimulatedTrade, Tick
      <3>2. t.time >= openTrade.entered + Duration
        BY <1>5 DEF Settles
      <3> QED
        BY <3>1, <3>2
    <2>6. PersistSettlement(first, t) = WithResult(first, n, t)
      <3>1. n \in 1..Len(first) /\ first[n].entered = openTrade.entered
        BY <1>1, <2>1, <2>2, <2>4
      <3>2. \A k \in 1..Len(first) : k > n => k = n + 1
        BY <1>1, <2>2
      <3>3. \A k \in 1..Len(first) : k > n => first[k].entered # openTrade.entered
        BY <2>2, <2>5, <3>2
      <3> QED
        BY <1>5, <2>2, <3>1, <3>3, OwnRowFound
    <2>7. LET r == WithResult(first, n, t) IN
          /\ r \in Seq(ExecutedTrade) /\ Len(r) = n + 1
          /\ \A k \in 1..(n + 1) :
               /\ r[k].replay = first[k].replay /\ r[k].entered = first[k].entered
               /\ k # n => r[k] = first[k]
      BY <1>5, <2>1, <2>2, <2>4, ResultWritten
    <2>8. n + 1 # n /\ \A k \in 1..n : k < n => k # n
      BY <1>1, Indices, Zenon
    <2> QED
      BY <1>5, <2>1, <2>2, <2>3, <2>4, <2>6, <2>7, <2>8
  <1> QED
    BY <1>4, <1>5

\* A tick on which no trade is entered.
Passes(t) ==
  /\ Reads(t)
  /\ openTrade' = RemainingTrade(t) /\ lastTrade' = lastTrade
  /\ gate' \in {SettledGate(t), RefreshForTime(SettledGate(t), t.time)}
  /\ rows' \in {rows, PersistSettlement(rows, t)}

LEMMA PassesOrEnters == Next => (\E t \in NextTicks : Passes(t) \/ Enter(t)) \/ Rerun
  BY DEF Next, Passes, Rollover, Waits, Hold, Decides, ReturnsNone

LEMMA PassKeepsAny ==
  ASSUME AnyInv, NEW t \in NextTicks, Passes(t)
  PROVE  /\ AnyInv' /\ OfThisReplay' = OfThisReplay
         /\ \A k \in DOMAIN rows : ~Settles(t) \/ k \notin OfThisReplay => rows'[k] = rows[k]
  <1>1. t \in Tick /\ Reads(t)
    BY TickRead DEF Passes
  <1> DEFINE n == Len(rows)
  <1>2. /\ rows \in Seq(ExecutedTrade) /\ n \in Nat /\ DOMAIN rows = 1..n
        /\ OfThisReplay \subseteq 1..n
    BY DEF AnyInv, TypeOK, OfThisReplay
  <1>3. /\ rows' \in Seq(ExecutedTrade) /\ Len(rows') = n /\ DOMAIN rows' = 1..n
        /\ \A k \in 1..n :
             /\ rows'[k].replay = rows[k].replay /\ rows'[k].entered = rows[k].entered
             /\ ~Settles(t) \/ k < n => rows'[k] = rows[k]
        /\ Settles(t) => n \in OfThisReplay
    <2>1. CASE rows' = rows
      BY <1>1, <1>2, <2>1, SettlementWritten
    <2>2. CASE rows' = PersistSettlement(rows, t)
      BY <1>1, <1>2, <2>2, SettlementWritten
    <2> QED
      BY <2>1, <2>2 DEF Passes
  <1>4. replay' = replay /\ position' > 0 /\ position' \in 0..Len(ticks')
    BY <1>1, ReadsTick
  <1>5. OfThisReplay' = OfThisReplay
    BY <1>2, <1>3, <1>4 DEF OfThisReplay
  <1>6. openTrade' \in SimulatedTrade \cup {None}
    BY DEF Passes, RemainingTrade, AnyInv, TypeOK
  <1>7. gate' \in Gate /\ gate'.open = IF openTrade' = None THEN 0 ELSE 1
    BY <1>1, SettledGateCounts DEF Passes
  <1>8. TypeOK'
    BY <1>1, <1>3, <1>4, <1>6, <1>7, ReadsTick DEF TypeOK, AnyInv, Passes
  <1>9. GateFollowsTrade' /\ TradesDoNotOverlap'
    BY <1>2, <1>3, <1>7 DEF GateFollowsTrade, TradesDoNotOverlap, AnyInv
  <1>10. RowOfTrade'
    <2>1. /\ \A k \in 1..n : rows'[k].replay <= replay
          /\ \A k \in OfThisReplay : rows'[k].entered <= lastTrade
      BY <1>2, <1>3 DEF AnyInv, RowOfTrade
    <2>2. openTrade' # None => openTrade' = openTrade
      BY DEF Passes, RemainingTrade
    <2>3. openTrade # None => n \in OfThisReplay /\ rows[n].entered = openTrade.entered
      BY DEF AnyInv, RowOfTrade
    <2> QED
      BY <1>2, <1>3, <1>4, <1>5, <2>1, <2>2, <2>3 DEF RowOfTrade, Passes
  <1>11. \A k \in DOMAIN rows : ~Settles(t) \/ k \notin OfThisReplay => rows'[k] = rows[k]
    <2>1. \A k \in 1..n : k < n \/ k = n
      BY <1>2, Indices, Zenon
    <2> QED
      BY <1>2, <1>3, <2>1
  <1> QED
    BY <1>5, <1>8, <1>9, <1>10, <1>11 DEF AnyInv

\* A trade is entered, the last row its own.
LEMMA EnterKeepsAny ==
  ASSUME AnyInv, NEW t \in NextTicks, Enter(t)
  PROVE  /\ AnyInv'
         /\ openTrade' # None /\ openTrade'.entered = t.time /\ Reads(t)
         /\ Len(rows') = Len(rows) + 1
         /\ OfThisReplay' = OfThisReplay \cup {Len(rows')}
         /\ \A k \in DOMAIN rows :
              /\ k \in DOMAIN rows'
              /\ ~Settles(t) \/ k \notin OfThisReplay => rows'[k] = rows[k]
         /\ ~Settles(t) =>
              rows'[Len(rows')].status = "open" /\ rows'[Len(rows')].result = Never
  <1>1. t \in Tick /\ t.time \in Nat /\ Reads(t) /\ t.time - lastTrade > Duration
        /\ RemainingTrade(t) = None /\ lastTrade' = t.time /\ replay' = replay
    BY TickRead DEF Enter, Decides, MayEnter, Reads, Tick
  <1> DEFINE n == Len(rows)
  <1>2. /\ rows \in Seq(ExecutedTrade) /\ n \in Nat /\ DOMAIN rows = 1..n
        /\ OfThisReplay \subseteq 1..n
        /\ replay \in 1..MaxReplays /\ replay \in Nat /\ lastTrade \in Nat
        /\ Duration \in Nat /\ Duration > 0
    BY DurationAssumption DEF AnyInv, TypeOK, OfThisReplay
  <1>3. PICK direction \in Directions :
          /\ openTrade' = [entered |-> t.time, direction |-> direction]
          /\ rows' = PersistEntry(t, direction)
    BY DEF Enter
  <1>4. /\ rows' \in Seq(ExecutedTrade) /\ Len(rows') = n + 1 /\ DOMAIN rows' = 1..(n + 1)
        /\ \A k \in 1..n :
             /\ rows'[k].replay = rows[k].replay /\ rows'[k].entered = rows[k].entered
             /\ ~Settles(t) \/ k < n => rows'[k] = rows[k]
        /\ rows'[n + 1].replay = replay /\ rows'[n + 1].entered = t.time
        /\ Settles(t) => n \in OfThisReplay
        /\ ~Settles(t) => rows'[n + 1].status = "open" /\ rows'[n + 1].result = Never
    BY <1>1, <1>3, EntryWritten
  <1>5. OfThisReplay' = OfThisReplay \cup {n + 1}
    BY <1>1, <1>2, <1>4 DEF OfThisReplay
  <1>6. openTrade' \in SimulatedTrade /\ openTrade'.entered = t.time /\ openTrade' # None
    <2>1. t.time # Never
      BY <1>1 DEF Never
    <2> QED
      BY <1>1, <1>3, <2>1 DEF SimulatedTrade, None
  <1>7. gate' \in Gate /\ gate'.open = 1
    <2> DEFINE g == RefreshForTime(SettledGate(t), t.time)
    <2>1. g \in Gate /\ g.open = 0
      BY <1>1, SettledGateCounts
    <2>2. gate' = OnTradeOpened(g)
      BY DEF Enter
    <2> HIDE DEF g
    <2> QED
      BY <2>1, <2>2 DEF OnTradeOpened, Gate
  <1>8. TypeOK' /\ GateFollowsTrade' /\ position' > 0
    BY <1>1, <1>2, <1>4, <1>6, <1>7, ReadsTick DEF TypeOK, GateFollowsTrade
  <1>9. \A k \in OfThisReplay : rows[k].entered <= lastTrade /\ rows[k].entered \in Nat
    BY RowTypes DEF AnyInv, RowOfTrade, OfThisReplay
  <1>10. TradesDoNotOverlap'
    <2> SUFFICES ASSUME NEW j \in 1..(n + 1), NEW k \in 1..(n + 1), j < k,
                        rows'[j].replay = rows'[k].replay
                 PROVE  rows'[k].entered - rows'[j].entered > Duration
      BY <1>4 DEF TradesDoNotOverlap
    <2>1. j \in 1..n
      BY <1>2
    <2>2. CASE k = n + 1
      <3>1. j \in OfThisReplay /\ rows'[j].entered = rows[j].entered
        BY <1>2, <1>4, <2>1, <2>2 DEF OfThisReplay
      <3> QED
        BY <1>1, <1>2, <1>4, <1>9, <2>2, <3>1
    <2>3. CASE k # n + 1
      <3>1. k \in 1..n
        BY <1>2, <2>3
      <3> QED
        BY <1>2, <1>4, <2>1, <3>1 DEF AnyInv, TradesDoNotOverlap
    <2> QED
      BY <2>2, <2>3
  <1>11. RowOfTrade'
    <2>1. \A k \in 1..(n + 1) : rows'[k].replay <= replay
      <3>1. \A k \in 1..n : rows'[k].replay <= replay
        BY <1>2, <1>4 DEF AnyInv, RowOfTrade
      <3>2. \A k \in 1..(n + 1) : k \in 1..n \/ k = n + 1
        BY <1>2
      <3> QED
        BY <1>2, <1>4, <3>1, <3>2
    <2>2. \A k \in OfThisReplay' : rows'[k].entered <= t.time
      <3>1. \A k \in OfThisReplay : rows'[k].entered = rows[k].entered
        BY <1>2, <1>4
      <3>2. \A k \in OfThisReplay : rows[k].entered <= t.time
        BY <1>1, <1>2, <1>9
      <3> QED
        BY <1>1, <1>4, <1>5, <3>1, <3>2
    <2> QED
      BY <1>1, <1>4, <1>5, <1>6, <1>8, <2>1, <2>2 DEF RowOfTrade
  <1>12. \A k \in DOMAIN rows :
           /\ k \in DOMAIN rows'
           /\ ~Settles(t) \/ k \notin OfThisReplay => rows'[k] = rows[k]
    <2>1. \A k \in 1..n : (k < n \/ k = n) /\ k \in 1..(n + 1)
      BY <1>2, Indices, Zenon
    <2> QED
      BY <1>2, <1>4, <2>1
  <1> QED
    BY <1>1, <1>4, <1>5, <1>6, <1>8, <1>10, <1>11, <1>12 DEF AnyInv

\* A new replay has no rows yet.
LEMMA RerunKeepsAny ==
  ASSUME AnyInv, Rerun
  PROVE  AnyInv' /\ OfThisReplay' = {}
  <1>1. gate' \in Gate /\ gate'.open = 0
    BY RiskAssumption DEF Rerun, NewGate, Gate, Never
  <1>2. TypeOK'
    <2>1. replay \in 1..MaxReplays /\ replay + 1 \in 1..MaxReplays
      BY BoundAssumption DEF Rerun, AnyInv, TypeOK
    <2>2. ticks \in Seq(Tick) /\ Len(ticks) <= MaxTicks /\ 0 \in 0..Len(ticks)
      BY DEF AnyInv, TypeOK
    <2>3. s0' \in BOOLEAN
      BY Zenon DEF Rerun
    <2> QED
      BY <1>1, <2>1, <2>2, <2>3 DEF Rerun, AnyInv, TypeOK, Never
  <1>3. \A k \in DOMAIN rows : rows[k].replay < replay'
    BY RowTypes DEF Rerun, AnyInv, RowOfTrade, TypeOK
  <1>3a. rows' = rows /\ \A k \in DOMAIN rows : rows[k].replay # replay'
    <2>1. rows' = rows
      BY Zenon DEF Rerun
    <2>2. replay' \in Int
      BY <1>2 DEF TypeOK
    <2>3. \A k \in DOMAIN rows : rows[k].replay \in Int
      BY RowTypes DEF AnyInv, RowOfTrade, TypeOK
    <2> QED
      BY <1>3, <2>1, <2>2, <2>3
  <1>4. OfThisReplay' = {}
    BY <1>3a DEF OfThisReplay
  <1>5. RowOfTrade'
    <2>1. \A k \in DOMAIN rows : rows[k].replay <= replay'
      BY <1>3, RowTypes DEF Rerun, AnyInv, TypeOK
    <2> QED
      BY <1>4, <2>1 DEF RowOfTrade, Rerun
  <1> QED
    BY <1>1, <1>2, <1>4, <1>5 DEF Rerun, AnyInv, GateFollowsTrade, TradesDoNotOverlap

\* Whatever was recorded, with holes and repeated ticks: the gate counts the
\* open trade, trades do not overlap, and the last row is the open trade's.
THEOREM AnyRecording == Spec => []AnyInv
  <1>1. AnyInv /\ [Next]_vars => AnyInv'
    <2> SUFFICES ASSUME AnyInv, [Next]_vars PROVE AnyInv'
      OBVIOUS
    <2>1. CASE Next
      BY <2>1, PassesOrEnters, PassKeepsAny, EnterKeepsAny, RerunKeepsAny
    <2>2. CASE UNCHANGED vars
      BY <2>2 DEF vars, AnyInv, TypeOK, RowOfTrade, OfThisReplay, GateFollowsTrade,
                  TradesDoNotOverlap
    <2> QED
      BY <2>1, <2>2
  <1> QED
    BY InitAny, <1>1, PTL DEF Spec

\* Trades of a replay do not overlap.
THEOREM TradesAreApart == Spec => []TradesDoNotOverlap
  <1>1. AnyInv => TradesDoNotOverlap
    BY DEF AnyInv
  <1> QED
    BY <1>1, AnyRecording, PTL

\* No replay touches what an earlier one has recorded, although it looks rows
\* up by time of entry and finds those of earlier replays too.
THEOREM EarlierRowsAreKept == Spec => EarlierReplaysKept
  <1> DEFINE Kept == \A k \in DOMAIN rows : rows[k].replay < replay => rows'[k] = rows[k]
  <1>1. AnyInv /\ [Next]_vars => [Kept]_vars
    <2> SUFFICES ASSUME AnyInv, Next PROVE Kept
      OBVIOUS
    <2>1. \A k \in DOMAIN rows : rows[k].replay < replay => k \notin OfThisReplay
      <3>1. replay \in Nat
        BY DEF AnyInv, TypeOK
      <3> QED
        BY <3>1 DEF OfThisReplay
    <2>2. ASSUME NEW t \in NextTicks, Passes(t) PROVE Kept
      BY <2>1, <2>2, PassKeepsAny
    <2>3. ASSUME NEW t \in NextTicks, Enter(t) PROVE Kept
      BY <2>1, <2>3, EnterKeepsAny
    <2>4. CASE Rerun
      BY <2>4 DEF Rerun
    <2> QED
      BY <2>2, <2>3, <2>4, PassesOrEnters
  <1> QED
    BY <1>1, AnyRecording, PTL DEF Spec, EarlierReplaysKept

-------------------------------------------------------------------------------
(* A recording without holes *)

\* A step may add a tick to the recording; the others stay, and the tick read
\* comes after the one read before.
LEMMA ReadsExtends ==
  ASSUME AnyInv, NEW t \in NextTicks, Reads(t)
  PROVE  /\ Len(ticks) \in Nat /\ Len(ticks') \in Nat /\ Len(ticks) <= Len(ticks')
         /\ \A i \in 1..Len(ticks) : ticks'[i] = ticks[i]
         /\ position > 0 => /\ position \in 1..Len(ticks') - 1
                            /\ Now \in Nat /\ Now = ticks'[position].time
                            /\ t = ticks'[position + 1]
  <1>1. ticks \in Seq(Tick) /\ position \in 0..Len(ticks)
    BY DEF AnyInv, TypeOK
  <1>2. /\ ticks' \in Seq(Tick) /\ position' \in 1..Len(ticks')
        /\ position' = position + 1 /\ ticks'[position'] = t
        /\ \/ ticks' = ticks
           \/ /\ position = Len(ticks) /\ Len(ticks') = Len(ticks) + 1
              /\ \A i \in 1..Len(ticks) : ticks'[i] = ticks[i]
    BY ReadsTick
  <1>3. \A i \in 1..Len(ticks) : ticks'[i] = ticks[i]
    BY <1>2
  <1>4. position > 0 => position \in 1..Len(ticks) /\ ticks[position] \in Tick
    BY <1>1
  <1> QED
    BY <1>1, <1>2, <1>3, <1>4 DEF Now, Tick

\* What a recording is after a tick, it was before.
LEMMA ReadsKeepsKind ==
  ASSUME AnyInv, NEW t \in NextTicks, Reads(t)
  PROVE  (NoHoles' => NoHoles) /\ (Complete' => Complete)
  <1>1. \A i \in 1..Len(ticks) - 1 :
          /\ i \in 1..Len(ticks') - 1
          /\ ticks'[i] = ticks[i] /\ ticks'[i + 1] = ticks[i + 1]
    <2>1. \A i \in 1..Len(ticks) - 1 : i \in 1..Len(ticks) /\ i + 1 \in 1..Len(ticks)
      BY ReadsExtends
    <2> QED
      BY <2>1, ReadsExtends
  <1>2. \A i \in 1..Len(ticks) : i \in 1..Len(ticks') /\ ticks'[i] = ticks[i]
    BY ReadsExtends
  <1> QED
    BY <1>1, <1>2 DEF NoHoles, Complete, OnePerUnit

\* The next tick comes at the time of the last one or a unit later.
LEMMA NextTime ==
  ASSUME AnyInv, NoHoles', NEW t \in NextTicks, Reads(t), position > 0
  PROVE  Now \in Nat /\ t.time \in {Now, Now + 1}
  BY ReadsExtends DEF NoHoles

\* No trade is entered on the tick that settles another.
LEMMA EntrySettlesNothing ==
  ASSUME NoHolesInv, NoHoles', NEW t \in NextTicks, Enter(t)
  PROVE  openTrade = None /\ ~Settles(t)
  <1>1. t.time - lastTrade > Duration
    BY DEF Enter, MayEnter
  <1>1a. Reads(t) /\ NoHoles
    BY ReadsKeepsKind DEF Enter, Decides, NoHolesInv
  <1>2. lastTrade \in Nat /\ Duration \in Nat
    BY DurationAssumption DEF NoHolesInv, AnyInv, TypeOK
  <1> SUFFICES ASSUME openTrade # None PROVE FALSE
    BY DEF Settles
  <1>3. /\ openTrade.entered <= lastTrade /\ openTrade.entered \in Nat
        /\ position > 0
    BY DEF NoHolesInv, AnyInv, RowOfTrade, TypeOK, SimulatedTrade
  <1>4. Now < openTrade.entered + Duration
    BY <1>1a DEF NoHolesInv, OpenInTime
  <1>5. Now \in Nat /\ t.time \in {Now, Now + 1}
    BY <1>1a, <1>3, NextTime DEF NoHolesInv
  <1> QED
    BY <1>1, <1>2, <1>3, <1>4, <1>5

\* A trade that stays open is not at its expiry; a result is its row's own.
LEMMA PassKeepsNoHoles ==
  ASSUME NoHolesInv, NEW t \in NextTicks, Passes(t)
  PROVE  NoHolesInv'
  <1>1. /\ t \in Tick /\ t.time \in Nat /\ Reads(t) /\ AnyInv /\ AnyInv'
        /\ Now' = t.time
    BY TickRead, PassKeepsAny, ReadsTick DEF Passes, NoHolesInv, Tick
  <1> SUFFICES ASSUME NoHoles' PROVE OpenInTime' /\ ResultIsOwn'
    BY <1>1 DEF NoHolesInv, ResultIsOwn
  <1>1a. NoHoles
    BY <1>1, ReadsKeepsKind
  <1>2. OpenInTime'
    <2> SUFFICES ASSUME openTrade' # None
                 PROVE  /\ t.time < openTrade'.entered + Duration
                        /\ rows'[Len(rows')].status = "open"
      BY <1>1 DEF OpenInTime
    <2>1. openTrade' = openTrade /\ openTrade # None /\ ~Settles(t)
      BY DEF Passes, RemainingTrade
    <2>2. rows' = rows
      BY <2>1 DEF Passes, PersistSettlement
    <2>3. openTrade.entered \in Nat /\ Duration \in Nat
      BY <2>1, DurationAssumption DEF NoHolesInv, AnyInv, TypeOK, SimulatedTrade
    <2>4. t.time < openTrade.entered + Duration
      BY <1>1, <2>1, <2>3 DEF Settles
    <2> QED
      BY <1>1a, <2>1, <2>2, <2>4 DEF NoHolesInv, OpenInTime
  <1>3. ResultIsOwn'
    <2>1. CASE rows' = rows
      BY <1>1a, <2>1 DEF NoHolesInv, ResultIsOwn
    <2>2. CASE rows' = PersistSettlement(rows, t)
      <3>1. /\ rows \in Seq(ExecutedTrade) /\ DOMAIN rows = 1..Len(rows)
            /\ Len(rows) \in Nat /\ DOMAIN rows' = 1..Len(rows)
            /\ \A k \in 1..Len(rows) : rows[k].result \in {Never, rows[k].entered}
        BY <1>1, <1>1a, <2>2, SettlementWritten DEF NoHolesInv, AnyInv, TypeOK, ResultIsOwn
      <3>2. ASSUME NEW k \in 1..Len(rows)
            PROVE  rows'[k].result \in {Never, rows'[k].entered}
        <4>1. k < Len(rows) \/ k = Len(rows)
          BY <3>1, Indices, Zenon
        <4> QED
          BY <1>1, <2>2, <3>1, <4>1, SettlementWritten
      <3> QED
        BY <3>1, <3>2 DEF ResultIsOwn
    <2> QED
      BY <2>1, <2>2 DEF Passes
  <1> QED
    BY <1>2, <1>3

LEMMA EnterKeepsNoHoles ==
  ASSUME NoHolesInv, NEW t \in NextTicks, Enter(t)
  PROVE  NoHolesInv'
  <1> SUFFICES ASSUME NoHoles' PROVE OpenInTime' /\ ResultIsOwn'
    BY EnterKeepsAny DEF NoHolesInv, ResultIsOwn
  <1>1. AnyInv /\ ~Settles(t) /\ NoHoles
    BY EntrySettlesNothing, EnterKeepsAny, ReadsKeepsKind DEF NoHolesInv
  <1>2. /\ AnyInv' /\ Reads(t) /\ openTrade'.entered = t.time
        /\ Len(rows') = Len(rows) + 1
        /\ \A k \in DOMAIN rows : k \in DOMAIN rows' /\ rows'[k] = rows[k]
        /\ rows'[Len(rows')].status = "open" /\ rows'[Len(rows')].result = Never
    BY <1>1, EnterKeepsAny
  <1>3. Now' = t.time /\ t.time \in Nat
    BY <1>1, <1>2, ReadsTick, TickRead DEF Tick
  <1>4. OpenInTime'
    BY <1>2, <1>3, DurationAssumption DEF OpenInTime
  <1>5. ResultIsOwn'
    <2>1. rows \in Seq(ExecutedTrade) /\ rows' \in Seq(ExecutedTrade)
      BY <1>1, <1>2 DEF AnyInv, TypeOK
    <2>2. \A k \in DOMAIN rows' : k \in DOMAIN rows \/ k = Len(rows')
      BY <1>2, <2>1
    <2> QED
      BY <1>1, <1>2, <2>2 DEF NoHolesInv, ResultIsOwn
  <1> QED
    BY <1>4, <1>5

LEMMA RerunKeepsNoHoles == NoHolesInv /\ Rerun => NoHolesInv'
  <1> SUFFICES ASSUME NoHolesInv, Rerun PROVE NoHolesInv'
    OBVIOUS
  <1>1. AnyInv'
    BY RerunKeepsAny DEF NoHolesInv
  <1> QED
    BY <1>1 DEF NoHolesInv, Rerun, NoHoles, OpenInTime, ResultIsOwn

\* As long as what was read has no holes, the row of an open trade is open, and
\* a result its own.
THEOREM WithoutHoles == Spec => []NoHolesInv
  <1>1. Init => NoHolesInv
    BY InitAny DEF Init, NoHolesInv, NoHoles, OpenInTime, ResultIsOwn
  <1>2. NoHolesInv /\ [Next]_vars => NoHolesInv'
    <2> SUFFICES ASSUME NoHolesInv, [Next]_vars PROVE NoHolesInv'
      OBVIOUS
    <2>1. CASE Next
      BY <2>1, PassesOrEnters, PassKeepsNoHoles, EnterKeepsNoHoles, RerunKeepsNoHoles
    <2>2. CASE UNCHANGED vars
      BY <2>2 DEF vars, NoHolesInv, NoHoles, OpenInTime, Now, ResultIsOwn, AnyInv, TypeOK,
                  RowOfTrade, OfThisReplay, GateFollowsTrade, TradesDoNotOverlap
    <2> QED
      BY <2>1, <2>2
  <1> QED
    BY <1>1, <1>2, PTL DEF Spec

\* The row of the trade that the engine holds open says that it is open, also
\* where ticks are recorded twice.
THEOREM OpenTradesAreOpen == Spec => []OpenTradeRowIsOpen
  <1>1. NoHolesInv => OpenTradeRowIsOpen
    BY DEF NoHolesInv, AnyInv, RowOfTrade, OpenInTime, OpenTradeRowIsOpen
  <1> QED
    BY <1>1, WithoutHoles, PTL

\* A row holds the result of the trade it is the row of.
THEOREM ResultsAreOwn == Spec => []ResultIsOwn
  <1>1. NoHolesInv => ResultIsOwn
    BY DEF NoHolesInv
  <1> QED
    BY <1>1, WithoutHoles, PTL
-------------------------------------------------------------------------------
(* A complete recording *)

LEMMA InitIInv == Init => IInv
  BY InitAny DEF Init, IInv, NoHolesInv, NoHoles, OpenInTime, ResultIsOwn, Windows,
     TradeInWindow, RowsSettled, OfThisReplay

\* The next tick comes a unit later and has a price.
LEMMA RegularTime ==
  ASSUME AnyInv, Complete', NEW t \in NextTicks, Reads(t)
  PROVE  /\ t \in Tick /\ t.time \in Nat /\ Complete /\ NoHoles /\ NoHoles'
         /\ position > 0 => Now \in Nat /\ t.time = Now + 1
         /\ t.price # 0
  <1>1. Complete /\ t \in Tick /\ t.time \in Nat
    BY ReadsKeepsKind, TickRead DEF Tick
  <1>2. t.price # 0
    BY ReadsTick DEF Complete
  <1> QED
    BY <1>1, <1>2, ReadsExtends DEF Complete, OnePerUnit, NoHoles

\* After the warm-up a recording without missing prices has the returns that
\* the features need.
LEMMA FeaturesThere ==
  ASSUME AnyInv, Complete, position >= WarmUp
  PROVE  HasFeatures
  <1> DEFINE last == (position - MinReturns + 1)..position
  <1>1. /\ position \in Nat /\ WarmUp \in Nat /\ MinReturns \in Nat /\ History \in Nat
        /\ MinReturns < WarmUp /\ WarmUp <= History
        /\ position <= Len(ticks) /\ Len(ticks) \in Nat
    BY WarmUpAssumption, FeatureAssumption DEF AnyInv, TypeOK
  <1>2. last \subseteq ReturnsKept
    BY <1>1 DEF ReturnsKept, Complete
  <1>3. IsFiniteSet(ReturnsKept)
    <2>1. IsFiniteSet(1..position)
      BY <1>1, FS_Interval
    <2> QED
      BY <2>1, FS_Subset DEF ReturnsKept
  <1>4. Cardinality(last) = MinReturns
    <2>1. /\ position - MinReturns + 1 \in Int /\ position \in Int
          /\ position - MinReturns + 1 > position <=> MinReturns = 0
          /\ position - (position - MinReturns + 1) + 1 = MinReturns
      BY <1>1
    <2> QED
      BY <2>1, FS_Interval
  <1> HIDE DEF last
  <1>5. /\ Cardinality(last) <= Cardinality(ReturnsKept)
        /\ Cardinality(ReturnsKept) \in Nat
    BY <1>2, <1>3, FS_Subset, FS_CardinalityType
  <1> QED
    BY <1>1, <1>4, <1>5 DEF HasFeatures

LEMMA ReadsKeepsWindows ==
  ASSUME IInv, Complete', NEW t \in NextTicks, Reads(t)
  PROVE  Windows'
  <1>1. /\ t \in Tick /\ t.time \in Nat
        /\ position > 0 => Now \in Nat /\ t.time = Now + 1
        /\ Duration \in Nat /\ Duration > 0
        /\ position \in Nat /\ contractStart \in Nat \cup {Never} /\ Windows
    BY RegularTime, DurationAssumption DEF IInv, NoHolesInv, AnyInv, TypeOK
  <1>2. position' \in Nat \ {0} /\ Now' = t.time /\ contractStart' \in Nat
    BY ReadsTick DEF IInv, NoHolesInv
  <1>3. contractStart' <= t.time /\ t.time < contractStart' + Duration
    <2>1. CASE contractStart = Never \/ WindowElapsed(t)
      BY <1>1, <2>1 DEF Reads, StartsWindow
    <2>2. CASE ~(contractStart = Never \/ WindowElapsed(t))
      <3>1. contractStart' = contractStart /\ contractStart \in Nat
            /\ t.time - contractStart < Duration
        BY <1>1, <2>2 DEF Reads, StartsWindow, WindowElapsed
      <3>2. position > 0 /\ contractStart <= Now
        BY <1>1, <2>2 DEF Windows
      <3> QED
        BY <1>1, <3>1, <3>2
    <2> QED
      BY <2>1, <2>2
  <1>4. contractStart' # Never /\ position' # 0
    BY <1>2 DEF Never
  <1>5. s0'
    <2>1. CASE StartsWindow(t)
      BY <2>1, RegularTime DEF Reads, HasReference, IInv, NoHolesInv
    <2>2. CASE ~StartsWindow(t)
      BY <1>1, <2>2 DEF Reads, HasReference, StartsWindow, Windows
    <2> QED
      BY <2>1, <2>2
  <1> QED
    BY <1>2, <1>3, <1>4, <1>5 DEF Windows

\* The trade that remains open keeps clear of the window's start, and a tick
\* that settles one ends no window.
LEMMA RemainingInWindow ==
  ASSUME IInv, Complete', NEW t \in NextTicks, Reads(t)
  PROVE  /\ RemainingTrade(t) # None =>
              /\ RemainingTrade(t) = openTrade /\ position >= WarmUp
              /\ openTrade.entered <= t.time
              /\ openTrade.entered # contractStart'
              /\ openTrade.entered > contractStart' - Duration
         /\ Settles(t) => ~WindowElapsed(t)
  <1>1. openTrade \in SimulatedTrade \cup {None}
        /\ contractStart \in Nat \cup {Never}
        /\ Duration \in Nat /\ Duration > 0
        /\ AnyInv /\ Windows /\ TradeInWindow /\ OpenInTime
    BY RegularTime, DurationAssumption DEF IInv, NoHolesInv, AnyInv, TypeOK
  <1>2. CASE openTrade = None
    BY <1>2 DEF RemainingTrade, Settles
  <1>3. CASE openTrade # None
    <2>1. openTrade.entered \in Nat
      BY <1>1, <1>3 DEF SimulatedTrade
    <2>2. position > 0 /\ contractStart # Never
      BY <1>1, <1>3 DEF AnyInv, RowOfTrade, Windows
    <2>3. Now \in Nat /\ t.time = Now + 1 /\ contractStart \in Nat
      BY <1>1, <2>2, RegularTime
    <2>4. /\ openTrade.entered <= Now /\ Now < openTrade.entered + Duration
          /\ openTrade.entered # contractStart
          /\ openTrade.entered > contractStart - Duration
          /\ contractStart <= Now /\ Now < contractStart + Duration
          /\ position >= WarmUp
      BY <1>1, <1>3, <2>2 DEF OpenInTime, TradeInWindow, Windows
    <2>5. Settles(t) => ~WindowElapsed(t)
      BY <1>1, <2>1, <2>3, <2>4 DEF Settles, WindowElapsed
    <2>6. ASSUME ~Settles(t)
          PROVE  /\ openTrade.entered <= t.time
                 /\ openTrade.entered # contractStart'
                 /\ openTrade.entered > contractStart' - Duration
      <3>1. t.time < openTrade.entered + Duration
        BY <1>1, <1>3, <2>1, <2>3, <2>6 DEF Settles
      <3>2. CASE WindowElapsed(t)
        <4>1. contractStart' = t.time
          BY <3>2 DEF Reads, StartsWindow
        <4> QED
          BY <1>1, <2>1, <2>3, <2>4, <3>1, <4>1
      <3>3. CASE ~WindowElapsed(t)
        <4>1. contractStart' = contractStart
          BY <2>2, <3>3 DEF Reads, StartsWindow
        <4> QED
          BY <1>1, <2>1, <2>3, <2>4, <3>1, <4>1
      <3> QED
        BY <3>2, <3>3
    <2> QED
      BY <1>1, <2>4, <2>5, <2>6 DEF RemainingTrade
  <1> QED
    BY <1>2, <1>3

\* Every step that enters no trade, if it writes the result it has.
LEMMA WritingKeeps ==
  ASSUME IInv, Complete', NEW t \in NextTicks, Passes(t),
         rows' = PersistSettlement(rows, t)
  PROVE  Windows' /\ TradeInWindow' /\ RowsSettled'
  <1>1. t \in Tick /\ Reads(t) /\ AnyInv /\ NoHolesInv /\ RowsSettled
    BY RegularTime DEF Passes, IInv, NoHolesInv
  <1>2. Windows' /\ OfThisReplay' = OfThisReplay
        /\ Now' = t.time /\ position' = position + 1 /\ position \in Nat
        /\ WarmUp \in Nat
    BY <1>1, ReadsKeepsWindows, PassKeepsAny, ReadsTick, WarmUpAssumption DEF AnyInv, TypeOK
  <1>3. TradeInWindow'
    BY <1>1, <1>2, RemainingInWindow DEF TradeInWindow, Passes
  <1>4. RowsSettled'
    <2>1. /\ rows \in Seq(ExecutedTrade) /\ Len(rows) \in Nat
          /\ Len(rows') = Len(rows) /\ OfThisReplay \subseteq 1..Len(rows)
          /\ \A k \in OfThisReplay :
               openTrade = None \/ k < Len(rows) => rows[k].status = "simulated_settled"
      BY <1>1, SettlementWritten DEF AnyInv, TypeOK, OfThisReplay, RowsSettled
    <2>2. CASE Settles(t)
      <3> SUFFICES ASSUME NEW k \in OfThisReplay
                   PROVE  rows'[k].status = "simulated_settled"
        BY <1>2 DEF RowsSettled
      <3>1. k < Len(rows) \/ k = Len(rows)
        BY <2>1
      <3> QED
        BY <1>1, <2>1, <2>2, <3>1, SettlementWritten
    <2>3. CASE ~Settles(t)
      <3>1. openTrade' = openTrade /\ rows' = rows
        BY <2>3 DEF Passes, RemainingTrade, PersistSettlement
      <3> QED
        BY <1>2, <2>1, <3>1 DEF RowsSettled
    <2> QED
      BY <2>2, <2>3
  <1> QED
    BY <1>2, <1>3, <1>4

\* A step without a decision settles nothing, so it has nothing to write.
LEMMA NoneKeeps ==
  ASSUME IInv, Complete', NEW t \in NextTicks, Rollover(t) \/ Waits(t)
  PROVE  Windows' /\ TradeInWindow' /\ RowsSettled'
  <1>0. Reads(t)
    BY DEF Rollover, Waits, ReturnsNone
  <1>1. ~Settles(t)
    <2>1. CASE Rollover(t)
      BY <1>0, <2>1, RemainingInWindow DEF Rollover
    <2>2. CASE Waits(t)
      <3>1. HasReference(t)
        BY <1>0, ReadsKeepsWindows, ReadsTick DEF Reads, Windows, IInv, NoHolesInv
      <3>2. openTrade # None => HasFeatures
        BY <1>0, RegularTime, FeaturesThere DEF IInv, NoHolesInv, TradeInWindow
      <3> QED
        BY <2>2, <3>1, <3>2 DEF Waits, Settles
    <2> QED
      BY <2>1, <2>2
  <1>2. Passes(t) /\ rows' = PersistSettlement(rows, t)
    BY <1>1 DEF Rollover, Waits, ReturnsNone, Passes, PersistSettlement
  <1> QED
    BY <1>2, WritingKeeps

LEMMA HoldKeeps ==
  ASSUME IInv, Complete', NEW t \in NextTicks, Hold(t)
  PROVE  Windows' /\ TradeInWindow' /\ RowsSettled'
  <1>1. Passes(t) /\ rows' = PersistSettlement(rows, t)
    BY DEF Hold, Decides, Passes
  <1> QED
    BY <1>1, WritingKeeps

\* A trade is entered between two windows' starts.
LEMMA EnterKeeps ==
  ASSUME IInv, Complete', NEW t \in NextTicks, Enter(t)
  PROVE  Windows' /\ TradeInWindow' /\ RowsSettled'
  <1>0. NoHolesInv /\ AnyInv /\ Reads(t)
    BY DEF Enter, Decides, IInv, NoHolesInv
  <1>1. AnyInv /\ openTrade = None /\ ~Settles(t) /\ Windows /\ RowsSettled
    BY <1>0, RegularTime, EntrySettlesNothing DEF IInv
  <1>2. /\ Reads(t) /\ openTrade'.entered = t.time
        /\ Len(rows') = Len(rows) + 1
        /\ OfThisReplay' = OfThisReplay \cup {Len(rows')}
        /\ \A k \in DOMAIN rows : rows'[k] = rows[k]
        /\ openTrade' # None
    BY <1>1, EnterKeepsAny
  <1>3. Windows' /\ Now' = t.time /\ position' = position + 1
    BY <1>1, <1>2, ReadsKeepsWindows, ReadsTick
  <1>4. TradeInWindow'
    <2>1. ~WindowElapsed(t) /\ HasFeatures /\ position + 1 >= WarmUp
          /\ position \in Nat /\ WarmUp \in Nat /\ WarmUp > 1
          /\ Duration \in Nat /\ Duration > 0 /\ contractStart \in Nat \cup {Never}
      BY <1>1, WarmUpAssumption, DurationAssumption DEF Enter, Decides, HasFeatures, AnyInv, TypeOK
    <2>2. position > 0
      BY <2>1
    <2>3. /\ contractStart \in Nat /\ contractStart <= Now
          /\ Now \in Nat /\ t.time = Now + 1 /\ t.time \in Nat
          /\ contractStart' = contractStart
      BY <1>1, <1>2, <2>1, <2>2, RegularTime DEF Windows, Reads, StartsWindow
    <2> QED
      BY <1>2, <1>3, <2>1, <2>3 DEF TradeInWindow
  <1>5. RowsSettled'
    <2>1. /\ Len(rows) \in Nat /\ OfThisReplay \subseteq DOMAIN rows
          /\ \A k \in OfThisReplay : rows[k].status = "simulated_settled"
      BY <1>1 DEF AnyInv, TypeOK, OfThisReplay, RowsSettled
    <2> QED
      BY <1>2, <2>1 DEF RowsSettled
  <1> QED
    BY <1>3, <1>4, <1>5

LEMMA RerunKeeps ==
  ASSUME IInv, Rerun
  PROVE  IInv'
  <1>1. NoHolesInv' /\ OfThisReplay' = {}
    BY RerunKeepsNoHoles, RerunKeepsAny DEF IInv, NoHolesInv
  <1>2. Windows' /\ TradeInWindow' /\ RowsSettled'
    BY <1>1 DEF Rerun, Windows, TradeInWindow, RowsSettled
  <1> QED
    BY <1>1, <1>2 DEF IInv

\* The inductive invariant: as long as what was read is one tick per unit with
\* a price in each, trades stay inside their windows and rows are settled.
THEOREM ReplayInductive == Spec => []IInv
  <1>1. IInv /\ [Next]_vars => IInv'
    <2> SUFFICES ASSUME IInv, [Next]_vars PROVE IInv'
      OBVIOUS
    <2>1. ASSUME NEW t \in NextTicks, Rollover(t) \/ Waits(t) \/ Hold(t) \/ Enter(t)
          PROVE  IInv'
      <3>1. NoHolesInv'
        BY <2>1, PassKeepsNoHoles, EnterKeepsNoHoles
        DEF IInv, Passes, Rollover, Waits, Hold, Decides, ReturnsNone
      <3>2. ASSUME Complete' PROVE Windows' /\ TradeInWindow' /\ RowsSettled'
        BY <2>1, <3>2, NoneKeeps, HoldKeeps, EnterKeeps
      <3> QED
        BY <3>1, <3>2 DEF IInv
    <2>2. CASE UNCHANGED vars
      BY <2>2 DEF vars, IInv, Complete, OnePerUnit, Windows, TradeInWindow, RowsSettled,
                  NoHolesInv, NoHoles, OpenInTime, Now, ResultIsOwn, AnyInv, TypeOK, RowOfTrade,
                  OfThisReplay, GateFollowsTrade, TradesDoNotOverlap
    <2> QED
      BY <2>1, <2>2, RerunKeeps DEF Next
  <1> QED
    BY InitIInv, <1>1, PTL DEF Spec

\* What the engine has settled of a complete recording is settled in the
\* database.
THEOREM ClosedTradesAreSettled == Spec => []ClosedTradeIsSettled
  <1>1. IInv => ClosedTradeIsSettled
    <2> SUFFICES ASSUME IInv, Complete, NEW k \in OfThisReplay, rows[k].status = "open"
                 PROVE  rows[k].entered = openTrade.entered
      BY DEF ClosedTradeIsSettled
    <2>1. openTrade # None /\ ~(k < Len(rows))
      BY DEF IInv, RowsSettled
    <2>2. k = Len(rows)
      BY <2>1 DEF OfThisReplay, IInv, NoHolesInv, AnyInv, TypeOK
    <2> QED
      BY <2>1, <2>2 DEF IInv, NoHolesInv, AnyInv, RowOfTrade
  <1> QED
    BY <1>1, ReplayInductive, PTL
===============================================================================
