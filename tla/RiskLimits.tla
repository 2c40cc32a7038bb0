------------------------------ MODULE RiskLimits ------------------------------
(***************************************************************************)
(* The risk gate as the live decision engine uses it, over several days    *)
(* and on two clocks: DecisionEngine::step asks it at the time a tick      *)
(* carries (the broker's epoch), the notify_* hooks tell it of results at  *)
(* the time of this machine. The two differ by the age of the tick and by  *)
(* clock skew, at most MaxSkew here; replay, where every time is a tick's, *)
(* is MaxSkew = 0. At most one trade is entering or open at a time, as     *)
(* LiveExecutor shows. The conditions of step that are not the gate's (the *)
(* signal itself, the stake, the entry pause) may or may not hold at any   *)
(* tick, so an entry is always a choice.                                   *)
(***************************************************************************)
EXTENDS RiskGate

CONSTANTS
  MaxTime,   \* bound: the last time of either clock
  MaxTrades, \* bound: entries attempted
  MaxSkew,   \* most a tick's time differs from this machine's
  MaxStake,  \* the largest stake, which a trade may lose
  MaxGain    \* the largest gain of a trade

ASSUME TimeAssumption == MaxTime \in Nat /\ MaxTrades \in Nat /\ MaxSkew \in Nat
ASSUME StakeAssumption == MaxStake \in Nat \ {0} /\ MaxGain \in Nat

VARIABLES
  clock,    \* UnixMs::now()
  tickTime, \* time of the last tick
  gate,     \* DecisionEngine.risk_gate
  trade,    \* "none", "entering" or "open"
  trades,   \* history: entries attempted
  dayPnl,   \* history: what was realized on each day
  streak,   \* history: losses in a row at the end of each day so far
  lastLoss  \* history: time of the last loss, Never before one

vars == <<clock, tickTime, gate, trade, trades, dayPnl, streak, lastLoss>>

Times == 0..MaxTime
Days == {UtcDay(t) : t \in Times}
Results == (-MaxStake)..MaxGain
Today == UtcDay(clock)

\* A balance too low to trade with, and one that is not.
Balances == {MinBalance - 1, InitialBalance}

TypeOK ==
  /\ clock \in Times /\ tickTime \in Times
  /\ gate \in Gate
  /\ trade \in {"none", "entering", "open"}
  /\ trades \in 0..MaxTrades
  /\ dayPnl \in [Days -> Int] /\ streak \in [Days -> Nat]
  /\ lastLoss \in Times \cup {Never}

Init ==
  /\ clock = 0 /\ tickTime = 0
  /\ gate = NewGate
  /\ trade = "none" /\ trades = 0
  /\ dayPnl = [d \in Days |-> 0] /\ streak = [d \in Days |-> 0]
  /\ lastLoss = Never

history == <<dayPnl, streak, lastLoss>>

Advance ==
  /\ clock < MaxTime /\ clock' = clock + 1
  /\ UNCHANGED <<tickTime, gate, trade, trades, history>>

\* A tick of time t arrives; ticks arrive in the order of their times.
TickOf(t) ==
  /\ t >= tickTime /\ t - clock <= MaxSkew /\ clock - t <= MaxSkew
  /\ tickTime' = t

\* step on a tick with an actionable contract: can_trade refreshes the gate
\* whatever it answers, and with its consent the executor tries to enter.
Consult ==
  /\ \E t \in Times :
       /\ TickOf(t)
       /\ gate' = RefreshForTime(gate, t)
       /\ \/ UNCHANGED <<trade, trades>>
          \/ /\ trade = "none" /\ trades < MaxTrades
             /\ CanTrade(gate, t)
             /\ trade' = "entering" /\ trades' = trades + 1
  /\ UNCHANGED <<clock, history>>

\* The entry succeeds: notify_live_trade_opened.
Opened ==
  /\ trade = "entering" /\ trade' = "open"
  /\ gate' = OnTradeOpened(gate)
  /\ UNCHANGED <<clock, tickTime, trades, history>>

\* The entry is refused; the engine is told nothing.
EntryFails ==
  /\ trade = "entering" /\ trade' = "none"
  /\ UNCHANGED <<clock, tickTime, gate, trades, history>>

\* The result arrives: notify_live_trade_closed, which ends by setting the
\* balance to the one the executor's ledger has come to.
Closed ==
  /\ trade = "open" /\ trade' = "none"
  /\ \E pnl \in Results :
       /\ \E b \in Balances :
            gate' = UpdateBalance(OnTradeClosed(gate, pnl, clock), b)
       /\ dayPnl' = [dayPnl EXCEPT ![Today] = @ + pnl]
       /\ streak' = [streak EXCEPT ![Today] = IF pnl < 0 THEN @ + 1 ELSE 0]
       /\ lastLoss' = IF pnl < 0 THEN clock ELSE lastLoss
  /\ UNCHANGED <<clock, tickTime, trades>>

\* The connection is lost with the trade open: notify_live_trade_aborted. Its
\* result, whatever it will be, is realized nowhere.
Aborted ==
  /\ trade = "open" /\ trade' = "none"
  /\ gate' = OnePositionLess(gate)
  /\ UNCHANGED <<clock, tickTime, trades, history>>

\* The broker reports a balance: notify_live_balance.
Balance ==
  /\ \E b \in Balances : gate' = UpdateBalance(gate, b)
  /\ UNCHANGED <<clock, tickTime, trade, trades, history>>

Next ==
  \/ Advance \/ Consult \/ Opened \/ EntryFails \/ Closed \/ Aborted \/ Balance

Spec == Init /\ [][Next]_vars
-------------------------------------------------------------------------------
(* Properties. *)

Enters == trade = "none" /\ trade' = "entering"

\* No day loses more than its limit and the one trade that was entered while
\* the limit was not reached, whenever that trade's result arrives.
DailyLossBounded ==
  \A d \in Days : dayPnl[d] > -(MaxLossPerDay + MaxStake)

\* A day whose losses have reached the limit sees no further entry.
DailyLossStopsEntries ==
  [][Enters => -dayPnl[UtcDay(tickTime')] < MaxLossPerDay]_vars

\* Nor does a day whose last results were the allowed number of losses in a
\* row.
StreakStopsEntries ==
  [][Enters => streak[UtcDay(tickTime')] < MaxConsecutiveLosses]_vars

\* After a loss no trade is entered for the cooldown, up to midnight (the day
\* takes the cooldown with it).
CooldownKept ==
  [][Enters /\ lastLoss # Never /\ UtcDay(lastLoss) = UtcDay(tickTime')
       => tickTime' - lastLoss >= CooldownAfterLoss]_vars

\* The gate counts the trade that is open and no other.
CountsOpenTrade == gate.open = IF trade = "open" THEN 1 ELSE 0

\* Between two resets the gate itself never counts a loss of more than its
\* limit and one trade, whichever day it takes a result to be of.
CountedLossBounded == gate.pnl > -(MaxLossPerDay + MaxStake)
-------------------------------------------------------------------------------
(* The inductive invariant for two clocks, whatever MaxSkew. *)

\* What the gate consented to with room for one more loss stays so until the
\* result: a reset in between only makes room.
ConsentLasts ==
  IF MaxLossPerDay = 0 THEN trade = "none" /\ gate.pnl = 0
  ELSE trade # "none" => gate.pnl > -MaxLossPerDay

TwoClocksInv ==
  /\ TypeOK
  /\ CountsOpenTrade
  /\ ConsentLasts
  /\ CountedLossBounded
-------------------------------------------------------------------------------
(* The inductive invariant for one clock, MaxSkew = 0. *)

\* The gate's day is not in the future, and nothing is known of a later one.
GateDay ==
  /\ tickTime <= clock
  /\ gate.day <= Today
  /\ \A d \in Days : d > gate.day => dayPnl[d] = 0 /\ streak[d] = 0
  /\ lastLoss # Never => UtcDay(lastLoss) <= gate.day /\ lastLoss <= clock

\* The gate's counters are those of its day.
GateCounts ==
  /\ gate.day = Never => gate.pnl = 0 /\ gate.losses = 0 /\ trade = "none"
  /\ gate.day # Never =>
       /\ gate.pnl = dayPnl[gate.day]
       /\ gate.losses = streak[gate.day]
  /\ gate.lossAt = IF lastLoss # Never /\ UtcDay(lastLoss) = gate.day
                   THEN lastLoss ELSE Never

\* While a trade may still realize a result, the day it would count for and
\* the later ones are below their limit.
LossAhead ==
  trade # "none" => \A d \in Days : d >= Today => dayPnl[d] > -MaxLossPerDay

\* A limit of nothing forbids every trade.
NoLossNoTrade ==
  MaxLossPerDay = 0 => trade = "none" /\ \A d \in Days : dayPnl[d] = 0

\* The inductive invariant: type correctness, the four facts above and the
\* bound on a day's loss that they make inductive.
IInv ==
  /\ TypeOK
  /\ GateDay /\ GateCounts /\ LossAhead /\ NoLossNoTrade
  /\ DailyLossBounded
  /\ CountsOpenTrade
===============================================================================
