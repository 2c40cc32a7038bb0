-------------------------------- MODULE Replay --------------------------------
(***************************************************************************)
(* `research replay --with-execution`: the recorded ticks of a symbol go   *)
(* one by one through DecisionEngine::step in its replay mode, where the   *)
(* engine opens and settles simulated trades itself, and what a step       *)
(* returns is written to the executed_trades table. A replay may be run    *)
(* again over the same ticks, also after one that was cut short: it starts *)
(* from a new engine, but its run_id, built from the symbol and the first  *)
(* tick, is the same, and the rows of the earlier replays stay.            *)
(* Every trade has a stake of one unit. Whether a tick carries a signal,   *)
(* and in which direction, is a choice. A tick recorded without a price    *)
(* has the price 0.                                                        *)
(***************************************************************************)
EXTENDS RiskGate, Sequences, FiniteSets

CONSTANTS
  Duration,  \* contract_duration, in units of time
  Gaps,      \* times from one recorded tick to the next
  Prices,    \* prices of ticks, 0 for a missing one
  WarmUp,    \* MIN_PROCESS_POINTS (48), more than the 24 extract asks for
  MinReturns,\* returns that extract asks for (20)
  History,   \* prices the feature extractor keeps (512)
  MaxTicks,  \* bound: ticks recorded
  MaxReplays \* bound: replays run

ASSUME DurationAssumption == Duration \in Nat \ {0}
ASSUME TickAssumption == Gaps \subseteq Nat /\ Prices \subseteq Nat
ASSUME WarmUpAssumption == WarmUp \in Nat /\ WarmUp > 1
ASSUME FeatureAssumption ==
  MinReturns \in Nat /\ MinReturns < WarmUp /\ History \in Nat /\ WarmUp <= History
ASSUME BoundAssumption == MaxTicks \in Nat /\ MaxReplays \in Nat \ {0}

VARIABLES
  ticks,         \* raw_ticks, as far as a replay has read them
  position,      \* ticks this replay has read
  replay,        \* number of this replay
  contractStart, \* DecisionEngine.contract_start
  s0,            \* whether Settlement.s0 is there
  lastTrade,     \* DecisionEngine.last_trade_time
  openTrade,     \* DecisionEngine.lifecycle.open_trade
  gate,          \* DecisionEngine.risk_gate
  rows           \* executed_trades of the run_id, in the order of their ids

vars == <<ticks, position, replay, contractStart, s0, lastTrade,
          openTrade, gate, rows>>

Directions == {"CALL", "PUT"}
None == [entered |-> Never]

\* Epochs are far beyond the duration of a contract.
FirstTime == Duration + 1

Tick == [time : Nat, price : Prices]
SimulatedTrade == [entered : Nat, direction : Directions]
ExecutedTrade ==
  [replay    : 1..MaxReplays,    \* history: the replay that wrote the row
   entered   : Nat,              \* timestamp of its intent
   direction : Directions,
   price     : Prices,           \* of its decision
   status    : {"open", "simulated_settled"},
   result    : Nat \cup {Never}, \* history: whose result, by time of entry
   exit      : Prices \cup {0},  \* history: the price it was settled at
   won       : BOOLEAN]          \* the sign of pnl

TypeOK ==
  /\ ticks \in Seq(Tick) /\ Len(ticks) <= MaxTicks
  /\ position \in 0..Len(ticks)
  /\ replay \in 1..MaxReplays
  /\ contractStart \in Nat \cup {Never}
  /\ s0 \in BOOLEAN
  /\ lastTrade \in Nat
  /\ openTrade \in SimulatedTrade \cup {None}
  /\ gate \in Gate
  /\ rows \in Seq(ExecutedTrade)

Init ==
  /\ ticks = <<>> /\ position = 0 /\ replay = 1
  /\ contractStart = Never /\ s0 = FALSE /\ lastTrade = 0
  /\ openTrade = None /\ gate = NewGate
  /\ rows = <<>>

\* The tick read next: a recorded one, or one the recorder has added.
NextTicks ==
  IF position < Len(ticks) THEN {ticks[position + 1]}
  ELSE IF position = MaxTicks THEN {}
  ELSE IF position = 0 THEN [time : {FirstTime}, price : Prices]
  ELSE [time : {ticks[position].time + g : g \in Gaps}, price : Prices]
-------------------------------------------------------------------------------
(* Settlement, on a tick t. *)

Settles(t) == openTrade # None /\ t.time >= openTrade.entered + Duration

\* The price the result is judged against, Settlement.current_price, is that
\* of the previous tick: handle_tick comes after maybe_settle_simulated_trade.
Wins(t) ==
  LET reference == ticks[position].price IN
  IF openTrade.direction = "CALL" THEN t.price >= reference
  ELSE t.price <= reference

\* A win pays 0.95 of the stake, here a unit like the stake.
Pnl(t) == IF Wins(t) THEN 1 ELSE -1

SettledGate(t) ==
  IF Settles(t) THEN OnTradeClosed(gate, Pnl(t), t.time) ELSE gate

RemainingTrade(t) == IF Settles(t) THEN None ELSE openTrade
-------------------------------------------------------------------------------
(* What is written of a tick t. *)

\* update_executed_trade_lifecycle of row k with the result of the open trade.
WithResult(rs, k, t) ==
  [rs EXCEPT ![k] =
    [replay |-> @.replay, entered |-> @.entered, direction |-> @.direction,
     price |-> @.price, status |-> "simulated_settled",
     result |-> openTrade.entered, exit |-> t.price, won |-> Wins(t)]]

RowsOfEntry(rs, entered) == {k \in DOMAIN rs : rs[k].entered = entered}

\* ORDER BY id ASC.
FindEarliest(rs, entered) ==
  CHOOSE k \in RowsOfEntry(rs, entered) :
    \A j \in RowsOfEntry(rs, entered) : k <= j

FindLatest(rs, entered) ==
  CHOOSE k \in RowsOfEntry(rs, entered) :
    \A j \in RowsOfEntry(rs, entered) : j <= k

\* persist_simulated_settlement, if the step settled a trade.
PersistSettlement(rs, t) ==
  IF Settles(t) /\ RowsOfEntry(rs, openTrade.entered) # {}
  THEN WithResult(rs, FindLatest(rs, openTrade.entered), t)
  ELSE rs

NewRow(t, direction) ==
  [replay |-> replay, entered |-> t.time, direction |-> direction,
   price |-> t.price, status |-> "open", result |-> Never, exit |-> 0,
   won |-> FALSE]

\* The row of an entry is inserted open. A result that came with the same
\* decision is written into that new row, then into the row it belongs to.
PersistEntry(t, direction) ==
  LET inserted == Append(rows, NewRow(t, direction)) IN
  PersistSettlement(IF Settles(t) THEN WithResult(inserted, Len(inserted), t)
                    ELSE inserted, t)
-------------------------------------------------------------------------------
(* The engine's step, by what it returns. *)

\* A window lasts a unit longer: time_left < 0.
WindowElapsedLate(t) ==
  contractStart # Never /\ t.time - contractStart > Duration

WindowElapsed(t) ==
  contractStart # Never /\ t.time - contractStart >= Duration

\* A window starts on the first tick and on one that ends the window before.
StartsWindow(t) == contractStart = Never \/ WindowElapsed(t)

\* capture_s0: only a price above 0 becomes the reference price of a window.
HasReference(t) == IF StartsWindow(t) THEN t.price # 0 ELSE s0

\* Of the prices kept, with that of the tick now read as the last, those that
\* have a return to the next: after a price of 0 there is none.
ReturnsKept ==
  {i \in 1..position : i + History >= position + 2 /\ ticks[i].price # 0}

HasFeatures == position + 1 >= WarmUp /\ Cardinality(ReturnsKept) >= MinReturns

\* The window starts once.
ReadsKeepingWindow(t) ==
  /\ ticks' = IF position < Len(ticks) THEN ticks ELSE Append(ticks, t)
  /\ position' = position + 1
  /\ contractStart' = IF contractStart = Never THEN t.time ELSE contractStart
  /\ s0' = HasReference(t)
  /\ UNCHANGED replay

\* What every step does with a tick: the window it is in, which it may start.
Reads(t) ==
  /\ ticks' = IF position < Len(ticks) THEN ticks ELSE Append(ticks, t)
  /\ position' = position + 1
  /\ contractStart' = IF StartsWindow(t) THEN t.time ELSE contractStart
  /\ s0' = HasReference(t)
  /\ UNCHANGED replay

\* step returns None, with it the result of a trade that this tick settles.
ReturnsNone(t) ==
  /\ Reads(t)
  /\ openTrade' = RemainingTrade(t) /\ gate' = SettledGate(t)
  /\ UNCHANGED <<lastTrade, rows>>

Rollover(t) == WindowElapsed(t) /\ ReturnsNone(t)

\* The window opened without a price, or there are too few for the features.
Waits(t) ==
  /\ ~WindowElapsed(t)
  /\ ~HasReference(t) \/ ~HasFeatures
  /\ ReturnsNone(t)

\* step returns a decision.
Decides(t) == ~WindowElapsed(t) /\ HasReference(t) /\ HasFeatures /\ Reads(t)

\* No signal, or one that is rejected (the stake may be too small, so no
\* further condition is needed); the gate is asked on a signal only.
Hold(t) ==
  /\ Decides(t)
  /\ openTrade' = RemainingTrade(t)
  /\ gate' \in {SettledGate(t), RefreshForTime(SettledGate(t), t.time)}
  /\ rows' = PersistSettlement(rows, t)
  /\ UNCHANGED lastTrade

\* Also when exactly one duration has passed.
MayEnterAtExpiry(t) ==
  /\ CanTrade(SettledGate(t), t.time)
  /\ RemainingTrade(t) = None
  /\ t.time - lastTrade >= Duration

MayEnter(t) ==
  /\ CanTrade(SettledGate(t), t.time)
  /\ RemainingTrade(t) = None
  /\ t.time - lastTrade > Duration

Enter(t) ==
  /\ Decides(t) /\ MayEnter(t)
  /\ lastTrade' = t.time
  /\ gate' = OnTradeOpened(RefreshForTime(SettledGate(t), t.time))
  /\ \E direction \in Directions :
       /\ openTrade' = [entered |-> t.time, direction |-> direction]
       /\ rows' = PersistEntry(t, direction)

\* The command is run again.
Rerun ==
  /\ replay < MaxReplays /\ position > 0
  /\ replay' = replay + 1 /\ position' = 0
  /\ contractStart' = Never /\ s0' = FALSE /\ lastTrade' = 0
  /\ openTrade' = None /\ gate' = NewGate
  /\ UNCHANGED <<ticks, rows>>

Next ==
  \/ \E t \in NextTicks : Rollover(t) \/ Waits(t) \/ Hold(t) \/ Enter(t)
  \/ Rerun

Spec == Init /\ [][Next]_vars
-------------------------------------------------------------------------------
(* Properties. Some are promises for a recording of a kind only. *)

\* A tick is at most one unit of time later than the one before it: a trade
\* meets a tick at its very expiry.
NoHoles ==
  \A i \in 1..Len(ticks) - 1 :
    ticks[i + 1].time \in {ticks[i].time, ticks[i].time + 1}

\* Nor is a tick repeated: they come one per unit.
OnePerUnit ==
  \A i \in 1..Len(ticks) - 1 : ticks[i + 1].time = ticks[i].time + 1

\* Nor is a price missing: it is a complete recording.
Complete == OnePerUnit /\ \A i \in 1..Len(ticks) : ticks[i].price # 0

OfThisReplay == {k \in DOMAIN rows : rows[k].replay = replay}

\* The gate counts the simulated trade that is open, and no other
\* (has_open_position and open_positions never disagree).
GateFollowsTrade == gate.open = IF openTrade = None THEN 0 ELSE 1

\* Without holes the open trade has a row, and the row says that it is open.
OpenTradeRowIsOpen ==
  NoHoles /\ openTrade # None =>
    \E k \in OfThisReplay :
      rows[k].entered = openTrade.entered /\ rows[k].status = "open"

\* With one tick per unit and a price in each, a row that says open is the row
\* of the open trade: what the engine has settled finishes as
\* simulated_settled. Of another recording the result may be lost: on a tick
\* that also ends a window, or in a window that opened without a price.
ClosedTradeIsSettled ==
  Complete =>
    \A k \in OfThisReplay :
      rows[k].status = "open" => rows[k].entered = openTrade.entered

\* Without holes a row holds the result of the trade it is the row of.
ResultIsOwn ==
  NoHoles => \A k \in DOMAIN rows : rows[k].result \in {Never, rows[k].entered}

\* Trades of a replay do not overlap: one is entered only when the one before
\* it is past its expiry.
TradesDoNotOverlap ==
  \A j, k \in DOMAIN rows :
    j < k /\ rows[j].replay = rows[k].replay
      => rows[k].entered - rows[j].entered > Duration

\* A replay never changes a row an earlier replay has written.
EarlierReplaysKept ==
  [][\A k \in DOMAIN rows : rows[k].replay < replay => rows'[k] = rows[k]]_vars

\* A settled CALL won if the price did not fall since its entry, a PUT if it
\* did not rise.
WinnersWereRight ==
  \A k \in DOMAIN rows :
    rows[k].status = "simulated_settled" =>
      rows[k].won = IF rows[k].direction = "CALL" THEN rows[k].exit >= rows[k].price
                    ELSE rows[k].exit <= rows[k].price
-------------------------------------------------------------------------------
(* The inductive invariant for any recording, with holes and repeated ticks. *)

\* The open trade is the last this replay has written a row of.
RowOfTrade ==
  /\ \A k \in DOMAIN rows : rows[k].replay <= replay
  /\ \A k \in OfThisReplay : rows[k].entered <= lastTrade
  /\ openTrade # None =>
       /\ position > 0
       /\ Len(rows) \in OfThisReplay
       /\ rows[Len(rows)].entered = openTrade.entered

AnyInv == TypeOK /\ GateFollowsTrade /\ TradesDoNotOverlap /\ RowOfTrade
-------------------------------------------------------------------------------
(* What is added for a recording without holes. *)

Now == ticks[position].time

\* The open trade is not yet at its expiry, and its row is open.
OpenInTime ==
  openTrade # None =>
    /\ Now < openTrade.entered + Duration
    /\ rows[Len(rows)].status = "open"

NoHolesInv == AnyInv /\ ResultIsOwn /\ (NoHoles => OpenInTime)
-------------------------------------------------------------------------------
(* What is added for a complete recording. *)

\* A replay is in the window that contractStart says, and has its price.
Windows ==
  /\ position = 0 => contractStart = Never
  /\ position > 0 =>
       /\ contractStart # Never /\ s0
       /\ contractStart <= Now /\ Now < contractStart + Duration

\* No window starts where the open trade, entered after the warm-up, expires.
TradeInWindow ==
  openTrade # None =>
    /\ position >= WarmUp
    /\ openTrade.entered <= Now
    /\ openTrade.entered # contractStart
    /\ openTrade.entered > contractStart - Duration

\* Rows of this replay are settled, but the last one while its trade is open.
RowsSettled ==
  \A k \in OfThisReplay :
    openTrade = None \/ k < Len(rows) => rows[k].status = "simulated_settled"

\* The inductive invariant.
IInv == NoHolesInv /\ (Complete => Windows /\ TradeInWindow /\ RowsSettled)
===============================================================================
