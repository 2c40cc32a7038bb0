--------------------------- MODULE LegacyStrategies ---------------------------
(***************************************************************************)
(* What the bot of the older workspace (crates engines and bot_core)       *)
(* computes from a price: the belief in a rise, the stake, and the         *)
(* positions the eight strategies of its selector want. Probabilities and  *)
(* prices of the synthetic book are in thousandths; averages of such       *)
(* prices are rounded down.                                                *)
(***************************************************************************)
EXTENDS Integers, SequencesExt

CONSTANTS
  Capital,      \* initial_balance, in the unit of stakes
  MinStake,     \* the broker's minimum
  RsiPeriod,    \* closes the relative strength looks at (14)
  Oversold,     \* rsi.oversold, in hundredths
  BandPeriod,   \* closes of the Bollinger bands (20)
  MacdFast, MacdSlow, MacdSignal,     \* periods of the averages (12, 26, 9)
  LateFrom,     \* the last part of a window, for LateCycle and MtfPlaybook
  LateUntil,    \* ... and the time before its end that is too late
  MinRoi, MaxRoi,     \* returns LateCycle and MtfPlaybook take, in thousandths
  LateEdge,     \* late_cycle.threshold_3, in thousandths
  History       \* prices a strategy keeps (500)

ASSUME StakeAssumption == Capital \in Nat /\ MinStake \in Nat \ {0}
ASSUME EdgeAssumption == LateEdge \in Nat
ASSUME HistoryAssumption == History \in Nat \ {0}

Strategies ==
  {"Temporal", "Rsi", "BollingerBands", "Macd", "Lmsr", "Ensemble",
   "LateCycle", "MtfPlaybook"}
-------------------------------------------------------------------------------
(* The belief that the price ends above where the window opened. *)

Beliefs == {0, 300, 500, 700, 800, 1000}

\* calculate_q_model, up to how far the volatility lets it go: even when the
\* price is where it was, certain when no time is left. A volatility that a
\* missing price has left infinite gives evens, one that is no number none at
\* all, with which no strategy wants anything, as with evens.
QModels(s0, s_hat, time_left) ==
  IF time_left = 0 THEN {IF s_hat >= s0 THEN 1000 ELSE 0}
  ELSE {q \in Beliefs : /\ s_hat >= s0 => q >= 500
                        /\ s_hat <= s0 => q <= 500}

\* shrink_logit with a market at evens: the lower end of the shrunk belief.
QLow(q_model) ==
  CASE q_model = 0 -> 0      [] q_model = 300 -> 276 [] q_model = 500 -> 378
    [] q_model = 700 -> 492  [] q_model = 800 -> 565 [] OTHER -> 1000

ClampPrice(x) == IF x < 10 THEN 10 ELSE IF x > 990 THEN 990 ELSE x

\* make_synth_book.
Book(q_up, spread) ==
  LET down == ClampPrice(1000 - q_up) IN
  [up_bid |-> ClampPrice(q_up - spread), up_ask |-> ClampPrice(q_up + spread),
   down_bid |-> ClampPrice(down - spread)]

\* A mutant: the check of the lower belief is gone.
SizeAlways(q_low, price) ==
  IF (75 * Capital) \div 1000 > MinStake THEN (75 * Capital) \div 1000
  ELSE MinStake

\* size_fractional_kelly, as fraction * max_size: 7.5 % of the capital, at
\* least the minimum, when even the lower belief is above the price.
Size(q_low, price) ==
  IF q_low <= price \/ price >= 1000 THEN 0
  ELSE IF (75 * Capital) \div 1000 > MinStake THEN (75 * Capital) \div 1000
  ELSE MinStake
-------------------------------------------------------------------------------
(* Indicators over the prices a strategy has seen, the last one newest. *)

Recent(mids, n) == SubSeq(mids, Len(mids) - n + 1, Len(mids))
Total(mids) == FoldLeft(+, 0, mids)
SquaredTotal(mids) == FoldLeft(LAMBDA sum, p : sum + p * p, 0, mids)

Moves(mids, n, sign) ==
  LET last == Recent(mids, n + 1)
      Step(i) == sign * (last[i + 1] - last[i])
  IN FoldLeft(+, 0, [i \in 1..n |-> IF Step(i) > 0 THEN Step(i) ELSE 0])

\* calculate_rsi: the share of rises in the moves, 100 without a fall.
RelativeStrength(mids) ==
  LET gains == Moves(mids, RsiPeriod, 1)
      falls == Moves(mids, RsiPeriod, -1)
  IN IF falls = 0 THEN 100 ELSE (100 * gains) \div (gains + falls)

\* calculate_bands: the newest price is two deviations or more off the mean on
\* the given side.
Deviation(mids) ==
  BandPeriod * Last(mids) - Total(Recent(mids, BandPeriod))
OutsideBand(mids, sign) ==
  LET last == Recent(mids, BandPeriod) IN
  /\ Len(mids) >= BandPeriod
  /\ sign * Deviation(mids) > 0
  /\ Deviation(mids) * Deviation(mids)
       > 4 * (BandPeriod * SquaredTotal(last) - Total(last) * Total(last))

\* Macd's ema and MtfPlaybook's calculate_ema.
Average(mids, period) ==
  FoldLeft(LAMBDA ema, p : (2 * p + (period - 1) * ema) \div (period + 1),
           mids[1], Tail(mids))

\* calculate_macd: the distance of the averages, and its own average.
MacdLine(mids) == Average(mids, MacdFast) - Average(mids, MacdSlow)
MacdRises(mids) ==
  /\ Len(mids) >= MacdSlow + MacdSignal
  /\ MacdLine(mids)
       > Average([i \in 1..Len(mids) |-> MacdLine(SubSeq(mids, 1, i))],
                 MacdSignal)

Roi(price) ==
  IF price <= 0 \/ price >= 1000 THEN 0 ELSE (1000 * (1000 - price)) \div price
RoiFits(price) == Roi(price) >= MinRoi /\ Roi(price) <= MaxRoi
-------------------------------------------------------------------------------
(* generate_desired_state of each strategy: the stakes it wants on a rise    *)
(* and on a fall. `q_low` and `q_model` are the beliefs, `size` the stake of *)
(* the risk engine, zero when it has found no edge.                          *)

Nothing == [up |-> 0, down |-> 0]
UpIf(condition, size) == [up |-> IF condition THEN size ELSE 0, down |-> 0]

TemporalDesired(q_low, size, book) == UpIf(q_low - book.up_ask > 20, size)

LmsrDesired(q_low, size) == UpIf(q_low > 520, size)

RsiDesired(mids, q_low, size) ==
  UpIf(/\ Len(mids) > RsiPeriod
       /\ RelativeStrength(mids) < Oversold /\ q_low > 520, size)

BandsDesired(mids, q_low, size) ==
  UpIf(OutsideBand(mids, -1) /\ q_low > 520, size)

MacdDesired(mids, q_low, size) == UpIf(MacdRises(mids) /\ q_low > 520, size)

\* The fixed limits 30 and 70 of the ensemble, and a move without a fall, whose
\* strength the code takes for a signal to buy.
RsiSignal(mids) ==
  CASE Len(mids) <= RsiPeriod -> 0
    [] Moves(mids, RsiPeriod, -1) = 0 -> 1
    [] RelativeStrength(mids) < 30 -> 1
    [] RelativeStrength(mids) > 70 -> -1
    [] OTHER -> 0
BandSignal(mids) ==
  CASE OutsideBand(mids, -1) -> 1 [] OutsideBand(mids, 1) -> -1 [] OTHER -> 0

EnsembleDesired(mids, q_low, size) ==
  UpIf(RsiSignal(mids) + BandSignal(mids) > 0 /\ q_low > 520, size)

LateCycleDesired(q_low, size, book, time_left) ==
  IF time_left >= LateFrom \/ time_left <= LateUntil THEN Nothing
  ELSE [up |-> IF q_low > 500 + LateEdge /\ RoiFits(book.up_bid)
               THEN size ELSE 0,
        down |-> IF q_low < 500 - LateEdge /\ RoiFits(book.down_bid)
                 THEN size ELSE 0]

\* MtfPlaybook: the width of the bands tells a range from a trend; a range is
\* traded back to the mean price, a trend after a pullback. The stake is not
\* that of the risk engine. The mean is of the prices kept, which are all of
\* them as long as there are no more than History.
IsRange(mids) ==
  LET n == Len(mids)  sum == Total(mids) IN
  n >= 2 /\ 16000000 * (n * SquaredTotal(mids) - sum * sum) < 25 * sum * sum

Velocity(mids) ==
  LET back == IF Len(mids) > 5 THEN 5 ELSE Len(mids) - 1 IN
  Last(mids) - mids[Len(mids) - back]

\* sign 1 for a rise, -1 for a fall.
MtfSetup(mids, q_model, sign) ==
  LET n == Len(mids)
      mid == sign * Last(mids)
      long == IF n < 2 THEN Last(mids) ELSE Average(mids, n)
      short == IF n < 2 THEN Last(mids)
               ELSE Average(mids, IF n < 80 THEN n ELSE 80)
  IN /\ sign * (q_model - 500) > 5
     /\ IF IsRange(mids)
        THEN /\ mid < sign * (Total(mids) \div n) - 5
             /\ sign * Velocity(mids) > 1
        ELSE /\ mid > sign * long /\ mid < sign * short
             /\ sign * Velocity(mids) > -1

MtfDesired(mids, q_model, book, time_left) ==
  LET Stake(price, sign) ==
        IF MtfSetup(mids, q_model, sign) /\ RoiFits(price)
        THEN (75 * Capital) \div price ELSE 0
  IN IF time_left >= 4 * LateFrom \/ time_left <= LateUntil THEN Nothing
     ELSE [up |-> Stake(book.up_bid, 1), down |-> Stake(book.down_bid, -1)]

\* The strategies that keep what they see.
KeepsPrices(strategy) ==
  strategy \in {"Rsi", "BollingerBands", "Macd", "Ensemble", "MtfPlaybook"}

Seen(strategy, mids, book) ==
  IF ~KeepsPrices(strategy) THEN mids
  ELSE LET all == Append(mids, book.up_bid) IN
       IF Len(all) > History THEN Tail(all) ELSE all

\* StrategySelector: `mids` has the newest price already.
Desired(strategy, mids, q_model, size, book, time_left) ==
  LET q_low == QLow(q_model) IN
  CASE strategy = "Temporal" -> TemporalDesired(q_low, size, book)
    [] strategy = "Rsi" -> RsiDesired(mids, q_low, size)
    [] strategy = "BollingerBands" -> BandsDesired(mids, q_low, size)
    [] strategy = "Macd" -> MacdDesired(mids, q_low, size)
    [] strategy = "Lmsr" -> LmsrDesired(q_low, size)
    [] strategy = "Ensemble" -> EnsembleDesired(mids, q_low, size)
    [] strategy = "LateCycle" ->
         LateCycleDesired(q_low, size, book, time_left)
    [] OTHER -> MtfDesired(mids, q_model, book, time_left)
===============================================================================
