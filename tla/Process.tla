------------------------------- MODULE Process -------------------------------
(***************************************************************************)
(* What process/mod.rs reads from the latest prices: the features of their *)
(* returns, the regime, and the prior belief in a rise, smoothed over the  *)
(* priors before. Returns are in units of 1/ReturnScale; those that are    *)
(* not zero, and their deviations, are above MIN_RET_EPS, their variance   *)
(* need not be. Ratios, the bias and the confidence are in hundredths,     *)
(* probabilities in thousandths, rounded down.                             *)
(***************************************************************************)
EXTENDS Integers, FiniteSets, SequencesExt

CONSTANTS
  ReturnScale,    \* unit of returns
  VarianceFloor,  \* MIN_RET_EPS, taken for a variance of returns
  MaxHistory,     \* FeatureExtractor.max_history (512)
  ExtractPrices,  \* prices extract needs (24)
  ExtractReturns, \* ... and returns, which a price of 0 has none of (20)
  ShortTail,      \* returns of the short statistics (12)
  LongTail,       \* ... and of the long ones (48)
  RunScale,       \* length of a run that counts as a whole bias (8)
  MaxPriors,      \* priors before the estimator forgets (256)
  KeptPriors,     \* ... and those it then keeps (128)
  PriorWeight     \* weight of the i-th latest prior: half of it 12 later

ASSUME HistoryAssumption == MaxHistory \in Nat \ {0}
ASSUME ProcessAssumption ==
  /\ ReturnScale \in Nat \ {0} /\ RunScale \in Nat \ {0}
  /\ VarianceFloor \in Nat
  /\ ExtractPrices \in Nat /\ ExtractReturns \in Nat \ {0, 1}
  /\ ShortTail \in 1..ExtractReturns /\ LongTail \in Nat /\ LongTail >= ShortTail
ASSUME PriorAssumption ==
  /\ MaxPriors \in Nat \ {0} /\ KeptPriors \in 1..MaxPriors
  /\ \A i \in 1..MaxPriors : PriorWeight[i] \in Nat \ {0}

Clamp(x, low, high) ==
  IF x \in low..high THEN x ELSE IF x < low THEN low ELSE high

\* f64::signum, to which a zero is positive.
Signum(x) == IF x < 0 THEN -1 ELSE 1

\* The last n elements, or all.
Latest(s, n) == IF Len(s) <= n THEN s ELSE SubSeq(s, Len(s) - n + 1, Len(s))

\* A mutant: the oldest prices stay.
FirstPricesStay(history, price) ==
  IF Len(history) < MaxHistory THEN Append(history, price) ELSE history

\* FeatureExtractor.push_price.
PushPrice(history, price) == Latest(Append(history, price), MaxHistory)
-------------------------------------------------------------------------------
(* Statistics of a sequence of integers. *)

Total(s) == FoldLeft(+, 0, s)
Absolute(x) == IF x < 0 THEN -x ELSE x
AbsoluteOf(s) == [i \in 1..Len(s) |-> Absolute(s[i])]

\* std_dev squared, and the mean deviation, times the square of the length.
Spread(s) ==
  Len(s) * Total([i \in 1..Len(s) |-> s[i] * s[i]]) - Total(s) * Total(s)
Deviation(s) ==
  Total([i \in 1..Len(s) |-> Absolute(Len(s) * s[i] - Total(s))])

\* The share of the set part among n, in percent.
Percent(part, n) == (100 * Cardinality(part)) \div n

\* A statistic of the short tail over that of the long one, whose tail it is,
\* or over its floor: both have the square of their length as a factor.
Ratio(of_short, of_long, floor, short, long) ==
  LET below == Max({of_long, floor * Len(long) * Len(long)}) IN
  IF below = 0 THEN 0
  ELSE (100 * of_short * Len(long) * Len(long))
       \div (below * Len(short) * Len(short))
-------------------------------------------------------------------------------
(* The features. *)

\* A price of 0 has no return after it.
Returns(history) ==
  LET From == SelectSeq([i \in 1..(Len(history) - 1) |-> i],
                        LAMBDA i : history[i] # 0)
      Return(i) == ((history[i + 1] - history[i]) * ReturnScale) \div history[i]
  IN [k \in 1..Len(From) |-> Return(From[k])]

\* current_run_length. Its test for a sign of 0 never applies.
RunLength(returns) ==
  LET breaks ==
        {i \in 1..Len(returns) : Signum(returns[i]) # Signum(Last(returns))}
  IN IF breaks = {} THEN Len(returns) ELSE Len(returns) - Max(breaks)

\* The positions whose return has, or has not, the sign of the one before.
SignPairs(returns, same) ==
  {i \in 2..Len(returns) :
     (Signum(returns[i - 1]) = Signum(returns[i])) = same}

\* sign_persistence; its test for a sign of 0 holds for every return.
SignPersistence(returns) == Percent(SignPairs(returns, TRUE), Len(returns) - 1)

TransitionInstability(returns) ==
  Percent(SignPairs(returns, FALSE), Len(returns) - 1)

DirectionConcentration(returns) ==
  LET up == {i \in 1..Len(returns) : returns[i] > 0}
      down == {i \in 1..Len(returns) : returns[i] < 0}
      larger == IF Cardinality(up) > Cardinality(down) THEN up ELSE down
  IN IF up \cup down = {} THEN 0 ELSE Percent(larger, Cardinality(up \cup down))

\* How many returns are one and a half deviations above the mean size.
ShockFrequency(returns, long) ==
  LET sizes == AbsoluteOf(long)
      Above(r) == Len(sizes) * Absolute(r) - Total(sizes)
      IsShock(r) == /\ Total(sizes) > 0 /\ Above(r) >= 0
                    /\ 4 * Above(r) * Above(r) >= 9 * Spread(sizes)
  IN Percent({i \in 1..Len(returns) : IsShock(returns[i])}, Len(returns))

\* move_zscore beyond 2.2 on either side.
IsOutlier(return, long) ==
  LET above == Len(long) * return - Total(long) IN
  Spread(long) > 0 /\ 25 * above * above > 121 * Spread(long)

\* extract gives features of such a history.
IsExtractable(history) ==
  /\ Len(history) >= ExtractPrices
  /\ Len(Returns(history)) >= ExtractReturns

Features(history) ==
  LET returns == Returns(history)
      short == Latest(returns, ShortTail)
      long == Latest(returns, LongTail)
  IN [sample_size |-> Len(returns),
      last_return |-> Last(returns),
      \* 1.5 of short_drift and drift_gap.
      drift |->
        (100 * (5 * Total(short) * Len(long) - 2 * Total(long) * Len(short)))
          \div (2 * Len(short) * Len(long) * ReturnScale),
      run_length |-> RunLength(returns),
      sign_persistence |-> SignPersistence(returns),
      variance_ratio |->
        Clamp(Ratio(Spread(short), Spread(long), VarianceFloor, short, long),
              0, 1000),
      return_clustering |->
        Clamp(Ratio(Deviation(short), Deviation(long), 0, short, long), 0, 400)
          \div 4,
      direction_concentration |-> DirectionConcentration(returns),
      shock_frequency |-> ShockFrequency(returns, long),
      outlier |-> IsOutlier(Last(returns), long),
      transition_instability |-> TransitionInstability(returns)]
-------------------------------------------------------------------------------
(* What is made of the features f. *)

DetectRegime(f) ==
  CASE f.variance_ratio > 160 \/ f.shock_frequency > 18 \/ f.outlier ->
         "Expansion"
    [] f.transition_instability > 42 \/ f.direction_concentration < 55
         \/ (f.variance_ratio > 115 /\ f.variance_ratio < 160) -> "Transitional"
    [] OTHER -> "Calm"

DirectionalBias(f) ==
  LET persistence == (f.sign_persistence * f.run_length) \div RunScale IN
  Clamp(f.drift + persistence * Signum(f.last_return)
          - (35 * f.transition_instability) \div 100, -100, 100)

ConfidenceScore(f) ==
  LET stability == Clamp(100 - f.transition_instability, 0, 100)
      variance == Clamp(Absolute(f.variance_ratio - 100) \div 2, 0, 100)
      clustering == Clamp(f.return_clustering, 0, 100)
  IN Clamp((45 * stability + 30 * variance + 25 * clustering) \div 100, 0, 100)

\* raw_prior.
RawPrior(f) ==
  LET bias == DirectionalBias(f)
      tilt == CASE DetectRegime(f) = "Calm" -> 50 * Signum(bias)
                [] DetectRegime(f) = "Transitional" -> bias
                [] OTHER -> (18 * bias) \div 10
  IN Clamp(500 + (bias * (1200 + 20 * ConfidenceScore(f))) \div 1000 + tilt,
           50, 950)

PushPrior(priors, prior) ==
  LET all == Append(priors, prior) IN
  IF Len(all) > MaxPriors THEN Latest(all, KeptPriors) ELSE all

\* current_prior.
CurrentPrior(priors) ==
  LET weights == [i \in 1..Len(priors) |-> PriorWeight[Len(priors) + 1 - i]]
      weighted == [i \in 1..Len(priors) |-> priors[i] * weights[i]]
  IN Clamp(Total(weighted) \div Total(weights), 0, 1000)
===============================================================================
