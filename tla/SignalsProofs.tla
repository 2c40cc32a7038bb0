---------------------------- MODULE SignalsProofs ----------------------------
(***************************************************************************)
(* The inductive invariant of Signals holds for every market, window and   *)
(* balance, and whatever the features say: the proofs use of them only     *)
(* that a bias, a confidence and a prior are clamped. With it no PUT is    *)
(* bought, and no direction is signalled that model and prior both deny.   *)
(***************************************************************************)
EXTENDS Signals, SequenceTheorems, TLAPS
-------------------------------------------------------------------------------
(* Sequences of the latest elements. *)

\* Latest keeps at most n elements, and the newest is among them.
LEMMA LatestKeepsNewest ==
  ASSUME NEW S, NEW s \in Seq(S), NEW e \in S, NEW n \in Nat \ {0}
  PROVE  /\ Latest(Append(s, e), n) \in Seq(S)
         /\ Len(Latest(Append(s, e), n))
              = IF Len(s) + 1 <= n THEN Len(s) + 1 ELSE n
         /\ Last(Latest(Append(s, e), n)) = e
<1> DEFINE all == Append(s, e)
<1>1. all \in Seq(S) /\ Len(all) = Len(s) + 1 /\ all[Len(all)] = e
  BY AppendProperties
<1>2. CASE Len(all) <= n
  BY <1>1, <1>2 DEF Latest, Last
<1>3. CASE ~(Len(all) <= n)
  <2> DEFINE from == Len(all) - n + 1
  <2>1. from \in 1..Len(all)
    BY <1>1, <1>3
  <2>2. /\ SubSeq(all, from, Len(all)) \in Seq(S)
        /\ Len(SubSeq(all, from, Len(all))) = n
        /\ SubSeq(all, from, Len(all))[n] = all[from + n - 1]
    BY <1>1, <2>1, SubSeqProperties
  <2>3. Latest(all, n) = SubSeq(all, from, Len(all))
    BY <1>3 DEF Latest
  <2>4. from + n - 1 = Len(all) /\ Len(s) + 1 > n
    BY <1>1, <1>3
  <2> DEFINE kept == SubSeq(all, from, Len(all))
  <2>5. kept \in Seq(S) /\ Len(kept) = n /\ kept[Len(kept)] = e
    BY <1>1, <2>2, <2>4
  <2> HIDE DEF kept, all, from
  <2>6. Last(kept) = e
    BY <2>5 DEF Last
  <2>7. Latest(all, n) = kept
    BY <2>3 DEF kept
  <2> QED BY <2>4, <2>5, <2>6, <2>7 DEF all
<1> QED BY <1>2, <1>3

LEMMA HistoryKeepsNewest ==
  ASSUME NEW earlier \in Seq(Prices), NEW price \in Prices
  PROVE  /\ Latest(Append(earlier, price), MaxHistory) \in Seq(Prices)
         /\ Len(Latest(Append(earlier, price), MaxHistory))
              = IF Len(earlier) + 1 <= MaxHistory
                THEN Len(earlier) + 1 ELSE MaxHistory
         /\ Last(Latest(Append(earlier, price), MaxHistory)) = price
<1>1. MaxHistory \in Nat \ {0}
  BY HistoryAssumption
<1>2. Latest(Append(earlier, price), MaxHistory) \in Seq(Prices)
  BY <1>1, LatestKeepsNewest
<1>3. Len(Latest(Append(earlier, price), MaxHistory))
        = IF Len(earlier) + 1 <= MaxHistory THEN Len(earlier) + 1 ELSE MaxHistory
  BY <1>1, LatestKeepsNewest
<1>4. Last(Latest(Append(earlier, price), MaxHistory)) = price
  BY <1>1, LatestKeepsNewest DEF Last
<1> QED BY <1>2, <1>3, <1>4

\* The estimator keeps probabilities, and no more than its bound.
LEMMA PushPriorType ==
  ASSUME NEW f, priors \in Seq(Probabilities), Len(priors) <= MaxPriors
  PROVE  /\ PushPrior(priors, RawPrior(f)) \in Seq(Probabilities)
         /\ Len(PushPrior(priors, RawPrior(f))) <= MaxPriors
<1>1. RawPrior(f) \in Probabilities
  <2>1. \E x : RawPrior(f) = Clamp(x, 50, 950)
    BY DEF RawPrior
  <2>2. PICK x : RawPrior(f) = Clamp(x, 50, 950)
    BY <2>1
  <2>3. Clamp(x, 50, 950) \in 50..950
    BY DEF Clamp
  <2> QED BY <2>2, <2>3 DEF Probabilities
<1>2. KeptPriors \in Nat \ {0} /\ MaxPriors \in Nat \ {0} /\ KeptPriors <= MaxPriors
  BY PriorAssumption
<1>3. CASE Len(Append(priors, RawPrior(f))) > MaxPriors
  <2>1. PushPrior(priors, RawPrior(f))
          = Latest(Append(priors, RawPrior(f)), KeptPriors)
    BY <1>3 DEF PushPrior
  <2>2. Len(priors) \in Nat
    OBVIOUS
  <2> DEFINE kept == Latest(Append(priors, RawPrior(f)), KeptPriors)
  <2>3. /\ kept \in Seq(Probabilities)
        /\ Len(kept) = IF Len(priors) + 1 <= KeptPriors
                       THEN Len(priors) + 1 ELSE KeptPriors
    <3> DEFINE prior == RawPrior(f)
    <3>1. prior \in Probabilities /\ priors \in Seq(Probabilities)
      BY <1>1
    <3>2. KeptPriors \in Nat \ {0}
      BY <1>2
    <3> HIDE DEF prior
    <3>3. /\ Latest(Append(priors, prior), KeptPriors) \in Seq(Probabilities)
          /\ Len(Latest(Append(priors, prior), KeptPriors))
               = IF Len(priors) + 1 <= KeptPriors
                 THEN Len(priors) + 1 ELSE KeptPriors
      BY <3>1, <3>2, LatestKeepsNewest
    <3> QED BY <3>3 DEF prior
  <2> HIDE DEF kept
  <2>4. Len(kept) <= MaxPriors
    BY <1>2, <2>2, <2>3
  <2> QED BY <2>1, <2>3, <2>4 DEF kept
<1>4. CASE ~(Len(Append(priors, RawPrior(f))) > MaxPriors)
  <2>1. PushPrior(priors, RawPrior(f)) = Append(priors, RawPrior(f))
    BY <1>4 DEF PushPrior
  <2>2. Append(priors, RawPrior(f)) \in Seq(Probabilities)
    BY <1>1, AppendProperties
  <2>3. Len(Append(priors, RawPrior(f))) \in Nat
    BY <2>2
  <2> QED BY <1>2, <1>4, <2>1, <2>2, <2>3
<1> QED BY <1>3, <1>4

\* The smoothed prior is a probability.
LEMMA CurrentPriorType ==
  ASSUME NEW earlier
  PROVE  CurrentPrior(earlier) \in Probabilities
<1>1. \E x : CurrentPrior(earlier) = Clamp(x, 0, 1000)
  BY Zenon DEF CurrentPrior
<1>2. PICK x : CurrentPrior(earlier) = Clamp(x, 0, 1000)
  BY <1>1
<1>3. Clamp(x, 0, 1000) \in 0..1000
  BY DEF Clamp
<1> QED BY <1>2, <1>3 DEF Probabilities
-------------------------------------------------------------------------------
(* Probabilities. *)

LEMMA MultiplierBounds ==
  ASSUME NEW f
  PROVE  ConfidenceMultiplier(f) \in 85..135
<1>1. \E x : ConfidenceScore(f) = Clamp(x, 0, 100)
  BY Zenon DEF ConfidenceScore
<1>2. PICK x : ConfidenceScore(f) = Clamp(x, 0, 100)
  BY <1>1
<1>3. Clamp(x, 0, 100) \in 0..100
  BY DEF Clamp
<1> QED BY <1>2, <1>3 DEF ConfidenceMultiplier

LEMMA DivBounds ==
  ASSUME NEW n \in Int, NEW d \in Nat \ {0}, NEW low \in Int, NEW high \in Int,
         low * d <= n, n <= high * d
  PROVE  n \div d \in low..high
<1> DEFINE q == n \div d
<1>1. q \in Int /\ d * q <= n /\ n < d * q + d
  BY SMT
<1> HIDE DEF q
<1>2. ~(q < low)
  <2> SUFFICES ASSUME q < low PROVE FALSE
    OBVIOUS
  <2>1. q + 1 <= low
    BY <1>1
  <2>2. (q + 1) * d <= low * d
    BY <1>1, <2>1, SMT
  <2> QED BY <1>1, <2>2, SMT
<1>3. ~(q > high)
  <2> SUFFICES ASSUME q > high PROVE FALSE
    OBVIOUS
  <2>1. (high + 1) * d <= q * d
    BY <1>1, SMT
  <2> QED BY <1>1, <2>1, SMT
<1>4. q \in low..high
  BY <1>1, <1>2, <1>3
<1> QED BY <1>4 DEF q

\* A weighted mean of two numbers between two bounds is between them.
LEMMA MeanBounds ==
  ASSUME NEW a \in Nat \ {0}, NEW b \in Nat \ {0},
         NEW low \in Int, NEW high \in Int,
         NEW x \in low..high, NEW y \in low..high
  PROVE  (a * x + b * y) \div (a + b) \in low..high
<1>1. low * (a + b) <= a * x + b * y
  <2>1. a * low <= a * x /\ b * low <= b * y
    BY SMT
  <2> QED BY <2>1, SMT
<1>2. a * x + b * y <= high * (a + b)
  <2>1. a * x <= a * high /\ b * y <= b * high
    BY SMT
  <2> QED BY <2>1, SMT
<1>3. a * x + b * y \in Int /\ a + b \in Nat \ {0}
  BY SMT
<1> QED BY <1>1, <1>2, <1>3, DivBounds

\* The logit of the blend is on the side of evens that the model and the prior
\* are on, and within the logits of single probabilities.
LEMMA BlendBounds ==
  ASSUME NEW q \in Probabilities, NEW p \in Probabilities, NEW m \in 85..135
  PROVE  /\ BlendedLogit(q, p, m) \in Logits
         /\ q <= 500 /\ p <= 500 => BlendedLogit(q, p, m) <= 0
         /\ q >= 500 /\ p >= 500 => BlendedLogit(q, p, m) >= 0
<1> DEFINE x == Logit[Clamp(q, 1, 999)]
           y == Logit[Clamp(p, 1, 999)]
           a == ModelWeight(m)
<1>1. /\ Clamp(q, 1, 999) \in UncertainProbabilities
      /\ Clamp(p, 1, 999) \in UncertainProbabilities
  BY DEF Clamp, UncertainProbabilities
<1>2. /\ q <= 500 => Clamp(q, 1, 999) <= 500
      /\ q >= 500 => Clamp(q, 1, 999) >= 500
      /\ p <= 500 => Clamp(p, 1, 999) <= 500
      /\ p >= 500 => Clamp(p, 1, 999) >= 500
  BY DEF Clamp, Probabilities
<1>3. x \in Logits /\ y \in Logits
  BY <1>1, LogitAssumption
<1>4. /\ q <= 500 => x <= 0
      /\ q >= 500 => x >= 0
      /\ p <= 500 => y <= 0
      /\ p >= 500 => y >= 0
  BY <1>1, <1>2, LogitAssumption
<1>5. a \in Nat \ {0} /\ PriorShare \in Nat \ {0}
  BY DEF ModelWeight, PriorShare
<1>6. BlendedLogit(q, p, m) = (a * x + PriorShare * y) \div (a + PriorShare)
  BY DEF BlendedLogit
<1> DEFINE lowest == -6999
           highest == 6999
<1>7. /\ lowest \in Int /\ highest \in Int /\ lowest <= 0 /\ 0 <= highest
      /\ Logits = lowest..highest
  BY DEF Logits
<1> HIDE DEF x, y, a, lowest, highest
<1>8. (a * x + PriorShare * y) \div (a + PriorShare) \in Logits
  <2>1. x \in lowest..highest /\ y \in lowest..highest
    BY <1>3, <1>7
  <2> QED BY <1>5, <1>7, <2>1, MeanBounds
<1>9. ASSUME q <= 500, p <= 500
      PROVE  (a * x + PriorShare * y) \div (a + PriorShare) <= 0
  <2>1. x \in lowest..0 /\ y \in lowest..0
    BY <1>3, <1>4, <1>7, <1>9
  <2>2. (a * x + PriorShare * y) \div (a + PriorShare) \in lowest..0
    BY <1>5, <1>7, <2>1, MeanBounds
  <2> QED BY <2>2, <1>7
<1>10. ASSUME q >= 500, p >= 500
       PROVE  (a * x + PriorShare * y) \div (a + PriorShare) >= 0
  <2>1. x \in 0..highest /\ y \in 0..highest
    BY <1>3, <1>4, <1>7, <1>10
  <2>2. (a * x + PriorShare * y) \div (a + PriorShare) \in 0..highest
    BY <1>5, <1>7, <2>1, MeanBounds
  <2> QED BY <2>2, <1>7
<1> QED BY <1>6, <1>8, <1>9, <1>10

\* The push alone, in either direction, is far below a threshold.
LEMMA FinalProbability ==
  ASSUME NEW q \in Probabilities, NEW p \in Probabilities, NEW m \in 85..135
  PROVE  /\ QFinal(q, p, m) \in Probabilities
         /\ q <= 500 /\ p <= 500 => QFinal(q, p, m) < 535
         /\ q >= 500 /\ p >= 500 => QFinal(q, p, m) > 465
<1> DEFINE blend == BlendedLogit(q, p, m)
           x == blend + ConfidencePush(m)
<1>1. ConfidencePush(m) \in -38..87
  BY DEF ConfidencePush
<1>2. /\ blend \in Logits
      /\ q <= 500 /\ p <= 500 => blend <= 0
      /\ q >= 500 /\ p >= 500 => blend >= 0
  BY BlendBounds
<1> HIDE DEF blend
<1>3. x \in PushedLogits
  <2>1. blend \in Int /\ -6999 <= blend /\ blend <= 6999
    BY <1>2 DEF Logits
  <2> DEFINE lowest == -7100
             highest == 7100
  <2>2. /\ lowest \in Int /\ highest \in Int
        /\ PushedLogits = lowest..highest
    BY DEF PushedLogits
  <2>3. x \in Int /\ lowest <= x /\ x <= highest
    BY <1>1, <2>1
  <2> HIDE DEF x, lowest, highest
  <2> QED BY <2>2, <2>3
<1>4. /\ q <= 500 /\ p <= 500 => x < 100
      /\ q >= 500 /\ p >= 500 => x > -100
  BY <1>1, <1>2 DEF Logits
<1>5. QFinal(q, p, m) = InvLogit[x]
  BY DEF QFinal, blend
<1> HIDE DEF x
<1> QED BY <1>3, <1>4, <1>5, InvLogitAssumption

\* Below evens the lower belief is below evens too, and nothing is staked.
LEMMA NoStakeBelowEvens ==
  ASSUME NEW q \in Probabilities, q < 500, NEW m \in 85..135,
         NEW bankroll \in Nat
  PROVE  Size(QLow(q, m), bankroll) = 0
<1>1. QLow(q, m) \in Int /\ QLow(q, m) < 500
  <2>1. (100 * Uncertainty) \div m \in Nat
    BY UncertaintyAssumption
  <2> QED BY <2>1 DEF QLow, Probabilities
<1>2. Clamp(QLow(q, m) - 500, 0, 150) = 0
  BY <1>1 DEF Clamp
<1>3. (0 * bankroll) \div 1000 = 0
  BY SMT
<1> QED BY <1>2, <1>3, StakeAssumption DEF Size

\* A stake is none, or what the broker and the loss limit allow.
LEMMA StakeBounds ==
  ASSUME NEW q_low, NEW bankroll \in Nat
  PROVE  Size(q_low, bankroll) \in {0} \cup MinStake..MaxLoss
<1>1. Clamp(q_low - 500, 0, 150) \in 0..150
  BY DEF Clamp
<1> DEFINE share == (Clamp(q_low - 500, 0, 150) * bankroll) \div 1000
<1>2. share \in Nat
  BY <1>1, SMT
<1> HIDE DEF share
<1>3. Size(q_low, bankroll) =
        LET size == IF share < MaxLoss THEN share ELSE MaxLoss IN
        IF size < MinStake THEN 0 ELSE size
  BY DEF Size, share
<1> QED BY <1>2, <1>3, StakeAssumption
-------------------------------------------------------------------------------
(* What a step returns. *)

\* The direction is that of the edge, which is at least the threshold.
LEMMA DirectionOfEdge ==
  ASSUME NEW f, NEW q \in Probabilities, NEW time_left
  PROVE  /\ Contract(f, q, time_left) \in {"CALL", "PUT", "NONE"}
         /\ Contract(f, q, time_left) = "CALL" => q >= 535
         /\ Contract(f, q, time_left) = "PUT" => q <= 465
<1>1. EdgeThreshold(DetectRegime(f)) \in {35, 65, 100}
  BY DEF EdgeThreshold
<1> HIDE DEF Probabilities
<1>2. q \in Nat
  BY DEF Probabilities
<1> DEFINE c == Contract(f, q, time_left)
<1>3. c \in {"CALL", "PUT", "NONE"}
  BY DEF Contract
<1>4. c # "NONE" => ~(Absolute(q - 500) < EdgeThreshold(DetectRegime(f)))
  BY DEF Contract
<1>5. c = "CALL" => q - 500 > 0
  BY DEF Contract
<1>6. c = "PUT" => ~(q - 500 > 0)
  BY DEF Contract
<1> HIDE DEF c
<1>7. (c = "CALL" => q >= 535) /\ (c = "PUT" => q <= 465)
  BY <1>1, <1>2, <1>4, <1>5, <1>6 DEF Absolute
<1> QED BY <1>3, <1>7 DEF c

\* A decision is well formed, is sized and backed, and buys no PUT.
LEMMA DecisionIsSound ==
  ASSUME NEW f, NEW p \in Probabilities, NEW q \in Probabilities, NEW time,
         NEW time_left, NEW admitted \in BOOLEAN, balance \in Nat
  PROVE  LET d == Decision(f, p, q, time, time_left, admitted) IN
         /\ d \in DecisionContext
         /\ d.decision = "signal" => /\ d.contract = "CALL"
                                     /\ d.stake \in MinStake..MaxLoss
         /\ d.contract = "CALL" => d.q_model > 500 \/ d.prior > 500
         /\ d.contract = "PUT" => d.q_model < 500 \/ d.prior < 500
<1> DEFINE m == ConfidenceMultiplier(f)
           final == QFinal(q, p, m)
           stake == Size(QLow(final, m), balance)
           c == Contract(f, final, time_left)
           signals == /\ c # "NONE" /\ admitted /\ ~open_position
                      /\ time - last_trade_time > Duration
                      /\ stake >= MinStake
           d == Decision(f, p, q, time, time_left, admitted)
<1>1. d = [contract |-> c, decision |-> IF signals THEN "signal" ELSE "hold",
           q_model |-> q, prior |-> p, q_final |-> final, stake |-> stake]
  BY DEF Decision
<1>2. m \in 85..135
  BY MultiplierBounds
<1> HIDE DEF m
<1>3. /\ final \in Probabilities
      /\ q <= 500 /\ p <= 500 => final < 535
      /\ q >= 500 /\ p >= 500 => final > 465
  BY <1>2, FinalProbability
<1> HIDE DEF final
<1>4. stake \in {0} \cup MinStake..MaxLoss /\ (final < 500 => stake = 0)
  BY <1>2, <1>3, StakeBounds, NoStakeBelowEvens
<1> HIDE DEF stake
<1>5. /\ c \in {"CALL", "PUT", "NONE"}
      /\ c = "CALL" => final >= 535
      /\ c = "PUT" => final <= 465
  BY <1>3, DirectionOfEdge
<1> HIDE DEF c
<1>6. stake \in Nat /\ final \in Nat /\ p \in Nat /\ q \in Nat
  BY <1>3, <1>4, StakeAssumption DEF Probabilities
<1>7. signals => c = "CALL" /\ stake \in MinStake..MaxLoss
  BY <1>4, <1>5, <1>6, StakeAssumption
<1>8. /\ c = "CALL" => q > 500 \/ p > 500
      /\ c = "PUT" => q < 500 \/ p < 500
  BY <1>3, <1>5, <1>6
<1> HIDE DEF signals, d
<1>9. d \in DecisionContext
  BY <1>1, <1>3, <1>5, <1>6 DEF DecisionContext
<1>10. /\ d.contract = c /\ d.stake = stake /\ d.q_model = q /\ d.prior = p
       /\ d.decision = "signal" => signals
  BY <1>1
<1>11. /\ d.decision = "signal" => d.contract = "CALL" /\ d.stake \in MinStake..MaxLoss
       /\ d.contract = "CALL" => d.q_model > 500 \/ d.prior > 500
       /\ d.contract = "PUT" => d.q_model < 500 \/ d.prior < 500
  BY <1>7, <1>8, <1>10
<1> QED BY <1>9, <1>11 DEF d
-------------------------------------------------------------------------------
(* The inductive invariant. *)

LEMMA InitHolds == Init => IInv
<1> SUFFICES ASSUME Init PROVE IInv
  OBVIOUS
<1>1. FirstTime \in Nat /\ FirstTime > 0
  BY WindowAssumption DEF FirstTime
<1>2. TypeOK
  <2>1. <<>> \in Seq(Prices) /\ <<>> \in Seq(Probabilities) /\ Len(<<>>) = 0
    OBVIOUS
  <2>2. history \in Seq(Prices) /\ Len(history) <= MaxHistory
    BY <2>1, HistoryAssumption DEF Init
  <2>3. priors \in Seq(Probabilities) /\ Len(priors) <= MaxPriors
    BY <2>1, PriorAssumption DEF Init
  <2> QED BY <1>1, <2>2, <2>3 DEF Init, TypeOK
<1>3. WindowIsCurrent
  BY <1>1, HistoryAssumption DEF Init, WindowIsCurrent, None
<1>4. SignalIsSized /\ NoPutIsEntered /\ DirectionIsBacked
  BY DEF Init, NoContext, SignalIsSized, NoPutIsEntered, DirectionIsBacked
<1>5. last_trade_time <= clock
  BY <1>1 DEF Init
<1> QED BY <1>2, <1>3, <1>4, <1>5 DEF IInv

\* What every tick does to the history and to what the engine was told.
LEMMA TickIsSeen ==
  ASSUME IInv, NEW gap \in Gaps, NEW price \in Prices, Sees(clock + gap, price)
  PROVE  /\ clock' \in Nat /\ clock' = clock + gap /\ clock' > clock
         /\ seen' \in Nat /\ seen' = seen + 1
         /\ history' \in Seq(Prices)
         /\ Len(history') = IF seen' < MaxHistory THEN seen' ELSE MaxHistory
         /\ Last(history') = price
         /\ last_trade_time' \in Nat /\ last_trade_time' <= clock'
         /\ open_position' \in BOOLEAN /\ balance' \in Balances
<1>1. /\ clock \in Nat /\ seen \in Nat /\ history \in Seq(Prices)
      /\ last_trade_time \in Nat /\ last_trade_time <= clock
      /\ open_position \in BOOLEAN /\ balance \in Balances
      /\ Len(history) = IF seen < MaxHistory THEN seen ELSE MaxHistory
  BY DEF IInv, TypeOK, WindowIsCurrent
<1>2. gap \in Nat \ {0}
  BY TickAssumption
<1>3. /\ clock' = clock + gap /\ seen' = seen + 1
      /\ history' = Latest(Append(history, price), MaxHistory)
      /\ last_trade_time' = last_trade_time
      /\ open_position' = open_position /\ balance' = balance
  BY DEF Sees, PushPrice, trading
<1>4. /\ history' \in Seq(Prices)
      /\ Len(history') = IF Len(history) + 1 <= MaxHistory
                         THEN Len(history) + 1 ELSE MaxHistory
      /\ Last(history') = price
  BY <1>1, <1>3, HistoryKeepsNewest
<1>5. Len(history') = IF seen' < MaxHistory THEN seen' ELSE MaxHistory
  BY <1>1, <1>3, <1>4, HistoryAssumption
<1> QED BY <1>1, <1>2, <1>3, <1>4, <1>5

\* A tick within a window, or the first of all, keeps the window.
LEMMA WindowContinues ==
  ASSUME IInv, NEW gap \in Gaps, NEW price \in Prices,
         Sees(clock + gap, price), Continues(clock + gap, price)
  PROVE  /\ WindowIsCurrent'
         /\ contract_start' \in Nat /\ s0' \in (Prices \ {0}) \cup {None}
<1>1. /\ clock \in Nat /\ seen \in Nat
      /\ contract_start \in Nat \cup {None}
      /\ s0 \in (Prices \ {0}) \cup {None}
      /\ (contract_start = None) = (seen = 0)
      /\ contract_start # None => contract_start <= clock
      /\ s0 # None => contract_start # None
  BY DEF IInv, TypeOK, WindowIsCurrent
<1>2. /\ clock' \in Nat /\ clock' = clock + gap /\ clock' > clock
      /\ seen' \in Nat /\ seen' = seen + 1
      /\ Len(history') = IF seen' < MaxHistory THEN seen' ELSE MaxHistory
      /\ Last(history') = price
  BY TickIsSeen
<1>3. price \in Nat /\ Prices \subseteq Nat
  BY TickAssumption
<1>4. CASE contract_start = None
  <2>1. contract_start' = clock' /\ s0' = Capture(price, None)
    BY <1>1, <1>2, <1>4 DEF Continues
  <2>2. s0' \in (Prices \ {0}) \cup {None}
    BY <1>3, <2>1 DEF Capture
  <2>3. contract_start' # None /\ seen' # 0
    BY <1>1, <1>2, <2>1 DEF None
  <2> QED
    BY <1>2, <2>1, <2>2, <2>3, WindowAssumption DEF WindowIsCurrent
<1>5. CASE contract_start # None
  <2>1. contract_start' = contract_start /\ s0' = s0
    BY <1>5 DEF Continues
  <2>2. clock' - contract_start < Duration
    BY <1>1, <1>2, <1>5, WindowAssumption DEF Continues, IsOver
  <2>3. contract_start' # None /\ seen' # 0 /\ contract_start' < clock'
    BY <1>1, <1>2, <1>5, <2>1
  <2> QED
    BY <1>1, <1>2, <1>5, <2>1, <2>2, <2>3 DEF WindowIsCurrent
<1> QED BY <1>4, <1>5

LEMMA NoContextIsSound ==
  ASSUME context' = NoContext
  PROVE  SignalIsSized' /\ NoPutIsEntered' /\ DirectionIsBacked'
BY DEF NoContext, SignalIsSized, NoPutIsEntered, DirectionIsBacked

LEMMA WindowEnds ==
  ASSUME IInv, NEW gap \in Gaps, NEW price \in Prices,
         NextWindow(clock + gap, price)
  PROVE  IInv'
<1>1. /\ clock' \in Nat /\ clock' = clock + gap /\ clock' > clock
      /\ seen' \in Nat /\ seen' = seen + 1
      /\ history' \in Seq(Prices)
      /\ Len(history') = IF seen' < MaxHistory THEN seen' ELSE MaxHistory
      /\ Last(history') = price
      /\ last_trade_time' \in Nat /\ last_trade_time' <= clock'
      /\ open_position' \in BOOLEAN /\ balance' \in Balances
  BY TickIsSeen DEF NextWindow
<1>2. /\ contract_start' = clock' /\ s0' = Capture(price, None)
      /\ priors' = priors /\ context' = NoContext
  BY <1>1 DEF NextWindow
<1>3. s0' \in (Prices \ {0}) \cup {None}
  BY <1>2, TickAssumption DEF Capture
<1>4. TypeOK'
  BY <1>1, <1>2, <1>3, HistoryAssumption DEF IInv, TypeOK
<1>5. WindowIsCurrent'
  <2>1. contract_start' # None /\ seen' # 0
    BY <1>1, <1>2 DEF None, IInv, TypeOK
  <2> QED BY <1>1, <1>2, <2>1, WindowAssumption DEF WindowIsCurrent
<1> QED BY <1>1, <1>2, <1>4, <1>5, NoContextIsSound DEF IInv

LEMMA NothingIsDecided ==
  ASSUME IInv, NEW gap \in Gaps, NEW price \in Prices,
         Waits(clock + gap, price)
  PROVE  IInv'
<1>1. /\ clock' \in Nat /\ seen' \in Nat /\ history' \in Seq(Prices)
      /\ Len(history') = IF seen' < MaxHistory THEN seen' ELSE MaxHistory
      /\ last_trade_time' \in Nat /\ last_trade_time' <= clock'
      /\ open_position' \in BOOLEAN /\ balance' \in Balances
  BY TickIsSeen DEF Waits
<1>2. priors' = priors /\ context' = NoContext
  BY DEF Waits
<1>3. /\ WindowIsCurrent'
      /\ contract_start' \in Nat /\ s0' \in (Prices \ {0}) \cup {None}
  BY WindowContinues DEF Waits
<1>4. TypeOK'
  BY <1>1, <1>2, <1>3, HistoryAssumption DEF IInv, TypeOK
<1> QED BY <1>1, <1>2, <1>3, <1>4, NoContextIsSound DEF IInv

LEMMA TickIsDecided ==
  ASSUME IInv, NEW gap \in Gaps, NEW price \in Prices,
         Decides(clock + gap, price)
  PROVE  IInv'
<1>1. /\ clock' \in Nat /\ seen' \in Nat /\ history' \in Seq(Prices)
      /\ Len(history') = IF seen' < MaxHistory THEN seen' ELSE MaxHistory
      /\ last_trade_time' \in Nat /\ last_trade_time' <= clock'
      /\ open_position' \in BOOLEAN /\ balance' \in Balances
  BY TickIsSeen DEF Decides
<1>2. /\ WindowIsCurrent'
      /\ contract_start' \in Nat /\ s0' \in (Prices \ {0}) \cup {None}
  BY WindowContinues DEF Decides
<1>3. s0' # None
  BY DEF Decides
<1> DEFINE time == clock + gap
<1>4. PICK f \in {Features(history')} :
        /\ priors' = PushPrior(priors, RawPrior(f))
        /\ \E p \in {CurrentPrior(priors')}, q \in QModels(s0', price),
              admitted \in BOOLEAN :
              context' = Decision(f, p, q, time,
                                  Duration - (time - contract_start'), admitted)
  <2>1. Decides(time, price)
    OBVIOUS
  <2> HIDE DEF time
  <2> QED BY <2>1 DEF Decides
<1>5. priors' \in Seq(Probabilities) /\ Len(priors') <= MaxPriors
  BY <1>4, PushPriorType DEF IInv, TypeOK
<1>6. PICK p \in {CurrentPrior(priors')}, q \in QModels(s0', price),
           admitted \in BOOLEAN :
         context' = Decision(f, p, q, time,
                             Duration - (time - contract_start'), admitted)
  BY <1>4
<1> HIDE DEF time
<1>7. p \in Probabilities
  <2>1. CurrentPrior(priors') \in Probabilities
    BY CurrentPriorType
  <2> QED BY <1>6, <2>1
<1>8. q \in Probabilities
  <2>1. 500 \in Probabilities
    BY DEF Probabilities
  <2> QED BY <1>6, <2>1, ModelAssumption DEF QModels
<1>9. balance \in Nat
  BY StakeAssumption DEF IInv, TypeOK
<1>10. /\ context' \in DecisionContext
       /\ context'.decision = "signal" =>
            context'.contract = "CALL" /\ context'.stake \in MinStake..MaxLoss
       /\ context'.contract = "CALL" =>
            context'.q_model > 500 \/ context'.prior > 500
       /\ context'.contract = "PUT" =>
            context'.q_model < 500 \/ context'.prior < 500
  BY <1>6, <1>7, <1>8, <1>9, DecisionIsSound
<1>11. TypeOK'
  BY <1>1, <1>2, <1>5, <1>10, HistoryAssumption DEF TypeOK
<1>12. SignalIsSized' /\ NoPutIsEntered' /\ DirectionIsBacked'
  BY <1>3, <1>10 DEF SignalIsSized, NoPutIsEntered, DirectionIsBacked
<1> QED BY <1>1, <1>2, <1>11, <1>12 DEF IInv

\* What the executor tells changes neither the market nor the last decision.
LEMMA ToldOnly ==
  ASSUME IInv, UNCHANGED <<market, context>>,
         last_trade_time' \in {last_trade_time, clock},
         open_position' \in BOOLEAN, balance' \in Balances
  PROVE  IInv'
<1>1. /\ clock' = clock /\ seen' = seen /\ history' = history
      /\ priors' = priors /\ contract_start' = contract_start /\ s0' = s0
      /\ context' = context
  BY DEF market
<1>2. clock \in Nat /\ last_trade_time \in Nat /\ last_trade_time <= clock
  BY DEF IInv, TypeOK
<1>3. last_trade_time' \in Nat /\ last_trade_time' <= clock'
  BY <1>1, <1>2
<1>4. TypeOK'
  BY <1>1, <1>3 DEF IInv, TypeOK
<1>5. WindowIsCurrent' /\ SignalIsSized' /\ NoPutIsEntered' /\ DirectionIsBacked'
  BY <1>1 DEF IInv, WindowIsCurrent, SignalIsSized, NoPutIsEntered,
              DirectionIsBacked
<1> QED BY <1>3, <1>4, <1>5 DEF IInv

LEMMA NextHolds == IInv /\ [Next]_vars => IInv'
<1> SUFFICES ASSUME IInv, [Next]_vars PROVE IInv'
  OBVIOUS
<1>1. /\ open_position \in BOOLEAN /\ balance \in Balances
  BY DEF IInv, TypeOK
<1>2. ASSUME NEW gap \in Gaps, NEW price \in Prices, Step(clock + gap, price)
      PROVE  IInv'
  BY <1>2, WindowEnds, NothingIsDecided, TickIsDecided DEF Step
<1>3. CASE NotifyOpened
  BY <1>1, <1>3, ToldOnly DEF NotifyOpened
<1>4. CASE NotifyClosed
  BY <1>1, <1>4, ToldOnly DEF NotifyClosed
<1>5. CASE NotifyAborted
  BY <1>1, <1>5, ToldOnly DEF NotifyAborted
<1>6. CASE NotifyBalance
  BY <1>1, <1>6, ToldOnly DEF NotifyBalance
<1>7. CASE UNCHANGED vars
  BY <1>1, <1>7, ToldOnly DEF vars, trading
<1> QED BY <1>2, <1>3, <1>4, <1>5, <1>6, <1>7 DEF Next

\* The window is current, decisions are well formed, sized and backed, and the
\* features' history is bounded, whatever the market does (decision_engine.rs).
THEOREM SignalsInductive == Spec => []IInv
<1>1. Init => IInv
  BY InitHolds
<1>2. IInv /\ [Next]_vars => IInv'
  BY NextHolds
<1> QED BY <1>1, <1>2, PTL DEF Spec

\* No PUT is ever bought, on any market, balance or model: build_decision and
\* KellyRisk read the same probability of a rise.
THEOREM NoPutIsBought == Spec => []NoPutIsEntered
<1>1. IInv => NoPutIsEntered
  BY DEF IInv
<1> QED BY <1>1, SignalsInductive, PTL

\* No direction is asked for that model and prior both speak against, whatever
\* the confidence: finalize_probability's push stays below every threshold.
THEOREM DirectionsAreBacked == Spec => []DirectionIsBacked
<1>1. IInv => DirectionIsBacked
  BY DEF IInv
<1> QED BY <1>1, SignalsInductive, PTL
===============================================================================
