------------------------------- MODULE Signals -------------------------------
(***************************************************************************)
(* DecisionEngine::step as the live executor uses it: from a tick to the   *)
(* signal that a contract should be bought, and for how much. The executor *)
(* tells the engine what became of a signal. Whether the risk gate admits  *)
(* a trade is a choice here (RiskLimits has the gate). Stakes and balances *)
(* are in cents, probabilities in thousandths, logits in thousandths.      *)
(***************************************************************************)
EXTENDS Process

CONSTANTS
  Duration,     \* contract_duration
  LateWindow,   \* no contract this shortly before the window ends (10 s)
  MinPoints,    \* MIN_PROCESS_POINTS (48)
  MinReturns,   \* sample_size a decision needs (24)
  ModelLoaded,  \* whether there is an ONNX model
  ModelPrices,  \* prices the model needs (50)
  ModelOutputs, \* probabilities of the model or of the normal distribution
  Logit,        \* logit of a probability
  InvLogit,     \* probability of a logit
  Uncertainty,  \* margin of q_low at an even confidence, 0.02 * (1 - 0.55)
  MinStake,     \* min_stake
  MaxLoss,      \* KellyRisk.max_loss, half the initial balance
  Balances,     \* balances the broker reports
  Prices,       \* prices of ticks; a tick without a quote has price 0
  Gaps,         \* times from one tick to the next
  MaxTicks      \* bound: ticks

Probabilities == 0..1000
UncertainProbabilities == 1..999
Logits == -6999..6999
PushedLogits == -7100..7100

ASSUME WindowAssumption ==
  /\ Duration \in Nat \ {0} /\ LateWindow \in Nat
  /\ MinPoints \in Nat \ {0} /\ MinReturns \in Nat
ASSUME ModelAssumption ==
  /\ ModelLoaded \in BOOLEAN /\ ModelPrices \in Nat
  /\ ModelOutputs \subseteq Probabilities /\ 500 \in ModelOutputs
ASSUME StakeAssumption ==
  MinStake \in Nat \ {0} /\ MaxLoss \in Nat /\ Balances \subseteq Nat
\* The broker sends a symbol's ticks at different seconds.
ASSUME TickAssumption ==
  Prices \subseteq Nat /\ Gaps \subseteq Nat \ {0} /\ MaxTicks \in Nat
ASSUME UncertaintyAssumption == Uncertainty \in Nat

\* What a probability's logit says: its side of evens; and back.
ASSUME LogitAssumption ==
  \A p \in UncertainProbabilities : /\ Logit[p] \in Logits
                                    /\ p <= 500 => Logit[p] <= 0
                                    /\ p >= 500 => Logit[p] >= 0
ASSUME InvLogitAssumption ==
  \A x \in PushedLogits : /\ InvLogit[x] \in Probabilities
                          /\ x < 100 => InvLogit[x] < 535
                          /\ x > -100 => InvLogit[x] > 465

VARIABLES
  clock,           \* time of the last tick
  seen,            \* ticks so far, which alpha.prices keeps enough of
  history,         \* FeatureExtractor.prices; the last is current_price
  priors,          \* PriorEstimator.priors
  contract_start,  \* DecisionEngine.contract_start
  s0,              \* Settlement.s0
  last_trade_time, \* DecisionEngine.last_trade_time
  open_position,   \* whether lifecycle.open_position is Some
  balance,         \* risk_gate.balance
  context          \* what the last step returned

market == <<clock, seen, history, priors, contract_start, s0>>
trading == <<last_trade_time, open_position, balance>>
vars == <<market, trading, context>>

None == -1
NoContext == [contract |-> "NONE", decision |-> "none"]
DecisionContext ==
  [contract : {"CALL", "PUT", "NONE"}, decision : {"hold", "signal"},
   q_model : Probabilities, prior : Probabilities, q_final : Probabilities,
   stake : Nat]

TypeOK ==
  /\ clock \in Nat /\ seen \in Nat
  /\ history \in Seq(Prices) /\ Len(history) <= MaxHistory
  /\ priors \in Seq(Probabilities) /\ Len(priors) <= MaxPriors
  /\ contract_start \in Nat \cup {None}
  /\ s0 \in (Prices \ {0}) \cup {None}
  /\ last_trade_time \in Nat /\ open_position \in BOOLEAN
  /\ balance \in Balances
  /\ context \in DecisionContext \cup {NoContext}

\* Epochs are far beyond the duration of a contract.
FirstTime == Duration + 1

Init ==
  /\ clock = FirstTime /\ seen = 0 /\ history = <<>> /\ priors = <<>>
  /\ contract_start = None /\ s0 = None
  /\ last_trade_time = 0 /\ open_position = FALSE
  /\ balance \in Balances
  /\ context = NoContext
-------------------------------------------------------------------------------
(* From the prior to the stake. *)

\* calculate_q_model with time left: even without a move, on the side of the
\* move since s0, or what the model says.
QModels(opening, price) ==
  IF price = 0 THEN {500}
  ELSE IF ModelLoaded /\ seen + 1 >= ModelPrices THEN ModelOutputs
  ELSE {q \in ModelOutputs : /\ price >= opening => q >= 500
                             /\ price <= opening => q <= 500}

\* In hundredths.
ConfidenceMultiplier(f) == 85 + ConfidenceScore(f) \div 2

ModelWeight(multiplier) == 64 * multiplier
PriorShare == 3600

\* finalize_probability: the logits weighted, and a push that grows with the
\* confidence, always in the direction of a rise.
BlendedLogit(q_model, prior, multiplier) ==
  LET model == Logit[Clamp(q_model, 1, 999)]
      process == Logit[Clamp(prior, 1, 999)]
  IN (ModelWeight(multiplier) * model + PriorShare * process)
       \div (ModelWeight(multiplier) + PriorShare)

\* A mutant: confidence_bias is taken for 2.5.
StrongPush(multiplier) == 25 * (multiplier - 100)

ConfidencePush(multiplier) == (5 * (multiplier - 100)) \div 2

QFinal(q_model, prior, multiplier) ==
  InvLogit[BlendedLogit(q_model, prior, multiplier)
             + ConfidencePush(multiplier)]

QLow(q_final, multiplier) ==
  LET low == q_final - (100 * Uncertainty) \div multiplier IN
  IF low < 0 THEN 0 ELSE low

\* A mutant: a fall is sized by its own probability.
SizeEitherWay(q_low, bankroll) ==
  LET fraction == Clamp(Absolute(q_low - 500), 0, 150)
      size == (fraction * bankroll) \div 1000
  IN IF size < MinStake THEN 0 ELSE IF size < MaxLoss THEN size ELSE MaxLoss

\* KellyRisk.size at a price of evens: half of 2p - 1, at most 0.15.
Size(q_low, bankroll) ==
  LET fraction == Clamp(q_low - 500, 0, 150)
      share == (fraction * bankroll) \div 1000
      size == IF share < MaxLoss THEN share ELSE MaxLoss
  IN IF size < MinStake THEN 0 ELSE size

\* edge_threshold; the edge counts half in the transitional regime.
EdgeThreshold(regime) ==
  CASE regime = "Calm" -> 35 [] regime = "Transitional" -> 100 [] OTHER -> 65

\* build_decision.
Contract(f, q_final, time_left) ==
  LET regime == DetectRegime(f)
      edge == q_final - 500
  IN IF \/ time_left < LateWindow
        \/ f.sample_size < MinReturns
        \/ f.transition_instability > 78
        \/ Absolute(edge) < EdgeThreshold(regime)
        \/ regime = "Calm" /\ f.variance_ratio > 120
     THEN "NONE"
     ELSE IF edge > 0 THEN "CALL" ELSE "PUT"

\* What a step returns; admitted is the answer of can_trade.
Decision(f, prior, q_model, time, time_left, admitted) ==
  LET multiplier == ConfidenceMultiplier(f)
      q_final == QFinal(q_model, prior, multiplier)
      stake == Size(QLow(q_final, multiplier), balance)
      contract == Contract(f, q_final, time_left)
      signals == /\ contract # "NONE" /\ admitted /\ ~open_position
                 /\ time - last_trade_time > Duration
                 /\ stake >= MinStake
  IN [contract |-> contract, decision |-> IF signals THEN "signal" ELSE "hold",
      q_model |-> q_model, prior |-> prior, q_final |-> q_final,
      stake |-> stake]
-------------------------------------------------------------------------------
(* A tick at a time with a price. *)

Capture(price, otherwise) == IF price > 0 THEN price ELSE otherwise

IsOver(time) == contract_start # None /\ time - contract_start >= Duration

Sees(time, price) ==
  /\ seen < MaxTicks
  /\ clock' = time /\ seen' = seen + 1
  /\ history' = PushPrice(history, price)
  /\ UNCHANGED trading

\* The first window begins with the first tick.
Continues(time, price) ==
  /\ ~IsOver(time)
  /\ contract_start' = IF contract_start = None THEN time ELSE contract_start
  /\ s0' = IF contract_start = None THEN Capture(price, s0) ELSE s0

\* A mutant: the old opening price stays.
NextWindowKeepsOpening(time, price) ==
  /\ Sees(time, price) /\ IsOver(time)
  /\ contract_start' = time /\ s0' = s0
  /\ context' = NoContext
  /\ UNCHANGED priors

NextWindow(time, price) ==
  /\ Sees(time, price) /\ IsOver(time)
  /\ contract_start' = time /\ s0' = Capture(price, None)
  /\ context' = NoContext
  /\ UNCHANGED priors

IsReady(prices) == Len(prices) >= MinPoints /\ IsExtractable(prices)

Waits(time, price) ==
  /\ Sees(time, price) /\ Continues(time, price)
  /\ s0' = None \/ ~IsReady(history')
  /\ context' = NoContext
  /\ UNCHANGED priors

Decides(time, price) ==
  /\ Sees(time, price) /\ Continues(time, price)
  /\ s0' # None /\ IsReady(history')
  /\ \E f \in {Features(history')} :
       /\ priors' = PushPrior(priors, RawPrior(f))
       /\ \E prior \in {CurrentPrior(priors')}, q_model \in QModels(s0', price),
            admitted \in BOOLEAN :
            context' = Decision(f, prior, q_model, time,
                                Duration - (time - contract_start'), admitted)

Step(time, price) ==
  NextWindow(time, price) \/ Waits(time, price) \/ Decides(time, price)
-------------------------------------------------------------------------------
(* What the executor tells the engine. *)

\* The trade of a signal is open, once, before the next tick is read.
NotifyOpened ==
  /\ context.decision = "signal" /\ ~open_position /\ last_trade_time < clock
  /\ open_position' = TRUE /\ last_trade_time' = clock
  /\ UNCHANGED <<market, balance, context>>

NotifyClosed ==
  /\ open_position
  /\ open_position' = FALSE /\ balance' \in Balances
  /\ UNCHANGED <<market, last_trade_time, context>>

NotifyAborted ==
  /\ open_position
  /\ open_position' = FALSE /\ last_trade_time' = clock
  /\ UNCHANGED <<market, balance, context>>

NotifyBalance ==
  /\ balance' \in Balances
  /\ UNCHANGED <<market, last_trade_time, open_position, context>>

Next ==
  \/ \E gap \in Gaps, price \in Prices : Step(clock + gap, price)
  \/ NotifyOpened \/ NotifyClosed \/ NotifyAborted \/ NotifyBalance

Spec == Init /\ [][Next]_vars
-------------------------------------------------------------------------------
(* Properties. *)

\* No PUT is ever bought: build_decision asks for one when the belief in a
\* rise is below evens, and that belief is also what KellyRisk sizes the
\* stake of either direction by.
NoPutIsEntered == context.decision = "signal" => context.contract = "CALL"

\* A direction is never one that both the model and the prior speak against:
\* the push that finalize_probability adds with the confidence, always towards
\* a rise, stays below every threshold of build_decision.
DirectionIsBacked ==
  /\ context.contract = "CALL" => context.q_model > 500 \/ context.prior > 500
  /\ context.contract = "PUT" => context.q_model < 500 \/ context.prior < 500

\* A market that has not moved is no reason to buy: current_run_length has a
\* case for a return of 0, which is no run.
StillMarketIsQuiet ==
  (\A i \in 1..Len(history) : history[i] = s0) => context.decision # "signal"
-------------------------------------------------------------------------------
(* The inductive invariant. *)

\* The history holds the latest ticks, the window holds the last of them, and
\* the reference price is that of the window's first, if that had a price.
WindowIsCurrent ==
  /\ Len(history) = IF seen < MaxHistory THEN seen ELSE MaxHistory
  /\ (contract_start = None) = (seen = 0)
  /\ contract_start # None =>
       contract_start <= clock /\ clock - contract_start < Duration
  /\ s0 # None => contract_start # None
  /\ contract_start = clock => s0 = Capture(Last(history), None)

\* A signal has a direction, a reference price and a stake that the balance
\* at the start and the broker's minimum allow, and is of the last tick.
SignalIsSized ==
  context.decision = "signal" =>
    /\ context.contract # "NONE" /\ s0 # None
    /\ context.stake \in MinStake..MaxLoss

IInv ==
  /\ TypeOK
  /\ WindowIsCurrent
  /\ SignalIsSized
  /\ last_trade_time <= clock
  /\ NoPutIsEntered /\ DirectionIsBacked
===============================================================================
