------------------------------ MODULE MCSignals ------------------------------
(***************************************************************************)
(* A small instance of Signals: the logits as a function on thousandths,   *)
(* drawn between the exact values at a few probabilities, and the weights  *)
(* of the last priors.                                                     *)
(***************************************************************************)
EXTENDS Signals

Probs == <<1, 50, 100, 200, 300, 400, 450, 500, 550, 600, 700, 800, 900, 950, 999>>
LogitsOfProbs == <<-6907, -2944, -2197, -1386, -847, -405, -201, 0, 201, 405, 847, 1386,
                   2197, 2944, 6907>>

\* The line through the two points of xs and ys around x.
Between(xs, ys, x) ==
  LET i == Max({k \in 1..(Len(xs) - 1) : xs[k] <= x}) IN
  ys[i] + ((x - xs[i]) * (ys[i + 1] - ys[i])) \div (xs[i + 1] - xs[i])

LogitTable == [p \in UncertainProbabilities |-> Between(Probs, LogitsOfProbs, p)]
InvLogitTable ==
  [x \in PushedLogits |->
     Between(LogitsOfProbs, Probs, Clamp(x, LogitsOfProbs[1], Last(LogitsOfProbs)))]

Weights == <<1000, 944, 891>>
===============================================================================
