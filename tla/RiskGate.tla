------------------------------- MODULE RiskGate -------------------------------
(***************************************************************************)
(* The risk gate of risk/limits.rs as functions on a record: what each     *)
(* method returns or leaves behind. Money is counted in whole units and    *)
(* time in units of which a UTC day has DayLength.                         *)
(***************************************************************************)
EXTENDS Integers

CONSTANTS
  DayLength,            \* time units of a UTC day
  MaxOpenPositions,     \* max_open_positions
  MaxLossPerDay,        \* max_loss_per_day
  CooldownAfterLoss,    \* cooldown_after_loss_ms
  MaxConsecutiveLosses, \* max_consecutive_losses
  InitialBalance,       \* initial_balance
  MinBalance            \* min_balance, 5 % of it

ASSUME DayAssumption == DayLength \in Nat \ {0}
ASSUME RiskAssumption ==
  /\ MaxOpenPositions \in Nat /\ MaxLossPerDay \in Nat
  /\ CooldownAfterLoss \in Nat /\ MaxConsecutiveLosses \in Nat
  /\ InitialBalance \in Int /\ MinBalance \in Int

\* daily_reset_day before the first refresh; last_loss_time = None.
Never == -1

Gate ==
  [open    : Nat,              \* open_positions
   pnl     : Int,              \* daily_pnl
   losses  : Nat,              \* consecutive_losses
   lossAt  : Nat \cup {Never}, \* last_loss_time
   day     : Nat \cup {Never}, \* daily_reset_day
   balance : Int]              \* balance

NewGate == [open |-> 0, pnl |-> 0, losses |-> 0, lossAt |-> Never,
            day |-> Never, balance |-> InitialBalance]

UtcDay(now) == now \div DayLength

ResetWithoutStreak(g) ==
  [open |-> g.open, pnl |-> 0, losses |-> g.losses, lossAt |-> Never,
   day |-> g.day, balance |-> g.balance]

ResetDaily(g) ==
  [open |-> g.open, pnl |-> 0, losses |-> 0, lossAt |-> Never,
   day |-> g.day, balance |-> g.balance]

\* Another day than the one the counters are of, also an earlier one.
RefreshForTime(g, now) ==
  IF g.day = UtcDay(now) THEN g
  ELSE [ResetDaily(g) EXCEPT !.day = UtcDay(now)]

LimitsWithoutLoss(g, now) ==
  /\ g.open < MaxOpenPositions
  /\ g.losses < MaxConsecutiveLosses
  /\ g.balance >= MinBalance

LimitsOffByOne(g, now) ==
  /\ g.open < MaxOpenPositions
  /\ -g.pnl < MaxLossPerDay
  /\ g.lossAt = Never \/ now - g.lossAt >= CooldownAfterLoss
  /\ g.losses <= MaxConsecutiveLosses
  /\ g.balance >= MinBalance

LimitsShortCooldown(g, now) ==
  /\ g.open < MaxOpenPositions
  /\ -g.pnl < MaxLossPerDay
  /\ g.lossAt = Never \/ now - g.lossAt >= CooldownAfterLoss - 1
  /\ g.losses < MaxConsecutiveLosses
  /\ g.balance >= MinBalance

\* The limits can_trade checks after its refresh.
WithinLimits(g, now) ==
  /\ g.open < MaxOpenPositions
  /\ -g.pnl < MaxLossPerDay
  /\ g.lossAt = Never \/ now - g.lossAt >= CooldownAfterLoss
  /\ g.losses < MaxConsecutiveLosses
  /\ g.balance >= MinBalance

CanTrade(g, now) == WithinLimits(RefreshForTime(g, now), now)

OnTradeOpened(g) == [g EXCEPT !.open = @ + 1]

\* saturating_sub, here and where the engine aborts a trade.
OnePositionLess(g) == [g EXCEPT !.open = IF @ > 0 THEN @ - 1 ELSE 0]

\* A result on a gate whose position is released and whose day is today's.
Realize(g, pnl, now) ==
  [open    |-> g.open,
   pnl     |-> g.pnl + pnl,
   losses  |-> IF pnl < 0 THEN g.losses + 1 ELSE 0,
   lossAt  |-> IF pnl < 0 THEN now ELSE g.lossAt,
   day     |-> g.day,
   balance |-> g.balance + pnl]

ClosedWithoutRefresh(g, pnl, now) == Realize(OnePositionLess(g), pnl, now)

OnTradeClosed(g, pnl, now) ==
  Realize(OnePositionLess(RefreshForTime(g, now)), pnl, now)

UpdateBalance(g, b) == [g EXCEPT !.balance = b]
===============================================================================
