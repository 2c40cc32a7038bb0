# A TLA+ model of the Deriv trading bot

This directory holds a verification development of the Rust crate in the
repository root (`src/`, three binaries: `recorder`, `research`, `executor`) and
of the older bot in the workspace crates beside it: TLA+ modules translated from
the code, TLC configurations that check them on small instances, and theorems
whose proofs TLAPS checks for every value of the constants. Paths below are
relative to the repository root.

Contents: [1 The system](#1-the-system) · [2 Modules](#2-modules) · [3 The live
executor](#3-the-live-executor) · [4 The connection](#4-the-connection) · [5 The
risk gate](#5-the-risk-gate) · [6 Replay](#6-replay) · [7 From tick to
signal](#7-from-tick-to-signal) · [8 The recorder](#8-the-recorder) · [9 The
older bot](#9-the-older-bot) · [10 What is proved](#10-what-is-proved) · [11
Where code and documentation
disagree](#11-where-code-and-documentation-disagree) · [12 Not
modelled](#12-not-modelled) · [13 Plan](#13-plan) · [14 Running
it](#14-running-it)

## 1 The system

The bot watches a price feed of the Deriv broker over a WebSocket, decides once
per tick whether a fixed-duration CALL or PUT contract has an edge, buys it,
watches it until it ends or sells it early, and records everything in SQLite.
`research` replays recorded ticks through the same decisions, `recorder`
records ticks.

| Component | Code | State | Operations | What makes it correct |
|---|---|---|---|---|
| Live executor loop | `src/app/executor.rs` | `pending_execution`, `db`, the select loop's place | tick, contract update, balance, poll, disconnect, persistence helpers | one trade at a time; engine and trader agree; every outcome is on record in the right row |
| Trader | `src/execution/trader.rs` | `active_trade` and its `TradeState` | `enter_trade` (proposal, buy, monitor), `handle_poc_update`, `sell_contract`, `abort`, `reset` | reacts only to its own contract; no failure path leaves it stuck |
| Decision engine | `src/app/decision_engine.rs` | `lifecycle`, `last_trade_time`, `contract_start` | `step`, `notify_live_*`, simulated settlement | no signal while a position is held; results applied once |
| Risk gate | `src/risk/limits.rs` | positions, day's result, losing streak, cooldown, balance | `can_trade`, `on_trade_opened/closed`, daily reset | limits hold for each UTC day |
| Router | `src/transport/router.rs` | `req_id_counter`, `pending_rpcs` | `send_rpc`, `send_fire`, `route_message`, `clear_pending` | an RPC gets its own answer; the table does not grow |
| Read and write tasks | `src/transport/ws_client.rs` | two bounded channels | `ws_read_loop`, `ws_write_loop` | order is kept; nobody waits for ever; a link that has ended is noticed |
| Research replay | `src/app/research.rs` | run id, rows | `replay`, `persist_*` | rows say what the engine did |
| Telemetry database | `src/observability/db.rs` | `decision_events`, `trade_intents`, `executed_trades`, `raw_ticks` | inserts, updates, lookups | (through its users) |
| Recorder | `src/app/recorder.rs` | connection | store ticks, prune | a stored tick stays for the retention time, old ones go |
| Market state and probability | `src/process`, `src/risk/alpha.rs`, `kelly.rs`, `settlement.rs` | price history, priors, reference price | features, regime, prior, blend, stake | a decision is of the current window; direction and stake agree |
| Protocol | `src/protocol` | none | building requests, sorting and reading answers | a number is read in every form the broker writes it |
| Ledger, metrics | `src/risk/ledger.rs`, `src/observability/metrics.rs` | cash, open stakes, counters | `on_buy`, `on_settle` | agrees with the broker |
| Telemetry server, configuration | `src/server.rs`, `src/config.rs` | none that outlives a message | | |
| Older bot | `deriv-bot`, `connectors`, `runtime`, `engines`, `bot_core` | two channels, window, estimator, pending proposals | round of the loop, dispatcher, contract manager | a window is judged by its own prices; silence ends the signals |

**How they interact.** The executor is one task. Its `tokio::select!` takes raw
messages from a channel filled by the read task and runs the handler to its
end; inside a tick's handler it awaits up to two RPCs (proposal, buy), inside a
contract update one (sell), each with a 10 s timeout, and handles nothing else
meanwhile. RPC answers do not go through that channel: the read task finds the
waiting oneshot by `req_id`. The engine never sees the trader: the executor
tells it of openings, results, aborts and balances (`notify_live_*`). A result
reaches the engine only if the three rows of the entry were written, because
`settle_trade` starts from `pending_execution`.

**What is hard about it.** A buy may be executed although its answer is late or
lost. A disconnect makes the executor forget a contract that goes on at the
broker. Every write to the database may fail by itself, and what is known only
in memory is lost in a crash. The risk gate is asked at the time of ticks and
told at the time of the machine. Channels are bounded, and the task that must
drain one may be waiting for the task that fills it. A replay returns early
from a step that has already changed the engine. Timers are made anew in every
turn of a `select!`. The probability of a rise serves both directions. Each such
hazard is listed, with the line where it bites, under `hazards` in `PROJECT.json`.

## 2 Modules

| Module | What it is | Extends / instantiates |
|---|---|---|
| `TradeAttempts` | what the executor promises about one opportunity after another (abstract) | |
| `LiveExecutor` | select loop, trader, engine's position view, rows, broker | implements `TradeAttempts` |
| `LiveExecutorProofs`, `LiveExecutorTheorems` | its theorems | `LiveExecutor`, TLAPS |
| `Router` | one connection: executor, write task, read task, pending table, broker | |
| `RouterProofs` | its theorems | `Router`, TLAPS |
| `RiskGate` | the methods of `RiskGate` as functions on a record | |
| `RiskLimits` | the gate in live use, several days, two clocks | `RiskGate` |
| `RiskLimitsProofs` | its theorems | `RiskLimits`, TLAPS |
| `Replay` | engine in replay mode, its rows, repeated replays | `RiskGate` |
| `ReplayProofs` | its theorems | `Replay`, TLAPS |
| `Process` | features, regime, bias, confidence and prior as functions of prices | |
| `Signals` | the engine from a tick to a sized signal, and what it is told | `Process` |
| `MCSignals` | tables for the logit and the weights of priors | `Signals` |
| `SignalsProofs` | its theorems | `Signals`, TLAPS |
| `Protocol` | requests, and `parse_response` on messages as functions of their fields | |
| `TickTape` | what a reader of recorded ticks relies on (abstract) | |
| `Recorder` | the recorder's loop, its table, its broker | `Protocol`; implements `TickTape` |
| `RecorderProofs` | its theorems | `Recorder`, TLAPS |
| `LegacyStrategies` | indicators, belief, stake and the eight strategies of the older bot | |
| `LegacyBot` | its loop, dispatcher, window and contract manager | `LegacyStrategies` |
| `LegacyBotProofs` | its theorems | `LegacyBot`, TLAPS |

Most constants are a number, a Boolean or a set of these, so the `.cfg` files
give them values directly; only the real-valued functions of `Signals` need an
MC module with tables. An operator with the parameters of the definition that
follows it, and a name that says what is wrong with it (`PauseForMilliseconds`,
`PruneEarly`, `LimitsOffByOne`), is a plausible bug: `PROJECT.json` lists for
each property one that TLC shows to violate it. The line-by-line correspondence
of definitions and code is `map` in `PROJECT.json`.

Components modelled apart meet in an assumption that one side makes and the
other checks. `LiveExecutor` treats a request as answered, refused, timed out or
cut off; `Router` shows that a request always ends so, with its own answer
(`RequestEnds`, `OwnAnswer`), and that updates come in order (`InOrder`), on
which the fairness of `ContractEnded` rests. `RiskLimits` and `Replay` share
the gate; `RiskLimits` has at most one trade entering or open, which
`LiveExecutor` shows (`KeepsTradeAttempts`). `LiveExecutor` and `Replay` take a
tick's signal for a choice, `Signals` takes the gate's answer for one and says
what a signal is. `Replay` takes recorded ticks in order, which is `TickTape`.

## 3 The live executor

**State.** `link`, `subscribed`: the connection and what it is subscribed to.
`pc`, `answer`: the request a handler awaits. `fsm`, `active`: the trader.
`position`, `openPositions`, `pauseLeft`: the engine's lifecycle, the gate's
position count, and what remains of `last_trade_time + contract_duration`.
`pending`, `hasDb`, `rows`: `pending_execution`, whether the database could be
opened, and the three rows of each opportunity. `orders`, `contract`,
`lifeLeft`: the broker. `dryRun` is the mode the process was started in.
`held` (contracts the engine of this process was told of) and `realized` are
history.

**Actions and code.** `Connect`, `Authorized`, `Disconnected`: the outer loop
and its end. `Signal` is a tick with a signal up to its first await (or, in a
dry run, to its end); `ProposalReceived`, `BuyReceived`, `BuyReceivedMonitorFails`,
`EntryRefused`, `EntryTimeout`, `EntryUnexpected` are what follows each await
of `enter_trade`, with all that the tick handler does then. `SellEarly`,
`SoldEarly`, `SaleFails`, `ContractEnded` are the contract update's handler.
The broker's actions and `Second` (time), `Drop` (the link breaks) and `Crash`
are the environment.

Opportunities are numbered, and a contract has its opportunity's number. Time
is spans in seconds, never dates: only the life of a contract and the engine's
pause are compared. Stakes and amounts are left out.

**Runs.**

| Run | Checks | Bounds |
|---|---|---|
| `live_core` | `GatingMatchesTrader`, `OneHeldContractAlive`, `UnwatchedIsOnRecord`, `PositionReleased`, `OpenRowIsClosed` | 3 opportunities, pause and life 2 s, no optional faults, under `FairSpec` |
| `live_faults` | `IInv`, `OpenTradeIsGated`, `SignalFindsIdleTrader`, `RealizedOnce`, `TradeRowLifecycle`, refinement of `TradeAttempts` | 2 opportunities, live or in `DRY_RUN`; database failures at every write, crashes, odd answers |
| `live_late_buy` | section 11 | 2 opportunities |

`IInv` contains the type invariant and `PendingIsOpenTrade`.

Every run has timeouts, refusals and lost connections. Two opportunities are
the fewest in which one can disturb the next; three let an old order or
contract survive a whole later trade. A pause and life of two seconds
distinguish "shorter", "equal" and "longer".

The two that took most thought: `OneHeldContractAlive`, no two contracts the
engine has held are alive together, even when a disconnect made it forget one,
is true only because an abort restarts the entry pause, and only while the
broker's contract does not outlive that pause. The code pauses
`contract_duration` *seconds*, whatever `DERIV_DURATION_UNIT` says, so for ticks
or minutes it is an assumption on the configuration. It is about contracts the
engine was told of. The trader may have learned of one more: when
`monitor_contract` fails, the answer to the buy has been read and the contract
stored (`trader.rs:165`-`173`), but its `?` makes the entry a failed one, the
engine hears nothing and begins no pause, and the next signal may buy beside
that contract (`BuyReceivedMonitorFails`), as it may beside one bought after a
timeout. For both there is only the record: `UnwatchedIsOnRecord`: when nothing
else fails, the rows of every contract that is alive and unwatched say
`execution_failed` or `aborted`, so an audit can find all of them.

**Fairness.** Weak fairness of `Disconnected` (a closed channel is returned by
`recv`; a link is `dead` when the read task has seen its end), `EntryTimeout`
and `SaleFails` (the 10 s timer of `send_rpc`) and `Second`. Strong fairness of
`ContractEnded`: an open contract is subscribed and also polled, and its final
update stays in the channel before anything later, but a failing sale can come
in between again and again. That a running link carries this update is thereby
assumed: the broker sends it, or the link is seen to break. A link that falls
silent without an error is outside what the two liveness properties say (section
11). No fairness is assumed of `Drop`, of the broker's answers or of the next
signal.

## 4 The connection

**State.** The executor reduced to what it does with the connection (`caller`,
`toSend`, `call`), the table (`nextId`, `pending`, `slot`: the oneshot), the
two channels with their tasks (`writeQ`, `writer`, `rawQ`, `reader`, `held`:
the message that waits for room), and link, wire and broker. `asks`, `ask`,
`no`, `last`, `sent` are history.

**Actions and code.** `Start` is `send_rpc` or `send_fire` up to the channel;
`PushWrite`, `PushFails`, `Answered`, `Timeout` its outcomes. `PushFails`
leaves the pending entry behind, as the `?` of `router.rs` does. `Read` is
`route_message`, `Push` the send into the raw channel with its back-pressure,
`ReaderEnds` an error or close frame. `Recv` takes a message and lets its
handler send up to `HandlerAsks` requests; `Disconnect` is the end of the
select loop and `clear_pending`.

**Run.** `router`: the inductive invariant (of which `PendingIsCall`, the bound
of the table, is a part), `OwnAnswer`, `InOrder`, and under fairness
`RequestEnds`, `ReaderUnblocks`, `DisconnectNoticed`. Four requests and four
messages, a raw channel of two and a write channel of one are enough for answers
that arrive after their timeout, after the next request or on a full channel,
and for a read task that blocks while the executor waits for an answer behind
the message it holds; the RPC timeout is what resolves that. The channels hold
2048 and 4096 messages in the code; what matters is that they are bounded and
can be full. TLC also checks for deadlock; the only state without another step
is the closed connection.

**Fairness.** Weak for each task's step that stays possible (the runtime polls
ready tasks; timers fire) and strong for `Recv` and `Disconnect`: `select!`
chooses at random among ready branches, and the poll timer may win any number
of times. The broker, the link and `ReaderEnds` are free: the read task has no
timeout of its own, so a socket that gives no error is never noticed.
`DisconnectNoticed` therefore starts where the read task has ended: from there
the executor leaves the connection, although it may be waiting for an answer
that can no longer come.

## 5 The risk gate

`RiskGate` has one function per method on a record of the struct's fields;
money is counted in whole units and a UTC day has `DayLength` units of time.
`RiskLimits` uses it as the live engine does: `Consult` is `step` up to
`can_trade` and the entry at the time the tick carries, `Closed` is
`notify_live_trade_closed` at the machine's time (followed by the balance the
executor passes), `Aborted` drops a result. The two times differ by at most
`MaxSkew`. Whether a consulted gate is followed by an entry is a choice, since
the signal, the stake and the pause are not the gate's. `dayPnl`, `streak`,
`lastLoss` are history, kept apart from the gate, so the properties are about
what really happened on a day.

`risk_one_clock` (`MaxSkew = 0`): two days, four entries, results across
midnight. `DailyLossBounded`: no day realizes more than its limit and one
trade. `DailyLossStopsEntries`, `StreakStopsEntries`, `CooldownKept`: what an
entry may rely on. With `MaxSkew = 1` the day's limits do not hold: one late
tick around midnight erases the day's losses (section 11). What does hold with
two clocks, and is proved for every `MaxSkew`, is what the gate knows itself:
between two of its resets it counts no more lost than its limit and one trade
(`CountedLossBounded`).

## 6 Replay

`Replay` follows `research replay --with-execution` tick by tick. `Rollover`
and `Waits` are the early returns of `step` (a window that ends; one that opened
without a price, or too few returns), `Hold` a decision without an
entry, `Enter` one with; each includes the settlement that comes first in
`step`, and `Hold` and `Enter` the writing that `persist_decision_bundle` does
(`PersistEntry`, `PersistSettlement`, `FindLatest`). `Rerun` may come at any
time: a replay cut short between two ticks and run again. Signals and their
direction are a choice at every tick; a stake is one unit, a win pays one.
Interruptions between two statements of one tick's bundle are left out, as are
replays without execution or persistence, which write no trade rows.

What a replay keeps depends on the recording. `Gaps` are the spans that may lie
between two ticks, and what is promised of recordings of a kind says so in a
condition on the ticks read so far. The invariants are three, each the one
before and more.

| Recording | Invariant | Adds | Promises |
|---|---|---|---|
| any | `AnyInv` | `GateFollowsTrade`, `TradesDoNotOverlap`, `RowOfTrade` | `EarlierReplaysKept` |
| ticks at most one unit apart (`NoHoles`) | `NoHolesInv` | `OpenInTime`, `ResultIsOwn` | `OpenTradeRowIsOpen` |
| ticks one unit apart, each with a price (`Complete`) | `IInv` | `Windows`, `TradeInWindow`, `RowsSettled` | `ClosedTradeIsSettled` |

A tick is repeated when the recorder reconnects, and a hole is left when it is
away. A feed with a tick every two seconds and a duration that is a multiple of
it is `OnePerUnit` in units of two seconds. A quote that is missing or is no
number is recorded as 0; a 0 is no reference price for a window and gives no
return to the next tick (`HasReference`, `ReturnsKept`). No condition is idle:
over a hole a result can go into another trade's row, and over a hole, a
repeated tick or a missing price one is lost (section 11).

`replay_recordings` has ticks none, one or two units apart, a duration of three,
two prices or none, a loss limit of one, so that the gate really refuses, and
two replays, the first cut short anywhere. Five ticks are enough for a trade
that is settled by the tick at its expiry, for one tick that settles a trade and
enters the next, for a window that ends on a trade's expiry, and for a replay
that is repeated over all of it. The sign of a result is the subject of
`replay_winners`. `Replay` lets a trade be a PUT, although `Signals` shows that
none is made: what it says of rows does not depend on the direction.

## 7 From tick to signal

`Process` and `Signals` are the arithmetic of the engine in integers: returns in
units of `1/ReturnScale`, ratios, bias and confidence in hundredths,
probabilities in thousandths, money in cents, each rounded down. The order of
the code's clamps, thresholds and early returns is kept, also where `f64` makes
it surprising: `signum` of zero is one (`Signum`). Returns that are not zero are
assumed to be above `MIN_RET_EPS`; where the code takes that number for the
least variance of the long window, it is `VarianceFloor` (`Ratio`). Outside
arithmetic there are three choices: the probability of the ONNX model, that of
the normal distribution, which is on the side of evens of the move since the
window opened (`QModels`), and whether the gate admits a trade. The logit and
its inverse are constants about which only the side of evens, the range, and how
far a logit of 0.1 leads from evens are assumed.

**State and actions.** `history`, `priors`, `contract_start`, `s0`,
`last_trade_time`, `open_position`, `balance` are the engine's fields. A tick
is `NextWindow` (the early return of `step` when a window ends), `Waits` (the
early returns without reference price or features) or `Decides`;
`NotifyOpened`, `NotifyClosed`, `NotifyAborted`, `NotifyBalance` are the
executor's calls. There is one clock; two are modelled where they matter
(`RiskLimits`).

**Runs.** `signals`: five ticks of prices 98, 99, 100, 102 or none, gaps that
stay in a window of five or skip it, a history of four, so that prices fall
out of it, and a prior store of two of which one is kept; the thresholds are
those of the code except for the lengths of samples. `NoPutIsEntered`,
`DirectionIsBacked`, `IInv` (the window and its reference price are those of
the ticks, stakes are within their limits). `signals_still` is section 11.
No fairness is needed: the engine does nothing by itself.

## 8 The recorder

**State.** `session` (where `run_recorder` is), `up`, `inbox`, `quiet` (how long
this `select!` has waited), `inserted` and `kept` (the table's rows, and which
are left), `dbUp`; `market` and `age` are the ticks there were and how long ago.
Times are ages, capped where no comparison tells them apart.

**Actions.** `Receive` is one message through `Parse` of `Protocol` to the end
of its arm; a failing statement ends the process. `Maintain` is the branch of
the 60 s sleep, made anew whenever a message comes. `LoseConnection` and
`Connect` are the outer loop, `Start` and `Crash` the life of the process. The
broker answers, refuses, streams, repeats the last tick to a new subscriber,
and writes a price as a number or as a text.

**Run.** `recorder`: one symbol, three ticks, three rows, an inbox of two, one
unit of retention and of quiet. This is enough for a tick to be stored, become
old, be pruned or not, be stored again after a reconnection, and wait in the
inbox while the database fails. `KeepsTape`: whatever is lost, pruned, killed
or failing, the ticks a reader finds are a tape that grows only at its end and
loses only expired ticks at its beginning (`TickTape`). `FreshTicksKept`: a
stored tick stays for at least the retention time. `QuietMinutesPrune`: a
recorder that stays connected and has a quiet minute again and again ends up
without old ticks. `IInv`: rows say what the market did, also when the price
came as a text.

**Fairness.** Weak of `Advance` (time), `Connect` (the endless retry succeeds),
`Receive` and `LoseConnection` (a ready branch is run); strong of `Maintain`,
because tokio polls the branches of a `select!` in random order, so of a ready
timer and a ready channel each is taken often enough. Quiet minutes are a
hypothesis: on a feed with a message every minute the code prunes nothing.

## 9 The older bot

`LegacyBot` is `deriv-bot/src/main.rs` with the dispatcher of `connectors` and
the contract manager of `runtime`. **State.** `tick_rx`, `event_rx`: the two
bounded channels, into which `Offer` (`try_send`) drops what finds no place.
`samples`, `s0`: the estimator. `start`, `last`: the window and the last signal.
`pending`, `spawned`, `next_req`: proposals. **Actions.** `Connect`,
`Authorize`, `AuthorizationTimeout`; one round of the loop is `Wake`,
`HandleEvent` until the events are done, `TakeTick` until the ticks are, then
`SkipRound`, `CaptureOpening` or `Evaluate`. `SendProposal` is the task that is
spawned for a request. The reading task ends in `Disconnect`, after which the
loop goes on with what it has, as nothing connects again.

What the broker sends is read as `deriv_ws.rs` reads it: a proposal whose
`req_id` is missing or no number has the id 0 (`Answers`), and a tick without a
quote the price 0, with which a round goes no further (`HasPrice`).

`LegacyStrategies` has all the strategies the selector can choose, on a book made
of a constant market probability. **Runs.** `legacy`: all eight strategies, dry
and live, two prices or none, two ticks, channels of one place, windows of one
unit and four points of time: a second window can open, ticks and answers get
lost, and a signal can come after the connection is gone.
`NumberedAnswersBuyNothing`: what is bought, if anything, is an answer without
an id, never the one that answers a request by its id. `OnlyRises`,
`OneSignalPerTick`, `OpeningIsOwn`, `IInv`, `AuthorizationEnds`.
`legacy_answered` is section 11. `IInv` includes
`OnePrice`: the book is made anew from the same two numbers in every round, so
the prices that a strategy keeps are all the same. **Fairness.**
Weak of time and of the authorization timeout (a poll every 100 ms).

## 10 What is proved

All theorems hold for every value of the constants that satisfies the named
`ASSUME`s and the hypothesis given.

| Theorem | Hypothesis | Says |
|---|---|---|
| `LiveExecutorProofs!Inductive`, `TypeCorrect` | none | `IInv`, `TypeOK` under every fault |
| `OpenTradeGated`, `SignalsFindIdle`, `PendingIsOpen`, `ResultsRealizedOnce` | none | the safety properties of `live_faults` |
| `LiveExecutorTheorems!OneHeldAlive` | `ContractLife <= Pause` | `OneHeldContractAlive` |
| `GatingMatches` | no database failures | `GatingMatchesTrader` |
| `UnwatchedOnRecord` | `Faults = {}` | `UnwatchedIsOnRecord` |
| `TradeRowsCloseOnce` | none | `TradeRowLifecycle` |
| `Implements` | none | `LiveExecutor` implements `TradeAttempts` |
| `RouterProofs!RouterInductive`, `TableIsBounded`, `AnswersAreOwn`, `MessagesInOrder` | none | `IInv`, `PendingIsCall`, `OwnAnswer`, `InOrder` |
| `RiskLimitsProofs!LimitsInductive`, `DailyLossIsBounded`, `LossStopsEntries`, `StreakEndsEntries`, `CooldownIsKept` | `MaxSkew = 0` | the properties of `risk_one_clock` |
| `TwoClocksInductive`, `CountedLossIsBounded` | none | `TwoClocksInv`, `CountedLossBounded`, however far the clocks are apart |
| `ReplayProofs!AnyRecording`, `TradesAreApart`, `EarlierRowsAreKept` | none | `AnyInv`, `TradesDoNotOverlap`, `EarlierReplaysKept` |
| `WithoutHoles`, `OpenTradesAreOpen`, `ResultsAreOwn` | none | `NoHolesInv`, `OpenTradeRowIsOpen`, `ResultIsOwn` |
| `ReplayInductive`, `ClosedTradesAreSettled` | none | `IInv`, `ClosedTradeIsSettled`, of recordings with missing prices too |
| `SignalsProofs!SignalsInductive`, `NoPutIsBought`, `DirectionsAreBacked` | none | the properties of `signals` |
| `RecorderProofs!RecorderInductive`, `FreshTicksStay` | none | `TruthInv`, `FreshTicksKept` |
| `OrderInductive`, `RecordsATape` | none | `IInv`; `Recorder` implements `TickTape` |
| `LegacyBotProofs!LegacyInductive`, `OnlyUnnumberedAnswersAreBought`, `SilenceEndsSignals`, `WindowsHaveTheirOpening`, `NoFallIsAsked` | none | the safety properties of `legacy` |

**The arguments.** *Executor.* That an open trade is the engine's position is
not inductive alone: one must know that the trade is always the latest
opportunity and that nothing is held or pending while an entry is under way
(`CallShape`, `EngineShape`), that an awaited order is the current one and an
unawaited one has no say (`OrderShape`), and that contracts exist only for
opportunities taken up (`ContractShape`). `OneHeldAlive` adds
`PauseOutlastsContract`: the life left of every contract once held is less than
the pause left. For `UnwatchedOnRecord`, a buy request must be accounted for
before it becomes a contract: one on its way that the executor no longer waits
for has its intent recorded as failed (`AuditShape`). The refinement maps each
opportunity to unused, trying, held or done; each handler is one abstract step
or a stutter. *Router.* Identifiers and requests are counted in step, so
whatever carries a call's identifier, on any queue, belongs to that call
(`IdsAreAsks`). What the select loop took last, the raw channel, the message the
read task holds and the wire continue one another (`InSequence`), which is why
none overtakes another. *Risk gate.* The gate's counters are those of its day
(`GateDay`, `GateCounts`), and while a trade is entering or open its day and the
later ones are still below their limit (`LossAhead`), so its loss goes at most
one stake beyond. With two clocks these histories are lost; but a reset only
makes room, so what an entry was allowed with still holds at its result
(`ConsentLasts`). *Replay.* Whatever was recorded, the row of an open trade is
the last of all, and trades of one replay are more than a duration apart, so the
lookup by entry time, newest first, finds it (`RowOfTrade`). Without holes the
tick that settles a trade is at its expiry exactly, and none is entered on it,
so its result goes to its own row (`OpenInTime`). Without repeated ticks a trade
is entered strictly inside a window, so the tick at its expiry never ends one
(`TradeInWindow`); and where no price is missing, every window has its reference
price (`Windows`) and, once past the warm-up, the features have their returns
(`FeaturesThere`), so that tick gives a decision and drops no result.
`FeatureAssumption` says of the two lengths what the code's numbers satisfy:
fewer returns are asked for than there are prices at the end of the warm-up, and
as many prices are kept. *Signals.* The blend of two logits is a weighted mean,
so on the side of evens where both are (`MeanBounds`, `BlendBounds`); the push
is less than a logit of 0.1, which leads less than 0.035 away from evens, the
lowest threshold (`FinalProbability`). A PUT has its belief below evens, and
there `Size` is zero (`NoStakeBelowEvens`). *Recorder.* Messages that wait say
what the market did, and reading one gives its number in either form
(`ParseTickMessage`). Rows, waiting ticks and market are in one order
(`TicksInOrder`): a subscription begins with the newest tick of its symbol, and
the inbox is first in, first out. What `load_ticks` reads is an enumeration of
the rows of a symbol in the order of their times, which the module takes with an
operator that chooses one; a section of lemmas shows that such an enumeration
exists, that there is one only, and what becomes of it when a later row is added
or the first ones go. So a new row is a new end of the tape, and pruning takes
away its beginning (`TapeStep`). *Older bot.* The only pending key is zero
(`PendingHasKeyZero`), so an answer with another id is not found; a signal
closes the window and only a tick opens one (`SilentAfterSignal`); the risk
engine's size is zero unless the lower belief is above evens (`RiseOrNothing`).
The stake of `MtfPlaybook` is its own, but over prices that are all the same its
averages are that price and its deviation is zero, so that no setup is met
(`MeanOfConstant`, `PlaybookIsSilent`).

Facts about sums, maxima and enumerations, which one would show by induction,
are shown here by a least counterexample: were the claim wrong for some n, there
were a least such n (`Least`, from the well-founded order of the naturals), and
it is neither zero nor the successor of a number for which the claim holds.

**Only model-checked:** the liveness properties `PositionReleased`,
`OpenRowIsClosed`, `RequestEnds`, `ReaderUnblocks`, `DisconnectNoticed`,
`QuietMinutesPrune` and `AuthorizationEnds`, since TLAPS has no support for the
fairness reasoning they need; and the runs that find a violation. Every safety
property that a passing run checks is also a theorem.

## 11 Where code and documentation disagree

Each is a run in which TLC finds the documented or intended statement violated.

| Run | Statement | What the code does |
|---|---|---|
| `live_late_buy` | `src/README.md:154`: `execution_failed`, "no trade opened" | a buy executed after its timeout has opened one |
| `replay_winners` | `simulated_pnl(…, entry_price, …)` | it is passed the previous tick's price |
| `legacy_answered` | `src/runtime/src/contract_manager.rs:52`: a proposal that is pending is bought | it is pending under the key zero, and the answer has the id of its request |
| `signals_still` | `src/src/process/mod.rs:307`: a return of sign zero is no run | `f64::signum` of zero is one; prices that never move give a CALL |

More follows from the models and has no run of its own.

*Executor.* An unexpected answer to a proposal or buy leaves an opportunity
without a `decision_events` row (`EntryUnexpected` changes no row). When a
contract's subscription cannot be written after its buy was answered, the trader
has known the contract for a moment; the attempt is recorded as
`execution_failed`, and a second contract may be bought at once
(`BuyReceivedMonitorFails`). A sale executed after its timeout is recorded as
`settled`, "settled naturally" (`src/README.md:159`). When the rows of an entry
could not be written, `settle_trade` tells the engine nothing and the position
stays, in spite of `src/README.md:213`, until a restart. After a restart nobody
closes the row of the trade that was open (`Crash` keeps `rows`). The 30 s ping
of `executor.rs:305` never fires, because a 1 s sleep stands beside it in the
same `select!`, and `ws_client.rs:165` reads without a timeout: a link that
falls silent without an error or a close frame is noticed only when the
operating system gives up on it, and a position held on it may stay until then.
After a settlement the gate's balance is the ledger's cash, which starts from
the configured balance, books an early exit without payout and loses the stake
of an aborted trade, whereas `src/README.md:212` promises the latest balance of
the broker; it is that until the next balance message.

*Gate.* A tick sent before midnight and handled after it erases the new day's
losses (`MaxSkew = 1`).

*Signals.* PUT contracts are never bought: `decision_engine.rs:284` sizes both
directions by the lower bound of the probability of a rise, and `kelly.rs:18`
gives no stake below evens. `NoPutIsEntered` states it as the code has it.

*Replay.* With a hole in the recording, one tick can settle a trade and enter
the next, and the old result is then also written into the new trade's row
(`PersistEntry`). Or a tick that settles a trade also ends the window, and
`step` returns `None` after it has closed the trade: the result is dropped and
the row stays open, in spite of `src/README.md:171` ("finishes as
`simulated_settled`"). That happens without a hole as well: of two ticks of one
time the second can enter a trade at the very start of a window, which then
expires with it. And in a window that opened on a tick without a price every
step returns `None` (`decision_engine.rs:269`): a trade that expires in it is
settled in the engine while its row stays open, even with a tick in every
unit. TLC shows each when the condition on the recording
is taken out of `ResultIsOwn` or `ClosedTradeIsSettled`. A
second replay of the same ticks adds its rows to the run of the first. A run's
id is taken from its first tick, so after pruning the same recording replays
under another id; and `load_ticks` with a limit returns the oldest ticks.

*Older bot.* It buys none of the proposals it asks for: `contract_manager.rs:128`
keeps every pending one under the key zero, which "will be updated when the
spawn completes" (line 132) and is not, while `handle_proposal_response` looks
for the id of the answer. An answer without a numeric `req_id` is read as zero
(`deriv_ws.rs:250`) and would be bought, whichever request it belongs to
(`NumberedAnswersBuyNothing`).

## 12 Not modelled

*Ledger and metrics*: the ledger's cash and the account cannot be related by an
order in either direction (late buys make the account poorer, late sales and
early exits richer than the ledger says), so there is no promise to check.
*Numeric parts*: the ten inputs of the ONNX model, its evaluation, the EWMA
(nothing reads it), the normal distribution, whose side of evens is what the
models use. *Text*: building and parsing JSON; `Protocol` begins at the fields
of an object. Reconnect backoff (an endless retry), graceful shutdown and the
subscription replay table (no caller). Database schema, migrations, run
metadata and the read-only reports. Telemetry publishing and its server, which
never feed back. Configuration. `strategy/mod.rs`, which no binary uses. Of the
older bot its ledger (an entry is made only after a purchase, and is only
logged), window tracker, table of symbols and the two strategies no bot can
choose. Dashboard and Python scripts.

## 13 Plan

Done, in this order because an error there costs most: live executor, its
abstract specification and proofs; connection; risk gate; replay; recorder and
tape; signals; the older bot.

1. `Replay` over a `TickTape` in place of `Gaps`: pruning between two replays.
2. The research report over the rows of `LiveExecutor` and `Replay`
   (`trade_outcome_summary` and its unknown statuses).
3. A common abstract trade lifecycle, refined by `Replay` as well.
4. Proofs: with two clocks, how many of a day's losses a late tick can hide.

## 14 Running it

    tlc -workers 2 -config Router.cfg Router
    tlc -workers 2 -config Signals.cfg MCSignals
    tlapm ReplayProofs.tla

Most runs take seconds; `router`, `replay_recordings` and `legacy` take up to a
minute, `live_core`, `recorder` and `signals` one to two minutes, and each proof
module a few minutes at most. Deadlock is checked in every run but those of
`Replay`, `Signals` and `LegacyBot`, whose ticks and requests come to an end.
