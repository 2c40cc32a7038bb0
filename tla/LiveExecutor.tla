----------------------------- MODULE LiveExecutor -----------------------------
(***************************************************************************)
(* The live executor: the select loop of app/executor.rs, the trade state  *)
(* machine it drives (execution/trader.rs), the position and risk view it  *)
(* keeps in step inside the decision engine (app/decision_engine.rs), the  *)
(* rows it writes for each opportunity, and the broker on the other side   *)
(* of a connection that may break at any time.                             *)
(*                                                                         *)
(* The executor is one task: between two awaits its steps are atomic. It   *)
(* awaits inside a handler only the answer to a proposal, buy or sell      *)
(* request; meanwhile it handles no other message. An opportunity (a tick  *)
(* on which the engine says "signal") is a number; the broker's contract   *)
(* for it, if any, has the same number. Time counts seconds left to run,   *)
(* never dates, and only for the two spans that meet: the life of a        *)
(* contract and the engine's pause between entries.                        *)
(***************************************************************************)
EXTENDS Integers, FiniteSets

CONSTANTS
  MaxAttempts,       \* bound: opportunities the engine may signal
  MaxOpenPositions,  \* max_open_positions of the configuration
  Pause,             \* contract_duration as the engine's entry pause, in s
  ContractLife,      \* life the broker gives a contract, in s
  Modes,             \* whether it may be started with DRY_RUN
  Faults             \* the faults that may happen, see FaultKinds

FaultKinds ==
  { "telemetry",     \* opening the database, an insert or an update fails
    "crash",         \* the process dies and is started again
    "odd_answer" }   \* the broker answers with another kind of message

ASSUME AttemptsAssumption == MaxAttempts \in Nat
ASSUME LimitAssumption == MaxOpenPositions \in Nat \ {0}
ASSUME SpanAssumption == Pause \in Nat /\ ContractLife \in Nat \ {0}
ASSUME ModesAssumption == Modes \subseteq BOOLEAN
ASSUME FaultsAssumption == Faults \subseteq FaultKinds

VARIABLES
  link,          \* the connection: "down", "open", "running" or "dead"
  pc,            \* "select", or the kind of request whose answer is awaited
  answer,        \* the broker's answer to that request, "none" before it
  fsm,           \* the TradeState of Trader.active_trade, "Idle" without one
  active,        \* the opportunity of that trade
  position,      \* LifecycleMode::LiveSynchronized.open_position, None or its
                 \*   opportunity
  openPositions, \* RiskGate.open_positions
  pauseLeft,     \* seconds until now - last_trade_time > contract_duration
  attempt,       \* opportunities signalled so far
  pending,       \* pending_execution: None or its opportunity
  hasDb,         \* db.is_some()
  dryRun,        \* DRY_RUN, the same after a restart
  rows,          \* the decision, intent and trade rows of each opportunity
  orders,        \* buy and sell requests on their way to the broker
  contract,      \* the broker's contract for each opportunity
  lifeLeft,      \* seconds until that contract expires
  subscribed,    \* contracts whose updates this connection receives
  held,          \* history: contracts the engine of this process was told of
                 \*   (notify_live_trade_opened), forgotten since or not
  realized       \* history: how often a result was applied to the RiskGate

connectionVars == <<link, subscribed>>
callVars       == <<pc, answer>>
traderVars     == <<fsm, active>>
engineVars     == <<position, openPositions, pauseLeft, realized>>
telemetryVars  == <<pending, hasDb, dryRun, rows>>
brokerVars     == <<contract, lifeLeft>>

vars == <<connectionVars, callVars, traderVars, engineVars, attempt,
          telemetryVars, orders, brokerVars, held>>

None == 0

Attempts == 1..MaxAttempts

NoRows == [decision |-> FALSE, intent |-> "none", trade |-> "none"]

Order(op, a) == [op |-> op, id |-> a, awaited |-> TRUE]

-------------------------------------------------------------------------------
(* Types *)

TradeStates == {"Idle", "Pricing", "Submitted", "Open"}

IntentStatuses ==
  {"none", "rejected", "submitted", "execution_failed", "executed",
   "dry_run_executed"}

ExecutedTradeStatuses ==
  {"none", "open", "settled", "closed_early", "aborted", "dry_run_open",
   "dry_run_settled"}

Rows == [decision : BOOLEAN, intent : IntentStatuses,
         trade : ExecutedTradeStatuses]

Orders == [op : {"buy", "sell"}, id : Attempts, awaited : BOOLEAN]

TypeOK ==
  /\ link \in {"down", "open", "running", "dead"}
  /\ pc \in {"select", "proposal", "buy", "sell"}
  /\ answer \in {"none", "ok", "error", "other"}
  /\ fsm \in TradeStates
  /\ active \in 0..MaxAttempts
  /\ position \in 0..MaxAttempts
  /\ openPositions \in Nat
  /\ pauseLeft \in 0..Pause + 1
  /\ attempt \in 0..MaxAttempts
  /\ pending \in 0..MaxAttempts
  /\ hasDb \in BOOLEAN /\ dryRun \in Modes
  /\ rows \in [Attempts -> Rows]
  /\ orders \subseteq Orders
  /\ contract \in [Attempts -> {"none", "live", "sold", "expired"}]
  /\ lifeLeft \in [Attempts -> 0..ContractLife]
  /\ subscribed \subseteq Attempts
  /\ held \subseteq Attempts
  /\ realized \in [Attempts -> Nat]

-------------------------------------------------------------------------------
(* Telemetry: what may have been written when the code goes on *)

\* TelemetryDb::new at start; without it the executor runs on with db = None.
DbAtStart == IF "telemetry" \in Faults THEN BOOLEAN ELSE {TRUE}

\* How many of k inserts succeed: the first that fails returns with `?`.
Inserts(k) ==
  IF ~hasDb THEN {0} ELSE IF "telemetry" \in Faults THEN 0..k ELSE {k}

\* Results of an update whose error is thrown away (`let _ =`).
Updates == IF "telemetry" \in Faults THEN BOOLEAN ELSE {TRUE}

\* The rows of an opportunity after n inserts: decision, intent, trade.
Written(n, intent, tradeStatus) ==
  [ decision |-> n >= 1,
    intent   |-> IF n >= 2 THEN intent ELSE "none",
    trade    |-> IF n >= 3 THEN tradeStatus ELSE "none" ]

\* update_trade_intent_status and update_executed_trade_lifecycle.
UpdateRows(a, intent, tradeStatus) ==
  \E intentOk, tradeOk \in Updates :
    rows' = [rows EXCEPT
      ![a].intent = IF intentOk THEN intent ELSE @,
      ![a].trade  = IF tradeOk THEN tradeStatus ELSE @]

-------------------------------------------------------------------------------
(* The engine's view of the position *)

SignalsWhileHeld == openPositions <= MaxOpenPositions /\ pauseLeft = 0

\* The part of DecisionEngine::step that depends on the trades made: whether
\* an actionable contract becomes a "signal".
EngineSignals ==
  /\ openPositions < MaxOpenPositions
  /\ position = None
  /\ pauseLeft = 0

PauseForMilliseconds == 1

\* (now - last_trade_time) <= contract_duration * 1000 refuses.
PauseFromNow == Pause + 1

\* notify_live_trade_opened
EngineOpened(a) ==
  /\ position' = a
  /\ openPositions' = IF position = None THEN openPositions + 1
                                         ELSE openPositions
  /\ pauseLeft' = PauseFromNow
  /\ UNCHANGED realized

ReleaseKeepsCount == position' = None /\ UNCHANGED openPositions

\* open_position.take() with saturating_sub
EngineReleases ==
  /\ position' = None
  /\ openPositions' = IF position # None /\ openPositions > 0
                      THEN openPositions - 1 ELSE openPositions

\* notify_live_trade_closed
EngineClosed ==
  /\ EngineReleases
  /\ realized' = IF position = None THEN realized
                 ELSE [realized EXCEPT ![position] = @ + 1]
  /\ UNCHANGED pauseLeft

AbortedWithoutRelease ==
  /\ pauseLeft' = PauseFromNow
  /\ UNCHANGED <<position, openPositions, realized>>

\* notify_live_trade_aborted
EngineAborted ==
  /\ EngineReleases
  /\ pauseLeft' = PauseFromNow
  /\ UNCHANGED realized

-------------------------------------------------------------------------------
(* Initial state: the process has started and is about to connect *)

Init ==
  /\ link = "down" /\ subscribed = {}
  /\ pc = "select" /\ answer = "none"
  /\ fsm = "Idle" /\ active = None
  /\ position = None /\ openPositions = 0 /\ pauseLeft = 0
  /\ realized = [a \in Attempts |-> 0]
  /\ attempt = 0
  /\ pending = None /\ hasDb \in DbAtStart /\ dryRun \in Modes
  /\ rows = [a \in Attempts |-> NoRows]
  /\ orders = {}
  /\ contract = [a \in Attempts |-> "none"]
  /\ lifeLeft = [a \in Attempts |-> 0]
  /\ held = {}

-------------------------------------------------------------------------------
(* Connection *)

\* Trader::reset
Reset == fsm' = "Idle" /\ active' = None

\* One round of the outer loop up to the select loop: a new socket, Router and
\* Trader, and the authorize request.
Connect ==
  /\ pc = "select" /\ link = "down"
  /\ link' = "open"
  /\ Reset
  /\ UNCHANGED <<subscribed, callVars, engineVars, attempt, telemetryVars,
                 orders, brokerVars, held>>

\* The authorize answer is handled: ticks and balance are subscribed to. After
\* an error answer the loop stays as it is.
Authorized ==
  /\ pc = "select" /\ link = "open"
  /\ link' = "running"
  /\ UNCHANGED <<subscribed, callVars, traderVars, engineVars, attempt,
                 telemetryVars, orders, brokerVars, held>>

\* The connection breaks and the read loop sees it: an error or a close frame.
\* What it had queued for the executor can still be handled. (Of a link that
\* falls silent without either nothing is noticed: it stays "running".)
Drop ==
  /\ link \in {"open", "running"}
  /\ link' = "dead"
  /\ UNCHANGED <<subscribed, callVars, traderVars, engineVars, attempt,
                 telemetryVars, orders, brokerVars, held>>

\* raw_msg_rx.recv() returns None: the open trade, if any, is given up.
Disconnected ==
  /\ pc = "select" /\ link = "dead"
  /\ link' = "down"
  /\ subscribed' = {}
  /\ IF fsm # "Idle"
     THEN /\ EngineAborted
          /\ Reset
          /\ pending' = IF hasDb THEN None ELSE pending
          /\ IF hasDb /\ pending # None
             THEN UpdateRows(pending, "executed", "aborted")
             ELSE UNCHANGED rows
     ELSE UNCHANGED <<traderVars, engineVars, pending, rows>>
  /\ UNCHANGED <<callVars, attempt, hasDb, dryRun, orders, brokerVars, held>>

-------------------------------------------------------------------------------
(* Entry: the tick handler and the two requests it awaits *)

Listening == pc = "select" /\ link \in {"running", "dead"}

Ask(op) == pc' = op /\ answer' = "none"

Answered == pc' = "select" /\ answer' = "none"

\* persist_live_rejected_intent
RejectIntent(a) ==
  /\ \E n \in Inserts(2) : rows' = [rows EXCEPT ![a] = Written(n, "rejected", "none")]
  /\ UNCHANGED <<callVars, traderVars, engineVars, pending>>

\* enter_trade up to its first await
StartPricing(a) ==
  /\ fsm' = "Pricing" /\ active' = a
  /\ Ask("proposal")
  /\ UNCHANGED <<engineVars, pending, rows>>

\* With DRY_RUN the trade is opened, recorded, settled with no result and
\* reset in one go. settle_trade does nothing when the rows were not recorded.
DryRunTrade(a) ==
  /\ pauseLeft' = PauseFromNow
  /\ \E n \in Inserts(3), intentOk, tradeOk \in Updates :
       IF n = 3
       THEN /\ rows' = [rows EXCEPT ![a] =
                 Written(3, "dry_run_executed",
                         IF tradeOk THEN "dry_run_settled" ELSE "dry_run_open")]
            /\ realized' = [realized EXCEPT ![a] = @ + 1]
            /\ UNCHANGED <<position, openPositions>>
       ELSE /\ rows' = [rows EXCEPT ![a] = Written(n, "dry_run_executed", "none")]
            /\ position' = a
            /\ openPositions' = openPositions + 1
            /\ UNCHANGED realized
  /\ pending' = None
  /\ UNCHANGED <<callVars, traderVars>>

\* A tick on which the engine signals. Other ticks change nothing kept here.
Signal ==
  /\ Listening
  /\ attempt < MaxAttempts
  /\ EngineSignals
  /\ attempt' = attempt + 1
  /\ IF fsm # "Idle" THEN RejectIntent(attempt + 1)
     ELSE IF dryRun THEN DryRunTrade(attempt + 1)
     ELSE StartPricing(attempt + 1)
  /\ UNCHANGED <<connectionVars, hasDb, dryRun, orders, brokerVars, held>>

\* The Err arm of the tick handler: mark_live_execution_failed and reset. The
\* engine hears nothing.
FailEntry ==
  /\ \E n \in Inserts(2) :
       rows' = [rows EXCEPT ![active] = Written(n, "execution_failed", "none")]
  /\ Reset
  /\ Answered
  /\ UNCHANGED <<connectionVars, engineVars, attempt, pending, hasDb, dryRun,
                 brokerVars, held>>

Entering == pc \in {"proposal", "buy"}

EntryRefused ==
  /\ Entering /\ answer = "error"
  /\ FailEntry
  /\ UNCHANGED orders

\* An answer that comes after the timeout finds nobody waiting for it.
Unawaited == {[o EXCEPT !.awaited = FALSE] : o \in orders}

\* send_rpc gives up: timeout, or the writer is gone.
EntryTimeout ==
  /\ Entering
  /\ FailEntry
  /\ orders' = Unawaited

\* An answer of another kind: enter_trade returns Ok on an aborted trade.
EntryUnexpected ==
  /\ Entering /\ answer = "other"
  /\ Reset
  /\ Answered
  /\ UNCHANGED <<connectionVars, engineVars, attempt, telemetryVars, orders,
                 brokerVars, held>>

\* The proposal is accepted and bought.
ProposalReceived ==
  /\ pc = "proposal" /\ answer = "ok"
  /\ fsm' = "Submitted" /\ UNCHANGED active
  /\ orders' = orders \union {Order("buy", active)}
  /\ Ask("buy")
  /\ UNCHANGED <<connectionVars, engineVars, attempt, telemetryVars,
                 brokerVars, held>>

\* buy_proposal succeeds: the trade is open, the engine is told, the rows are
\* inserted.
OpenTrade(a) ==
  /\ fsm' = "Open" /\ UNCHANGED active
  /\ EngineOpened(a)
  /\ \E n \in Inserts(3) :
       /\ rows' = [rows EXCEPT ![a] = Written(n, "submitted", "open")]
       /\ pending' = IF ~hasDb THEN pending ELSE IF n = 3 THEN a ELSE None
  /\ held' = held \union {a}
  /\ subscribed' = IF link = "running" THEN subscribed \union {a} ELSE subscribed
  /\ Answered
  /\ UNCHANGED <<link, attempt, hasDb, dryRun, orders, brokerVars>>

BuyReceived ==
  /\ pc = "buy" /\ answer = "ok"
  /\ OpenTrade(active)

\* The same answer, but the subscription to the contract cannot be written: the
\* trade knows its contract for a moment, then monitor_contract's `?` makes the
\* entry a failed one. The engine is never told and begins no pause.
BuyReceivedMonitorFails ==
  /\ pc = "buy" /\ answer = "ok" /\ link = "dead"
  /\ FailEntry
  /\ UNCHANGED orders

-------------------------------------------------------------------------------
(* Exit: contract updates, early sale, settlement *)

TracksAny(a) == fsm = "Open"

TracksSubmitted(a) == fsm = "Submitted" /\ active = a

\* handle_poc_update acts only on the open trade's own contract.
Tracks(a) == fsm = "Open" /\ active = a

\* settle_trade: nothing happens without a pending execution.
SettleTrade(tradeStatus) ==
  IF pending = None
  THEN UNCHANGED <<engineVars, pending, rows>>
  ELSE /\ EngineClosed
       /\ UpdateRows(pending, "executed", tradeStatus)
       /\ pending' = None

\* An update with a loss beyond the threshold on a contract that can be sold.
\* It may be handled after the contract has ended.
SellEarly(a) ==
  /\ Listening /\ a \in subscribed /\ Tracks(a)
  /\ orders' = orders \union {Order("sell", a)}
  /\ Ask("sell")
  /\ UNCHANGED <<connectionVars, traderVars, engineVars, attempt, telemetryVars,
                 brokerVars, held>>

\* An update that says the contract is sold or expired.
ContractEnded(a) ==
  /\ Listening /\ a \in subscribed /\ Tracks(a)
  /\ contract[a] \in {"sold", "expired"}
  /\ SettleTrade("settled")
  /\ Reset
  /\ UNCHANGED <<connectionVars, callVars, attempt, hasDb, dryRun, orders,
                 brokerVars, held>>

SoldEarly ==
  /\ pc = "sell" /\ answer = "ok"
  /\ SettleTrade("closed_early")
  /\ Reset
  /\ Answered
  /\ UNCHANGED <<connectionVars, attempt, hasDb, dryRun, orders, brokerVars,
                 held>>

SaleFailsAsAborted ==
  /\ pc = "sell"
  /\ Answered
  /\ orders' = Unawaited
  /\ IF pending = None THEN UNCHANGED rows
     ELSE UpdateRows(pending, "executed", "aborted")
  /\ UNCHANGED <<connectionVars, traderVars, engineVars, attempt, pending, hasDb,
                 dryRun, brokerVars, held>>

\* The sale is refused, answered oddly, or not answered in time: the trade
\* stays open.
SaleFails ==
  /\ pc = "sell"
  /\ Answered
  /\ orders' = Unawaited
  /\ UNCHANGED <<connectionVars, traderVars, engineVars, attempt, telemetryVars,
                 brokerVars, held>>

-------------------------------------------------------------------------------
(* The broker. An answer reaches the executor only over the connection on   *)
(* which it still waits for it.                                              *)

Reply(awaited, a) == answer' = IF awaited /\ link = "running" THEN a ELSE answer

BrokerPrices ==
  /\ pc = "proposal" /\ link = "running" /\ answer = "none"
  /\ answer' \in {"ok", "error"} \union
                 (IF "odd_answer" \in Faults THEN {"other"} ELSE {})
  /\ UNCHANGED <<connectionVars, pc, traderVars, engineVars, attempt,
                 telemetryVars, orders, brokerVars, held>>

BrokerSells(o) ==
  /\ o.op = "buy"
  /\ orders' = orders \ {o}
  /\ contract' = [contract EXCEPT ![o.id] = "live"]
  /\ lifeLeft' = [lifeLeft EXCEPT ![o.id] = ContractLife]
  /\ \/ Reply(o.awaited, "ok")
     \/ "odd_answer" \in Faults /\ Reply(o.awaited, "other")
  /\ UNCHANGED <<connectionVars, pc, traderVars, engineVars, attempt,
                 telemetryVars, held>>

BrokerRefuses(o) ==
  /\ o.op = "buy" \/ contract[o.id] # "live"
  /\ orders' = orders \ {o}
  /\ Reply(o.awaited, "error")
  /\ UNCHANGED <<connectionVars, pc, traderVars, engineVars, attempt,
                 telemetryVars, brokerVars, held>>

BrokerBuysBack(o) ==
  /\ o.op = "sell" /\ contract[o.id] = "live"
  /\ orders' = orders \ {o}
  /\ contract' = [contract EXCEPT ![o.id] = "sold"]
  /\ lifeLeft' = [lifeLeft EXCEPT ![o.id] = 0]
  /\ Reply(o.awaited, "ok")
  /\ UNCHANGED <<connectionVars, pc, traderVars, engineVars, attempt,
                 telemetryVars, held>>

Live(a) == contract[a] = "live"

\* A second passes; a contract whose life has run out expires.
Second ==
  /\ pauseLeft > 0 \/ \E a \in Attempts : Live(a)
  /\ pauseLeft' = IF pauseLeft > 0 THEN pauseLeft - 1 ELSE 0
  /\ lifeLeft' = [a \in Attempts |-> IF Live(a) THEN lifeLeft[a] - 1 ELSE 0]
  /\ contract' = [a \in Attempts |->
       IF Live(a) /\ lifeLeft[a] = 1 THEN "expired" ELSE contract[a]]
  /\ UNCHANGED <<connectionVars, callVars, traderVars, position, openPositions,
                 realized, attempt, telemetryVars, orders, held>>

\* The process dies and is started again: only the database and what is at the
\* broker survive; last_trade_time starts from 0.
Crash ==
  /\ "crash" \in Faults
  /\ link' = "down" /\ subscribed' = {}
  /\ Answered
  /\ Reset
  /\ position' = None /\ openPositions' = 0 /\ pauseLeft' = 0
  /\ pending' = None /\ hasDb' \in DbAtStart
  /\ orders' = Unawaited
  /\ held' = {}
  /\ UNCHANGED <<realized, attempt, rows, dryRun, brokerVars>>

-------------------------------------------------------------------------------
Executor ==
  \/ Connect \/ Authorized \/ Disconnected
  \/ Signal \/ EntryRefused \/ EntryTimeout \/ EntryUnexpected
  \/ ProposalReceived \/ BuyReceived \/ BuyReceivedMonitorFails
  \/ \E a \in Attempts : SellEarly(a) \/ ContractEnded(a)
  \/ SoldEarly \/ SaleFails

Broker ==
  \/ BrokerPrices
  \/ \E o \in orders : BrokerSells(o) \/ BrokerRefuses(o) \/ BrokerBuysBack(o)

Next == Executor \/ Broker \/ Drop \/ Second \/ Crash

Spec == Init /\ [][Next]_vars

-------------------------------------------------------------------------------
(* Fairness. A handler that is awaiting an answer gives up by itself after    *)
(* 10 s; a closed read channel is noticed; seconds pass; and an open contract *)
(* is both subscribed and polled, over a channel that keeps its order, so the *)
(* last update of an ended contract is handled however many sales fail first. *)

Fairness ==
  /\ WF_vars(Disconnected)
  /\ WF_vars(EntryTimeout)
  /\ WF_vars(SaleFails)
  /\ WF_vars(Second)
  /\ \A a \in Attempts : SF_vars(ContractEnded(a))

FairSpec == Spec /\ Fairness

-------------------------------------------------------------------------------
(* Safety *)

\* A trade the executor holds open is the one the engine holds, so the gate in
\* DecisionEngine::step stays shut for as long as the broker contract is
\* watched, and the risk counter counts exactly that position.
OpenTradeIsGated ==
  /\ fsm = "Open" => position = active
  /\ openPositions = IF position = None THEN 0 ELSE 1

\* While the select loop waits, an engine that would signal finds the trader
\* idle: the branch that rejects an intent with "position_already_open" is
\* never needed, and no second entry can start over an open trade.
SignalFindsIdleTrader ==
  pc = "select" /\ EngineSignals => fsm = "Idle"

\* A pending execution belongs to the trade that is open now, and its three
\* rows are there and not yet closed: no settlement is written to the rows of
\* another opportunity.
PendingIsOpenTrade ==
  pending # None =>
    /\ fsm = "Open" /\ active = pending
    /\ rows[pending] = Written(3, "submitted", "open")

\* Open-position gating matches the trader FSM, in both directions, as long as
\* telemetry does not fail: settle_trade reaches the engine only through the
\* pending execution.
GatingMatchesTrader ==
  (position # None) <=> (fsm = "Open")

\* Of two contracts alive side by side, one at least is a contract the engine
\* was never told of: those it has held, also the ones a disconnect made it
\* forget, never overlap, because the pause begun when the trade was opened or
\* given up outlasts the contract. The others come from entries that failed
\* after the broker had sold (BuyReceivedMonitorFails, EntryTimeout); for them
\* there is only UnwatchedIsOnRecord.
OneHeldContractAlive ==
  \A a, b \in held : Live(a) /\ Live(b) => a = b

\* A result is applied to the risk counters once per opportunity, and only for
\* a contract that has really ended.
RealizedOnce ==
  \A a \in Attempts :
    /\ realized[a] <= 1
    /\ realized[a] = 1 => dryRun \/ contract[a] \in {"sold", "expired"}

\* Without crashes, odd answers and database failures, the rows account for
\* every contract that is alive without being watched: its entry is recorded
\* as failed, or its trade as aborted.
UnwatchedIsOnRecord ==
  \A a \in Attempts :
    Live(a) /\ active # a =>
      rows[a].intent = "execution_failed" \/ rows[a].trade = "aborted"

TradeRowStep ==
  \A a \in Attempts :
    LET old == rows[a].trade  new == rows'[a].trade
    IN  \/ new = old
        \/ old = "none" /\ new \in {"open", "dry_run_open", "dry_run_settled"}
        \/ old = "open" /\ new \in {"settled", "closed_early", "aborted"}

\* An executed_trades row appears open, is closed by one later update, and is
\* never written again.
TradeRowLifecycle == [][TradeRowStep]_vars

\* The inductive invariant, by what it relates.
\* The trade state and what the executor awaits move together, and the trade
\* is always the latest opportunity.
CallShape ==
  /\ (fsm = "Idle") <=> (active = None)
  /\ active # None => active = attempt
  /\ (pc = "proposal") <=> (fsm = "Pricing")
  /\ (pc = "buy") <=> (fsm = "Submitted")
  /\ pc = "sell" => fsm = "Open"
  /\ pc = "select" => answer = "none"
  /\ link = "down" => fsm = "Idle"

\* The engine holds nothing, or the latest opportunity.
EngineShape ==
  /\ position # None => position = attempt
  /\ Entering => position = None /\ pending = None
  /\ pending # None => hasDb
  /\ OpenTradeIsGated

\* A buy request on its way has no contract yet, and only one such request
\* exists; the answer to a request tells the truth about the contract.
OrderShape ==
  /\ \A o \in orders : o.awaited => pc = o.op /\ active = o.id /\ answer = "none"
  /\ \A o \in orders : o.op = "buy" =>
       /\ o.id <= attempt /\ contract[o.id] = "none"
       /\ pc = "proposal" => o.id # active
  /\ \A o1, o2 \in orders : o1.op = "buy" /\ o2.op = "buy" /\ o1.id = o2.id => o1 = o2
  /\ pc = "proposal" => contract[active] = "none"
  /\ pc = "buy" /\ answer = "ok" => contract[active] # "none"
  /\ pc = "sell" /\ answer = "ok" => contract[active] = "sold"

\* Contracts exist for opportunities taken up, and live for some time yet.
ContractShape ==
  /\ \A a \in Attempts : a > attempt => contract[a] = "none"
  /\ \A a \in Attempts : Live(a) => lifeLeft[a] > 0
  /\ \A a \in held : contract[a] # "none"

\* A contract held once that is alive ends before the pause does; so none is alive
\* while an entry is under way. This needs ContractLife <= Pause.
PauseOutlastsContract ==
  /\ \A a \in held : Live(a) => lifeLeft[a] < pauseLeft
  /\ Entering => \A a \in held : ~Live(a)
  /\ OneHeldContractAlive

\* Results are applied to opportunities that are over.
RealizedShape ==
  /\ \A a \in Attempts : a > attempt => realized[a] = 0
  /\ Entering => realized[active] = 0
  /\ position # None => realized[position] = 0
  /\ RealizedOnce

\* No trade row is there before its trade is open.
RowShape ==
  /\ \A a \in Attempts : a > attempt => rows[a].trade = "none"
  /\ Entering => rows[active].trade = "none"

\* While telemetry works, the open trade is the pending execution.
GatingShape ==
  /\ GatingMatchesTrader
  /\ hasDb
  /\ fsm = "Open" => pending = active

\* Without faults, an entry that is given up before the broker has answered is
\* recorded as failed, so its buy request is accounted for when it becomes a
\* contract; and none is on its way for a trade that is open.
AuditShape ==
  /\ UnwatchedIsOnRecord
  /\ answer # "other"
  /\ fsm = "Open" => contract[active] # "none"
  /\ \A o \in orders :
       o.op = "buy" /\ o.id # active => rows[o.id].intent = "execution_failed"

IInv ==
  /\ TypeOK
  /\ CallShape
  /\ EngineShape
  /\ PendingIsOpenTrade
  /\ OrderShape
  /\ ContractShape
  /\ RealizedShape

\* What has become of each opportunity, as TradeAttempts tells it.
Fate ==
  [a \in Attempts |->
    CASE a > attempt                  -> "unused"
      [] a <= attempt /\ position = a -> "held"
      [] a <= attempt /\ position # a /\ Entering /\ active = a -> "trying"
      [] OTHER                        -> "done"]

Abstract == INSTANCE TradeAttempts WITH fate <- Fate

\* The executor keeps the promise of TradeAttempts under every fault.
KeepsTradeAttempts == Abstract!Spec

(* Liveness, for runs without telemetry faults *)

\* A position the engine holds is released again: after settlement, an early
\* sale, or a lost connection.
PositionReleased == position # None ~> position = None

\* A trade row that is open gets its final status.
OpenRowIsClosed ==
  \A a \in Attempts :
    rows[a].trade = "open" ~> rows[a].trade \in {"settled", "closed_early", "aborted"}

-------------------------------------------------------------------------------
(* What the README says of the program, and the code does not keep *)

\* README: "`execution_failed` - a live execution attempt was made but no trade
\* opened". A buy that is answered too late has opened one.
FailedEntryOpenedNothing ==
  \A a \in Attempts :
    rows[a].intent = "execution_failed" => contract[a] = "none"
===============================================================================
