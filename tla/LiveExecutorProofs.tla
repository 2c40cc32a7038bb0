-------------------------- MODULE LiveExecutorProofs --------------------------
(***************************************************************************)
(* The live executor's inductive invariant, for any number of              *)
(* opportunities, any limits and any faults: one lemma for each part of    *)
(* IInv and each step, and the theorems that follow from it alone. Each    *)
(* part needs some of the others: an order tells which contracts may       *)
(* still come, the shape of the calls which trade an answer is for, the    *)
(* pending execution which rows an update may touch.                       *)
(***************************************************************************)
EXTENDS LiveExecutor, TLAPS

-------------------------------------------------------------------------------
(* Rows and orders *)

\* What an insert bundle of n rows leaves is a row record.
LEMMA WrittenType ==
  ASSUME NEW n \in 0..3, NEW i \in IntentStatuses, NEW t \in ExecutedTradeStatuses
  PROVE  Written(n, i, t) \in Rows
BY DEF Written, Rows, IntentStatuses, ExecutedTradeStatuses

\* Of k rows to insert, between none and all three kinds are written.
LEMMA InsertsType == \A k \in 0..3 : Inserts(k) \subseteq 0..3
BY DEF Inserts

\* The two updates of a settled or aborted trade keep the rows well typed,
\* whichever of them fails.
LEMMA UpdateRowsType ==
  ASSUME rows \in [Attempts -> Rows], NEW a \in Attempts,
         NEW i \in IntentStatuses, NEW t \in ExecutedTradeStatuses,
         UpdateRows(a, i, t)
  PROVE  rows' \in [Attempts -> Rows]
<1>1. PICK iOk \in Updates, tOk \in Updates :
        rows' = [rows EXCEPT ![a].intent = IF iOk THEN i ELSE @,
                             ![a].trade  = IF tOk THEN t ELSE @]
  BY DEF UpdateRows
<1>2. rows[a] \in Rows
  OBVIOUS
<1>3. [rows[a] EXCEPT !.intent = IF iOk THEN i ELSE @,
                      !.trade  = IF tOk THEN t ELSE @] \in Rows
  BY <1>2 DEF Rows
<1>4. rows' = [rows EXCEPT ![a] = [rows[a] EXCEPT !.intent = IF iOk THEN i ELSE @,
                                                  !.trade  = IF tOk THEN t ELSE @]]
  BY <1>1
<1>5. QED
  BY <1>3, <1>4

\* A request put on its way is an order.
LEMMA OrderType ==
  ASSUME NEW op \in {"buy", "sell"}, NEW a \in Attempts
  PROVE  Order(op, a) \in Orders
BY DEF Order, Orders

\* The fields of an order.
LEMMA OrderFields ==
  ASSUME NEW o \in Orders
  PROVE  o.op \in {"buy", "sell"} /\ o.id \in Attempts /\ o.awaited \in BOOLEAN
BY DEF Orders

\* Giving up on the answers leaves orders.
LEMMA UnawaitedType ==
  ASSUME orders \subseteq Orders
  PROVE  Unawaited \subseteq Orders
<1>1. ASSUME NEW o \in orders PROVE [o EXCEPT !.awaited = FALSE] \in Orders
  BY DEF Orders
<1>2. QED
  BY <1>1 DEF Unawaited

\* The statuses the executor writes are statuses of the schema.
LEMMA Statuses ==
  /\ {"none", "rejected", "submitted", "execution_failed", "executed",
      "dry_run_executed"} \subseteq IntentStatuses
  /\ {"none", "open", "settled", "closed_early", "aborted", "dry_run_open",
      "dry_run_settled"} \subseteq ExecutedTradeStatuses
BY DEF IntentStatuses, ExecutedTradeStatuses

-------------------------------------------------------------------------------
(* Type correctness *)
\* Releasing the position keeps the engine's part well typed.
LEMMA ReleasesType ==
  ASSUME openPositions \in Nat, EngineReleases
  PROVE  position' \in 0..MaxAttempts /\ openPositions' \in Nat
BY AttemptsAssumption DEF EngineReleases, None

\* Applying a result counts it for one opportunity.
LEMMA ClosedType ==
  ASSUME realized \in [Attempts -> Nat], position \in 0..MaxAttempts, EngineClosed
  PROVE  realized' \in [Attempts -> Nat]
<1>1. CASE position = None
  BY <1>1 DEF EngineClosed
<1>2. CASE position # None
  <2>1. position \in Attempts /\ realized' = [realized EXCEPT ![position] = @ + 1]
    BY <1>2, AttemptsAssumption DEF EngineClosed, None, Attempts
  <2>2. QED
    BY <2>1
<1>3. QED
  BY <1>1, <1>2

\* settle_trade, with a pending execution or without, keeps all it touches well
\* typed.
LEMMA SettleType ==
  ASSUME TypeOK, NEW t \in {"settled", "closed_early"}, SettleTrade(t)
  PROVE  /\ rows' \in [Attempts -> Rows]
         /\ position' \in 0..MaxAttempts
         /\ openPositions' \in Nat
         /\ realized' \in [Attempts -> Nat]
         /\ pending' \in 0..MaxAttempts
         /\ pauseLeft' = pauseLeft
<1>1. CASE pending = None
  BY <1>1 DEF SettleTrade, TypeOK, engineVars
<1>2. CASE pending # None
  <2>1. EngineClosed /\ EngineReleases /\ pending' = None /\ pauseLeft' = pauseLeft
    BY <1>2 DEF SettleTrade, EngineClosed
  <2>2. rows' \in [Attempts -> Rows]
    <3>1. UpdateRows(pending, "executed", t) /\ pending \in Attempts
      BY <1>2, AttemptsAssumption DEF SettleTrade, TypeOK, None, Attempts
    <3>2. QED
      BY <3>1, UpdateRowsType, Statuses DEF TypeOK
  <2>3. QED
    BY <2>1, <2>2, ReleasesType, ClosedType, AttemptsAssumption DEF TypeOK, None
<1>3. QED
  BY <1>1, <1>2

\* Every step keeps the types. Shapes are needed where a step uses the active
\* opportunity or decides about a contract.
LEMMA TypeStep == TypeOK /\ CallShape /\ ContractShape /\ [Next]_vars => TypeOK'
<1> SUFFICES ASSUME TypeOK, CallShape, ContractShape, [Next]_vars
             PROVE  TypeOK'
  OBVIOUS
<1> USE AttemptsAssumption, SpanAssumption
    DEF TypeOK, Attempts, None, Reset, TradeStates,
        connectionVars, callVars, traderVars, engineVars, telemetryVars, brokerVars
<1>c. pc \in {"proposal", "buy"} => active \in Attempts
  BY DEF CallShape
<1>a. ASSUME FailEntry, Entering PROVE rows' \in [Attempts -> Rows]
  <2>1. PICK n \in Inserts(2) :
          rows' = [rows EXCEPT ![active] = Written(n, "execution_failed", "none")]
    BY <1>a DEF FailEntry
  <2>2. Written(n, "execution_failed", "none") \in Rows
    BY InsertsType, WrittenType, Statuses
  <2>3. active \in Attempts
    BY <1>a, <1>c DEF Entering
  <2>4. QED
    BY <2>1, <2>2, <2>3
<1>1. CASE Connect
  BY <1>1 DEF Connect
<1>2. CASE Authorized
  BY <1>2 DEF Authorized
<1>3. CASE Disconnected
  <2>1. rows' \in [Attempts -> Rows]
    BY <1>3, UpdateRowsType, Statuses DEF Disconnected
  <2>2. /\ position' \in 0..MaxAttempts
        /\ openPositions' \in Nat
        /\ pauseLeft' \in 0..Pause + 1
        /\ realized' = realized
    <3>1. CASE EngineAborted
      BY <3>1, ReleasesType DEF EngineAborted, PauseFromNow
    <3>2. CASE UNCHANGED engineVars
      BY <3>2
    <3>3. QED
      BY <1>3, <3>1, <3>2 DEF Disconnected
  <2>3. fsm' \in TradeStates /\ active' \in 0..MaxAttempts /\ pending' \in 0..MaxAttempts
    BY <1>3 DEF Disconnected
  <2>4. QED
    BY <1>3, <2>1, <2>2, <2>3 DEF Disconnected
<1>4. CASE Signal
  <2> DEFINE a == attempt + 1
  <2>1. a \in Attempts
    BY <1>4 DEF Signal
  <2>2. CASE RejectIntent(a)
    <3>1. PICK n \in Inserts(2) : rows' = [rows EXCEPT ![a] = Written(n, "rejected", "none")]
      BY <2>2 DEF RejectIntent
    <3>2. Written(n, "rejected", "none") \in Rows
      BY InsertsType, WrittenType, Statuses
    <3>3. rows' \in [Attempts -> Rows]
      BY <3>1, <3>2
    <3>4. QED
      BY <1>4, <2>1, <2>2, <3>3 DEF Signal, RejectIntent
  <2>3. CASE DryRunTrade(a)
    <3>1. PICK n \in Inserts(3), t \in {"none", "dry_run_settled", "dry_run_open"} :
            /\ rows' = [rows EXCEPT ![a] = Written(n, "dry_run_executed", t)]
            /\ \/ position' = a /\ openPositions' = openPositions + 1
               \/ UNCHANGED <<position, openPositions>>
            /\ \/ realized' = [realized EXCEPT ![a] = @ + 1]
               \/ UNCHANGED realized
      BY <2>3 DEF DryRunTrade
    <3>2. t \in ExecutedTradeStatuses /\ n \in 0..3
      BY InsertsType DEF ExecutedTradeStatuses
    <3>8. Written(n, "dry_run_executed", t) \in Rows
      BY <3>2, WrittenType, Statuses
    <3>3. rows' \in [Attempts -> Rows]
      BY <3>1, <3>8
    <3>4. position' \in 0..MaxAttempts /\ openPositions' \in Nat
      BY <2>1, <3>1
    <3>5. realized' \in [Attempts -> Nat]
      <4>1. realized[a] + 1 \in Nat
        BY <2>1
      <4>2. QED
        BY <2>1, <3>1, <4>1
    <3>6. pauseLeft' \in 0..Pause + 1
      BY <2>3 DEF DryRunTrade, PauseFromNow
    <3>7. pending' = None /\ UNCHANGED <<callVars, traderVars>>
      BY <2>3 DEF DryRunTrade
    <3>9. /\ attempt' = attempt + 1
          /\ UNCHANGED <<connectionVars, hasDb, dryRun, orders, brokerVars, held>>
      BY <1>4 DEF Signal
    <3>10. QED
      BY <2>1, <3>3, <3>4, <3>5, <3>6, <3>7, <3>9
  <2>4. CASE StartPricing(a)
    BY <1>4, <2>1, <2>4 DEF Signal, StartPricing, Ask
  <2>5. QED
    BY <1>4, <2>2, <2>3, <2>4 DEF Signal
<1>5. CASE EntryRefused
  <2>1. rows' \in [Attempts -> Rows]
    BY <1>5, <1>a DEF EntryRefused
  <2>2. QED
    BY <1>5, <2>1 DEF EntryRefused, FailEntry, Answered
<1>6. CASE EntryTimeout
  <2>1. rows' \in [Attempts -> Rows]
    BY <1>6, <1>a DEF EntryTimeout
  <2>2. orders' \subseteq Orders
    BY <1>6, UnawaitedType DEF EntryTimeout
  <2>3. QED
    BY <1>6, <2>1, <2>2 DEF EntryTimeout, FailEntry, Answered
<1>7. CASE EntryUnexpected
  BY <1>7 DEF EntryUnexpected, Answered
<1>8. CASE ProposalReceived
  <2>1. Order("buy", active) \in Orders
    BY <1>8, <1>c, OrderType DEF ProposalReceived
  <2>2. QED
    BY <1>8, <2>1 DEF ProposalReceived, Ask
<1>9. CASE BuyReceived
  <2>1. active \in Attempts /\ OpenTrade(active)
    BY <1>9, <1>c DEF BuyReceived
  <2>2. PICK n \in Inserts(3) :
          /\ rows' = [rows EXCEPT ![active] = Written(n, "submitted", "open")]
          /\ pending' = IF ~hasDb THEN pending ELSE IF n = 3 THEN active ELSE None
    BY <2>1 DEF OpenTrade
  <2>3. Written(n, "submitted", "open") \in Rows
    BY InsertsType, WrittenType, Statuses
  <2>4. rows' \in [Attempts -> Rows] /\ pending' \in 0..MaxAttempts
    BY <2>1, <2>2, <2>3
  <2>5. /\ position' \in 0..MaxAttempts
        /\ openPositions' \in Nat
        /\ pauseLeft' \in 0..Pause + 1
        /\ realized' = realized
    BY <2>1 DEF OpenTrade, EngineOpened, PauseFromNow
  <2>6. held' \subseteq Attempts /\ subscribed' \subseteq Attempts
    BY <2>1 DEF OpenTrade
  <2>7. QED
    BY <2>1, <2>4, <2>5, <2>6 DEF OpenTrade, Answered
<1>10. CASE BuyReceivedMonitorFails
  <2>1. rows' \in [Attempts -> Rows]
    BY <1>10, <1>a DEF BuyReceivedMonitorFails, Entering
  <2>2. QED
    BY <1>10, <2>1 DEF BuyReceivedMonitorFails, FailEntry, Answered
<1>11. ASSUME NEW a \in Attempts, SellEarly(a) PROVE TypeOK'
  <2>1. Order("sell", a) \in Orders
    BY OrderType
  <2>2. QED
    BY <1>11, <2>1 DEF SellEarly, Ask
<1>12. ASSUME NEW a \in Attempts, ContractEnded(a) PROVE TypeOK'
  <2>1. SettleTrade("settled")
    BY <1>12 DEF ContractEnded
  <2>2. /\ rows' \in [Attempts -> Rows]
        /\ position' \in 0..MaxAttempts
        /\ openPositions' \in Nat
        /\ realized' \in [Attempts -> Nat]
        /\ pending' \in 0..MaxAttempts
        /\ pauseLeft' = pauseLeft
    BY <2>1, SettleType
  <2>3. /\ UNCHANGED <<connectionVars, callVars, attempt, hasDb, dryRun, orders, brokerVars, held>>
        /\ fsm' = "Idle" /\ active' = None
    BY <1>12 DEF ContractEnded
  <2>4. QED
    BY <2>2, <2>3
<1>13. CASE SoldEarly
  <2>1. SettleTrade("closed_early")
    BY <1>13 DEF SoldEarly
  <2>2. /\ rows' \in [Attempts -> Rows]
        /\ position' \in 0..MaxAttempts
        /\ openPositions' \in Nat
        /\ realized' \in [Attempts -> Nat]
        /\ pending' \in 0..MaxAttempts
        /\ pauseLeft' = pauseLeft
    BY <2>1, SettleType
  <2>3. QED
    BY <1>13, <2>2 DEF SoldEarly, Answered
<1>14. CASE SaleFails
  <2>1. orders' \subseteq Orders
    BY <1>14, UnawaitedType DEF SaleFails
  <2>2. QED
    BY <1>14, <2>1 DEF SaleFails, Answered
<1>15. CASE BrokerPrices
  BY <1>15 DEF BrokerPrices
<1>16. ASSUME NEW o \in orders, BrokerSells(o) PROVE TypeOK'
  <2>1. o.id \in Attempts
    BY OrderFields
  <2>2. answer' \in {"none", "ok", "error", "other"}
    BY <1>16 DEF BrokerSells, Reply
  <2>3. contract' \in [Attempts -> {"none", "live", "sold", "expired"}]
    BY <1>16, <2>1 DEF BrokerSells
  <2>4. lifeLeft' \in [Attempts -> 0..ContractLife]
    BY <1>16, <2>1 DEF BrokerSells
  <2>5. QED
    BY <1>16, <2>2, <2>3, <2>4 DEF BrokerSells
<1>17. ASSUME NEW o \in orders, BrokerRefuses(o) PROVE TypeOK'
  <2>1. answer' \in {"none", "ok", "error", "other"}
    BY <1>17 DEF BrokerRefuses, Reply
  <2>2. QED
    BY <1>17, <2>1 DEF BrokerRefuses
<1>18. ASSUME NEW o \in orders, BrokerBuysBack(o) PROVE TypeOK'
  <2>1. o.id \in Attempts
    BY OrderFields
  <2>2. answer' \in {"none", "ok", "error", "other"}
    BY <1>18 DEF BrokerBuysBack, Reply
  <2>3. contract' \in [Attempts -> {"none", "live", "sold", "expired"}]
    BY <1>18, <2>1 DEF BrokerBuysBack
  <2>4. lifeLeft' \in [Attempts -> 0..ContractLife]
    BY <1>18, <2>1 DEF BrokerBuysBack
  <2>5. QED
    BY <1>18, <2>2, <2>3, <2>4 DEF BrokerBuysBack
<1>19. CASE Drop
  BY <1>19 DEF Drop
<1>20. CASE Second
  <2>1. pauseLeft' \in 0..Pause + 1
    BY <1>20 DEF Second
  <2>2. contract' \in [Attempts -> {"none", "live", "sold", "expired"}]
    BY <1>20 DEF Second
  <2>3. \A a \in Attempts : Live(a) => lifeLeft[a] - 1 \in 0..ContractLife
    BY DEF ContractShape
  <2>4. lifeLeft' \in [Attempts -> 0..ContractLife]
    BY <1>20, <2>3 DEF Second
  <2>5. QED
    BY <1>20, <2>1, <2>2, <2>4 DEF Second
<1>21. CASE Crash
  <2>1. orders' \subseteq Orders
    BY <1>21, UnawaitedType DEF Crash
  <2>2. hasDb' \in BOOLEAN
    BY <1>21 DEF Crash, DbAtStart
  <2>3. QED
    BY <1>21, <2>1, <2>2 DEF Crash, Answered
<1>22. CASE UNCHANGED vars
  BY <1>22 DEF vars
<1>23. QED
  BY <1>1, <1>2, <1>3, <1>4, <1>5, <1>6, <1>7, <1>8, <1>9, <1>10, <1>11, <1>12,
     <1>13, <1>14, <1>15, <1>16, <1>17, <1>18, <1>19, <1>20, <1>21, <1>22
  DEF Next, Executor, Broker

-------------------------------------------------------------------------------
(* The trade state and the request that is awaited *)

\* A tick that signals finds the trader idle and nothing pending.
LEMMA SignalIdle ==
  ASSUME TypeOK, CallShape, EngineShape, PendingIsOpenTrade, Signal
  PROVE  fsm = "Idle" /\ active = None /\ position = None /\ pending = None
<1>1. pc = "select" /\ position = None
  BY DEF Signal, Listening, EngineSignals
<1>2. fsm = "Idle"
  <2>1. fsm \notin {"Pricing", "Submitted"}
    BY <1>1 DEF CallShape
  <2>2. fsm # "Open"
    BY <1>1 DEF CallShape, EngineShape, OpenTradeIsGated
  <2>3. QED
    BY <2>1, <2>2 DEF TypeOK, TradeStates
<1>3. QED
  BY <1>1, <1>2 DEF CallShape, PendingIsOpenTrade

\* A signal on an idle trader is either a dry run or the start of an entry.
LEMMA SignalCases ==
  ASSUME TypeOK, CallShape, EngineShape, PendingIsOpenTrade, Signal
  PROVE  /\ attempt + 1 \in Attempts
         /\ attempt' = attempt + 1
         /\ UNCHANGED <<connectionVars, hasDb, dryRun, orders, brokerVars, held>>
         /\ \/ dryRun /\ DryRunTrade(attempt + 1)
            \/ StartPricing(attempt + 1)
<1>1. attempt + 1 \in Attempts
  BY AttemptsAssumption DEF Signal, TypeOK, Attempts
<1>2. QED
  BY <1>1, SignalIdle DEF Signal

\* Every step keeps trade state and awaited request together.
LEMMA CallStep == IInv /\ [Next]_vars => CallShape'
<1> SUFFICES ASSUME TypeOK, CallShape, EngineShape, PendingIsOpenTrade, OrderShape,
                    [Next]_vars
             PROVE  CallShape'
  BY DEF IInv
<1>t. /\ attempt \in 0..MaxAttempts /\ active \in 0..MaxAttempts
      /\ fsm \in TradeStates /\ pc \in {"select", "proposal", "buy", "sell"}
  BY DEF TypeOK
<1>o. \A o \in orders : o.op \in {"buy", "sell"}
  BY OrderFields DEF TypeOK
<1> USE AttemptsAssumption
    DEF CallShape, None, Reset, Answered, Ask, TradeStates,
        connectionVars, callVars, traderVars, brokerVars
<1>1. CASE Connect
  BY <1>1, <1>t DEF Connect
<1>2. CASE Authorized
  BY <1>2, <1>t DEF Authorized
<1>3. CASE Disconnected
  <2>1. fsm' = "Idle" /\ active' = None
    BY <1>3, <1>t DEF Disconnected
  <2>2. QED
    BY <1>3, <1>t, <2>1 DEF Disconnected
<1>4. CASE Signal
  <2>1. /\ fsm = "Idle" /\ active = None /\ pc = "select" /\ link # "down"
        /\ attempt' = attempt + 1 /\ link' = link
    BY <1>4, SignalIdle DEF Signal, Listening
  <2>2. CASE DryRunTrade(attempt + 1)
    BY <1>t, <2>1, <2>2 DEF DryRunTrade
  <2>3. CASE StartPricing(attempt + 1)
    BY <1>t, <2>1, <2>3 DEF StartPricing
  <2>4. QED
    BY <1>4, <2>2, <2>3, SignalCases
<1>5. CASE EntryRefused \/ EntryTimeout \/ EntryUnexpected \/ BuyReceivedMonitorFails
  BY <1>5, <1>t DEF EntryRefused, EntryTimeout, EntryUnexpected,
                    BuyReceivedMonitorFails, FailEntry
<1>6. CASE ProposalReceived
  BY <1>6, <1>t DEF ProposalReceived
<1>7. CASE BuyReceived
  BY <1>7, <1>t DEF BuyReceived, OpenTrade
<1>8. ASSUME NEW a \in Attempts, SellEarly(a) PROVE CallShape'
  BY <1>8, <1>t DEF SellEarly, Tracks, Listening
<1>9. ASSUME NEW a \in Attempts, ContractEnded(a) PROVE CallShape'
  BY <1>9, <1>t DEF ContractEnded, Listening, Tracks
<1>10. CASE SoldEarly \/ SaleFails
  BY <1>10, <1>t DEF SoldEarly, SaleFails
<1>11. CASE BrokerPrices
  BY <1>11, <1>t DEF BrokerPrices
<1>12. ASSUME NEW o \in orders, BrokerSells(o) \/ BrokerRefuses(o) \/ BrokerBuysBack(o)
       PROVE  CallShape'
  <2>1. o.op \in {"buy", "sell"} /\ (o.awaited => pc = o.op)
    BY <1>o DEF OrderShape
  <2>2. answer' = answer \/ pc # "select"
    BY <1>12, <2>1 DEF BrokerSells, BrokerRefuses, BrokerBuysBack, Reply
  <2>3. UNCHANGED <<connectionVars, pc, traderVars, attempt>>
    BY <1>12 DEF BrokerSells, BrokerRefuses, BrokerBuysBack
  <2>4. QED
    BY <1>t, <2>2, <2>3
<1>13. CASE Drop \/ Second
  BY <1>13, <1>t DEF Drop, Second
<1>14. CASE Crash
  BY <1>14, <1>t DEF Crash
<1>15. CASE UNCHANGED vars
  BY <1>15 DEF vars
<1>16. QED
  BY <1>1, <1>2, <1>3, <1>4, <1>5, <1>6, <1>7, <1>8, <1>9, <1>10, <1>11, <1>12,
     <1>13, <1>14, <1>15
  DEF Next, Executor, Broker

-------------------------------------------------------------------------------
(* The engine's position *)

\* Releasing leaves the engine with nothing, and counts nothing.
LEMMA ReleasesAll ==
  ASSUME TypeOK, EngineShape, EngineReleases
  PROVE  position' = None /\ openPositions' = 0
BY DEF TypeOK, EngineShape, OpenTradeIsGated, EngineReleases

\* A settlement either finds nothing pending and changes nothing, or releases
\* the position and the pending execution.
LEMMA SettleCases ==
  ASSUME TypeOK, EngineShape, NEW t \in {"settled", "closed_early"}, SettleTrade(t)
  PROVE  /\ pending' = None
         /\ pauseLeft' = pauseLeft
         /\ \/ pending = None /\ UNCHANGED <<engineVars, rows>>
            \/ /\ pending # None
               /\ position' = None /\ openPositions' = 0
               /\ EngineClosed
               /\ UpdateRows(pending, "executed", t)
<1>1. CASE pending = None
  BY <1>1 DEF SettleTrade, engineVars
<1>2. CASE pending # None
  <2>1. EngineClosed /\ UpdateRows(pending, "executed", t) /\ pending' = None
    BY <1>2 DEF SettleTrade
  <2>2. EngineReleases /\ pauseLeft' = pauseLeft
    BY <2>1 DEF EngineClosed
  <2>3. QED
    BY <1>2, <2>1, <2>2, ReleasesAll
<1>3. QED
  BY <1>1, <1>2

\* Every step keeps the engine's position and count together.
LEMMA EngineStep == IInv /\ [Next]_vars => EngineShape'
<1> SUFFICES ASSUME TypeOK, CallShape, EngineShape, PendingIsOpenTrade, [Next]_vars
             PROVE  EngineShape'
  BY DEF IInv
<1>t. /\ attempt \in 0..MaxAttempts /\ active \in 0..MaxAttempts
      /\ position \in 0..MaxAttempts /\ pending \in 0..MaxAttempts
      /\ fsm \in TradeStates /\ pc \in {"select", "proposal", "buy", "sell"}
  BY DEF TypeOK
<1>e. /\ position # None => position = attempt
      /\ pc \in {"proposal", "buy"} => position = None /\ pending = None
      /\ pending # None => hasDb
      /\ fsm = "Open" => position = active
      /\ openPositions = IF position = None THEN 0 ELSE 1
  BY DEF EngineShape, OpenTradeIsGated, Entering
<1>c. /\ (fsm = "Idle") <=> (active = None)
      /\ active # None => active = attempt
      /\ (pc = "proposal") <=> (fsm = "Pricing")
      /\ (pc = "buy") <=> (fsm = "Submitted")
      /\ pending # None => fsm = "Open"
  BY DEF CallShape, PendingIsOpenTrade
<1> DEFINE Goal ==
        /\ position' # None => position' = attempt'
        /\ pc' \in {"proposal", "buy"} => position' = None /\ pending' = None
        /\ pending' # None => hasDb'
        /\ fsm' = "Open" => position' = active'
        /\ openPositions' = IF position' = None THEN 0 ELSE 1
<1> SUFFICES Goal
  BY DEF EngineShape, OpenTradeIsGated, Entering
<1> USE AttemptsAssumption
    DEF None, Reset, Answered, Ask, TradeStates,
        connectionVars, callVars, traderVars, engineVars, telemetryVars, brokerVars
<1>1. CASE Connect \/ Authorized
  BY <1>1, <1>t, <1>e, <1>c DEF Connect, Authorized
<1>2. CASE Disconnected
  <2>1. CASE fsm # "Idle"
    <3>1. position' = None /\ openPositions' = 0
      BY <1>2, <2>1, ReleasesAll DEF Disconnected, EngineAborted
    <3>2. /\ pc' = pc /\ pc = "select" /\ hasDb' = hasDb /\ fsm' = "Idle"
          /\ pending' # None => hasDb
      BY <1>2, <2>1, <1>e DEF Disconnected
    <3>3. QED
      BY <3>1, <3>2
  <2>2. CASE fsm = "Idle"
    BY <1>2, <2>2, <1>t, <1>e DEF Disconnected
  <2>3. QED
    BY <2>1, <2>2
<1>3. CASE Signal
  <2>1. /\ position = None /\ pending = None /\ fsm = "Idle" /\ pc = "select"
        /\ attempt' = attempt + 1 /\ hasDb' = hasDb
    BY <1>3, SignalIdle DEF Signal, Listening
  <2>2. CASE DryRunTrade(attempt + 1)
    <3>1. /\ \/ position' = attempt + 1 /\ openPositions' = openPositions + 1
             \/ UNCHANGED <<position, openPositions>>
          /\ pending' = None /\ UNCHANGED <<callVars, traderVars>>
      BY <2>2 DEF DryRunTrade
    <3>2. QED
      BY <1>t, <1>e, <2>1, <3>1
  <2>3. CASE StartPricing(attempt + 1)
    BY <1>t, <1>e, <2>1, <2>3 DEF StartPricing
  <2>4. QED
    BY <1>3, <2>2, <2>3, SignalCases
<1>4. CASE EntryRefused \/ EntryTimeout \/ EntryUnexpected \/ BuyReceivedMonitorFails
  BY <1>4, <1>t, <1>e DEF EntryRefused, EntryTimeout, EntryUnexpected,
                    BuyReceivedMonitorFails, FailEntry
<1>5. CASE ProposalReceived
  BY <1>5, <1>t, <1>e DEF ProposalReceived
<1>6. CASE BuyReceived
  <2>1. /\ position' = active /\ openPositions' = 1 /\ active = attempt /\ active # None
    BY <1>6, <1>e, <1>c DEF BuyReceived, OpenTrade, EngineOpened
  <2>2. /\ pending' # None => hasDb
        /\ pc' = "select" /\ active' = active /\ attempt' = attempt /\ hasDb' = hasDb
    BY <1>6, <1>e DEF BuyReceived, OpenTrade
  <2>3. QED
    BY <2>1, <2>2
<1>7. ASSUME NEW a \in Attempts, SellEarly(a) PROVE Goal
  BY <1>7, <1>e DEF SellEarly
<1>8. CASE SoldEarly \/ \E a \in Attempts : ContractEnded(a)
  <2>1. PICK t \in {"settled", "closed_early"} : SettleTrade(t)
    BY <1>8 DEF SoldEarly, ContractEnded
  <2>2. /\ pc' = "select" /\ fsm' = "Idle" /\ attempt' = attempt /\ hasDb' = hasDb
    BY <1>8, <1>t DEF SoldEarly, ContractEnded, Listening
  <2>3. QED
    BY <1>e, <2>1, <2>2, SettleCases
<1>9. CASE SaleFails
  BY <1>9, <1>e DEF SaleFails
<1>10. CASE BrokerPrices
  BY <1>10, <1>e DEF BrokerPrices
<1>11. ASSUME NEW o \in orders, BrokerSells(o) \/ BrokerRefuses(o) \/ BrokerBuysBack(o)
       PROVE  Goal
  <2>1. UNCHANGED <<pc, traderVars, engineVars, attempt, telemetryVars>>
    BY <1>11 DEF BrokerSells, BrokerRefuses, BrokerBuysBack
  <2>2. QED
    BY <1>e, <2>1
<1>12. CASE Drop \/ Second
  BY <1>12, <1>e DEF Drop, Second
<1>13. CASE Crash
  BY <1>13 DEF Crash
<1>14. CASE UNCHANGED vars
  BY <1>14, <1>e DEF vars
<1>15. QED
  BY <1>1, <1>2, <1>3, <1>4, <1>5, <1>6, <1>7, <1>8, <1>9, <1>10, <1>11, <1>12,
     <1>13, <1>14
  DEF Next, Executor, Broker

-------------------------------------------------------------------------------
(* The pending execution and its rows *)

\* A pending execution stays that of the open trade the engine holds, with its
\* rows written and open, until it is taken.
LEMMA PendingStep == IInv /\ [Next]_vars => PendingIsOpenTrade'
<1> SUFFICES ASSUME TypeOK, CallShape, EngineShape, PendingIsOpenTrade, [Next]_vars
             PROVE  PendingIsOpenTrade'
  BY DEF IInv
<1>e. /\ Entering => pending = None
      /\ pending # None => hasDb
  BY DEF EngineShape
<1> USE DEF None, Reset, Answered, Ask,
        connectionVars, callVars, traderVars, engineVars, telemetryVars, brokerVars
<1>0. ASSUME UNCHANGED <<fsm, active, pending, rows>> PROVE PendingIsOpenTrade'
  BY <1>0 DEF PendingIsOpenTrade
<1>n. ASSUME pending' = None PROVE PendingIsOpenTrade'
  BY <1>n DEF PendingIsOpenTrade
<1>1. CASE Connect
  <2>1. link = "down" => pending = None
    BY DEF CallShape, PendingIsOpenTrade
  <2>2. QED
    BY <1>1, <1>n, <2>1 DEF Connect
<1>2. CASE Disconnected
  <2>1. pending' = None
    BY <1>2, <1>e DEF Disconnected, PendingIsOpenTrade
  <2>2. QED
    BY <2>1, <1>n
<1>3. CASE Signal
  <2>1. pending' = None
    BY <1>3, SignalIdle, SignalCases DEF DryRunTrade, StartPricing
  <2>2. QED
    BY <2>1, <1>n
<1>4. CASE EntryRefused \/ EntryTimeout \/ EntryUnexpected \/ BuyReceivedMonitorFails
  BY <1>4, <1>e, <1>n DEF EntryRefused, EntryTimeout, EntryUnexpected,
                    BuyReceivedMonitorFails, FailEntry, Entering
<1>5. CASE ProposalReceived
  BY <1>5, <1>e, <1>n DEF ProposalReceived, Entering
<1>6. CASE BuyReceived
  <2>1. PICK n \in Inserts(3) :
          /\ rows' = [rows EXCEPT ![active] = Written(n, "submitted", "open")]
          /\ pending' = IF ~hasDb THEN pending ELSE IF n = 3 THEN active ELSE None
    BY <1>6 DEF BuyReceived, OpenTrade
  <2>2. pending = None /\ active \in Attempts
    BY <1>6, <1>e, AttemptsAssumption
    DEF BuyReceived, Entering, CallShape, TypeOK, Attempts
  <2>3. CASE pending' = None
    BY <2>3, <1>n
  <2>4. CASE pending' # None
    <3>1. pending' = active /\ n = 3
      BY <2>1, <2>2, <2>4
    <3>2. rows'[active] = Written(3, "submitted", "open")
      BY <2>1, <2>2, <3>1 DEF TypeOK
    <3>3. fsm' = "Open" /\ active' = active
      BY <1>6 DEF BuyReceived, OpenTrade
    <3>4. QED
      BY <3>1, <3>2, <3>3 DEF PendingIsOpenTrade
  <2>5. QED
    BY <2>3, <2>4
<1>7. CASE SoldEarly \/ \E a \in Attempts : ContractEnded(a)
  <2>1. PICK t \in {"settled", "closed_early"} : SettleTrade(t)
    BY <1>7 DEF SoldEarly, ContractEnded
  <2>2. QED
    BY <2>1, <1>n, SettleCases
<1>8. CASE Crash
  BY <1>8, <1>n DEF Crash
<1>9. CASE UNCHANGED <<fsm, active, pending, rows>>
  BY <1>9, <1>0
<1>10. CASE Authorized \/ SaleFails \/ BrokerPrices \/ Drop \/ Second
            \/ \E a \in Attempts : SellEarly(a)
  BY <1>10, <1>0 DEF Authorized, SaleFails, BrokerPrices, Drop, Second, SellEarly
<1>11. CASE Broker
  BY <1>11, <1>0 DEF Broker, BrokerPrices, BrokerSells, BrokerRefuses, BrokerBuysBack
<1>12. QED
  BY <1>1, <1>2, <1>3, <1>4, <1>5, <1>6, <1>7, <1>8, <1>9, <1>10, <1>11
  DEF Next, Executor, vars

-------------------------------------------------------------------------------
(* Requests on their way, and the contracts they make *)

\* Giving up on an answer keeps the requests, but nobody awaits them.
LEMMA UnawaitedFields ==
  ASSUME orders \subseteq Orders, NEW o \in Unawaited
  PROVE  /\ ~o.awaited
         /\ \E p \in orders : p.op = o.op /\ p.id = o.id
<1>1. PICK p \in orders : o = [p EXCEPT !.awaited = FALSE]
  BY DEF Unawaited
<1>2. p \in Orders
  OBVIOUS
<1>3. o.op = p.op /\ o.id = p.id /\ o.awaited = FALSE
  BY <1>1, <1>2 DEF Orders
<1>4. QED
  BY <1>3

\* An order is its operation, its opportunity and whether it is awaited.
LEMMA SameOrder ==
  ASSUME NEW o \in Orders, NEW p \in Orders,
         o.op = p.op, o.id = p.id, o.awaited = p.awaited
  PROVE  o = p
BY DEF Orders

\* The four parts of OrderShape survive giving up on an answer.
LEMMA UnawaitedShape ==
  ASSUME TypeOK, OrderShape, pc' = "select",
         orders' = Unawaited, UNCHANGED <<contract, attempt>>
  PROVE  OrderShape'
<1>1. \A o \in Unawaited : ~o.awaited /\ o \in Orders
  BY UnawaitedFields, UnawaitedType DEF TypeOK
<1>2. ASSUME NEW o \in Unawaited, o.op = "buy"
      PROVE  o.id <= attempt /\ contract[o.id] = "none"
  BY <1>2, UnawaitedFields DEF OrderShape, TypeOK
<1>3. ASSUME NEW o \in Unawaited, NEW p \in Unawaited,
             o.op = "buy", p.op = "buy", o.id = p.id
      PROVE  o = p
  <2>1. o.awaited = p.awaited
    BY <1>1 DEF Orders
  <2>2. QED
    BY <1>1, <1>3, <2>1, SameOrder
<1>4. QED
  BY <1>1, <1>2, <1>3 DEF OrderShape

\* Every step keeps buy requests unique and answers truthful; a request that
\* is given up stays on its way.
LEMMA OrderStep == IInv /\ [Next]_vars => OrderShape'
<1> SUFFICES ASSUME TypeOK, CallShape, EngineShape, PendingIsOpenTrade, OrderShape,
                    ContractShape, [Next]_vars
             PROVE  OrderShape'
  BY DEF IInv
<1>t. /\ attempt \in 0..MaxAttempts /\ active \in 0..MaxAttempts
      /\ orders \subseteq Orders /\ pc \in {"select", "proposal", "buy", "sell"}
      /\ contract \in [Attempts -> {"none", "live", "sold", "expired"}]
  BY DEF TypeOK
<1>o. \A o \in orders : o.op \in {"buy", "sell"} /\ o.id \in Attempts
  BY <1>t, OrderFields
<1>s. pc = "select" => \A o \in orders : ~o.awaited
  BY <1>o DEF OrderShape
<1>c. active # None => active \in Attempts /\ active = attempt
  BY <1>t, AttemptsAssumption DEF CallShape, None, Attempts
<1> USE DEF connectionVars, callVars, traderVars, brokerVars
<1>0. ASSUME UNCHANGED <<pc, answer, active, attempt, orders, contract>>
      PROVE  OrderShape'
  BY <1>0 DEF OrderShape
<1>r. ASSUME UNCHANGED <<attempt, orders, contract>>, pc' = "select",
             \A o \in orders : ~o.awaited
      PROVE  OrderShape'
  BY <1>r DEF OrderShape
<1>1. CASE Connect \/ Disconnected
  BY <1>1, <1>s, <1>r DEF Connect, Disconnected
<1>2. CASE Signal
  <2> DEFINE a == attempt + 1
  <2>1. /\ pc = "select" /\ a \in Attempts /\ attempt' = a
        /\ UNCHANGED <<orders, contract>>
    BY <1>2, SignalCases DEF Signal, Listening
  <2>2. \A o \in orders : o.op = "buy" => o.id <= a /\ o.id # a
    <3>1. \A o \in orders : o.op = "buy" => o.id <= attempt
      BY DEF OrderShape
    <3>2. QED
      BY <1>o, <1>t, <2>1, <3>1 DEF Attempts
  <2>3. CASE DryRunTrade(a)
    <3>1. pc' = "select"
      BY <2>1, <2>3 DEF DryRunTrade, callVars
    <3>2. QED
      BY <1>s, <2>1, <2>2, <3>1 DEF OrderShape
  <2>4. CASE StartPricing(a)
    <3>1. pc' = "proposal" /\ active' = a
      BY <2>4 DEF StartPricing, Ask
    <3>2. contract[a] = "none"
      BY <1>t, <2>1 DEF ContractShape
    <3>3. QED
      BY <1>s, <2>1, <2>2, <3>1, <3>2 DEF OrderShape
  <2>5. QED
    BY <1>2, <2>3, <2>4, SignalCases
<1>3. CASE EntryRefused \/ EntryUnexpected \/ BuyReceivedMonitorFails
  <2>1. answer # "none" /\ pc' = "select" /\ UNCHANGED <<attempt, orders, contract>>
    BY <1>3 DEF EntryRefused, EntryUnexpected, BuyReceivedMonitorFails, FailEntry,
                Answered
  <2>2. QED
    BY <1>r, <2>1 DEF OrderShape
<1>4. CASE EntryTimeout \/ SaleFails
  BY <1>4, UnawaitedShape DEF EntryTimeout, FailEntry, SaleFails, Answered
<1>5. CASE ProposalReceived
  <2>1. /\ pc' = "buy" /\ answer' = "none" /\ active' = active
        /\ orders' = orders \union {Order("buy", active)}
        /\ UNCHANGED <<attempt, contract>>
    BY <1>5 DEF ProposalReceived, Ask
  <2>2. active \in Attempts /\ active = attempt
    BY <1>5, <1>c DEF ProposalReceived, CallShape
  <2>3. /\ contract[active] = "none"
        /\ \A o \in orders : ~o.awaited /\ (o.op = "buy" => o.id # active)
    BY <1>5, <1>o DEF ProposalReceived, OrderShape
  <2>4. /\ Order("buy", active).op = "buy"
        /\ Order("buy", active).id = active
    BY DEF Order
  <2>5. \A o \in orders' : o.awaited => o.op = "buy" /\ o.id = active
    BY <2>1, <2>3, <2>4
  <2>6. \A o \in orders' : o.op = "buy" => o.id <= attempt /\ contract[o.id] = "none"
    BY <1>t, <2>1, <2>2, <2>3, <2>4 DEF OrderShape
  <2>7. \A o, p \in orders' : o.op = "buy" /\ p.op = "buy" /\ o.id = p.id => o = p
    BY <2>1, <2>3, <2>4 DEF OrderShape
  <2>8. QED
    BY <2>1, <2>5, <2>6, <2>7 DEF OrderShape
<1>6. CASE BuyReceived
  <2>1. answer # "none" /\ pc' = "select" /\ UNCHANGED <<attempt, orders, contract>>
    BY <1>6 DEF BuyReceived, OpenTrade, Answered
  <2>2. QED
    BY <1>r, <2>1 DEF OrderShape
<1>7. ASSUME NEW a \in Attempts, SellEarly(a) PROVE OrderShape'
  <2>1. /\ pc' = "sell" /\ answer' = "none" /\ active' = a
        /\ orders' = orders \union {Order("sell", a)}
        /\ UNCHANGED <<attempt, contract>>
        /\ pc = "select"
    BY <1>7 DEF SellEarly, Ask, Tracks, Listening
  <2>2. Order("sell", a).op = "sell" /\ Order("sell", a).id = a
    BY DEF Order
  <2>3. \A o \in orders' : o.awaited => o.op = "sell" /\ o.id = a
    BY <1>s, <2>1, <2>2
  <2>4. \A o \in orders' : o.op = "buy" => o \in orders
    BY <2>1, <2>2
  <2>5. QED
    BY <2>1, <2>3, <2>4 DEF OrderShape
<1>8. ASSUME NEW a \in Attempts, ContractEnded(a) PROVE OrderShape'
  BY <1>8, <1>s, <1>r DEF ContractEnded, Listening
<1>9. CASE SoldEarly
  <2>1. answer # "none" /\ pc' = "select" /\ UNCHANGED <<attempt, orders, contract>>
    BY <1>9 DEF SoldEarly, Answered
  <2>2. QED
    BY <1>r, <2>1 DEF OrderShape
<1>10. CASE BrokerPrices
  <2>1. /\ pc = "proposal" /\ pc' = pc
        /\ UNCHANGED <<active, attempt, orders, contract>>
    BY <1>10 DEF BrokerPrices
  <2>2. \A o \in orders : ~o.awaited
    BY <1>o, <2>1 DEF OrderShape
  <2>3. QED
    BY <2>1, <2>2 DEF OrderShape
<1>11. ASSUME NEW o \in orders, BrokerSells(o) PROVE OrderShape'
  <2>1. /\ o.op = "buy" /\ orders' = orders \ {o}
        /\ contract' = [contract EXCEPT ![o.id] = "live"]
        /\ UNCHANGED <<pc, active, attempt>>
        /\ o.awaited \/ answer' = answer
    BY <1>11 DEF BrokerSells, Reply
  <2>2. contract[o.id] = "none" /\ o.id \in Attempts /\ (pc = "proposal" => o.id # active)
    BY <1>o, <2>1 DEF OrderShape
  <2>3. \A p \in orders' : p.awaited => answer' = "none"
    <3> SUFFICES ASSUME NEW p \in orders', p.awaited PROVE answer' = "none"
      OBVIOUS
    <3>1. p \in orders /\ p # o /\ answer = "none" /\ p.op = pc /\ p.id = active
      BY <2>1 DEF OrderShape
    <3>2. CASE o.awaited
      <4>1. o.op = p.op /\ o.id = p.id /\ o.awaited = p.awaited
        BY <1>t, <3>1, <3>2, OrderFields DEF OrderShape
      <4>2. QED
        BY <1>t, <3>1, <4>1, SameOrder
    <3>3. QED
      BY <2>1, <3>1, <3>2
  <2>4. \A p \in orders' : p.op = "buy" => contract'[p.id] = "none"
    BY <1>o, <1>t, <2>1, <2>2 DEF OrderShape
  <2>5. pc = "proposal" => contract'[active] = "none"
    BY <1>t, <2>1, <2>2, <1>c DEF OrderShape
  <2>6. pc = "buy" /\ answer' = "ok" => contract'[active] # "none"
    <3>1. CASE o.awaited
      BY <1>t, <2>1, <2>2, <3>1 DEF OrderShape
    <3>2. CASE ~o.awaited
      BY <1>t, <2>1, <2>2, <3>2 DEF OrderShape
    <3>3. QED
      BY <3>1, <3>2
  <2>7. pc = "sell" /\ answer' = "ok" => contract'[active] = "sold"
    BY <1>t, <2>1, <2>2 DEF OrderShape
  <2>8. QED
    BY <2>1, <2>3, <2>4, <2>5, <2>6, <2>7 DEF OrderShape
<1>12. ASSUME NEW o \in orders, BrokerRefuses(o) PROVE OrderShape'
  <2>1. /\ orders' = orders \ {o} /\ UNCHANGED <<pc, active, attempt, contract>>
        /\ answer' = answer \/ (o.awaited /\ answer' = "error")
    BY <1>12 DEF BrokerRefuses, Reply
  <2>2. \A p \in orders' : p.awaited => answer' = "none"
    <3> SUFFICES ASSUME NEW p \in orders', p.awaited PROVE answer' = "none"
      OBVIOUS
    <3>1. p \in orders /\ p # o /\ answer = "none" /\ p.op = pc /\ p.id = active
      BY <2>1 DEF OrderShape
    <3>2. CASE o.awaited
      <4>1. o.op = p.op /\ o.id = p.id /\ o.awaited = p.awaited
        BY <1>t, <3>1, <3>2, OrderFields DEF OrderShape
      <4>2. QED
        BY <1>t, <3>1, <4>1, SameOrder
    <3>3. QED
      BY <2>1, <3>1, <3>2
  <2>3. QED
    BY <2>1, <2>2 DEF OrderShape
<1>13. ASSUME NEW o \in orders, BrokerBuysBack(o) PROVE OrderShape'
  <2>1. /\ o.op = "sell" /\ contract[o.id] = "live" /\ orders' = orders \ {o}
        /\ contract' = [contract EXCEPT ![o.id] = "sold"]
        /\ UNCHANGED <<pc, active, attempt>>
        /\ answer' = answer \/ (o.awaited /\ answer' = "ok")
    BY <1>13 DEF BrokerBuysBack, Reply
  <2>2. \A p \in orders' : p.awaited => answer' = "none"
    <3> SUFFICES ASSUME NEW p \in orders', p.awaited PROVE answer' = "none"
      OBVIOUS
    <3>1. p \in orders /\ p # o /\ answer = "none" /\ p.op = pc /\ p.id = active
      BY <2>1 DEF OrderShape
    <3>2. CASE o.awaited
      <4>1. o.op = p.op /\ o.id = p.id /\ o.awaited = p.awaited
        BY <1>t, <3>1, <3>2, OrderFields DEF OrderShape
      <4>2. QED
        BY <1>t, <3>1, <4>1, SameOrder
    <3>3. QED
      BY <2>1, <3>1, <3>2
  <2>3. o.id \in Attempts
    BY <1>o
  <2>4. \A p \in orders' : p.op = "buy" => contract'[p.id] = "none"
    BY <1>o, <1>t, <2>1 DEF OrderShape
  <2>5. pc = "proposal" => contract'[active] = "none"
    BY <1>t, <2>1, <2>3 DEF OrderShape
  <2>6. pc = "buy" /\ answer' = "ok" => contract'[active] # "none"
    BY <1>t, <2>1, <2>3 DEF OrderShape
  <2>7. pc = "sell" /\ answer' = "ok" => contract'[active] = "sold"
    BY <1>t, <2>1, <2>3 DEF OrderShape
  <2>8. QED
    BY <2>1, <2>2, <2>4, <2>5, <2>6, <2>7 DEF OrderShape
<1>14. CASE Second
  <2>1. /\ UNCHANGED <<pc, answer, active, attempt, orders>>
        /\ contract' = [a \in Attempts |->
             IF Live(a) /\ lifeLeft[a] = 1 THEN "expired" ELSE contract[a]]
    BY <1>14 DEF Second
  <2>2. \A a \in Attempts : contract[a] # "live" => contract'[a] = contract[a]
    BY <2>1 DEF Live
  <2>3. \A a \in Attempts : contract[a] # "none" => contract'[a] # "none"
    BY <2>1
  <2>4. pc \in {"proposal", "buy", "sell"} => active \in Attempts
    BY <1>c DEF CallShape
  <2>5. QED
    BY <1>o, <2>1, <2>2, <2>3, <2>4 DEF OrderShape
<1>15. CASE Crash
  BY <1>15, UnawaitedShape DEF Crash, Answered
<1>16. CASE Authorized \/ Drop \/ UNCHANGED vars
  BY <1>16, <1>0 DEF Authorized, Drop, vars
<1>17. QED
  BY <1>1, <1>2, <1>3, <1>4, <1>5, <1>6, <1>7, <1>8, <1>9, <1>10, <1>11, <1>12,
     <1>13, <1>14, <1>15, <1>16
  DEF Next, Executor, Broker

-------------------------------------------------------------------------------
(* Contracts and results *)

\* Every step keeps contracts to opportunities that were taken up.
LEMMA ContractStep == IInv /\ [Next]_vars => ContractShape'
<1> SUFFICES ASSUME TypeOK, CallShape, EngineShape, PendingIsOpenTrade, OrderShape,
                    ContractShape, [Next]_vars
             PROVE  ContractShape'
  BY DEF IInv
<1>t. /\ attempt \in 0..MaxAttempts /\ active \in 0..MaxAttempts
      /\ orders \subseteq Orders
      /\ contract \in [Attempts -> {"none", "live", "sold", "expired"}]
      /\ lifeLeft \in [Attempts -> 0..ContractLife]
      /\ held \subseteq Attempts
  BY DEF TypeOK
<1>o. \A o \in orders : o.op \in {"buy", "sell"} /\ o.id \in Attempts
  BY <1>t, OrderFields
<1> USE SpanAssumption DEF connectionVars, callVars, traderVars, brokerVars
<1>0. ASSUME UNCHANGED <<attempt, brokerVars, held>> PROVE ContractShape'
  BY <1>0 DEF ContractShape, Live
<1>1. CASE Signal
  <2>1. attempt' = attempt + 1 /\ UNCHANGED <<brokerVars, held>>
    BY <1>1 DEF Signal
  <2>2. QED
    BY <1>t, <2>1 DEF ContractShape, Live, Attempts
<1>2. CASE BuyReceived
  <2>1. /\ contract[active] # "none" /\ held' = held \union {active}
        /\ UNCHANGED <<attempt, brokerVars>>
    BY <1>2 DEF BuyReceived, OpenTrade, OrderShape
  <2>2. QED
    BY <2>1 DEF ContractShape, Live
<1>3. ASSUME NEW o \in orders, BrokerSells(o) PROVE ContractShape'
  <2>1. /\ o.id \in Attempts /\ o.id <= attempt
        /\ contract' = [contract EXCEPT ![o.id] = "live"]
        /\ lifeLeft' = [lifeLeft EXCEPT ![o.id] = ContractLife]
        /\ UNCHANGED <<attempt, held>>
    BY <1>3, <1>o DEF BrokerSells, OrderShape
  <2>2. \A a \in Attempts : a # o.id => contract'[a] = contract[a] /\ lifeLeft'[a] = lifeLeft[a]
    BY <1>t, <2>1
  <2>3. contract'[o.id] = "live" /\ lifeLeft'[o.id] > 0
    BY <1>t, <2>1
  <2>4. \A a \in Attempts : a > attempt' => a # o.id
    BY <1>t, <2>1 DEF Attempts
  <2>5. QED
    BY <1>t, <2>1, <2>2, <2>3, <2>4 DEF ContractShape, Live
<1>4. ASSUME NEW o \in orders, BrokerBuysBack(o) PROVE ContractShape'
  <2>1. /\ o.id \in Attempts /\ contract[o.id] = "live"
        /\ contract' = [contract EXCEPT ![o.id] = "sold"]
        /\ lifeLeft' = [lifeLeft EXCEPT ![o.id] = 0]
        /\ UNCHANGED <<attempt, held>>
    BY <1>4, <1>o DEF BrokerBuysBack
  <2>2. \A a \in Attempts : a # o.id => contract'[a] = contract[a] /\ lifeLeft'[a] = lifeLeft[a]
    BY <1>t, <2>1
  <2>3. contract'[o.id] = "sold" /\ ~(o.id > attempt)
    BY <1>t, <2>1 DEF ContractShape
  <2>4. QED
    BY <1>t, <2>1, <2>2, <2>3 DEF ContractShape, Live
<1>5. CASE Second
  <2>1. /\ \A a \in Attempts :
             /\ contract'[a] = IF Live(a) /\ lifeLeft[a] = 1 THEN "expired" ELSE contract[a]
             /\ lifeLeft'[a] = IF Live(a) THEN lifeLeft[a] - 1 ELSE 0
        /\ UNCHANGED <<attempt, held>>
    BY <1>5 DEF Second
  <2>2. ASSUME NEW a \in Attempts, Live(a)' PROVE lifeLeft'[a] > 0
    BY <1>t, <2>1, <2>2 DEF ContractShape, Live
  <2>3. QED
    BY <1>t, <2>1, <2>2 DEF ContractShape, Live
<1>6. CASE Crash
  BY <1>6 DEF Crash, ContractShape, Live
<1>7. CASE \/ Connect \/ Authorized \/ Disconnected
           \/ EntryRefused \/ EntryTimeout \/ EntryUnexpected
           \/ ProposalReceived \/ BuyReceivedMonitorFails
           \/ \E a \in Attempts : SellEarly(a) \/ ContractEnded(a)
           \/ SoldEarly \/ SaleFails
  BY <1>7, <1>0
  DEF Connect, Authorized, Disconnected, EntryRefused, EntryTimeout, EntryUnexpected,
      FailEntry, ProposalReceived, BuyReceivedMonitorFails, SellEarly, ContractEnded,
      SoldEarly, SaleFails
<1>8. CASE BrokerPrices \/ (\E o \in orders : BrokerRefuses(o)) \/ Drop
  BY <1>8, <1>0 DEF BrokerPrices, BrokerRefuses, Drop
<1>9. CASE UNCHANGED vars
  BY <1>9, <1>0 DEF vars
<1>10. QED
  BY <1>1, <1>2, <1>3, <1>4, <1>5, <1>6, <1>7, <1>8, <1>9
  DEF Next, Executor, Broker

\* No step applies a second result: a position is released as its result is
\* applied, and only a new opportunity is taken up.
LEMMA RealizedStep == IInv /\ [Next]_vars => RealizedShape'
<1> SUFFICES ASSUME TypeOK, CallShape, EngineShape, PendingIsOpenTrade, OrderShape,
                    ContractShape, RealizedShape, [Next]_vars
             PROVE  RealizedShape'
  BY DEF IInv
<1>t. /\ attempt \in 0..MaxAttempts /\ active \in 0..MaxAttempts
      /\ position \in 0..MaxAttempts /\ orders \subseteq Orders
      /\ contract \in [Attempts -> {"none", "live", "sold", "expired"}]
      /\ realized \in [Attempts -> Nat]
  BY DEF TypeOK
<1>o. \A o \in orders : o.op \in {"buy", "sell"} /\ o.id \in Attempts
  BY <1>t, OrderFields
<1> USE AttemptsAssumption
    DEF None, Answered, Ask,
        connectionVars, callVars, traderVars, engineVars, brokerVars
\* Contracts that have ended stay so.
<1>e. \A a \in Attempts : contract[a] \in {"sold", "expired"} => contract'[a] = contract[a]
  <2>1. ASSUME NEW o \in orders, BrokerSells(o) \/ BrokerBuysBack(o), NEW a \in Attempts,
               contract[a] \in {"sold", "expired"}
        PROVE  contract'[a] = contract[a]
    BY <1>t, <1>o, <2>1 DEF BrokerSells, BrokerBuysBack, OrderShape
  <2>2. CASE Second
    BY <2>2, <1>t DEF Second, Live
  <2>3. CASE UNCHANGED contract
    BY <2>3
  <2>4. UNCHANGED contract \/ Second \/ \E o \in orders : BrokerSells(o) \/ BrokerBuysBack(o)
    BY DEF Next, Executor, Broker, Connect, Authorized, Disconnected, Signal, EntryRefused,
           EntryTimeout, EntryUnexpected, FailEntry, ProposalReceived, BuyReceived,
           OpenTrade, BuyReceivedMonitorFails, SellEarly, ContractEnded, SoldEarly,
           SaleFails, BrokerPrices, BrokerRefuses, Drop, Crash, vars
  <2>5. QED
    BY <2>1, <2>2, <2>3, <2>4
\* The mode stays.
<1>d. dryRun' = dryRun
  <2>1. CASE Executor
    BY <2>1
    DEF Executor, Connect, Authorized, Disconnected, Signal, EntryRefused,
        EntryTimeout, EntryUnexpected, FailEntry, ProposalReceived, BuyReceived,
        OpenTrade, BuyReceivedMonitorFails, SellEarly, ContractEnded, SoldEarly, SaleFails,
        telemetryVars
  <2>2. CASE Broker \/ Drop \/ Second \/ Crash \/ UNCHANGED vars
    BY <2>2
    DEF Broker, BrokerPrices, BrokerSells, BrokerRefuses, BrokerBuysBack, Drop,
        Second, Crash, vars, telemetryVars
  <2> QED BY <2>1, <2>2 DEF Next
\* A step that applies no result and opens nothing.
<1>0. ASSUME UNCHANGED <<attempt, realized>>,
             position' \in {None, position},
             Entering' => Entering /\ active' = active
      PROVE  RealizedShape'
  BY <1>0, <1>d, <1>e DEF RealizedShape, RealizedOnce
<1>1. CASE Signal
  <2> DEFINE a == attempt + 1
  <2>1. /\ position = None /\ pc = "select" /\ a \in Attempts /\ attempt' = a
        /\ realized[a] = 0 /\ contract' = contract
    BY <1>1, <1>t, SignalIdle, SignalCases DEF Signal, Listening, RealizedShape, Attempts
  <2>2. CASE dryRun /\ DryRunTrade(a)
    <3>1. \/ realized' = [realized EXCEPT ![a] = @ + 1] /\ position' = None
          \/ realized' = realized /\ position' = a
      BY <2>1, <2>2 DEF DryRunTrade
    <3>2. pc' = "select"
      BY <2>1, <2>2 DEF DryRunTrade
    <3>3. \A b \in Attempts : b > attempt' => realized'[b] = 0
      BY <1>t, <2>1, <3>1 DEF RealizedShape, Attempts
    <3>4. RealizedOnce'
      BY <1>d, <1>t, <2>1, <2>2, <3>1 DEF RealizedShape, RealizedOnce
    <3>5. position' # None => realized'[position'] = 0
      BY <2>1, <3>1
    <3>6. QED
      BY <3>2, <3>3, <3>4, <3>5 DEF RealizedShape, Entering
  <2>3. CASE StartPricing(a)
    <3>1. pc' = "proposal" /\ active' = a /\ UNCHANGED <<position, realized>>
      BY <2>3 DEF StartPricing
    <3>2. \A b \in Attempts : b > attempt' => realized'[b] = 0
      BY <1>t, <2>1, <3>1 DEF RealizedShape, Attempts
    <3>3. QED
      BY <1>d, <1>e, <2>1, <3>1, <3>2 DEF RealizedShape, RealizedOnce
  <2>4. QED
    BY <1>1, <2>2, <2>3, SignalCases
<1>2. CASE BuyReceived
  <2>1. /\ position' = active /\ pc' = "select" /\ UNCHANGED <<attempt, realized>>
        /\ realized[active] = 0
    BY <1>2 DEF BuyReceived, OpenTrade, EngineOpened, RealizedShape, Entering
  <2>2. QED
    BY <1>d, <1>e, <2>1 DEF RealizedShape, RealizedOnce, Entering
<1>3. CASE SoldEarly \/ \E a \in Attempts : ContractEnded(a)
  <2>1. PICK t \in {"settled", "closed_early"} : SettleTrade(t)
    BY <1>3 DEF SoldEarly, ContractEnded
  <2>2. /\ pc' = "select" /\ attempt' = attempt /\ contract' = contract
    BY <1>3 DEF SoldEarly, ContractEnded, Listening
  <2>3. CASE UNCHANGED engineVars
    BY <2>2, <2>3, <1>0 DEF Entering
  <2>4. CASE pending # None /\ position' = None /\ EngineClosed
    <3>1. fsm = "Open" /\ position = active /\ active \in Attempts /\ active = attempt
      BY <2>4, <1>t DEF PendingIsOpenTrade, EngineShape, OpenTradeIsGated, CallShape, Attempts
    <3>2. contract[active] \in {"sold", "expired"}
      BY <1>3 DEF SoldEarly, ContractEnded, Tracks, OrderShape
    <3>3. realized' = [realized EXCEPT ![active] = @ + 1] /\ realized[active] = 0
      BY <2>4, <3>1 DEF EngineClosed, RealizedShape, Attempts
    <3>4. RealizedOnce'
      BY <1>d, <1>t, <2>2, <3>1, <3>2, <3>3 DEF RealizedShape, RealizedOnce
    <3>5. \A b \in Attempts : b > attempt' => realized'[b] = 0
      BY <1>t, <2>2, <3>1, <3>3 DEF RealizedShape, Attempts
    <3>6. QED
      BY <2>2, <2>4, <3>4, <3>5 DEF RealizedShape, Entering
  <2>5. QED
    BY <2>1, <2>3, <2>4, SettleCases
<1>4. CASE Disconnected
  <2>1. position' \in {None, position} /\ realized' = realized
    BY <1>4 DEF Disconnected, EngineAborted, EngineReleases
  <2>2. QED
    BY <1>4, <2>1, <1>0 DEF Disconnected, Entering
<1>5. CASE \/ Connect \/ Authorized
           \/ EntryRefused \/ EntryTimeout \/ EntryUnexpected
           \/ ProposalReceived \/ BuyReceivedMonitorFails
           \/ (\E a \in Attempts : SellEarly(a)) \/ SaleFails
  BY <1>5, <1>0
  DEF Connect, Authorized, EntryRefused, EntryTimeout, EntryUnexpected, Entering,
      FailEntry, ProposalReceived, BuyReceivedMonitorFails, SellEarly, SaleFails
<1>6. CASE BrokerPrices \/ Drop \/ Second \/ Crash \/ UNCHANGED vars
           \/ \E o \in orders : BrokerSells(o) \/ BrokerRefuses(o) \/ BrokerBuysBack(o)
  BY <1>6, <1>0
  DEF BrokerPrices, Drop, Second, Crash, vars, BrokerSells, BrokerRefuses,
      BrokerBuysBack, Entering
<1>7. QED
  BY <1>1, <1>2, <1>3, <1>4, <1>5, <1>6 DEF Next, Executor, Broker

-------------------------------------------------------------------------------
(* The theorems *)

\* The initial state satisfies the inductive invariant.
LEMMA InitIInv == Init => IInv
<1> SUFFICES ASSUME Init PROVE IInv
  OBVIOUS
<1> USE AttemptsAssumption, SpanAssumption DEF Init, None, Attempts
<1>1. TypeOK
  <2>1. hasDb \in BOOLEAN
    BY DEF DbAtStart
  <2>2. NoRows \in Rows
    BY DEF NoRows, Rows, IntentStatuses, ExecutedTradeStatuses
  <2>3. QED
    BY <2>1, <2>2 DEF TypeOK, TradeStates
<1>2. CallShape /\ EngineShape /\ PendingIsOpenTrade
  BY DEF CallShape, EngineShape, PendingIsOpenTrade, OpenTradeIsGated, Entering
<1>3. OrderShape /\ ContractShape /\ RealizedShape
  BY DEF OrderShape, ContractShape, RealizedShape, RealizedOnce, Live, Entering
<1>4. QED
  BY <1>1, <1>2, <1>3 DEF IInv

\* Whatever the broker, the connection and the database do, the program is in
\* the inductive invariant: every handler of the select loop keeps it.
THEOREM Inductive == Spec => []IInv
<1>1. Init => IInv
  BY InitIInv
<1>2. IInv /\ [Next]_vars => IInv'
  BY TypeStep, CallStep, EngineStep, PendingStep, OrderStep, ContractStep, RealizedStep
  DEF IInv
<1>3. QED
  BY <1>1, <1>2, PTL DEF Spec

\* Every variable keeps its type. Type correctness is not inductive by itself:
\* a second takes one from the life of a live contract only.
THEOREM TypeCorrect == Spec => []TypeOK
BY Inductive, PTL DEF IInv

\* A trade the executor holds open is the one the engine holds, whatever fails.
THEOREM OpenTradeGated == Spec => []OpenTradeIsGated
<1>1. IInv => OpenTradeIsGated
  BY DEF IInv, EngineShape
<1>2. QED
  BY <1>1, Inductive, PTL

\* The branch of the tick handler that rejects a signal because the trader is
\* busy is never taken.
THEOREM SignalsFindIdle == Spec => []SignalFindsIdleTrader
<1>1. IInv => SignalFindsIdleTrader
  BY DEF IInv, TypeOK, TradeStates, CallShape, EngineShape, OpenTradeIsGated,
         SignalFindsIdleTrader, EngineSignals
<1>2. QED
  BY <1>1, Inductive, PTL

\* A pending execution is the open trade's, and its rows are complete and open.
THEOREM PendingIsOpen == Spec => []PendingIsOpenTrade
<1>1. IInv => PendingIsOpenTrade
  BY DEF IInv
<1>2. QED
  BY <1>1, Inductive, PTL

\* Each opportunity's result reaches the risk counters at most once, and only
\* after its contract has ended (or in a dry run).
THEOREM ResultsRealizedOnce == Spec => []RealizedOnce
<1>1. IInv => RealizedOnce
  BY DEF IInv, RealizedShape
<1>2. QED
  BY <1>1, Inductive, PTL
===============================================================================
