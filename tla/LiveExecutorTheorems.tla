------------------------- MODULE LiveExecutorTheorems -------------------------
(***************************************************************************)
(* What holds of the live executor beyond its inductive invariant: the     *)
(* life of a trade row, what holds while the pause outlasts a contract or  *)
(* while telemetry works, and that the executor implements TradeAttempts.  *)
(***************************************************************************)
EXTENDS LiveExecutorProofs

-------------------------------------------------------------------------------
(* The pause outlasts the contract *)

\* While a contract lives no longer than the pause, every contract the engine
\* has held ends before its next signal.
LEMMA PauseStep ==
  ASSUME ContractLife <= Pause
  PROVE  IInv /\ PauseOutlastsContract /\ [Next]_vars => PauseOutlastsContract'
<1> SUFFICES ASSUME TypeOK, CallShape, EngineShape, PendingIsOpenTrade, OrderShape,
                    ContractShape, PauseOutlastsContract, [Next]_vars
             PROVE  PauseOutlastsContract'
  BY DEF IInv
<1>t. /\ pauseLeft \in 0..Pause + 1 /\ orders \subseteq Orders
      /\ contract \in [Attempts -> {"none", "live", "sold", "expired"}]
      /\ lifeLeft \in [Attempts -> 0..ContractLife]
      /\ held \subseteq Attempts
  BY DEF TypeOK
<1>o. \A o \in orders : o.op \in {"buy", "sell"} /\ o.id \in Attempts
  BY <1>t, OrderFields
<1> USE SpanAssumption
    DEF PauseFromNow, Answered, Ask, connectionVars, callVars, traderVars, engineVars,
        brokerVars
\* A step that leaves the contracts alone, restarts the pause or keeps it, and
\* starts no entry.
<1>0. ASSUME UNCHANGED <<brokerVars, held>>,
             pauseLeft' \in {pauseLeft, Pause + 1},
             Entering' => Entering
      PROVE  PauseOutlastsContract'
  <2>1. \A a \in held' : Live(a)' => lifeLeft'[a] < pauseLeft'
    BY <1>0, <1>t DEF PauseOutlastsContract, Live
  <2>2. QED
    BY <1>0, <2>1 DEF PauseOutlastsContract, OneHeldContractAlive, Live
<1>1. CASE Signal
  <2>1. pauseLeft = 0 /\ UNCHANGED <<brokerVars, held>> /\ pc = "select"
    BY <1>1 DEF Signal, EngineSignals, Listening
  <2>2. \A a \in held : ~Live(a)
    BY <1>t, <2>1 DEF PauseOutlastsContract
  <2>3. QED
    BY <2>1, <2>2 DEF PauseOutlastsContract, OneHeldContractAlive, Live
<1>2. CASE BuyReceived
  <2>1. /\ held' = held \union {active} /\ pauseLeft' = Pause + 1
        /\ UNCHANGED brokerVars /\ pc' = "select"
        /\ \A a \in held : ~Live(a)
    BY <1>2 DEF BuyReceived, OpenTrade, EngineOpened, PauseOutlastsContract, Entering
  <2>2. \A a \in Attempts : lifeLeft[a] <= ContractLife
    BY <1>t
  <2>3. active \in Attempts
    BY <1>2, AttemptsAssumption
    DEF BuyReceived, CallShape, TypeOK, Attempts, None
  <2>4. \A a \in held' : Live(a)' => a = active
    BY <2>1 DEF Live
  <2>5. lifeLeft'[active] < pauseLeft'
    BY <1>t, <2>1, <2>2, <2>3
  <2>6. QED
    BY <2>1, <2>4, <2>5 DEF PauseOutlastsContract, OneHeldContractAlive, Entering
<1>3. ASSUME NEW o \in orders, BrokerSells(o) PROVE PauseOutlastsContract'
  <2>1. /\ o.id \in Attempts /\ o.id \notin held
        /\ contract' = [contract EXCEPT ![o.id] = "live"]
        /\ lifeLeft' = [lifeLeft EXCEPT ![o.id] = ContractLife]
        /\ UNCHANGED <<pauseLeft, held, pc>>
    BY <1>3, <1>o DEF BrokerSells, OrderShape, ContractShape
  <2>2. \A a \in held : contract'[a] = contract[a] /\ lifeLeft'[a] = lifeLeft[a]
    BY <1>t, <2>1
  <2>3. QED
    BY <2>1, <2>2 DEF PauseOutlastsContract, OneHeldContractAlive, Entering, Live
<1>4. ASSUME NEW o \in orders, BrokerBuysBack(o) PROVE PauseOutlastsContract'
  <2>1. /\ o.id \in Attempts
        /\ contract' = [contract EXCEPT ![o.id] = "sold"]
        /\ lifeLeft' = [lifeLeft EXCEPT ![o.id] = 0]
        /\ UNCHANGED <<pauseLeft, held, pc>>
    BY <1>4, <1>o DEF BrokerBuysBack
  <2>2. \A a \in held : contract'[a] = "live" =>
          contract[a] = "live" /\ lifeLeft'[a] = lifeLeft[a]
    BY <1>t, <2>1
  <2>3. QED
    BY <2>1, <2>2 DEF PauseOutlastsContract, OneHeldContractAlive, Entering, Live
<1>5. CASE Second
  <2>1. /\ \A a \in Attempts :
             /\ contract'[a] = IF Live(a) /\ lifeLeft[a] = 1 THEN "expired" ELSE contract[a]
             /\ lifeLeft'[a] = IF Live(a) THEN lifeLeft[a] - 1 ELSE 0
        /\ pauseLeft' = IF pauseLeft > 0 THEN pauseLeft - 1 ELSE 0
        /\ UNCHANGED <<held, pc>>
    BY <1>5 DEF Second
  <2>2. \A a \in held : Live(a)' => Live(a)
    BY <1>t, <2>1 DEF Live
  <2>3. \A a \in held : Live(a) => lifeLeft[a] < pauseLeft
    BY DEF PauseOutlastsContract
  <2>4. \A a \in held : Live(a)' => lifeLeft'[a] < pauseLeft'
    BY <1>t, <2>1, <2>2, <2>3
  <2>5. QED
    BY <2>1, <2>2, <2>4 DEF PauseOutlastsContract, OneHeldContractAlive, Entering
<1>6. CASE Crash
  BY <1>6 DEF Crash, PauseOutlastsContract, OneHeldContractAlive, Entering
<1>7. CASE SoldEarly \/ \E a \in Attempts : ContractEnded(a)
  <2>1. PICK t \in {"settled", "closed_early"} : SettleTrade(t)
    BY <1>7 DEF SoldEarly, ContractEnded
  <2>2. pauseLeft' = pauseLeft /\ UNCHANGED <<brokerVars, held>> /\ pc' = "select"
    BY <1>7, <2>1, SettleCases DEF SoldEarly, ContractEnded, Listening
  <2>3. QED
    BY <2>2, <1>0 DEF Entering
<1>8. CASE \/ Connect \/ Authorized \/ Disconnected
           \/ EntryRefused \/ EntryTimeout \/ EntryUnexpected
           \/ ProposalReceived \/ BuyReceivedMonitorFails
           \/ (\E a \in Attempts : SellEarly(a)) \/ SaleFails
  BY <1>8, <1>0
  DEF Connect, Authorized, Disconnected, EngineAborted, EntryRefused, EntryTimeout,
      EntryUnexpected, FailEntry, ProposalReceived, BuyReceivedMonitorFails, SellEarly,
      SaleFails, Entering
<1>9. CASE BrokerPrices \/ (\E o \in orders : BrokerRefuses(o)) \/ Drop \/ UNCHANGED vars
  BY <1>9, <1>0 DEF BrokerPrices, BrokerRefuses, Drop, vars, Entering
<1>10. QED
  BY <1>1, <1>2, <1>3, <1>4, <1>5, <1>6, <1>7, <1>8, <1>9 DEF Next, Executor, Broker

\* The duration the engine pauses for is at least the broker's: then at most one
\* of the contracts the engine was told of is alive, through any disconnect that
\* makes it forget one. A contract whose entry failed after the buy is not one
\* of them. This is where DERIV_DURATION_UNIT matters: the code pauses for
\* seconds.
THEOREM OneHeldAlive ==
  ASSUME ContractLife <= Pause
  PROVE  Spec => []OneHeldContractAlive
<1>1. Init => PauseOutlastsContract
  BY DEF Init, PauseOutlastsContract, OneHeldContractAlive, Entering
<1>2. IInv /\ PauseOutlastsContract /\ [Next]_vars => PauseOutlastsContract'
  BY PauseStep
<1>3. PauseOutlastsContract => OneHeldContractAlive
  BY DEF PauseOutlastsContract
<1>4. QED
  BY <1>1, <1>2, <1>3, Inductive, PTL DEF Spec

-------------------------------------------------------------------------------
(* While telemetry works, gating and trader agree *)

\* While every insert succeeds, each step moves trader, engine and pending
\* execution together.
LEMMA GatingStep ==
  ASSUME "telemetry" \notin Faults
  PROVE  IInv /\ GatingShape /\ [Next]_vars => GatingShape'
<1> SUFFICES ASSUME TypeOK, CallShape, EngineShape, PendingIsOpenTrade,
                    GatingShape, [Next]_vars
             PROVE  GatingShape'
  BY DEF IInv
<1>i. \A k \in 0..3 : Inserts(k) = {k}
  BY DEF Inserts, GatingShape
<1> USE DEF None, Answered, Ask, Reset, connectionVars, callVars, traderVars, engineVars,
            telemetryVars
<1>0. ASSUME UNCHANGED <<fsm, active, position, pending, hasDb>> PROVE GatingShape'
  BY <1>0 DEF GatingShape, GatingMatchesTrader
\* Without a position and a trade there is nothing to agree on.
<1>n. ASSUME hasDb', position' = None, fsm' # "Open" PROVE GatingShape'
  BY <1>n DEF GatingShape, GatingMatchesTrader
<1>1. CASE Connect
  <2>1. position = None
    BY <1>1 DEF Connect, CallShape, GatingShape, GatingMatchesTrader
  <2>2. QED
    BY <1>1, <1>n, <2>1 DEF Connect, GatingShape
<1>2. CASE Disconnected
  <2>1. CASE fsm # "Idle"
    <3>1. position' = None /\ fsm' = "Idle" /\ hasDb' = hasDb
      BY <1>2, <2>1, ReleasesAll DEF Disconnected, EngineAborted
    <3>2. QED
      BY <1>n, <3>1 DEF GatingShape
  <2>2. CASE fsm = "Idle"
    BY <1>2, <2>2, <1>0 DEF Disconnected
  <2>3. QED
    BY <2>1, <2>2
<1>3. CASE Signal
  <2>1. /\ position = None /\ fsm = "Idle" /\ hasDb' = hasDb
    BY <1>3, SignalIdle DEF Signal
  <2>2. CASE DryRunTrade(attempt + 1)
    <3>1. position' = position /\ fsm' = fsm
      BY <1>i, <2>2 DEF DryRunTrade
    <3>2. QED
      BY <2>1, <3>1, <1>n DEF GatingShape
  <2>3. CASE StartPricing(attempt + 1)
    BY <2>1, <2>3, <1>n DEF StartPricing, GatingShape
  <2>4. QED
    BY <1>3, <2>2, <2>3, SignalCases
<1>4. CASE EntryRefused \/ EntryTimeout \/ EntryUnexpected \/ BuyReceivedMonitorFails
  BY <1>4, <1>n DEF EntryRefused, EntryTimeout, EntryUnexpected, Entering, EngineShape,
                    BuyReceivedMonitorFails, FailEntry, GatingShape
<1>5. CASE ProposalReceived
  BY <1>5, <1>n DEF ProposalReceived, EngineShape, Entering, GatingShape
<1>6. CASE BuyReceived
  <2>1. /\ position' = active /\ fsm' = "Open" /\ active' = active /\ active # None
        /\ hasDb' = hasDb
    BY <1>6 DEF BuyReceived, OpenTrade, EngineOpened, CallShape
  <2>2. pending' = active
    BY <1>6, <1>i DEF BuyReceived, OpenTrade, GatingShape
  <2>3. QED
    BY <2>1, <2>2 DEF GatingShape, GatingMatchesTrader
<1>7. CASE SoldEarly \/ \E a \in Attempts : ContractEnded(a)
  <2>1. PICK t \in {"settled", "closed_early"} : SettleTrade(t)
    BY <1>7 DEF SoldEarly, ContractEnded
  <2>2. fsm = "Open" /\ fsm' = "Idle" /\ hasDb' = hasDb
    BY <1>7 DEF SoldEarly, ContractEnded, Tracks, CallShape
  <2>3. pending # None
    BY <2>2 DEF GatingShape, CallShape
  <2>4. position' = None
    BY <2>1, <2>3, SettleCases
  <2>5. QED
    BY <2>2, <2>4, <1>n DEF GatingShape
<1>8. CASE Crash
  BY <1>8, <1>n DEF Crash, DbAtStart
<1>9. CASE Authorized \/ SaleFails \/ Drop \/ Second \/ \E a \in Attempts : SellEarly(a)
  BY <1>9, <1>0 DEF Authorized, SaleFails, Drop, Second, SellEarly
<1>10. CASE Broker \/ UNCHANGED vars
  BY <1>10, <1>0
  DEF Broker, BrokerPrices, BrokerSells, BrokerRefuses, BrokerBuysBack, vars
<1>11. QED
  BY <1>1, <1>2, <1>3, <1>4, <1>5, <1>6, <1>7, <1>8, <1>9, <1>10 DEF Next, Executor

\* As long as no write to the database fails, the engine holds a position
\* exactly while the trader has an open trade.
THEOREM GatingMatches ==
  ASSUME "telemetry" \notin Faults
  PROVE  Spec => []GatingMatchesTrader
<1>1. Init => GatingShape
  BY DEF Init, GatingShape, GatingMatchesTrader, DbAtStart
<1>2. IInv /\ GatingShape /\ [Next]_vars => GatingShape'
  BY GatingStep
<1>3. GatingShape => GatingMatchesTrader
  BY DEF GatingShape
<1>4. QED
  BY <1>1, <1>2, <1>3, Inductive, PTL DEF Spec

-------------------------------------------------------------------------------
(* The life of a trade row *)

\* What an update does to the trade rows: it changes at most the one named.
LEMMA UpdateRowsTrade ==
  ASSUME TypeOK, NEW a \in Attempts, NEW i, NEW t, UpdateRows(a, i, t)
  PROVE  /\ \A b \in Attempts : b # a => rows'[b].trade = rows[b].trade
         /\ rows'[a].trade \in {rows[a].trade, t}
<1>1. PICK iOk \in Updates, tOk \in Updates :
        rows' = [rows EXCEPT ![a].intent = IF iOk THEN i ELSE @,
                             ![a].trade  = IF tOk THEN t ELSE @]
  BY DEF UpdateRows
<1>2. rows \in [Attempts -> Rows]
  BY DEF TypeOK
<1>3. rows[a] \in Rows
  BY <1>2
<1>4. [rows[a] EXCEPT !.intent = IF iOk THEN i ELSE @,
                      !.trade  = IF tOk THEN t ELSE @].trade \in {rows[a].trade, t}
  BY <1>3 DEF Rows
<1>5. rows' = [rows EXCEPT ![a] = [rows[a] EXCEPT !.intent = IF iOk THEN i ELSE @,
                                                  !.trade  = IF tOk THEN t ELSE @]]
  BY <1>1
<1>6. QED
  BY <1>2, <1>4, <1>5

\* A failed or rejected entry leaves no trade row; the others come with three
\* inserts.
LEMMA WrittenTrade ==
  ASSUME NEW n \in 0..3, NEW i, NEW t
  PROVE  Written(n, i, t).trade = IF n = 3 THEN t ELSE "none"
BY DEF Written

\* A step writes no trade row, or one: of an entry that succeeds or is
\* simulated, or of the pending execution.
LEMMA RowCases ==
  ASSUME IInv, RowShape, [Next]_vars
  PROVE  \/ \A a \in Attempts : rows'[a].trade = rows[a].trade
         \/ \E b \in Attempts :
              /\ \A a \in Attempts : a # b => rows'[a].trade = rows[a].trade
              /\ \/ /\ rows[b].trade = "none"
                    /\ rows'[b].trade \in {"none", "open", "dry_run_open", "dry_run_settled"}
                    /\ b <= attempt'
                 \/ /\ rows[b].trade = "open"
                    /\ rows'[b].trade \in {"open", "settled", "closed_early", "aborted"}
                    /\ b <= attempt
              /\ pc' = "select"
<1>t. TypeOK /\ rows \in [Attempts -> Rows] /\ attempt \in 0..MaxAttempts
  BY DEF IInv, TypeOK
<1> USE DEF Answered, Ask, callVars, telemetryVars
<1>e. ASSUME Entering PROVE active \in Attempts /\ active = attempt /\ rows[active].trade = "none"
  BY <1>e, AttemptsAssumption
  DEF IInv, TypeOK, CallShape, Entering, Attempts, None, RowShape
<1>p. ASSUME pending # None
      PROVE  pending \in Attempts /\ pending <= attempt /\ rows[pending].trade = "open"
  <2>1. pending = active /\ fsm = "Open" /\ rows[pending] = Written(3, "submitted", "open")
    BY <1>p DEF IInv, PendingIsOpenTrade
  <2>2. pending \in Attempts /\ pending = attempt
    BY <1>p, <2>1, AttemptsAssumption DEF IInv, TypeOK, CallShape, None, Attempts
  <2>3. rows[pending].trade = "open"
    BY <2>1, WrittenTrade
  <2>4. QED
    BY <1>t, <2>2, <2>3
<1>0. CASE UNCHANGED rows
  BY <1>0
<1>u. ASSUME NEW t \in {"settled", "closed_early", "aborted"}, pending # None,
             UpdateRows(pending, "executed", t), pc' = "select"
      PROVE  \E b \in Attempts :
              /\ \A a \in Attempts : a # b => rows'[a].trade = rows[a].trade
              /\ rows[b].trade = "open"
              /\ rows'[b].trade \in {"open", "settled", "closed_early", "aborted"}
              /\ b <= attempt
  BY <1>u, <1>p, <1>t, UpdateRowsTrade
<1>1. CASE Disconnected
  <2>1. pc' = "select"
    BY <1>1 DEF Disconnected
  <2>2. CASE pending # None /\ UpdateRows(pending, "executed", "aborted")
    BY <2>1, <2>2, <1>u
  <2>3. QED
    BY <1>1, <1>0, <2>2 DEF Disconnected
<1>2. CASE SoldEarly \/ \E a \in Attempts : ContractEnded(a)
  <2>1. PICK t \in {"settled", "closed_early"} : SettleTrade(t)
    BY <1>2 DEF SoldEarly, ContractEnded
  <2>2. pc' = "select"
    BY <1>2 DEF SoldEarly, ContractEnded, Listening
  <2>3. CASE pending # None
    BY <2>1, <2>2, <2>3, <1>u DEF SettleTrade
  <2>4. QED
    BY <1>0, <2>1, <2>3 DEF SettleTrade
<1>3. CASE Signal
  <2> DEFINE a == attempt + 1
  <2>1. /\ a \in Attempts /\ attempt' = a /\ pc = "select"
        /\ rows[a].trade = "none"
    BY <1>3, <1>t, SignalCases DEF IInv, Signal, Listening, RowShape, Attempts
  <2>2. CASE DryRunTrade(a)
    <3>1. PICK n \in Inserts(3), t \in {"none", "dry_run_settled", "dry_run_open"} :
            rows' = [rows EXCEPT ![a] = Written(n, "dry_run_executed", t)]
      BY <2>2 DEF DryRunTrade
    <3>2. n \in 0..3
      BY InsertsType
    <3>3. rows'[a].trade \in {"none", "dry_run_open", "dry_run_settled"}
      BY <1>t, <2>1, <3>1, <3>2, WrittenTrade
    <3>4. \A b \in Attempts : b # a => rows'[b].trade = rows[b].trade
      BY <1>t, <3>1
    <3>5. pc' = "select" /\ a <= attempt'
      BY <2>1, <2>2, <1>t DEF DryRunTrade
    <3>6. QED
      BY <2>1, <3>3, <3>4, <3>5
  <2>3. CASE StartPricing(a)
    BY <2>3, <1>0 DEF StartPricing
  <2>4. QED
    BY <1>3, <2>2, <2>3, SignalCases DEF IInv
<1>4. CASE FailEntry /\ Entering
  <2>1. PICK n \in Inserts(2) :
          rows' = [rows EXCEPT ![active] = Written(n, "execution_failed", "none")]
    BY <1>4 DEF FailEntry
  <2>2. n \in 0..3
    BY InsertsType
  <2>3. rows'[active].trade = "none"
    BY <1>t, <1>e, <1>4, <2>1, <2>2, WrittenTrade
  <2>4. \A b \in Attempts : b # active => rows'[b].trade = rows[b].trade
    BY <1>t, <2>1
  <2>5. QED
    BY <1>e, <1>4, <2>3, <2>4
<1>5. CASE BuyReceived
  <2>1. PICK n \in Inserts(3) :
          rows' = [rows EXCEPT ![active] = Written(n, "submitted", "open")]
    BY <1>5 DEF BuyReceived, OpenTrade
  <2>2. n \in 0..3 /\ pc' = "select" /\ attempt' = attempt /\ Entering
    BY <1>5, InsertsType DEF BuyReceived, OpenTrade, Entering
  <2>3. rows'[active].trade \in {"none", "open"}
    BY <1>t, <1>e, <2>1, <2>2, WrittenTrade
  <2>4. \A b \in Attempts : b # active => rows'[b].trade = rows[b].trade
    BY <1>t, <2>1
  <2>5. active <= attempt'
    BY <1>t, <1>e, <2>2
  <2>6. QED
    BY <1>e, <2>2, <2>3, <2>4, <2>5
<1>6. CASE Executor
  BY <1>6, <1>0, <1>1, <1>2, <1>3, <1>4, <1>5
  DEF Executor, Connect, Authorized, EntryRefused, EntryTimeout, EntryUnexpected,
      ProposalReceived, BuyReceivedMonitorFails, SellEarly, SaleFails, Entering
<1>7. CASE Broker \/ Drop \/ Second \/ Crash \/ UNCHANGED vars
  BY <1>7, <1>0
  DEF Broker, BrokerPrices, BrokerSells, BrokerRefuses, BrokerBuysBack, Drop, Second,
      Crash, vars
<1>8. QED
  BY <1>6, <1>7 DEF Next

\* Every step writes trade rows in the order of their life.
LEMMA RowStep == IInv /\ RowShape /\ [Next]_vars => RowShape' /\ TradeRowStep
<1> SUFFICES ASSUME IInv, RowShape, [Next]_vars PROVE RowShape' /\ TradeRowStep
  OBVIOUS
<1>t. /\ attempt \in 0..MaxAttempts /\ attempt' \in 0..MaxAttempts /\ attempt' >= attempt
      /\ Entering' => \/ Entering /\ active' = active
                      \/ active' = attempt + 1 /\ active' \in Attempts
  <2>1. CASE Signal
    BY <2>1, SignalCases
    DEF IInv, TypeOK, Attempts, DryRunTrade, StartPricing, Entering, Signal, Listening,
        callVars, traderVars
  <2>2. CASE UNCHANGED attempt /\ (Entering' => Entering /\ active' = active)
    <3>1. attempt \in 0..MaxAttempts
      BY DEF IInv, TypeOK
    <3>2. QED
      BY <2>2, <3>1
  <2>3. QED
    BY <2>1, <2>2
    DEF Next, Executor, Broker, Connect, Authorized, Disconnected, EntryRefused,
        EntryTimeout, EntryUnexpected, FailEntry, ProposalReceived, BuyReceived,
        OpenTrade, BuyReceivedMonitorFails, SellEarly, ContractEnded, SoldEarly,
        SaleFails, BrokerPrices, BrokerSells, BrokerRefuses, BrokerBuysBack, Drop,
        Second, Crash, vars, Entering, Answered, Ask, callVars, traderVars, Listening
<1>a. Entering => active \in Attempts /\ active = attempt
  BY AttemptsAssumption DEF IInv, TypeOK, CallShape, Entering, Attempts, None
<1>1. CASE \A a \in Attempts : rows'[a].trade = rows[a].trade
  BY <1>1, <1>t, <1>a DEF RowShape, TradeRowStep, Attempts
<1>2. ASSUME NEW b \in Attempts,
             \A a \in Attempts : a # b => rows'[a].trade = rows[a].trade,
             pc' = "select",
             \/ /\ rows[b].trade = "none"
                /\ rows'[b].trade \in {"none", "open", "dry_run_open", "dry_run_settled"}
                /\ b <= attempt'
             \/ /\ rows[b].trade = "open"
                /\ rows'[b].trade \in {"open", "settled", "closed_early", "aborted"}
                /\ b <= attempt
      PROVE  RowShape' /\ TradeRowStep
  <2>1. TradeRowStep
    BY <1>2 DEF TradeRowStep
  <2>2. b <= attempt'
    BY <1>2, <1>t DEF Attempts
  <2>3. \A a \in Attempts : a > attempt' => rows'[a].trade = "none"
    BY <1>2, <1>t, <2>2 DEF RowShape, Attempts
  <2>4. QED
    BY <1>2, <2>1, <2>3 DEF RowShape, Entering
<1>3. QED
  BY <1>1, <1>2, RowCases

\* A trade row appears open (or with a dry run's status) and is closed by one
\* later update; nothing else ever changes it.
THEOREM TradeRowsCloseOnce == Spec => TradeRowLifecycle
<1>1. Init => RowShape
  BY DEF Init, RowShape, NoRows, Entering
<1>2. IInv /\ RowShape /\ [Next]_vars => RowShape' /\ TradeRowStep
  BY RowStep
<1>3. QED
  BY <1>1, <1>2, Inductive, PTL DEF Spec, TradeRowLifecycle

-------------------------------------------------------------------------------
(* The executor implements TradeAttempts *)

\* Only the latest opportunity can be on trial or held.
LEMMA FateOf ==
  ASSUME TypeOK, CallShape, EngineShape, NEW a \in Attempts
  PROVE  Fate[a] = IF a > attempt THEN "unused"
                   ELSE IF a < attempt THEN "done"
                   ELSE IF position = a THEN "held"
                   ELSE IF Entering THEN "trying" ELSE "done"
<1>1. /\ position # None => position = attempt
      /\ active # None => active = attempt
      /\ Entering => active # None
  BY DEF EngineShape, CallShape, Entering
<1>2. a # None /\ a \in Int /\ attempt \in Int
  BY AttemptsAssumption DEF Attempts, None, TypeOK
<1>3. QED
  BY <1>1, <1>2 DEF Fate

\* Between two opportunities a step can only release the position, or end the
\* entry under way with or without one.
LEMMA EngineMoves ==
  ASSUME IInv, Next
  PROVE  \/ Signal
         \/ /\ attempt' = attempt
            /\ position' \in {None, position} \/ (Entering /\ position' = attempt)
            /\ Entering' => Entering
<1> USE DEF connectionVars, callVars, traderVars, engineVars, Answered, Ask, None, Entering
<1>1. CASE BuyReceived
  BY <1>1 DEF BuyReceived, OpenTrade, EngineOpened, IInv, CallShape
<1>2. CASE Disconnected
  BY <1>2 DEF Disconnected, EngineAborted, EngineReleases
<1>3. CASE SoldEarly \/ \E a \in Attempts : ContractEnded(a)
  BY <1>3 DEF SoldEarly, ContractEnded, SettleTrade, EngineClosed, EngineReleases, Listening
<1>4. CASE Executor
  BY <1>1, <1>2, <1>3, <1>4
  DEF Executor, Connect, Authorized, EntryRefused, EntryTimeout, EntryUnexpected,
      FailEntry, ProposalReceived, BuyReceivedMonitorFails, SellEarly, SaleFails
<1>5. CASE Broker \/ Drop \/ Second \/ Crash
  BY <1>5
  DEF Broker, BrokerPrices, BrokerSells, BrokerRefuses, BrokerBuysBack, Drop, Second, Crash
<1>6. QED
  BY <1>4, <1>5 DEF Next

\* Every step of the executor is a step of TradeAttempts or leaves the fates
\* alone.
LEMMA AbstractStep == IInv /\ IInv' /\ [Next]_vars => [Abstract!Next]_Fate
<1> SUFFICES ASSUME IInv, IInv', [Next]_vars PROVE Abstract!Next \/ Fate' = Fate
  OBVIOUS
<1> DEFINE F(a, n, p, e) ==
      IF a > n THEN "unused" ELSE IF a < n THEN "done"
      ELSE IF p = a THEN "held" ELSE IF e THEN "trying" ELSE "done"
<1>1. \A a \in Attempts : Fate[a] = F(a, attempt, position, Entering)
  BY FateOf DEF IInv
<1>2. \A a \in Attempts : Fate'[a] = F(a, attempt', position', Entering')
  <2>1. /\ position' # None => position' = attempt'
        /\ active' # None => active' = attempt'
        /\ Entering' => active' # None
    BY DEF IInv, EngineShape, CallShape, Entering
  <2>2. \A a \in Attempts : a # None /\ a \in Int /\ attempt' \in Int
    BY AttemptsAssumption DEF Attempts, None, IInv, TypeOK
  <2>3. QED
    BY <2>1, <2>2 DEF Fate
<1>t. attempt \in 0..MaxAttempts /\ attempt' \in 0..MaxAttempts
  BY DEF IInv, TypeOK
<1>d. DOMAIN Fate = Attempts /\ DOMAIN Fate' = Attempts
  BY DEF Fate
<1>e. /\ Entering => position = None /\ attempt # 0
      /\ position # None => position = attempt
  BY DEF IInv, EngineShape, CallShape, Entering, None
<1>f. Fate = [a \in Attempts |-> Fate[a]] /\ Fate' = [a \in Attempts |-> Fate'[a]]
  BY DEF Fate
<1>3. CASE Signal
  <2> DEFINE n == attempt + 1
  <2>1. /\ n \in Attempts /\ attempt' = n /\ position = None /\ ~Entering
    BY <1>3, SignalIdle, SignalCases DEF IInv, Signal, Listening, Entering
  <2>2. \A b \in Attempts : Fate[b] = IF b < n THEN "done" ELSE "unused"
    BY <1>1, <1>t, <2>1 DEF None, Attempts
  <2>3. \A b \in Attempts : b # n => Fate'[b] = Fate[b]
    BY <1>2, <1>t, <2>1, <2>2 DEF Attempts
  <2>4. Fate'[n] \in {"trying", "held", "done"}
    BY <1>2, <1>t, <2>1 DEF Attempts
  <2>5. Fate' = [Fate EXCEPT ![n] = Fate'[n]]
    BY <1>f, <2>1, <2>3
  <2>6. Abstract!Begin(n)
    BY <2>1, <2>2, <2>4, <2>5, <1>t DEF Abstract!Begin, Abstract!Fates, Abstract!Attempts, Attempts
  <2>7. QED
    BY <2>1, <2>6 DEF Abstract!Next, Abstract!Attempts, Attempts
<1>4. CASE /\ attempt' = attempt
           /\ position' \in {None, position} \/ (Entering /\ position' = attempt)
           /\ Entering' => Entering
  <2>1. \A b \in Attempts : b # attempt => Fate'[b] = Fate[b]
    BY <1>1, <1>2, <1>4, <1>t DEF Attempts
  <2>2. CASE attempt = 0
    BY <1>f, <2>1, <2>2 DEF Attempts
  <2>3. CASE attempt # 0
    <3>1. attempt \in Attempts
      BY <1>t, <2>3, AttemptsAssumption DEF Attempts
    <3>2. Fate' = [Fate EXCEPT ![attempt] = Fate'[attempt]]
      BY <1>f, <2>1, <3>1
    <3>3. Fate[attempt] = F(attempt, attempt, position, Entering)
      BY <1>1, <3>1
    <3>4. Fate'[attempt] = F(attempt, attempt, position', Entering')
      BY <1>2, <1>4, <3>1
    <3>5. \/ Fate'[attempt] = Fate[attempt]
          \/ Fate[attempt] = "trying" /\ Fate'[attempt] = "held"
          \/ Fate[attempt] \in {"trying", "held"} /\ Fate'[attempt] = "done"
      BY <1>4, <1>e, <1>t, <2>3, <3>3, <3>4 DEF None
    <3>6. CASE Fate'[attempt] = Fate[attempt]
      BY <1>f, <2>1, <3>6
    <3>7. CASE Fate[attempt] = "trying" /\ Fate'[attempt] = "held"
      BY <3>1, <3>2, <3>7 DEF Abstract!Next, Abstract!Hold, Abstract!Attempts, Attempts
    <3>8. CASE Fate[attempt] \in {"trying", "held"} /\ Fate'[attempt] = "done"
      BY <3>1, <3>2, <3>8 DEF Abstract!Next, Abstract!Finish, Abstract!Attempts, Attempts
    <3>9. QED
      BY <3>5, <3>6, <3>7, <3>8
  <2>4. QED
    BY <2>2, <2>3
<1>5. CASE UNCHANGED vars
  <2>1. attempt' = attempt /\ position' = position /\ Entering' = Entering /\ active' = active
    BY <1>5 DEF vars, engineVars, callVars, traderVars, Entering
  <2>2. QED
    BY <1>1, <1>2, <1>f, <2>1
<1>6. QED
  BY <1>3, <1>4, <1>5, EngineMoves

\* Whatever fails, the executor takes its opportunities one at a time, holds
\* each at most once and never comes back to one: it implements TradeAttempts.
THEOREM Implements == Spec => KeepsTradeAttempts
<1>1. Init => Abstract!Init
  BY AttemptsAssumption DEF Init, Abstract!Init, Abstract!Attempts, Attempts, Fate
<1>2. IInv /\ IInv' /\ [Next]_vars => [Abstract!Next]_Fate
  BY AbstractStep
<1>3. QED
  BY <1>1, <1>2, Inductive, PTL DEF Spec, KeepsTradeAttempts, Abstract!Spec

-------------------------------------------------------------------------------
(* Without faults, no living contract is off the record *)

\* While telemetry works, a trade that is given up open is recorded as aborted.
LEMMA AbortedIsWritten ==
  ASSUME TypeOK, "telemetry" \notin Faults, NEW a \in Attempts,
         UpdateRows(a, "executed", "aborted")
  PROVE  /\ rows'[a].trade = "aborted"
         /\ \A b \in Attempts : b # a => rows'[b] = rows[b]
<1>1. rows' = [rows EXCEPT ![a].intent = "executed", ![a].trade = "aborted"]
  BY DEF UpdateRows, Updates
<1>2. rows \in [Attempts -> Rows] /\ rows[a] \in Rows
  BY DEF TypeOK
<1>3. rows' = [rows EXCEPT ![a] = [rows[a] EXCEPT !.intent = "executed", !.trade = "aborted"]]
  BY <1>1
<1>4. [rows[a] EXCEPT !.intent = "executed", !.trade = "aborted"].trade = "aborted"
  BY <1>2 DEF Rows
<1>5. QED
  BY <1>2, <1>3, <1>4

\* Updates of one opportunity leave the rows of the others alone.
LEMMA UpdateRowsOthers ==
  ASSUME TypeOK, NEW a \in Attempts, NEW i, NEW t, UpdateRows(a, i, t)
  PROVE  \A b \in Attempts : b # a => rows'[b] = rows[b]
<1>1. PICK iOk \in Updates, tOk \in Updates :
        rows' = [rows EXCEPT ![a].intent = IF iOk THEN i ELSE @,
                             ![a].trade  = IF tOk THEN t ELSE @]
  BY DEF UpdateRows
<1>2. rows \in [Attempts -> Rows]
  BY DEF TypeOK
<1>3. QED
  BY <1>1, <1>2

\* Each step that stops watching a contract, or gives up a buy request, writes
\* so; no step writes over it.
LEMMA AuditStep ==
  ASSUME Faults = {}
  PROVE  IInv /\ GatingShape /\ AuditShape /\ [Next]_vars => AuditShape'
<1> SUFFICES ASSUME TypeOK, CallShape, EngineShape, PendingIsOpenTrade, OrderShape,
                    ContractShape, GatingShape, AuditShape, [Next]_vars
             PROVE  AuditShape'
  BY DEF IInv
<1>t. /\ attempt \in 0..MaxAttempts /\ active \in 0..MaxAttempts
      /\ orders \subseteq Orders
      /\ contract \in [Attempts -> {"none", "live", "sold", "expired"}]
      /\ rows \in [Attempts -> Rows]
      /\ fsm \in TradeStates
  BY DEF TypeOK
<1>o. \A o \in orders : o.op \in {"buy", "sell"} /\ o.id \in Attempts
  BY <1>t, OrderFields
<1>i. \A k \in 0..3 : Inserts(k) = {k}
  BY DEF Inserts, GatingShape
<1>c. fsm # "Idle" => active \in Attempts
  BY <1>t, AttemptsAssumption DEF CallShape, None, Attempts
<1>a. /\ \A a \in Attempts : contract[a] = "live" /\ active # a =>
           rows[a].intent = "execution_failed" \/ rows[a].trade = "aborted"
      /\ answer # "other"
      /\ fsm = "Open" => contract[active] # "none"
      /\ \A o \in orders :
           o.op = "buy" /\ o.id # active => rows[o.id].intent = "execution_failed"
  BY DEF AuditShape, UnwatchedIsOnRecord, Live
<1>u. \A p \in Unawaited : \E o \in orders : p.op = o.op /\ p.id = o.id
  BY <1>t, UnawaitedFields
<1> USE DEF None, Answered, Ask, Reset, connectionVars, callVars, traderVars, engineVars,
            telemetryVars, brokerVars
\* A step that writes nothing and watches what it watched.
<1>0. ASSUME UNCHANGED <<fsm, active, rows, contract>>, answer' # "other",
             \A p \in orders' :
               p.op = "buy" => \E o \in orders : o.op = "buy" /\ o.id = p.id
      PROVE  AuditShape'
  BY <1>0, <1>a DEF AuditShape, UnwatchedIsOnRecord, Live
\* The entry under way is given up.
<1>f. ASSUME Entering, FailEntry, orders' \in {orders, Unawaited} PROVE AuditShape'
  <2>1. /\ rows' = [rows EXCEPT ![active] = Written(2, "execution_failed", "none")]
        /\ fsm' = "Idle" /\ active' = None /\ answer' = "none" /\ contract' = contract
    <3>1. PICK n \in Inserts(2) :
            rows' = [rows EXCEPT ![active] = Written(n, "execution_failed", "none")]
      BY <1>f DEF FailEntry
    <3>2. n = 2
      BY <1>i
    <3>3. QED
      BY <1>f, <3>1, <3>2 DEF FailEntry
  <2>2. active \in Attempts
    BY <1>c, <1>f DEF Entering, CallShape
  <2>3. rows'[active].intent = "execution_failed"
    BY <1>t, <2>1, <2>2 DEF Written
  <2>4. \A b \in Attempts : b # active => rows'[b] = rows[b]
    BY <1>t, <2>1
  <2>5. UnwatchedIsOnRecord'
    BY <1>a, <2>1, <2>3, <2>4 DEF UnwatchedIsOnRecord, Live
  <2>6. \A p \in orders' : p.op = "buy" => rows'[p.id].intent = "execution_failed"
    <3>1. \A o \in orders : o.op = "buy" => rows'[o.id].intent = "execution_failed"
      BY <1>a, <1>o, <2>3, <2>4
    <3>2. QED
      BY <1>f, <1>u, <3>1
  <2>7. QED
    BY <2>1, <2>5, <2>6 DEF AuditShape
\* The open trade is over, and its rows are the only ones written.
<1>x. ASSUME fsm = "Open", fsm' = "Idle", active' = None, answer' = "none",
             UNCHANGED <<contract, orders>>,
             \A b \in Attempts : b # active => rows'[b] = rows[b],
             contract[active] = "live" => rows'[active].trade = "aborted"
      PROVE  AuditShape'
  <2>1. UnwatchedIsOnRecord'
    BY <1>x, <1>a DEF UnwatchedIsOnRecord, Live
  <2>2. ASSUME NEW o \in orders, o.op = "buy" PROVE rows'[o.id].intent = "execution_failed"
    <3>1. contract[o.id] = "none" /\ contract[active] # "none"
      BY <1>x, <1>a, <2>2 DEF OrderShape
    <3>2. o.id # active
      BY <3>1
    <3>3. QED
      BY <1>x, <1>a, <1>o, <2>2, <3>2
  <2>3. QED
    BY <1>x, <2>1, <2>2 DEF AuditShape
<1>1. CASE Connect
  <2>1. fsm' = fsm /\ active' = active
    BY <1>1 DEF Connect, CallShape
  <2>2. QED
    BY <1>1, <1>0, <1>a, <2>1 DEF Connect
<1>2. CASE Disconnected
  <2>1. CASE fsm # "Idle"
    <3>1. fsm = "Open" /\ pc = "select" /\ answer = "none"
      BY <1>2, <1>t, <2>1 DEF Disconnected, CallShape, TradeStates
    <3>2. pending = active /\ hasDb /\ active \in Attempts
      BY <1>c, <3>1 DEF GatingShape
    <3>3. UpdateRows(active, "executed", "aborted")
      BY <1>2, <2>1, <3>2, AttemptsAssumption DEF Disconnected, Attempts
    <3>4. /\ rows'[active].trade = "aborted"
          /\ \A b \in Attempts : b # active => rows'[b] = rows[b]
      BY <3>2, <3>3, AbortedIsWritten
    <3>5. QED
      BY <1>2, <1>x, <2>1, <3>1, <3>4 DEF Disconnected
  <2>2. CASE fsm = "Idle"
    BY <1>2, <1>0, <1>a, <2>2 DEF Disconnected
  <2>3. QED
    BY <2>1, <2>2
<1>3. CASE Signal
  <2> DEFINE n == attempt + 1
  <2>1. /\ n \in Attempts /\ UNCHANGED <<contract, orders>> /\ answer = "none"
        /\ active = None /\ fsm = "Idle"
    BY <1>3, SignalIdle, SignalCases DEF Signal, Listening, CallShape
  <2>2. /\ contract[n] = "none"
        /\ \A o \in orders : o.op = "buy" => o.id # n
    BY <1>t, <1>o, <2>1 DEF ContractShape, OrderShape, Attempts
  <2>3. \A b \in Attempts : b # n => rows'[b] = rows[b]
    BY <1>3, <1>t, SignalCases DEF DryRunTrade, StartPricing
  <2>4. answer' = "none" /\ active' \in {None, n} /\ fsm' # "Open"
    BY <1>3, <2>1, SignalCases DEF DryRunTrade, StartPricing
  <2>5. None \notin Attempts
    BY DEF Attempts
  <2>6. UnwatchedIsOnRecord'
    BY <1>a, <2>1, <2>2, <2>3, <2>5 DEF UnwatchedIsOnRecord, Live
  <2>7. \A o \in orders' : o.op = "buy" => rows'[o.id].intent = "execution_failed"
    BY <1>a, <1>o, <2>1, <2>2, <2>3, <2>5
  <2>8. QED
    BY <2>4, <2>6, <2>7 DEF AuditShape
<1>4. CASE EntryRefused \/ EntryTimeout \/ BuyReceivedMonitorFails
  BY <1>4, <1>f DEF EntryRefused, EntryTimeout, BuyReceivedMonitorFails, Entering
<1>5. CASE EntryUnexpected
  BY <1>5, <1>a DEF EntryUnexpected
<1>6. CASE ProposalReceived
  <2>1. /\ orders' = orders \union {Order("buy", active)} /\ answer' = "none"
        /\ fsm' = "Submitted" /\ UNCHANGED <<active, rows, contract>>
    BY <1>6 DEF ProposalReceived
  <2>2. Order("buy", active).id = active
    BY DEF Order
  <2>3. QED
    BY <1>a, <2>1, <2>2 DEF AuditShape, UnwatchedIsOnRecord, Live
<1>7. CASE BuyReceived
  <2>1. /\ contract[active] # "none" /\ active \in Attempts /\ answer' = "none"
        /\ UNCHANGED <<active, contract, orders>>
    BY <1>7, <1>c DEF BuyReceived, OpenTrade, OrderShape, CallShape
  <2>2. \A b \in Attempts : b # active => rows'[b] = rows[b]
    BY <1>7, <1>t DEF BuyReceived, OpenTrade
  <2>3. UnwatchedIsOnRecord'
    BY <1>a, <2>1, <2>2 DEF UnwatchedIsOnRecord, Live
  <2>4. QED
    BY <1>a, <1>o, <2>1, <2>2, <2>3 DEF AuditShape
<1>8. CASE SoldEarly \/ \E a \in Attempts : ContractEnded(a)
  <2>1. PICK t \in {"settled", "closed_early"} : SettleTrade(t)
    BY <1>8 DEF SoldEarly, ContractEnded
  <2>2. /\ fsm = "Open" /\ fsm' = "Idle" /\ active' = None /\ answer' = "none"
        /\ UNCHANGED <<contract, orders>>
        /\ contract[active] \in {"sold", "expired"}
    BY <1>8 DEF SoldEarly, ContractEnded, Tracks, CallShape, OrderShape, Listening
  <2>3. pending = active /\ active \in Attempts
    BY <1>c, <2>2 DEF GatingShape
  <2>4. \A b \in Attempts : b # active => rows'[b] = rows[b]
    BY <2>1, <2>3, SettleCases, UpdateRowsOthers
  <2>5. QED
    BY <1>x, <2>2, <2>4
<1>9. CASE SaleFails
  BY <1>9, <1>0, <1>u DEF SaleFails
<1>10. ASSUME NEW a \in Attempts, SellEarly(a) PROVE AuditShape'
  <2>1. orders' = orders \union {Order("sell", a)} /\ Order("sell", a).op # "buy"
    BY <1>10 DEF SellEarly, Order
  <2>2. QED
    BY <1>10, <1>0, <2>1 DEF SellEarly
<1>11. ASSUME NEW o \in orders, BrokerSells(o) PROVE AuditShape'
  <2>1. /\ o.op = "buy" /\ o.id \in Attempts /\ orders' \subseteq orders
        /\ contract' = [contract EXCEPT ![o.id] = "live"]
        /\ answer' \in {answer, "ok"} /\ UNCHANGED <<fsm, active, rows>>
    BY <1>11, <1>o DEF BrokerSells, Reply
  <2>2. /\ contract'[o.id] = "live"
        /\ \A b \in Attempts : b # o.id => contract'[b] = contract[b]
    BY <1>t, <2>1
  <2>3. UnwatchedIsOnRecord'
    BY <1>a, <2>1, <2>2 DEF UnwatchedIsOnRecord, Live
  <2>4. fsm' = "Open" => contract'[active'] # "none"
    BY <1>a, <1>c, <2>1, <2>2
  <2>5. QED
    BY <1>a, <2>1, <2>3, <2>4 DEF AuditShape
<1>12. ASSUME NEW o \in orders, BrokerBuysBack(o) PROVE AuditShape'
  <2>1. /\ o.id \in Attempts /\ orders' \subseteq orders
        /\ contract' = [contract EXCEPT ![o.id] = "sold"]
        /\ answer' \in {answer, "ok"} /\ UNCHANGED <<fsm, active, rows>>
    BY <1>12, <1>o DEF BrokerBuysBack, Reply
  <2>2. /\ contract'[o.id] = "sold"
        /\ \A b \in Attempts : b # o.id => contract'[b] = contract[b]
    BY <1>t, <2>1
  <2>3. UnwatchedIsOnRecord'
    BY <1>a, <2>1, <2>2 DEF UnwatchedIsOnRecord, Live
  <2>4. fsm' = "Open" => contract'[active'] # "none"
    BY <1>a, <1>c, <2>1, <2>2
  <2>5. QED
    BY <1>a, <2>1, <2>3, <2>4 DEF AuditShape
<1>13. CASE Second
  <2>1. /\ contract' = [a \in Attempts |->
             IF Live(a) /\ lifeLeft[a] = 1 THEN "expired" ELSE contract[a]]
        /\ UNCHANGED <<fsm, active, rows, orders, answer>>
    BY <1>13 DEF Second
  <2>2. \A b \in Attempts : /\ contract'[b] = "live" => contract[b] = "live"
                            /\ contract[b] # "none" => contract'[b] # "none"
    BY <2>1
  <2>3. QED
    BY <1>a, <1>c, <2>1, <2>2 DEF AuditShape, UnwatchedIsOnRecord, Live
<1>14. CASE Authorized \/ Drop \/ UNCHANGED vars
  BY <1>14, <1>0, <1>a DEF Authorized, Drop, vars
<1>15. CASE BrokerPrices \/ \E o \in orders : BrokerRefuses(o)
  BY <1>15, <1>0, <1>a DEF BrokerPrices, BrokerRefuses, Reply
<1>16. CASE Crash
  BY <1>16 DEF Crash
<1>17. QED
  BY <1>1, <1>2, <1>3, <1>4, <1>5, <1>6, <1>7, <1>8, <1>9, <1>10, <1>11, <1>12,
     <1>13, <1>14, <1>15, <1>16
  DEF Next, Executor, Broker

\* With a working database, a process that does not die and a broker that
\* answers in kind, every living contract the executor does not watch has rows
\* that say so: a failed entry, or an aborted trade. The three kinds of fault
\* excluded here are the three ways to lose track of one.
THEOREM UnwatchedOnRecord ==
  ASSUME Faults = {}
  PROVE  Spec => []UnwatchedIsOnRecord
<1>1. Init => GatingShape
  BY DEF Init, GatingShape, GatingMatchesTrader, DbAtStart
<1>2. IInv /\ GatingShape /\ [Next]_vars => GatingShape'
  BY GatingStep
<1>3. Init => AuditShape
  BY DEF Init, AuditShape, UnwatchedIsOnRecord, Live
<1>4. IInv /\ GatingShape /\ AuditShape /\ [Next]_vars => AuditShape'
  BY AuditStep
<1>5. AuditShape => UnwatchedIsOnRecord
  BY DEF AuditShape
<1>6. QED
  BY <1>1, <1>2, <1>3, <1>4, <1>5, Inductive, PTL DEF Spec
===============================================================================
