------------------------------- MODULE Recorder -------------------------------
(***************************************************************************)
(* The recorder: one loop that stores the ticks of its symbols in the      *)
(* raw_ticks table, connects again when the connection is lost and, in     *)
(* minutes without a message, removes ticks older than the retention time. *)
(* Times are kept as ages, capped where no comparison tells them apart:    *)
(* `age` of a tick, `quiet` since the select loop last began to wait.      *)
(* The table has this one writer: the executor's default is another file.  *)
(***************************************************************************)
EXTENDS Protocol, FiniteSets, Sequences

CONSTANTS
  Symbols,        \* RecorderConfig.symbols
  WithBalance,    \* RecorderConfig.subscribe_balance
  WithTime,       \* RecorderConfig.subscribe_time
  Retention,      \* RecorderConfig.retention_days
  Quiet,          \* the 60 seconds of the maintenance timer
  MaxTicks,       \* bound: ticks of the market
  MaxInbox,       \* bound: messages waiting
  MaxRows         \* bound: rows ever written

ASSUME SwitchAssumption == WithBalance \in BOOLEAN /\ WithTime \in BOOLEAN
ASSUME TimeAssumption == Retention \in Nat /\ Quiet \in Nat \ {0}
ASSUME BoundAssumption == MaxTicks \in Nat /\ MaxRows \in Nat
ASSUME InboxAssumption == MaxInbox \in Nat \ {0}

VARIABLES
  session,  \* where run_recorder is
  up,       \* the connection of this session still delivers
  asked,    \* requests the broker has got in this session
  streams,  \* symbols whose subscription the broker has taken up
  inbox,    \* raw_msg_rx
  quiet,    \* time since this select began to wait
  market,   \* external: the symbols of all ticks so far, in order
  age,      \* external: how long ago each tick was
  inserted, \* every row raw_ticks has had, by id
  kept,     \* ids of the rows it has
  dbUp      \* external: SQLite carries out what it is asked

session_vars == <<session, up, asked, streams, inbox, quiet>>
table == <<inserted, kept>>
vars == <<session, up, asked, streams, inbox, quiet, market, age, inserted,
          kept, dbUp>>

Requests ==
  {Authorize, SubscribeBalance, TimeRequest}
    \cup {SubscribeTicks(s) : s \in Symbols}

\* What the broker sends. A price, here the number of its tick, may come as a
\* number or as a text.
TickMessage(s, k, price) ==
  [msg_type |-> "tick",
   tick |-> [symbol |-> Txt(s), quote |-> price, epoch |-> Num(k)]]
Prices(k) == {Num(k), Numeral(k)}
TickMessages ==
  UNION {{TickMessage(s, k, p) : s \in Symbols, p \in Prices(k)} :
            k \in 1..MaxTicks}
Welcome ==
  [msg_type |-> "authorize", authorize |-> [loginid |-> Txt("account")]]
\* An answer to a refused request has the type of the request as well.
Refusal == [msg_type |-> "authorize", error |-> [code |-> Txt("InvalidToken")]]
BalanceMessage == [msg_type |-> "balance", balance |-> [balance |-> Num(1)]]
TimeMessage == [msg_type |-> "time", time |-> Num(1)]
Other == [msg_type |-> "ping"]
Messages ==
  TickMessages \cup {Welcome, Refusal, BalanceMessage, TimeMessage, Other}

Row == [symbol : Symbols, epoch : 1..MaxTicks, price : 0..MaxTicks]

InLoop == session \in {"connected", "running"}

TypeOK ==
  /\ session \in {"stopped", "connecting", "connected", "running"}
  /\ up \in BOOLEAN
  /\ asked \subseteq Requests
  /\ streams \subseteq Symbols
  /\ inbox \in Seq(Messages) /\ Len(inbox) <= MaxInbox
  /\ quiet \in 0..Quiet
  /\ market \in Seq(Symbols) /\ Len(market) <= MaxTicks
  /\ age \in [DOMAIN market -> 0..(Retention + 1)]
  /\ inserted \in Seq(Row)
  /\ kept \subseteq DOMAIN inserted
  /\ dbUp \in BOOLEAN

Init ==
  /\ session = "connecting" /\ up = FALSE
  /\ asked = {} /\ streams = {} /\ inbox = <<>> /\ quiet = 0
  /\ market = <<>> /\ age = <<>>
  /\ inserted = <<>> /\ kept = {}
  /\ dbUp = TRUE
-------------------------------------------------------------------------------
(* The process. *)

\* It is started again after it has ended; the table is that of before.
Start ==
  /\ session = "stopped" /\ session' = "connecting"
  /\ UNCHANGED <<up, asked, streams, inbox, quiet, market, age, table, dbUp>>

\* It is killed.
Crash ==
  /\ session # "stopped" /\ session' = "stopped"
  /\ up' = FALSE /\ asked' = {} /\ streams' = {} /\ inbox' = <<>>
  /\ quiet' = 0
  /\ UNCHANGED <<market, age, table, dbUp>>

\* connect_with_backoff has succeeded, with new channels and a new router, and
\* the authorize request is on its way.
Connect ==
  /\ session = "connecting" /\ session' = "connected"
  /\ up' = TRUE /\ asked' = {Authorize} /\ streams' = {}
  /\ inbox' = <<>> /\ quiet' = 0
  /\ UNCHANGED <<market, age, table, dbUp>>

\* What goes out after authorization.
Subscriptions ==
  {SubscribeTicks(s) : s \in Symbols}
    \cup (IF WithBalance THEN {SubscribeBalance} ELSE {})

\* insert_raw_tick.
Insert(m) ==
  /\ inserted' = Append(inserted, [symbol |-> m.symbol, epoch |-> m.epoch,
                                   price |-> m.price])
  /\ kept' = kept \cup {Len(inserted) + 1}

\* A failing statement ends the process (`?`), as if it had crashed.
Fail ==
  /\ ~dbUp
  /\ session' = "stopped" /\ up' = FALSE
  /\ asked' = {} /\ streams' = {} /\ inbox' = <<>>
  /\ UNCHANGED table

GoOn == inbox' = Tail(inbox) /\ UNCHANGED <<up, streams>>

ReceiveAuthorize(m) ==
  /\ m.kind = "Authorize" /\ GoOn
  /\ session' = "running"
  /\ asked' = asked \cup Subscriptions
  /\ UNCHANGED table

ReceiveTick(m) ==
  /\ m.kind = "Tick"
  /\ \/ dbUp /\ GoOn /\ Insert(m) /\ UNCHANGED <<session, asked>>
     \/ Fail

\* Balance and time messages go to recorder_metadata, which nothing reads.
ReceiveMetadata(m) ==
  /\ m.kind \in {"Balance", "Time"}
  /\ \/ dbUp /\ GoOn /\ UNCHANGED <<session, asked, table>>
     \/ Fail

\* Everything else is logged or ignored, a refused authorization too.
ReceiveOther(m) ==
  /\ m.kind \notin {"Authorize", "Tick", "Balance", "Time"} /\ GoOn
  /\ UNCHANGED <<session, asked, table>>

Receive ==
  /\ InLoop /\ inbox # <<>>
  /\ LET m == Parse(Head(inbox)) IN
       \/ ReceiveAuthorize(m) \/ ReceiveTick(m) \/ ReceiveMetadata(m)
       \/ ReceiveOther(m)
  /\ quiet' = 0
  /\ UNCHANGED <<market, age, dbUp>>

\* The read channel is closed and empty: clear_pending, five seconds, connect.
LoseConnection ==
  /\ InLoop /\ ~up /\ inbox = <<>>
  /\ session' = "connecting" /\ asked' = {} /\ streams' = {} /\ quiet' = 0
  /\ UNCHANGED <<up, inbox, market, age, table, dbUp>>

TooOld(k) == age[k] > Retention

\* A mutant: the cutoff is computed in the wrong direction.
PruneNewer ==
  kept' = IF dbUp THEN {i \in kept : TooOld(inserted[i].epoch)} ELSE kept

\* A mutant: the cutoff is a unit too recent.
PruneEarly ==
  kept' = IF dbUp THEN {i \in kept : age[inserted[i].epoch] < Retention}
          ELSE kept

\* prune_raw_ticks_older_than; when it fails there is a warning.
Prune ==
  kept' = IF dbUp THEN {i \in kept : ~TooOld(inserted[i].epoch)} ELSE kept

\* A mutant: nothing is done while an earlier time request is unanswered.
MaintainOnce ==
  /\ InLoop /\ quiet = Quiet /\ TimeRequest \notin asked
  /\ asked' = asked \cup (IF WithTime THEN {TimeRequest} ELSE {})
  /\ Prune
  /\ quiet' = 0
  /\ UNCHANGED <<session, up, streams, inbox, market, age, inserted, dbUp>>

\* The sleep of this select is over before a message came.
Maintain ==
  /\ InLoop /\ quiet = Quiet
  /\ asked' = asked \cup (IF WithTime THEN {TimeRequest} ELSE {})
  /\ Prune
  /\ quiet' = 0
  /\ UNCHANGED <<session, up, streams, inbox, market, age, inserted, dbUp>>

\* What load_ticks selects: the rows of a symbol.
RowsOf(s) == {i \in kept : inserted[i].symbol = s}

\* Its order: by event time, and by id where that is the same.
Before(i, j) ==
  \/ inserted[i].epoch < inserted[j].epoch
  \/ inserted[i].epoch = inserted[j].epoch /\ i < j

\* A set of rows in that order.
Sorted(ids) ==
  CHOOSE q \in [1..Cardinality(ids) -> ids] :
    \A i, j \in DOMAIN q : i < j => Before(q[i], q[j])

\* load_ticks.
LoadTicks(s) ==
  LET order == Sorted(RowsOf(s))
  IN  [i \in DOMAIN order |-> inserted[order[i]].epoch]
-------------------------------------------------------------------------------
(* Broker, market, database and time. *)

Deliver(m) == up /\ Len(inbox) < MaxInbox /\ inbox' = Append(inbox, m)

\* A request is answered; a request for ticks by the last known one, if any.
Answer ==
  /\ \/ /\ Authorize \in asked /\ asked' = asked \ {Authorize}
        /\ Deliver(Welcome) \/ Deliver(Refusal)
     \/ SubscribeBalance \in asked /\ Deliver(BalanceMessage) /\ asked' = asked
     \/ /\ TimeRequest \in asked /\ asked' = asked \ {TimeRequest}
        /\ Deliver(TimeMessage)
     \/ Deliver(Other) /\ asked' = asked
  /\ UNCHANGED <<session, up, streams, quiet, market, age, table, dbUp>>

LastTicks(s) ==
  {k \in DOMAIN market :
     market[k] = s /\ \A j \in DOMAIN market : j > k => market[j] # s}

Stream ==
  /\ up
  /\ \E s \in Symbols :
       /\ SubscribeTicks(s) \in asked /\ s \notin streams
       /\ streams' = streams \cup {s}
       /\ \/ LastTicks(s) = {} /\ UNCHANGED inbox
          \/ /\ Len(inserted) + Len(inbox) < MaxRows
             /\ \E k \in LastTicks(s) : \E p \in Prices(k) :
                  Deliver(TickMessage(s, k, p))
  /\ UNCHANGED <<session, up, asked, quiet, market, age, table, dbUp>>

\* The market moves, and who has subscribed is told.
MarketTick ==
  /\ Len(market) < MaxTicks /\ Len(inserted) + Len(inbox) < MaxRows
  /\ \E s \in Symbols :
       /\ market' = Append(market, s) /\ age' = Append(age, 0)
       /\ IF s \in streams /\ up
          THEN \E p \in Prices(Len(market) + 1) :
                 Deliver(TickMessage(s, Len(market) + 1, p))
          ELSE UNCHANGED inbox
  /\ UNCHANGED <<session, up, asked, streams, quiet, table, dbUp>>

Disconnect ==
  /\ up /\ up' = FALSE
  /\ UNCHANGED <<session, asked, streams, inbox, quiet, market, age, table,
                 dbUp>>

DatabaseChanges ==
  /\ dbUp' = ~dbUp
  /\ UNCHANGED <<session_vars, market, age, table>>

\* Time passes; the timer runs while the loop waits.
Advance ==
  /\ age' = [k \in DOMAIN age |->
               IF age[k] > Retention THEN age[k] ELSE age[k] + 1]
  /\ quiet' = IF InLoop /\ quiet < Quiet THEN quiet + 1 ELSE quiet
  /\ UNCHANGED <<session, up, asked, streams, inbox, market, table, dbUp>>

Next ==
  \/ Start \/ Crash \/ Connect \/ Receive \/ LoseConnection \/ Maintain
  \/ Answer \/ Stream \/ MarketTick \/ Disconnect \/ DatabaseChanges \/ Advance

Spec == Init /\ [][Next]_vars

\* Time goes on, a select that may do something does it, and one whose timer
\* and channel are both ready picks either often enough (tokio polls the
\* branches of a select in random order).
Fairness ==
  /\ WF_vars(Advance) /\ WF_vars(Connect) /\ WF_vars(Receive)
  /\ WF_vars(LoseConnection) /\ SF_vars(Maintain)

FairSpec == Spec /\ Fairness
-------------------------------------------------------------------------------
(* Properties. *)

Tape == INSTANCE TickTape WITH
  Ticks <- 1..MaxTicks,
  tape <- [s \in Symbols |-> LoadTicks(s)],
  expired <- {k \in DOMAIN market : TooOld(k)}

\* Reconnecting, pruning, failing and being killed, the recorder leaves a tape
\* behind: what a replay has read of a symbol stays the beginning of what a
\* later replay reads, but for ticks that are too old.
KeepsTape == Tape!Spec

\* Every row says what the market did, also where the broker wrote the price
\* as a text.
RowsAreTrue ==
  \A i \in DOMAIN inserted :
    LET row == inserted[i] IN
    /\ row.epoch \in DOMAIN market /\ market[row.epoch] = row.symbol
    /\ row.price = row.epoch

\* A tick that was stored is in the table for at least the retention time.
FreshTicksKept ==
  \A i \in DOMAIN inserted : ~TooOld(inserted[i].epoch) => i \in kept

\* While connected, quiet minutes get the old ticks removed: a recorder that
\* stays connected and has a quiet minute again and again ends up without ticks
\* that are too old.
QuietMinutesPrune ==
  ([]<>(quiet = Quiet) /\ <>[](InLoop /\ dbUp))
    => <>[](\A i \in kept : ~TooOld(inserted[i].epoch))

\* Also the ticks that wait say what the market did.
MessagesAreTrue ==
  \A i \in DOMAIN inbox :
    \A s \in Symbols, k \in 1..MaxTicks : \A p \in Prices(k) :
      inbox[i] = TickMessage(s, k, p) => k \in DOMAIN market /\ market[k] = s

TruthInv == TypeOK /\ MessagesAreTrue /\ RowsAreTrue /\ FreshTicksKept

\* What KeepsTape rests on: the rows and the waiting ticks of a symbol come in
\* the order of the market, the rows first; and an earlier tick is at least as
\* old as a later one.
IsTick(m) == Parse(m).kind = "Tick"
NotAfter(x, y) == x.symbol = y.symbol => x.epoch <= y.epoch

TicksInOrder ==
  /\ \A i, j \in DOMAIN inserted : i < j => NotAfter(inserted[i], inserted[j])
  /\ \A j \in DOMAIN inbox : IsTick(inbox[j]) =>
       /\ \A i \in DOMAIN inserted : NotAfter(inserted[i], Parse(inbox[j]))
       /\ \A i \in DOMAIN inbox :
            i < j /\ IsTick(inbox[i]) => NotAfter(Parse(inbox[i]), Parse(inbox[j]))
  /\ \A j, k \in DOMAIN market : j < k => age[j] >= age[k]

\* The inductive invariant.
IInv == TruthInv /\ TicksInOrder
===============================================================================
