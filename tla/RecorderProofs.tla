---------------------------- MODULE RecorderProofs ----------------------------
(***************************************************************************)
(* What is stored is what the market did, it stays for the retention time, *)
(* and what a reader finds is a tape that grows at its end and loses only  *)
(* old ticks at its beginning: for every set of symbols, every retention   *)
(* and every bound.                                                        *)
(***************************************************************************)
EXTENDS Recorder, SequenceTheorems, FiniteSetTheorems, WellFoundedInduction, TLAPS

\* Reading a tick's message gives its symbol, its number and its price, in
\* whichever form the price comes.
LEMMA ParseTickMessage ==
  ASSUME NEW s \in Symbols, NEW k \in 1..MaxTicks, NEW p \in Prices(k)
  PROVE  Parse(TickMessage(s, k, p)) =
           [kind |-> "Tick", symbol |-> s, price |-> k, epoch |-> k]
<1> DEFINE body == [symbol |-> Txt(s), quote |-> p, epoch |-> Num(k)]
           v == TickMessage(s, k, p)
<1>1. /\ ~Has(v, "error") /\ Has(v, "msg_type") /\ v["msg_type"] = "tick"
      /\ Has(v, "tick") /\ v["tick"] = body
  BY DEF TickMessage, Has
<1>2. Parse(v) = ParseByType(v, "tick")
  BY <1>1 DEF Parse
<1>3. Part(v, "tick") = body
  BY <1>1 DEF Part
<1> HIDE DEF v
<1>4. ParseByType(v, "tick") =
        [kind |-> "Tick", symbol |-> Text(body, "symbol", ""),
         price |-> Amount(body, "quote"), epoch |-> Whole(body, "epoch", 0)]
  BY <1>3 DEF ParseByType
<1>5. Text(body, "symbol", "") = s /\ Whole(body, "epoch", 0) = k
  BY DEF Text, Whole, Has, Txt, Num
<1>6. Amount(body, "quote") = k
  <2>1. CASE p = Num(k)
    BY <2>1 DEF Amount, Has, Num
  <2>2. CASE p = Numeral(k)
    BY <2>2 DEF Amount, Has, Numeral
  <2> QED BY <2>1, <2>2 DEF Prices
<1> QED BY <1>2, <1>4, <1>5, <1>6 DEF v

\* A tick's message tells the tick.
LEMMA SameTick ==
  ASSUME NEW s \in Symbols, NEW k \in 1..MaxTicks, NEW p \in Prices(k),
         NEW t \in Symbols, NEW j \in 1..MaxTicks, NEW q \in Prices(j),
         TickMessage(s, k, p) = TickMessage(t, j, q)
  PROVE  s = t /\ k = j
<1>1. Parse(TickMessage(s, k, p)) =
        [kind |-> "Tick", symbol |-> s, price |-> k, epoch |-> k]
  BY ParseTickMessage
<1>2. Parse(TickMessage(t, j, q)) =
        [kind |-> "Tick", symbol |-> t, price |-> j, epoch |-> j]
  BY ParseTickMessage
<1>3. Parse(TickMessage(s, k, p)).symbol = s /\ Parse(TickMessage(s, k, p)).epoch = k
  BY <1>1
<1>4. Parse(TickMessage(t, j, q)).symbol = t /\ Parse(TickMessage(t, j, q)).epoch = j
  BY <1>2
<1> QED BY <1>3, <1>4

\* No other message is read as a tick.
LEMMA NotATick ==
  ASSUME NEW m \in {Welcome, Refusal, BalanceMessage, TimeMessage, Other}
  PROVE  Parse(m).kind # "Tick"
<1>1. Parse(Welcome).kind = "Authorize"
  BY DEF Welcome, Parse, ParseByType, Has
<1>2. Parse(Refusal).kind = "Error"
  BY DEF Refusal, Parse, ParseError, Has
<1>3. Parse(BalanceMessage).kind = "Balance"
  BY DEF BalanceMessage, Parse, ParseByType, Has
<1>4. Parse(TimeMessage).kind = "Time"
  BY DEF TimeMessage, Parse, ParseByType, Has
<1>5. Parse(Other).kind = "Unknown"
  BY DEF Other, Parse, ParseByType, Has, Unknown
<1> QED BY <1>1, <1>2, <1>3, <1>4, <1>5

LEMMA OnlyTicksAreTicks ==
  ASSUME NEW m \in Messages, Parse(m).kind = "Tick"
  PROVE  \E s \in Symbols, k \in 1..MaxTicks : \E p \in Prices(k) :
           m = TickMessage(s, k, p)
<1>1. m \in TickMessages
  BY NotATick DEF Messages
<1> QED BY <1>1 DEF TickMessages

LEMMA InitialTruthInv == Init => TruthInv
<1> SUFFICES ASSUME Init PROVE TruthInv
  OBVIOUS
<1>1. /\ DOMAIN <<>> = {} /\ Len(<<>>) = 0
      /\ \A S : <<>> \in Seq(S)
      /\ \A S : <<>> \in [{} -> S]
  OBVIOUS
<1>2. TypeOK
  <2>1. inbox \in Seq(Messages) /\ Len(inbox) <= MaxInbox
    BY <1>1, InboxAssumption DEF Init
  <2>2. market \in Seq(Symbols) /\ Len(market) <= MaxTicks
    BY <1>1, BoundAssumption DEF Init
  <2>3. age \in [DOMAIN market -> 0..(Retention + 1)]
    BY <1>1 DEF Init
  <2>4. inserted \in Seq(Row) /\ kept \subseteq DOMAIN inserted
    BY <1>1 DEF Init
  <2>5. quiet \in 0..Quiet
    BY TimeAssumption DEF Init
  <2> QED BY <2>1, <2>2, <2>3, <2>4, <2>5 DEF Init, TypeOK
<1>3. MessagesAreTrue /\ RowsAreTrue /\ FreshTicksKept
  BY <1>1 DEF Init, MessagesAreTrue, RowsAreTrue, FreshTicksKept
<1> QED BY <1>2, <1>3 DEF TruthInv

\* Messages in the inbox stay true when the first is taken out.
LEMMA TailOfInbox ==
  ASSUME TruthInv, inbox # <<>>, inbox' = Tail(inbox), UNCHANGED market
  PROVE  /\ inbox' \in Seq(Messages) /\ Len(inbox') <= MaxInbox
         /\ MessagesAreTrue'
<1>1. /\ inbox' \in Seq(Messages) /\ Len(inbox') = Len(inbox) - 1
      /\ \A i \in DOMAIN inbox' : i + 1 \in DOMAIN inbox /\ inbox'[i] = inbox[i + 1]
  BY DEF TruthInv, TypeOK
<1> QED BY <1>1, InboxAssumption DEF TruthInv, TypeOK, MessagesAreTrue

\* They stay true when a true one is put in.
LEMMA Delivered ==
  ASSUME TruthInv, NEW m \in Messages, Deliver(m),
         market' = market \/ \E s \in Symbols : market' = Append(market, s),
         \A s \in Symbols, k \in 1..MaxTicks : \A p \in Prices(k) :
           m = TickMessage(s, k, p)
             => k \in DOMAIN (market') /\ (market')[k] = s
  PROVE  /\ inbox' \in Seq(Messages) /\ Len(inbox') <= MaxInbox
         /\ MessagesAreTrue'
<1>1. /\ inbox' \in Seq(Messages) /\ Len(inbox') = Len(inbox) + 1
      /\ \A i \in DOMAIN inbox' :
           inbox'[i] = m \/ (i \in DOMAIN inbox /\ inbox'[i] = inbox[i])
  BY DEF TruthInv, TypeOK, Deliver
<1>2. \A k \in DOMAIN market :
        k \in DOMAIN (market') /\ (market')[k] = market[k]
  <2>1. market \in Seq(Symbols)
    BY DEF TruthInv, TypeOK
  <2>2. CASE market' = market
    BY <2>2
  <2>3. ASSUME NEW s \in Symbols, market' = Append(market, s)
        PROVE  \A k \in DOMAIN market :
                 k \in DOMAIN (market') /\ (market')[k] = market[k]
    BY <2>1, <2>3
  <2> QED BY <2>2, <2>3
<1>3. Len(inbox') <= MaxInbox
  BY <1>1, InboxAssumption DEF TruthInv, TypeOK, Deliver
<1> QED BY <1>1, <1>2, <1>3 DEF TruthInv, MessagesAreTrue

\* A step that leaves market and table as they are keeps what is said of them.
LEMMA TableKept ==
  ASSUME TruthInv, UNCHANGED <<market, age, table>>
  PROVE  RowsAreTrue' /\ FreshTicksKept'
BY DEF TruthInv, table, RowsAreTrue, FreshTicksKept, TooOld

\* So does one that adds a true row.
LEMMA RowAdded ==
  ASSUME TruthInv, NEW m, Insert(m), UNCHANGED <<market, age>>,
         NEW s \in Symbols, NEW k \in DOMAIN market, market[k] = s,
         m = [kind |-> "Tick", symbol |-> s, price |-> k, epoch |-> k]
  PROVE  /\ inserted' \in Seq(Row) /\ kept' \subseteq DOMAIN (inserted')
         /\ RowsAreTrue' /\ FreshTicksKept'
<1> DEFINE r == [symbol |-> s, epoch |-> k, price |-> k]
<1>1. k \in 1..MaxTicks
  BY BoundAssumption DEF TruthInv, TypeOK
<1>2. r \in Row
  BY <1>1, BoundAssumption DEF Row
<1>3. inserted' = Append(inserted, r) /\ kept' = kept \cup {Len(inserted) + 1}
  BY DEF Insert
<1>4. /\ inserted' \in Seq(Row) /\ Len(inserted') = Len(inserted) + 1
      /\ \A i \in DOMAIN (inserted') :
           IF i = Len(inserted) + 1 THEN (inserted')[i] = r
           ELSE i \in DOMAIN inserted /\ (inserted')[i] = inserted[i]
  BY <1>2, <1>3 DEF TruthInv, TypeOK
<1>5. kept' \subseteq DOMAIN (inserted')
  BY <1>3, <1>4 DEF TruthInv, TypeOK
<1>6. RowsAreTrue'
  BY <1>4 DEF TruthInv, RowsAreTrue
<1>7. FreshTicksKept'
  BY <1>3, <1>4 DEF TruthInv, FreshTicksKept, TooOld
<1> QED BY <1>4, <1>5, <1>6, <1>7

LEMMA ReceivePreserves ==
  ASSUME TruthInv, Receive
  PROVE  TruthInv'
<1> DEFINE m == Parse(Head(inbox))
<1>1. Head(inbox) \in Messages
  BY DEF TruthInv, TypeOK, Receive
<1>2. quiet' \in 0..Quiet
  BY TimeAssumption DEF Receive
<1>3. UNCHANGED <<market, age, dbUp>> /\ inbox # <<>>
  BY DEF Receive
<1>4. CASE Fail
  <2>1. inbox' = <<>> /\ UNCHANGED table
    BY <1>4 DEF Fail
  <2>2. inbox' \in Seq(Messages) /\ Len(inbox') <= MaxInbox
    BY <2>1, InboxAssumption
  <2>3. MessagesAreTrue'
    BY <2>1 DEF MessagesAreTrue
  <2>4. session' = "stopped" /\ up' = FALSE /\ asked' = {} /\ streams' = {}
    BY <1>4 DEF Fail
  <2> QED BY <1>2, <1>3, <2>1, <2>2, <2>3, <2>4, TableKept
          DEF TruthInv, TypeOK, table
<1>5. CASE ReceiveAuthorize(m)
  <2>1. asked' \subseteq Requests
    BY <1>5 DEF ReceiveAuthorize, Subscriptions, Requests, TruthInv, TypeOK
  <2> QED BY <1>2, <1>3, <1>5, <2>1, TailOfInbox, TableKept
          DEF TruthInv, TypeOK, ReceiveAuthorize, GoOn, table
<1>6. CASE ReceiveTick(m) /\ ~Fail
  <2>1. m.kind = "Tick" /\ GoOn /\ Insert(m) /\ UNCHANGED <<session, asked>>
    BY <1>6 DEF ReceiveTick
  <2>2. PICK s \in Symbols, k \in 1..MaxTicks :
          \E p \in Prices(k) : Head(inbox) = TickMessage(s, k, p)
    BY <1>1, <2>1, OnlyTicksAreTicks
  <2>3. m = [kind |-> "Tick", symbol |-> s, price |-> k, epoch |-> k]
    BY <2>2, ParseTickMessage
  <2>4. 1 \in DOMAIN inbox /\ inbox[1] = Head(inbox)
    BY <1>3 DEF TruthInv, TypeOK
  <2>5. k \in DOMAIN market /\ market[k] = s
    BY <2>2, <2>4 DEF TruthInv, MessagesAreTrue
  <2>6. /\ inserted' \in Seq(Row) /\ kept' \subseteq DOMAIN (inserted')
        /\ RowsAreTrue' /\ FreshTicksKept'
    <3> HIDE DEF m
    <3> QED BY <1>3, <2>1, <2>3, <2>5, RowAdded
  <2> QED BY <1>2, <1>3, <2>1, <2>6, TailOfInbox DEF TruthInv, TypeOK, GoOn
<1>7. CASE ReceiveMetadata(m) /\ ~Fail
  BY <1>2, <1>3, <1>7, TailOfInbox, TableKept
     DEF TruthInv, TypeOK, ReceiveMetadata, GoOn, table
<1>8. CASE ReceiveOther(m)
  BY <1>2, <1>3, <1>8, TailOfInbox, TableKept
     DEF TruthInv, TypeOK, ReceiveOther, GoOn, table
<1> QED BY <1>4, <1>5, <1>6, <1>7, <1>8
        DEF Receive, ReceiveTick, ReceiveMetadata

LEMMA PrunePreserves ==
  ASSUME TruthInv, Maintain
  PROVE  TruthInv'
<1>1. kept' \subseteq kept
  BY DEF Maintain, Prune
<1>2. FreshTicksKept'
  BY DEF Maintain, Prune, TruthInv, FreshTicksKept, TooOld
<1>3. asked' \subseteq Requests
  BY DEF Maintain, Requests, TruthInv, TypeOK
<1>4. quiet' \in 0..Quiet
  BY TimeAssumption DEF Maintain
<1>5. MessagesAreTrue' /\ RowsAreTrue'
  BY DEF Maintain, TruthInv, MessagesAreTrue, RowsAreTrue
<1> QED BY <1>1, <1>2, <1>3, <1>4, <1>5 DEF Maintain, TruthInv, TypeOK

LEMMA AnswerPreserves ==
  ASSUME TruthInv, Answer
  PROVE  TruthInv'
<1>1. PICK m \in {Welcome, Refusal, BalanceMessage, TimeMessage, Other} :
        Deliver(m)
  BY DEF Answer
<1>2. asked' \subseteq Requests
  BY DEF Answer, TruthInv, TypeOK
<1>3. \A s \in Symbols, k \in 1..MaxTicks : \A p \in Prices(k) :
        m # TickMessage(s, k, p)
  <2> SUFFICES ASSUME NEW s \in Symbols, NEW k \in 1..MaxTicks,
                      NEW p \in Prices(k), m = TickMessage(s, k, p)
               PROVE FALSE
    OBVIOUS
  <2>1. Parse(m).kind = "Tick"
    BY ParseTickMessage
  <2> QED BY <2>1, NotATick
<1>4. m \in Messages
  BY DEF Messages
<1>5. UNCHANGED <<session, up, streams, quiet, market, age, table, dbUp>>
  BY DEF Answer
<1>6. /\ inbox' \in Seq(Messages) /\ Len(inbox') <= MaxInbox
      /\ MessagesAreTrue'
  BY <1>1, <1>3, <1>4, <1>5, Delivered
<1> QED BY <1>2, <1>5, <1>6, TableKept DEF TruthInv, TypeOK, table

LEMMA StreamPreserves ==
  ASSUME TruthInv, Stream
  PROVE  TruthInv'
<1>1. PICK s \in Symbols :
        /\ streams' = streams \cup {s}
        /\ \/ UNCHANGED inbox
           \/ \E k \in LastTicks(s) : \E p \in Prices(k) :
                Deliver(TickMessage(s, k, p))
  BY DEF Stream
<1>2. UNCHANGED <<session, up, asked, quiet, market, age, table, dbUp>>
  BY DEF Stream
<1>3. /\ inbox' \in Seq(Messages) /\ Len(inbox') <= MaxInbox
      /\ MessagesAreTrue'
  <2>1. CASE UNCHANGED inbox
    BY <1>2, <2>1 DEF TruthInv, TypeOK, MessagesAreTrue
  <2>2. ASSUME NEW k \in LastTicks(s), NEW p \in Prices(k),
               Deliver(TickMessage(s, k, p))
        PROVE  /\ inbox' \in Seq(Messages) /\ Len(inbox') <= MaxInbox
               /\ MessagesAreTrue'
    <3>1. k \in DOMAIN market /\ market[k] = s /\ k \in 1..MaxTicks
      BY BoundAssumption DEF LastTicks, TruthInv, TypeOK
    <3>2. TickMessage(s, k, p) \in Messages
      BY <3>1 DEF Messages, TickMessages
    <3>3. \A t \in Symbols, j \in 1..MaxTicks : \A q \in Prices(j) :
            TickMessage(s, k, p) = TickMessage(t, j, q)
              => j \in DOMAIN (market') /\ (market')[j] = t
      BY <1>2, <3>1, SameTick
    <3> QED BY <1>2, <2>2, <3>2, <3>3, Delivered
  <2> QED BY <1>1, <2>1, <2>2
<1> QED BY <1>1, <1>2, <1>3, TableKept DEF TruthInv, TypeOK, table

LEMMA MarketTickPreserves ==
  ASSUME TruthInv, MarketTick
  PROVE  TruthInv'
<1> DEFINE n == Len(market) + 1
<1>1. PICK s \in Symbols :
        /\ market' = Append(market, s) /\ age' = Append(age, 0)
        /\ \/ UNCHANGED inbox
           \/ \E p \in Prices(n) : Deliver(TickMessage(s, n, p))
  BY DEF MarketTick
<1>2. UNCHANGED <<session, up, asked, streams, quiet, table, dbUp>>
  BY DEF MarketTick
<1>3. n \in 1..MaxTicks
  BY BoundAssumption DEF MarketTick, TruthInv, TypeOK
<1>4. /\ market' \in Seq(Symbols) /\ Len(market') = n
      /\ DOMAIN (market') = 1..n
      /\ (market')[n] = s
      /\ \A k \in DOMAIN market :
           k \in DOMAIN (market') /\ (market')[k] = market[k]
  BY <1>1 DEF TruthInv, TypeOK
<1>5. /\ age' \in [1..n -> 0..(Retention + 1)]
      /\ \A k \in DOMAIN market : (age')[k] = age[k]
  <2>1. DOMAIN market = 1..Len(market) /\ Len(market) \in Nat
    BY DEF TruthInv, TypeOK
  <2>2. age \in Seq(0..(Retention + 1)) /\ Len(age) = Len(market)
    <3>1. age \in [1..Len(market) -> 0..(Retention + 1)]
      BY <2>1 DEF TruthInv, TypeOK
    <3>2. age \in Seq(0..(Retention + 1))
      BY <2>1, <3>1, SeqDef
    <3> QED BY <2>1, <3>1, <3>2, LenProperties
  <2>3. 0 \in 0..(Retention + 1)
    BY TimeAssumption
  <2>4. /\ age' \in Seq(0..(Retention + 1)) /\ Len(age') = Len(market) + 1
        /\ \A k \in 1..Len(market) : (age')[k] = age[k]
    BY <1>1, <2>2, <2>3, AppendProperties
  <2>5. age' \in [1..Len(age') -> 0..(Retention + 1)]
    BY <2>4, LenProperties
  <2> QED BY <2>1, <2>4, <2>5
<1>6. /\ inbox' \in Seq(Messages) /\ Len(inbox') <= MaxInbox
      /\ MessagesAreTrue'
  <2>1. CASE UNCHANGED inbox
    BY <1>4, <2>1 DEF TruthInv, TypeOK, MessagesAreTrue
  <2>2. ASSUME NEW p \in Prices(n), Deliver(TickMessage(s, n, p))
        PROVE  /\ inbox' \in Seq(Messages) /\ Len(inbox') <= MaxInbox
               /\ MessagesAreTrue'
    <3>1. TickMessage(s, n, p) \in Messages
      BY <1>3 DEF Messages, TickMessages
    <3>2. \A t \in Symbols, j \in 1..MaxTicks : \A q \in Prices(j) :
            TickMessage(s, n, p) = TickMessage(t, j, q)
              => j \in DOMAIN (market') /\ (market')[j] = t
      <4> SUFFICES ASSUME NEW t \in Symbols, NEW j \in 1..MaxTicks,
                          NEW q \in Prices(j),
                          TickMessage(s, n, p) = TickMessage(t, j, q)
                   PROVE  j \in DOMAIN (market') /\ (market')[j] = t
        OBVIOUS
      <4>1. s = t /\ n = j
        BY <1>3, SameTick
      <4> QED BY <1>3, <1>4, <4>1
    <3>3. market' = Append(market, s)
      BY <1>1
    <3> HIDE DEF n
    <3> QED BY <2>2, <3>1, <3>2, <3>3, Delivered
  <2> QED BY <1>1, <2>1, <2>2
<1>7. Len(market') <= MaxTicks
  BY <1>3, <1>4
<1>8. RowsAreTrue'
  BY <1>2, <1>4 DEF TruthInv, RowsAreTrue, table
<1>9. FreshTicksKept'
  BY <1>2, <1>5 DEF TruthInv, RowsAreTrue, FreshTicksKept, TooOld, table
<1> QED BY <1>2, <1>4, <1>5, <1>6, <1>7, <1>8, <1>9 DEF TruthInv, TypeOK, table

LEMMA AdvancePreserves ==
  ASSUME TruthInv, Advance
  PROVE  TruthInv'
<1>1. age' \in [DOMAIN market -> 0..(Retention + 1)]
  BY TimeAssumption DEF Advance, TruthInv, TypeOK
<1>2. quiet' \in 0..Quiet
  BY TimeAssumption DEF Advance, TruthInv, TypeOK
<1>3. UNCHANGED <<session, up, asked, streams, inbox, market, table, dbUp>>
  BY DEF Advance
<1>4. MessagesAreTrue' /\ RowsAreTrue'
  BY <1>3 DEF TruthInv, MessagesAreTrue, RowsAreTrue, table
<1>5. \A k \in DOMAIN market : ~TooOld(k)' => ~TooOld(k)
  BY DEF Advance, TooOld, TruthInv, TypeOK
<1>6. FreshTicksKept'
  BY <1>3, <1>5 DEF TruthInv, RowsAreTrue, FreshTicksKept, TooOld, table
<1> QED BY <1>1, <1>2, <1>3, <1>4, <1>6 DEF TruthInv, TypeOK, table

\* The steps that empty the inbox or leave it, and touch neither market nor
\* table.
LEMMA SessionPreserves ==
  ASSUME TruthInv,
         Start \/ Crash \/ Connect \/ LoseConnection \/ Disconnect
           \/ DatabaseChanges
  PROVE  TruthInv'
<1> USE DEF TruthInv, TypeOK, MessagesAreTrue, RowsAreTrue, FreshTicksKept, TooOld,
            table
<1>1. \A S : <<>> \in Seq(S) /\ Len(<<>>) = 0 /\ DOMAIN <<>> = {}
  OBVIOUS
<1>2. CASE Start
  BY <1>2 DEF Start
<1>3. CASE Crash
  <2>1. /\ inbox' = <<>> /\ asked' = {} /\ streams' = {} /\ up' = FALSE
        /\ session' = "stopped" /\ quiet' = 0
        /\ UNCHANGED <<market, age, table, dbUp>>
    BY <1>3 DEF Crash
  <2>2. inbox' \in Seq(Messages) /\ Len(inbox') <= MaxInbox
    BY <1>1, <2>1, InboxAssumption
  <2>3. MessagesAreTrue'
    BY <1>1, <2>1
  <2>4. quiet' \in 0..Quiet
    BY <2>1, TimeAssumption
  <2>5. RowsAreTrue' /\ FreshTicksKept'
    BY <2>1, TableKept
  <2> QED BY <2>1, <2>2, <2>3, <2>4, <2>5
<1>4. CASE Connect
  BY <1>1, <1>4, TimeAssumption, InboxAssumption DEF Connect, Requests
<1>5. CASE LoseConnection
  BY <1>5, TimeAssumption DEF LoseConnection
<1>6. CASE Disconnect
  <2>1. /\ up' = FALSE
        /\ UNCHANGED <<session, asked, streams, inbox, quiet, market, age,
                       table, dbUp>>
    BY <1>6 DEF Disconnect
  <2>2. RowsAreTrue' /\ FreshTicksKept'
    BY <2>1, TableKept
  <2>3. MessagesAreTrue'
    BY <2>1
  <2>4. up' \in BOOLEAN
    BY <2>1
  <2>5. TypeOK'
    <3> HIDE DEF table
    <3>1. inserted' = inserted /\ kept' = kept
      BY <2>1 DEF table
    <3> QED BY <2>1, <2>4, <3>1
  <2> QED BY <2>2, <2>3, <2>5
<1>7. CASE DatabaseChanges
  BY <1>7 DEF DatabaseChanges, session_vars
<1> QED BY <1>2, <1>3, <1>4, <1>5, <1>6, <1>7

\* For every set of symbols and all bounds, rows and waiting ticks say what the
\* market did, and what is fresh stays stored.
THEOREM RecorderInductive == Spec => []TruthInv
<1>1. TruthInv /\ [Next]_vars => TruthInv'
  <2> SUFFICES ASSUME TruthInv, [Next]_vars PROVE TruthInv'
    OBVIOUS
  <2>1. CASE Next
    BY <2>1, SessionPreserves, ReceivePreserves, PrunePreserves,
       AnswerPreserves, StreamPreserves, MarketTickPreserves, AdvancePreserves
       DEF Next
  <2>2. CASE UNCHANGED vars
    BY <2>2 DEF vars, TruthInv, TypeOK, MessagesAreTrue, RowsAreTrue,
                FreshTicksKept, TooOld
  <2> QED BY <2>1, <2>2
<1> QED BY InitialTruthInv, <1>1, PTL DEF Spec

\* A stored tick is in the table for at least the retention time.
THEOREM FreshTicksStay == Spec => []FreshTicksKept
<1>1. TruthInv => FreshTicksKept
  BY DEF TruthInv
<1> QED BY <1>1, RecorderInductive, PTL

-------------------------------------------------------------------------------
(* Finite sets of numbers and their enumerations in ascending order *)

\* A set of natural numbers has a least one.
LEMMA Least ==
  ASSUME NEW T \in SUBSET Nat, T # {}
  PROVE  \E x \in T : \A y \in T : x <= y
<1>1. IsWellFoundedOn(OpToRel(<, Nat), Nat)
  BY NatLessThanWellFounded
<1>2. PICK x \in T : \A y \in T : ~ (<<y, x>> \in OpToRel(<, Nat))
  <2> DEFINE R == OpToRel(<, Nat)
  <2> HIDE DEF R
  <2>1. \E x \in T : \A y \in T : ~ (<<y, x>> \in R)
    BY <1>1, WFMin DEF R
  <2> QED BY <2>1 DEF R
<1>3. \A y \in T : ~ (y < x)
  BY <1>2 DEF OpToRel
<1> QED BY <1>3

\* q lists the members of S, the smallest first.
Enumerates(q, S) ==
  /\ q \in [1..Cardinality(S) -> S]
  /\ \A i, j \in 1..Cardinality(S) : i < j => q[i] < q[j]

\* An enumeration reaches every member.
LEMMA EnumerationIsOnto ==
  ASSUME NEW S \in SUBSET Nat, IsFiniteSet(S), NEW q, Enumerates(q, S)
  PROVE  \A x \in S : \E i \in 1..Cardinality(S) : q[i] = x
<1> DEFINE c == Cardinality(S)
<1>1. c \in Nat
  BY FS_CardinalityType
<1>2. q \in [1..c -> S] /\ \A i, j \in 1..c : i < j => q[i] < q[j]
  BY DEF Enumerates
<1>3. Cardinality(1..c) = c
  BY <1>1, FS_Interval
<1> HIDE DEF c
<1>4. ASSUME NEW i \in 1..c, NEW j \in 1..c, q[i] = q[j] PROVE i = j
  <2>1. q[i] \in Nat /\ q[j] \in Nat
    <3>1. q[i] \in S /\ q[j] \in S
      BY <1>2
    <3> QED BY <3>1
  <2>2. ~(i < j) /\ ~(j < i)
    BY <1>2, <1>4, <2>1
  <2> QED BY <1>1, <2>2
<1>5. q \in Injection(1..c, S)
  BY <1>2, <1>4 DEF Injection, IsInjective
<1>6. q \in Surjection(1..c, S)
  BY <1>3, <1>5, FS_Injection DEF c
<1> QED BY <1>6 DEF Surjection, c

\* There is only one.
LEMMA EnumerationIsUnique ==
  ASSUME NEW S \in SUBSET Nat, IsFiniteSet(S),
         NEW q, Enumerates(q, S), NEW r, Enumerates(r, S)
  PROVE  q = r
<1> DEFINE c == Cardinality(S)
           B == {i \in 1..c : q[i] # r[i]}
<1>1. c \in Nat
  BY FS_CardinalityType
<1>2. /\ q \in [1..c -> S] /\ \A i, j \in 1..c : i < j => q[i] < q[j]
      /\ r \in [1..c -> S] /\ \A i, j \in 1..c : i < j => r[i] < r[j]
  BY DEF Enumerates
<1>3. /\ \A x \in S : \E i \in 1..c : q[i] = x
      /\ \A x \in S : \E i \in 1..c : r[i] = x
  <2>1. \A x \in S : \E i \in 1..c : q[i] = x
    BY EnumerationIsOnto
  <2>2. \A x \in S : \E i \in 1..c : r[i] = x
    BY EnumerationIsOnto
  <2> QED BY <2>1, <2>2
<1>s. \A x \in S : x \in Int
  OBVIOUS
<1> HIDE DEF c
<1>4. B = {}
  <2> SUFFICES ASSUME B # {} PROVE FALSE
    OBVIOUS
  <2>1. B \subseteq Nat
    BY <1>1
  <2>2. PICK i \in B : \A j \in B : i <= j
    BY <2>1, Least
  <2>3. i \in 1..c /\ q[i] # r[i] /\ \A j \in 1..c : j < i => q[j] = r[j]
    BY <1>1, <2>2
  <2>4. PICK j \in 1..c : r[j] = q[i]
    BY <1>2, <1>3, <2>3
  <2>5. PICK k \in 1..c : q[k] = r[i]
    BY <1>2, <1>3, <2>3
  <2>6. q[i] \in Int /\ r[i] \in Int
    BY <1>2, <1>s, <2>3
  <2>7. CASE q[i] < r[i]
    <3>1. ~(i <= j)
      BY <1>1, <1>2, <2>3, <2>4, <2>6, <2>7
    <3>2. q[j] = q[i] /\ j < i
      BY <1>1, <2>3, <2>4, <3>1
    <3> QED BY <1>1, <1>2, <2>3, <2>6, <3>2
  <2>8. CASE r[i] < q[i]
    <3>1. ~(i <= k)
      BY <1>1, <1>2, <2>3, <2>5, <2>6, <2>8
    <3>2. r[k] = r[i] /\ k < i
      BY <1>1, <2>3, <2>5, <3>1
    <3> QED BY <1>1, <1>2, <2>3, <2>6, <3>2
  <2> QED BY <2>3, <2>6, <2>7, <2>8
<1>5. \A i \in 1..c : q[i] = r[i]
  BY <1>4
<1> HIDE DEF B
<1>6. q = [i \in 1..c |-> q[i]] /\ r = [i \in 1..c |-> r[i]]
  BY <1>2
<1> QED BY <1>5, <1>6

\* A number larger than all others comes last.
LEMMA EnumerationWithLargest ==
  ASSUME NEW S \in SUBSET Nat, IsFiniteSet(S), NEW q, Enumerates(q, S),
         NEW x \in Nat, \A y \in S : y < x
  PROVE  LET c == Cardinality(S)
         IN  /\ c \in Nat /\ Cardinality(S \cup {x}) = c + 1
             /\ Enumerates([i \in 1..c + 1 |-> IF i = c + 1 THEN x ELSE q[i]], S \cup {x})
<1> DEFINE c == Cardinality(S)
           r == [i \in 1..c + 1 |-> IF i = c + 1 THEN x ELSE q[i]]
<1>1. c \in Nat
  BY FS_CardinalityType
<1>2. Cardinality(S \cup {x}) = c + 1
  BY FS_AddElement
<1>3. q \in [1..c -> S] /\ \A i, j \in 1..c : i < j => q[i] < q[j]
  BY DEF Enumerates
<1> HIDE DEF c
<1>4. r \in [1..c + 1 -> S \cup {x}]
  BY <1>1, <1>3
<1>5. \A i, j \in 1..c + 1 : i < j => r[i] < r[j]
  <2> SUFFICES ASSUME NEW i \in 1..c + 1, NEW j \in 1..c + 1, i < j PROVE r[i] < r[j]
    OBVIOUS
  <2>1. i \in 1..c /\ r[i] = q[i] /\ q[i] \in S
    BY <1>1, <1>3
  <2>2. CASE j = c + 1
    BY <1>1, <2>1, <2>2
  <2>3. CASE j # c + 1
    <3>1. j \in 1..c /\ r[j] = q[j]
      BY <1>1, <2>3
    <3> QED BY <1>3, <2>1, <3>1
  <2> QED BY <2>2, <2>3
<1> HIDE DEF r
<1>6. Enumerates(r, S \cup {x})
  BY <1>2, <1>4, <1>5 DEF Enumerates
<1> QED BY <1>1, <1>2, <1>6 DEF c, r

\* Every set of numbers up to n has one. The least n for which that were wrong
\* could be neither 0 nor the successor of a number for which it is right.
LEMMA EnumerationExists ==
  \A n \in Nat : \A S \in SUBSET (1..n) : \E q : Enumerates(q, S)
<1> DEFINE T == {n \in Nat : \E S \in SUBSET (1..n) : \A q : ~Enumerates(q, S)}
<1> SUFFICES T = {}
  OBVIOUS
<1> SUFFICES ASSUME T # {} PROVE FALSE
  OBVIOUS
<1>1. PICK n \in T : \A m \in T : n <= m
  BY Least
<1>2. PICK S \in SUBSET (1..n) : \A q : ~Enumerates(q, S)
  BY <1>1
<1>3. n \in Nat
  OBVIOUS
<1>4. CASE S = {}
  <2>1. Cardinality(S) = 0
    BY <1>4, FS_EmptySet
  <2>2. <<>> \in [1..0 -> S]
    OBVIOUS
  <2>3. Enumerates(<<>>, S)
    BY <2>1, <2>2 DEF Enumerates
  <2> QED BY <1>2, <2>3
<1>5. CASE S # {}
  <2>1. n - 1 \in Nat /\ n - 1 \notin T
    <3>1. n # 0
      <4> SUFFICES ASSUME n = 0 PROVE FALSE
        OBVIOUS
      <4>1. 1..n = {}
        OBVIOUS
      <4> QED BY <1>5, <4>1
    <3> HIDE DEF T
    <3> QED BY <1>1, <1>3, <3>1
  <2>2. \A R \in SUBSET (1..n - 1) : \E q : Enumerates(q, R)
    BY <2>1
  <2> DEFINE R == S \ {n}
  <2>3. R \in SUBSET (1..n - 1)
    BY <1>3
  <2>4. PICK q : Enumerates(q, R)
    BY <2>2, <2>3
  <2>5. n \in S
    <3> SUFFICES ASSUME n \notin S PROVE FALSE
      OBVIOUS
    <3>1. R = S
      OBVIOUS
    <3> QED BY <1>2, <2>4, <3>1
  <2>6. R \cup {n} = S /\ R \subseteq Nat /\ \A y \in R : y < n
    BY <1>3, <2>3, <2>5
  <2>7. IsFiniteSet(R)
    <3> HIDE DEF R
    <3>1. IsFiniteSet(1..n - 1)
      BY <2>1, FS_Interval
    <3> QED BY <2>3, <3>1, FS_Subset
  <2> HIDE DEF R, T
  <2>8. \E r : Enumerates(r, R \cup {n})
    BY <1>3, <2>4, <2>6, <2>7, EnumerationWithLargest
  <2> QED BY <1>2, <2>6, <2>8
<1> QED BY <1>4, <1>5

\* An enumeration without its first n members.
From(q, n, m) == [i \in 1..m |-> q[n + i]]

\* What is left when the smallest members are taken out is enumerated by the
\* rest of the enumeration.
LEMMA EnumerationOfLarger ==
  ASSUME NEW S \in SUBSET Nat, IsFiniteSet(S), NEW q, Enumerates(q, S),
         NEW R \in SUBSET S, \A x \in R, y \in S : x < y => y \in R
  PROVE  \E n \in 0..Cardinality(S) :
           /\ Cardinality(R) = Cardinality(S) - n
           /\ \A i \in 1..n : q[i] \in S \ R
           /\ Enumerates(From(q, n, Cardinality(R)), R)
<1> DEFINE c == Cardinality(S)
           T == {m \in 0..c : \A i \in 1..c : i > m => q[i] \in R}
<1>1. c \in Nat
  BY FS_CardinalityType
<1>2. q \in [1..c -> S] /\ \A i, j \in 1..c : i < j => q[i] < q[j]
  BY DEF Enumerates
<1>3. \A x \in S : \E i \in 1..c : q[i] = x
  BY EnumerationIsOnto
<1> HIDE DEF c
<1>4. c \in T /\ T \subseteq Nat
  BY <1>1
<1>5. PICK n \in T : \A m \in T : n <= m
  BY <1>4, Least
<1>6. n \in 0..c /\ \A i \in 1..c : i > n => q[i] \in R
  BY <1>5
<1>7. \A i \in 1..n : q[i] \in S \ R
  <2> SUFFICES ASSUME NEW i \in 1..n, q[i] \in R PROVE FALSE
    BY <1>1, <1>2, <1>6
  <2>1. n \in 1..c /\ i \in 1..c
    BY <1>1, <1>6
  <2>2. q[n] \in R
    <3>1. q[n] \in S /\ (i = n \/ q[i] < q[n])
      BY <1>1, <1>2, <2>1
    <3> QED BY <3>1
  <2>3. n - 1 \in T
    <3>1. \A j \in 1..c : j > n - 1 => q[j] \in R
      BY <1>1, <1>6, <2>1, <2>2
    <3> QED BY <1>1, <2>1, <3>1
  <2> QED BY <1>5, <1>6, <2>3
<1> DEFINE f == [i \in 1..c - n |-> q[n + i]]
<1>8. c - n \in Nat /\ f \in [1..c - n -> R]
  BY <1>1, <1>6
<1>9. \A i, j \in 1..c - n : i < j => f[i] < f[j]
  BY <1>1, <1>2, <1>6
<1>10. \A x \in R : \E i \in 1..c - n : f[i] = x
  <2> SUFFICES ASSUME NEW x \in R PROVE \E i \in 1..c - n : f[i] = x
    OBVIOUS
  <2>1. PICK j \in 1..c : q[j] = x
    BY <1>3
  <2>2. j > n
    BY <1>1, <1>6, <1>7, <2>1
  <2>3. j - n \in 1..c - n /\ f[j - n] = x
    BY <1>1, <1>6, <2>1, <2>2
  <2> QED BY <2>3
<1> HIDE DEF f, T
<1>11. Cardinality(R) = c - n
  <2>1. \A i, j \in 1..c - n : f[i] = f[j] => i = j
    <3> SUFFICES ASSUME NEW i \in 1..c - n, NEW j \in 1..c - n, f[i] = f[j], i # j
                 PROVE  FALSE
      OBVIOUS
    <3>1. f[i] \in R
      BY <1>8
    <3>2. i < j \/ j < i
      BY <1>8
    <3>3. ~(f[i] < f[i])
      <4>1. f[i] \in Nat
        BY <3>1
      <4> QED BY <4>1
    <3> QED BY <1>9, <3>2, <3>3
  <2>2. f \in Bijection(1..c - n, R)
    BY <1>8, <1>10, <2>1 DEF Bijection, Injection, IsInjective, Surjection
  <2>3. ExistsBijection(1..c - n, R)
    BY <2>2 DEF ExistsBijection
  <2> QED BY <1>8, <2>3, FS_CountingElements
<1>12. Enumerates(f, R)
  BY <1>8, <1>9, <1>11 DEF Enumerates
<1> QED BY <1>6, <1>7, <1>11, <1>12 DEF c, f, From

-------------------------------------------------------------------------------
(* Ticks come in the order of the market *)

\* A waiting tick says what the market did.
LEMMA TickIsTrue ==
  ASSUME TruthInv, NEW i \in DOMAIN inbox, IsTick(inbox[i])
  PROVE  /\ Parse(inbox[i]).epoch \in DOMAIN market
         /\ market[Parse(inbox[i]).epoch] = Parse(inbox[i]).symbol
<1>1. inbox[i] \in Messages
  BY DEF TruthInv, TypeOK
<1>2. PICK s \in Symbols, k \in 1..MaxTicks : \E p \in Prices(k) :
        inbox[i] = TickMessage(s, k, p)
  BY <1>1, OnlyTicksAreTicks DEF IsTick
<1>3. Parse(inbox[i]) = [kind |-> "Tick", symbol |-> s, price |-> k, epoch |-> k]
  BY <1>2, ParseTickMessage
<1>4. k \in DOMAIN market /\ market[k] = s
  BY <1>2 DEF TruthInv, MessagesAreTrue
<1> QED BY <1>3, <1>4

\* A message is put at the end; if it is a tick, it is the last of its symbol.
LEMMA DeliveredInOrder ==
  ASSUME TruthInv, TicksInOrder, NEW m, Deliver(m), UNCHANGED table,
         IsTick(m) => \A k \in DOMAIN market :
                        market[k] = Parse(m).symbol => k <= Parse(m).epoch
  PROVE  /\ \A i, j \in DOMAIN inserted' :
              i < j => NotAfter(inserted'[i], inserted'[j])
         /\ \A j \in DOMAIN inbox' : IsTick(inbox'[j]) =>
              /\ \A i \in DOMAIN inserted' : NotAfter(inserted'[i], Parse(inbox'[j]))
              /\ \A i \in DOMAIN inbox' :
                   i < j /\ IsTick(inbox'[i]) =>
                     NotAfter(Parse(inbox'[i]), Parse(inbox'[j]))
<1> DEFINE n == Len(inbox) + 1
<1>1. /\ Len(inbox) \in Nat /\ DOMAIN inbox = 1..Len(inbox) /\ DOMAIN inbox' = 1..n
      /\ inbox'[n] = m
      /\ \A i \in 1..Len(inbox) : inbox'[i] = inbox[i]
  BY DEF Deliver, TruthInv, TypeOK
<1>2. \A j \in DOMAIN inbox' : j = n \/ j \in DOMAIN inbox
  BY <1>1
<1>3. inserted' = inserted
  BY DEF table
<1>4. IsTick(m) => \A i \in DOMAIN inserted : NotAfter(inserted[i], Parse(m))
  BY DEF TruthInv, RowsAreTrue, NotAfter
<1>5. IsTick(m) => \A i \in DOMAIN inbox :
        IsTick(inbox[i]) => NotAfter(Parse(inbox[i]), Parse(m))
  BY TickIsTrue DEF NotAfter
<1>6. ASSUME NEW j \in DOMAIN inbox', IsTick(inbox'[j]), NEW i \in DOMAIN inbox', i < j
      PROVE  i \in DOMAIN inbox
  BY <1>1, <1>6
<1> HIDE DEF n
<1>7. ASSUME NEW j \in DOMAIN inbox', IsTick(inbox'[j])
      PROVE  /\ \A i \in DOMAIN inserted : NotAfter(inserted[i], Parse(inbox'[j]))
             /\ \A i \in DOMAIN inbox' :
                  i < j /\ IsTick(inbox'[i]) => NotAfter(Parse(inbox'[i]), Parse(inbox'[j]))
  <2>1. CASE j = n
    BY <1>1, <1>4, <1>5, <1>6, <1>7, <2>1
  <2>2. CASE j \in DOMAIN inbox
    BY <1>1, <1>6, <1>7, <2>2 DEF TicksInOrder
  <2> QED BY <1>2, <2>1, <2>2
<1> QED BY <1>3, <1>7 DEF TicksInOrder

\* The first message is taken out; what is left stays in order.
LEMMA TailInOrder ==
  ASSUME TruthInv, TicksInOrder, inbox # <<>>, inbox' = Tail(inbox)
  PROVE  /\ \A j \in DOMAIN inbox' : j + 1 \in DOMAIN inbox /\ inbox'[j] = inbox[j + 1]
         /\ 1 \in DOMAIN inbox /\ Head(inbox) = inbox[1]
         /\ \A j \in DOMAIN inbox' : IsTick(inbox'[j]) =>
              /\ \A i \in DOMAIN inserted : NotAfter(inserted[i], Parse(inbox'[j]))
              /\ \A i \in DOMAIN inbox' :
                   i < j /\ IsTick(inbox'[i]) =>
                     NotAfter(Parse(inbox'[i]), Parse(inbox'[j]))
              /\ IsTick(Head(inbox)) => NotAfter(Parse(Head(inbox)), Parse(inbox'[j]))
<1>1. /\ Len(inbox) \in Nat /\ DOMAIN inbox = 1..Len(inbox)
      /\ DOMAIN inbox' = 1..Len(inbox) - 1
      /\ \A j \in 1..Len(inbox) - 1 : inbox'[j] = inbox[j + 1]
      /\ Len(inbox) # 0 /\ Head(inbox) = inbox[1]
  BY DEF TruthInv, TypeOK
<1>2. /\ \A j \in DOMAIN inbox' : j + 1 \in DOMAIN inbox /\ inbox'[j] = inbox[j + 1]
      /\ 1 \in DOMAIN inbox /\ Head(inbox) = inbox[1]
  BY <1>1
<1>3. \A i, j \in DOMAIN inbox' : (i < j => i + 1 < j + 1) /\ 1 < j + 1
  BY <1>1
<1> QED BY <1>2, <1>3 DEF TicksInOrder

\* Every step keeps the order: a subscription begins with the last tick of its
\* symbol, a new tick is the last of all, and the inbox is first in, first out.
LEMMA OrderStep ==
  ASSUME TruthInv, TicksInOrder, [Next]_vars
  PROVE  TicksInOrder'
<1>t. /\ market \in Seq(Symbols) /\ Len(market) \in Nat /\ DOMAIN market = 1..Len(market)
      /\ age \in [DOMAIN market -> 0..(Retention + 1)]
      /\ inserted \in Seq(Row) /\ Len(inserted) \in Nat /\ DOMAIN inserted = 1..Len(inserted)
  BY DEF TruthInv, TypeOK
<1>0. CASE UNCHANGED <<inbox, inserted, market, age>>
  BY <1>0 DEF TicksInOrder
<1>e. CASE inbox' = <<>> /\ UNCHANGED <<inserted, market, age>>
  <2>1. DOMAIN inbox' = {}
    BY <1>e
  <2> QED BY <1>e, <2>1 DEF TicksInOrder
<1>1. CASE Receive /\ inbox' # <<>>
  <2> DEFINE m == Parse(Head(inbox))
  <2>1. inbox # <<>> /\ UNCHANGED <<market, age>>
    BY <1>1 DEF Receive
  <2>2. inbox' = Tail(inbox)
    BY <1>1 DEF Receive, ReceiveAuthorize, ReceiveTick, ReceiveMetadata, ReceiveOther,
                Fail, GoOn
  <2>3. CASE UNCHANGED table
    BY <2>1, <2>2, <2>3, TailInOrder DEF TicksInOrder, table
  <2>4. CASE IsTick(Head(inbox)) /\ Insert(m)
    <3> DEFINE n == Len(inserted) + 1
    <3>1. /\ DOMAIN inserted' = 1..n
          /\ \A i \in DOMAIN inserted : inserted'[i] = inserted[i]
          /\ inserted'[n].symbol = m.symbol /\ inserted'[n].epoch = m.epoch
      BY <1>t, <2>4 DEF Insert
    <3>2. \A i \in DOMAIN inserted' : i = n \/ i \in DOMAIN inserted
      BY <1>t, <3>1
    <3>3. \A i, j \in DOMAIN inserted' : i < j => i \in DOMAIN inserted
      BY <1>t, <3>1
    <3>4. \A i \in DOMAIN inserted : NotAfter(inserted[i], m)
      BY <2>1, <2>2, <2>4, TailInOrder DEF TicksInOrder
    <3>5. \A j \in DOMAIN inbox' : IsTick(inbox'[j]) =>
              /\ \A i \in DOMAIN inserted : NotAfter(inserted[i], Parse(inbox'[j]))
              /\ \A i \in DOMAIN inbox' :
                   i < j /\ IsTick(inbox'[i]) =>
                     NotAfter(Parse(inbox'[i]), Parse(inbox'[j]))
              /\ NotAfter(m, Parse(inbox'[j]))
      BY <2>1, <2>2, <2>4, TailInOrder
    <3> HIDE DEF m, n
    <3>6. \A i, j \in DOMAIN inserted' : i < j => NotAfter(inserted'[i], inserted'[j])
      <4> SUFFICES ASSUME NEW i \in DOMAIN inserted', NEW j \in DOMAIN inserted', i < j
                   PROVE  NotAfter(inserted'[i], inserted'[j])
        OBVIOUS
      <4>1. i \in DOMAIN inserted
        BY <3>3
      <4>2. CASE j = n
        BY <3>1, <3>4, <4>1, <4>2 DEF NotAfter
      <4>3. CASE j \in DOMAIN inserted
        BY <3>1, <4>1, <4>3 DEF TicksInOrder
      <4> QED BY <3>2, <4>2, <4>3
    <3>7. ASSUME NEW j \in DOMAIN inbox', IsTick(inbox'[j])
          PROVE  \A i \in DOMAIN inserted' : NotAfter(inserted'[i], Parse(inbox'[j]))
      <4>1. NotAfter(m, Parse(inbox'[j]))
        BY <3>5, <3>7
      <4>2. NotAfter(inserted'[n], Parse(inbox'[j]))
        BY <3>1, <4>1 DEF NotAfter
      <4> QED BY <3>1, <3>2, <3>5, <3>7, <4>2
    <3> QED BY <2>1, <3>5, <3>6, <3>7 DEF TicksInOrder
  <2> QED BY <1>1, <2>3, <2>4
          DEF Receive, ReceiveAuthorize, ReceiveTick, ReceiveMetadata, ReceiveOther, Fail,
              IsTick
<1>2. CASE Receive /\ inbox' = <<>>
  <2>1. UNCHANGED <<market, age>> /\ inbox # <<>>
    BY <1>2 DEF Receive
  <2>2. CASE UNCHANGED table
    BY <1>2, <1>e, <2>1, <2>2 DEF table
  <2>3. CASE IsTick(Head(inbox)) /\ Insert(Parse(Head(inbox)))
    <3> DEFINE n == Len(inserted) + 1
               m == Parse(Head(inbox))
    <3>1. /\ DOMAIN inserted' = 1..n
          /\ \A i \in DOMAIN inserted : inserted'[i] = inserted[i]
          /\ inserted'[n].symbol = m.symbol /\ inserted'[n].epoch = m.epoch
      BY <1>t, <2>3 DEF Insert
    <3>2. \A i, j \in DOMAIN inserted' :
            i < j => i \in DOMAIN inserted /\ (j = n \/ j \in DOMAIN inserted)
      BY <1>t, <3>1
    <3>3. 1 \in DOMAIN inbox /\ Head(inbox) = inbox[1]
      BY <2>1 DEF TruthInv, TypeOK
    <3>4. \A i \in DOMAIN inserted : NotAfter(inserted[i], m)
      BY <2>3, <3>3 DEF TicksInOrder
    <3> HIDE DEF m, n
    <3>5. \A i, j \in DOMAIN inserted' : i < j => NotAfter(inserted'[i], inserted'[j])
      BY <3>1, <3>2, <3>4 DEF TicksInOrder, NotAfter
    <3>6. DOMAIN inbox' = {}
      BY <1>2
    <3> QED BY <2>1, <3>5, <3>6 DEF TicksInOrder
  <2> QED BY <1>2, <2>2, <2>3
          DEF Receive, ReceiveAuthorize, ReceiveTick, ReceiveMetadata, ReceiveOther, Fail,
              IsTick
<1>3. CASE Answer
  <2>1. PICK m \in {Welcome, Refusal, BalanceMessage, TimeMessage, Other} : Deliver(m)
    BY <1>3 DEF Answer
  <2>2. ~IsTick(m) /\ UNCHANGED <<table, market, age>>
    BY <1>3, NotATick DEF Answer, IsTick
  <2> QED BY <2>1, <2>2, DeliveredInOrder DEF TicksInOrder
<1>4. CASE Stream
  <2>1. UNCHANGED <<table, market, age>>
    BY <1>4 DEF Stream
  <2>2. ASSUME NEW s \in Symbols, NEW k \in LastTicks(s), NEW p \in Prices(k),
               Deliver(TickMessage(s, k, p))
        PROVE  TicksInOrder'
    <3> DEFINE m == TickMessage(s, k, p)
    <3>1. k \in DOMAIN market /\ k \in 1..MaxTicks
      BY BoundAssumption DEF LastTicks, TruthInv, TypeOK
    <3>2. Parse(m) = [kind |-> "Tick", symbol |-> s, price |-> k, epoch |-> k]
      BY <3>1, ParseTickMessage
    <3>3. \A j \in DOMAIN market : market[j] = s => j <= k
      BY <1>t, <3>1 DEF LastTicks
    <3>4. \A j \in DOMAIN market : market[j] = Parse(m).symbol => j <= Parse(m).epoch
      BY <3>2, <3>3
    <3> HIDE DEF m
    <3> QED BY <2>1, <2>2, <3>4, DeliveredInOrder DEF TicksInOrder, m
  <2>3. CASE UNCHANGED inbox
    BY <1>0, <2>1, <2>3 DEF table
  <2> QED BY <1>4, <2>2, <2>3 DEF Stream
<1>5. CASE MarketTick
  <2> DEFINE n == Len(market) + 1
  <2>1. PICK s \in Symbols :
          /\ market' = Append(market, s) /\ age' = Append(age, 0)
          /\ UNCHANGED inbox \/ \E p \in Prices(n) : Deliver(TickMessage(s, n, p))
    BY <1>5 DEF MarketTick
  <2>2. n \in 1..MaxTicks /\ UNCHANGED table
    BY <1>5, <1>t, BoundAssumption DEF MarketTick
  <2>3. \A j, k \in DOMAIN market' : j < k => age'[j] >= age'[k]
    <3>1. DOMAIN market' = 1..n
      BY <1>t, <2>1
    <3>2. age \in Seq(0..(Retention + 1)) /\ Len(age) = Len(market)
      <4>1. age \in [1..Len(market) -> 0..(Retention + 1)]
        BY <1>t
      <4>2. Len(market) \in Nat
        BY <1>t
      <4>3. age \in Seq(0..(Retention + 1))
        BY <4>1, <4>2, SeqDef
      <4> QED BY <4>1, <4>2, <4>3, LenProperties
    <3>3. age'[n] = 0 /\ \A k \in 1..Len(market) : age'[k] = age[k]
      BY <2>1, <3>2, AppendProperties
    <3>4. \A j \in DOMAIN market : age[j] \in Nat
      BY <1>t, TimeAssumption
    <3>5. ASSUME NEW j \in DOMAIN market', NEW k \in DOMAIN market', j < k
          PROVE  age'[j] >= age'[k]
      <4>1. j \in DOMAIN market /\ age'[j] = age[j]
        BY <1>t, <3>1, <3>3, <3>5
      <4>2. CASE k = n
        BY <3>3, <3>4, <4>1, <4>2
      <4>3. CASE k # n
        <5>1. k \in DOMAIN market /\ age'[k] = age[k]
          BY <1>t, <3>1, <3>3, <4>3
        <5> QED BY <3>5, <4>1, <5>1 DEF TicksInOrder
      <4> QED BY <4>2, <4>3
    <3> QED BY <3>5
  <2>4. CASE UNCHANGED inbox
    BY <2>2, <2>3, <2>4 DEF TicksInOrder, table
  <2>5. ASSUME NEW p \in Prices(n), Deliver(TickMessage(s, n, p))
        PROVE  TicksInOrder'
    <3> DEFINE m == TickMessage(s, n, p)
    <3>1. Parse(m) = [kind |-> "Tick", symbol |-> s, price |-> n, epoch |-> n]
      BY <2>2, ParseTickMessage
    <3>2. \A j \in DOMAIN market : j <= n
      BY <1>t
    <3>3. \A j \in DOMAIN market : market[j] = Parse(m).symbol => j <= Parse(m).epoch
      BY <3>1, <3>2
    <3> HIDE DEF m
    <3> QED BY <2>2, <2>3, <2>5, <3>3, DeliveredInOrder DEF TicksInOrder, m
  <2> QED BY <2>1, <2>4, <2>5
<1>6. CASE Advance
  <2>1. /\ age' = [k \in DOMAIN age |-> IF age[k] > Retention THEN age[k] ELSE age[k] + 1]
        /\ UNCHANGED <<inbox, market, inserted>>
    BY <1>6 DEF Advance, table
  <2>2. \A j, k \in DOMAIN market : j < k => age'[j] >= age'[k]
    <3> SUFFICES ASSUME NEW j \in DOMAIN market, NEW k \in DOMAIN market, j < k
                 PROVE  age'[j] >= age'[k]
      OBVIOUS
    <3>1. age[j] \in 0..(Retention + 1) /\ age[k] \in 0..(Retention + 1) /\ age[j] >= age[k]
      BY <1>t DEF TicksInOrder
    <3>2. /\ age'[j] = IF age[j] > Retention THEN age[j] ELSE age[j] + 1
          /\ age'[k] = IF age[k] > Retention THEN age[k] ELSE age[k] + 1
      BY <1>t, <2>1
    <3> QED BY <3>1, <3>2, TimeAssumption
  <2> QED BY <2>1, <2>2 DEF TicksInOrder
<1>7. CASE Start \/ Crash \/ Connect \/ LoseConnection \/ Maintain \/ Disconnect
           \/ DatabaseChanges \/ UNCHANGED vars
  BY <1>7, <1>0, <1>e
  DEF Start, Crash, Connect, LoseConnection, Maintain, Disconnect, DatabaseChanges, vars,
      table, session_vars
<1> QED BY <1>1, <1>2, <1>3, <1>4, <1>5, <1>6, <1>7 DEF Next

-------------------------------------------------------------------------------
(* What a reader finds *)

\* load_ticks returns the ticks of a symbol in the order in which they were
\* stored, whatever enumerates its rows in that order.
ReadsRowsInOrder ==
  \A s \in Symbols :
    /\ RowsOf(s) \in SUBSET Nat /\ IsFiniteSet(RowsOf(s))
    /\ \E q : Enumerates(q, RowsOf(s))
    /\ \A q : Enumerates(q, RowsOf(s)) =>
         LoadTicks(s) = [i \in 1..Cardinality(RowsOf(s)) |-> inserted[q[i]].epoch]

LEMMA TapeOf == TruthInv /\ TicksInOrder => ReadsRowsInOrder
<1> SUFFICES ASSUME TruthInv, TicksInOrder, NEW s \in Symbols
             PROVE  /\ RowsOf(s) \in SUBSET Nat /\ IsFiniteSet(RowsOf(s))
                    /\ \E q : Enumerates(q, RowsOf(s))
                    /\ \A q : Enumerates(q, RowsOf(s)) =>
                         LoadTicks(s) =
                           [i \in 1..Cardinality(RowsOf(s)) |-> inserted[q[i]].epoch]
  BY DEF ReadsRowsInOrder
<1> DEFINE R == RowsOf(s)
           c == Cardinality(R)
<1>1. Len(inserted) \in Nat /\ R \in SUBSET (1..Len(inserted))
  BY DEF TruthInv, TypeOK, RowsOf
<1>2. \A i \in R : inserted[i].epoch \in Int
  <2>1. \A i \in R : inserted[i] \in Row
    BY <1>1 DEF TruthInv, TypeOK
  <2> QED BY <2>1 DEF Row
<1>3. \A i, j \in R : i < j => inserted[i].epoch <= inserted[j].epoch
  BY <1>1 DEF TicksInOrder, NotAfter, RowsOf, TruthInv, TypeOK
<1> HIDE DEF R
<1>4. \A i, j \in R : Before(i, j) <=> i < j
  BY <1>1, <1>2, <1>3 DEF Before
<1>5. R \in SUBSET Nat /\ IsFiniteSet(R)
  <2>1. IsFiniteSet(1..Len(inserted))
    BY <1>1, FS_Interval
  <2>2. IsFiniteSet(R)
    BY <1>1, <2>1, FS_Subset
  <2> QED BY <1>1, <2>2
<1>6. \E q : Enumerates(q, R)
  BY <1>1, EnumerationExists
<1>7. \A q \in [1..c -> R] :
        Enumerates(q, R) <=> \A i, j \in DOMAIN q : i < j => Before(q[i], q[j])
  BY <1>4 DEF Enumerates
<1>8. Enumerates(Sorted(R), R)
  <2>1. \E q \in [1..c -> R] : \A i, j \in DOMAIN q : i < j => Before(q[i], q[j])
    BY <1>6, <1>7 DEF Enumerates
  <2>2. /\ Sorted(R) \in [1..c -> R]
        /\ \A i, j \in DOMAIN Sorted(R) : i < j => Before(Sorted(R)[i], Sorted(R)[j])
    BY <2>1 DEF Sorted
  <2> QED BY <1>7, <2>2
<1>9. LoadTicks(s) = [i \in 1..c |-> inserted[Sorted(R)[i]].epoch]
  <2>1. DOMAIN Sorted(R) = 1..c
    BY <1>8 DEF Enumerates
  <2> QED BY <2>1 DEF LoadTicks, R
<1>10. ASSUME NEW q, Enumerates(q, R)
       PROVE  LoadTicks(s) = [i \in 1..c |-> inserted[q[i]].epoch]
  <2>1. q = Sorted(R)
    BY <1>5, <1>8, <1>10, EnumerationIsUnique
  <2> QED BY <1>9, <2>1
<1> QED BY <1>5, <1>6, <1>10 DEF R

LEMMA NextTapeOf == TruthInv' /\ TicksInOrder' => ReadsRowsInOrder'
BY TapeOf, PTL

\* Who finds the same rows reads the same ticks.
LEMMA SameRows ==
  ASSUME ReadsRowsInOrder, ReadsRowsInOrder', NEW s \in Symbols,
         RowsOf(s)' = RowsOf(s), \A i \in RowsOf(s) : inserted'[i] = inserted[i]
  PROVE  LoadTicks(s)' = LoadTicks(s)
<1> DEFINE c == Cardinality(RowsOf(s))
<1>1. PICK q : Enumerates(q, RowsOf(s))
  BY DEF ReadsRowsInOrder
<1>2. LoadTicks(s) = [i \in 1..c |-> inserted[q[i]].epoch]
  BY <1>1 DEF ReadsRowsInOrder
<1>3. LoadTicks(s)' = [i \in 1..c |-> inserted'[q[i]].epoch]
  BY <1>1 DEF ReadsRowsInOrder
<1>4. \A i \in 1..c : q[i] \in RowsOf(s)
  BY <1>1 DEF Enumerates
<1> HIDE DEF c
<1> QED BY <1>2, <1>3, <1>4

\* A step that leaves the table alone leaves the tape alone.
LEMMA SameTable ==
  ASSUME ReadsRowsInOrder, ReadsRowsInOrder', UNCHANGED table
  PROVE  [s \in Symbols |-> LoadTicks(s)]' = [s \in Symbols |-> LoadTicks(s)]
<1>1. \A s \in Symbols : LoadTicks(s)' = LoadTicks(s)
  <2> SUFFICES ASSUME NEW s \in Symbols PROVE LoadTicks(s)' = LoadTicks(s)
    OBVIOUS
  <2>1. RowsOf(s)' = RowsOf(s) /\ inserted' = inserted
    BY DEF table, RowsOf
  <2> QED BY <2>1, SameRows
<1> QED BY <1>1

\* A new row is a new tick at the end of the tape of its symbol.
LEMMA InsertRecords ==
  ASSUME TruthInv, TicksInOrder, ReadsRowsInOrder, ReadsRowsInOrder',
         UNCHANGED <<market, age>>,
         NEW s \in Symbols, NEW k \in 1..MaxTicks, NEW m, Insert(m),
         m = [kind |-> "Tick", symbol |-> s, price |-> k, epoch |-> k],
         \A i \in DOMAIN inserted : NotAfter(inserted[i], m)
  PROVE  Tape!Record
<1> DEFINE x == Len(inserted) + 1
           c == Cardinality(RowsOf(s))
<1>1. /\ Len(inserted) \in Nat /\ kept \subseteq 1..Len(inserted)
      /\ kept' = kept \cup {x}
      /\ inserted'[x].symbol = s /\ inserted'[x].epoch = k
      /\ \A i \in 1..Len(inserted) : inserted'[i] = inserted[i]
  BY DEF TruthInv, TypeOK, Insert
<1>2. /\ RowsOf(s)' = RowsOf(s) \cup {x}
      /\ \A t \in Symbols : t # s => RowsOf(t)' = RowsOf(t)
      /\ \A t \in Symbols : \A i \in RowsOf(t) : i < x /\ inserted'[i] = inserted[i]
  BY <1>1 DEF RowsOf
<1>3. x \in Nat /\ RowsOf(s) \in SUBSET Nat /\ IsFiniteSet(RowsOf(s))
  BY <1>1 DEF ReadsRowsInOrder
<1>4. PICK q : Enumerates(q, RowsOf(s))
  BY DEF ReadsRowsInOrder
<1> DEFINE r == [i \in 1..c + 1 |-> IF i = c + 1 THEN x ELSE q[i]]
<1>5. c \in Nat /\ Cardinality(RowsOf(s) \cup {x}) = c + 1
      /\ Enumerates(r, RowsOf(s) \cup {x})
  <2> HIDE DEF x
  <2> QED BY <1>2, <1>3, <1>4, EnumerationWithLargest
<1>6. LoadTicks(s) = [i \in 1..c |-> inserted[q[i]].epoch]
  BY <1>4 DEF ReadsRowsInOrder
<1>7. LoadTicks(s)' = [i \in 1..c + 1 |-> inserted'[r[i]].epoch]
  <2> HIDE DEF c, r, x
  <2>1. Enumerates(r, RowsOf(s)') /\ Cardinality(RowsOf(s)') = c + 1
    BY <1>2, <1>5
  <2>2. LoadTicks(s)' = [i \in 1..Cardinality(RowsOf(s)') |-> inserted'[r[i]].epoch]
    BY <2>1 DEF ReadsRowsInOrder
  <2> QED BY <2>1, <2>2
<1>8. \A i \in 1..c : q[i] \in RowsOf(s)
  BY <1>4 DEF Enumerates
<1>9. \A i \in 1..c : LoadTicks(s)[i] \in 1..MaxTicks /\ LoadTicks(s)[i] <= k
  <2>1. \A i \in RowsOf(s) : inserted[i].epoch \in 1..MaxTicks /\ inserted[i].epoch <= k
    <3>1. \A i \in RowsOf(s) : /\ i \in DOMAIN inserted /\ inserted[i] \in Row
                              /\ inserted[i].symbol = s
      BY DEF TruthInv, TypeOK, RowsOf
    <3> QED BY <3>1 DEF Row, NotAfter
  <2> QED BY <1>6, <1>8, <2>1
<1>10. LoadTicks(s) \in [1..c -> 1..MaxTicks]
  BY <1>6, <1>9
<1>11. LoadTicks(s) \in Seq(1..MaxTicks) /\ Len(LoadTicks(s)) = c
  <2> HIDE DEF c
  <2>1. LoadTicks(s) \in Seq(1..MaxTicks)
    BY <1>5, <1>10, SeqDef
  <2> QED BY <1>5, <1>10, <2>1, LenProperties
<1>12. LoadTicks(s) # <<>> => LoadTicks(s)[Len(LoadTicks(s))] <= k
  <2>1. LoadTicks(s) # <<>> => Len(LoadTicks(s)) \in 1..c
    <3> HIDE DEF c
    <3> QED BY <1>5, <1>11, EmptySeq
  <2> QED BY <1>9, <2>1
<1>13. LoadTicks(s)' = Append(LoadTicks(s), k)
  <2>1. \A i \in 1..c + 1 :
          inserted'[r[i]].epoch = IF i = c + 1 THEN k ELSE LoadTicks(s)[i]
    <3> SUFFICES ASSUME NEW i \in 1..c + 1
                 PROVE  inserted'[r[i]].epoch = IF i = c + 1 THEN k ELSE LoadTicks(s)[i]
      OBVIOUS
    <3>1. CASE i = c + 1
      BY <1>1, <3>1
    <3>2. CASE i # c + 1
      <4>1. i \in 1..c /\ r[i] = q[i]
        BY <1>5, <3>2
      <4> QED BY <1>2, <1>6, <1>8, <3>2, <4>1
    <3> QED BY <3>1, <3>2
  <2> HIDE DEF c, r, x
  <2>2. LoadTicks(s)' = [i \in 1..c + 1 |-> IF i = c + 1 THEN k ELSE LoadTicks(s)[i]]
    BY <1>7, <2>1
  <2>3. /\ Append(LoadTicks(s), k) \in Seq(1..MaxTicks)
        /\ Len(Append(LoadTicks(s), k)) = c + 1
        /\ \A i \in 1..c : Append(LoadTicks(s), k)[i] = LoadTicks(s)[i]
        /\ Append(LoadTicks(s), k)[c + 1] = k
    BY <1>11, AppendProperties
  <2>4. Append(LoadTicks(s), k) \in [1..c + 1 -> 1..MaxTicks]
    BY <2>3, LenProperties
  <2>5. \A i \in 1..c + 1 :
          Append(LoadTicks(s), k)[i] = IF i = c + 1 THEN k ELSE LoadTicks(s)[i]
    BY <1>5, <2>3
  <2> QED BY <2>2, <2>4, <2>5
<1>14. \A t \in Symbols : t # s => LoadTicks(t)' = LoadTicks(t)
  BY <1>2, SameRows
<1> DEFINE old == [t \in Symbols |-> LoadTicks(t)]
           new == [t \in Symbols |-> LoadTicks(t)']
<1>15. new = [old EXCEPT ![s] = Append(@, k)]
  BY <1>13, <1>14
<1>16. old[s] # <<>> => old[s][Len(old[s])] <= k
  BY <1>12
<1>17. {j \in DOMAIN market : TooOld(j)}' = {j \in DOMAIN market : TooOld(j)}
  BY DEF TooOld
<1> QED BY <1>15, <1>16, <1>17 DEF Tape!Record

\* Maintenance takes ticks that are too old from the beginning of every tape.
LEMMA PruneShortens ==
  ASSUME TruthInv, TicksInOrder, ReadsRowsInOrder, ReadsRowsInOrder',
         Prune, dbUp, UNCHANGED <<inserted, market, age>>
  PROVE  Tape!Prune
<1>1. ASSUME NEW s \in Symbols
      PROVE  \E n \in 0..Len(LoadTicks(s)) :
               /\ \A i \in 1..n : LoadTicks(s)[i] \in {j \in DOMAIN market : TooOld(j)}
               /\ LoadTicks(s)' = SubSeq(LoadTicks(s), n + 1, Len(LoadTicks(s)))
  <2> DEFINE S == RowsOf(s)
             R == RowsOf(s)'
             c == Cardinality(S)
  <2>1. R = {i \in S : ~TooOld(inserted[i].epoch)}
    BY DEF RowsOf, Prune
  <2>2. S \in SUBSET Nat /\ IsFiniteSet(S)
    BY DEF ReadsRowsInOrder
  <2>3. PICK q : Enumerates(q, S)
    BY DEF ReadsRowsInOrder
  <2>4. LoadTicks(s) = [i \in 1..c |-> inserted[q[i]].epoch]
    BY <2>3 DEF ReadsRowsInOrder
  <2>5. \A i \in S : /\ i \in DOMAIN inserted /\ inserted[i].symbol = s
                     /\ inserted[i].epoch \in 1..MaxTicks
                     /\ inserted[i].epoch \in DOMAIN market
    <3>1. \A i \in S : i \in DOMAIN inserted /\ inserted[i] \in Row /\ inserted[i].symbol = s
      BY DEF RowsOf, TruthInv, TypeOK
    <3> QED BY <3>1 DEF TruthInv, RowsAreTrue, Row
  <2>6. \A x \in R, y \in S : x < y => y \in R
    <3> SUFFICES ASSUME NEW x \in R, NEW y \in S, x < y PROVE y \in R
      OBVIOUS
    <3>1. inserted[x].epoch <= inserted[y].epoch
      BY <2>1, <2>5 DEF TicksInOrder, NotAfter
    <3> DEFINE j == inserted[x].epoch
               k == inserted[y].epoch
    <3>2. j \in DOMAIN market /\ k \in DOMAIN market /\ j \in Int /\ k \in Int
      BY <2>1, <2>5
    <3>3. age[j] \in Int /\ age[k] \in Int
      BY <3>2, TimeAssumption DEF TruthInv, TypeOK
    <3>4. age[j] >= age[k]
      <4> HIDE DEF j, k
      <4>1. CASE j = k
        BY <3>3, <4>1
      <4>2. CASE j < k
        BY <3>2, <4>2 DEF TicksInOrder
      <4> QED BY <3>1, <3>2, <4>1, <4>2 DEF j, k
    <3>5. ~(age[j] > Retention)
      BY <2>1 DEF TooOld
    <3>6. ~(age[k] > Retention)
      <4> HIDE DEF j, k
      <4> QED BY <3>3, <3>4, <3>5, TimeAssumption
    <3> QED BY <2>1, <3>6 DEF TooOld
  <2>7. R \in SUBSET S
    BY <2>1
  <2> HIDE DEF S, R
  <2> HIDE DEF c
  <2>8. PICK n \in 0..c :
          /\ Cardinality(R) = c - n
          /\ \A i \in 1..n : q[i] \in S \ R
          /\ Enumerates(From(q, n, Cardinality(R)), R)
    <3>1. \E n \in 0..Cardinality(S) :
            /\ Cardinality(R) = Cardinality(S) - n
            /\ \A i \in 1..n : q[i] \in S \ R
            /\ Enumerates(From(q, n, Cardinality(R)), R)
      BY <2>2, <2>3, <2>6, <2>7, EnumerationOfLarger
    <3> QED BY <3>1 DEF c
  <2>9. c \in Nat
    BY <2>2, FS_CardinalityType DEF c
  <2>10. \A i \in 1..c : q[i] \in S
    BY <2>3 DEF Enumerates, c
  <2>11. LoadTicks(s)' = [i \in 1..c - n |-> inserted[q[n + i]].epoch]
    <3> DEFINE f == From(q, n, c - n)
    <3>1. Enumerates(f, R)
      BY <2>8
    <3> HIDE DEF f
    <3>2. LoadTicks(s)' = [i \in 1..c - n |-> inserted[f[i]].epoch]
      BY <2>8, <3>1 DEF ReadsRowsInOrder, R
    <3> QED BY <3>2 DEF f, From
  <2>12. LoadTicks(s) \in [1..c -> 1..MaxTicks]
    BY <2>4, <2>5, <2>10
  <2>13. LoadTicks(s) \in Seq(1..MaxTicks) /\ Len(LoadTicks(s)) = c
    <3>1. LoadTicks(s) \in Seq(1..MaxTicks)
      BY <2>9, <2>12, SeqDef
    <3> QED BY <2>9, <2>12, <3>1, LenProperties
  <2>14. \A i \in 1..n : LoadTicks(s)[i] \in {j \in DOMAIN market : TooOld(j)}
    <3> SUFFICES ASSUME NEW i \in 1..n
                 PROVE  LoadTicks(s)[i] \in {j \in DOMAIN market : TooOld(j)}
      OBVIOUS
    <3>1. i \in 1..c /\ q[i] \in S \ R
      BY <2>8, <2>9
    <3>2. TooOld(inserted[q[i]].epoch)
      BY <2>1, <3>1 DEF S, R
    <3> QED BY <2>4, <2>5, <3>1, <3>2
  <2>15. LoadTicks(s)' = SubSeq(LoadTicks(s), n + 1, c)
    <3> DEFINE d == SubSeq(LoadTicks(s), n + 1, c)
    <3>1. n \in Nat /\ n <= c /\ n + 1 \in Int /\ c \in Int
      BY <2>8, <2>9
    <3>2. \A i \in (n + 1)..c : LoadTicks(s)[i] \in 1..MaxTicks
      BY <2>12, <3>1
    <3>3. /\ d \in Seq(1..MaxTicks)
          /\ Len(d) = IF n + 1 <= c THEN c - (n + 1) + 1 ELSE 0
          /\ \A i \in 1..c - (n + 1) + 1 : d[i] = LoadTicks(s)[(n + 1) + i - 1]
      BY <3>1, <3>2, SubSeqProperties
    <3> HIDE DEF d
    <3>4. Len(d) = c - n /\ \A i \in 1..c - n : d[i] = LoadTicks(s)[n + i]
      BY <3>1, <3>3
    <3>5. d \in [1..c - n -> 1..MaxTicks]
      BY <3>3, <3>4, LenProperties
    <3>6. \A i \in 1..c - n : n + i \in 1..c
      BY <3>1
    <3>7. \A i \in 1..c - n : d[i] = inserted[q[n + i]].epoch
      BY <2>4, <3>4, <3>6
    <3> QED BY <2>11, <3>5, <3>7 DEF d
  <2> QED BY <2>8, <2>13, <2>14, <2>15
<1>2. {j \in DOMAIN market : TooOld(j)}' = {j \in DOMAIN market : TooOld(j)}
  BY DEF TooOld
<1> QED BY <1>1, <1>2 DEF Tape!Prune

\* A step of the recorder or of its surroundings is a step of the tape, or the
\* reader sees nothing of it.
LEMMA TapeStep ==
  ASSUME TruthInv, TruthInv', TicksInOrder, TicksInOrder', [Next]_vars
  PROVE  [Tape!Next]_(Tape!vars)
<1> DEFINE old == [s \in Symbols |-> LoadTicks(s)]
           expired == {k \in DOMAIN market : TooOld(k)}
<1>1. ReadsRowsInOrder /\ ReadsRowsInOrder'
  BY TapeOf, NextTapeOf
<1>2. UNCHANGED table => old' = old
  BY <1>1, SameTable
<1>3. UNCHANGED <<market, age>> => expired' = expired
  BY DEF TooOld
<1>4. CASE UNCHANGED <<table, market, age>>
  BY <1>2, <1>3, <1>4 DEF Tape!vars
<1>5. CASE Receive
  <2> DEFINE m == Parse(Head(inbox))
  <2>1. inbox # <<>> /\ UNCHANGED <<market, age>>
    BY <1>5 DEF Receive
  <2>2. CASE UNCHANGED table
    BY <1>4, <2>1, <2>2
  <2>3. CASE IsTick(Head(inbox)) /\ Insert(m)
    <3>1. 1 \in DOMAIN inbox /\ Head(inbox) = inbox[1] /\ inbox[1] \in Messages
      BY <2>1 DEF TruthInv, TypeOK
    <3>2. PICK s \in Symbols, k \in 1..MaxTicks : \E p \in Prices(k) :
            inbox[1] = TickMessage(s, k, p)
      BY <2>3, <3>1, OnlyTicksAreTicks DEF IsTick
    <3>3. m = [kind |-> "Tick", symbol |-> s, price |-> k, epoch |-> k]
      BY <3>1, <3>2, ParseTickMessage
    <3>4. \A i \in DOMAIN inserted : NotAfter(inserted[i], m)
      BY <2>3, <3>1 DEF TicksInOrder
    <3> HIDE DEF m
    <3>5. Tape!Record
      BY <1>1, <2>1, <2>3, <3>3, <3>4, InsertRecords
    <3> QED BY <3>5 DEF Tape!Next
  <2> QED BY <1>5, <2>2, <2>3
          DEF Receive, ReceiveAuthorize, ReceiveTick, ReceiveMetadata, ReceiveOther, Fail,
              IsTick
<1>6. CASE Maintain
  <2>1. Prune /\ UNCHANGED <<inserted, market, age>>
    BY <1>6 DEF Maintain
  <2>2. CASE dbUp
    <3>1. Tape!Prune
      BY <1>1, <2>1, <2>2, PruneShortens
    <3> QED BY <3>1 DEF Tape!Next
  <2>3. CASE ~dbUp
    BY <1>4, <2>1, <2>3 DEF Prune, table
  <2> QED BY <2>2, <2>3
<1>7. CASE MarketTick
  <2>1. UNCHANGED table
    BY <1>7 DEF MarketTick
  <2>2. expired \subseteq expired'
    <3>1. PICK s \in Symbols : market' = Append(market, s) /\ age' = Append(age, 0)
      BY <1>7 DEF MarketTick
    <3>2. market \in Seq(Symbols) /\ age \in [DOMAIN market -> 0..(Retention + 1)]
      BY DEF TruthInv, TypeOK
    <3>3. DOMAIN market = 1..Len(market) /\ Len(market) \in Nat
      BY <3>2
    <3>4. age \in Seq(0..(Retention + 1)) /\ Len(age) = Len(market)
      <4>1. age \in [1..Len(market) -> 0..(Retention + 1)]
        BY <3>2, <3>3
      <4>2. age \in Seq(0..(Retention + 1))
        BY <3>3, <4>1, SeqDef
      <4> QED BY <3>3, <4>1, <4>2, LenProperties
    <3>5. \A k \in 1..Len(market) : age'[k] = age[k]
      BY <3>1, <3>4, AppendProperties
    <3>6. \A k \in DOMAIN market : k \in DOMAIN market'
      BY <3>1, <3>2
    <3> QED BY <3>3, <3>5, <3>6 DEF TooOld
  <2> QED BY <1>2, <2>1, <2>2 DEF Tape!Next, Tape!Age
<1>8. CASE Advance
  <2>1. UNCHANGED <<table, market>>
    BY <1>8 DEF Advance
  <2>2. expired \subseteq expired'
    <3>1. \A k \in DOMAIN market : TooOld(k) => TooOld(k)'
      BY <1>8 DEF Advance, TooOld, TruthInv, TypeOK
    <3> QED BY <2>1, <3>1
  <2> QED BY <1>2, <2>1, <2>2 DEF Tape!Next, Tape!Age
<1>9. CASE Start \/ Crash \/ Connect \/ LoseConnection \/ Answer \/ Stream \/ Disconnect
           \/ DatabaseChanges \/ UNCHANGED vars
  BY <1>4, <1>9
  DEF Start, Crash, Connect, LoseConnection, Answer, Stream, Disconnect, DatabaseChanges,
      vars, table
<1> QED BY <1>5, <1>6, <1>7, <1>8, <1>9 DEF Next

\* Rows and waiting ticks come in the order of the market, at all times.
THEOREM OrderInductive == Spec => []IInv
<1>1. Init => TicksInOrder
  <2>1. DOMAIN <<>> = {}
    OBVIOUS
  <2> QED BY <2>1 DEF Init, TicksInOrder
<1>2. TruthInv /\ TicksInOrder /\ [Next]_vars => TicksInOrder'
  BY OrderStep
<1>3. TruthInv /\ TicksInOrder => IInv
  BY DEF IInv
<1> QED BY <1>1, <1>2, <1>3, RecorderInductive, PTL DEF Spec

\* Reconnecting, pruning, failing and being killed, the recorder leaves a tape
\* behind: it implements TickTape.
THEOREM RecordsATape == Spec => KeepsTape
<1>1. Init => Tape!Init
  <2> SUFFICES ASSUME Init PROVE Tape!Init
    OBVIOUS
  <2>1. TruthInv /\ TicksInOrder
    <3>1. DOMAIN <<>> = {}
      OBVIOUS
    <3> QED BY <3>1, InitialTruthInv DEF Init, TicksInOrder
  <2>2. ReadsRowsInOrder
    BY <2>1, TapeOf
  <2>3. \A s \in Symbols : LoadTicks(s) = <<>>
    <3> SUFFICES ASSUME NEW s \in Symbols PROVE LoadTicks(s) = <<>>
      OBVIOUS
    <3>1. RowsOf(s) = {}
      BY DEF Init, RowsOf
    <3>2. Cardinality(RowsOf(s)) = 0
      BY <3>1, FS_EmptySet
    <3>3. PICK q : Enumerates(q, RowsOf(s))
      BY <2>2 DEF ReadsRowsInOrder
    <3>4. LoadTicks(s) = [i \in 1..0 |-> inserted[q[i]].epoch]
      BY <2>2, <3>2, <3>3 DEF ReadsRowsInOrder
    <3> QED BY <3>4
  <2>4. {k \in DOMAIN market : TooOld(k)} = {}
    BY DEF Init
  <2> QED BY <2>3, <2>4 DEF Tape!Init
<1>2. IInv /\ IInv' /\ [Next]_vars => [Tape!Next]_(Tape!vars)
  BY TapeStep DEF IInv
<1> QED BY <1>1, <1>2, OrderInductive, PTL DEF Spec, KeepsTape, Tape!Spec
===============================================================================
