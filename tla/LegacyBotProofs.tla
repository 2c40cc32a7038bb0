---------------------------- MODULE LegacyBotProofs ----------------------------
(***************************************************************************)
(* The older bot buys no answer that carries the id of its request, gives  *)
(* one signal per tick at most, judges a window by its own opening price,  *)
(* and asks for a rise only: for every duration, every capacity and every  *)
(* set of prices.                                                          *)
(***************************************************************************)
EXTENDS LegacyBot, SequenceTheorems, FiniteSetTheorems, WellFoundedInduction,
        TLAPS

\* A set of natural numbers has a least one.
LEMMA Least ==
  ASSUME NEW T, T \subseteq Nat, T # {}
  PROVE  \E x \in T : \A y \in T : x <= y
<1>1. IsWellFoundedOn(OpToRel(<, Nat), Nat)
  BY NatLessThanWellFounded
<1>2. PICK x \in T : \A y \in T : ~ (<<y, x>> \in OpToRel(<, Nat))
  <2> DEFINE R == OpToRel(<, Nat)
  <2> HIDE DEF R
  <2>1. \E x \in T : \A y \in T : ~ (<<y, x>> \in R)
    BY <1>1, WFMin DEF R
  <2> QED BY <2>1 DEF R
<1>3. \A y \in T : ~ (y < x)
  BY <1>2 DEF OpToRel
<1> QED BY <1>3

\* The opening price is that of a tick the estimator keeps.
LEMMA OpeningIsASample ==
  ASSUME TypeOK, start # None, samples # <<>>
  PROVE  Opening \in DOMAIN samples
<1>1. DOMAIN samples = 1..Len(samples) /\ Len(samples) \in Nat \ {0}
  BY EmptySeq DEF TypeOK
<1>2. \A i \in DOMAIN samples : samples[i].ts \in Nat
  <2>1. \A i \in DOMAIN samples : samples[i] \in Tick
    BY <1>1, ElementOfSeq DEF TypeOK
  <2> QED BY <2>1, BoundAssumption DEF Tick
<1>3. start \in Nat
  BY DEF TypeOK
<1>4. \A i \in DOMAIN samples : Away(i) \in Nat
  BY <1>2, <1>3 DEF Away
<1> DEFINE Distances == {Away(i) : i \in DOMAIN samples}
<1>5. PICK d \in Distances : \A e \in Distances : d <= e
  <2>1. Distances \subseteq Nat /\ Away(1) \in Distances
    BY <1>1, <1>4
  <2> HIDE DEF Distances
  <2> QED BY <2>1, Least
<1> DEFINE Closest == {i \in DOMAIN samples : Away(i) = d}
<1>6. PICK i \in Closest : \A j \in Closest : i <= j
  <2>1. Closest \subseteq Nat /\ Closest # {}
    BY <1>1, <1>5
  <2> HIDE DEF Closest
  <2> QED BY <2>1, Least
<1>7. \A j \in DOMAIN samples :
        Away(i) < Away(j) \/ (Away(i) = Away(j) /\ i <= j)
  <2> SUFFICES ASSUME NEW j \in DOMAIN samples
               PROVE  Away(i) < Away(j) \/ (Away(i) = Away(j) /\ i <= j)
    OBVIOUS
  <2>1. Away(i) = d /\ Away(j) \in Distances /\ Away(j) \in Nat /\ d \in Nat
    BY <1>4, <1>6
  <2>2. d <= Away(j)
    BY <1>5, <2>1
  <2>3. CASE Away(j) = d
    BY <1>6, <2>1, <2>3
  <2>4. CASE Away(j) # d
    <3> HIDE DEF Away, Distances
    <3> QED BY <2>1, <2>2, <2>4
  <2> QED BY <2>3, <2>4
<1> QED BY <1>6, <1>7 DEF Opening

\* A channel that drops what finds no place stays a channel.
LEMMA Offered ==
  ASSUME NEW S, NEW q \in Seq(S), Len(q) <= Channel, NEW m \in S
  PROVE  /\ Offer(q, m) \in Seq(S) /\ Len(Offer(q, m)) <= Channel
         /\ \A i \in DOMAIN Offer(q, m) :
              Offer(q, m)[i] = m \/ (i \in DOMAIN q /\ Offer(q, m)[i] = q[i])
  BY AppendProperties, SizeAssumption DEF Offer

\* The rest of a channel has messages of the channel.
LEMMA Taken ==
  ASSUME NEW S, NEW q \in Seq(S), q # <<>>
  PROVE  /\ Tail(q) \in Seq(S) /\ Len(Tail(q)) = Len(q) - 1
         /\ \A i \in DOMAIN Tail(q) : i + 1 \in DOMAIN q /\ Tail(q)[i] = q[i + 1]
         /\ Head(q) \in S /\ 1 \in DOMAIN q /\ Head(q) = q[1]
  BY HeadTailProperties, EmptySeq

\* A buffer that forgets its oldest element keeps its size.
LEMMA Pushed ==
  ASSUME NEW S, NEW q \in Seq(S), NEW size \in Nat \ {0}, Len(q) <= size,
         NEW e \in S, NEW r,
         r = LET all == Append(q, e) IN IF Len(all) > size THEN Tail(all) ELSE all
  PROVE  r \in Seq(S) /\ Len(r) <= size /\ r # <<>>
<1>1. Append(q, e) \in Seq(S) /\ Len(Append(q, e)) = Len(q) + 1
  BY AppendProperties
<1>2. CASE Len(Append(q, e)) > size
  <2>1. r = Tail(Append(q, e)) /\ Append(q, e) # <<>>
    BY <1>1, <1>2, EmptySeq
  <2>2. r \in Seq(S) /\ Len(r) = Len(q)
    BY <1>1, <2>1, HeadTailProperties
  <2> QED BY <1>1, <1>2, <2>2, EmptySeq
<1>3. CASE ~(Len(Append(q, e)) > size)
  <2>1. r = Append(q, e)
    BY <1>3
  <2>2. r \in Seq(S) /\ Len(r) = Len(q) + 1
    BY <1>1, <2>1
  <2> QED BY <1>1, <1>3, <2>2, EmptySeq
<1> QED BY <1>2, <1>3

LEMMA InitialIInv == Init => IInv
<1> SUFFICES ASSUME Init PROVE IInv
  OBVIOUS
<1>1. TypeOK
  <2>1. /\ tick_rx \in Seq(Tick) /\ Len(tick_rx) = 0
        /\ event_rx \in Seq(Event) /\ Len(event_rx) = 0
        /\ samples \in Seq(Tick) /\ Len(samples) = 0
        /\ mids \in Seq(Int) /\ Len(mids) = 0
    BY EmptySeq DEF Init
  <2>2. /\ tick_rx \in Seq(Tick) /\ Len(tick_rx) <= Channel
        /\ event_rx \in Seq(Event) /\ Len(event_rx) <= Channel
        /\ samples \in Seq(Tick) /\ Len(samples) <= Buffer
        /\ mids \in Seq(Int) /\ Len(mids) <= History
    BY <2>1, SizeAssumption, HistoryAssumption
  <2>3. /\ clock \in 0..MaxTime /\ now \in 0..clock /\ ticks \in 0..MaxTicks
        /\ next_req \in Nat \ {0} /\ asked \subseteq Nat \ {0}
        /\ pending \subseteq Nat
    BY BoundAssumption DEF Init
  <2> QED BY <2>2, <2>3 DEF Init, TypeOK
<1> QED BY <1>1 DEF Init, IInv, PendingHasKeyZero, SilentAfterSignal,
                    OpeningIsOwn, DryRunAsksNothing, OnePrice, None


\* Steps that change neither the estimator nor the signals.
LEMMA ProcessPreserves ==
  ASSUME IInv,
         Connect \/ AuthorizationTimeout \/ Wake \/ EventsDone \/ SkipRound
           \/ SendProposal \/ Disconnect \/ Advance
  PROVE  IInv'
<1> USE DEF IInv, TypeOK, PendingHasKeyZero, SilentAfterSignal,
            OpeningIsOwn, DryRunAsksNothing, OnePrice, wire, estimator, contracts,
            signals, settings
<1>1. CASE Connect
  <2>1. CASE /\ pc' = "authorizing" /\ up' = TRUE
             /\ asked' = {next_req} /\ next_req' = next_req + 1
    BY <1>1, <2>1 DEF Connect
  <2>2. CASE pc' = "stopped" /\ UNCHANGED <<up, asked, next_req>>
    BY <1>1, <2>2 DEF Connect
  <2> QED BY <1>1, <2>1, <2>2 DEF Connect
<1>2. CASE AuthorizationTimeout
  BY <1>2 DEF AuthorizationTimeout
<1>3. CASE Wake
  BY <1>3 DEF Wake
<1>4. CASE EventsDone
  BY <1>4 DEF EventsDone
<1>5. CASE SkipRound
  BY <1>5 DEF SkipRound, Sleep
<1>6. CASE SendProposal
  BY <1>6 DEF SendProposal
<1>7. CASE Disconnect
  BY <1>7 DEF Disconnect
<1>8. CASE Advance
  BY <1>8, BoundAssumption DEF Advance
<1> QED BY <1>1, <1>2, <1>3, <1>4, <1>5, <1>6, <1>7, <1>8

LEMMA AuthorizePreserves == IInv /\ Authorize => IInv'
<1> SUFFICES ASSUME IInv, Authorize PROVE IInv'
  OBVIOUS
<1> USE DEF IInv
<1>1. event_rx' \in Seq(Event) /\ Len(event_rx') <= Channel
  BY Taken, SizeAssumption DEF Authorize, TypeOK
<1>2. next_req' \in Nat \ {0} /\ pc' \in {"authorizing", "asleep", "stopped"}
  <2>1. next_req \in Nat \ {0}
    BY DEF TypeOK
  <2> HIDE DEF IInv
  <2> QED BY <2>1 DEF Authorize
<1>3. TypeOK'
  BY <1>1, <1>2 DEF Authorize, TypeOK, estimator, signals, settings
<1> QED BY <1>3 DEF Authorize, PendingHasKeyZero, SilentAfterSignal, OpeningIsOwn,
                          DryRunAsksNothing, OnePrice, estimator, signals, settings

LEMMA HandleEventPreserves == IInv /\ HandleEvent => IInv'
<1> SUFFICES ASSUME IInv, HandleEvent PROVE IInv'
  OBVIOUS
<1> USE DEF IInv
<1>1. event_rx' \in Seq(Event) /\ Len(event_rx') <= Channel
  BY Taken, SizeAssumption DEF HandleEvent, TypeOK
<1>2. /\ pending' \subseteq pending
      /\ next_req' \in {next_req, next_req + 1} /\ bought' \in {bought, bought + 1}
  <2> DEFINE e == Head(event_rx)
             known == e.kind = "Proposal" /\ e.req_id \in pending
             buys == known /\ ~dry_run
  <2>1. /\ pending' = IF known THEN pending \ {e.req_id} ELSE pending
        /\ next_req' = IF buys THEN next_req + 1 ELSE next_req
        /\ bought' = IF buys /\ up THEN bought + 1 ELSE bought
    BY DEF HandleEvent
  <2> HIDE DEF e, known, buys, IInv
  <2> QED BY <2>1, Zenon
<1>3. pending' \subseteq {0} /\ (pending = {} => pending' = {})
  BY <1>2 DEF PendingHasKeyZero
<1>4. TypeOK'
  <2>1. /\ next_req' \in Nat \ {0} /\ bought' \in Nat /\ pending' \subseteq Nat
        /\ UNCHANGED <<pc, clock, now, up, tick_rx, asked, ticks, estimator, start,
                       spawned, signals>>
    <3>1. /\ next_req \in Nat \ {0} /\ bought \in Nat
          /\ UNCHANGED <<pc, clock, now, up, tick_rx, asked, ticks, estimator,
                         start, spawned, signals>>
      BY DEF TypeOK, HandleEvent
    <3> HIDE DEF IInv
    <3> QED BY <1>2, <1>3, <3>1
  <2> QED BY <1>1, <2>1 DEF TypeOK, estimator, signals, settings
<1> QED BY <1>3, <1>4 DEF HandleEvent, PendingHasKeyZero, SilentAfterSignal,
          OpeningIsOwn, DryRunAsksNothing, OnePrice, estimator, signals, settings

LEMMA TakeTickPreserves == IInv /\ TakeTick => IInv'
<1> SUFFICES ASSUME IInv, TakeTick PROVE IInv'
  OBVIOUS
<1> USE DEF IInv
<1>1. /\ tick_rx' \in Seq(Tick) /\ Len(tick_rx') <= Channel
      /\ Head(tick_rx) \in Tick
  BY Taken, SizeAssumption DEF TakeTick, TypeOK
<1>2. samples' \in Seq(Tick) /\ Len(samples') <= Buffer /\ samples' # <<>>
  BY <1>1, Pushed, SizeAssumption DEF TakeTick, TypeOK
<1>3. /\ start' \in 0..MaxTime \cup {None} /\ s0' \in Prices \cup {None}
      /\ opened' \in 0..MaxTime \cup {None}
  BY BoundAssumption DEF TakeTick, TypeOK
<1>4. TypeOK'
  BY <1>1, <1>2, <1>3 DEF TakeTick, TypeOK, contracts, settings
<1>5. OpeningIsOwn'
  BY DEF TakeTick, OpeningIsOwn
<1> QED BY <1>2, <1>4, <1>5 DEF TakeTick, PendingHasKeyZero,
          SilentAfterSignal, DryRunAsksNothing, OnePrice, contracts, settings

LEMMA CaptureOpeningPreserves == IInv /\ CaptureOpening => IInv'
<1> SUFFICES ASSUME IInv, CaptureOpening PROVE IInv'
  OBVIOUS
<1> USE DEF IInv
<1>1. Opening \in DOMAIN samples
  BY OpeningIsASample DEF CaptureOpening
<1>2. samples[Opening] \in Tick
  BY <1>1, ElementOfSeq DEF TypeOK
<1>3. s0' \in Prices
  BY <1>2 DEF CaptureOpening, Tick
<1>4. TypeOK'
  BY <1>3 DEF CaptureOpening, TypeOK, Sleep, wire, contracts, signals, settings
<1> QED BY <1>4 DEF CaptureOpening, PendingHasKeyZero,
          SilentAfterSignal, OpeningIsOwn, DryRunAsksNothing, OnePrice, wire, contracts,
          signals, settings

\* A strategy keeps at most History prices, all those of the one book.
LEMMA SeenIsAHistory ==
  ASSUME TypeOK, OnePrice
  PROVE  LET seen == Seen(strategy, mids, Book(500, 10)) IN
         /\ seen \in Seq(Int) /\ Len(seen) <= History
         /\ seen \in Seq({Book(500, 10).up_bid})
         /\ KeepsPrices(strategy) => seen # <<>>
<1> DEFINE e == Book(500, 10).up_bid
           all == Append(mids, e)
           r == IF Len(all) > History THEN Tail(all) ELSE all
<1>1. e \in Int
  BY DEF Book, ClampPrice
<1>2. r \in Seq({e}) /\ Len(r) <= History /\ r # <<>> /\ mids \in Seq({e})
  <2>1. mids \in Seq({e})
    BY DEF OnePrice
  <2> HIDE DEF e
  <2> QED BY <2>1, Pushed, HistoryAssumption DEF TypeOK
<1>3. r \in Seq(Int)
  <2> HIDE DEF e
  <2> QED BY <1>1, Pushed, HistoryAssumption DEF TypeOK
<1> HIDE DEF e
<1>4. Seen(strategy, mids, Book(500, 10)) = IF KeepsPrices(strategy) THEN r ELSE mids
  BY DEF Seen, e
<1> HIDE DEF r
<1> QED BY <1>2, <1>3, <1>4 DEF TypeOK, e

LEMMA EvaluatePreserves == IInv /\ Evaluate => IInv'
<1> SUFFICES ASSUME IInv, Evaluate PROVE IInv'
  OBVIOUS
<1> USE DEF IInv
<1>1. mids' \in Seq(Int) /\ Len(mids') <= History /\ OnePrice'
  BY SeenIsAHistory DEF Evaluate, OnePrice
<1>2. start # None /\ unfed = 0
  BY DEF Evaluate, SilentAfterSignal
<1>3. \/ \E wanted : Signal(wanted)
      \/ UNCHANGED <<last, signal, unfed, spawned, pending, start>>
  BY DEF Evaluate
<1>4. CASE \E wanted : Signal(wanted)
  <2>1. PICK wanted : Signal(wanted)
    BY <1>4
  <2>2. /\ last' = now /\ unfed' = 1 /\ start' = None
        /\ spawned' \in Nat /\ pending' \subseteq {0}
        /\ dry_run => spawned' = spawned /\ pending' = pending
    <3>1. spawned \in Nat /\ pending \subseteq {0}
      BY DEF TypeOK, PendingHasKeyZero
    <3> HIDE DEF IInv
    <3>2. last' = now /\ unfed' = unfed + 1 /\ start' = None /\ RequestProposal
      BY <2>1 DEF Signal
    <3>3. dry_run => spawned' = spawned /\ pending' = pending
      BY <3>2, Zenon DEF RequestProposal
    <3>4. spawned' \in Nat /\ pending' \subseteq {0}
      <4>1. \/ spawned' = spawned /\ pending' = pending
            \/ spawned' = spawned + 1 /\ pending' = pending \cup {0}
        BY <3>2, Zenon DEF RequestProposal
      <4>2. pending \cup {0} \subseteq {0}
        BY <3>1, Zenon
      <4>3. spawned + 1 \in Nat
        BY <3>1, SMT
      <4> QED BY <3>1, <4>1, <4>2, <4>3, Zenon
    <3>5. unfed' = 1
      BY <1>2, <3>2
    <3> QED BY <3>2, <3>3, <3>4, <3>5, Zenon
  <2>3. TypeOK'
    BY <1>1, <2>2, BoundAssumption
    DEF Evaluate, TypeOK, Sleep, wire, estimator, settings
  <2> QED BY <1>1, <2>2, <2>3 DEF Evaluate, PendingHasKeyZero,
            SilentAfterSignal, OpeningIsOwn, DryRunAsksNothing, wire, estimator,
            settings
<1>5. CASE UNCHANGED <<last, signal, unfed, spawned, pending, start>>
  <2>1. TypeOK'
    BY <1>1, <1>5 DEF Evaluate, TypeOK, Sleep, wire, estimator, settings
  <2> QED BY <1>1, <1>5, <2>1 DEF Evaluate, PendingHasKeyZero,
            SilentAfterSignal, OpeningIsOwn, DryRunAsksNothing, wire, estimator,
            settings
<1> QED BY <1>3, <1>4, <1>5

LEMMA AnswerPreserves == IInv /\ Answer => IInv'
<1> SUFFICES ASSUME IInv, Answer PROVE IInv'
  OBVIOUS
<1> USE DEF IInv
<1>1. \A id \in asked : \A m \in Answers(id) : m \in Event
  <2> SUFFICES ASSUME NEW id \in asked, NEW m \in Answers(id) PROVE m \in Event
    OBVIOUS
  <2>1. id \in Nat
    BY DEF TypeOK
  <2>2. m \in {Error, Other, Authorized, Proposal(id), Proposal(0)}
    BY DEF Answers
  <2> QED BY <2>1, <2>2 DEF Event, Authorized, Error, Other, Proposal
<1>2. PICK m \in Event : event_rx' = Offer(event_rx, m) /\ asked' \subseteq asked
  <2>1. Other \in Event
    BY DEF Event, Other
  <2> QED BY <1>1, <2>1 DEF Answer
<1>3. event_rx' \in Seq(Event) /\ Len(event_rx') <= Channel
  BY <1>2, Offered DEF TypeOK
<1>4. TypeOK'
  BY <1>2, <1>3 DEF Answer, TypeOK, estimator, contracts, signals, settings
<1> QED BY <1>4 DEF Answer, PendingHasKeyZero, SilentAfterSignal, OpeningIsOwn,
          DryRunAsksNothing, OnePrice, estimator, contracts, signals, settings

LEMMA MarketTickPreserves == IInv /\ MarketTick => IInv'
<1> SUFFICES ASSUME IInv, MarketTick PROVE IInv'
  OBVIOUS
<1> USE DEF IInv
<1>1. tick_rx' \in Seq(Tick) /\ Len(tick_rx') <= Channel
  <2>1. PICK price \in Prices :
          tick_rx' = Offer(tick_rx, [price |-> price, ts |-> clock])
    BY DEF MarketTick
  <2>2. [price |-> price, ts |-> clock] \in Tick
    BY DEF Tick, TypeOK
  <2> QED BY <2>1, <2>2, Offered DEF TypeOK
<1>2. Other \in Event
  BY DEF Other, Event
<1>3. event_rx' \in Seq(Event) /\ Len(event_rx') <= Channel
  BY <1>2, Offered DEF MarketTick, TypeOK
<1>4. TypeOK'
  BY <1>1, <1>3, BoundAssumption
  DEF MarketTick, TypeOK, estimator, contracts, signals, settings
<1> QED BY <1>4 DEF MarketTick, contracts, PendingHasKeyZero, SilentAfterSignal,
          OpeningIsOwn, DryRunAsksNothing, OnePrice, estimator, contracts, signals, settings
-------------------------------------------------------------------------------
\* The inductive invariant holds always: the windows, the channels and what is
\* pending stay as the properties below need them.
THEOREM LegacyInductive == Spec => []IInv
<1>1. IInv /\ [Next]_vars => IInv'
  <2> SUFFICES ASSUME IInv, [Next]_vars PROVE IInv'
    OBVIOUS
  <2>1. CASE UNCHANGED vars
    BY <2>1 DEF vars, wire, estimator, contracts, signals, settings, IInv, TypeOK,
                PendingHasKeyZero, SilentAfterSignal, OpeningIsOwn,
                DryRunAsksNothing, OnePrice
  <2>2. CASE Next
    BY <2>2, ProcessPreserves, AuthorizePreserves, HandleEventPreserves,
       TakeTickPreserves, CaptureOpeningPreserves, EvaluatePreserves,
       AnswerPreserves, MarketTickPreserves
    DEF Next
  <2> QED BY <2>1, <2>2
<1> QED BY InitialIInv, <1>1, PTL DEF Spec

\* The older bot never buys an answer that carries the id of its request: a
\* purchase needs an answer read as the key of what is pending, zero.
THEOREM OnlyUnnumberedAnswersAreBought == Spec => NumberedAnswersBuyNothing
<1> DEFINE Answered0 == /\ pc = "events" /\ IsProposal(Head(event_rx))
                        /\ Head(event_rx).req_id = 0
<1>1. IInv /\ [Next]_vars => [bought' # bought => Answered0]_vars
  <2> SUFFICES ASSUME PendingHasKeyZero, Next, bought' # bought PROVE Answered0
    BY DEF IInv
  <2>1. HandleEvent
    BY DEF Next, Connect, Authorize, AuthorizationTimeout, Wake, EventsDone,
       TakeTick, SkipRound, CaptureOpening, Evaluate, SendProposal, Answer,
       MarketTick, Disconnect, Advance, contracts
  <2>2. IsProposal(Head(event_rx)) /\ Head(event_rx).req_id \in pending
    BY <2>1, Zenon DEF HandleEvent, IsProposal
  <2> QED BY <2>1, <2>2 DEF HandleEvent, PendingHasKeyZero
<1> QED BY <1>1, LegacyInductive, PTL DEF Spec, NumberedAnswersBuyNothing

\* Between two ticks it gives one signal at most.
THEOREM SilenceEndsSignals == Spec => []OneSignalPerTick
<1>1. IInv => OneSignalPerTick
  BY DEF IInv, SilentAfterSignal, OneSignalPerTick
<1> QED BY <1>1, LegacyInductive, PTL

\* The opening price of a window is never that of the window before.
THEOREM WindowsHaveTheirOpening == Spec => []OpeningIsOwn
<1>1. IInv => OpeningIsOwn
  BY DEF IInv
<1> QED BY <1>1, LegacyInductive, PTL

\* What every strategy but MtfPlaybook wants is a rise or nothing: the stake is
\* zero when the lower belief is not above evens, and LateCycle's fall needs it
\* below.
LEMMA RiseOrNothing ==
  ASSUME NEW s \in Strategies \ {"MtfPlaybook"}, NEW h, NEW q, NEW book, NEW left
  PROVE  Desired(s, h, q, Size(QLow(q), 500), book, left).down = 0
<1> DEFINE size == Size(QLow(q), 500)
           fall == LateCycleDesired(QLow(q), size, book, left)
<1>1. QLow(q) \in Int
  BY DEF QLow
<1>2. QLow(q) <= 500 => size = 0
  BY DEF Size
<1>3. fall.down = 0
  <2>1. CASE left >= LateFrom \/ left <= LateUntil
    BY <2>1 DEF LateCycleDesired, Nothing
  <2>2. CASE ~(left >= LateFrom \/ left <= LateUntil)
    <3>1. fall.down = IF QLow(q) < 500 - LateEdge /\ RoiFits(book.down_bid)
                      THEN size ELSE 0
      BY <2>2 DEF LateCycleDesired
    <3>2. QLow(q) < 500 - LateEdge => QLow(q) <= 500
      BY <1>1, EdgeAssumption
    <3> QED BY <1>2, <3>1, <3>2
  <2> QED BY <2>1, <2>2
<1>4. \A condition : UpIf(condition, size).down = 0
  BY DEF UpIf
<1> HIDE DEF size, fall
<1>5. /\ TemporalDesired(QLow(q), size, book).down = 0
      /\ LmsrDesired(QLow(q), size).down = 0
      /\ RsiDesired(h, QLow(q), size).down = 0
      /\ BandsDesired(h, QLow(q), size).down = 0
      /\ MacdDesired(h, QLow(q), size).down = 0
      /\ EnsembleDesired(h, QLow(q), size).down = 0
  BY <1>4 DEF TemporalDesired, LmsrDesired, RsiDesired, BandsDesired,
              MacdDesired, EnsembleDesired
<1>6. LateCycleDesired(QLow(q), size, book, left).down = 0
  BY <1>3 DEF fall
<1>7. Desired(s, h, q, size, book, left).down = 0
  BY <1>5, <1>6 DEF Desired, Strategies
<1> QED BY <1>7 DEF size

-------------------------------------------------------------------------------
(* MtfPlaybook, whose stake is its own: over a book that never moves it finds *)
(* neither a distance from the mean nor one of its averages. What the folds   *)
(* of equal prices come to is shown by the least counterexample.              *)

\* A set of indices has a greatest one.
LEMMA Greatest ==
  ASSUME NEW n \in Nat, NEW S \in SUBSET (1..n), S # {}
  PROVE  Max(S) \in S /\ \A y \in S : y <= Max(S)
<1> DEFINE D == {d \in Nat : \E y \in S : d = n - y}
<1>1. \A y \in S : y \in Nat /\ n - y \in Nat
  OBVIOUS
<1>2. D \subseteq Nat /\ D # {} /\ \A y \in S : n - y \in D
  BY <1>1
<1>3. PICK d \in D : \A e \in D : d <= e
  <2> HIDE DEF D
  <2> QED BY <1>2, Least
<1>4. PICK x \in S : \A y \in S : x >= y
  <2>1. PICK x \in S : d = n - x
    BY <1>3
  <2>2. \A y \in S : n - x <= n - y
    BY <1>2, <1>3, <2>1
  <2> QED BY <1>1, <2>1, <2>2
<1>5. Max(S) \in S /\ \A y \in S : Max(S) >= y
  BY <1>4, Zenon DEF Max
<1> DEFINE m == Max(S)
<1> HIDE DEF m
<1>6. m \in S /\ \A y \in S : m >= y
  BY <1>5 DEF m
<1>7. m \in S /\ \A y \in S : y <= m
  BY <1>6
<1> QED BY <1>7 DEF m

\* A function that adds d for every element taken out of a set of indices.
Adds(f, n, d) ==
  f = [S \in SUBSET (1..n) |-> IF S = {} THEN 0 ELSE f[S \ {Max(S)}] + d]

LEMMA AddingExists ==
  ASSUME NEW n \in Nat, NEW d \in Int
  PROVE  \E f : Adds(f, n, d)
<1> DEFINE g == [S \in SUBSET (1..n) |-> Cardinality(S) * d]
<1>1. ASSUME NEW S \in SUBSET (1..n)
      PROVE  Cardinality(S) * d = IF S = {} THEN 0 ELSE g[S \ {Max(S)}] + d
  <2>1. IsFiniteSet(S) /\ Cardinality(S) \in Nat
    <3>1. IsFiniteSet(1..n)
      BY FS_Interval
    <3> QED BY <3>1, FS_Subset, FS_CardinalityType
  <2>2. CASE S = {}
    BY <2>2, FS_EmptySet
  <2>3. CASE S # {}
    <3> DEFINE m == Max(S)
    <3>1. m \in S
      BY <2>3, Greatest
    <3> HIDE DEF m
    <3>2. Cardinality(S \ {m}) = Cardinality(S) - 1
      BY <2>1, <3>1, FS_RemoveElement
    <3>3. g[S \ {m}] = (Cardinality(S) - 1) * d
      BY <3>2
    <3> HIDE DEF g
    <3>4. Cardinality(S) * d = (Cardinality(S) - 1) * d + d
      BY <2>1
    <3> QED BY <2>3, <3>3, <3>4 DEF m
  <2> QED BY <2>2, <2>3
<1>2. g = [S \in SUBSET (1..n) |-> IF S = {} THEN 0 ELSE g[S \ {Max(S)}] + d]
  BY <1>1
<1> QED BY <1>2 DEF Adds

LEMMA AddingMultiplies ==
  ASSUME NEW n \in Nat, NEW d \in Int, NEW f, Adds(f, n, d)
  PROVE  f[1..n] = n * d
<1> DEFINE Wrong == {k \in 0..n : f[1..k] # k * d}
<1> SUFFICES ASSUME Wrong # {} PROVE FALSE
  OBVIOUS
<1>1. PICK k \in Wrong : \A j \in Wrong : k <= j
  <2>1. Wrong \subseteq Nat
    OBVIOUS
  <2> HIDE DEF Wrong
  <2> QED BY <2>1, Least
<1>2. k \in 0..n /\ k \in Nat /\ f[1..k] # k * d
  OBVIOUS
<1>3. CASE k = 0
  <2>1. 1..k = {}
    BY <1>3
  <2>2. f[1..k] = 0
    BY <2>1 DEF Adds
  <2> QED BY <1>2, <1>3, <2>2
<1>4. CASE k # 0
  <2>1. k - 1 \in 0..n /\ k \in 1..k /\ 1..k # {} /\ 1..k \in SUBSET (1..n)
    <3>1. k \in 1..n
      BY <1>2, <1>4
    <3> HIDE DEF Wrong
    <3> QED BY <3>1
  <2>2. f[1..(k - 1)] = (k - 1) * d
    BY <1>1, <2>1
  <2>3. Max(1..k) = k
    <3> DEFINE m == Max(1..k)
    <3>1. m \in 1..k /\ k <= m
      BY <2>1, Greatest
    <3> HIDE DEF m
    <3>2. m = k
      BY <1>2, <3>1
    <3> QED BY <3>2 DEF m
  <2>4. (1..k) \ {k} = 1..(k - 1)
    BY <1>2
  <2>5. f[1..k] = f[1..(k - 1)] + d
    BY <2>1, <2>3, <2>4 DEF Adds
  <2>6. (k - 1) * d + d = k * d
    BY <1>2
  <2> QED BY <1>2, <2>2, <2>5, <2>6
<1> QED BY <1>3, <1>4

\* The sum of n prices that are all c.
LEMMA TotalOfConstant ==
  ASSUME NEW c \in Int, NEW s \in Seq(Int), \A i \in 1..Len(s) : s[i] = c
  PROVE  Total(s) = Len(s) * c
<1> DEFINE n == Len(s)
           iter == CHOOSE f : f = [S \in SUBSET (1..n) |->
                     IF S = {} THEN 0 ELSE f[S \ {Max(S)}] + s[Max(S)]]
<1>1. n \in Nat /\ DOMAIN s = 1..n
  OBVIOUS
<1>2. \A S \in SUBSET (1..n) : S # {} => s[Max(S)] = c
  BY <1>1, Greatest
<1>3. \A f : Adds(f, n, c) <=> f = [S \in SUBSET (1..n) |->
                     IF S = {} THEN 0 ELSE f[S \ {Max(S)}] + s[Max(S)]]
  BY <1>2 DEF Adds
<1>4. Adds(iter, n, c)
  BY <1>1, <1>3, AddingExists, Zenon
<1>5. Total(s) = iter[1..n]
  BY <1>1, Zenon DEF Total, FoldLeft, MapThenFoldSet
<1> HIDE DEF iter
<1> QED BY <1>1, <1>4, <1>5, AddingMultiplies

\* ... and of their squares.
LEMMA SquaresOfConstant ==
  ASSUME NEW c \in Int, NEW s \in Seq(Int), \A i \in 1..Len(s) : s[i] = c
  PROVE  SquaredTotal(s) = Len(s) * (c * c)
<1> DEFINE n == Len(s)
           iter == CHOOSE f : f = [S \in SUBSET (1..n) |->
                     IF S = {} THEN 0 ELSE f[S \ {Max(S)}] + s[Max(S)] * s[Max(S)]]
<1>1. n \in Nat /\ DOMAIN s = 1..n /\ c * c \in Int
  OBVIOUS
<1>2. \A S \in SUBSET (1..n) : S # {} => s[Max(S)] = c
  BY <1>1, Greatest
<1>3. \A f : Adds(f, n, c * c) <=> f = [S \in SUBSET (1..n) |->
                     IF S = {} THEN 0 ELSE f[S \ {Max(S)}] + s[Max(S)] * s[Max(S)]]
  BY <1>2 DEF Adds
<1>4. Adds(iter, n, c * c)
  BY <1>1, <1>3, AddingExists, Zenon
<1>5. SquaredTotal(s) = iter[1..n]
  BY <1>1, Zenon DEF SquaredTotal, FoldLeft, MapThenFoldSet
<1> HIDE DEF iter
<1> QED BY <1>1, <1>4, <1>5, AddingMultiplies

\* Dividing n equal prices by their number gives the price.
LEMMA MeanOfConstant ==
  ASSUME NEW n \in Nat \ {0}, NEW c \in Int
  PROVE  (n * c) \div n = c
<1> DEFINE d == (n * c) \div n
<1>1. n * c \in Int
  OBVIOUS
<1>2. d \in Int /\ n * d <= n * c /\ n * c < n * d + n
  BY <1>1
<1> HIDE DEF d
<1>3. CASE d <= c - 1
  <2>1. n * (d + 1) <= n * c
    BY <1>2, <1>3
  <2>2. n * (d + 1) = n * d + n
    BY <1>2
  <2> QED BY <1>1, <1>2, <2>1, <2>2
<1>4. CASE d >= c + 1
  <2>1. n * (c + 1) <= n * d
    BY <1>2, <1>4
  <2>2. n * (c + 1) = n * c + n
    OBVIOUS
  <2> QED BY <1>1, <1>2, <2>1, <2>2
<1>5. d = c
  BY <1>2, <1>3, <1>4
<1> QED BY <1>5 DEF d

\* Equal prices are a range at its mean.
LEMMA PlaybookIsSilent ==
  ASSUME NEW c \in Nat \ {0}, NEW h \in Seq({c}), h # <<>>, NEW q
  PROVE  ~MtfSetup(h, q, -1)
<1> DEFINE n == Len(h)
<1>1. n \in Nat \ {0} /\ \A i \in 1..n : h[i] = c
  BY EmptySeq
<1>2. h \in Seq(Int)
  BY <1>1
<1>3. Last(h) = c
  BY <1>1 DEF Last
<1>4. CASE n < 2
  <2>1. ~IsRange(h)
    BY <1>1, <1>4 DEF IsRange
  <2> QED BY <1>3, <1>4, <2>1 DEF MtfSetup
<1>5. CASE ~(n < 2)
  <2>1. Total(h) = n * c /\ SquaredTotal(h) = n * (c * c)
    <3>1. c \in Int /\ \A i \in 1..Len(h) : h[i] = c
      BY <1>1
    <3> QED BY <1>2, <3>1, TotalOfConstant, SquaresOfConstant
  <2>2. IsRange(h)
    <3> DEFINE s == n * c
    <3>1. s \in Nat /\ s > 0
      BY <1>1
    <3>2. n * (n * (c * c)) = s * s
      BY <1>1
    <3>3. s * s \in Nat /\ s * s > 0 /\ 25 * s * s = 25 * (s * s)
      BY <3>1
    <3>4. IsRange(h) <=> 16000000 * (s * s - s * s) < 25 * s * s
      BY <1>5, <2>1, <3>2 DEF IsRange
    <3> HIDE DEF s
    <3> QED BY <3>3, <3>4
  <2>3. Total(h) \div n = c
    BY <1>1, <2>1, MeanOfConstant
  <2>4. ~(-1 * c < -1 * c - 5)
    OBVIOUS
  <2> QED BY <1>3, <2>2, <2>3, <2>4 DEF MtfSetup
<1> QED BY <1>4, <1>5

\* No strategy asks for a fall.
THEOREM NoFallIsAsked == Spec => []OnlyRises
<1>1. Init => OnlyRises
  BY DEF Init, OnlyRises, Nothing
<1>2. IInv /\ OnlyRises /\ [Next]_vars => OnlyRises'
  <2> SUFFICES ASSUME IInv, OnlyRises, [Next]_vars PROVE OnlyRises'
    OBVIOUS
  <2>1. CASE UNCHANGED signal
    BY <2>1 DEF OnlyRises
  <2>2. CASE Evaluate
    <3>1. strategy \in Strategies
      BY ChosenAssumption DEF IInv, TypeOK
    <3>2. PICK q : (Fires(Wants(q)) /\ Signal(Wants(q))) \/ UNCHANGED signal
      BY <2>2 DEF Evaluate
    <3>3. CASE UNCHANGED signal
      BY <3>3 DEF OnlyRises
    <3>4. CASE Signal(Wants(q))
      <4>1. CASE strategy # "MtfPlaybook"
        <5>1. Wants(q).down = 0
          BY <3>1, <4>1, RiseOrNothing DEF Wants
        <5> QED BY <3>4, <5>1 DEF Signal, OnlyRises
      <4>2. CASE strategy = "MtfPlaybook"
        <5> DEFINE c == Book(500, 10).up_bid
        <5>1. c \in Nat \ {0}
          BY DEF Book, ClampPrice
        <5>2. mids' \in Seq({c}) /\ mids' # <<>>
          BY <2>2, <4>2, SeenIsAHistory DEF Evaluate, IInv, KeepsPrices
        <5> HIDE DEF c
        <5>3. ~MtfSetup(mids', q, -1)
          BY <5>1, <5>2, PlaybookIsSilent
        <5>4. MtfDesired(mids', q, Book(500, 10), TimeLeft).down = 0
          BY <5>3 DEF MtfDesired, Nothing
        <5>5. Wants(q).down = 0
          BY <4>2, <5>4 DEF Wants, Desired
        <5> QED BY <3>4, <5>5 DEF Signal, OnlyRises
      <4> QED BY <4>1, <4>2
    <3> QED BY <3>2, <3>3, <3>4
  <2>3. CASE Next /\ ~Evaluate
    <3>1. UNCHANGED signal
      BY <2>3 DEF Next, Connect, Authorize, AuthorizationTimeout, Wake,
         HandleEvent, EventsDone, TakeTick, SkipRound, CaptureOpening,
         SendProposal, Answer, MarketTick, Disconnect, Advance, signals
    <3> QED BY <3>1 DEF OnlyRises
  <2>4. UNCHANGED vars => UNCHANGED signal
    BY DEF vars, signals
  <2> QED BY <2>1, <2>2, <2>3, <2>4
<1> QED BY <1>1, <1>2, LegacyInductive, PTL DEF Spec
===============================================================================
