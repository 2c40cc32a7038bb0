------------------------------- MODULE LegacyBot -------------------------------
(***************************************************************************)
(* The bot of the older workspace: a task that sorts what the broker sends *)
(* into two bounded channels, and a loop that every 100 ms empties both,   *)
(* keeps a contract window, and gives a signal when its strategy wants a   *)
(* position. The connection is made once. A signal becomes a request for a *)
(* proposal, unless the run is dry.                                        *)
(***************************************************************************)
EXTENDS LegacyStrategies, FiniteSets

CONSTANTS
  Chosen,       \* the strategies it may be started with
  Modes,        \* whether it may be started dry
  Duration,     \* cfg.contract_duration
  Grace,        \* how long after its end a window is kept (5 s)
  AuthTimeout,  \* how long the answer to authorize is waited for (10 s)
  Channel,      \* places in each of the two channels (2048)
  Buffer,       \* ticks kept for the opening price (200)
  Prices,       \* prices of the market, 0 for a missing one
  MaxTime,      \* bound: time
  MaxTicks,     \* bound: ticks of the market
  MaxSent       \* bound: requests

ASSUME ChosenAssumption == Chosen \subseteq Strategies
ASSUME ModesAssumption == Modes \subseteq BOOLEAN
ASSUME SizeAssumption == Channel \in Nat \ {0} /\ Buffer \in Nat \ {0}
ASSUME TimeAssumption == /\ Duration \in Nat \ {0} /\ Grace \in Nat
                         /\ AuthTimeout \in Nat
ASSUME PriceAssumption == Prices \subseteq Nat
ASSUME BoundAssumption == MaxTime \in Nat /\ MaxTicks \in Nat /\ MaxSent \in Nat

None == -1                      \* Option::None for a time or a price
LongAgo == -(Duration + 1)      \* last_contract_time is the year 1970

VARIABLES
  pc,         \* where main is
  clock,      \* the time
  now,        \* the time this round took for its own, 0 outside a round
  up,         \* the connection and the task that reads it
  tick_rx,    \* channel of ticks
  event_rx,   \* channel of all messages
  samples,    \* the estimator's price_buffer; its last price is current_price
  s0,         \* the estimator's opening price
  start,      \* contract_start_ms; the window ends Duration later
  last,       \* last_contract_time
  strategy,   \* the strategy of this run
  dry_run,    \* whether this run only signals
  mids,       \* the book prices it has kept
  spawned,    \* proposal requests on their way to the connection
  next_req,   \* req_id_counter
  asked,      \* external: ids of proposal requests the broker has to answer
  pending,    \* keys of pending_proposals
  bought,     \* buy requests sent
  ticks,      \* external: ticks the market has made
  signal,     \* history: the last signal
  unfed,      \* history: signals since the loop last took a tick
  opened      \* history: the window s0 was taken for

wire == <<up, tick_rx, event_rx, asked, ticks>>
estimator == <<samples, s0, opened>>
contracts == <<spawned, next_req, pending, bought>>
settings == <<strategy, dry_run>>
signals == <<last, settings, mids, signal, unfed>>
vars == <<pc, clock, now, wire, estimator, start, contracts, signals>>

Tick == [price : Prices, ts : 0..MaxTime]
Authorized == [kind |-> "Authorize"]
Error == [kind |-> "Error"]
Other == [kind |-> "Other"]   \* what the loop ignores, and what cannot be read
Proposal(id) == [kind |-> "Proposal", req_id |-> id]
Event ==
  [kind : {"Authorize", "Error", "Other"}] \cup [kind : {"Proposal"}, req_id : Nat]

InLoop == pc \in {"asleep", "events", "ticks"}

TypeOK ==
  /\ pc \in {"connecting", "authorizing", "asleep", "events", "ticks",
             "stopped"}
  /\ clock \in 0..MaxTime /\ now \in 0..clock
  /\ up \in BOOLEAN
  /\ tick_rx \in Seq(Tick) /\ Len(tick_rx) <= Channel
  /\ event_rx \in Seq(Event) /\ Len(event_rx) <= Channel
  /\ samples \in Seq(Tick) /\ Len(samples) <= Buffer
  /\ s0 \in Prices \cup {None}
  /\ start \in 0..MaxTime \cup {None}
  /\ last \in 0..MaxTime \cup {LongAgo}
  /\ strategy \in Chosen /\ dry_run \in Modes
  /\ mids \in Seq(Int) /\ Len(mids) <= History
  /\ spawned \in Nat /\ next_req \in Nat \ {0} /\ asked \subseteq Nat \ {0}
  /\ pending \subseteq Nat /\ bought \in Nat
  /\ ticks \in 0..MaxTicks
  /\ unfed \in Nat
  /\ opened \in 0..MaxTime \cup {None}

Init ==
  /\ pc = "connecting" /\ clock = 0 /\ now = 0
  /\ up = FALSE /\ tick_rx = <<>> /\ event_rx = <<>> /\ asked = {} /\ ticks = 0
  /\ samples = <<>> /\ s0 = None /\ opened = None
  /\ start = None /\ last = LongAgo
  /\ strategy \in Chosen /\ dry_run \in Modes /\ mids = <<>>
  /\ spawned = 0 /\ next_req = 1 /\ pending = {} /\ bought = 0
  /\ signal = Nothing /\ unfed = 0
-------------------------------------------------------------------------------
(* The start. *)

\* The connection is made, the reading task started, authorize sent, with the
\* first id; or there is no connection and no bot.
Connect ==
  /\ pc = "connecting"
  /\ \/ /\ pc' = "authorizing" /\ up' = TRUE
        /\ asked' = {next_req} /\ next_req' = next_req + 1
     \/ pc' = "stopped" /\ UNCHANGED <<up, asked, next_req>>
  /\ UNCHANGED <<clock, now, tick_rx, event_rx, ticks, estimator, start,
                 spawned, pending, bought, signals>>

\* One message while authorization is awaited. With it, ticks and balance are
\* subscribed to; that fails, and ends the bot, if the connection is dead.
Authorize ==
  /\ pc = "authorizing" /\ event_rx # <<>>
  /\ event_rx' = Tail(event_rx)
  /\ CASE Head(event_rx) = Authorized ->
            \/ pc' = "asleep" /\ next_req' = next_req + 2
            \/ ~up /\ pc' = "stopped" /\ UNCHANGED next_req
       [] Head(event_rx) = Error -> pc' = "stopped" /\ UNCHANGED next_req
       [] OTHER -> UNCHANGED <<pc, next_req>>
  /\ UNCHANGED <<clock, now, up, tick_rx, asked, ticks, estimator, start,
                 spawned, pending, bought, signals>>

\* A mutant: the wait wakes only for a message.
TimeoutAfterMessage ==
  /\ pc = "authorizing" /\ clock >= AuthTimeout /\ event_rx # <<>>
  /\ pc' = "stopped"
  /\ UNCHANGED <<clock, now, wire, estimator, start, contracts, signals>>

\* No answer in time ends the bot.
AuthorizationTimeout ==
  /\ pc = "authorizing" /\ clock >= AuthTimeout
  /\ pc' = "stopped"
  /\ UNCHANGED <<clock, now, wire, estimator, start, contracts, signals>>
-------------------------------------------------------------------------------
(* A round of the loop. *)

Wake ==
  /\ pc = "asleep" /\ pc' = "events" /\ now' = clock
  /\ UNCHANGED <<clock, wire, estimator, start, contracts, signals>>

\* handle_proposal_response: an answer to a request that is still pending is
\* bought, unless the run is dry; the send fails on a dead connection, which is
\* ignored. All else is logged, or entered in a ledger that is only logged.
HandleEvent ==
  /\ pc = "events" /\ event_rx # <<>>
  /\ event_rx' = Tail(event_rx)
  /\ LET e == Head(event_rx)
         known == e.kind = "Proposal" /\ e.req_id \in pending
         buys == known /\ ~dry_run
     IN /\ pending' = IF known THEN pending \ {e.req_id} ELSE pending
        /\ next_req' = IF buys THEN next_req + 1 ELSE next_req
        /\ bought' = IF buys /\ up THEN bought + 1 ELSE bought
  /\ UNCHANGED <<pc, clock, now, up, tick_rx, asked, ticks, estimator, start,
                 spawned, signals>>

EventsDone ==
  /\ pc = "events" /\ event_rx = <<>>
  /\ pc' = "ticks"
  /\ UNCHANGED <<clock, now, wire, estimator, start, contracts, signals>>

\* A mutant: the opening price of the window before is kept.
TakeTickKeepingOpening ==
  /\ pc = "ticks" /\ tick_rx # <<>>
  /\ tick_rx' = Tail(tick_rx) /\ unfed' = 0
  /\ samples' = LET all == Append(samples, Head(tick_rx)) IN
                IF Len(all) > Buffer THEN Tail(all) ELSE all
  /\ start' = IF start = None \/ now > start + Duration + Grace THEN now
              ELSE start
  /\ UNCHANGED <<pc, clock, now, up, event_rx, asked, ticks, s0, opened,
                 contracts, last, settings, mids, signal>>

\* A tick is taken in; without a window, or long after its end, the tick opens
\* a new one, whose opening price is not known yet.
TakeTick ==
  /\ pc = "ticks" /\ tick_rx # <<>>
  /\ tick_rx' = Tail(tick_rx) /\ unfed' = 0
  /\ samples' = LET all == Append(samples, Head(tick_rx)) IN
                IF Len(all) > Buffer THEN Tail(all) ELSE all
  /\ IF start = None \/ now > start + Duration + Grace
     THEN start' = now /\ s0' = None /\ opened' = None
     ELSE UNCHANGED <<start, s0, opened>>
  /\ UNCHANGED <<pc, clock, now, up, event_rx, asked, ticks, contracts,
                 last, settings, mids, signal>>

Sleep == pc' = "asleep" /\ now' = 0

\* estimate has a price, s_hat_t: the last tick came with one.
HasPrice == samples # <<>> /\ Last(samples).price > 0

\* The loop goes back to sleep without a window, or without a price.
SkipRound ==
  /\ pc = "ticks" /\ tick_rx = <<>> /\ (start = None \/ ~HasPrice)
  /\ Sleep
  /\ UNCHANGED <<clock, wire, estimator, start, contracts, signals>>

\* capture_s0: the first of the kept ticks nearest to the start of the window.
Away(i) ==
  IF samples[i].ts > start THEN samples[i].ts - start ELSE start - samples[i].ts
Opening ==
  CHOOSE i \in DOMAIN samples :
    \A j \in DOMAIN samples :
      Away(i) < Away(j) \/ (Away(i) = Away(j) /\ i <= j)

\* The estimate was made before: this round goes no further.
CaptureOpening ==
  /\ pc = "ticks" /\ tick_rx = <<>> /\ start # None /\ HasPrice /\ s0 = None
  /\ s0' = samples[Opening].price /\ opened' = start
  /\ Sleep
  /\ UNCHANGED <<clock, wire, samples, start, contracts, signals>>

TimeLeft == IF start + Duration > now THEN start + Duration - now ELSE 0

Wants(q_model) ==
  Desired(strategy, mids', q_model, Size(QLow(q_model), 500), Book(500, 10),
          TimeLeft)

\* A position is wanted and the last signal is long enough ago.
Fires(wanted) == wanted.up + wanted.down > 0 /\ now - last > Duration

\* A mutant: the proposal is pending under the id its request will have.
RequestByItsId ==
  IF dry_run THEN UNCHANGED <<spawned, pending>>
  ELSE spawned' = spawned + 1 /\ pending' = pending \cup {next_req}

\* execute_commands: the request is left to a task, and pending under the key
\* zero, which "will be updated when the spawn completes".
RequestProposal ==
  IF dry_run THEN UNCHANGED <<spawned, pending>>
  ELSE spawned' = spawned + 1 /\ pending' = pending \cup {0}

\* A mutant: the window stays.
SignalInWindow(wanted) ==
  /\ last' = now /\ signal' = wanted /\ unfed' = unfed + 1
  /\ RequestProposal
  /\ UNCHANGED start

\* A signal ends the window.
Signal(wanted) ==
  /\ last' = now /\ signal' = wanted /\ unfed' = unfed + 1
  /\ RequestProposal
  /\ start' = None

Evaluate ==
  /\ pc = "ticks" /\ tick_rx = <<>> /\ start # None /\ HasPrice /\ s0 # None
  /\ next_req < MaxSent
  /\ mids' = Seen(strategy, mids, Book(500, 10))
  /\ \E q_model \in QModels(s0, Last(samples).price, TimeLeft) :
       \/ Fires(Wants(q_model)) /\ Signal(Wants(q_model))
       \/ /\ ~Fires(Wants(q_model))
          /\ UNCHANGED <<last, signal, unfed, spawned, pending, start>>
  /\ Sleep
  /\ UNCHANGED <<clock, wire, estimator, settings, next_req, bought>>

\* The task of a request gets an id and sends it.
SendProposal ==
  /\ spawned > 0 /\ next_req < MaxSent
  /\ spawned' = spawned - 1 /\ next_req' = next_req + 1
  /\ asked' = IF up THEN asked \cup {next_req} ELSE asked
  /\ UNCHANGED <<pc, clock, now, up, tick_rx, event_rx, ticks, estimator, start,
                 pending, bought, signals>>
-------------------------------------------------------------------------------
(* The reading task, with what the broker and the market send, and time. *)

\* try_send: what finds no place is dropped.
Offer(channel, message) ==
  IF Len(channel) < Channel THEN Append(channel, message) ELSE channel

\* A proposal is read with the id of its request, or with 0 when it carries
\* none; an answer may be an error, or unreadable.
Answers(id) ==
  {Error, Other} \cup
    (IF id = 1 THEN {Authorized} ELSE {Proposal(id), Proposal(0)})

\* An answer to one of these requests, or a message of another kind: a balance,
\* a purchase, the answer to a subscription.
Answer ==
  /\ up
  /\ \/ \E id \in asked :
          /\ asked' = asked \ {id}
          /\ \E m \in Answers(id) : event_rx' = Offer(event_rx, m)
     \/ InLoop /\ asked' = asked /\ event_rx' = Offer(event_rx, Other)
  /\ UNCHANGED <<pc, clock, now, up, tick_rx, ticks, estimator, start,
                 contracts, signals>>

\* Ticks come once they are subscribed to, and go to both channels.
MarketTick ==
  /\ up /\ InLoop /\ ticks < MaxTicks
  /\ \E price \in Prices :
       tick_rx' = Offer(tick_rx, [price |-> price, ts |-> clock])
  /\ event_rx' = Offer(event_rx, Other)
  /\ ticks' = ticks + 1
  /\ UNCHANGED <<pc, clock, now, up, asked, estimator, start, contracts,
                 signals>>

\* The task ends, and nothing connects again.
Disconnect ==
  /\ up /\ up' = FALSE
  /\ UNCHANGED <<pc, clock, now, tick_rx, event_rx, asked, ticks, estimator,
                 start, contracts, signals>>

Advance ==
  /\ clock < MaxTime /\ clock' = clock + 1
  /\ UNCHANGED <<pc, now, wire, estimator, start, contracts, signals>>

Next ==
  \/ Connect \/ Authorize \/ AuthorizationTimeout
  \/ Wake \/ HandleEvent \/ EventsDone \/ TakeTick \/ SkipRound
  \/ CaptureOpening \/ Evaluate \/ SendProposal
  \/ Answer \/ MarketTick \/ Disconnect \/ Advance

Spec == Init /\ [][Next]_vars

\* Time goes on, and the wait for authorization wakes at least every 100 ms.
FairSpec == Spec /\ WF_vars(Advance) /\ WF_vars(AuthorizationTimeout)
-------------------------------------------------------------------------------
(* Properties. *)

IsProposal(e) == e.kind = "Proposal"

\* An answer that carries the id of its request buys nothing, however long the
\* bot runs and whatever it signals, as what is pending has the key zero: only
\* an answer without an id, which is read as zero, is ever bought.
NumberedAnswersBuyNothing ==
  [][bought' # bought => /\ pc = "events" /\ IsProposal(Head(event_rx))
                         /\ Head(event_rx).req_id = 0]_vars

\* What the comments of contract_manager.rs promise of a run that is not dry: a
\* proposal that answers a request of the bot, by its id, is handled and bought.
AnsweredProposalIsBought ==
  [][HandleEvent /\ ~dry_run /\ up /\ IsProposal(Head(event_rx))
       /\ Head(event_rx).req_id # 0 => bought' = bought + 1]_vars

\* No strategy of the selector asks for a fall.
OnlyRises == signal.down = 0

\* On a connection that has gone silent the bot gives one signal at most, as
\* only a tick opens another window.
OneSignalPerTick == unfed <= 1

\* A window is judged by an opening price taken for it, never by that of the
\* window before.
OpeningIsOwn == start # None /\ s0 # None => opened = start

\* The wait for authorization ends, also when the broker never answers.
AuthorizationEnds == pc = "authorizing" ~> pc \in {"asleep", "stopped"}

\* The inductive invariant.
PendingHasKeyZero == pending \subseteq {0}
SilentAfterSignal == unfed = 0 \/ (unfed = 1 /\ start = None)

\* The synthetic book never moves, and with it the prices a strategy keeps.
OnePrice == mids \in Seq({Book(500, 10).up_bid})

DryRunAsksNothing == dry_run => spawned = 0 /\ pending = {}

IInv ==
  /\ TypeOK /\ PendingHasKeyZero /\ SilentAfterSignal /\ OpeningIsOwn
  /\ DryRunAsksNothing /\ OnePrice
  /\ (start # None => samples # <<>>)
===============================================================================
