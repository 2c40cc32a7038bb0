-------------------------------- MODULE Router --------------------------------
(***************************************************************************)
(* One connection's plumbing: transport/router.rs, the read and write      *)
(* tasks of transport/ws_client.rs, and the select loop of the executor    *)
(* as their only user.                                                     *)
(*                                                                         *)
(* Three tasks share two bounded channels and the table of pending RPCs.   *)
(* The executor sends requests through the write channel and, for an RPC,  *)
(* waits for the oneshot that the read task fills. The read task gives a   *)
(* message whose req_id is pending to that oneshot and pushes every other  *)
(* one into the raw channel, which the executor drains only between two    *)
(* handlers: with that channel full the read task waits for the executor,  *)
(* and the executor may be waiting for an answer the read task has not     *)
(* reached. The 10 s timeout of send_rpc is what breaks the circle.        *)
(*                                                                         *)
(* A request carries its req_id, and as a history the number `ask` of the  *)
(* call it belongs to, which an answer repeats; a message carries its      *)
(* number `no` in the order the broker sent them. What is in them, the     *)
(* subscription registry (never filled by the executor) and the shutdown   *)
(* sequence (never sent) are left out.                                     *)
(***************************************************************************)
EXTENDS Integers, Sequences

CONSTANTS
  MaxAsks,     \* bound: requests the executor sends on this connection
  MaxMessages, \* bound: messages the broker sends on this connection
  WriteCap,    \* capacity of the write channel
  RawCap,      \* capacity of the raw channel
  HandlerAsks  \* most requests one handler sends: proposal, buy, monitor

ASSUME BoundsAssumption == MaxAsks \in Nat /\ MaxMessages \in Nat
ASSUME CapacityAssumption == WriteCap \in Nat \ {0} /\ RawCap \in Nat \ {0}
ASSUME HandlerAssumption == HandlerAsks \in Nat

VARIABLES
  nextId,   \* Router.req_id_counter
  asks,     \* history: requests sent so far
  caller,   \* the executor: "select", "handling" a message, "sending" into
            \*   the write channel, "waiting" for an answer, or "closed"
  toSend,   \* requests the current handler has still to send
  call,     \* the request being sent or awaited, and whether it is an RPC
  pending,  \* the keys of Router.pending_rpcs
  slot,     \* the oneshot of the call: its answer, or NoMessage
  writeQ,   \* the write channel
  writer,   \* ws_write_loop: "running" or "ended"
  rawQ,     \* the raw channel
  reader,   \* ws_read_loop: "running" or "ended"
  held,     \* the message ws_read_loop is pushing into the raw channel
  last,     \* history: number of the message the select loop took last
  link,     \* the TCP connection: "up" or "down"
  wire,     \* messages on their way to this process
  asked,    \* requests that reached the broker and it may still answer
  sent      \* messages the broker has sent so far

executorVars == <<asks, caller, toSend, call, last>>
tableVars    == <<nextId, pending, slot>>
writerVars   == <<writeQ, writer>>
readerVars   == <<rawQ, reader, held>>
brokerVars   == <<link, wire, asked, sent>>
vars == <<executorVars, tableVars, writerVars, readerVars, brokerVars>>

Request == [id : Nat, ask : Nat, rpc : BOOLEAN]
Message == [re : Nat, ask : Nat, no : Nat]

\* A message numbers its answer and its place from 1; this is none of them.
NoMessage == [re |-> 0, ask |-> 0, no |-> 0]
NoCall == [id |-> 0, ask |-> 0, rpc |-> FALSE]

TypeOK ==
  /\ nextId \in Nat \ {0} /\ asks \in 0..MaxAsks /\ last \in Nat
  /\ caller \in {"select", "handling", "sending", "waiting", "closed"}
  /\ toSend \in Nat /\ call \in Request
  /\ pending \subseteq Nat /\ slot \in Message
  /\ writeQ \in Seq(Request) /\ writer \in {"running", "ended"}
  /\ rawQ \in Seq(Message) /\ reader \in {"running", "ended"}
  /\ held \in Message
  /\ link \in {"up", "down"} /\ wire \in Seq(Message)
  /\ asked \subseteq Request /\ sent \in Nat

Init ==
  /\ nextId = 1 /\ asks = 0 /\ last = 0
  /\ caller = "select" /\ toSend = 0 /\ call = NoCall
  /\ pending = {} /\ slot = NoMessage
  /\ writeQ = <<>> /\ writer = "running"
  /\ rawQ = <<>> /\ reader = "running" /\ held = NoMessage
  /\ link = "up" /\ wire = <<>> /\ asked = {} /\ sent = 0
-------------------------------------------------------------------------------
(* The executor: send_rpc, send_fire and the select loop around them. *)

IdsCountDown == nextId' = nextId - 1

IdsReused == nextId' = nextId

\* Every request takes the next identifier.
NextReqId == nextId' = nextId + 1

\* send_rpc and send_fire up to their first await: the identifier, and for an
\* RPC the pending entry with a fresh oneshot, before anything is sent.
Start(rpc) ==
  /\ asks < MaxAsks
  /\ NextReqId
  /\ asks' = asks + 1
  /\ call' = [id |-> nextId, ask |-> asks', rpc |-> rpc]
  /\ caller' = "sending"
  /\ IF rpc
     THEN pending' = pending \cup {nextId} /\ slot' = NoMessage
     ELSE UNCHANGED <<pending, slot>>
  /\ UNCHANGED <<last, writerVars, readerVars, brokerVars>>

\* A handler sends its next request.
HandlerStarts ==
  /\ caller = "handling"
  /\ toSend' = toSend - 1
  /\ \E rpc \in BOOLEAN : Start(rpc)

\* The select loop's poll timer asks for the state of the open contract.
TimerStarts == caller = "select" /\ Start(FALSE) /\ UNCHANGED toSend

\* Where the executor goes after a request: on in its handler, or back to the
\* select loop when the handler has no more to send.
Continues == caller' = IF toSend > 0 THEN "handling" ELSE "select"

\* The request enters the write channel; only an RPC waits for an answer.
PushWrite ==
  /\ caller = "sending" /\ writer = "running"
  /\ Len(writeQ) < WriteCap
  /\ writeQ' = Append(writeQ, call)
  /\ IF call.rpc THEN caller' = "waiting" ELSE Continues
  /\ UNCHANGED <<asks, toSend, call, last, tableVars, writer, readerVars,
                 brokerVars>>

WriteErrorRetried == caller = "sending" /\ UNCHANGED vars

\* The write task is gone: the request fails at once, and the `?` of send_rpc
\* leaves with the oneshot before the pending entry is removed. The handler
\* gives up.
PushFails ==
  /\ caller = "sending" /\ writer = "ended"
  /\ slot' = NoMessage
  /\ caller' = "select" /\ toSend' = 0
  /\ UNCHANGED <<asks, call, last, nextId, pending, writerVars, readerVars,
                 brokerVars>>

\* The oneshot is filled: send_rpc returns the answer. The handler goes on or,
\* if it does not like the answer, ends.
Answered ==
  /\ caller = "waiting" /\ slot # NoMessage
  /\ slot' = NoMessage
  /\ \/ Continues /\ UNCHANGED toSend
     \/ caller' = "select" /\ toSend' = 0
  /\ UNCHANGED <<asks, call, last, nextId, pending, writerVars, readerVars,
                 brokerVars>>

NoTimeout == caller = "waiting" /\ UNCHANGED vars

\* Ten seconds have passed: send_rpc takes its entry out of the table and
\* fails. An answer that reached the oneshot between the timeout and the lock
\* of the table is dropped with it.
Timeout ==
  /\ caller = "waiting"
  /\ pending' = pending \ {call.id}
  /\ slot' = NoMessage
  /\ caller' = "select" /\ toSend' = 0
  /\ UNCHANGED <<asks, call, last, nextId, writerVars, readerVars, brokerVars>>

\* The select loop takes a message; handling it sends some requests.
Recv ==
  /\ caller = "select" /\ rawQ # <<>>
  /\ last' = Head(rawQ).no
  /\ rawQ' = Tail(rawQ)
  /\ \E n \in 0..HandlerAsks :
       /\ asks + n <= MaxAsks
       /\ toSend' = n
       /\ caller' = IF n > 0 THEN "handling" ELSE "select"
  /\ UNCHANGED <<asks, call, tableVars, writerVars, reader, held, brokerVars>>

\* The raw channel is empty and its sender gone: the connection is over.
Disconnect ==
  /\ caller = "select" /\ rawQ = <<>> /\ reader = "ended"
  /\ caller' = "closed"
  /\ pending' = {}
  /\ UNCHANGED <<asks, toSend, call, last, nextId, slot, writerVars,
                 readerVars, brokerVars>>
-------------------------------------------------------------------------------
(* The write task. *)

\* The next request leaves. On a dead connection the socket may still take it.
Write ==
  /\ writer = "running" /\ writeQ # <<>>
  /\ writeQ' = Tail(writeQ)
  /\ asked' = IF link = "up" THEN asked \cup {Head(writeQ)} ELSE asked
  /\ UNCHANGED <<executorVars, tableVars, writer, readerVars, link, wire, sent>>

\* The socket refuses the next request: the task ends, its channel with it.
WriteFails ==
  /\ writer = "running" /\ writeQ # <<>> /\ link = "down"
  /\ writer' = "ended" /\ writeQ' = <<>>
  /\ UNCHANGED <<executorVars, tableVars, readerVars, brokerVars>>
-------------------------------------------------------------------------------
(* The read task. *)

\* The next message goes through route_message: to the oneshot of a pending
\* RPC, whose entry is removed, or else towards the raw channel. A oneshot
\* whose receiver is gone drops the answer.
Read ==
  /\ reader = "running" /\ held = NoMessage /\ wire # <<>>
  /\ wire' = Tail(wire)
  /\ LET m == Head(wire)
     IN IF m.re \in pending
        THEN /\ pending' = pending \ {m.re}
             /\ slot' = IF m.re = call.id /\ caller \in {"sending", "waiting"}
                        THEN m ELSE slot
             /\ UNCHANGED held
        ELSE held' = m /\ UNCHANGED <<pending, slot>>
  /\ UNCHANGED <<executorVars, nextId, writerVars, rawQ, reader, link, asked,
                 sent>>

PushInFront ==
  /\ held # NoMessage /\ Len(rawQ) < RawCap
  /\ rawQ' = <<held>> \o rawQ
  /\ held' = NoMessage
  /\ UNCHANGED <<executorVars, tableVars, writerVars, reader, brokerVars>>

\* The raw channel has room for it.
Push ==
  /\ held # NoMessage /\ Len(rawQ) < RawCap
  /\ rawQ' = Append(rawQ, held)
  /\ held' = NoMessage
  /\ UNCHANGED <<executorVars, tableVars, writerVars, reader, brokerVars>>

\* The dead connection yields an error or a close frame: the task ends. One that
\* falls silent (half open) never does: the read has no timeout.
ReaderEnds ==
  /\ reader = "running" /\ held = NoMessage /\ wire = <<>> /\ link = "down"
  /\ reader' = "ended"
  /\ UNCHANGED <<executorVars, tableVars, writerVars, rawQ, held, brokerVars>>
-------------------------------------------------------------------------------
(* The broker and the network. *)

\* The broker sends one message: the answer to an RPC, once, or one of any
\* number of updates of a subscription, which repeat its req_id.
BrokerSends ==
  /\ link = "up" /\ sent < MaxMessages
  /\ sent' = sent + 1
  /\ \E r \in asked :
       /\ wire' = Append(wire, [re |-> r.id, ask |-> r.ask, no |-> sent'])
       /\ asked' = IF r.rpc THEN asked \ {r} ELSE asked
  /\ UNCHANGED <<executorVars, tableVars, writerVars, readerVars, link>>

\* The connection breaks, with or without either end being told; what was on
\* its way may be lost from some point on.
LinkDown ==
  /\ link = "up" /\ link' = "down"
  /\ \E n \in 0..Len(wire) : wire' = SubSeq(wire, 1, n)
  /\ UNCHANGED <<executorVars, tableVars, writerVars, readerVars, asked, sent>>

\* The select loop is left and the connection is forgotten.
Terminated == caller = "closed" /\ UNCHANGED vars

Next ==
  \/ HandlerStarts \/ TimerStarts \/ PushWrite \/ PushFails \/ Answered
  \/ Timeout \/ Recv \/ Disconnect \/ Write \/ WriteFails \/ Read \/ Push
  \/ ReaderEnds \/ BrokerSends \/ LinkDown \/ Terminated

Spec == Init /\ [][Next]_vars

(* The runtime runs a task that can go on, and the timer of an RPC fires.   *)
(* select! picks among its ready branches at random, so a message that      *)
(* stays there is taken however often the poll timer fires first: strong    *)
(* fairness. None is assumed of ReaderEnds: nothing in the code ends the    *)
(* read of a half-open connection.                                          *)
Fairness ==
  /\ WF_vars(HandlerStarts) /\ WF_vars(PushWrite) /\ WF_vars(PushFails)
  /\ WF_vars(Answered) /\ WF_vars(Timeout)
  /\ SF_vars(Recv) /\ SF_vars(Disconnect)
  /\ WF_vars(Write \/ WriteFails)
  /\ WF_vars(Read) /\ WF_vars(Push)

FairSpec == Spec /\ Fairness
-------------------------------------------------------------------------------
(* Properties. *)

InCall == caller \in {"sending", "waiting"}

\* While requests can be written, the table holds at most the entry of the
\* call in progress: no path out of send_rpc leaves one behind. (A write task
\* that has ended leaves the entries of failed calls until clear_pending.)
PendingIsCall ==
  /\ writer = "running" /\ InCall => pending \subseteq {call.id}
  /\ writer = "running" /\ ~InCall => pending = {}
  /\ caller = "closed" => pending = {}

\* send_rpc returns the answer to its own request, however late the answers to
\* the calls that timed out before it arrive.
OwnAnswer == slot # NoMessage => call.rpc /\ slot.ask = call.ask

\* The select loop sees the broker's messages in the order they were sent, each
\* at most once, and so never an older state of a contract after a newer one.
InOrder == [][last' # last => last' > last]_vars

\* Whatever the network does, a request ends: answered, timed out or refused.
RequestEnds == InCall ~> ~InCall

\* A read task that waits for room in the raw channel gets it, also when the
\* executor that must make it waits for an answer behind the waiting message.
ReaderUnblocks == held # NoMessage ~> held = NoMessage

\* Once the read task has ended, the executor leaves its select loop and
\* reconnects: the messages still queued, the requests their handlers send, a
\* call nobody will answer and a write task that is gone or not may delay it,
\* never prevent it. (That the read task ends is up to the network.)
DisconnectNoticed == reader = "ended" ~> caller = "closed"
-------------------------------------------------------------------------------
(* The inductive invariant behind PendingIsCall and OwnAnswer. *)

\* Identifiers and calls are counted in step, so that whatever carries the
\* identifier of a call belongs to that call.
OwnRequests == {r \in Request : r.id = r.ask}
OwnMessages == {m \in Message : m.re = m.ask}

IdsAreAsks ==
  /\ nextId = asks + 1
  /\ call \in OwnRequests /\ call.id <= asks
  /\ writeQ \in Seq(OwnRequests) /\ asked \subseteq OwnRequests
  /\ wire \in Seq(OwnMessages)

\* The table's entries are of calls already made, an RPC's in progress among
\* them only until its oneshot is filled.
TableIsOfCalls ==
  /\ \A i \in pending : i <= asks
  /\ call.id \in pending => call.rpc \/ ~InCall
  /\ slot # NoMessage => InCall /\ call.id \notin pending

\* A handler that is asked to go on has something to send.
HandlerSends == caller = "handling" => toSend > 0

\* The inductive invariant.
IInv ==
  TypeOK /\ HandlerSends /\ IdsAreAsks /\ TableIsOfCalls /\ PendingIsCall /\ OwnAnswer

(* The inductive invariant behind InOrder. *)

\* The messages of a queue were sent in the order they stand in, and all after
\* message n.
Follow(n, q) == \A i \in DOMAIN q : n < q[i].no
Ascending(q) == \A i, j \in DOMAIN q : i < j => q[i].no < q[j].no

\* What the select loop took last, the raw channel, the message the read task
\* holds and what is on the wire continue one another, and end with the last
\* message sent.
InSequence ==
  /\ last <= sent
  /\ Follow(last, rawQ) /\ Ascending(rawQ)
  /\ Follow(last, wire) /\ Ascending(wire)
  /\ \A i \in DOMAIN rawQ : rawQ[i].no <= sent /\ Follow(rawQ[i].no, wire)
  /\ \A i \in DOMAIN wire : wire[i].no <= sent
  /\ held # NoMessage =>
       /\ last < held.no /\ held.no <= sent
       /\ \A i \in DOMAIN rawQ : rawQ[i].no < held.no
       /\ Follow(held.no, wire)
===============================================================================
