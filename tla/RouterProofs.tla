----------------------------- MODULE RouterProofs -----------------------------
(***************************************************************************)
(* For channels of any capacity and any number of requests and messages:   *)
(* the table of pending RPCs holds at most the call in progress, and a     *)
(* call never gets another call's answer. The invariant says that every    *)
(* identifier in a channel, on the wire or at the broker belongs to one    *)
(* call, and when the table may still hold it.                             *)
(***************************************************************************)
EXTENDS Router, SequenceTheorems, TLAPS

\* The executor's steps that start a request keep the invariant: the new
\* identifier is in no channel and not in the table.
LEMMA StartStep ==
  ASSUME IInv, HandlerStarts \/ TimerStarts
  PROVE  IInv'
  <1> USE DEF IInv
  <1>1. PICK rpc \in BOOLEAN : Start(rpc)
    BY DEF HandlerStarts, TimerStarts
  <1>2. /\ toSend' \in Nat
        /\ caller \in {"handling", "select"} /\ slot = NoMessage
    <2>1. CASE HandlerStarts
      BY <2>1 DEF HandlerStarts, TypeOK, HandlerSends, TableIsOfCalls, InCall
    <2>2. CASE TimerStarts
      BY <2>2 DEF TimerStarts, TypeOK, TableIsOfCalls, InCall
    <2> QED
      BY <2>1, <2>2
  <1>3. /\ asks < MaxAsks /\ asks' = asks + 1 /\ nextId' = nextId + 1
        /\ call' = [id |-> nextId, ask |-> asks + 1, rpc |-> rpc]
        /\ caller' = "sending"
        /\ pending' = IF rpc THEN pending \cup {nextId} ELSE pending
        /\ slot' = NoMessage
        /\ last' = last
        /\ UNCHANGED <<writerVars, readerVars, brokerVars>>
    BY <1>1, <1>2 DEF Start, NextReqId
  <1>4. asks \in Nat /\ MaxAsks \in Nat /\ nextId = asks + 1 /\ asks + 1 \in 0..MaxAsks
    BY <1>3, BoundsAssumption DEF TypeOK, IdsAreAsks
  <1>5. call' \in OwnRequests /\ call' \in Request
    BY <1>3, <1>4 DEF OwnRequests, Request
  <1>6. TypeOK' /\ HandlerSends'
    BY <1>2, <1>3, <1>4, <1>5
    DEF TypeOK, HandlerSends, writerVars, readerVars, brokerVars, NoMessage, Message
  <1>7. IdsAreAsks'
    BY <1>3, <1>4, <1>5
    DEF IdsAreAsks, writerVars, readerVars, brokerVars
  <1>8. TableIsOfCalls'
    BY <1>3, <1>4 DEF TableIsOfCalls, InCall, TypeOK
  <1>9. PendingIsCall'
    BY <1>2, <1>3 DEF PendingIsCall, InCall, writerVars
  <1>10. OwnAnswer'
    BY <1>3 DEF OwnAnswer
  <1> QED
    BY <1>6, <1>7, <1>8, <1>9, <1>10

\* The executor's other steps: a request enters its channel or a call ends,
\* and with the call its entry and its oneshot.
LEMMA ExecutorStep ==
  ASSUME IInv, PushWrite \/ PushFails \/ Answered \/ Timeout \/ Recv \/ Disconnect
  PROVE  IInv'
  <1> USE DEF IInv
  <1>1. CASE PushWrite
    <2>1. call \in OwnRequests /\ call \in Request
      BY DEF IdsAreAsks, TypeOK
    <2>2. writeQ' \in Seq(OwnRequests) /\ writeQ' \in Seq(Request)
      BY <1>1, <2>1 DEF PushWrite, IdsAreAsks, TypeOK
    <2>3. TypeOK' /\ HandlerSends'
      BY <1>1, <2>2
      DEF PushWrite, TypeOK, HandlerSends, Continues, tableVars, readerVars, brokerVars
    <2>4. IdsAreAsks'
      BY <1>1, <2>2 DEF PushWrite, IdsAreAsks, tableVars, brokerVars
    <2>5. TableIsOfCalls' /\ PendingIsCall' /\ OwnAnswer'
      BY <1>1
      DEF PushWrite, Continues, TableIsOfCalls, PendingIsCall, OwnAnswer, InCall, tableVars
    <2> QED
      BY <2>3, <2>4, <2>5
  <1>2. CASE PushFails \/ Answered \/ Timeout
    <2>1. TypeOK' /\ HandlerSends'
      <3>1. NoMessage \in Message
        BY DEF NoMessage, Message
      <3>2. /\ slot' = NoMessage /\ caller' \in {"select", "handling"}
            /\ pending' \subseteq pending
        BY <1>2 DEF PushFails, Answered, Timeout, Continues
      <3>3. toSend' \in Nat /\ HandlerSends'
        BY <1>2 DEF PushFails, Answered, Timeout, Continues, HandlerSends, TypeOK
      <3>4. /\ asks' = asks /\ call' = call /\ last' = last /\ nextId' = nextId
            /\ UNCHANGED <<writerVars, readerVars, brokerVars>>
        BY <1>2 DEF PushFails, Answered, Timeout
      <3> QED
        BY <3>1, <3>2, <3>3, <3>4 DEF TypeOK, writerVars, readerVars, brokerVars
    <2>2. IdsAreAsks'
      BY <1>2 DEF PushFails, Answered, Timeout, IdsAreAsks, writerVars, brokerVars
    <2>3. slot' = NoMessage /\ caller' \in {"select", "handling"}
      BY <1>2 DEF PushFails, Answered, Timeout, Continues
    <2>4. OwnAnswer' /\ TableIsOfCalls'
      <3>1. pending' \subseteq pending /\ asks' = asks /\ call' = call
        BY <1>2 DEF PushFails, Answered, Timeout
      <3> QED
        BY <2>3, <3>1 DEF TableIsOfCalls, OwnAnswer, InCall
    <2>5. writer = "running" => pending' = {}
      <3>1. CASE PushFails
        BY <3>1 DEF PushFails
      <3>2. CASE Answered
        BY <3>2 DEF Answered, PendingIsCall, TableIsOfCalls, InCall
      <3>3. CASE Timeout
        BY <3>3 DEF Timeout, PendingIsCall, InCall
      <3> QED
        BY <1>2, <3>1, <3>2, <3>3
    <2>6. PendingIsCall'
      BY <1>2, <2>3, <2>5
      DEF PushFails, Answered, Timeout, PendingIsCall, InCall, writerVars
    <2> QED
      BY <2>1, <2>2, <2>4, <2>6
  <1>3. CASE Recv
    <2>1. Head(rawQ) \in Message /\ Tail(rawQ) \in Seq(Message)
      BY <1>3, HeadTailProperties DEF Recv, TypeOK
    <2>2. last' \in Nat /\ rawQ' \in Seq(Message)
      BY <1>3, <2>1 DEF Recv, Message
    <2>5. PICK n \in 0..HandlerAsks :
            toSend' = n /\ caller' = IF n > 0 THEN "handling" ELSE "select"
      BY <1>3 DEF Recv
    <2>6. TypeOK' /\ HandlerSends'
      BY <1>3, <2>2, <2>5, HandlerAssumption
      DEF Recv, TypeOK, HandlerSends, tableVars, writerVars, brokerVars
    <2>3. IdsAreAsks'
      BY <1>3 DEF Recv, IdsAreAsks, tableVars, writerVars, brokerVars
    <2>4. TableIsOfCalls' /\ PendingIsCall' /\ OwnAnswer'
      BY <1>3
      DEF Recv, TableIsOfCalls, PendingIsCall, OwnAnswer, InCall, tableVars, writerVars
    <2> QED
      BY <2>6, <2>3, <2>4
  <1>4. CASE Disconnect
    <2>1. TypeOK' /\ HandlerSends'
      BY <1>4
      DEF Disconnect, TypeOK, HandlerSends, writerVars, readerVars, brokerVars
    <2>2. IdsAreAsks' /\ TableIsOfCalls' /\ PendingIsCall' /\ OwnAnswer'
      BY <1>4
      DEF Disconnect, IdsAreAsks, TableIsOfCalls, PendingIsCall, OwnAnswer, InCall,
          writerVars, brokerVars
    <2> QED
      BY <2>1, <2>2
  <1> QED
    BY <1>1, <1>2, <1>3, <1>4

\* The write task moves requests to the broker or drops them.
LEMMA WriterStep ==
  ASSUME IInv, Write \/ WriteFails
  PROVE  IInv'
  <1> USE DEF IInv
  <1>1. CASE Write
    <2>1. /\ Head(writeQ) \in OwnRequests /\ Tail(writeQ) \in Seq(OwnRequests)
          /\ Head(writeQ) \in Request /\ Tail(writeQ) \in Seq(Request)
      BY <1>1, HeadTailProperties DEF Write, IdsAreAsks, TypeOK
    <2>2. TypeOK' /\ HandlerSends'
      BY <1>1, <2>1
      DEF Write, TypeOK, HandlerSends, executorVars, tableVars, readerVars
    <2>3. IdsAreAsks'
      BY <1>1, <2>1 DEF Write, IdsAreAsks, executorVars, tableVars
    <2>4. TableIsOfCalls' /\ PendingIsCall' /\ OwnAnswer'
      BY <1>1
      DEF Write, TableIsOfCalls, PendingIsCall, OwnAnswer, InCall, executorVars,
          tableVars
    <2> QED
      BY <2>2, <2>3, <2>4
  <1>2. CASE WriteFails
    <2>1. << >> \in Seq(Request) /\ << >> \in Seq(OwnRequests)
      BY EmptySeq
    <2>2. TypeOK' /\ HandlerSends' /\ IdsAreAsks'
      BY <1>2, <2>1
      DEF WriteFails, TypeOK, HandlerSends, IdsAreAsks, executorVars, tableVars,
          readerVars, brokerVars
    <2>3. TableIsOfCalls' /\ PendingIsCall' /\ OwnAnswer'
      BY <1>2
      DEF WriteFails, TableIsOfCalls, PendingIsCall, OwnAnswer, InCall, executorVars,
          tableVars
    <2> QED
      BY <2>2, <2>3
  <1> QED
    BY <1>1, <1>2

\* The read task: an answer whose identifier is pending is that call's.
LEMMA ReaderStep ==
  ASSUME IInv, Read \/ Push \/ ReaderEnds
  PROVE  IInv'
  <1> USE DEF IInv
  <1>1. CASE Read
    <2> DEFINE m == Head(wire)
    <2>1. /\ m \in OwnMessages /\ m \in Message
          /\ Tail(wire) \in Seq(OwnMessages) /\ Tail(wire) \in Seq(Message)
      BY <1>1, HeadTailProperties DEF Read, IdsAreAsks, TypeOK
    <2> HIDE DEF m
    <2>2. /\ wire' = Tail(wire)
          /\ \/ /\ m.re \in pending /\ pending' = pending \ {m.re}
                /\ slot' = IF m.re = call.id /\ InCall THEN m ELSE slot
                /\ held' = held
             \/ m.re \notin pending /\ held' = m /\ pending' = pending /\ slot' = slot
      BY <1>1 DEF Read, m, InCall
    <2>3. /\ UNCHANGED executorVars /\ nextId' = nextId /\ UNCHANGED writerVars
          /\ rawQ' = rawQ /\ reader' = reader /\ link' = link /\ asked' = asked
          /\ sent' = sent
      BY <1>1 DEF Read
    <2>4. TypeOK' /\ HandlerSends'
      BY <2>1, <2>2, <2>3 DEF TypeOK, HandlerSends, executorVars, writerVars
    <2>5. IdsAreAsks'
      BY <2>1, <2>2, <2>3 DEF IdsAreAsks, executorVars, writerVars
    <2>6. TableIsOfCalls' /\ OwnAnswer'
      BY <2>1, <2>2, <2>3
      DEF TableIsOfCalls, OwnAnswer, InCall, IdsAreAsks, OwnMessages, OwnRequests,
          executorVars
    <2>7. PendingIsCall'
      BY <2>2, <2>3 DEF PendingIsCall, InCall, executorVars, writerVars
    <2> QED
      BY <2>4, <2>5, <2>6, <2>7
  <1>2. CASE Push \/ ReaderEnds
    <2>1. rawQ' \in Seq(Message) /\ held' \in Message
      <3>1. CASE Push
        BY <3>1 DEF Push, TypeOK, NoMessage, Message
      <3>2. CASE ReaderEnds
        BY <3>2 DEF ReaderEnds, TypeOK
      <3> QED
        BY <1>2, <3>1, <3>2
    <2>2. TypeOK' /\ HandlerSends' /\ IdsAreAsks'
      BY <1>2, <2>1
      DEF Push, ReaderEnds, TypeOK, HandlerSends, IdsAreAsks, executorVars,
          tableVars, writerVars, brokerVars
    <2>3. TableIsOfCalls' /\ PendingIsCall' /\ OwnAnswer'
      BY <1>2
      DEF Push, ReaderEnds, TableIsOfCalls, PendingIsCall, OwnAnswer, InCall,
          executorVars, tableVars, writerVars
    <2> QED
      BY <2>2, <2>3
  <1> QED
    BY <1>1, <1>2

\* The broker repeats the identifier of a request that reached it, and a broken
\* connection keeps the front of what was on its way.
LEMMA BrokerStep ==
  ASSUME IInv, BrokerSends \/ LinkDown
  PROVE  IInv'
  <1> USE DEF IInv
  <1>1. CASE BrokerSends
    <2>1. PICK r \in asked :
            /\ wire' = Append(wire, [re |-> r.id, ask |-> r.ask, no |-> sent + 1])
            /\ asked' = IF r.rpc THEN asked \ {r} ELSE asked
      BY <1>1 DEF BrokerSends
    <2>2. [re |-> r.id, ask |-> r.ask, no |-> sent + 1] \in OwnMessages
          /\ [re |-> r.id, ask |-> r.ask, no |-> sent + 1] \in Message
      BY DEF OwnMessages, OwnRequests, Message, Request, IdsAreAsks, TypeOK
    <2>3. wire' \in Seq(OwnMessages) /\ wire' \in Seq(Message)
      BY <2>1, <2>2 DEF IdsAreAsks, TypeOK
    <2>4. TypeOK' /\ HandlerSends' /\ IdsAreAsks'
      BY <1>1, <2>1, <2>3
      DEF BrokerSends, TypeOK, HandlerSends, IdsAreAsks, executorVars, tableVars,
          writerVars, readerVars
    <2>5. TableIsOfCalls' /\ PendingIsCall' /\ OwnAnswer'
      BY <1>1
      DEF BrokerSends, TableIsOfCalls, PendingIsCall, OwnAnswer, InCall,
          executorVars, tableVars, writerVars
    <2> QED
      BY <2>4, <2>5
  <1>2. CASE LinkDown
    <2>1. PICK n \in 0..Len(wire) : wire' = SubSeq(wire, 1, n)
      BY <1>2 DEF LinkDown
    <2>2. \A i \in 1..n : wire[i] \in OwnMessages /\ wire[i] \in Message
      BY ElementOfSeq DEF IdsAreAsks, TypeOK
    <2>3. wire' \in Seq(OwnMessages)
      BY <2>1, <2>2, SubSeqProperties
    <2>4. wire' \in Seq(Message)
      BY <2>3, SeqMonotonic DEF OwnMessages
    <2>5. TypeOK' /\ HandlerSends' /\ IdsAreAsks'
      BY <1>2, <2>3, <2>4
      DEF LinkDown, TypeOK, HandlerSends, IdsAreAsks, executorVars, tableVars,
          writerVars, readerVars
    <2>6. TableIsOfCalls' /\ PendingIsCall' /\ OwnAnswer'
      BY <1>2
      DEF LinkDown, TableIsOfCalls, PendingIsCall, OwnAnswer, InCall,
          executorVars, tableVars, writerVars
    <2> QED
      BY <2>5, <2>6
  <1> QED
    BY <1>1, <1>2

\* The initial state satisfies the inductive invariant.
LEMMA InitIInv == Init => IInv
  <1> SUFFICES ASSUME Init PROVE IInv
    OBVIOUS
  <1>1. \A S : << >> \in Seq(S)
    BY EmptySeq
  <1>2. TypeOK /\ HandlerSends
    BY <1>1, BoundsAssumption
    DEF Init, TypeOK, HandlerSends, NoCall, NoMessage, Request, Message
  <1>3. IdsAreAsks
    BY <1>1 DEF Init, IdsAreAsks, NoCall, OwnRequests, Request
  <1>4. TableIsOfCalls /\ PendingIsCall /\ OwnAnswer
    BY DEF Init, TableIsOfCalls, PendingIsCall, OwnAnswer, InCall
  <1> QED
    BY <1>2, <1>3, <1>4 DEF IInv

\* The inductive invariant holds in every reachable state.
THEOREM RouterInductive == Spec => []IInv
  <1>1. IInv /\ [Next]_vars => IInv'
    <2> SUFFICES ASSUME IInv, [Next]_vars PROVE IInv'
      OBVIOUS
    <2>1. CASE UNCHANGED vars
      BY <2>1
      DEF vars, executorVars, tableVars, writerVars, readerVars, brokerVars, IInv,
          TypeOK, HandlerSends, IdsAreAsks, TableIsOfCalls, PendingIsCall,
          OwnAnswer, InCall
    <2> QED
      BY <2>1, StartStep, ExecutorStep, WriterStep, ReaderStep, BrokerStep
      DEF Next, Terminated
  <1> QED
    BY <1>1, InitIInv, PTL DEF Spec

\* The table of pending RPCs holds at most the call in progress while requests
\* can be written, and nothing once the connection is closed.
THEOREM TableIsBounded == Spec => []PendingIsCall
  <1>1. IInv => PendingIsCall
    BY DEF IInv
  <1> QED
    BY <1>1, RouterInductive, PTL

\* No call gets the answer of another one, however late that comes.
THEOREM AnswersAreOwn == Spec => []OwnAnswer
  <1>1. IInv => OwnAnswer
    BY DEF IInv
  <1> QED
    BY <1>1, RouterInductive, PTL

-------------------------------------------------------------------------------
(* Messages reach the select loop in order *)

\* Taking the head of an ascending queue leaves messages that follow it.
LEMMA TailFollows ==
  ASSUME NEW q \in Seq(Message), q # << >>, Ascending(q)
  PROVE  /\ Ascending(Tail(q)) /\ Follow(Head(q).no, Tail(q))
         /\ \A i \in DOMAIN Tail(q) : i + 1 \in DOMAIN q /\ Tail(q)[i] = q[i + 1]
         /\ 1 \in DOMAIN q /\ Head(q) = q[1]
  <1>1. /\ 1 \in DOMAIN q /\ Head(q) = q[1] /\ DOMAIN q = 1..Len(q) /\ Len(q) \in Nat
        /\ DOMAIN Tail(q) = 1..Len(q) - 1
        /\ \A i \in 1..Len(q) - 1 : Tail(q)[i] = q[i + 1]
    BY LenProperties, HeadTailProperties, EmptySeq
  <1>2. \A i \in DOMAIN Tail(q) : i + 1 \in DOMAIN q /\ Tail(q)[i] = q[i + 1]
    BY <1>1
  <1>3. Ascending(Tail(q))
    BY <1>1, <1>2 DEF Ascending
  <1>4. Follow(Head(q).no, Tail(q))
    BY <1>1, <1>2 DEF Ascending, Follow
  <1> QED
    BY <1>1, <1>2, <1>3, <1>4

\* A message after all of an ascending queue keeps it ascending.
LEMMA AppendFollows ==
  ASSUME NEW q \in Seq(Message), NEW m \in Message, Ascending(q),
         \A i \in DOMAIN q : q[i].no < m.no
  PROVE  /\ Ascending(Append(q, m))
         /\ \A i \in DOMAIN Append(q, m) :
              \/ i \in DOMAIN q /\ Append(q, m)[i] = q[i]
              \/ i = Len(q) + 1 /\ Append(q, m)[i] = m
  <1>1. /\ Len(q) \in Nat /\ DOMAIN q = 1..Len(q)
        /\ DOMAIN Append(q, m) = 1..Len(q) + 1
        /\ \A i \in 1..Len(q) : Append(q, m)[i] = q[i]
        /\ Append(q, m)[Len(q) + 1] = m
    BY LenProperties, AppendProperties
  <1>2. \A i \in DOMAIN Append(q, m) :
              \/ i \in DOMAIN q /\ Append(q, m)[i] = q[i]
              \/ i = Len(q) + 1 /\ Append(q, m)[i] = m
    BY <1>1
  <1>3. Ascending(Append(q, m))
    BY <1>1, <1>2 DEF Ascending
  <1> QED
    BY <1>2, <1>3

\* Every step keeps the order: it moves a message from the front of one place
\* to the end of the next, drops it, or adds the newest one at the end.
LEMMA SequenceStep ==
  ASSUME TypeOK, InSequence, [Next]_vars
  PROVE  InSequence' /\ (last' # last => last' > last)
  <1>t. /\ last \in Nat /\ sent \in Nat /\ held \in Message
        /\ rawQ \in Seq(Message) /\ wire \in Seq(Message)
    BY DEF TypeOK
  <1>m. \A m \in Message : m.no \in Nat
    BY DEF Message
  <1>n. /\ DOMAIN rawQ = 1..Len(rawQ) /\ Len(rawQ) \in Nat
        /\ DOMAIN wire = 1..Len(wire) /\ Len(wire) \in Nat
        /\ \A i \in DOMAIN rawQ : rawQ[i] \in Message
        /\ \A i \in DOMAIN wire : wire[i] \in Message
    BY <1>t, LenProperties, ElementOfSeq
  <1>0. CASE UNCHANGED <<last, sent, held, rawQ, wire>>
    BY <1>0 DEF InSequence, Follow, Ascending
  <1>1. CASE Recv
    <2>1. /\ rawQ # << >> /\ last' = Head(rawQ).no /\ rawQ' = Tail(rawQ)
          /\ UNCHANGED <<sent, held, wire>>
      BY <1>1 DEF Recv, brokerVars
    <2>2. /\ Ascending(rawQ') /\ Follow(last', rawQ')
          /\ \A i \in DOMAIN rawQ' : i + 1 \in DOMAIN rawQ /\ rawQ'[i] = rawQ[i + 1]
          /\ 1 \in DOMAIN rawQ /\ last' = rawQ[1].no
      BY <1>t, <2>1, TailFollows DEF InSequence
    <2>3. last' > last
      BY <1>t, <1>m, <1>n, <2>2 DEF InSequence, Follow
    <2>4. InSequence'
      BY <1>t, <2>1, <2>2 DEF InSequence, Follow, Ascending
    <2> QED
      BY <2>3, <2>4
  <1>2. CASE Read
    <2> DEFINE m == Head(wire)
    <2>1. /\ wire # << >> /\ wire' = Tail(wire) /\ held = NoMessage
          /\ held' \in {NoMessage, m}
          /\ UNCHANGED <<last, sent, rawQ>>
      BY <1>2 DEF Read, executorVars
    <2>2. /\ Ascending(wire') /\ Follow(m.no, wire')
          /\ \A i \in DOMAIN wire' : i + 1 \in DOMAIN wire /\ wire'[i] = wire[i + 1]
          /\ 1 \in DOMAIN wire /\ m = wire[1]
      BY <1>t, <2>1, TailFollows DEF InSequence
    <2> HIDE DEF m
    <2>3. InSequence'
      BY <2>1, <2>2 DEF InSequence, Follow, Ascending
    <2> QED
      BY <2>1, <2>3
  <1>3. CASE Push
    <2>1. /\ held # NoMessage /\ held' = NoMessage /\ rawQ' = Append(rawQ, held)
          /\ UNCHANGED <<last, sent, wire>>
      BY <1>3 DEF Push, executorVars, brokerVars
    <2>2. /\ Ascending(rawQ')
          /\ \A i \in DOMAIN rawQ' : \/ i \in DOMAIN rawQ /\ rawQ'[i] = rawQ[i]
                                     \/ rawQ'[i] = held
      BY <1>t, <2>1, AppendFollows DEF InSequence
    <2>3. InSequence'
      BY <2>1, <2>2 DEF InSequence, Follow
    <2> QED
      BY <2>1, <2>3
  <1>4. CASE BrokerSends
    <2>1. PICK r \in asked : wire' = Append(wire, [re |-> r.id, ask |-> r.ask, no |-> sent + 1])
      BY <1>4 DEF BrokerSends
    <2> DEFINE m == [re |-> r.id, ask |-> r.ask, no |-> sent + 1]
    <2>2. m \in Message /\ m.no = sent + 1
      BY <1>t DEF Message, Request, TypeOK
    <2> HIDE DEF m
    <2>3. wire' = Append(wire, m) /\ sent' = sent + 1 /\ UNCHANGED <<last, held, rawQ>>
      BY <1>4, <2>1 DEF BrokerSends, executorVars, readerVars, m
    <2>4. \A i \in DOMAIN wire : wire[i].no < m.no
      BY <1>t, <1>m, <1>n, <2>2 DEF InSequence
    <2>5. /\ Ascending(wire')
          /\ \A i \in DOMAIN wire' : \/ i \in DOMAIN wire /\ wire'[i] = wire[i]
                                     \/ wire'[i] = m
      BY <1>t, <2>2, <2>3, <2>4, AppendFollows DEF InSequence
    <2>6. /\ last < m.no /\ m.no <= sent'
          /\ \A i \in DOMAIN rawQ : rawQ[i].no < m.no /\ rawQ[i].no <= sent'
          /\ held # NoMessage => held.no < m.no /\ held.no <= sent'
          /\ \A i \in DOMAIN wire : wire[i].no <= sent'
          /\ last <= sent'
      <3>1. /\ held.no \in Nat /\ m.no \in Nat
            /\ \A i \in DOMAIN rawQ : rawQ[i].no \in Nat
            /\ \A i \in DOMAIN wire : wire[i].no \in Nat
        BY <1>t, <1>m, <1>n, <2>2
      <3>2. /\ last <= sent
            /\ \A i \in DOMAIN rawQ : rawQ[i].no <= sent
            /\ \A i \in DOMAIN wire : wire[i].no <= sent
            /\ held # NoMessage => held.no <= sent
        BY DEF InSequence
      <3>3. sent' = sent + 1 /\ m.no = sent + 1 /\ last <= sent
        BY <2>2, <2>3, <3>2
      <3>4. \A i \in DOMAIN rawQ : rawQ[i].no < m.no /\ rawQ[i].no <= sent'
        BY <1>t, <3>1, <3>2, <3>3
      <3>5. held # NoMessage => held.no < m.no /\ held.no <= sent'
        BY <1>t, <3>1, <3>2, <3>3
      <3>6. \A i \in DOMAIN wire : wire[i].no <= sent'
        BY <1>t, <3>1, <3>2, <3>3
      <3> QED
        BY <1>t, <3>3, <3>4, <3>5, <3>6
    <2>7. \A i \in DOMAIN wire' : wire'[i].no <= sent'
      BY <2>5, <2>6
    <2>8. /\ Follow(last, wire')
          /\ \A i \in DOMAIN rawQ : Follow(rawQ[i].no, wire')
          /\ held # NoMessage => Follow(held.no, wire')
      BY <2>5, <2>6 DEF InSequence, Follow
    <2>9. InSequence'
      BY <2>3, <2>5, <2>6, <2>7, <2>8 DEF InSequence, Follow, Ascending
    <2> QED
      BY <2>3, <2>9
  <1>5. CASE LinkDown
    <2>1. PICK n \in 0..Len(wire) : wire' = SubSeq(wire, 1, n)
      BY <1>5 DEF LinkDown
    <2>2. \A i \in DOMAIN wire' : i \in DOMAIN wire /\ wire'[i] = wire[i]
      BY <1>t, <1>n, <2>1, SubSeqProperties
    <2>3. UNCHANGED <<last, sent, held, rawQ>>
      BY <1>5 DEF LinkDown, executorVars, readerVars
    <2>4. InSequence'
      BY <2>2, <2>3 DEF InSequence, Follow, Ascending
    <2> QED
      BY <2>3, <2>4
  <1>6. CASE \/ HandlerStarts \/ TimerStarts \/ PushWrite \/ PushFails \/ Answered
             \/ Timeout \/ Disconnect \/ Write \/ WriteFails \/ ReaderEnds
             \/ Terminated \/ UNCHANGED vars
    BY <1>6, <1>0
    DEF HandlerStarts, TimerStarts, Start, PushWrite, PushFails, Answered, Timeout,
        Disconnect, Write, WriteFails, ReaderEnds, Terminated, vars, executorVars,
        tableVars, writerVars, readerVars, brokerVars
  <1> QED
    BY <1>0, <1>1, <1>2, <1>3, <1>4, <1>5, <1>6 DEF Next

\* The select loop sees the broker's messages in the order they were sent, each
\* at most once: neither the table of pending calls nor the wait for room in the
\* raw channel lets one overtake another.
THEOREM MessagesInOrder == Spec => InOrder
  <1>1. Init => InSequence
    BY DEF Init, InSequence, Follow, Ascending, NoMessage
  <1>2. IInv /\ InSequence /\ [Next]_vars => InSequence' /\ (last' # last => last' > last)
    BY SequenceStep DEF IInv
  <1>3. IInv /\ InSequence /\ [Next]_vars => [last' # last => last' > last]_vars
    BY <1>2
  <1> QED
    BY <1>1, <1>2, <1>3, RouterInductive, PTL DEF Spec, InOrder
===============================================================================
