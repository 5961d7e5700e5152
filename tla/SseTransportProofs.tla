-------------------------- MODULE SseTransportProofs --------------------------
(***************************************************************************)
(* Proofs about SseTransport, for any number of messages in either         *)
(* direction and all timeouts.                                             *)
(***************************************************************************)
EXTENDS SseTransport, TLAPS

Messages == 1 .. Events
AllEvents == {Endpoint, Bad, End} \cup Messages

\* The messages the worker is done with: skipped before the endpoint event, or given
\* to the handler.
Done == skipped + Len(inbox)

IsMessage(i) == stream[i] \in Messages

-----------------------------------------------------------------------------
\* The inductive invariant.

\* A POST is under way for the last message taken; all before it have been accepted.
PostInv ==
  /\ post # "none" => phase \in {"init", "initialized", "main"}
  /\ post = "sent" => Len(served) = taken - 1
  /\ post = "accepted" => Len(served) = taken
  /\ post = "none" /\ phase # "ended" => Len(served) = taken

\* The stream continues where the worker is, has no gap, and ends where the server is.
StreamInv ==
  /\ \A i \in 1 .. Len(stream) :
        IsMessage(i) /\ (\A j \in 1 .. (i - 1) : ~ IsMessage(j)) => stream[i] = Done + 1
  /\ \A i, j \in 1 .. Len(stream) :
        /\ i < j /\ IsMessage(i) /\ IsMessage(j)
        /\ \A k \in (i + 1) .. (j - 1) : ~ IsMessage(k)
        => stream[j] = stream[i] + 1
  /\ \A i \in 1 .. Len(stream) :
        IsMessage(i) /\ (\A j \in (i + 1) .. Len(stream) : ~ IsMessage(j)) => stream[i] = emitted
  /\ (\A i \in 1 .. Len(stream) : ~ IsMessage(i)) => emitted = Done

\* Nothing in the stream is ahead of the server, and the handler gets nothing before
\* the endpoint event.
BoundsInv ==
  /\ \A i \in 1 .. Len(stream) : IsMessage(i) => stream[i] <= emitted
  /\ phase \in {"connect", "endpoint"} => inbox = <<>>

IInv == TypeOK /\ PostInv /\ StreamInv /\ BoundsInv /\ PostedInOrder /\ ReceivedInOrder

-----------------------------------------------------------------------------
\* Lemmas about the stream.

\* The worker takes the first event.
LEMMA TakeEvent ==
  ASSUME TypeOK, StreamInv, stream # <<>>,
         \A i \in 1 .. Len(stream) : IsMessage(i) => stream[i] <= emitted,
         stream' = Tail(stream), emitted' = emitted,
         Done' = IF IsMessage(1) THEN Done + 1 ELSE Done
  PROVE  /\ StreamInv'
         /\ (\A i \in 1 .. Len(stream) : IsMessage(i) => stream[i] <= emitted)'
         /\ IsMessage(1) => stream[1] = Done + 1 /\ Done + 1 <= emitted
         /\ stream' \in Seq(AllEvents)
<1> DEFINE n == Len(stream)
<1>1. /\ stream \in Seq(AllEvents) /\ n \in Nat \ {0}
      /\ Len(stream') = n - 1 /\ stream' \in Seq(AllEvents)
      /\ \A i \in 1 .. (n - 1) : stream'[i] = stream[i + 1]
  <2>1. stream \in Seq(AllEvents)
    BY DEF TypeOK, AllEvents, Messages
  <2>2. QED
    BY <2>1
<1>2. \A i \in 1 .. (n - 1) : IsMessage(i)' <=> IsMessage(i + 1)
  BY <1>1 DEF IsMessage, Messages
<1>3. IsMessage(1) => stream[1] = Done + 1 /\ Done + 1 <= emitted
  BY <1>1 DEF StreamInv
<1>4. ASSUME NEW i \in 1 .. (n - 1), IsMessage(i)', \A j \in 1 .. (i - 1) : ~ IsMessage(j)'
      PROVE  stream'[i] = Done' + 1
  <2>1. IsMessage(i + 1) /\ \A j \in 2 .. i : ~ IsMessage(j)
    <3>1. ASSUME NEW j \in 2 .. i PROVE ~ IsMessage(j)
      <4>1. j - 1 \in 1 .. (i - 1) /\ j - 1 \in 1 .. (n - 1) /\ (j - 1) + 1 = j
        BY <1>1
      <4>2. QED
        BY <4>1, <1>2, <1>4
    <3>2. QED
      BY <3>1, <1>2, <1>4
  <2>2. CASE IsMessage(1)
    <3>1. stream[i + 1] = stream[1] + 1
      BY <1>1, <2>1, <2>2 DEF StreamInv
    <3>2. QED
      BY <3>1, <1>1, <1>3, <2>2
  <2>3. CASE ~ IsMessage(1)
    <3>1. \A j \in 1 .. ((i + 1) - 1) : ~ IsMessage(j)
      BY <2>1, <2>3
    <3>2. stream[i + 1] = Done + 1
      BY <3>1, <1>1, <2>1 DEF StreamInv
    <3>3. QED
      BY <3>2, <1>1, <2>3
  <2>4. QED
    BY <2>2, <2>3
<1>5. ASSUME NEW i \in 1 .. (n - 1), NEW j \in 1 .. (n - 1), i < j,
             IsMessage(i)', IsMessage(j)', \A k \in (i + 1) .. (j - 1) : ~ IsMessage(k)'
      PROVE  stream'[j] = stream'[i] + 1
  <2>1. ASSUME NEW k \in (i + 2) .. j PROVE ~ IsMessage(k)
    <3>1. k - 1 \in (i + 1) .. (j - 1) /\ k - 1 \in 1 .. (n - 1) /\ (k - 1) + 1 = k
      BY <1>1
    <3>2. QED
      BY <3>1, <1>2, <1>5
  <2>2. stream[j + 1] = stream[i + 1] + 1
    <3>1. i + 1 \in 1 .. n /\ j + 1 \in 1 .. n /\ i + 1 < j + 1
      BY <1>1, <1>5
    <3>2. \A k \in ((i + 1) + 1) .. ((j + 1) - 1) : ~ IsMessage(k)
      BY <2>1
    <3>3. QED
      BY <3>1, <3>2, <1>2, <1>5 DEF StreamInv
  <2>3. QED
    BY <2>2, <1>1
<1>6. ASSUME NEW i \in 1 .. (n - 1), IsMessage(i)',
             \A j \in (i + 1) .. (n - 1) : ~ IsMessage(j)'
      PROVE  stream'[i] = emitted
  <2>1. ASSUME NEW j \in ((i + 1) + 1) .. n PROVE ~ IsMessage(j)
    <3>1. j - 1 \in (i + 1) .. (n - 1) /\ j - 1 \in 1 .. (n - 1) /\ (j - 1) + 1 = j
      BY <1>1
    <3>2. QED
      BY <3>1, <1>2, <1>6
  <2>2. QED
    BY <2>1, <1>1, <1>2, <1>6 DEF StreamInv
<1>7. ASSUME \A i \in 1 .. (n - 1) : ~ IsMessage(i)'
      PROVE  emitted = Done'
  <2>1. ASSUME NEW j \in 2 .. n PROVE ~ IsMessage(j)
    <3>1. j - 1 \in 1 .. (n - 1) /\ (j - 1) + 1 = j
      BY <1>1
    <3>2. QED
      BY <3>1, <1>2, <1>7
  <2>2. CASE IsMessage(1)
    BY <2>1, <2>2, <1>1, <1>3 DEF StreamInv
  <2>3. CASE ~ IsMessage(1)
    BY <2>1, <2>3, <1>1 DEF StreamInv
  <2>4. QED
    BY <2>2, <2>3
<1>8. StreamInv'
  BY <1>1, <1>4, <1>5, <1>6, <1>7 DEF StreamInv
<1>9. (\A i \in 1 .. Len(stream) : IsMessage(i) => stream[i] <= emitted)'
  BY <1>1, <1>2
<1> QED
  BY <1>1, <1>3, <1>8, <1>9

\* The server sends an event.
LEMMA AddEvent ==
  ASSUME TypeOK, StreamInv, NEW event \in AllEvents,
         \A i \in 1 .. Len(stream) : IsMessage(i) => stream[i] <= emitted,
         stream' = Append(stream, event), Done' = Done,
         emitted' = IF event \in Messages THEN emitted + 1 ELSE emitted,
         event \in Messages => event = emitted + 1
  PROVE  /\ StreamInv'
         /\ (\A i \in 1 .. Len(stream) : IsMessage(i) => stream[i] <= emitted)'
         /\ stream' \in Seq(AllEvents)
<1> DEFINE n == Len(stream)
<1>1. /\ stream \in Seq(AllEvents) /\ n \in Nat /\ emitted \in Nat /\ Done \in Nat
      /\ Len(stream') = n + 1 /\ stream' \in Seq(AllEvents)
      /\ \A i \in 1 .. n : stream'[i] = stream[i]
      /\ stream'[n + 1] = event
  <2>1. stream \in Seq(AllEvents)
    BY DEF TypeOK, AllEvents, Messages
  <2>2. emitted \in Nat /\ Done \in Nat
    <3>1. Events \in Nat
      BY SseConstants
    <3>2. emitted \in 0 .. Events /\ skipped \in 0 .. emitted /\ inbox \in Seq(1 .. Events)
      BY DEF TypeOK
    <3>3. emitted \in Nat /\ skipped \in Nat /\ Len(inbox) \in Nat
      BY <3>1, <3>2
    <3>4. QED
      BY <3>3 DEF Done
  <2>3. QED
    BY <2>1, <2>2
<1>2. /\ \A i \in 1 .. n : IsMessage(i)' <=> IsMessage(i)
      /\ \A i \in {n + 1} : IsMessage(i)' <=> event \in Messages
  <2>1. \A i \in 1 .. n : IsMessage(i)' <=> IsMessage(i)
    BY <1>1 DEF IsMessage, Messages
  <2>2. \A i \in {n + 1} : IsMessage(i)' <=> event \in Messages
    BY <1>1 DEF IsMessage, Messages
  <2>3. QED
    BY <2>1, <2>2
<1>3. ASSUME NEW i \in 1 .. (n + 1), IsMessage(i)', \A j \in 1 .. (i - 1) : ~ IsMessage(j)'
      PROVE  stream'[i] = Done + 1
  <2>1. \A j \in 1 .. (i - 1) : ~ IsMessage(j)
    BY <1>1, <1>2, <1>3
  <2>2. CASE i \in 1 .. n
    BY <2>1, <2>2, <1>1, <1>2, <1>3 DEF StreamInv
  <2>3. CASE i = n + 1
    <3>1. emitted = Done
      BY <2>1, <2>3, <1>1 DEF StreamInv
    <3>2. QED
      BY <3>1, <2>3, <1>1, <1>2, <1>3
  <2>4. QED
    BY <2>2, <2>3, <1>1
<1>4. ASSUME NEW i \in 1 .. (n + 1), NEW j \in 1 .. (n + 1), i < j,
             IsMessage(i)', IsMessage(j)', \A k \in (i + 1) .. (j - 1) : ~ IsMessage(k)'
      PROVE  stream'[j] = stream'[i] + 1
  <2>1. i \in 1 .. n /\ \A k \in (i + 1) .. (j - 1) : ~ IsMessage(k)
    BY <1>1, <1>2, <1>4
  <2>2. CASE j \in 1 .. n
    BY <2>1, <2>2, <1>1, <1>2, <1>4 DEF StreamInv
  <2>3. CASE j = n + 1
    <3>1. stream[i] = emitted
      BY <2>1, <2>3, <1>1, <1>2, <1>4 DEF StreamInv
    <3>2. QED
      BY <3>1, <2>1, <2>3, <1>1, <1>2, <1>4
  <2>4. QED
    BY <2>2, <2>3, <1>1
<1>5. ASSUME NEW i \in 1 .. (n + 1), IsMessage(i)',
             \A j \in (i + 1) .. (n + 1) : ~ IsMessage(j)'
      PROVE  stream'[i] = emitted'
  <2>1. CASE i = n + 1
    BY <2>1, <1>1, <1>2, <1>5
  <2>2. CASE i \in 1 .. n
    <3>1. event \notin Messages /\ \A j \in (i + 1) .. n : ~ IsMessage(j)
      BY <2>2, <1>1, <1>2, <1>5
    <3>2. QED
      BY <3>1, <2>2, <1>1, <1>2, <1>5 DEF StreamInv
  <2>3. QED
    BY <2>1, <2>2, <1>1
<1>6. ASSUME \A i \in 1 .. (n + 1) : ~ IsMessage(i)'
      PROVE  emitted' = Done
  BY <1>1, <1>2, <1>6 DEF StreamInv
<1>7. StreamInv'
  BY <1>1, <1>3, <1>4, <1>5, <1>6 DEF StreamInv
<1>8. ASSUME NEW i \in 1 .. (n + 1), IsMessage(i)'
      PROVE  stream'[i] <= emitted'
  <2>1. CASE i \in 1 .. n
    <3>1. stream[i] \in Messages /\ stream[i] <= emitted
      BY <2>1, <1>2, <1>8 DEF IsMessage
    <3>2. QED
      BY <3>1, <2>1, <1>1 DEF Messages
  <2>2. CASE i = n + 1
    BY <2>2, <1>1, <1>2, <1>8
  <2>3. QED
    BY <2>1, <2>2, <1>1
<1> QED
  BY <1>1, <1>7, <1>8 DEF IsMessage

-----------------------------------------------------------------------------
\* One step keeps the invariant.

LEMMA IInvInit == Init => IInv
<1> SUFFICES ASSUME Init PROVE IInv
  OBVIOUS
<1>1. Requests \in Nat /\ Events \in Nat /\ ConnectTimeout \in Nat /\ PostTimeout \in Nat
  BY SseConstants
<1>2. /\ phase = "connect" /\ post = "none"
      /\ age = 0 /\ postAge = 0 /\ outbox = 0 /\ taken = 0 /\ acked = 0
      /\ emitted = 0 /\ skipped = 0
  BY DEF Init
<1>3. served = <<>> /\ inbox = <<>> /\ stream = <<>>
  BY DEF Init
<1>4. TypeOK
  <2>1. served \in Seq(1 .. Requests) /\ inbox \in Seq(1 .. Events)
        /\ stream \in Seq({Endpoint, Bad, End} \cup 1 .. Events)
    BY <1>3
  <2>2. why = "none" /\ (phase = "ended") = (why # "none")
    BY DEF Init
  <2>3. /\ age \in 0 .. ConnectTimeout /\ postAge \in 0 .. PostTimeout
        /\ outbox \in 0 .. Requests /\ taken \in 0 .. outbox /\ acked \in 0 .. taken
        /\ emitted \in 0 .. Events /\ skipped \in 0 .. emitted
    BY <1>1, <1>2
  <2>4. cancelled \in BOOLEAN
    BY DEF Init
  <2>5. QED
    BY <2>1, <2>2, <2>3, <2>4, <1>2 DEF TypeOK, Phases
<1>5. PostInv
  BY <1>2, <1>3 DEF PostInv
<1>6. BoundsInv
  BY <1>3 DEF BoundsInv
<1>7. PostedInOrder /\ ReceivedInOrder
  BY <1>2, <1>3 DEF PostedInOrder, ReceivedInOrder
<1>8. StreamInv
  BY <1>2, <1>3 DEF StreamInv, IsMessage, Done
<1> QED
  BY <1>4, <1>5, <1>6, <1>7, <1>8 DEF IInv

\* What is sent keeps its order.
LEMMA PostNext ==
  ASSUME TypeOK, PostInv, PostedInOrder, [Next]_vars
  PROVE  PostInv' /\ PostedInOrder'
<1> USE DEF PostInv, PostedInOrder
<1>1. taken \in Nat /\ acked \in Nat /\ served \in Seq(1 .. Requests) /\ Len(served) \in Nat
  <2>1. /\ Requests \in Nat /\ outbox \in 0 .. Requests /\ taken \in 0 .. outbox
        /\ acked \in 0 .. taken /\ served \in Seq(1 .. Requests)
    BY SseConstants DEF TypeOK
  <2>2. QED
    BY <2>1
<1>2. CASE Expire
  BY <1>2, <1>1 DEF Expire, Quit
<1>3. CASE FindEndpoint
  BY <1>3, <1>1 DEF FindEndpoint, Quit
<1>4. CASE SendPost
  BY <1>4, <1>1 DEF SendPost
<1>5. CASE Receive
  BY <1>5, <1>1 DEF Receive, Quit
<1>6. CASE Cancelled
  BY <1>6, <1>1 DEF Cancelled, Quit
<1>7. ASSUME NEW reason \in {"timeout", "refused"}, PostFails(reason)
      PROVE  PostInv' /\ PostedInOrder'
  BY <1>7, <1>1 DEF PostFails, Quit
<1>8. CASE Accept
  <2>1. /\ Len(served') = Len(served) + 1 /\ served'[Len(served) + 1] = taken
        /\ \A i \in 1 .. Len(served) : served'[i] = served[i]
    BY <1>8, <1>1 DEF Accept
  <2>2. QED
    BY <2>1, <1>8, <1>1 DEF Accept, Live
<1>9. CASE PostDone
  BY <1>9, <1>1 DEF PostDone
<1>10. ASSUME NEW ok \in BOOLEAN, Connect(ok) PROVE PostInv' /\ PostedInOrder'
  BY <1>10, <1>1 DEF Connect, Quit
<1>11. CASE HandlerSends \/ Cancel \/ Tick
  BY <1>11, <1>1 DEF HandlerSends, Cancel, Tick
<1>12. ASSUME NEW e \in AllEvents, ServerSends(e) PROVE PostInv' /\ PostedInOrder'
  BY <1>12, <1>1 DEF ServerSends
<1>13. CASE UNCHANGED vars
  BY <1>13 DEF vars
<1> QED
  BY <1>2, <1>3, <1>4, <1>5, <1>6, <1>7, <1>8, <1>9, <1>10, <1>11, <1>12, <1>13
     DEF Next, Worker, AllEvents, Messages

\* What is received keeps its order.
LEMMA StreamNext ==
  ASSUME TypeOK, PostInv, StreamInv, BoundsInv, ReceivedInOrder, [Next]_vars
  PROVE  StreamInv' /\ BoundsInv' /\ ReceivedInOrder'
<1>1. /\ emitted \in Nat /\ skipped \in Nat /\ inbox \in Seq(1 .. Events)
      /\ Len(inbox) \in Nat /\ stream \in Seq(AllEvents) /\ Done \in Nat
  <2>1. /\ emitted \in 0 .. Events /\ skipped \in 0 .. emitted /\ inbox \in Seq(1 .. Events)
        /\ stream \in Seq(AllEvents) /\ Events \in Nat
    BY SseConstants DEF TypeOK, AllEvents, Messages
  <2>2. emitted \in Nat /\ skipped \in Nat /\ Len(inbox) \in Nat
    BY <2>1
  <2>3. QED
    BY <2>1, <2>2 DEF Done
<1>2. ASSUME UNCHANGED <<stream, emitted, skipped, inbox>>,
             phase' = phase \/ phase' \notin {"connect", "endpoint"} \/ phase = "connect"
      PROVE  StreamInv' /\ BoundsInv' /\ ReceivedInOrder'
  BY <1>2 DEF StreamInv, BoundsInv, ReceivedInOrder, IsMessage, Done
<1>3. CASE Expire \/ SendPost \/ Cancelled \/ Accept \/ HandlerSends \/ Cancel \/ Tick
  BY <1>2, <1>3 DEF Expire, SendPost, Cancelled, Accept, HandlerSends, Cancel, Tick, Quit
<1>4. ASSUME NEW reason \in {"timeout", "refused"}, PostFails(reason) PROVE StreamInv' /\ BoundsInv' /\ ReceivedInOrder'
  BY <1>2, <1>4 DEF PostFails, Quit
<1>5. CASE PostDone
  BY <1>2, <1>5 DEF PostDone
<1>6. ASSUME NEW ok \in BOOLEAN, Connect(ok) PROVE StreamInv' /\ BoundsInv' /\ ReceivedInOrder'
  BY <1>2, <1>6 DEF Connect, Quit
<1>7. CASE FindEndpoint
  <2>1. stream # <<>> /\ stream' = Tail(stream) /\ UNCHANGED <<emitted, inbox>>
    BY <1>7 DEF FindEndpoint
  <2>2. Head(stream) = stream[1] /\ stream[1] \in AllEvents
    BY <2>1, <1>1
  <2>3. skipped' = IF IsMessage(1) THEN skipped + 1 ELSE skipped
    BY <1>7, <2>2, EventsAreNoMessages
       DEF FindEndpoint, Quit, IsMessage, AllEvents, Messages
  <2>4. Done' = IF IsMessage(1) THEN Done + 1 ELSE Done
    BY <2>1, <2>3, <1>1 DEF Done
  <2>5. StreamInv' /\ (\A i \in 1 .. Len(stream) : IsMessage(i) => stream[i] <= emitted)'
    BY <2>1, <2>4, TakeEvent DEF BoundsInv
  <2>6. inbox' = <<>>
    BY <1>7, <2>1 DEF FindEndpoint, BoundsInv
  <2>7. QED
    BY <2>5, <2>6 DEF BoundsInv, ReceivedInOrder
<1>8. CASE Receive
  <2>1. /\ stream # <<>> /\ stream' = Tail(stream) /\ UNCHANGED <<emitted, skipped>>
        /\ phase' \notin {"connect", "endpoint"}
    BY <1>8 DEF Receive, Quit
  <2>2. Head(stream) = stream[1] /\ stream[1] \in AllEvents
    BY <2>1, <1>1
  <2>3. inbox' = IF IsMessage(1) THEN Append(inbox, stream[1]) ELSE inbox
    BY <1>8, <2>2, EventsAreNoMessages DEF Receive, Quit, IsMessage, AllEvents, Messages
  <2>4. IsMessage(1) => stream[1] \in 1 .. Events
    BY DEF IsMessage, Messages
  <2>5. Done' = IF IsMessage(1) THEN Done + 1 ELSE Done
    <3>1. Len(inbox') = IF IsMessage(1) THEN Len(inbox) + 1 ELSE Len(inbox)
      BY <2>3, <2>4, <1>1
    <3>2. QED
      BY <3>1, <2>1, <1>1 DEF Done
  <2>6. /\ StreamInv' /\ (\A i \in 1 .. Len(stream) : IsMessage(i) => stream[i] <= emitted)'
        /\ IsMessage(1) => stream[1] = Done + 1
    BY <2>1, <2>5, TakeEvent DEF BoundsInv
  <2>7. ReceivedInOrder'
    <3>1. CASE IsMessage(1)
      <4>1. /\ Len(inbox') = Len(inbox) + 1 /\ inbox'[Len(inbox) + 1] = skipped + Len(inbox) + 1
            /\ \A i \in 1 .. Len(inbox) : inbox'[i] = inbox[i]
        BY <3>1, <2>3, <2>4, <2>6, <1>1 DEF Done
      <4>2. ASSUME NEW i \in 1 .. (Len(inbox) + 1) PROVE inbox'[i] = skipped + i
        <5>1. CASE i \in 1 .. Len(inbox)
          BY <5>1, <4>1 DEF ReceivedInOrder
        <5>2. CASE i = Len(inbox) + 1
          BY <5>2, <4>1, <1>1
        <5>3. QED
          BY <5>1, <5>2, <1>1
      <4>3. QED
        BY <4>1, <4>2, <2>1 DEF ReceivedInOrder
    <3>2. CASE ~ IsMessage(1)
      BY <3>2, <2>1, <2>3 DEF ReceivedInOrder
    <3>3. QED
      BY <3>1, <3>2
  <2>8. QED
    BY <2>1, <2>6, <2>7 DEF BoundsInv
<1>9. ASSUME NEW e \in AllEvents, ServerSends(e) PROVE StreamInv' /\ BoundsInv' /\ ReceivedInOrder'
  <2>1. /\ stream' = Append(stream, e) /\ UNCHANGED <<phase, skipped, inbox>>
        /\ emitted' = IF e \in Messages THEN emitted + 1 ELSE emitted
        /\ e \in Messages => e = emitted + 1
    BY <1>9 DEF ServerSends, Messages
  <2>2. Done' = Done
    BY <2>1 DEF Done
  <2>3. StreamInv' /\ (\A i \in 1 .. Len(stream) : IsMessage(i) => stream[i] <= emitted)'
    BY <2>1, <2>2, AddEvent DEF BoundsInv
  <2>4. QED
    BY <2>1, <2>3 DEF BoundsInv, ReceivedInOrder
<1>10. CASE UNCHANGED vars
  BY <1>2, <1>10 DEF vars
<1> QED
  BY <1>3, <1>4, <1>5, <1>6, <1>7, <1>8, <1>9, <1>10 DEF Next, Worker, AllEvents, Messages

LEMMA TypeNext ==
  ASSUME TypeOK, PostInv, StreamInv, BoundsInv, [Next]_vars
  PROVE  TypeOK'
<1>1. /\ Requests \in Nat /\ Events \in Nat /\ ConnectTimeout \in Nat /\ PostTimeout \in Nat
  BY SseConstants
<1>2. /\ age \in 0 .. ConnectTimeout /\ postAge \in 0 .. PostTimeout
      /\ outbox \in 0 .. Requests /\ taken \in 0 .. outbox /\ acked \in 0 .. taken
      /\ emitted \in 0 .. Events /\ skipped \in 0 .. emitted
      /\ served \in Seq(1 .. Requests) /\ inbox \in Seq(1 .. Events)
      /\ stream \in Seq(AllEvents)
  BY DEF TypeOK, AllEvents, Messages
\* The parts of the type invariant, so that each step shows the ones it disturbs.
<1> DEFINE Control == /\ phase \in Phases /\ why \in {"none", "timeout", "refused", "stream",
                                                     "cancelled", "handler"}
                      /\ (phase = "ended") = (why # "none")
                      /\ post \in {"none", "sent", "accepted"} /\ cancelled \in BOOLEAN
           Times == age \in 0 .. ConnectTimeout /\ postAge \in 0 .. PostTimeout
           Sends == /\ outbox \in 0 .. Requests /\ taken \in 0 .. outbox
                    /\ acked \in 0 .. taken /\ served \in Seq(1 .. Requests)
           Events_ == /\ stream \in Seq({Endpoint, Bad, End} \cup 1 .. Events)
                      /\ emitted \in 0 .. Events /\ skipped \in 0 .. emitted
                      /\ inbox \in Seq(1 .. Events)
<1>3. Control /\ Times /\ Sends /\ Events_
  BY DEF TypeOK
<1>4. Control'
  BY <1>3 DEF Next, Worker, vars, Expire, FindEndpoint, SendPost, Receive, Cancelled, PostFails,
     Accept, PostDone, Connect, HandlerSends, Cancel, ServerSends, Tick, Quit, Live, Phases
<1>5. Times'
  <2>1. CASE SendPost
    BY <2>1, <1>1, <1>2 DEF SendPost
  <2>2. CASE Tick
    BY <2>2, <1>1, <1>2 DEF Tick
  <2>3. CASE UNCHANGED <<age, postAge>>
    BY <2>3, <1>2
  <2>4. QED
    BY <2>1, <2>2, <2>3 DEF Next, Worker, vars, Expire, FindEndpoint, Receive, Cancelled,
       PostFails, Accept, PostDone, Connect, HandlerSends, Cancel, ServerSends
<1>6. Sends'
  <2>1. CASE SendPost
    BY <2>1, <1>1, <1>2 DEF SendPost
  <2>2. CASE Accept
    <3>1. taken \in 1 .. Requests
      BY <2>2, <1>1, <1>2 DEF Accept, PostInv
    <3>2. QED
      BY <2>2, <3>1, <1>2 DEF Accept
  <2>3. CASE PostDone
    BY <2>3, <1>1, <1>2 DEF PostDone
  <2>4. CASE HandlerSends
    BY <2>4, <1>1, <1>2 DEF HandlerSends
  <2>5. CASE UNCHANGED <<outbox, taken, acked, served>>
    BY <2>5, <1>2
  <2>6. QED
    BY <2>1, <2>2, <2>3, <2>4, <2>5 DEF Next, Worker, vars, Expire, FindEndpoint, Receive,
       Cancelled, PostFails, Connect, Cancel, ServerSends, Tick
<1>7. Events_'
  <2>1. CASE FindEndpoint
    <3>1. stream # <<>> /\ stream' = Tail(stream) /\ UNCHANGED <<emitted, inbox>>
      BY <2>1 DEF FindEndpoint
    <3>2. Head(stream) = stream[1] /\ stream[1] \in AllEvents /\ stream' \in Seq(AllEvents)
          /\ 1 \in 1 .. Len(stream)
      BY <3>1, <1>2
    <3>3. skipped' = IF IsMessage(1) THEN skipped + 1 ELSE skipped
      BY <2>1, <3>2, EventsAreNoMessages DEF FindEndpoint, Quit, IsMessage, AllEvents, Messages
    <3>4. IsMessage(1) => stream[1] = skipped + 1 /\ stream[1] <= emitted
      <4>1. inbox = <<>> /\ Done = skipped
        BY <2>1, <1>1, <1>2 DEF FindEndpoint, BoundsInv, Done
      <4>2. QED
        BY <4>1, <3>2 DEF StreamInv, BoundsInv
    <3>5. skipped' \in 0 .. emitted
      BY <3>3, <3>4, <1>1, <1>2
    <3>6. QED
      BY <3>1, <3>2, <3>5, <1>2 DEF AllEvents, Messages
  <2>2. CASE Receive
    <3>1. stream # <<>> /\ stream' = Tail(stream) /\ UNCHANGED <<emitted, skipped>>
      BY <2>2 DEF Receive
    <3>2. Head(stream) \in AllEvents /\ stream' \in Seq(AllEvents)
      BY <3>1, <1>2
    <3>3. inbox' = inbox \/ (Head(stream) \in Messages /\ inbox' = Append(inbox, Head(stream)))
      BY <2>2, <3>2 DEF Receive, Quit, AllEvents
    <3>4. inbox' \in Seq(1 .. Events)
      <4>1. CASE inbox' = inbox
        BY <4>1, <1>2
      <4>2. CASE Head(stream) \in Messages /\ inbox' = Append(inbox, Head(stream))
        BY <4>2, <1>2 DEF Messages
      <4>3. QED
        BY <3>3, <4>1, <4>2
    <3>5. QED
      BY <3>1, <3>2, <3>4, <1>2 DEF AllEvents, Messages
  <2>3. ASSUME NEW e \in AllEvents, ServerSends(e) PROVE Events_'
    <3>1. stream' = Append(stream, e) /\ UNCHANGED <<skipped, inbox>>
      BY <2>3 DEF ServerSends
    <3>2. emitted' \in 0 .. Events /\ skipped \in 0 .. emitted'
      BY <2>3, <1>1, <1>2 DEF ServerSends
    <3>3. stream' \in Seq(AllEvents)
      BY <3>1, <1>2
    <3>4. QED
      BY <3>1, <3>2, <3>3, <1>2 DEF AllEvents, Messages
  <2>4. CASE UNCHANGED <<stream, emitted, skipped, inbox>>
    BY <2>4, <1>2 DEF AllEvents, Messages
  <2>5. QED
    BY <2>1, <2>2, <2>3, <2>4 DEF Next, Worker, vars, Expire, SendPost, Cancelled, PostFails,
       Accept, PostDone, Connect, HandlerSends, Cancel, Tick, AllEvents, Messages
<1> QED
  BY <1>4, <1>5, <1>6, <1>7 DEF TypeOK

\* The invariant is inductive.
LEMMA IInvNext == IInv /\ [Next]_vars => IInv'
  BY TypeNext, PostNext, StreamNext DEF IInv

THEOREM InductiveInvariant == Spec => []IInv
  BY IInvInit, IInvNext, PTL DEF Spec

-----------------------------------------------------------------------------
\* The theorems.

\* Every variable keeps its type, for any number of messages and all timeouts.
THEOREM TypeCorrect == Spec => []TypeOK
<1>1. IInv => TypeOK
  BY DEF IInv
<1>2. QED
  BY <1>1, InductiveInvariant, PTL

\* Whatever fails, the server accepts a prefix of the handler's messages, and all that
\* were acknowledged (post_message and ack_send).
THEOREM SendsKeepOrder == Spec => []PostedInOrder
<1>1. IInv => PostedInOrder
  BY DEF IInv
<1>2. QED
  BY <1>1, InductiveInvariant, PTL

\* What the handler gets is a contiguous part of what the server has sent, from the
\* first message after the endpoint event on (discover_endpoint,
\* next_json_message and the main loop read one stream).
THEOREM EventsKeepOrder == Spec => []ReceivedInOrder
<1>1. IInv => ReceivedInOrder
  BY DEF IInv
<1>2. QED
  BY <1>1, InductiveInvariant, PTL

-----------------------------------------------------------------------------
\* The worker is an ordered link.

\* Where the worker is tells what it has taken, acknowledged and received.
LinkInv ==
  /\ phase # "ended" /\ post = "none" => acked = taken
  /\ post # "none" => taken # 0 /\ acked = taken - 1
  /\ phase \in {"connect", "endpoint"} => taken = 0
  /\ phase = "init" => taken = IF post = "none" THEN 0 ELSE 1
  /\ phase \in {"answer", "initialized", "main"} => taken # 0
  /\ phase \in {"initialized", "main"} => inbox # <<>>

LEMMA Numbers ==
  ASSUME IInv
  PROVE  /\ outbox \in Nat /\ taken \in Nat /\ acked \in Nat
         /\ emitted \in Nat /\ skipped \in Nat
         /\ served \in Seq(1 .. Requests) /\ Len(served) \in Nat
         /\ inbox \in Seq(1 .. Events) /\ Len(inbox) \in Nat
         /\ stream \in Seq(AllEvents)
<1>1. TypeOK
  BY DEF IInv
<1>2. /\ outbox \in 0 .. Requests /\ taken \in 0 .. outbox /\ acked \in 0 .. taken
      /\ emitted \in 0 .. Events /\ skipped \in 0 .. emitted
      /\ Requests \in Nat /\ Events \in Nat
  BY <1>1, SseConstants DEF TypeOK
<1>3. outbox \in Nat /\ emitted \in Nat
  BY <1>2
<1>4. taken \in Nat /\ acked \in Nat /\ skipped \in Nat
  BY <1>2, <1>3
<1>5. /\ served \in Seq(1 .. Requests) /\ inbox \in Seq(1 .. Events)
      /\ stream \in Seq(AllEvents)
  BY <1>1 DEF TypeOK, AllEvents, Messages
<1> QED
  BY <1>3, <1>4, <1>5

\* A message that is received makes the inbox longer.
LEMMA InboxOfReceive ==
  ASSUME IInv, Receive
  PROVE  \/ inbox' = inbox /\ phase' \in {phase, "ended"}
         \/ /\ skipped + Len(inbox) < emitted
            /\ inbox' = Append(inbox, skipped + Len(inbox) + 1)
            /\ inbox' # <<>> /\ phase' \in {"initialized", "main"}
<1>1. stream # <<>> /\ stream \in Seq(AllEvents)
  BY Numbers DEF Receive
<1>2. Head(stream) = stream[1] /\ stream[1] \in AllEvents /\ 1 \in 1 .. Len(stream)
  BY <1>1
<1>3. CASE ~ IsMessage(1)
  BY <1>2, <1>3 DEF Receive, Quit, IsMessage, AllEvents, Messages
<1>4. CASE IsMessage(1)
  <2>1. /\ inbox' = Append(inbox, stream[1])
        /\ phase' \in {"initialized", "main"}
    BY <1>2, <1>4, EventsAreNoMessages DEF Receive, IsMessage, Messages
  <2>2. stream[1] = Done + 1 /\ stream[1] <= emitted
    BY <1>2, <1>4 DEF IInv, StreamInv, BoundsInv
  <2>3. stream[1] = skipped + Len(inbox) + 1 /\ skipped + Len(inbox) < emitted
    <3>1. skipped \in Nat /\ Len(inbox) \in Nat /\ emitted \in Nat
      BY Numbers
    <3>2. QED
      BY <2>2, <3>1 DEF Done
  <2>4. stream[1] \in 1 .. Events
    BY <1>4 DEF IsMessage, Messages
  <2>5. Append(inbox, stream[1]) # <<>>
    <3>1. inbox \in Seq(1 .. Events)
      BY Numbers
    <3>2. QED
      BY <2>4, <3>1
  <2>6. QED
    BY <2>1, <2>3, <2>5
<1> QED
  BY <1>3, <1>4

LEMMA LinkInvNext ==
  ASSUME IInv, LinkInv, [Next]_vars
  PROVE  LinkInv'
<1>0. taken \in Nat /\ acked \in Nat /\ PostInv
  BY Numbers DEF IInv
<1> USE DEF LinkInv
<1>1. CASE Expire
  BY <1>0, <1>1 DEF Expire, Quit, PostInv
<1>2. CASE FindEndpoint
  BY <1>0, <1>2 DEF FindEndpoint, Quit, PostInv
<1>3. CASE SendPost
  BY <1>0, <1>3 DEF SendPost
<1>4. CASE Receive
  <2>1. /\ post = "none" /\ UNCHANGED <<post, taken, acked>>
        /\ phase \in {"answer", "main"}
    BY <1>0, <1>4 DEF Receive, PostInv
  <2>2. \/ phase' \in {phase, "ended"} /\ inbox' = inbox
        \/ phase' \in {"initialized", "main"} /\ inbox' # <<>>
    BY <1>4, InboxOfReceive
  <2>3. QED
    BY <2>1, <2>2
<1>5. CASE Cancelled
  BY <1>5 DEF Cancelled, Quit
<1>6. ASSUME NEW reason \in {"timeout", "refused"}, PostFails(reason)
      PROVE  LinkInv'
  BY <1>6 DEF PostFails, Quit
<1>7. CASE Accept
  BY <1>7 DEF Accept
<1>8. CASE PostDone
  BY <1>0, <1>8 DEF PostDone, PostInv
<1>9. ASSUME NEW ok \in BOOLEAN, Connect(ok) PROVE LinkInv'
  BY <1>0, <1>9 DEF Connect, Quit, PostInv
<1>10. CASE HandlerSends \/ Cancel \/ Tick
  BY <1>10 DEF HandlerSends, Cancel, Tick
<1>11. ASSUME NEW e \in AllEvents, ServerSends(e) PROVE LinkInv'
  BY <1>11 DEF ServerSends
<1>12. CASE UNCHANGED vars
  BY <1>12 DEF vars
<1> QED
  BY <1>1, <1>2, <1>3, <1>4, <1>5, <1>6, <1>7, <1>8, <1>9, <1>10, <1>11, <1>12
     DEF Next, Worker, AllEvents, Messages

\* Every step of the worker and its environment is a step of the link or none.
LEMMA LinkStep ==
  ASSUME IInv, LinkInv, [Next]_vars
  PROVE  [Link!Next]_(Link!vars)
<1> DEFINE others == <<outbox, served, acked, emitted, skipped, inbox>>
<1>0. /\ outbox \in Nat /\ taken \in Nat /\ acked \in Nat /\ emitted \in Nat
      /\ skipped \in Nat /\ Len(served) \in Nat /\ Len(inbox) \in Nat
      /\ served \in Seq(1 .. Requests) /\ PostInv
  BY Numbers DEF IInv
<1>1. ASSUME UNCHANGED others, UNCHANGED Live \/ (Live /\ ~ Live')
      PROVE  [Link!Next]_(Link!vars)
  BY <1>1 DEF Link!Next, Link!Close, Link!vars
<1>2. CASE Expire \/ SendPost \/ Cancelled \/ Cancel \/ Tick \/ UNCHANGED vars
  BY <1>1, <1>2 DEF Expire, SendPost, Cancelled, Cancel, Tick, Quit, Live, vars
<1>3. ASSUME NEW reason \in {"timeout", "refused"}, PostFails(reason)
      PROVE  [Link!Next]_(Link!vars)
  BY <1>1, <1>3 DEF PostFails, Quit, Live
<1>4. ASSUME NEW ok \in BOOLEAN, Connect(ok) PROVE [Link!Next]_(Link!vars)
  BY <1>1, <1>4 DEF Connect, Quit, Live
<1>5. CASE FindEndpoint
  <2>1. /\ phase = "endpoint" /\ stream # <<>> /\ stream \in Seq(AllEvents)
        /\ UNCHANGED <<outbox, served, acked, emitted, inbox>>
    BY <1>5, Numbers DEF FindEndpoint
  <2>2. Head(stream) = stream[1] /\ stream[1] \in AllEvents /\ 1 \in 1 .. Len(stream)
    BY <2>1
  <2>3. CASE IsMessage(1)
    <3>1. skipped' = skipped + 1 /\ phase' = phase
      BY <1>5, <2>2, <2>3, EventsAreNoMessages DEF FindEndpoint, IsMessage, Messages
    <3>2. stream[1] = Done + 1 /\ stream[1] <= emitted /\ inbox = <<>>
      BY <2>1, <2>2, <2>3 DEF IInv, StreamInv, BoundsInv
    <3>3. skipped < emitted
      BY <1>0, <3>2 DEF Done
    <3>4. served = <<>>
      BY <1>0, <2>1 DEF LinkInv, PostInv
    <3>5. QED
      BY <2>1, <3>1, <3>3, <3>4 DEF Link!Next, Link!Skip, Live
  <2>4. CASE ~ IsMessage(1)
    <3>1. skipped' = skipped
      BY <1>5, <2>2, <2>4, EventsAreNoMessages
         DEF FindEndpoint, Quit, IsMessage, AllEvents, Messages
    <3>2. QED
      BY <1>1, <2>1, <3>1 DEF Live
  <2>5. QED
    BY <2>3, <2>4
<1>6. CASE Receive
  <2>1. /\ post = "none" /\ phase \in {"answer", "main"}
        /\ UNCHANGED <<outbox, served, acked, emitted, skipped>>
    BY <1>0, <1>6 DEF Receive, PostInv
  <2>2. acked = Len(served) /\ served # <<>>
    BY <1>0, <2>1 DEF LinkInv, PostInv
  <2>3. CASE inbox' = inbox /\ phase' \in {phase, "ended"}
    BY <1>1, <2>1, <2>3 DEF Live
  <2>4. CASE /\ skipped + Len(inbox) < emitted
             /\ inbox' = Append(inbox, skipped + Len(inbox) + 1)
             /\ inbox' # <<>> /\ phase' \in {"initialized", "main"}
    BY <2>1, <2>2, <2>4 DEF Link!Next, Link!Receive, Link!Quiet, Live
  <2>5. QED
    BY <1>6, <2>3, <2>4, InboxOfReceive
<1>7. CASE Accept
  <2>1. /\ post = "sent" /\ phase \in {"init", "initialized", "main"}
        /\ served' = Append(served, taken)
        /\ UNCHANGED <<phase, outbox, acked, emitted, skipped, inbox>>
    BY <1>0, <1>7 DEF Accept, PostInv
  <2>2. Len(served) = taken - 1 /\ acked = taken - 1 /\ taken # 0 /\ taken <= outbox
    <3>1. taken \in 0 .. outbox
      BY DEF IInv, TypeOK
    <3>2. QED
      BY <1>0, <2>1, <3>1 DEF LinkInv, PostInv
  <2>3. taken = Len(served) + 1 /\ Len(served) < outbox /\ acked = Len(served)
    BY <1>0, <2>2
  <2>4. served # <<>> => inbox # <<>>
    <3>1. CASE phase = "init"
      BY <1>0, <2>1, <2>2, <3>1 DEF LinkInv
    <3>2. CASE phase \in {"initialized", "main"}
      BY <3>2 DEF LinkInv
    <3>3. QED
      BY <2>1, <3>1, <3>2
  <2>5. QED
    BY <2>1, <2>3, <2>4 DEF Link!Next, Link!Deliver, Link!Quiet, Live
<1>8. CASE PostDone
  <2>1. /\ post = "accepted" /\ acked' = taken /\ phase # "ended" /\ phase' # "ended"
        /\ UNCHANGED <<outbox, served, emitted, skipped, inbox>>
    BY <1>0, <1>8 DEF PostDone, PostInv
  <2>2. acked' = acked + 1 /\ acked # Len(served)
    BY <1>0, <2>1 DEF LinkInv, PostInv
  <2>3. QED
    BY <2>1, <2>2 DEF Link!Next, Link!Acknowledge, Link!Quiet, Live
<1>9. CASE HandlerSends
  BY <1>9 DEF HandlerSends, Link!Next, Link!Send, Live
<1>10. ASSUME NEW e \in AllEvents, ServerSends(e) PROVE [Link!Next]_(Link!vars)
  <2>1. /\ phase # "ended" /\ emitted' \in {emitted, emitted + 1}
        /\ UNCHANGED <<phase, outbox, served, acked, skipped, inbox>>
    BY <1>10 DEF ServerSends, Open
  <2>2. CASE emitted' = emitted
    BY <1>1, <2>1, <2>2 DEF Live
  <2>3. CASE emitted' = emitted + 1
    BY <2>1, <2>3 DEF Link!Next, Link!Emit, Live
  <2>4. QED
    BY <2>1, <2>2, <2>3
<1> QED
  BY <1>2, <1>3, <1>4, <1>5, <1>6, <1>7, <1>8, <1>9, <1>10
     DEF Next, Worker, AllEvents, Messages

LEMMA LinkInit == Init => LinkInv /\ Link!Init
  BY DEF Init, LinkInv, Link!Init, Live

\* For any number of messages, whatever is refused, lost or cut off, the worker is an
\* ordered link (LegacySseWorker::run posts, acknowledges and reads in one loop).
THEOREM WorkerIsOrderedLink == Spec => ImplementsLink
<1>1. IInv /\ LinkInv /\ [Next]_vars => LinkInv' /\ [Link!Next]_(Link!vars)
  BY LinkInvNext, LinkStep
<1>2. QED
  BY <1>1, LinkInit, InductiveInvariant, PTL DEF Spec, ImplementsLink, Link!Spec
=============================================================================
