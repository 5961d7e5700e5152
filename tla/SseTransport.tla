----------------------------- MODULE SseTransport -----------------------------
(***************************************************************************)
(* The worker of a legacy SSE client (src/src/sse_transport.rs): messages *)
(* of the upstream server come in on one GET stream, messages of the MCP  *)
(* client (rmcp, the handler) go out one POST at a time.  The upstream    *)
(* server, the handler and reqwest's timeouts are external.               *)
(***************************************************************************)
EXTENDS Naturals, Sequences

CONSTANTS Requests,        \* messages of the handler: 1 is initialize, 2 initialized
          Events,          \* bound on the messages of the server
          ConnectTimeout,  \* SSE_CONNECT_TIMEOUT
          EndpointTimeout, \* ENDPOINT_TIMEOUT
          PostTimeout,     \* POST_TIMEOUT
          Endpoint, Bad, End \* events that are no message: the endpoint event, one that
                             \* cannot be parsed, the end of the stream

\* The timer of the endpoint event is the longer one, and starts later, so that of
\* the GET, which also covers the body of its response, always expires first.
ASSUME SseConstants ==
  /\ {Requests, Events, ConnectTimeout, EndpointTimeout, PostTimeout} \subseteq Nat
  /\ Requests >= 2
  /\ ConnectTimeout <= EndpointTimeout

ASSUME EventsAreNoMessages ==
  /\ Endpoint # Bad /\ Endpoint # End /\ Bad # End
  /\ {Endpoint, Bad, End} \cap (1 .. Events) = {}

VARIABLES
  phase,     \* where the worker is
  why,       \* why it ended
  age,       \* time since the GET was sent
  postAge,   \* time since the POST under way was sent
  post,      \* the POST under way: none, or whether the server has accepted it
  outbox,    \* how many messages the handler has put into its channel
  taken,     \* how many of them the worker has taken
  acked,     \* how many sends were acknowledged to the handler
  served,    \* the messages the server has accepted, in order
  stream,    \* events under way to the worker
  emitted,   \* how many messages the server has sent
  skipped,   \* how many of them came before the endpoint event
  inbox,     \* messages given to the handler
  cancelled

vars == <<phase, why, age, postAge, post, outbox, taken, acked, served, stream,
          emitted, skipped, inbox, cancelled>>

Phases == {"connect", "endpoint", "init", "answer", "initialized", "main", "ended"}

TypeOK ==
  /\ phase \in Phases
  /\ why \in {"none", "timeout", "refused", "stream", "cancelled", "handler"}
  /\ (phase = "ended") = (why # "none")
  /\ age \in 0 .. ConnectTimeout /\ postAge \in 0 .. PostTimeout
  /\ post \in {"none", "sent", "accepted"}
  /\ outbox \in 0 .. Requests /\ taken \in 0 .. outbox /\ acked \in 0 .. taken
  /\ served \in Seq(1 .. Requests) /\ inbox \in Seq(1 .. Events)
  /\ stream \in Seq({Endpoint, Bad, End} \cup 1 .. Events)
  /\ emitted \in 0 .. Events /\ skipped \in 0 .. emitted
  /\ cancelled \in BOOLEAN

Init ==
  /\ phase = "connect" /\ why = "none" /\ age = 0 /\ postAge = 0 /\ post = "none"
  /\ outbox = 0 /\ taken = 0 /\ acked = 0
  /\ served = <<>> /\ stream = <<>> /\ emitted = 0 /\ skipped = 0 /\ inbox = <<>>
  /\ cancelled = FALSE

-----------------------------------------------------------------------------
\* The worker.

Live == phase # "ended"
Quit(reason) == phase' = "ended" /\ why' = reason

\* Phase 1: the server answers the GET.
Connect(ok) ==
  /\ phase = "connect"
  /\ IF ok THEN phase' = "endpoint" /\ UNCHANGED why ELSE Quit("refused")
  /\ UNCHANGED <<age, postAge, post, outbox, taken, acked, served, stream, emitted,
                 skipped, inbox, cancelled>>

\* Mutant: it is a timeout of connecting only.
MutExpire ==
  /\ age >= ConnectTimeout
  /\ phase = "connect"
  /\ Quit("timeout")
  /\ UNCHANGED <<age, postAge, post, outbox, taken, acked, served, stream, emitted,
                 skipped, inbox, cancelled>>

\* The timeout of the GET ends its stream, whatever the phase is; while a POST or
\* the handler is awaited, the worker finds out later.
Expire ==
  /\ age >= ConnectTimeout
  /\ \/ phase \in {"connect", "endpoint", "answer"}
     \/ phase = "main" /\ post = "none" /\ ~ cancelled
  /\ Quit("timeout")
  /\ UNCHANGED <<age, postAge, post, outbox, taken, acked, served, stream, emitted,
                 skipped, inbox, cancelled>>

\* Phase 2: events before the endpoint are dropped.
FindEndpoint ==
  /\ phase = "endpoint" /\ stream # <<>>
  /\ stream' = Tail(stream)
  /\ CASE Head(stream) = Endpoint -> phase' = "init" /\ UNCHANGED <<why, skipped>>
       [] Head(stream) = End -> Quit("stream") /\ UNCHANGED skipped
       [] Head(stream) = Bad -> UNCHANGED <<phase, why, skipped>>
       [] OTHER -> skipped' = skipped + 1 /\ UNCHANGED <<phase, why>>
  /\ UNCHANGED <<age, postAge, post, outbox, taken, acked, served, emitted, inbox,
                 cancelled>>

\* Mutant: the main loop posts a message before the last one is answered.
MutSendPost ==
  /\ phase \in {"init", "initialized", "main"} /\ taken < outbox
  /\ post = "none" \/ (phase = "main" /\ post = "accepted")
  /\ phase = "main" => ~ cancelled /\ stream = <<>>
  /\ taken' = taken + 1 /\ post' = "sent" /\ postAge' = 0
  /\ UNCHANGED <<phase, why, age, outbox, acked, served, stream, emitted, skipped,
                 inbox, cancelled>>

\* Phases 3 and 4: the handler's next message is posted.  In the main loop that
\* comes after cancellation and after what the stream has.
SendPost ==
  /\ phase \in {"init", "initialized", "main"} /\ post = "none" /\ taken < outbox
  /\ phase = "main" => ~ cancelled /\ stream = <<>>
  /\ taken' = taken + 1 /\ post' = "sent" /\ postAge' = 0
  /\ UNCHANGED <<phase, why, age, outbox, acked, served, stream, emitted, skipped,
                 inbox, cancelled>>

\* The server accepts the message.
Accept ==
  /\ post = "sent" /\ Live
  /\ post' = "accepted" /\ served' = Append(served, taken)
  /\ UNCHANGED <<phase, why, age, postAge, outbox, taken, acked, stream, emitted,
                 skipped, inbox, cancelled>>

\* The server's answer: the send is acknowledged.
PostDone ==
  /\ post = "accepted"
  /\ post' = "none" /\ acked' = taken
  /\ phase' = CASE phase = "init" -> "answer"
                [] phase = "initialized" -> "main"
                [] OTHER -> phase
  /\ UNCHANGED <<why, age, postAge, outbox, taken, served, stream, emitted, skipped,
                 inbox, cancelled>>

\* Mutant: a failed POST of the main loop is left at that.
MutPostFails(reason) ==
  /\ post # "none"
  /\ reason = "timeout" => postAge >= PostTimeout
  /\ post' = "none"
  /\ IF phase = "main" THEN UNCHANGED <<phase, why>> ELSE Quit(reason)
  /\ UNCHANGED <<age, postAge, outbox, taken, acked, served, stream, emitted, skipped,
                 inbox, cancelled>>

\* It is refused, or there is none in time: that ends the worker.
PostFails(reason) ==
  /\ post # "none"
  /\ reason = "timeout" => postAge >= PostTimeout
  /\ post' = "none"
  /\ Quit(reason)
  /\ UNCHANGED <<age, postAge, outbox, taken, acked, served, stream, emitted, skipped,
                 inbox, cancelled>>

\* Mutant: what has come with the answer to initialize is lost.
MutReceive ==
  /\ phase = "answer" \/ (phase = "main" /\ post = "none" /\ ~ cancelled)
  /\ stream # <<>>
  /\ stream' = IF phase = "answer" THEN <<>> ELSE Tail(stream)
  /\ CASE Head(stream) = Endpoint -> UNCHANGED <<phase, why, inbox>>
       [] Head(stream) \in {End, Bad} -> Quit("stream") /\ UNCHANGED inbox
       [] OTHER -> /\ inbox' = Append(inbox, Head(stream))
                   /\ phase' = IF phase = "answer" THEN "initialized" ELSE phase
                   /\ UNCHANGED why
  /\ UNCHANGED <<age, postAge, post, outbox, taken, acked, served, emitted, skipped,
                 cancelled>>

\* The next event: a message is given to the handler, the first one as the answer to
\* initialize; one that does not parse, or the end of the stream, ends the worker.
Receive ==
  /\ phase = "answer" \/ (phase = "main" /\ post = "none" /\ ~ cancelled)
  /\ stream # <<>>
  /\ stream' = Tail(stream)
  /\ CASE Head(stream) = Endpoint -> UNCHANGED <<phase, why, inbox>>
       [] Head(stream) \in {End, Bad} -> Quit("stream") /\ UNCHANGED inbox
       [] OTHER -> /\ inbox' = Append(inbox, Head(stream))
                   /\ phase' = IF phase = "answer" THEN "initialized" ELSE phase
                   /\ UNCHANGED why
  /\ UNCHANGED <<age, postAge, post, outbox, taken, acked, served, emitted, skipped,
                 cancelled>>

\* Cancellation closes the handler's channel.  The main loop looks at it first, the
\* phases before it notice when they wait for the handler.
Cancelled ==
  /\ cancelled
  /\ \/ phase = "main" /\ post = "none" /\ Quit("cancelled")
     \/ phase \in {"init", "initialized"} /\ post = "none" /\ taken = outbox /\ Quit("handler")
  /\ UNCHANGED <<age, postAge, post, outbox, taken, acked, served, stream, emitted,
                 skipped, inbox, cancelled>>

-----------------------------------------------------------------------------
\* The handler and the server.

\* rmcp's handshake: initialized is sent after the answer to initialize.
HandlerSends ==
  /\ Live /\ ~ cancelled /\ outbox < Requests
  /\ outbox = 1 => inbox # <<>>
  /\ outbox' = outbox + 1
  /\ UNCHANGED <<phase, why, age, postAge, post, taken, acked, served, stream, emitted,
                 skipped, inbox, cancelled>>

Cancel ==
  /\ Live /\ ~ cancelled
  /\ cancelled' = TRUE
  /\ UNCHANGED <<phase, why, age, postAge, post, outbox, taken, acked, served, stream,
                 emitted, skipped, inbox>>

\* The server sends an event, until it ends the stream or the worker is gone.
Open == /\ phase \notin {"connect", "ended"} /\ age < ConnectTimeout
        /\ \A i \in 1 .. Len(stream) : stream[i] # End

ServerSends(event) ==
  /\ Open
  /\ stream' = Append(stream, event)
  /\ emitted' = IF event \in 1 .. Events THEN emitted + 1 ELSE emitted
  /\ event \in 1 .. Events => event = emitted + 1
  /\ event \notin 1 .. Events => Len(stream) <= 1
  /\ UNCHANGED <<phase, why, age, postAge, post, outbox, taken, acked, served, skipped,
                 inbox, cancelled>>

Tick ==
  /\ Live /\ (age < ConnectTimeout \/ (post # "none" /\ postAge < PostTimeout))
  /\ age' = IF age < ConnectTimeout THEN age + 1 ELSE age
  /\ postAge' = IF post # "none" /\ postAge < PostTimeout THEN postAge + 1 ELSE postAge
  /\ UNCHANGED <<phase, why, post, outbox, taken, acked, served, stream, emitted,
                 skipped, inbox, cancelled>>

Worker == \/ Expire \/ FindEndpoint \/ SendPost \/ Receive \/ Cancelled
          \/ PostFails("timeout")

Next == \/ Worker \/ Accept \/ PostDone \/ PostFails("refused")
        \/ \E ok \in BOOLEAN : Connect(ok)
        \/ HandlerSends \/ Cancel \/ Tick
        \/ \E e \in {Endpoint, Bad, End} \cup 1 .. Events : ServerSends(e)

Spec == Init /\ [][Next]_vars

\* Time passes and the worker goes on; the server and the handler may do nothing.
FairSpec == Spec /\ WF_vars(Tick) /\ WF_vars(Worker)

-----------------------------------------------------------------------------
\* Properties.

\* The server gets the handler's messages in order, each once and with none left out,
\* though a POST may fail or be accepted without the answer coming back; what was
\* acknowledged to the handler, it has got.
PostedInOrder ==
  /\ \A i \in 1 .. Len(served) : served[i] = i
  /\ acked <= Len(served)

\* The handler gets the server's messages in order, without duplicates, from the
\* first one after the endpoint event on, and none is lost between two it gets.
ReceivedInOrder == \A i \in 1 .. Len(inbox) : inbox[i] = skipped + i

\* The worker carries the messages of both sides as an ordered link does: a POST
\* only when the one before is acknowledged, nothing but initialize before its answer,
\* and no message to the handler between a POST and its acknowledgement.
Link == INSTANCE OrderedLink WITH
  open <- Live, sent <- outbox, delivered <- served, received <- inbox
ImplementsLink == Link!Spec

\* A cancelled worker ends, even when the server neither sends nor answers.
CancelEnds == cancelled ~> phase = "ended"

\* The stream is long-lived: once the handshake is done it does not end because the
\* time allowed for connecting is over.
StreamLongLived == [][phase = "main" /\ phase' = "ended" => why' # "timeout" \/ post # "none"]_vars
===============================================================================
