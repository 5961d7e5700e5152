---------------------------- MODULE OrderedLink ----------------------------
(***************************************************************************)
(* What a worker transport promises to the MCP client that uses it: a      *)
(* link that carries numbered messages both ways, in order and without     *)
(* gaps, and hands over one thing at a time.  A message goes to the server *)
(* only when the one before is acknowledged to the client; the first one   *)
(* is initialize and is followed by nothing until an answer has come; the  *)
(* client never sees a message of the server before the acknowledgement of *)
(* what it may answer.  Only messages sent before the server could know of *)
(* the client may be missing.  A closed link carries nothing.              *)
(***************************************************************************)
EXTENDS Naturals, Sequences

VARIABLES
    open,
    sent,        \* how many messages the client has handed over
    delivered,   \* those that have reached the server, in order
    acked,       \* how many were acknowledged to the client
    emitted,     \* how many messages the server has sent
    skipped,     \* how many of them, the first ones, the client does not get
    received     \* those the client has got, in order

vars == <<open, sent, delivered, acked, emitted, skipped, received>>

Init ==
    /\ open = TRUE
    /\ sent = 0 /\ delivered = <<>> /\ acked = 0
    /\ emitted = 0 /\ skipped = 0 /\ received = <<>>

Quiet == acked = Len(delivered)

Send ==
    /\ sent' = sent + 1
    /\ UNCHANGED <<open, delivered, acked, emitted, skipped, received>>

Deliver ==
    /\ Quiet
    /\ Len(delivered) < sent
    /\ delivered # <<>> => received # <<>>
    /\ delivered' = Append(delivered, Len(delivered) + 1)
    /\ UNCHANGED <<open, sent, acked, emitted, skipped, received>>

Acknowledge ==
    /\ ~ Quiet
    /\ acked' = acked + 1
    /\ UNCHANGED <<open, sent, delivered, emitted, skipped, received>>

Emit ==
    /\ emitted' = emitted + 1
    /\ UNCHANGED <<open, sent, delivered, acked, skipped, received>>

Skip ==
    /\ delivered = <<>>
    /\ skipped < emitted
    /\ skipped' = skipped + 1
    /\ UNCHANGED <<open, sent, delivered, acked, emitted, received>>

Receive ==
    /\ Quiet /\ delivered # <<>>
    /\ skipped + Len(received) < emitted
    /\ received' = Append(received, skipped + Len(received) + 1)
    /\ UNCHANGED <<open, sent, delivered, acked, emitted, skipped>>

Close ==
    /\ open' = FALSE
    /\ UNCHANGED <<sent, delivered, acked, emitted, skipped, received>>

Next == open /\ (Send \/ Deliver \/ Acknowledge \/ Emit \/ Skip \/ Receive \/ Close)

Spec == Init /\ [][Next]_vars
=============================================================================
