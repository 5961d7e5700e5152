---------------------------- MODULE AtomicStore ----------------------------
(***************************************************************************)
(* What a file of the configuration directory promises to the calls of     *)
(* ConfigStore: every update takes effect in one step, between its call    *)
(* and its return; a load sees the value of one moment; and what a         *)
(* returned update wrote survives a power loss.  An update that returns an *)
(* error may or may not have taken effect.                                 *)
(***************************************************************************)
EXTENDS FiniteSets

CONSTANTS
    Calls,      \* calls of load, update and replace
    Updates,    \* those that write
    Replaces    \* those that write without reading first

\* A stored value is the set of updates it contains.
Values == SUBSET Updates

Effect(c, v) == IF c \in Replaces THEN {c} ELSE v \cup {c}

VARIABLES
    value,      \* what the next load sees
    durable,    \* the values a power loss may leave
    phase,      \* of each call: open, applied, ok, error, dead
    seen        \* what each finished load has seen

vars == <<value, durable, phase, seen>>

Init ==
    /\ value \in Values
    /\ durable = {value}
    /\ phase = [c \in Calls |-> "open"]
    /\ seen = [c \in Calls |-> {}]

Unfinished == {c \in Calls : phase[c] \in {"open", "applied"}}

Apply(c) ==
    /\ c \in Updates
    /\ phase[c] = "open"
    /\ phase' = [phase EXCEPT ![c] = "applied"]
    /\ value' = Effect(c, value)
    /\ durable' = durable \cup {value'}
    /\ UNCHANGED seen

\* An update is acknowledged only when a power loss can no longer undo it.
Acknowledge(c) ==
    /\ phase[c] = "applied"
    /\ phase' = [phase EXCEPT ![c] = "ok"]
    /\ durable' = {value}
    /\ UNCHANGED <<value, seen>>

Serve(c) ==
    /\ c \in Calls \ Updates
    /\ phase[c] = "open"
    /\ phase' = [phase EXCEPT ![c] = "ok"]
    /\ seen' = [seen EXCEPT ![c] = value]
    /\ UNCHANGED <<value, durable>>

Fail(c) ==
    /\ c \in Unfinished
    /\ phase' = [phase EXCEPT ![c] = "error"]
    /\ UNCHANGED <<value, durable, seen>>

\* What is written may become durable at any time.
Settle ==
    /\ durable' = {value}
    /\ UNCHANGED <<value, phase, seen>>

Kill(D) == phase' = [c \in Calls |-> IF c \in D THEN "dead" ELSE phase[c]]

\* A process dies with its calls.
Crash ==
    /\ \E D \in SUBSET Unfinished : Kill(D)
    /\ UNCHANGED <<value, durable, seen>>

\* The machine loses power: no call that had written survives it.
PowerLoss ==
    /\ \E D \in SUBSET Unfinished :
          /\ \A c \in Calls : phase[c] = "applied" => c \in D
          /\ Kill(D)
    /\ value' \in durable
    /\ durable' = {value'}
    /\ UNCHANGED seen

Next ==
    \/ \E c \in Calls : Apply(c) \/ Acknowledge(c) \/ Serve(c) \/ Fail(c)
    \/ Settle
    \/ Crash
    \/ PowerLoss

Spec == Init /\ [][Next]_vars
=============================================================================
