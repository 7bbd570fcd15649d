-------------------------- MODULE MCSimConnectLink --------------------------
(* Small instances of the link: which variables are mapped to what.         *)
EXTENDS SimConnectLink

CONSTANTS p1, p2, v1, v2

Of(var, input, signal, val_type, event) ==
  [var |-> var, input |-> input, signal |-> signal, default_value |-> 0,
   val_type |-> val_type, event |-> event]

Only(seq) == [p \in Provider |-> seq]

AnInput       == Only(<< Of(v1, TRUE, 1, "Float32", FALSE) >>)
\* Two outputs that share a signal, and an input that reads one of them back (it
\* is built last, so that responses go to it).
InAndOuts     == Only(<< Of(v1, FALSE, 2, "Float32", FALSE),
                         Of(v2, FALSE, 2, "Float32", FALSE),
                         Of(v2, TRUE, 1, "Float32", FALSE) >>)

AllSlow   == [v \in Variable |-> 2]
AllLocal  == [v \in Variable |-> "LVar"]
Coarse    == [v \in Variable |-> 1]

\* The second output is told of every change, the first is not: what it does not
\* send because the signal moved too little, the second does.
CoarseAndFine == [v \in Variable |-> IF v = v2 THEN 0 ELSE 1]

\* Invariants do not look at the ghost.
NoGhost == <<sim, signals, providers, host, bridge, to_bridge, to_host, starts>>

Bits == 1065353216
=============================================================================
