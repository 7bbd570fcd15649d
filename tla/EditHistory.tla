----------------------------- MODULE EditHistory -----------------------------
(***************************************************************************)
(* What undo and redo promise, free of stacks of snapshots, transactions   *)
(* and nesting: the versions before the present one, the present one, and  *)
(* the versions undone since the last edit.  bp2::EditorModel implements   *)
(* this specification (EditorModel.tla).                                   *)
(*                                                                         *)
(* One clause is weaker than a reader would expect, because the code is:   *)
(* an operation that turns out to change nothing may blank the versions    *)
(* that Redo would bring back, though never their number (Nothing).        *)
(***************************************************************************)
EXTENDS Naturals, Sequences

CONSTANTS Version,   \* the contents a document may have
          Blank,     \* an empty document
          Limit      \* how many versions are remembered

VARIABLES past, present, future
vars == <<past, present, future>>

\* `v` becomes the youngest remembered version, at the expense of the oldest.
Remember(vs, v) == Append(IF Len(vs) >= Limit THEN Tail(vs) ELSE vs, v)

Init == past = <<>> /\ present \in Version /\ future = <<>>

\* A change the user made, whatever it was.
Edit == /\ past' = Remember(past, present)
        /\ present' \in Version
        /\ future' = <<>>

\* A change that is not remembered: the document was renamed.
Amend == present' \in Version /\ UNCHANGED <<past, future>>

Undo == /\ past # <<>>
        /\ present' = past[Len(past)]
        /\ past' = SubSeq(past, 1, Len(past) - 1)
        /\ future' = Append(future, present)

Redo == /\ future # <<>>
        /\ present' = future[Len(future)]
        /\ future' = SubSeq(future, 1, Len(future) - 1)
        /\ past' = Append(past, present)

\* An operation that changed nothing, at the price named above.
Nothing == /\ past' = IF Len(past) >= Limit THEN Tail(past) ELSE past
           /\ future' = [i \in 1 .. Len(future) |-> Blank]
           /\ UNCHANGED present

\* Another document is opened.
Open == past' = <<>> /\ present' \in Version /\ future' = <<>>

Next == Edit \/ Amend \/ Undo \/ Redo \/ Nothing \/ Open
Spec == Init /\ [][Next]_vars
=============================================================================
