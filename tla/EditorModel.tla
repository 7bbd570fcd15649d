----------------------------- MODULE EditorModel -----------------------------
(***************************************************************************)
(* bp2::EditorModel: the editable document, its undo and redo stacks, the  *)
(* depth at which it was last saved, the transactions that group several   *)
(* commands into one undo step, and the lookup indices kept beside it.     *)
(*                                                                         *)
(* The members the operations pass around together are one record, `model` *)
(* (operators below take and return such a record, so that a handler that  *)
(* calls several operations is their composition).  Two of its fields are  *)
(* not in the code and change nothing in it: `saved`, the document that    *)
(* mark_saved last saw, and `cut`, true once the version saved was among   *)
(* the redo entries that a checkpoint discarded.                           *)
(***************************************************************************)
EXTENDS Integers, Sequences, SequencesExt, Blueprint

CONSTANTS
  MaxHistory,  \* max_history_
  MaxNesting   \* bound: depth of nested mutate_atomically calls

ASSUME EditorModelAssumption ==
  MaxHistory \in Nat \ {0} /\ MaxNesting \in Nat \ {0}

VARIABLES
  model,         \* current_, undo_stack_, redo_stack_, save_depth_ (+ saved, cut)
  suppression,   \* checkpoint_suppression_depth_
  before,        \* the model when the outermost mutate_atomically was entered;
                 \* of it the code keeps only redo_before, the number of redos
  next_wire_id,  \* next_wire_id_
  indices        \* indices_: NoIndices when not valid

vars == <<model, suppression, before, next_wire_id, indices>>

\* save_depth_ = SIZE_MAX: the saved version was forgotten; no stack has it.
Evicted == -1

\* indices_.valid = false; the stale contents are never read.
NoIndices == [node_pos |-> {}, wire_set |-> {}, valid |-> FALSE]

IndicesOf(bp) == [node_pos |-> {<<n.id, n.data>> : n \in bp.nodes},
                  wire_set |-> {<<w.source, w.target>> : w \in bp.wires},
                  valid    |-> TRUE]

Fresh(bp) == [current |-> bp, undo |-> <<>>, redo |-> <<>>, save |-> 0,
              saved |-> bp, cut |-> FALSE]

\* `before` when no mutate_atomically is running.
Outside == Fresh(EmptyDocument)

-----------------------------------------------------------------------------
(* The operations on the history.                                          *)

IsDirty(m) == Len(m.undo) # m.save

MarkSaved(m) == [m EXCEPT !.save = Len(m.undo), !.saved = m.current, !.cut = FALSE]

ReplaceCurrent(m, bp) == [m EXCEPT !.current = bp]

(* Mutants: push_checkpoint that lets the stack grow by one too many, that    *)
(* forgets that the saved version moved down, that decrements SIZE_MAX, and   *)
(* that keeps the redo entries.                                               *)
PushCheckpointOver(m) ==
  [m EXCEPT !.undo = Append(IF Len(m.undo) > MaxHistory THEN Tail(m.undo)
                                                        ELSE m.undo, m.current),
            !.redo = <<>>, !.cut = m.cut \/ m.save > Len(m.undo)]

PushCheckpointUnmoved(m) ==
  [m EXCEPT !.undo = Append(IF Len(m.undo) >= MaxHistory THEN Tail(m.undo)
                                                         ELSE m.undo, m.current),
            !.redo = <<>>, !.cut = m.cut \/ m.save > Len(m.undo)]

PushCheckpointUnguarded(m) ==
  [PushCheckpointUnmoved(m) EXCEPT
     !.save = IF Len(m.undo) >= MaxHistory THEN m.save - 1 ELSE m.save]

PushCheckpointKeepingRedo(m) ==
  [PushCheckpointUnmoved(m) EXCEPT !.redo = m.redo]

PushCheckpoint(m) ==
  LET full == Len(m.undo) >= MaxHistory
  IN  [m EXCEPT
         !.undo = Append(IF full THEN Tail(m.undo) ELSE m.undo, m.current),
         !.redo = <<>>,
         !.save = IF full THEN IF m.save = 0 \/ m.save = Evicted
                                 THEN Evicted ELSE m.save - 1
                          ELSE m.save,
         !.cut  = m.cut \/ m.save > Len(m.undo)]

Undo(m) ==
  [m EXCEPT !.redo = Append(m.redo, m.current),
            !.current = Last(m.undo),
            !.undo = Front(m.undo)]

Redo(m) ==
  [m EXCEPT !.undo = Append(m.undo, m.current),
            !.current = Last(m.redo),
            !.redo = Front(m.redo)]

\* std::vector::resize: cut to n elements, or filled up with Blueprint().
Resize(redo, n) ==
  [i \in 1 .. n |-> IF i <= Len(redo) THEN redo[i] ELSE EmptyDocument]

\* The pop_back and resize of mutate_atomically when nothing changed.
DropCheckpoint(m, redo_before) ==
  [m EXCEPT !.undo = Front(m.undo), !.redo = Resize(m.redo, redo_before)]

\* The end of an outermost mutate_atomically whose function returned ...
Settle(m, redo_before) ==
  IF m.current = Last(m.undo) THEN DropCheckpoint(m, redo_before) ELSE m

(* Mutant: the rollback pops the checkpoint without restoring the document.   *)
RollbackInPlace(m, redo_before) == DropCheckpoint(m, redo_before)

\* ... and of one whose function threw.
Rollback(m, redo_before) ==
  DropCheckpoint(ReplaceCurrent(m, Last(m.undo)), redo_before)

\* mutate_atomically, for a function whose commands lead to `bp`.
MutateAtomically(m, bp) ==
  Settle(ReplaceCurrent(PushCheckpoint(m), bp), Len(m.redo))

-----------------------------------------------------------------------------
Init ==
  /\ \E bp \in Loadable : model = Fresh(bp)
  /\ suppression = 0
  /\ before = Outside
  /\ next_wire_id \in {k \in 0 .. WireLimit : NextFreeWireId(model.current, k)}
  /\ indices = NoIndices

(* Mutant: a command inside a transaction makes a checkpoint of its own.      *)
CommitAlwaysCheckpointing(bp) ==
  /\ model' = ReplaceCurrent(PushCheckpoint(model), bp)
  /\ indices' = NoIndices
  /\ UNCHANGED <<suppression, before>>

\* push_checkpoint_if_enabled, then the new document takes over and the
\* indices are invalidated: how every command ends once its checks passed.
Commit(bp) ==
  /\ model' = ReplaceCurrent(IF suppression = 0 THEN PushCheckpoint(model)
                                                ELSE model, bp)
  /\ indices' = NoIndices
  /\ UNCHANGED <<suppression, before>>

AddNode ==
  \E id \in NodeId, data \in Content, def \in {NoSheet} \cup Sheets :
    /\ ~HasNode(model.current, id)
    /\ Commit(WithNode(model.current, [id |-> id, data |-> data, def |-> def]))
    /\ UNCHANGED next_wire_id

RemoveNode ==
  \E id \in NodeId :
    /\ HasNode(model.current, id)
    /\ Commit(WithoutNode(model.current, id))
    /\ UNCHANGED next_wire_id

RemoveNodeAndWires ==
  \E id \in NodeId :
    /\ HasNode(model.current, id)
    /\ Commit(WithoutNodeAndWires(model.current, id,
                                  IncidentWires(model.current, id)))
    /\ UNCHANGED next_wire_id

\* allocate_wire_id and add_wire: how the wire gesture creates a wire.  The
\* id is consumed even when add_wire returns false.
AddWire ==
  \E source, target \in Endpoint, route \in Route :
    LET w == [id |-> next_wire_id, source |-> source, target |-> target,
              route |-> route]
    IN  /\ next_wire_id < WireLimit
        /\ next_wire_id' = next_wire_id + 1
        /\ IF HasWire(model.current, w.id) \/ source = target
             THEN UNCHANGED <<model, suppression, before, indices>>
             ELSE Commit(WithWire(model.current, w))

RemoveWire ==
  \E id \in WireId :
    /\ HasWire(model.current, id)
    /\ Commit(WithoutWire(model.current, id))
    /\ UNCHANGED next_wire_id

\* update_node and update_node_position: a no-op makes no checkpoint.
UpdateNode ==
  \E n \in model.current.nodes, data \in Content :
    /\ data # n.data
    /\ Commit(ReplaceNode(model.current, [n EXCEPT !.data = data]))
    /\ UNCHANGED next_wire_id

\* update_wire: reconnection and routing points.  The reconnect gesture drops
\* a proposal that would join an endpoint with itself.
UpdateWire ==
  \E w \in model.current.wires, source, target \in Endpoint, route \in Route :
    LET updated == [w EXCEPT !.source = source, !.target = target,
                             !.route = route]
    IN  /\ updated # w /\ source # target
        /\ Commit(ReplaceWire(model.current, updated))
        /\ UNCHANGED next_wire_id

\* mutate_embedded and update_embedded_node, for a path of one segment.
MutateEmbedded ==
  \E id \in NodeId, sheet \in Sheets :
    /\ Hosts(model.current, id)
    /\ sheet # DefOf(model.current, id)
    /\ Commit(WithDef(model.current, id, sheet))
    /\ UNCHANGED next_wire_id

\* What restructuring commands compute from the current document.  They keep
\* drawn wires, reroute or drop them; the wires they make are not numbered by
\* allocate_wire_id, and extraction starts from extract_wire_1 every time.
Derived ==
  {bp \in Files : \E route \in [Drawn(model.current) -> Route] :
     Drawn(bp) \subseteq {[w EXCEPT !.route = route[w]] : w \in Drawn(model.current)}}

\* push_checkpoint, then replace_current: extract, layout, properties, script.
CheckpointAndReplace ==
  \E bp \in Derived :
    /\ suppression = 0
    /\ model' = ReplaceCurrent(PushCheckpoint(model), bp)
    /\ indices' = NoIndices
    /\ UNCHANGED <<suppression, before, next_wire_id>>

\* push_checkpoint alone: the tuner does it before its two commands, each of
\* which makes a checkpoint of its own.
Checkpoint ==
  /\ suppression = 0
  /\ model' = PushCheckpoint(model)
  /\ UNCHANGED <<suppression, before, next_wire_id, indices>>

\* replace_current inside a transaction: bake, bus-alias reorder, embedded edits.
ReplaceInTransaction ==
  \E bp \in Derived :
    /\ suppression > 0
    /\ model' = ReplaceCurrent(model, bp)
    /\ indices' = NoIndices
    /\ UNCHANGED <<suppression, before, next_wire_id>>

\* replace_current without a checkpoint: the dialog that names the blueprint.
Rename ==
  \E name \in Name :
    /\ suppression = 0
    /\ model' = ReplaceCurrent(model, WithName(model.current, name))
    /\ indices' = NoIndices
    /\ UNCHANGED <<suppression, before, next_wire_id>>

EnterTransaction ==
  /\ suppression < MaxNesting
  /\ suppression' = suppression + 1
  /\ IF suppression = 0
       THEN model' = PushCheckpoint(model) /\ before' = model
       ELSE UNCHANGED <<model, before>>
  /\ UNCHANGED <<next_wire_id, indices>>

\* The function passed to mutate_atomically returns.
LeaveTransaction ==
  /\ suppression > 0
  /\ suppression' = suppression - 1
  /\ IF suppression = 1
       THEN model' = Settle(model, Len(before.redo)) /\ before' = Outside
       ELSE UNCHANGED <<model, before>>
  /\ indices' = NoIndices
  /\ UNCHANGED next_wire_id

\* It throws instead: every nested call rethrows, the outermost restores.
AbortTransaction ==
  /\ suppression > 0
  /\ suppression' = 0
  /\ model' = Rollback(model, Len(before.redo))
  /\ before' = Outside
  /\ indices' = NoIndices
  /\ UNCHANGED next_wire_id

(* Mutant: undo forgets to invalidate the indices.                            *)
UndoStepKeepingIndices ==
  /\ suppression = 0 /\ model.undo # <<>>
  /\ model' = Undo(model)
  /\ UNCHANGED <<suppression, before, next_wire_id, indices>>

UndoStep ==
  /\ suppression = 0 /\ model.undo # <<>>
  /\ model' = Undo(model)
  /\ indices' = NoIndices
  /\ UNCHANGED <<suppression, before, next_wire_id>>

RedoStep ==
  /\ suppression = 0 /\ model.redo # <<>>
  /\ model' = Redo(model)
  /\ indices' = NoIndices
  /\ UNCHANGED <<suppression, before, next_wire_id>>

\* Document::save, the part that reaches the model.
Save ==
  /\ suppression = 0
  /\ model' = MarkSaved(model)
  /\ UNCHANGED <<suppression, before, next_wire_id, indices>>

(* Mutant: load does not synchronise the wire numbers.                        *)
LoadUnsynced ==
  \E bp \in Loadable :
    /\ suppression = 0
    /\ model' = MarkSaved(Fresh(bp))
    /\ next_wire_id' = 0
    /\ indices' = NoIndices
    /\ UNCHANGED <<suppression, before>>

\* Document::load: a new EditorModel, its wire ids synchronised, marked saved.
\* (The sizes it then normalises without a checkpoint are part of `bp`.)
Load ==
  \E bp \in Loadable :
    /\ suppression = 0
    /\ model' = MarkSaved(Fresh(bp))
    /\ next_wire_id' \in {k \in 0 .. WireLimit : NextFreeWireId(bp, k)}
    /\ indices' = NoIndices
    /\ UNCHANGED <<suppression, before>>

\* nodes_in_rect and wire_exists fill the indices on demand.
EnsureIndices ==
  /\ indices' = IF indices.valid THEN indices ELSE IndicesOf(model.current)
  /\ UNCHANGED <<model, suppression, before, next_wire_id>>

Command == AddNode \/ RemoveNode \/ RemoveNodeAndWires \/ AddWire \/ RemoveWire
           \/ UpdateNode \/ UpdateWire \/ MutateEmbedded

Next == \/ Command
        \/ CheckpointAndReplace \/ Checkpoint \/ ReplaceInTransaction \/ Rename
        \/ EnterTransaction \/ LeaveTransaction \/ AbortTransaction
        \/ UndoStep \/ RedoStep
        \/ Save \/ Load
        \/ EnsureIndices

Spec == Init /\ [][Next]_vars

-----------------------------------------------------------------------------
(* Properties.                                                             *)

Model == [current : Document, undo : Seq(Document), redo : Seq(Document),
          save : Nat \cup {Evicted}, saved : Document, cut : BOOLEAN]

\* Every variable keeps its type; a transaction is nested within its bound.
TypeOK ==
  /\ model \in Model
  /\ before \in Model
  /\ suppression \in 0 .. MaxNesting
  /\ next_wire_id \in 0 .. WireLimit
  /\ indices.valid \in BOOLEAN

\* The two stacks together never hold more than max_history_ versions, although
\* redo pushes on the undo stack, and a no-op transaction refills the redo
\* stack, without looking at the limit (push_checkpoint, redo, resize).
HistoryBounded ==
  /\ Len(model.undo) <= MaxHistory
  /\ suppression = 0 => Len(model.undo) + Len(model.redo) <= MaxHistory

\* The versions reachable by undo and redo, oldest first, number i at depth i.
VersionAt(m, i) ==
  IF i < Len(m.undo) THEN m.undo[i + 1]
  ELSE IF i = Len(m.undo) THEN m.current
  ELSE m.redo[Len(m.redo) - (i - Len(m.undo)) + 1]

SameContent(a, b) == a.nodes = b.nodes /\ a.wires = b.wires

\* save_depth_ keeps naming the version that was saved, through undo, redo,
\* eviction of old versions and no-op transactions, until that version is
\* forgotten (Evicted) or was on a branch that a checkpoint discarded (cut).
\* Renaming leaves no trace in the history, so names are not compared.
SavePointValid ==
  ~model.cut /\ model.save # Evicted =>
    /\ model.save <= Len(model.undo) + Len(model.redo)
    /\ suppression > 0 => model.save < Len(model.undo)
    /\ SameContent(VersionAt(model, model.save), model.saved)

\* nodes_in_rect and wire_exists never answer from a document that has been
\* replaced: whatever changes current_ invalidates the indices.
IndicesFresh == indices.valid => indices = IndicesOf(model.current)

\* Whatever was undone, redone, rolled back, extracted or loaded in between, no
\* version that can be shown again holds two drawn wires of one number in its
\* root, and the number allocated next is one that none of them uses: undo does
\* not give numbers back.  (Of wires that extraction names this is false: two
\* extractions make two wires extract_wire_1; see Extraction.)
DrawnWiresFresh ==
  \A i \in 0 .. Len(model.undo) + Len(model.redo) :
    \A v, w \in Drawn(VersionAt(model, i)) :
      v.id < next_wire_id /\ (v.id = w.id => v = w)

\* A transaction that fails leaves the document as it was, at any nesting and
\* whatever its commands did, and what Undo would do next with it.
AbortRestores ==
  [][AbortTransaction =>
       /\ model'.current = before.current
       /\ before.undo # <<>> /\ Len(before.undo) < MaxHistory =>
            model'.undo = before.undo]_vars

\* Commands inside a transaction never touch the history: the whole
\* transaction is one undo step, which goes back to where it started.
OneUndoStep ==
  [][suppression > 0 /\ suppression' > 0 =>
       /\ model'.undo = model.undo
       /\ Last(model'.undo) = before.current
       /\ model'.redo = <<>>]_vars

\* The promise of undo and redo, with transactions taken as one step.
Shown == IF suppression = 0 THEN model ELSE before

History == INSTANCE EditHistory
  WITH Version <- Document, Blank <- EmptyDocument, Limit <- MaxHistory,
       past <- Shown.undo, present <- Shown.current, future <- Shown.redo

ImplementsHistory == History!Spec
=============================================================================
