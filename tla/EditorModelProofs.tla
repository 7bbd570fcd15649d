-------------------------- MODULE EditorModelProofs --------------------------
(***************************************************************************)
(* Theorems about EditorModel for every set of documents, every history    *)
(* limit and every nesting depth, and about Extraction for every document  *)
(* and library.                                                            *)
(***************************************************************************)
EXTENDS EditorModel, Extraction, Iteration, SequenceTheorems, FiniteSetTheorems, TLAPS

-----------------------------------------------------------------------------
(* Blueprints: every operation returns a document.                         *)

\* What resize fills a stack with is a document.
LEMMA EmptyIsDocument == EmptyDocument \in Document
  BY BlueprintAssumption DEF EmptyDocument, Document

\* Removing elements from a document leaves a document.
LEMMA NodeOpsType ==
  ASSUME NEW bp \in Document, NEW id \in NodeId, NEW ids
  PROVE  /\ WithoutNode(bp, id) \in Document
         /\ WithoutNodeAndWires(bp, id, ids) \in Document
         /\ WithoutWire(bp, id) \in Document
  BY DEF Document, WithoutNode, WithoutNodeAndWires, WithoutWire

\* So does adding or replacing a node ...
LEMMA WithNodeType ==
  ASSUME NEW bp \in Document, NEW n \in Node
  PROVE  WithNode(bp, n) \in Document /\ ReplaceNode(bp, n) \in Document
  BY DEF Document, WithNode, ReplaceNode

\* ... or a wire ...
LEMMA WithWireType ==
  ASSUME NEW bp \in Document, NEW w \in Wire
  PROVE  WithWire(bp, w) \in Document /\ ReplaceWire(bp, w) \in Document
  <1>1. [w EXCEPT !.route = NoRoute] \in Wire
    BY BlueprintAssumption DEF Wire
  <1> QED
    BY <1>1 DEF Document, WithWire, ReplaceWire

\* ... or the sheet embedded in a node.
LEMMA WithDefType ==
  ASSUME NEW bp \in Document, NEW id \in NodeId, Hosts(bp, id),
         NEW sheet \in Sheet
  PROVE  WithDef(bp, id, sheet) \in Document
  <1> DEFINE host == CHOOSE n \in bp.nodes : n.id = id /\ n.def # NoSheet
  <1>1. host \in bp.nodes
    BY DEF Hosts
  <1>2. host \in Node
    BY <1>1 DEF Document
  <1>3. [host EXCEPT !.def = sheet] \in Node
    BY <1>2 DEF Node
  <1> QED
    BY <1>3, WithNodeType DEF WithDef

-----------------------------------------------------------------------------
(* Sequences.                                                              *)

\* pop_back and back() of a vector that is not empty.
LEMMA FrontLast ==
  ASSUME NEW S, NEW s \in Seq(S), s # <<>>
  PROVE  /\ Front(s) \in Seq(S) /\ Last(s) \in S
         /\ Len(Front(s)) = Len(s) - 1
         /\ \A i \in 1 .. Len(s) - 1 : Front(s)[i] = s[i]
         /\ Len(s) \in Nat /\ Len(s) >= 1
  <1> DEFINE n == Len(s) - 1
  <1>1. n \in Nat /\ Len(s) = n + 1
    OBVIOUS
  <1>2. Last(s) \in S
    BY <1>1 DEF Last
  <1>3. \A i \in 1 .. n : s[i] \in S
    BY <1>1
  <1> HIDE DEF n
  <1>4. /\ SubSeq(s, 1, n) \in Seq(S)
        /\ Len(SubSeq(s, 1, n)) = IF 1 <= n THEN n - 1 + 1 ELSE 0
        /\ \A i \in 1 .. n - 1 + 1 : SubSeq(s, 1, n)[i] = s[1 + i - 1]
    BY <1>1, <1>3, SubSeqProperties
  <1>5. /\ Len(SubSeq(s, 1, n)) = n
        /\ \A i \in 1 .. n : SubSeq(s, 1, n)[i] = s[i]
    BY <1>1, <1>4
  <1> QED
    BY <1>1, <1>2, <1>4, <1>5 DEF Front, n

\* Erasing the first element of a vector that is not empty.
LEMMA TailFacts ==
  ASSUME NEW S, NEW s \in Seq(S), s # <<>>
  PROVE  /\ Tail(s) \in Seq(S) /\ Len(Tail(s)) = Len(s) - 1
         /\ \A i \in 1 .. Len(s) - 1 : Tail(s)[i] = s[i + 1]
  OBVIOUS

\* vector::resize gives the length asked for.
LEMMA ResizeFacts ==
  ASSUME NEW redo \in Seq(Document), NEW n \in Nat
  PROVE  Resize(redo, n) \in Seq(Document) /\ Len(Resize(redo, n)) = n
  BY EmptyIsDocument DEF Resize

-----------------------------------------------------------------------------
(* The operations on the history keep its type.                            *)

\* The value of `before` outside transactions is a model.
LEMMA OutsideType == Outside \in Model
  BY EmptyIsDocument DEF Outside, Fresh, Model

\* replace_current and mark_saved keep the type of the model.
LEMMA ReplaceType ==
  ASSUME NEW m \in Model, NEW bp \in Document
  PROVE  ReplaceCurrent(m, bp) \in Model /\ MarkSaved(m) \in Model
  <1>1. Len(m.undo) \in Nat
    BY DEF Model
  <1> QED
    BY <1>1 DEF ReplaceCurrent, MarkSaved, Model

\* A new EditorModel has the type of a model.
LEMMA FreshType ==
  ASSUME NEW bp \in Document
  PROVE  Fresh(bp) \in Model /\ MarkSaved(Fresh(bp)) \in Model
  <1>1. Fresh(bp) \in Model
    BY DEF Fresh, Model
  <1> QED
    BY <1>1, ReplaceType

\* push_checkpoint keeps the type, and the undo stack is then not empty and not
\* longer than the limit.
LEMMA PushType ==
  ASSUME NEW m \in Model
  PROVE  /\ PushCheckpoint(m) \in Model
         /\ PushCheckpoint(m).undo # <<>>
         /\ Len(m.undo) <= MaxHistory =>
              Len(PushCheckpoint(m).undo) =
                IF Len(m.undo) = MaxHistory THEN MaxHistory ELSE Len(m.undo) + 1
  <1> DEFINE kept == IF Len(m.undo) >= MaxHistory THEN Tail(m.undo) ELSE m.undo
             pushed == Append(kept, m.current)
  <1>1. m.undo \in Seq(Document) /\ m.current \in Document
    BY DEF Model
  <1>2. /\ kept \in Seq(Document)
        /\ Len(m.undo) <= MaxHistory =>
             Len(kept) = IF Len(m.undo) = MaxHistory THEN MaxHistory - 1
                                                     ELSE Len(m.undo)
    <2>1. CASE Len(m.undo) >= MaxHistory
      <3>1. m.undo # <<>>
        BY <2>1, EditorModelAssumption
      <3> QED
        BY <1>1, <2>1, <3>1, TailFacts, EditorModelAssumption
    <2>2. CASE ~(Len(m.undo) >= MaxHistory)
      BY <1>1, <2>2, EditorModelAssumption
    <2> QED
      BY <2>1, <2>2
  <1> HIDE DEF kept
  <1>3. pushed \in Seq(Document) /\ Len(pushed) = Len(kept) + 1
    BY <1>1, <1>2
  <1>4. PushCheckpoint(m).undo = pushed
    BY DEF PushCheckpoint, Model, kept
  <1>5. PushCheckpoint(m) \in Model
    <2> DEFINE moved == IF Len(m.undo) >= MaxHistory
                          THEN IF m.save = 0 \/ m.save = Evicted
                                 THEN Evicted ELSE m.save - 1
                          ELSE m.save
               lost  == m.cut \/ m.save > Len(m.undo)
    <2>1. moved \in Nat \cup {Evicted}
      BY DEF Model, Evicted
    <2>2. lost \in BOOLEAN
      BY DEF Model
    <2>3. PushCheckpoint(m) = [m EXCEPT !.undo = pushed, !.redo = <<>>,
                                        !.save = moved, !.cut = lost]
      BY DEF PushCheckpoint, kept
    <2>4. <<>> \in Seq(Document)
      OBVIOUS
    <2> HIDE DEF pushed, moved, lost
    <2> QED
      BY <1>3, <2>1, <2>2, <2>3, <2>4 DEF Model
  <1> QED
    BY <1>1, <1>2, <1>3, <1>4, <1>5, EditorModelAssumption

\* undo keeps the type of the model.
LEMMA UndoType ==
  ASSUME NEW m \in Model, m.undo # <<>>
  PROVE  Undo(m) \in Model
  <1>1. Front(m.undo) \in Seq(Document) /\ Last(m.undo) \in Document
    BY FrontLast DEF Model
  <1>2. Append(m.redo, m.current) \in Seq(Document)
    BY DEF Model
  <1> QED
    BY <1>1, <1>2 DEF Undo, Model

\* redo keeps the type of the model.
LEMMA RedoType ==
  ASSUME NEW m \in Model, m.redo # <<>>
  PROVE  Redo(m) \in Model
  <1>1. Front(m.redo) \in Seq(Document) /\ Last(m.redo) \in Document
    BY FrontLast DEF Model
  <1>2. Append(m.undo, m.current) \in Seq(Document)
    BY DEF Model
  <1> QED
    BY <1>1, <1>2 DEF Redo, Model

\* The ends of a transaction keep the type of the model.
LEMMA DropType ==
  ASSUME NEW m \in Model, NEW n \in Nat, m.undo # <<>>
  PROVE  /\ DropCheckpoint(m, n) \in Model
         /\ Settle(m, n) \in Model
         /\ Rollback(m, n) \in Model
  <1>1. Front(m.undo) \in Seq(Document) /\ Last(m.undo) \in Document
    BY FrontLast DEF Model
  <1>2. Resize(m.redo, n) \in Seq(Document)
    BY ResizeFacts DEF Model
  <1>3. DropCheckpoint(m, n) \in Model
    BY <1>1, <1>2 DEF DropCheckpoint, Model
  <1>4. Rollback(m, n) = [DropCheckpoint(m, n) EXCEPT !.current = Last(m.undo)]
    BY DEF Rollback, DropCheckpoint, ReplaceCurrent, Model
  <1>5. Rollback(m, n) \in Model
    BY <1>1, <1>3, <1>4 DEF Model
  <1> QED
    BY <1>3, <1>5 DEF Settle

-----------------------------------------------------------------------------
(* Steps.  Most actions reach the history in one of two ways.              *)

\* A checkpoint is made and the document replaced, outside transactions ...
Edits == /\ suppression = 0
         /\ \E bp \in Document :
              model' = ReplaceCurrent(PushCheckpoint(model), bp)
         /\ UNCHANGED <<suppression, before>>

\* ... or the document is replaced without one: within a transaction, or by
\* one that differs in its name.
Amends == /\ \E bp \in Document :
               /\ suppression > 0 \/ SameContent(bp, model.current)
               /\ model' = ReplaceCurrent(model, bp)
          /\ UNCHANGED <<suppression, before>>

Still == UNCHANGED <<model, suppression, before>>

Steps == \/ Edits \/ Amends \/ Still
         \/ EnterTransaction \/ LeaveTransaction \/ AbortTransaction
         \/ UndoStep \/ RedoStep \/ Save \/ Load

\* The common end of all commands is an edit, or an amendment in a transaction.
LEMMA CommitSteps ==
  ASSUME TypeOK, NEW bp \in Document, Commit(bp)
  PROVE  Edits \/ Amends
  BY DEF TypeOK, Commit, Edits, Amends

\* Every command is one of the few kinds of step that the proofs distinguish.
LEMMA CommandSteps ==
  ASSUME TypeOK, Command
  PROVE  Edits \/ Amends \/ Still
  <1>0. model.current \in Document /\ Sheets \subseteq Sheet
    BY BlueprintAssumption DEF TypeOK, Model
  <1>1. CASE AddNode
    <2>1. PICK id \in NodeId, data \in Content, def \in {NoSheet} \cup Sheets :
            Commit(WithNode(model.current, [id |-> id, data |-> data, def |-> def]))
      BY <1>1 DEF AddNode
    <2>2. [id |-> id, data |-> data, def |-> def] \in Node
      BY <1>0 DEF Node
    <2> QED
      BY <1>0, <2>1, <2>2, WithNodeType, CommitSteps
  <1>2. CASE RemoveNode
    BY <1>0, <1>2, NodeOpsType, CommitSteps DEF RemoveNode
  <1>3. CASE RemoveNodeAndWires
    BY <1>0, <1>3, NodeOpsType, CommitSteps DEF RemoveNodeAndWires
  <1>4. CASE AddWire
    <2>1. PICK source \in Endpoint, target \in Endpoint, route \in Route :
            LET w == [id |-> next_wire_id, source |-> source,
                      target |-> target, route |-> route]
            IN  next_wire_id < WireLimit /\ (Still \/ Commit(WithWire(model.current, w)))
      BY <1>4 DEF AddWire, Still
    <2>2. next_wire_id < WireLimit => next_wire_id \in WireId
      BY BlueprintAssumption DEF TypeOK, WireId
    <2>3. next_wire_id \in WireId =>
            [id |-> next_wire_id, source |-> source, target |-> target,
             route |-> route] \in Wire
      BY DEF Wire
    <2> QED
      BY <1>0, <2>1, <2>2, <2>3, WithWireType, CommitSteps
  <1>5. CASE RemoveWire
    <2>1. PICK id \in WireId : Commit(WithoutWire(model.current, id))
      BY <1>5 DEF RemoveWire
    <2>2. WithoutWire(model.current, id) \in Document
      BY <1>0 DEF WithoutWire, Document
    <2> QED
      BY <2>1, <2>2, CommitSteps
  <1>6. CASE UpdateNode
    <2>1. PICK n \in model.current.nodes, data \in Content :
            Commit(ReplaceNode(model.current, [n EXCEPT !.data = data]))
      BY <1>6 DEF UpdateNode
    <2>2. [n EXCEPT !.data = data] \in Node
      BY <1>0 DEF Node, Document
    <2> QED
      BY <1>0, <2>1, <2>2, WithNodeType, CommitSteps
  <1>7. CASE UpdateWire
    <2>1. PICK w \in model.current.wires, source \in Endpoint,
               target \in Endpoint, route \in Route :
            Commit(ReplaceWire(model.current,
                     [w EXCEPT !.source = source, !.target = target,
                               !.route = route]))
      BY <1>7 DEF UpdateWire
    <2>2. [w EXCEPT !.source = source, !.target = target,
                    !.route = route] \in Wire
      BY <1>0 DEF Wire, Document
    <2> QED
      BY <1>0, <2>1, <2>2, WithWireType, CommitSteps
  <1>8. CASE MutateEmbedded
    <2>1. PICK id \in NodeId, sheet \in Sheets :
            Hosts(model.current, id) /\ Commit(WithDef(model.current, id, sheet))
      BY <1>8 DEF MutateEmbedded
    <2> QED
      BY <1>0, <2>1, WithDefType, CommitSteps
  <1> QED
    BY <1>1, <1>2, <1>3, <1>4, <1>5, <1>6, <1>7, <1>8 DEF Command

\* So is every step whatever.
LEMMA NextSteps ==
  ASSUME TypeOK, [Next]_vars
  PROVE  Steps
  <1>0. Derived \subseteq Document /\ model.current \in Document
    BY BlueprintAssumption DEF Derived, TypeOK, Model
  <1>1. CASE Command
    BY <1>1, CommandSteps DEF Steps
  <1>2. CASE CheckpointAndReplace
    BY <1>0, <1>2 DEF CheckpointAndReplace, Steps, Edits
  <1>3. CASE Checkpoint
    <2>1. PushCheckpoint(model).current = model.current
      BY DEF PushCheckpoint, TypeOK, Model
    <2>2. PushCheckpoint(model) \in Model
      BY PushType DEF TypeOK
    <2>3. PushCheckpoint(model) = ReplaceCurrent(PushCheckpoint(model), model.current)
      BY <2>1, <2>2 DEF ReplaceCurrent, Model
    <2> QED
      BY <1>0, <1>3, <2>3 DEF Checkpoint, Steps, Edits
  <1>4. CASE ReplaceInTransaction
    BY <1>0, <1>4 DEF ReplaceInTransaction, Steps, Amends
  <1>5. CASE Rename
    <2>1. PICK name \in Name :
            model' = ReplaceCurrent(model, WithName(model.current, name))
      BY <1>5 DEF Rename
    <2>2. /\ WithName(model.current, name) \in Document
          /\ SameContent(WithName(model.current, name), model.current)
      BY <1>0 DEF WithName, SameContent, Document
    <2> QED
      BY <1>5, <2>1, <2>2 DEF Rename, Steps, Amends
  <1>6. CASE EnsureIndices \/ UNCHANGED vars
    BY <1>6 DEF EnsureIndices, vars, Steps, Still
  <1> QED
    BY <1>1, <1>2, <1>3, <1>4, <1>5, <1>6 DEF Next, Steps

-----------------------------------------------------------------------------
(* The inductive invariant.                                                *)

\* While a transaction runs, the undo stack is the one its entry left, redo
\* is empty, and the history it started from was within its limit.
Frame == suppression > 0 =>
           /\ model.undo = PushCheckpoint(before).undo
           /\ model.redo = <<>>
           /\ Len(before.undo) + Len(before.redo) <= MaxHistory

IInv == TypeOK /\ HistoryBounded /\ Frame /\ SavePointValid

\* The initial states are type-correct.
LEMMA InitType == Init => TypeOK
  <1> SUFFICES ASSUME Init PROVE TypeOK
    OBVIOUS
  <1>1. PICK bp \in Document : model = Fresh(bp)
    BY BlueprintAssumption DEF Init, Loadable
  <1> QED
    BY <1>1, FreshType, OutsideType, EditorModelAssumption
    DEF Init, TypeOK, NoIndices

\* Every step keeps the types of the wire number and of the indices.
LEMMA NumberType ==
  ASSUME TypeOK, [Next]_vars
  PROVE  next_wire_id' \in 0 .. WireLimit /\ indices'.valid \in BOOLEAN
  <1>1. next_wire_id' \in 0 .. WireLimit
    <2>1. CASE AddWire
      BY <2>1, BlueprintAssumption DEF AddWire, TypeOK
    <2>2. CASE Load
      BY <2>2 DEF Load
    <2>3. CASE UNCHANGED next_wire_id
      BY <2>3 DEF TypeOK
    <2> QED
      BY <2>1, <2>2, <2>3 DEF Next, vars, Command, AddNode, RemoveNode,
         RemoveNodeAndWires, RemoveWire, UpdateNode, UpdateWire, MutateEmbedded,
         CheckpointAndReplace, Checkpoint, ReplaceInTransaction, Rename,
         EnterTransaction, LeaveTransaction, AbortTransaction, UndoStep,
         RedoStep, Save, EnsureIndices
  <1>2. indices' \in {indices, NoIndices, IndicesOf(model.current)}
    BY DEF Next, vars, Command, AddNode, AddWire, RemoveNode, Commit,
       RemoveNodeAndWires, RemoveWire, UpdateNode, UpdateWire, MutateEmbedded,
       CheckpointAndReplace, Checkpoint, ReplaceInTransaction, Rename,
       EnterTransaction, LeaveTransaction, AbortTransaction, UndoStep,
       RedoStep, Save, Load, EnsureIndices
  <1>3. NoIndices.valid \in BOOLEAN /\ IndicesOf(model.current).valid \in BOOLEAN
    BY Zenon DEF NoIndices, IndicesOf
  <1>4. indices'.valid \in BOOLEAN
    BY <1>2, <1>3 DEF TypeOK
  <1> QED
    BY <1>1, <1>4

\* Every step keeps the types.
LEMMA TypeStep ==
  ASSUME TypeOK, Frame, [Next]_vars
  PROVE  TypeOK'
  <1>0. /\ model \in Model /\ before \in Model /\ suppression \in 0 .. MaxNesting
        /\ MaxNesting \in Nat /\ Len(before.redo) \in Nat
        /\ suppression > 0 => model.undo # <<>>
    BY PushType, EditorModelAssumption DEF TypeOK, Frame, Model
  <1> SUFFICES model' \in Model /\ before' \in Model /\ suppression' \in 0 .. MaxNesting
    BY NumberType DEF TypeOK
  <1>1. CASE Edits
    BY <1>0, <1>1, PushType, ReplaceType DEF Edits
  <1>2. CASE Amends
    BY <1>0, <1>2, ReplaceType DEF Amends
  <1>3. CASE Still
    BY <1>0, <1>3 DEF Still
  <1>4. CASE EnterTransaction
    BY <1>0, <1>4, PushType DEF EnterTransaction
  <1>5. CASE LeaveTransaction
    BY <1>0, <1>5, DropType, OutsideType DEF LeaveTransaction
  <1>6. CASE AbortTransaction
    BY <1>0, <1>6, DropType, OutsideType DEF AbortTransaction
  <1>7. CASE UndoStep
    BY <1>0, <1>7, UndoType DEF UndoStep
  <1>8. CASE RedoStep
    BY <1>0, <1>8, RedoType DEF RedoStep
  <1>9. CASE Save
    BY <1>0, <1>9, EmptyIsDocument, ReplaceType DEF Save
  <1>10. CASE Load
    BY <1>0, <1>10, FreshType, BlueprintAssumption DEF Load, Loadable
  <1> QED
    BY <1>1, <1>2, <1>3, <1>4, <1>5, <1>6, <1>7, <1>8, <1>9, <1>10,
       NextSteps DEF Steps

\* What push_checkpoint leaves below and at the top of the undo stack.
LEMMA PushedUndo ==
  ASSUME NEW m \in Model
  PROVE  /\ Front(PushCheckpoint(m).undo) =
              IF Len(m.undo) >= MaxHistory THEN Tail(m.undo) ELSE m.undo
         /\ Last(PushCheckpoint(m).undo) = m.current
         /\ PushCheckpoint(m).redo = <<>>
  <1> DEFINE kept == IF Len(m.undo) >= MaxHistory THEN Tail(m.undo) ELSE m.undo
  <1>1. m.undo \in Seq(Document) /\ m.current \in Document
    BY DEF Model
  <1>2. kept \in Seq(Document)
    <2>1. CASE Len(m.undo) >= MaxHistory
      <3>1. m.undo # <<>>
        BY <2>1, EditorModelAssumption
      <3> QED
        BY <1>1, <3>1, TailFacts
    <2> QED
      BY <1>1, <2>1
  <1>3. /\ PushCheckpoint(m).undo = Append(kept, m.current)
        /\ PushCheckpoint(m).redo = <<>>
    BY DEF PushCheckpoint, Model
  <1> HIDE DEF kept
  <1>4. Front(Append(kept, m.current)) = kept
    BY <1>1, <1>2, AppendProperties DEF Front
  <1>5. Last(Append(kept, m.current)) = m.current
    BY <1>1, <1>2, AppendProperties DEF Last
  <1> QED
    BY <1>3, <1>4, <1>5 DEF kept

\* Every step keeps the frame of a running transaction.
LEMMA FrameStep ==
  ASSUME TypeOK, HistoryBounded, Frame, [Next]_vars
  PROVE  Frame'
  <1>0. /\ model \in Model /\ before \in Model /\ suppression \in 0 .. MaxNesting
        /\ MaxNesting \in Nat
    BY EditorModelAssumption DEF TypeOK
  <1>1. CASE suppression' = 0
    BY <1>1 DEF Frame
  <1>2. CASE suppression > 0 /\ UNCHANGED <<model, before>>
    BY <1>2 DEF Frame
  <1>3. Edits \/ UndoStep \/ RedoStep \/ Save \/ Load \/ AbortTransaction
        => suppression' = 0
    BY DEF Edits, UndoStep, RedoStep, Save, Load, AbortTransaction
  <1>4. Still => suppression' = 0 \/ (suppression > 0 /\ UNCHANGED <<model, before>>)
    BY <1>0 DEF Still
  <1>5. LeaveTransaction =>
          suppression' = 0 \/ (suppression > 0 /\ UNCHANGED <<model, before>>)
    BY <1>0 DEF LeaveTransaction
  <1>6. CASE Amends
    <2>1. model'.undo = model.undo /\ model'.redo = model.redo
      BY <1>0, <1>6 DEF Amends, ReplaceCurrent, Model
    <2> QED
      BY <1>6, <2>1 DEF Amends, Frame
  <1>7. CASE EnterTransaction /\ suppression = 0
    <2>1. before' = model /\ model' = PushCheckpoint(model)
      BY <1>7 DEF EnterTransaction
    <2>2. model'.redo = <<>>
      BY <1>0, <2>1, PushedUndo
    <2> QED
      BY <1>7, <2>1, <2>2 DEF Frame, HistoryBounded
  <1>8. EnterTransaction /\ suppression # 0 =>
          suppression > 0 /\ UNCHANGED <<model, before>>
    BY <1>0 DEF EnterTransaction
  <1> QED
    BY <1>1, <1>2, <1>3, <1>4, <1>5, <1>6, <1>7, <1>8, NextSteps DEF Steps

\* What DropCheckpoint leaves of the history a transaction started from.
LEMMA Dropped ==
  ASSUME NEW m \in Model, NEW b \in Model, NEW n \in Nat,
         m.undo = PushCheckpoint(b).undo
  PROVE  /\ DropCheckpoint(m, n).undo =
              IF Len(b.undo) >= MaxHistory THEN Tail(b.undo) ELSE b.undo
         /\ DropCheckpoint(m, n).redo = Resize(m.redo, n)
         /\ DropCheckpoint(m, n).current = m.current
         /\ DropCheckpoint(m, n).save = m.save
         /\ DropCheckpoint(m, n).saved = m.saved
         /\ DropCheckpoint(m, n).cut = m.cut
  BY PushedUndo DEF DropCheckpoint, Model

\* How a transaction ends.  It may have been nested ...
Nested == suppression' # 0 /\ UNCHANGED <<model, before>>

\* ... it may have changed something: its checkpoint stays ...
Kept == /\ suppression = 1 /\ suppression' = 0
        /\ model' = model /\ before' = Outside
        /\ model.current # before.current

\* ... or not, or failed: its checkpoint goes.
Discarded ==
  /\ suppression > 0 /\ suppression' = 0 /\ before' = Outside
  /\ model'.undo = IF Len(before.undo) >= MaxHistory THEN Tail(before.undo)
                                                     ELSE before.undo
  /\ model'.redo = Resize(<<>>, Len(before.redo))
  /\ model'.current = before.current
  /\ model'.save = model.save /\ model'.saved = model.saved
  /\ model'.cut = model.cut

\* A transaction ends nested, with its change kept, or with it discarded.
LEMMA EndSteps ==
  ASSUME TypeOK, Frame
  PROVE  /\ LeaveTransaction => Nested \/ Kept \/ Discarded
         /\ AbortTransaction => Discarded
  <1>0. /\ model \in Model /\ before \in Model /\ suppression \in 0 .. MaxNesting
        /\ MaxNesting \in Nat /\ before.current \in Document
        /\ Len(before.redo) \in Nat
    BY EditorModelAssumption DEF TypeOK, Model
  <1>1. suppression > 0 =>
          /\ model.undo = PushCheckpoint(before).undo /\ model.redo = <<>>
          /\ Last(model.undo) = before.current
    BY <1>0, PushedUndo DEF Frame
  <1>2. ASSUME suppression > 0, NEW m \in Model, m.undo = model.undo,
               m.current = before.current, m.redo = model.redo, m.save = model.save,
               m.saved = model.saved, m.cut = model.cut,
               model' = DropCheckpoint(m, Len(before.redo)),
               suppression' = 0, before' = Outside
        PROVE  Discarded
    BY <1>0, <1>1, <1>2, Dropped DEF Discarded
  <1>3. ASSUME LeaveTransaction PROVE Nested \/ Kept \/ Discarded
    <2>1. CASE suppression = 1 /\ model.current = Last(model.undo)
      <3>1. model' = DropCheckpoint(model, Len(before.redo))
        BY <1>3, <2>1 DEF LeaveTransaction, Settle
      <3> QED
        BY <1>0, <1>1, <1>2, <1>3, <2>1, <3>1 DEF LeaveTransaction
    <2>2. CASE suppression = 1 /\ model.current # Last(model.undo)
      BY <1>0, <1>1, <1>3, <2>2 DEF LeaveTransaction, Settle, Kept
    <2>3. CASE suppression # 1
      BY <1>0, <1>3, <2>3 DEF LeaveTransaction, Nested
    <2> QED
      BY <2>1, <2>2, <2>3
  <1>4. ASSUME AbortTransaction PROVE Discarded
    <2> DEFINE m == ReplaceCurrent(model, Last(model.undo))
    <2>1. m = [model EXCEPT !.current = before.current]
      BY <1>1, <1>4 DEF AbortTransaction, ReplaceCurrent
    <2>2. model' = DropCheckpoint(m, Len(before.redo))
      BY <1>4 DEF AbortTransaction, Rollback
    <2> HIDE DEF m
    <2>3. /\ m \in Model /\ m.undo = model.undo /\ m.current = before.current
          /\ m.redo = model.redo /\ m.save = model.save /\ m.saved = model.saved
          /\ m.cut = model.cut
      BY <1>0, <2>1 DEF Model
    <2> QED
      BY <1>2, <1>4, <2>2, <2>3 DEF AbortTransaction
  <1> QED
    BY <1>3, <1>4

\* Moving one version between two stacks keeps the sum of their lengths.
LEMMA Sums ==
  ASSUME NEW limit \in Nat, NEW a \in Nat, NEW b \in Nat, a + b <= limit
  PROVE  /\ a >= 1 => a - 1 \in Nat /\ (a - 1) + (b + 1) <= limit
         /\ b >= 1 => b - 1 \in Nat /\ (a + 1) + (b - 1) <= limit
         /\ \A c \in Nat : c <= a => c + b <= limit
  OBVIOUS

\* The bound follows from the lengths of the two stacks.
LEMMA BoundFrom ==
  ASSUME NEW u \in Nat, NEW r \in Nat, u + r <= MaxHistory,
         Len(model'.undo) = u, Len(model'.redo) = r
  PROVE  HistoryBounded'
  <1>1. u <= MaxHistory
    BY EditorModelAssumption
  <1> QED
    BY <1>1 DEF HistoryBounded

\* The lengths the undo and redo stacks have after a step.
LEMMA BoundStep ==
  ASSUME TypeOK, HistoryBounded, Frame, [Next]_vars
  PROVE  HistoryBounded'
  <1>0. /\ model \in Model /\ before \in Model /\ suppression \in 0 .. MaxNesting
        /\ MaxNesting \in Nat /\ MaxHistory \in Nat \ {0}
        /\ Len(model.undo) \in Nat /\ Len(model.redo) \in Nat
        /\ model.undo \in Seq(Document) /\ model.redo \in Seq(Document)
        /\ model.current \in Document
    BY EditorModelAssumption DEF TypeOK, Model
  <1>1. CASE Edits
    <2>1. PICK bp \in Document : model' = ReplaceCurrent(PushCheckpoint(model), bp)
      BY <1>1 DEF Edits
    <2>2. model'.undo = PushCheckpoint(model).undo /\ model'.redo = <<>>
      BY <1>0, <2>1, PushType, PushedUndo DEF ReplaceCurrent, Model
    <2> QED
      BY <1>0, <2>2, PushType DEF HistoryBounded
  <1>2. CASE Amends
    BY <1>0, <1>2 DEF Amends, HistoryBounded, ReplaceCurrent, Model
  <1>3. CASE Still \/ Nested
    BY <1>3 DEF Still, Nested, HistoryBounded
  <1>4. CASE EnterTransaction
    <2>1. suppression' # 0
      BY <1>0, <1>4 DEF EnterTransaction
    <2>2. CASE UNCHANGED model
      BY <2>1, <2>2 DEF HistoryBounded
    <2>3. CASE model' = PushCheckpoint(model)
      <3>1. Len(model'.undo) <= MaxHistory
        BY <1>0, <2>3, PushType DEF HistoryBounded
      <3> QED
        BY <2>1, <3>1 DEF HistoryBounded
    <2> QED
      BY <1>4, <2>2, <2>3 DEF EnterTransaction
  <1>5. CASE Kept
    <2>1. Len(model'.undo) = Len(model.undo) /\ Len(model'.redo) = 0
      BY <1>5 DEF Kept, Frame
    <2>2. Len(model.undo) + 0 <= MaxHistory
      BY <1>0 DEF HistoryBounded
    <2> QED
      BY <1>0, <2>1, <2>2, BoundFrom
  <1>6. CASE Discarded
    <2>1. /\ Len(before.undo) \in Nat /\ before.undo \in Seq(Document)
          /\ Len(before.undo) >= MaxHistory => before.undo # <<>>
          /\ Len(before.redo) \in Nat
      BY <1>0 DEF Model
    <2>2. Len(model'.redo) = Len(before.redo)
      BY <1>6, <2>1, ResizeFacts DEF Discarded
    <2>3. Len(model'.undo) \in Nat /\ Len(model'.undo) <= Len(before.undo)
      BY <1>6, <2>1, TailFacts DEF Discarded
    <2>4. Len(before.undo) + Len(before.redo) <= MaxHistory
      BY <1>6 DEF Discarded, Frame
    <2>5. Len(model'.undo) + Len(before.redo) <= MaxHistory
      BY <2>1, <2>3, <2>4, EditorModelAssumption, Sums
    <2> QED
      BY <2>1, <2>2, <2>3, <2>5, BoundFrom
  <1>7. CASE UndoStep
    <2>1. model.undo # <<>> /\ model' = Undo(model) /\ suppression = 0
      BY <1>7 DEF UndoStep
    <2>2. /\ Undo(model).undo = Front(model.undo)
          /\ Undo(model).redo = Append(model.redo, model.current)
      BY <1>0 DEF Undo, Model
    <2>3. Len(model'.undo) = Len(model.undo) - 1
      BY <1>0, <2>1, <2>2, FrontLast
    <2>4. Len(model'.redo) = Len(model.redo) + 1
      BY <1>0, <2>1, <2>2
    <2>5. /\ Len(model.undo) + Len(model.redo) <= MaxHistory
          /\ Len(model.undo) >= 1
      BY <1>0, <2>1, FrontLast DEF HistoryBounded
    <2>6. /\ Len(model.undo) - 1 \in Nat
          /\ (Len(model.undo) - 1) + (Len(model.redo) + 1) <= MaxHistory
      BY <1>0, <2>5, Sums
    <2>7. Len(model.redo) + 1 \in Nat
      BY <1>0
    <2> QED
      BY <2>3, <2>4, <2>6, <2>7, BoundFrom
  <1>8. CASE RedoStep
    <2>1. model.redo # <<>> /\ model' = Redo(model) /\ suppression = 0
      BY <1>8 DEF RedoStep
    <2>2. /\ Redo(model).redo = Front(model.redo)
          /\ Redo(model).undo = Append(model.undo, model.current)
      BY <1>0 DEF Redo, Model
    <2>3. Len(model'.redo) = Len(model.redo) - 1 /\ Len(model.redo) >= 1
      BY <1>0, <2>1, <2>2, FrontLast
    <2>4. Len(model'.undo) = Len(model.undo) + 1
      BY <1>0, <2>1, <2>2
    <2>5. Len(model.undo) + Len(model.redo) <= MaxHistory
      BY <2>1 DEF HistoryBounded
    <2>6. /\ Len(model.redo) - 1 \in Nat
          /\ (Len(model.undo) + 1) + (Len(model.redo) - 1) <= MaxHistory
      BY <1>0, <2>3, <2>5, Sums
    <2>7. Len(model.undo) + 1 \in Nat
      BY <1>0
    <2> QED
      BY <2>3, <2>4, <2>6, <2>7, BoundFrom
  <1>9. CASE Save
    BY <1>0, <1>9 DEF Save, MarkSaved, HistoryBounded, Model
  <1>10. CASE Load
    BY <1>0, <1>10, EmptySeq DEF Load, MarkSaved, Fresh, HistoryBounded
  <1> QED
    BY <1>1, <1>2, <1>3, <1>4, <1>5, <1>6, <1>7, <1>8, <1>9, <1>10,
       NextSteps, EndSteps DEF Steps

-----------------------------------------------------------------------------
(* The line of versions.  Undo and redo move along it.                     *)

\* undo moves along the versions and changes none of them.
LEMMA UndoMoves ==
  ASSUME NEW m \in Model, m.undo # <<>>
  PROVE  /\ Len(Undo(m).undo) + Len(Undo(m).redo) = Len(m.undo) + Len(m.redo)
         /\ \A i \in 0 .. Len(m.undo) + Len(m.redo) :
              VersionAt(Undo(m), i) = VersionAt(m, i)
         /\ Undo(m).save = m.save /\ Undo(m).saved = m.saved /\ Undo(m).cut = m.cut
  <1> DEFINE u == Len(m.undo)
             r == Len(m.redo)
             back == Front(m.undo)
             ahead == Append(m.redo, m.current)
  <1>0. /\ u \in Nat /\ r \in Nat /\ u >= 1
        /\ m.undo \in Seq(Document) /\ m.redo \in Seq(Document)
        /\ m.current \in Document
    BY FrontLast DEF Model
  <1>1. /\ Undo(m).undo = back /\ Undo(m).redo = ahead
        /\ Undo(m).current = Last(m.undo)
        /\ Undo(m).save = m.save /\ Undo(m).saved = m.saved /\ Undo(m).cut = m.cut
    BY DEF Undo, Model
  <1>2. /\ Len(back) = u - 1
        /\ \A i \in 1 .. u - 1 : back[i] = m.undo[i]
    BY <1>0, FrontLast
  <1>3. /\ Len(ahead) = r + 1 /\ ahead[r + 1] = m.current
        /\ \A i \in 1 .. r : ahead[i] = m.redo[i]
    BY <1>0
  <1>4. Last(m.undo) = m.undo[u]
    BY DEF Last
  <1>5. ASSUME NEW i \in 0 .. u + r
        PROVE  VersionAt(Undo(m), i) = VersionAt(m, i)
    <2>1. VersionAt(Undo(m), i) = IF i < u - 1 THEN back[i + 1]
                                  ELSE IF i = u - 1 THEN m.undo[u]
                                  ELSE ahead[(r + 1) - (i - (u - 1)) + 1]
      BY <1>1, <1>2, <1>3, <1>4 DEF VersionAt
    <2>2. VersionAt(m, i) = IF i < u THEN m.undo[i + 1]
                            ELSE IF i = u THEN m.current
                            ELSE m.redo[r - (i - u) + 1]
      BY DEF VersionAt
    <2> HIDE DEF u, r, back, ahead
    <2>3. CASE i < u - 1
      BY <1>0, <1>2, <2>1, <2>2, <2>3
    <2>4. CASE i = u - 1
      BY <1>0, <2>1, <2>2, <2>4
    <2>5. CASE i = u
      BY <1>0, <1>3, <2>1, <2>2, <2>5
    <2>6. CASE i > u
      <3>1. (r + 1) - (i - (u - 1)) + 1 = r - (i - u) + 1
        BY <1>0
      <3>2. r - (i - u) + 1 \in 1 .. r
        BY <1>0, <2>6
      <3> QED
        BY <1>0, <1>3, <2>1, <2>2, <2>6, <3>1, <3>2
    <2> QED
      BY <1>0, <2>3, <2>4, <2>5, <2>6
  <1>6. (u - 1) + (r + 1) = u + r
    <2>1. \A a, b \in Nat : (a - 1) + (b + 1) = a + b
      OBVIOUS
    <2> HIDE DEF u, r
    <2> QED
      BY <1>0, <2>1
  <1> QED
    BY <1>1, <1>2, <1>3, <1>5, <1>6

\* redo moves along the versions and changes none of them.
LEMMA RedoMoves ==
  ASSUME NEW m \in Model, m.redo # <<>>
  PROVE  /\ Len(Redo(m).undo) + Len(Redo(m).redo) = Len(m.undo) + Len(m.redo)
         /\ \A i \in 0 .. Len(m.undo) + Len(m.redo) :
              VersionAt(Redo(m), i) = VersionAt(m, i)
         /\ Redo(m).save = m.save /\ Redo(m).saved = m.saved /\ Redo(m).cut = m.cut
  <1> DEFINE u == Len(m.undo)
             r == Len(m.redo)
             back == Append(m.undo, m.current)
             ahead == Front(m.redo)
  <1>0. /\ u \in Nat /\ r \in Nat /\ r >= 1
        /\ m.undo \in Seq(Document) /\ m.redo \in Seq(Document)
        /\ m.current \in Document
    BY FrontLast DEF Model
  <1>1. /\ Redo(m).undo = back /\ Redo(m).redo = ahead
        /\ Redo(m).current = Last(m.redo)
        /\ Redo(m).save = m.save /\ Redo(m).saved = m.saved /\ Redo(m).cut = m.cut
    BY DEF Redo, Model
  <1>2. /\ Len(ahead) = r - 1
        /\ \A i \in 1 .. r - 1 : ahead[i] = m.redo[i]
    BY <1>0, FrontLast
  <1>3. /\ Len(back) = u + 1 /\ back[u + 1] = m.current
        /\ \A i \in 1 .. u : back[i] = m.undo[i]
    BY <1>0
  <1>4. Last(m.redo) = m.redo[r]
    BY DEF Last
  <1>5. ASSUME NEW i \in 0 .. u + r
        PROVE  VersionAt(Redo(m), i) = VersionAt(m, i)
    <2>1. VersionAt(Redo(m), i) = IF i < u + 1 THEN back[i + 1]
                                  ELSE IF i = u + 1 THEN m.redo[r]
                                  ELSE ahead[(r - 1) - (i - (u + 1)) + 1]
      BY <1>1, <1>2, <1>3, <1>4 DEF VersionAt
    <2>2. VersionAt(m, i) = IF i < u THEN m.undo[i + 1]
                            ELSE IF i = u THEN m.current
                            ELSE m.redo[r - (i - u) + 1]
      BY DEF VersionAt
    <2> HIDE DEF u, r, back, ahead
    <2>3. CASE i < u
      BY <1>0, <1>3, <2>1, <2>2, <2>3
    <2>4. CASE i = u
      BY <1>0, <1>3, <2>1, <2>2, <2>4
    <2>5. CASE i = u + 1
      <3>1. r - (i - u) + 1 = r
        BY <1>0, <2>5
      <3> QED
        BY <1>0, <2>1, <2>2, <2>5, <3>1
    <2>6. CASE i > u + 1
      <3>1. (r - 1) - (i - (u + 1)) + 1 = r - (i - u) + 1
        BY <1>0
      <3>2. r - (i - u) + 1 \in 1 .. r - 1
        BY <1>0, <2>6
      <3> QED
        BY <1>0, <1>2, <2>1, <2>2, <2>6, <3>1, <3>2
    <2> QED
      BY <1>0, <2>3, <2>4, <2>5, <2>6
  <1>6. (u + 1) + (r - 1) = u + r
    <2>1. \A a, b \in Nat : (a + 1) + (b - 1) = a + b
      OBVIOUS
    <2> HIDE DEF u, r
    <2> QED
      BY <1>0, <2>1
  <1> QED
    BY <1>1, <1>2, <1>3, <1>5, <1>6

\* A version remembered keeps its number unless the oldest is forgotten: then
\* every number goes down by one.
LEMMA PushMoves ==
  ASSUME NEW m \in Model, Len(m.undo) <= MaxHistory
  PROVE  LET full == Len(m.undo) >= MaxHistory
             p    == PushCheckpoint(m)
         IN  \A i \in 0 .. Len(m.undo) :
               /\ ~full => i < Len(p.undo) /\ p.undo[i + 1] = VersionAt(m, i)
               /\ full /\ i > 0 => i - 1 < Len(p.undo) /\ p.undo[i] = VersionAt(m, i)
  <1> DEFINE u == Len(m.undo)
  <1>0. /\ u \in Nat /\ m.undo \in Seq(Document) /\ m.current \in Document
        /\ MaxHistory \in Nat \ {0}
    BY EditorModelAssumption DEF Model
  <1> SUFFICES ASSUME NEW i \in 0 .. u
               PROVE  LET full == u >= MaxHistory
                          p    == PushCheckpoint(m)
                      IN  /\ ~full => i < Len(p.undo) /\ p.undo[i + 1] = VersionAt(m, i)
                          /\ full /\ i > 0 => i - 1 < Len(p.undo) /\ p.undo[i] = VersionAt(m, i)
    OBVIOUS
  <1>1. VersionAt(m, i) = IF i < u THEN m.undo[i + 1] ELSE m.current
    BY <1>0 DEF VersionAt
  <1>2. CASE ~(u >= MaxHistory)
    <2>1. PushCheckpoint(m).undo = Append(m.undo, m.current)
      BY <1>2 DEF PushCheckpoint, Model
    <2>2. /\ Len(PushCheckpoint(m).undo) = u + 1
          /\ \A j \in 1 .. u : PushCheckpoint(m).undo[j] = m.undo[j]
          /\ PushCheckpoint(m).undo[u + 1] = m.current
      BY <1>0, <2>1
    <2> HIDE DEF u
    <2> QED
      BY <1>0, <1>1, <1>2, <2>2
  <1>3. CASE u >= MaxHistory
    <2> DEFINE t == Tail(m.undo)
    <2>1. PushCheckpoint(m).undo = Append(t, m.current)
      BY <1>3 DEF PushCheckpoint, Model
    <2>2. t \in Seq(Document) /\ Len(t) = u - 1 /\ \A j \in 1 .. u - 1 : t[j] = m.undo[j + 1]
      <3>1. m.undo # <<>>
        BY <1>0, <1>3
      <3> QED
        BY <1>0, <3>1, TailFacts
    <2> HIDE DEF t
    <2>3. /\ Len(PushCheckpoint(m).undo) = Len(t) + 1
          /\ \A j \in 1 .. Len(t) : PushCheckpoint(m).undo[j] = t[j]
          /\ PushCheckpoint(m).undo[Len(t) + 1] = m.current
      BY <1>0, <2>1, <2>2
    <2>4. /\ Len(PushCheckpoint(m).undo) = u
          /\ \A j \in 1 .. u - 1 : PushCheckpoint(m).undo[j] = m.undo[j + 1]
          /\ PushCheckpoint(m).undo[u] = m.current
      BY <1>0, <1>3, <2>2, <2>3
    <2> HIDE DEF u
    <2> QED
      BY <1>0, <1>1, <1>3, <2>4
  <1> QED
    BY <1>2, <1>3

-----------------------------------------------------------------------------
(* The saved version.                                                      *)

\* The heart of SavePointValid, for any history.
Tracks(m) == ~m.cut /\ m.save # Evicted =>
               /\ m.save <= Len(m.undo) + Len(m.redo)
               /\ SameContent(VersionAt(m, m.save), m.saved)

\* In a transaction the saved version lies behind the checkpoint.
Behind(m) == ~m.cut /\ m.save # Evicted => m.save < Len(m.undo)

\* The save point as two facts about the model alone.
LEMMA SavePointSplit ==
  SavePointValid <=> Tracks(model) /\ (suppression > 0 => Behind(model))
  BY DEF SavePointValid, Tracks, Behind

\* push_checkpoint keeps track of the saved version.
LEMMA PushTracks ==
  ASSUME NEW m \in Model, Len(m.undo) <= MaxHistory, Tracks(m)
  PROVE  Tracks(PushCheckpoint(m)) /\ Behind(PushCheckpoint(m))
  <1> DEFINE p == PushCheckpoint(m)
             full == Len(m.undo) >= MaxHistory
  <1>0. /\ p \in Model /\ p.redo = <<>> /\ Len(p.redo) = 0 /\ p.saved = m.saved
        /\ Len(p.undo) \in Nat /\ Len(m.undo) \in Nat
    <2>1. p.saved = m.saved
      BY DEF PushCheckpoint, Model
    <2>2. p \in Model /\ p.redo = <<>>
      BY PushType, PushedUndo
    <2> HIDE DEF p
    <2> QED
      BY <2>1, <2>2 DEF Model
  <1>1. /\ p.save = IF full THEN IF m.save = 0 \/ m.save = Evicted
                                   THEN Evicted ELSE m.save - 1
                            ELSE m.save
        /\ ~p.cut => ~m.cut /\ ~(m.save > Len(m.undo))
    BY DEF PushCheckpoint, Model
  <1> SUFFICES ASSUME ~p.cut, p.save # Evicted
               PROVE  /\ p.save < Len(p.undo)
                      /\ p.save \in Nat
                      /\ SameContent(p.undo[p.save + 1], p.saved)
    <2>1. p.save < Len(p.undo) /\ p.save \in Nat => p.save <= Len(p.undo) + 0
      BY <1>0
    <2> QED
      BY <1>0, <2>1 DEF Tracks, Behind, VersionAt
  <1>2. /\ ~m.cut /\ m.save # Evicted /\ m.save \in 0 .. Len(m.undo)
        /\ full => m.save > 0
    <2>1. m.save \in Nat \cup {Evicted}
      BY DEF Model
    <2> QED
      BY <1>0, <1>1, <2>1
  <1>3. SameContent(VersionAt(m, m.save), m.saved)
    BY <1>2 DEF Tracks
  <1>4. CASE ~full
    BY <1>0, <1>1, <1>2, <1>3, <1>4, PushMoves
  <1>5. CASE full
    <2>1. p.save = m.save - 1
      BY <1>1, <1>2, <1>5
    <2>2. m.save - 1 < Len(p.undo) /\ p.undo[m.save] = VersionAt(m, m.save)
      BY <1>2, <1>5, PushMoves
    <2>3. m.save - 1 \in Nat /\ (m.save - 1) + 1 = m.save
      BY <1>0, <1>2, <1>5
    <2> QED
      BY <1>0, <1>3, <2>1, <2>2, <2>3
  <1> QED
    BY <1>4, <1>5

\* Replacing the document leaves the remembered versions alone.
LEMMA ReplaceTracks ==
  ASSUME NEW m \in Model, NEW bp \in Document, Tracks(m),
         Behind(m) \/ SameContent(bp, m.current)
  PROVE  Tracks(ReplaceCurrent(m, bp)) /\ (Behind(m) => Behind(ReplaceCurrent(m, bp)))
  <1> DEFINE q == ReplaceCurrent(m, bp)
  <1>1. /\ q.undo = m.undo /\ q.redo = m.redo /\ q.save = m.save /\ q.current = bp
        /\ q.saved = m.saved /\ q.cut = m.cut
    BY DEF ReplaceCurrent, Model
  <1> HIDE DEF q
  <1>2. Behind(m) => Behind(q)
    BY <1>1 DEF Behind
  <1>3. ASSUME ~m.cut, m.save # Evicted
        PROVE  SameContent(VersionAt(q, m.save), m.saved)
    <2>1. SameContent(VersionAt(m, m.save), m.saved)
      BY <1>3 DEF Tracks
    <2>2. CASE m.save = Len(m.undo) /\ SameContent(bp, m.current)
      <3>1. VersionAt(m, m.save) = m.current /\ VersionAt(q, m.save) = bp
        BY <1>1, <2>2 DEF VersionAt
      <3> QED
        BY <2>1, <2>2, <3>1 DEF SameContent
    <2>3. CASE m.save # Len(m.undo)
      BY <1>1, <2>1, <2>3 DEF VersionAt
    <2>4. Behind(m) => m.save # Len(m.undo)
      BY <1>3 DEF Behind, Model
    <2> QED
      BY <2>2, <2>3, <2>4
  <1>4. Tracks(q)
    BY <1>1, <1>3 DEF Tracks
  <1> QED
    BY <1>2, <1>4 DEF q

\* mark_saved keeps track of the version it marks.
LEMMA SaveTracks ==
  ASSUME NEW m \in Model
  PROVE  Tracks(MarkSaved(m))
  <1>1. /\ MarkSaved(m).undo = m.undo /\ MarkSaved(m).redo = m.redo
        /\ MarkSaved(m).save = Len(m.undo) /\ MarkSaved(m).current = m.current
        /\ MarkSaved(m).saved = m.current
    BY DEF MarkSaved, Model
  <1>2. Len(m.undo) <= Len(m.undo) + Len(m.redo)
    BY DEF Model
  <1>3. VersionAt(MarkSaved(m), Len(m.undo)) = m.current
    BY <1>1 DEF VersionAt, Model
  <1> QED
    BY <1>1, <1>2, <1>3 DEF Tracks, SameContent

\* Every step keeps track of the saved version.
LEMMA SavePointStep ==
  ASSUME IInv, [Next]_vars
  PROVE  SavePointValid'
  <1>0. /\ TypeOK /\ HistoryBounded /\ Frame
        /\ model \in Model /\ before \in Model /\ suppression \in 0 .. MaxNesting
        /\ MaxNesting \in Nat /\ Len(model.undo) <= MaxHistory
        /\ Tracks(model) /\ (suppression > 0 => Behind(model))
    BY SavePointSplit, EditorModelAssumption DEF IInv, TypeOK, HistoryBounded
  <1> SUFFICES Tracks(model') /\ (suppression' > 0 => Behind(model'))
    BY DEF SavePointValid, Tracks, Behind
  <1>1. CASE Edits
    <2>1. PICK bp \in Document : model' = ReplaceCurrent(PushCheckpoint(model), bp)
      BY <1>1 DEF Edits
    <2>2. /\ PushCheckpoint(model) \in Model
          /\ Tracks(PushCheckpoint(model)) /\ Behind(PushCheckpoint(model))
      BY <1>0, PushType, PushTracks
    <2> QED
      BY <2>1, <2>2, ReplaceTracks
  <1>2. CASE Amends
    <2>1. PICK bp \in Document :
            /\ suppression > 0 \/ SameContent(bp, model.current)
            /\ model' = ReplaceCurrent(model, bp) /\ suppression' = suppression
      BY <1>2 DEF Amends
    <2> QED
      BY <1>0, <2>1, ReplaceTracks
  <1>3. CASE Still
    BY <1>0, <1>3 DEF Still
  <1>4. CASE EnterTransaction
    <2>1. CASE suppression = 0
      BY <1>0, <1>4, <2>1, PushTracks DEF EnterTransaction
    <2>2. CASE suppression # 0
      BY <1>0, <1>4, <2>2 DEF EnterTransaction
    <2> QED
      BY <2>1, <2>2
  <1>5. CASE Nested
    <2>1. suppression > 0 \/ suppression = 0
      BY <1>0
    <2>2. LeaveTransaction => suppression > 0
      BY DEF LeaveTransaction
    <2>3. ~LeaveTransaction => suppression' = suppression \/ EnterTransaction
      BY <1>0, <1>5, NextSteps DEF Steps, Edits, Amends, Still, AbortTransaction,
         UndoStep, RedoStep, Save, Load, Nested
    <2> QED
      BY <1>0, <1>4, <1>5, <2>1, <2>2, <2>3 DEF Nested
  <1>6. CASE Kept
    BY <1>0, <1>6 DEF Kept
  <1>7. CASE Discarded
    <2>1. /\ model'.undo = Front(model.undo) /\ model.undo # <<>>
          /\ model'.current = Last(model.undo)
      BY <1>0, <1>7, PushedUndo, PushType DEF Discarded, Frame
    <2>2. /\ model'.save = model.save /\ model'.saved = model.saved
          /\ model'.cut = model.cut /\ suppression' = 0 /\ suppression > 0
      BY <1>7 DEF Discarded
    <2>3. /\ model.undo \in Seq(Document) /\ Len(model.undo) \in Nat
          /\ Len(before.redo) \in Nat
      BY <1>0 DEF Model
    <2>4. Len(model'.redo) = Len(before.redo)
      <3>1. <<>> \in Seq(Document)
        OBVIOUS
      <3> QED
        BY <1>7, <2>3, <3>1, ResizeFacts DEF Discarded
    <2>5. ASSUME ~model.cut, model.save # Evicted
          PROVE  /\ model.save <= Len(model'.undo) + Len(model'.redo)
                 /\ VersionAt(model', model.save) = VersionAt(model, model.save)
      <3> DEFINE u == Len(model.undo)
      <3>1. model.save \in 0 .. u - 1
        BY <1>0, <2>2, <2>3, <2>5 DEF Behind, Model
      <3>2. /\ Len(model'.undo) = u - 1
            /\ \A i \in 1 .. u - 1 : (model'.undo)[i] = model.undo[i]
        BY <2>1, <2>3, FrontLast
      <3>3. model'.current = model.undo[u]
        BY <2>1 DEF Last
      <3> HIDE DEF u
      <3>4. VersionAt(model, model.save) = model.undo[model.save + 1]
        BY <1>0, <2>2, <2>5, <3>1 DEF VersionAt, Behind
      <3>5. VersionAt(model', model.save) =
              IF model.save < u - 1 THEN (model'.undo)[model.save + 1]
              ELSE model'.current
        BY <2>3, <3>1, <3>2 DEF VersionAt, u
      <3>6. VersionAt(model', model.save) = model.undo[model.save + 1]
        BY <2>3, <3>1, <3>2, <3>3, <3>5 DEF u
      <3>7. model.save <= (u - 1) + Len(before.redo)
        <4>1. \A a, b, c \in Nat : a \in 0 .. b - 1 => a <= (b - 1) + c
          OBVIOUS
        <4>2. u \in Nat /\ model.save \in Nat
          BY <2>3, <3>1 DEF u
        <4> QED
          BY <2>3, <3>1, <4>1, <4>2
      <3> QED
        BY <2>4, <3>2, <3>4, <3>6, <3>7
    <2>6. Tracks(model')
      BY <1>0, <2>2, <2>5 DEF Tracks
    <2> QED
      BY <2>2, <2>6
  <1>8. CASE UndoStep
    <2>1. model.undo # <<>> /\ model' = Undo(model) /\ suppression' = 0
      BY <1>8 DEF UndoStep
    <2>2. ~model.cut /\ model.save # Evicted =>
            model.save \in 0 .. Len(model.undo) + Len(model.redo)
      BY <1>0 DEF Tracks, Model
    <2> DEFINE q == Undo(model)
    <2>3. /\ q.save = model.save /\ q.saved = model.saved /\ q.cut = model.cut
          /\ Len(q.undo) + Len(q.redo) = Len(model.undo) + Len(model.redo)
          /\ ~model.cut /\ model.save # Evicted =>
               VersionAt(q, model.save) = VersionAt(model, model.save)
      BY <1>0, <2>1, <2>2, UndoMoves
    <2> HIDE DEF q
    <2>4. Tracks(q)
      BY <1>0, <2>3 DEF Tracks
    <2> QED
      BY <2>1, <2>4 DEF q
  <1>9. CASE RedoStep
    <2>1. model.redo # <<>> /\ model' = Redo(model) /\ suppression' = 0
      BY <1>9 DEF RedoStep
    <2>2. ~model.cut /\ model.save # Evicted =>
            model.save \in 0 .. Len(model.undo) + Len(model.redo)
      BY <1>0 DEF Tracks, Model
    <2> DEFINE q == Redo(model)
    <2>3. /\ q.save = model.save /\ q.saved = model.saved /\ q.cut = model.cut
          /\ Len(q.undo) + Len(q.redo) = Len(model.undo) + Len(model.redo)
          /\ ~model.cut /\ model.save # Evicted =>
               VersionAt(q, model.save) = VersionAt(model, model.save)
      BY <1>0, <2>1, <2>2, RedoMoves
    <2> HIDE DEF q
    <2>4. Tracks(q)
      BY <1>0, <2>3 DEF Tracks
    <2> QED
      BY <2>1, <2>4 DEF q
  <1>10. CASE Save
    BY <1>0, <1>10, SaveTracks DEF Save
  <1>11. CASE Load
    BY <1>11, FreshType, SaveTracks, BlueprintAssumption DEF Load, Loadable
  <1> QED
    BY <1>0, <1>1, <1>2, <1>3, <1>4, <1>5, <1>6, <1>7, <1>8, <1>9, <1>10, <1>11,
       NextSteps, EndSteps DEF Steps

\* The strengthened invariant holds in every reachable state.
LEMMA Invariance == Spec => []IInv
  <1>1. Init => IInv
    <2> SUFFICES ASSUME Init PROVE IInv
      OBVIOUS
    <2>1. PICK bp \in Document : model = Fresh(bp)
      BY BlueprintAssumption DEF Init, Loadable
    <2>2. suppression = 0
      BY DEF Init
    <2>3. Len(model.undo) = 0 /\ Len(model.redo) = 0 /\ model.save = 0
          /\ model.current = bp /\ model.saved = bp
      BY <2>1, EmptySeq DEF Fresh
    <2>4. HistoryBounded
      BY <2>3, EditorModelAssumption DEF HistoryBounded
    <2>5. VersionAt(model, 0) = bp
      BY <2>3 DEF VersionAt
    <2>6. SavePointValid
      BY <2>2, <2>3, <2>5 DEF SavePointValid, SameContent
    <2> QED
      BY <2>2, <2>4, <2>6, InitType DEF IInv, Frame
  <1>2. IInv /\ [Next]_vars => IInv'
    BY TypeStep, BoundStep, FrameStep, SavePointStep DEF IInv
  <1> QED
    BY <1>1, <1>2, PTL DEF Spec

-----------------------------------------------------------------------------
(* Theorems.                                                               *)

\* The editor model never leaves its types, transactions never nest deeper
\* than they can, and what a step computes is a document again.
THEOREM TypeCorrect == Spec => []TypeOK
  <1>1. IInv => TypeOK
    BY DEF IInv
  <1> QED
    BY <1>1, Invariance, PTL

\* Undo and redo together hold at most max_history_ versions, although redo
\* and the resize of a no-op transaction never look at the limit.
THEOREM HistoryStaysBounded == Spec => []HistoryBounded
  <1>1. IInv => HistoryBounded
    BY DEF IInv
  <1> QED
    BY <1>1, Invariance, PTL

\* save_depth_ names the saved version as long as any stack holds it.
THEOREM SavePointCorrect == Spec => []SavePointValid
  <1>1. IInv => SavePointValid
    BY DEF IInv
  <1> QED
    BY <1>1, Invariance, PTL

\* A document shown without the asterisk has the content of its file; the
\* branch hazard above is the only exception.
CleanMeansSaved ==
  ~model.cut /\ ~IsDirty(model) => SameContent(model.current, model.saved)

\* What the asterisk in the title of a document is worth (Document::is_modified).
THEOREM CleanIsSaved == Spec => []CleanMeansSaved
  <1>1. IInv => CleanMeansSaved
    <2> SUFFICES ASSUME IInv, ~model.cut, ~IsDirty(model)
                 PROVE  SameContent(model.current, model.saved)
      BY DEF CleanMeansSaved
    <2>1. model.save = Len(model.undo) /\ Len(model.undo) \in Nat
      BY DEF IInv, IsDirty, TypeOK, Model
    <2>2. model.save # Evicted
      BY <2>1 DEF Evicted
    <2>3. VersionAt(model, model.save) = model.current
      BY <2>1 DEF VersionAt
    <2> QED
      BY <2>2, <2>3 DEF IInv, SavePointValid
  <1> QED
    BY <1>1, Invariance, PTL

\* An aborted transaction restores the document and, unless the checkpoint had
\* to push out the oldest version, everything that Undo would do.
THEOREM AbortIsClean == Spec => AbortRestores
  <1>1. IInv /\ [Next]_vars =>
          [AbortTransaction =>
             /\ model'.current = before.current
             /\ before.undo # <<>> /\ Len(before.undo) < MaxHistory =>
                  model'.undo = before.undo]_vars
    <2> SUFFICES ASSUME IInv, AbortTransaction
                 PROVE  /\ model'.current = before.current
                        /\ Len(before.undo) < MaxHistory => model'.undo = before.undo
      OBVIOUS
    <2>1. Discarded
      BY EndSteps DEF IInv
    <2>2. Len(before.undo) \in Nat /\ MaxHistory \in Nat
      BY EditorModelAssumption DEF IInv, TypeOK, Model
    <2> QED
      BY <2>1, <2>2 DEF Discarded
  <1> QED
    BY <1>1, Invariance, PTL DEF Spec, AbortRestores

\* The commands of a transaction leave the history alone, at any nesting.
THEOREM TransactionIsOneStep == Spec => OneUndoStep
  <1>1. IInv /\ [Next]_vars =>
          [suppression > 0 /\ suppression' > 0 =>
             /\ model'.undo = model.undo
             /\ Last(model'.undo) = before.current
             /\ model'.redo = <<>>]_vars
    <2> SUFFICES ASSUME IInv, [Next]_vars, suppression > 0, suppression' > 0
                 PROVE  /\ model'.undo = model.undo
                        /\ Last(model'.undo) = before.current
                        /\ model'.redo = <<>>
      OBVIOUS
    <2>0. /\ model \in Model /\ before \in Model /\ suppression \in 0 .. MaxNesting
          /\ MaxNesting \in Nat
      BY EditorModelAssumption DEF IInv, TypeOK
    <2>1. model.redo = <<>> /\ Last(model.undo) = before.current
      BY <2>0, PushedUndo DEF IInv, Frame
    <2>2. Amends => model'.undo = model.undo /\ model'.redo = model.redo
      BY <2>0 DEF Amends, ReplaceCurrent, Model
    <2>3. Steps /\ ~Amends => UNCHANGED model
      BY <2>0, EndSteps DEF Steps, Edits, Still, EnterTransaction, UndoStep, RedoStep,
         Save, Load, Nested, Kept, Discarded, IInv
    <2>4. model'.undo = model.undo /\ model'.redo = model.redo
      BY <2>2, <2>3, NextSteps DEF IInv
    <2> QED
      BY <2>1, <2>4
  <1> QED
    BY <1>1, Invariance, PTL DEF Spec, OneUndoStep

-----------------------------------------------------------------------------
(* The editor model implements the abstract edit history.                  *)

\* The initial states are initial states of EditHistory.
LEMMA ShownInit == Init => History!Init
  <1> SUFFICES ASSUME Init PROVE History!Init
    OBVIOUS
  <1>1. PICK bp \in Document : model = Fresh(bp)
    BY BlueprintAssumption DEF Init, Loadable
  <1>2. Shown = model
    BY DEF Init, Shown
  <1> QED
    BY <1>1, <1>2 DEF History!Init, Fresh

\* Every step is a step of EditHistory, or a stutter.
LEMMA ShownStep == IInv /\ [Next]_vars => [History!Next]_(History!vars)
  <1> SUFFICES ASSUME IInv, [Next]_vars
               PROVE  History!Next \/ Shown' = Shown
    BY DEF History!vars
  <1>0. /\ model \in Model /\ before \in Model /\ suppression \in 0 .. MaxNesting
        /\ MaxNesting \in Nat /\ model.current \in Document
        /\ TypeOK /\ Frame
    BY EditorModelAssumption DEF IInv, TypeOK, Model
  <1>1. CASE Edits
    <2>1. PICK bp \in Document : model' = ReplaceCurrent(PushCheckpoint(model), bp)
      BY <1>1 DEF Edits
    <2>2. Shown = model /\ Shown' = model'
      BY <1>1 DEF Edits, Shown
    <2>3. /\ model'.undo = PushCheckpoint(model).undo /\ model'.redo = <<>>
          /\ model'.current = bp
      BY <1>0, <2>1, PushType, PushedUndo DEF ReplaceCurrent, Model
    <2>4. PushCheckpoint(model).undo = History!Remember(model.undo, model.current)
      BY <1>0 DEF PushCheckpoint, History!Remember, Model
    <2>5. History!Edit
      BY <2>2, <2>3, <2>4 DEF History!Edit
    <2> QED
      BY <2>5 DEF History!Next
  <1>2. CASE Amends
    <2>1. CASE suppression > 0
      BY <1>2, <2>1 DEF Amends, Shown
    <2>2. CASE suppression = 0
      <3>1. PICK bp \in Document : model' = ReplaceCurrent(model, bp)
        BY <1>2 DEF Amends
      <3>2. Shown = model /\ Shown' = model'
        BY <1>2, <2>2 DEF Amends, Shown
      <3>3. History!Amend
        BY <1>0, <3>1, <3>2 DEF History!Amend, ReplaceCurrent, Model
      <3> QED
        BY <3>3 DEF History!Next
    <2> QED
      BY <1>0, <2>1, <2>2
  <1>3. CASE Still
    BY <1>3 DEF Still, Shown
  <1>4. CASE EnterTransaction
    BY <1>0, <1>4 DEF EnterTransaction, Shown
  <1>5. CASE LeaveTransaction /\ Nested
    BY <1>0, <1>5 DEF LeaveTransaction, Nested, Shown
  <1>6. CASE Kept
    <2>1. Shown = before /\ Shown' = model /\ suppression > 0
      BY <1>6 DEF Kept, Shown
    <2>2. model.undo = PushCheckpoint(before).undo /\ model.redo = <<>>
      BY <1>0, <2>1 DEF Frame
    <2>3. PushCheckpoint(before).undo = History!Remember(before.undo, before.current)
      BY <1>0 DEF PushCheckpoint, History!Remember, Model
    <2>4. History!Edit
      BY <1>0, <2>1, <2>2, <2>3 DEF History!Edit
    <2> QED
      BY <2>4 DEF History!Next
  <1>7. CASE Discarded
    <2>1. Shown = before /\ Shown' = model'
      BY <1>7 DEF Discarded, Shown
    <2>2. Len(<<>>) = 0 /\ Len(before.redo) \in Nat
      BY <1>0 DEF Model
    <2>3. Resize(<<>>, Len(before.redo)) = [i \in 1 .. Len(before.redo) |-> EmptyDocument]
      BY <2>2 DEF Resize
    <2>4. History!Nothing
      BY <1>7, <2>1, <2>3 DEF Discarded, History!Nothing
    <2> QED
      BY <2>4 DEF History!Next
  <1>8. CASE UndoStep
    <2>1. Shown = model /\ Shown' = Undo(model) /\ model.undo # <<>>
      BY <1>8 DEF UndoStep, Shown
    <2>2. History!Undo
      BY <1>0, <2>1 DEF Undo, History!Undo, Front, Last, Model
    <2> QED
      BY <2>2 DEF History!Next
  <1>9. CASE RedoStep
    <2>1. Shown = model /\ Shown' = Redo(model) /\ model.redo # <<>>
      BY <1>9 DEF RedoStep, Shown
    <2>2. History!Redo
      BY <1>0, <2>1 DEF Redo, History!Redo, Front, Last, Model
    <2> QED
      BY <2>2 DEF History!Next
  <1>10. CASE Save
    <2>1. Shown = model /\ Shown' = MarkSaved(model)
      BY <1>10 DEF Save, Shown
    <2>2. History!Amend
      BY <1>0, <2>1 DEF MarkSaved, History!Amend, Model
    <2> QED
      BY <2>2 DEF History!Next
  <1>11. CASE Load
    <2>1. PICK bp \in Document : model' = MarkSaved(Fresh(bp))
      BY <1>11, BlueprintAssumption DEF Load, Loadable
    <2>2. Shown' = model'
      BY <1>11 DEF Load, Shown
    <2>3. Fresh(bp) \in Model
      BY FreshType
    <2>4. model'.undo = <<>> /\ model'.redo = <<>> /\ model'.current = bp
      BY <2>1 DEF MarkSaved, Fresh
    <2>5. History!Open
      BY <2>2, <2>4 DEF History!Open
    <2> QED
      BY <2>5 DEF History!Next
  <1> QED
    BY <1>0, <1>1, <1>2, <1>3, <1>4, <1>5, <1>6, <1>7, <1>8, <1>9, <1>10, <1>11,
       NextSteps, EndSteps DEF Steps

\* Undo and redo of the editor are those of the abstract history: each
\* transaction one edit, or nothing.
THEOREM HistoryImplemented == Spec => ImplementsHistory
  <1>1. Init => History!Init
    BY ShownInit
  <1>2. IInv /\ [Next]_vars => [History!Next]_(History!vars)
    BY ShownStep
  <1> QED
    BY <1>1, <1>2, Invariance, PTL DEF Spec, ImplementsHistory, History!Spec

-----------------------------------------------------------------------------
(* The lookup indices.                                                     *)

\* Every step keeps the indices fresh.
LEMMA IndicesStep ==
  ASSUME TypeOK, IndicesFresh, [Next]_vars
  PROVE  IndicesFresh'
  <1>0. model \in Model
    BY DEF TypeOK
  <1>1. CASE indices' = NoIndices
    BY <1>1 DEF IndicesFresh, NoIndices
  <1>2. CASE UNCHANGED indices /\ model'.current = model.current
    BY <1>2 DEF IndicesFresh
  <1>3. CASE EnsureIndices
    BY <1>3 DEF EnsureIndices, IndicesFresh
  <1>4. CASE AddWire
    BY <1>1, <1>2, <1>4 DEF AddWire, Commit
  <1>5. CASE Checkpoint \/ EnterTransaction \/ Save
    <2>1. /\ PushCheckpoint(model).current = model.current
          /\ MarkSaved(model).current = model.current
      BY <1>0 DEF PushCheckpoint, MarkSaved, Model
    <2> QED
      BY <1>2, <1>5, <2>1 DEF Checkpoint, EnterTransaction, Save
  <1> QED
    BY <1>1, <1>2, <1>3, <1>4, <1>5 DEF Next, vars, Command, AddNode, RemoveNode,
       Commit, RemoveNodeAndWires, RemoveWire, UpdateNode, UpdateWire,
       MutateEmbedded, CheckpointAndReplace, ReplaceInTransaction, Rename,
       LeaveTransaction, AbortTransaction, UndoStep, RedoStep, Load

\* nodes_in_rect and wire_exists answer from the document that is shown,
\* whichever command, undo, redo, rollback or load came last.
THEOREM IndicesStayFresh == Spec => []IndicesFresh
  <1>1. Init => IndicesFresh
    BY DEF Init, IndicesFresh, NoIndices
  <1>2. TypeOK /\ IndicesFresh /\ [Next]_vars => IndicesFresh'
    BY IndicesStep
  <1> QED
    BY <1>1, <1>2, TypeCorrect, PTL DEF Spec

-----------------------------------------------------------------------------
(* Wire numbers.                                                           *)

\* The drawn wires of a document have numbers below k, and no two the same.
Numbered(bp, k) == \A v, w \in Drawn(bp) : v.id < k /\ (v.id = w.id => v = w)

\* Every version that the editor can show again.
Remembered(m) == {m.current} \cup Range(m.undo) \cup Range(m.redo)

\* The strengthening of DrawnWiresFresh, which is about positions in the stacks.
AllNumbered == \A bp \in Remembered(model) : Numbered(bp, next_wire_id)

\* A version at a position of the line of versions is remembered.
LEMMA VersionsRemembered ==
  ASSUME NEW m \in Model, NEW i \in 0 .. Len(m.undo) + Len(m.redo)
  PROVE  VersionAt(m, i) \in Remembered(m)
  <1>0. /\ Len(m.undo) \in Nat /\ Len(m.redo) \in Nat
        /\ DOMAIN m.undo = 1 .. Len(m.undo) /\ DOMAIN m.redo = 1 .. Len(m.redo)
    BY DEF Model
  <1>1. CASE i < Len(m.undo)
    <2>1. i + 1 \in DOMAIN m.undo
      BY <1>0, <1>1
    <2> QED
      BY <1>1, <2>1 DEF VersionAt, Remembered, Range
  <1>2. CASE i = Len(m.undo)
    BY <1>2 DEF VersionAt, Remembered
  <1>3. CASE i > Len(m.undo)
    <2> DEFINE k == Len(m.redo) - (i - Len(m.undo)) + 1
    <2>0. \A a, b \in Nat : \A j \in 0 .. a + b : j > a => b - (j - a) + 1 \in 1 .. b
      OBVIOUS
    <2>1. k \in DOMAIN m.redo
      BY <1>0, <1>3, <2>0
    <2>2. VersionAt(m, i) = m.redo[k]
      BY <1>0, <1>3 DEF VersionAt
    <2> QED
      BY <2>1, <2>2 DEF Remembered, Range
  <1> QED
    BY <1>0, <1>1, <1>2, <1>3

\* What appending, removing the last and removing the first do to the range.
LEMMA StackRange ==
  ASSUME NEW s \in Seq(Document)
  PROVE  /\ \A bp \in Document : Range(Append(s, bp)) = Range(s) \cup {bp}
         /\ s # <<>> => /\ Range(Front(s)) \subseteq Range(s)
                        /\ Range(Tail(s)) \subseteq Range(s)
                        /\ Last(s) \in Range(s)
  <1>1. ASSUME NEW bp \in Document
        PROVE  Range(Append(s, bp)) = Range(s) \cup {bp}
    <2>1. /\ DOMAIN Append(s, bp) = 1 .. Len(s) + 1 /\ DOMAIN s = 1 .. Len(s)
          /\ \A i \in 1 .. Len(s) : Append(s, bp)[i] = s[i]
          /\ Append(s, bp)[Len(s) + 1] = bp /\ Len(s) \in Nat
      OBVIOUS
    <2> QED
      BY <2>1 DEF Range
  <1>2. ASSUME s # <<>>
        PROVE  /\ Range(Front(s)) \subseteq Range(s)
               /\ Range(Tail(s)) \subseteq Range(s)
               /\ Last(s) \in Range(s)
    <2>0. /\ Len(s) \in Nat /\ Len(s) >= 1 /\ DOMAIN s = 1 .. Len(s)
      BY <1>2, FrontLast
    <2>1. /\ DOMAIN Front(s) = 1 .. Len(s) - 1
          /\ \A i \in 1 .. Len(s) - 1 : Front(s)[i] = s[i]
      BY <1>2, FrontLast
    <2>2. /\ DOMAIN Tail(s) = 1 .. Len(s) - 1
          /\ \A i \in 1 .. Len(s) - 1 : Tail(s)[i] = s[i + 1]
      BY <1>2, TailFacts
    <2>3. Last(s) = s[Len(s)]
      BY DEF Last
    <2>4. Range(Front(s)) \subseteq Range(s)
      BY <2>0, <2>1 DEF Range
    <2>5. Range(Tail(s)) \subseteq Range(s)
      BY <2>0, <2>2 DEF Range
    <2>6. Len(s) \in DOMAIN s
      BY <2>0
    <2>7. Last(s) \in Range(s)
      BY <2>3, <2>6 DEF Range
    <2> QED
      BY <2>4, <2>5, <2>7
  <1> QED
    BY <1>1, <1>2

\* No operation on the history remembers a version that it was not given; only
\* resize adds one, and that one is empty.
LEMMA HistoryRemembers ==
  ASSUME NEW m \in Model
  PROVE  /\ Remembered(PushCheckpoint(m)) \subseteq Remembered(m)
         /\ Remembered(MarkSaved(m)) = Remembered(m)
         /\ \A bp \in Document :
              /\ Remembered(ReplaceCurrent(m, bp)) \subseteq Remembered(m) \cup {bp}
              /\ Remembered(Fresh(bp)) = {bp}
         /\ m.undo # <<>> =>
              /\ Remembered(Undo(m)) \subseteq Remembered(m)
              /\ \A n \in Nat :
                   /\ Remembered(Settle(m, n)) \subseteq Remembered(m) \cup {EmptyDocument}
                   /\ Remembered(Rollback(m, n)) \subseteq Remembered(m) \cup {EmptyDocument}
         /\ m.redo # <<>> => Remembered(Redo(m)) \subseteq Remembered(m)
  <1>0. m.undo \in Seq(Document) /\ m.redo \in Seq(Document) /\ m.current \in Document
    BY DEF Model
  <1>1. Range(<<>>) = {}
    BY DEF Range
  <1>2. Remembered(PushCheckpoint(m)) \subseteq Remembered(m)
    <2> DEFINE kept == IF Len(m.undo) >= MaxHistory THEN Tail(m.undo) ELSE m.undo
    <2>1. kept \in Seq(Document) /\ Range(kept) \subseteq Range(m.undo)
      <3>1. CASE Len(m.undo) >= MaxHistory
        <4>1. m.undo # <<>>
          BY <3>1, EditorModelAssumption
        <4> QED
          BY <1>0, <3>1, <4>1, StackRange, TailFacts
      <3>2. CASE ~(Len(m.undo) >= MaxHistory)
        BY <1>0, <3>2
      <3> QED
        BY <3>1, <3>2
    <2>2. /\ PushCheckpoint(m).undo = Append(kept, m.current)
          /\ PushCheckpoint(m).redo = <<>> /\ PushCheckpoint(m).current = m.current
      BY DEF PushCheckpoint, Model
    <2> HIDE DEF kept
    <2>3. Range(Append(kept, m.current)) = Range(kept) \cup {m.current}
      BY <1>0, <2>1, StackRange
    <2> QED
      BY <1>1, <2>1, <2>2, <2>3 DEF Remembered
  <1>3. Remembered(MarkSaved(m)) = Remembered(m)
    BY DEF MarkSaved, Remembered, Model
  <1>4. ASSUME NEW bp \in Document
        PROVE  /\ Remembered(ReplaceCurrent(m, bp)) \subseteq Remembered(m) \cup {bp}
               /\ Remembered(Fresh(bp)) = {bp}
    BY <1>1 DEF ReplaceCurrent, Fresh, Remembered, Model
  <1>5. ASSUME m.undo # <<>>
        PROVE  Remembered(Undo(m)) \subseteq Remembered(m)
    <2>1. /\ Undo(m).undo = Front(m.undo) /\ Undo(m).redo = Append(m.redo, m.current)
          /\ Undo(m).current = Last(m.undo)
      BY DEF Undo, Model
    <2> QED
      BY <1>0, <1>5, <2>1, StackRange DEF Remembered
  <1>6. ASSUME m.redo # <<>>
        PROVE  Remembered(Redo(m)) \subseteq Remembered(m)
    <2>1. /\ Redo(m).redo = Front(m.redo) /\ Redo(m).undo = Append(m.undo, m.current)
          /\ Redo(m).current = Last(m.redo)
      BY DEF Redo, Model
    <2> QED
      BY <1>0, <1>6, <2>1, StackRange DEF Remembered
  <1>7. ASSUME m.undo # <<>>, NEW n \in Nat
        PROVE  /\ Remembered(Settle(m, n)) \subseteq Remembered(m) \cup {EmptyDocument}
               /\ Remembered(Rollback(m, n)) \subseteq Remembered(m) \cup {EmptyDocument}
    <2>1. Range(Resize(m.redo, n)) \subseteq Range(m.redo) \cup {EmptyDocument}
      <3>1. /\ DOMAIN Resize(m.redo, n) = 1 .. n /\ DOMAIN m.redo = 1 .. Len(m.redo)
            /\ \A i \in 1 .. n : Resize(m.redo, n)[i] =
                                   IF i <= Len(m.redo) THEN m.redo[i] ELSE EmptyDocument
        BY <1>0 DEF Resize
      <3>2. Len(m.redo) \in Nat
        BY <1>0
      <3> QED
        BY <3>1, <3>2 DEF Range
    <2>2. Range(Front(m.undo)) \subseteq Range(m.undo) /\ Last(m.undo) \in Range(m.undo)
      BY <1>0, <1>7, StackRange
    <2>3. /\ DropCheckpoint(m, n).undo = Front(m.undo)
          /\ DropCheckpoint(m, n).redo = Resize(m.redo, n)
          /\ DropCheckpoint(m, n).current = m.current
      BY DEF DropCheckpoint, Model
    <2>4. /\ Rollback(m, n).undo = Front(m.undo)
          /\ Rollback(m, n).redo = Resize(m.redo, n)
          /\ Rollback(m, n).current = Last(m.undo)
      BY DEF Rollback, DropCheckpoint, ReplaceCurrent, Model
    <2> QED
      BY <2>1, <2>2, <2>3, <2>4 DEF Settle, Remembered
  <1> QED
    BY <1>2, <1>3, <1>4, <1>5, <1>6, <1>7

\* A larger number leaves numbered what was numbered.
LEMMA NumberedMonotone ==
  ASSUME NEW bp \in Document, NEW j \in Nat, NEW k \in Nat, j <= k, Numbered(bp, j)
  PROVE  Numbered(bp, k)
  <1>1. ASSUME NEW v \in Drawn(bp)
        PROVE  v.id < k
    <2>1. v.id \in Int
      BY BlueprintAssumption DEF Document, Wire, WireId, Drawn
    <2> QED
      BY <2>1 DEF Numbered
  <1> QED
    BY <1>1 DEF Numbered

\* Documents that remove wires, change them or leave them alone stay numbered.
LEMMA NumberedEdits ==
  ASSUME NEW bp \in Document, NEW k \in Nat, Numbered(bp, k)
  PROVE  /\ \A new : new.wires = bp.wires => Numbered(new, k)
         /\ \A id : Numbered(WithoutNode(bp, id), k) /\ Numbered(WithoutWire(bp, id), k)
         /\ \A id, ids : Numbered(WithoutNodeAndWires(bp, id, ids), k)
         /\ \A n : Numbered(WithNode(bp, n), k) /\ Numbered(ReplaceNode(bp, n), k)
         /\ \A w \in bp.wires : \A source, target, route :
              LET updated == [w EXCEPT !.source = source, !.target = target,
                                       !.route = route]
              IN  Numbered(ReplaceWire(bp, updated), k)
         /\ \A id, sheet : Numbered(WithDef(bp, id, sheet), k)
  <1>1. \A new : new.wires = bp.wires => Numbered(new, k)
    BY DEF Numbered, Drawn
  <1>2. /\ \A id : Numbered(WithoutNode(bp, id), k) /\ Numbered(WithoutWire(bp, id), k)
        /\ \A id, ids : Numbered(WithoutNodeAndWires(bp, id, ids), k)
    BY DEF Numbered, Drawn, WithoutNode, WithoutNodeAndWires, WithoutWire, Document
  <1>3. \A n : Numbered(WithNode(bp, n), k) /\ Numbered(ReplaceNode(bp, n), k)
    BY DEF Numbered, Drawn, WithNode, ReplaceNode, Document
  <1>4. ASSUME NEW w \in bp.wires, NEW source, NEW target, NEW route
        PROVE  LET updated == [w EXCEPT !.source = source, !.target = target,
                                        !.route = route]
               IN  Numbered(ReplaceWire(bp, updated), k)
    <2> DEFINE updated == [w EXCEPT !.source = source, !.target = target,
                                    !.route = route]
               new  == ReplaceWire(bp, updated)
               same == {v \in bp.wires : v.id = w.id}
    <2>1. updated.id = w.id /\ w.id \in Int
      BY BlueprintAssumption DEF Document, Wire, WireId
    <2>2. /\ new.wires \subseteq (bp.wires \ same) \cup {updated, [updated EXCEPT !.route = NoRoute]}
          /\ (\A u, v \in same : u = v) => new.wires = (bp.wires \ same) \cup {updated}
      <3> HIDE DEF updated
      <3>1. same = {v \in bp.wires : v.id = updated.id}
        BY <2>1
      <3> QED
        BY <3>1 DEF ReplaceWire, Document
    <2>3. [updated EXCEPT !.route = NoRoute].id = w.id
      BY DEF Document, Wire
    <2> HIDE DEF updated, new
    <2>4. CASE w.id >= 0
      <3>1. same \subseteq Drawn(bp) /\ w \in Drawn(bp)
        BY <2>4 DEF Drawn
      <3>2. (\A u, v \in same : u = v) /\ w.id < k
        BY <3>1 DEF Numbered
      <3> QED
        BY <2>1, <2>2, <3>2 DEF Numbered, Drawn, new, updated
    <2>5. CASE ~(w.id >= 0)
      <3>1. Drawn(new) \subseteq Drawn(bp)
        BY <2>1, <2>2, <2>3, <2>5 DEF Drawn
      <3> QED
        BY <3>1 DEF Numbered, new, updated
    <2> QED
      BY <2>1, <2>4, <2>5
  <1>5. \A id, sheet : Numbered(WithDef(bp, id, sheet), k)
    BY <1>3 DEF WithDef
  <1> QED
    BY <1>1, <1>2, <1>3, <1>4, <1>5

\* A command that leads to a numbered document keeps every version numbered.
LEMMA CommitNumbers ==
  ASSUME TypeOK, AllNumbered, NEW bp \in Document, Commit(bp),
         next_wire_id' \in Nat, next_wire_id <= next_wire_id',
         Numbered(bp, next_wire_id')
  PROVE  AllNumbered'
  <1>0. model \in Model /\ next_wire_id \in Nat
    BY BlueprintAssumption DEF TypeOK
  <1>1. Remembered(model') \subseteq Remembered(model) \cup {bp}
    BY <1>0, HistoryRemembers, PushType DEF Commit
  <1>2. Remembered(model) \subseteq Document
    BY <1>0 DEF Remembered, Range, Model
  <1>3. \A old \in Remembered(model) : Numbered(old, next_wire_id')
    BY <1>0, <1>2, NumberedMonotone DEF AllNumbered
  <1> QED
    BY <1>1, <1>3 DEF AllNumbered

\* So does a step that remembers nothing new but the empty document.
LEMMA KeptNumbers ==
  ASSUME AllNumbered, Remembered(model') \subseteq Remembered(model) \cup {EmptyDocument},
         UNCHANGED next_wire_id
  PROVE  AllNumbered'
  <1>1. Numbered(EmptyDocument, next_wire_id)
    BY DEF Numbered, Drawn, EmptyDocument
  <1> QED
    BY <1>1 DEF AllNumbered

\* Every command keeps every version numbered.
LEMMA CommandNumbers ==
  ASSUME TypeOK, AllNumbered, Command, next_wire_id' \in Nat
  PROVE  AllNumbered'
  <1>0. /\ model.current \in Document /\ Sheets \subseteq Sheet
        /\ next_wire_id \in Nat /\ WireLimit \in Nat
        /\ Numbered(model.current, next_wire_id)
    BY BlueprintAssumption DEF TypeOK, Model, AllNumbered, Remembered
  <1> DEFINE bp == model.current
  <1>a. ASSUME NEW new \in Document, Commit(new), UNCHANGED next_wire_id,
               Numbered(new, next_wire_id)
        PROVE  AllNumbered'
    BY <1>0, <1>a, CommitNumbers
  <1>b. /\ \A id : Numbered(WithoutNode(bp, id), next_wire_id)
                   /\ Numbered(WithoutWire(bp, id), next_wire_id)
        /\ \A id, ids : Numbered(WithoutNodeAndWires(bp, id, ids), next_wire_id)
        /\ \A n : Numbered(WithNode(bp, n), next_wire_id)
                  /\ Numbered(ReplaceNode(bp, n), next_wire_id)
        /\ \A id, sheet : Numbered(WithDef(bp, id, sheet), next_wire_id)
    BY <1>0, NumberedEdits
  <1>1. CASE AddNode
    <2>1. PICK id \in NodeId, data \in Content, def \in {NoSheet} \cup Sheets :
            Commit(WithNode(bp, [id |-> id, data |-> data, def |-> def]))
      BY <1>1 DEF AddNode
    <2>2. [id |-> id, data |-> data, def |-> def] \in Node
      BY <1>0 DEF Node
    <2>3. WithNode(bp, [id |-> id, data |-> data, def |-> def]) \in Document
      BY <1>0, <2>2, WithNodeType
    <2> QED
      BY <1>1, <1>a, <1>b, <2>1, <2>3 DEF AddNode
  <1>2. CASE RemoveNode
    BY <1>0, <1>2, <1>a, <1>b, NodeOpsType DEF RemoveNode
  <1>3. CASE RemoveNodeAndWires
    BY <1>0, <1>3, <1>a, <1>b, NodeOpsType DEF RemoveNodeAndWires
  <1>4. CASE AddWire
    <2>1. PICK source \in Endpoint, target \in Endpoint, route \in Route :
            LET w == [id |-> next_wire_id, source |-> source,
                      target |-> target, route |-> route]
            IN  /\ next_wire_id < WireLimit /\ next_wire_id' = next_wire_id + 1
                /\ \/ UNCHANGED model
                   \/ Commit(WithWire(bp, w))
      BY <1>4 DEF AddWire
    <2> DEFINE w == [id |-> next_wire_id, source |-> source,
                     target |-> target, route |-> route]
    <2>2. w \in Wire /\ w.id = next_wire_id
      BY <1>0, <2>1, BlueprintAssumption DEF Wire, WireId
    <2> HIDE DEF w
    <2>3. WithWire(bp, w) \in Document
      BY <1>0, <2>2, WithWireType
    <2>4. Numbered(WithWire(bp, w), next_wire_id')
      <3>1. WithWire(bp, w).wires = bp.wires \cup {w}
        BY <1>0 DEF WithWire, Document
      <3>2. \A v \in Drawn(bp) : v.id < next_wire_id /\ v.id \in Int
        BY <1>0, BlueprintAssumption DEF Numbered, Drawn, Document, Wire, WireId
      <3>3. \A v \in Drawn(bp) : v.id < next_wire_id' /\ v.id # w.id
        BY <1>0, <2>1, <2>2, <3>2
      <3>4. w.id < next_wire_id'
        BY <1>0, <2>1, <2>2
      <3> QED
        BY <1>0, <3>1, <3>3, <3>4 DEF Numbered, Drawn
    <2>5. next_wire_id <= next_wire_id'
      BY <1>0, <2>1
    <2>6. CASE UNCHANGED model
      <3>1. Remembered(model) \subseteq Document
        BY DEF TypeOK, Remembered, Range, Model
      <3> QED
        BY <1>0, <2>5, <2>6, <3>1, NumberedMonotone DEF AllNumbered
    <2> QED
      BY <2>1, <2>3, <2>4, <2>5, <2>6, CommitNumbers DEF w
  <1>5. CASE RemoveWire
    <2>1. PICK id \in WireId : Commit(WithoutWire(bp, id))
      BY <1>5 DEF RemoveWire
    <2>2. WithoutWire(bp, id) \in Document
      BY <1>0 DEF WithoutWire, Document
    <2> QED
      BY <1>5, <1>a, <1>b, <2>1, <2>2 DEF RemoveWire
  <1>6. CASE UpdateNode
    <2>1. PICK n \in bp.nodes, data \in Content :
            Commit(ReplaceNode(bp, [n EXCEPT !.data = data]))
      BY <1>6 DEF UpdateNode
    <2>2. [n EXCEPT !.data = data] \in Node
      BY <1>0 DEF Node, Document
    <2>3. ReplaceNode(bp, [n EXCEPT !.data = data]) \in Document
      BY <1>0, <2>2, WithNodeType
    <2> QED
      BY <1>6, <1>a, <1>b, <2>1, <2>3 DEF UpdateNode
  <1>7. CASE UpdateWire
    <2>1. PICK w \in bp.wires, source \in Endpoint, target \in Endpoint, route \in Route :
            Commit(ReplaceWire(bp, [w EXCEPT !.source = source, !.target = target,
                                             !.route = route]))
      BY <1>7 DEF UpdateWire
    <2> DEFINE updated == [w EXCEPT !.source = source, !.target = target,
                                    !.route = route]
    <2>2. updated \in Wire
      BY <1>0 DEF Wire, Document
    <2> HIDE DEF updated
    <2>3. ReplaceWire(bp, updated) \in Document
      BY <1>0, <2>2, WithWireType
    <2>4. Numbered(ReplaceWire(bp, updated), next_wire_id)
      BY <1>0, NumberedEdits DEF updated
    <2> QED
      BY <1>0, <1>7, <2>1, <2>3, <2>4, CommitNumbers DEF UpdateWire, updated
  <1>8. CASE MutateEmbedded
    <2>1. PICK id \in NodeId, sheet \in Sheets :
            Hosts(bp, id) /\ Commit(WithDef(bp, id, sheet))
      BY <1>8 DEF MutateEmbedded
    <2>2. WithDef(bp, id, sheet) \in Document
      BY <1>0, <2>1, WithDefType
    <2> QED
      BY <1>8, <1>a, <1>b, <2>1, <2>2 DEF MutateEmbedded
  <1> QED
    BY <1>1, <1>2, <1>3, <1>4, <1>5, <1>6, <1>7, <1>8 DEF Command

\* What is loaded is numbered by the count that load starts from.
LEMMA LoadedNumbered ==
  ASSUME NEW bp \in Loadable, NEW k \in 0 .. WireLimit, NextFreeWireId(bp, k)
  PROVE  bp \in Document /\ Numbered(bp, k)
  BY BlueprintAssumption DEF Loadable, Valid, ValidSheet, NextFreeWireId, Numbered, Drawn

\* Every step keeps every version numbered.
LEMMA NumbersStep ==
  ASSUME IInv, AllNumbered, [Next]_vars
  PROVE  AllNumbered'
  <1>0. /\ TypeOK /\ model \in Model /\ next_wire_id \in Nat /\ next_wire_id' \in Nat
        /\ Len(before.redo) \in Nat
        /\ suppression > 0 => model.undo # <<>>
    BY NumberType, PushType, BlueprintAssumption DEF IInv, TypeOK, Frame, Model
  <1>1. CASE Command
    BY <1>0, <1>1, CommandNumbers
  <1>2. CASE CheckpointAndReplace \/ ReplaceInTransaction
    <2>1. PICK bp \in Derived : /\ \/ model' = ReplaceCurrent(PushCheckpoint(model), bp)
                                   \/ model' = ReplaceCurrent(model, bp)
                                /\ UNCHANGED next_wire_id
      BY <1>2 DEF CheckpointAndReplace, ReplaceInTransaction
    <2>2. bp \in Document /\ Numbered(bp, next_wire_id)
      <3>1. PICK route \in [Drawn(model.current) -> Route] :
              Drawn(bp) \subseteq {[w EXCEPT !.route = route[w]] : w \in Drawn(model.current)}
        BY DEF Derived
      <3>2. ASSUME NEW v \in Drawn(bp)
            PROVE  \E w \in Drawn(model.current) :
                     v = [w EXCEPT !.route = route[w]] /\ v.id = w.id
        <4>1. PICK w \in Drawn(model.current) : v = [w EXCEPT !.route = route[w]]
          BY <3>1
        <4>2. w \in Wire
          BY <1>0 DEF Drawn, Model, Document
        <4> QED
          BY <4>1, <4>2 DEF Wire
      <3>3. Numbered(model.current, next_wire_id)
        BY DEF AllNumbered, Remembered
      <3> QED
        BY <3>2, <3>3, BlueprintAssumption DEF Derived, Numbered
    <2>3. Remembered(model') \subseteq Remembered(model) \cup {bp}
      BY <1>0, <2>1, <2>2, HistoryRemembers, PushType
    <2> QED
      BY <2>1, <2>2, <2>3 DEF AllNumbered
  <1>3. CASE Checkpoint \/ EnterTransaction
    BY <1>0, <1>3, HistoryRemembers, KeptNumbers DEF Checkpoint, EnterTransaction
  <1>4. CASE Rename
    <2>1. PICK name \in Name : /\ model' = ReplaceCurrent(model, WithName(model.current, name))
                               /\ UNCHANGED next_wire_id
      BY <1>4 DEF Rename
    <2> DEFINE bp == WithName(model.current, name)
    <2>2. bp \in Document /\ bp.wires = model.current.wires
      BY <1>0 DEF WithName, Document, Model
    <2>3. Numbered(bp, next_wire_id)
      BY <1>0, <2>2, NumberedEdits DEF AllNumbered, Remembered, Model
    <2>4. Remembered(model') \subseteq Remembered(model) \cup {bp}
      BY <1>0, <2>1, <2>2, HistoryRemembers
    <2> QED
      BY <2>1, <2>3, <2>4 DEF AllNumbered
  <1>5. CASE LeaveTransaction \/ AbortTransaction
    BY <1>0, <1>5, HistoryRemembers, KeptNumbers DEF LeaveTransaction, AbortTransaction
  <1>6. CASE UndoStep \/ RedoStep \/ Save
    BY <1>0, <1>6, HistoryRemembers, KeptNumbers DEF UndoStep, RedoStep, Save
  <1>7. CASE Load
    <2>1. PICK bp \in Loadable : /\ model' = MarkSaved(Fresh(bp))
                                 /\ next_wire_id' \in 0 .. WireLimit
                                 /\ NextFreeWireId(bp, next_wire_id')
      BY <1>7 DEF Load
    <2>2. bp \in Document /\ Numbered(bp, next_wire_id')
      BY <2>1, LoadedNumbered
    <2>3. Remembered(model') = {bp}
      BY <2>1, <2>2, FreshType, HistoryRemembers, <1>0
    <2> QED
      BY <2>2, <2>3 DEF AllNumbered
  <1>8. CASE EnsureIndices \/ UNCHANGED vars
    BY <1>8, KeptNumbers DEF EnsureIndices, vars
  <1> QED
    BY <1>1, <1>2, <1>3, <1>4, <1>5, <1>6, <1>7, <1>8 DEF Next

\* Undo does not give numbers back and redo finds its own again: whatever
\* version is shown, its drawn wires and the next one to be drawn have numbers
\* of their own, whatever wires restructurings made beside them.
THEOREM WireNumbersFresh == Spec => []DrawnWiresFresh
  <1>1. Init => AllNumbered
    <2> SUFFICES ASSUME Init PROVE AllNumbered
      OBVIOUS
    <2>1. PICK bp \in Loadable : model = Fresh(bp)
      BY DEF Init
    <2>2. next_wire_id \in 0 .. WireLimit /\ NextFreeWireId(bp, next_wire_id)
      BY <2>1 DEF Init, Fresh
    <2>3. bp \in Document /\ Numbered(bp, next_wire_id)
      BY <2>2, LoadedNumbered
    <2>4. Remembered(model) = {bp}
      BY <2>1 DEF Fresh, Remembered, Range
    <2> QED
      BY <2>3, <2>4 DEF AllNumbered
  <1>2. IInv /\ AllNumbered /\ [Next]_vars => AllNumbered'
    BY NumbersStep
  <1>3. IInv /\ AllNumbered => DrawnWiresFresh
    BY VersionsRemembered DEF IInv, TypeOK, AllNumbered, Numbered, DrawnWiresFresh
  <1> QED
    BY <1>1, <1>2, <1>3, Invariance, PTL DEF Spec

-----------------------------------------------------------------------------
(* Extraction: blueprints in blueprints.                                   *)

\* LevelsOf is what its definition says.
LEMMA LevelsFacts ==
  ASSUME NEW bp
  PROVE  /\ LevelsOf(bp)[0] = {bp}
         /\ \A k \in 1 .. Depth :
               LevelsOf(bp)[k] = UNION {Embeds(b) : b \in LevelsOf(bp)[k - 1]}
  <1> DEFINE Under(S) == UNION {Embeds(b) : b \in S}
             P(f, n) == f = [k \in 0 .. n |-> IF k = 0 THEN {bp} ELSE Under(f[k - 1])]
             I == {n \in 0 .. Depth : \E f : P(f, n)}
             F == CHOOSE f : P(f, Depth)
  <1>1. Depth \in Nat /\ LevelsOf(bp) = F
    BY ExtractionAssumption DEF LevelsOf
  <1> HIDE DEF F, Under
  <1>2. 0 \in I
    <2>1. P([k \in 0 .. 0 |-> {bp}], 0)
      OBVIOUS
    <2> HIDE DEF P
    <2>2. \E f : P(f, 0)
      BY <2>1
    <2> QED
      BY <1>1, <2>2
  <1>3. ASSUME NEW n \in 0 .. Depth, n # 0, n - 1 \in I PROVE n \in I
    <2>1. PICK f : P(f, n - 1)
      BY <1>3
    <2> DEFINE g == [k \in 0 .. n |-> IF k = n THEN Under(f[n - 1]) ELSE f[k]]
    <2>2. n \in Nat /\ n # 0 /\ n - 1 \in 0 .. n - 1 /\ n - 1 # n /\ n - 1 \in 0 .. n
      BY <1>1, <1>3
    <2>3. \A k \in 0 .. n : k # n => k \in 0 .. n - 1
      BY <2>2
    <2>4. \A k \in 0 .. n : k # 0 => k - 1 \in 0 .. n /\ k - 1 # n /\ k - 1 \in 0 .. n - 1
      BY <2>2
    <2>5. \A k \in 0 .. n - 1 : f[k] = IF k = 0 THEN {bp} ELSE Under(f[k - 1])
      BY <2>1
    <2>6. \A k \in 0 .. n : k # 0 => g[k - 1] = f[k - 1]
      BY <2>4
    <2>7. \A k \in 0 .. n : g[k] = IF k = 0 THEN {bp} ELSE Under(g[k - 1])
      BY <2>2, <2>3, <2>5, <2>6
    <2>8. P(g, n)
      <3> DEFINE h == [k \in 0 .. n |-> IF k = 0 THEN {bp} ELSE Under(g[k - 1])]
      <3>1. \A k \in 0 .. n : g[k] = h[k]
        BY <2>7
      <3>2. g = h
        BY <3>1
      <3> QED
        BY <3>2
    <2> HIDE DEF P, g
    <2> QED
      BY <1>3, <2>8
  <1> HIDE DEF I
  <1>4. Depth \in I
    BY <1>1, <1>2, <1>3, Upward
  <1>5. \E f : P(f, Depth)
    BY <1>4 DEF I
  <1>6. P(F, Depth)
    BY <1>5 DEF F
  <1>7. \A k \in 0 .. Depth : F[k] = IF k = 0 THEN {bp} ELSE Under(F[k - 1])
    BY <1>6
  <1>8. F[0] = {bp} /\ \A k \in 1 .. Depth : F[k] = Under(F[k - 1])
    BY <1>1, <1>7
  <1> QED
    BY <1>1, <1>8 DEF Under

\* What a blueprint with a new one embedded in it contains, when the new one
\* embeds only what some old ones did.
LEMMA WithinGrows ==
  ASSUME NEW new, NEW made, NEW Old,
         Embeds(new) \subseteq {made} \cup UNION {Embeds(b) : b \in Old},
         Embeds(made) \subseteq UNION {Embeds(b) : b \in Old}
  PROVE  Within(new) \subseteq {new, made} \cup UNION {Within(b) : b \in Old}
  <1> DEFINE L(b) == LevelsOf(b)
             I == {k \in 0 .. Depth : \A b \in L(new)[k] :
                      b \in {new, made} \/ \E o \in Old : \E j \in 0 .. k : b \in L(o)[j]}
  <1>0. Depth \in Nat
    BY ExtractionAssumption
  <1>1. 0 \in I
    BY <1>0, LevelsFacts
  <1>2. ASSUME NEW k \in 0 .. Depth, k # 0, k - 1 \in I PROVE k \in I
    <2>0. k \in 1 .. Depth /\ 1 \in 1 .. Depth /\ 1 \in 0 .. k
      BY <1>0, <1>2
    <2>1. L(new)[k] = UNION {Embeds(b) : b \in L(new)[k - 1]}
      BY <2>0, LevelsFacts
    <2>2. \A o : Embeds(o) \subseteq L(o)[1]
      <3> TAKE o
      <3>1. L(o)[0] = {o} /\ L(o)[1] = UNION {Embeds(b) : b \in L(o)[1 - 1]}
        BY <2>0, LevelsFacts
      <3>2. 1 - 1 = 0
        OBVIOUS
      <3> QED
        BY <3>1, <3>2
    <2>3. ASSUME NEW b \in L(new)[k], b \notin {new, made}
          PROVE  \E o \in Old : \E j \in 0 .. k : b \in L(o)[j]
      <3>1. PICK a \in L(new)[k - 1] : b \in Embeds(a)
        BY <2>1
      <3>2. CASE a \in {new, made}
        <4>1. PICK o \in Old : b \in Embeds(o)
          BY <2>3, <3>1, <3>2
        <4> QED
          BY <2>0, <2>2, <4>1
      <3>3. CASE a \notin {new, made}
        <4>1. PICK o \in Old : \E j \in 0 .. k - 1 : a \in L(o)[j]
          BY <1>2, <3>3
        <4>2. PICK j \in 0 .. k - 1 : a \in L(o)[j]
          BY <4>1
        <4>3. j + 1 \in 1 .. Depth /\ j + 1 \in 0 .. k /\ (j + 1) - 1 = j
          BY <1>0, <1>2
        <4>4. L(o)[j + 1] = UNION {Embeds(c) : c \in L(o)[(j + 1) - 1]}
          BY <4>3, LevelsFacts
        <4>5. b \in L(o)[j + 1]
          BY <3>1, <4>2, <4>3, <4>4
        <4> QED
          BY <4>3, <4>5
      <3> QED
        BY <3>2, <3>3
    <2> QED
      BY <2>3
  <1> HIDE DEF I
  <1>3. 0 .. Depth \subseteq I
    BY <1>0, <1>1, <1>2, Upward
  <1>4. ASSUME NEW k \in 0 .. Depth, NEW b \in L(new)[k], b \notin {new, made}
        PROVE  \E o \in Old : b \in Within(o)
    <2>1. PICK o \in Old : \E j \in 0 .. k : b \in L(o)[j]
      BY <1>3, <1>4 DEF I
    <2>2. PICK j \in 0 .. k : b \in L(o)[j]
      BY <2>1
    <2>3. j \in 0 .. Depth
      BY <1>0, <1>4
    <2> QED
      BY <2>2, <2>3 DEF Within
  <1> QED
    BY <1>4 DEF Within

\* A blueprint is within itself.
LEMMA WithinSelf ==
  ASSUME NEW bp
  PROVE  bp \in Within(bp)
  <1>1. 0 \in 0 .. Depth
    BY ExtractionAssumption
  <1> QED
    BY <1>1, LevelsFacts DEF Within

-----------------------------------------------------------------------------
(* Extraction: names and ids.                                              *)

\* Among more numbers than there are used names one makes a free name.
LEMMA FreeNumber ==
  ASSUME NEW used, IsFiniteSet(used), NEW base, NEW a \in Nat
  PROVE  LET free == {i \in a .. (Cardinality(used) + a) : Suffixed(base, i) \notin used}
         IN  Min(free) \in a .. (Cardinality(used) + a) /\ Suffixed(base, Min(free)) \notin used
  <1> DEFINE n == Cardinality(used)
             S == a .. n + a
             free == {i \in S : Suffixed(base, i) \notin used}
             f == [i \in S |-> Suffixed(base, i)]
  <1>1. n \in Nat
    BY FS_CardinalityType
  <1>2. IsFiniteSet(S) /\ Cardinality(S) = n + 1
    <2> DEFINE z == n + a
    <2>1. a \in Int /\ z \in Int /\ z - a + 1 = n + 1 /\ ~(a > z)
      BY <1>1
    <2> HIDE DEF z, n
    <2>2. IsFiniteSet(a .. z) /\ Cardinality(a .. z) = z - a + 1
      BY <2>1, FS_Interval
    <2> QED
      BY <2>1, <2>2 DEF z
  <1>3. free # {}
    <2> SUFFICES ASSUME free = {} PROVE FALSE
      OBVIOUS
    <2>1. f \in [S -> used]
      OBVIOUS
    <2>2. \E i, j \in S : i # j /\ f[i] = f[j]
      <3> HIDE DEF f, S, n
      <3>1. Cardinality(used) < Cardinality(S)
        BY <1>1, <1>2 DEF n
      <3> QED
        BY <1>2, <2>1, <3>1, FS_PigeonHole
    <2> QED
      BY <2>2 DEF Suffixed
  <1>4. free \subseteq Nat
    BY <1>1
  <1>5. Min(free) \in free
    BY <1>3, <1>4, MinFacts
  <1> QED
    BY <1>5

\* dedupe_name gives a name that is not used yet.
LEMMA DedupedFacts ==
  ASSUME NEW used, IsFiniteSet(used), NEW base
  PROVE  /\ Deduped(base, used) \notin used
         /\ Deduped(base, used) \in {base} \cup {Suffixed(base, i) : i \in Nat}
  <1> DEFINE free == {i \in 2 .. (Cardinality(used) + 2) : Suffixed(base, i) \notin used}
  <1>1. Min(free) \in 2 .. (Cardinality(used) + 2) /\ Suffixed(base, Min(free)) \notin used
    BY FreeNumber
  <1>2. Min(free) \in Nat
    BY <1>1
  <1>3. Deduped(base, used) = IF base \notin used THEN base ELSE Suffixed(base, Min(free))
    BY DEF Deduped
  <1> HIDE DEF free
  <1> QED
    BY <1>1, <1>2, <1>3

\* So does next_unique_id.
LEMMA UniqueIdFacts ==
  ASSUME NEW used, IsFiniteSet(used), NEW prefix
  PROVE  UniqueId(prefix, used) \notin used /\ UniqueId(prefix, used)[1] = prefix
  <1> DEFINE free == {i \in 1 .. (Cardinality(used) + 1) : Suffixed(prefix, i) \notin used}
  <1>1. Suffixed(prefix, Min(free)) \notin used
    BY FreeNumber
  <1>2. UniqueId(prefix, used) = Suffixed(prefix, Min(free))
    BY DEF UniqueId
  <1> HIDE DEF free
  <1> QED
    BY <1>1, <1>2 DEF Suffixed

\* Every set of items the list has.
LEMMA FiniteToSet ==
  ASSUME NEW V, NEW s \in Seq(V)
  PROVE  IsFiniteSet(ToSet(s))
  <1> DEFINE n == Len(s)
  <1>1. n \in Nat /\ DOMAIN s = 1 .. n
    OBVIOUS
  <1>2. IsFiniteSet(1 .. n)
    BY <1>1, FS_Interval
  <1>3. ToSet(s) = {s[i] : i \in 1 .. n}
    BY <1>1 DEF ToSet
  <1> DEFINE f == [i \in 1 .. n |-> s[i]]
  <1>4. f \in Surjection(1 .. n, ToSet(s))
    BY <1>3 DEF Surjection
  <1> HIDE DEF f, n
  <1> QED
    BY <1>2, <1>4, FS_Surjection

\* The names of the wires across the boundary are told apart.
LEMMA NamesForFacts ==
  ASSUME NEW V, NEW conns \in Seq(V)
  PROVE  /\ DOMAIN NamesFor(conns) = DOMAIN conns
         /\ Distinct(NamesFor(conns))
  <1> DEFINE n == Len(conns)
             P == {conns[i].inner.port : i \in DOMAIN conns}
             N == P \cup {Suffixed(x[1], x[2]) : x \in P \X Nat}
             W == Seq(N)
             next(i, x) == Append(x, Deduped(conns[i].inner.port, ToSet(x)))
             Names_(f) == f = [i \in 0 .. n |-> IF i = 0 THEN <<>> ELSE next(i, f[i - 1])]
             D == [i \in 1 .. n |-> [x \in W |-> next(i, x)]]
             F == CHOOSE f : Names_(f)
  <1>1. n \in Nat /\ <<>> \in W /\ DOMAIN conns = 1 .. n
    OBVIOUS
  <1>2. ASSUME NEW i \in 1 .. n, NEW x \in W
        PROVE  /\ Deduped(conns[i].inner.port, ToSet(x)) \in N
               /\ Deduped(conns[i].inner.port, ToSet(x)) \notin ToSet(x)
    <2> DEFINE p == conns[i].inner.port
    <2>1. p \in P /\ IsFiniteSet(ToSet(x))
      BY <1>1, FiniteToSet
    <2> HIDE DEF P, p
    <2>2. /\ Deduped(p, ToSet(x)) \notin ToSet(x)
          /\ Deduped(p, ToSet(x)) \in {p} \cup {Suffixed(p, k) : k \in Nat}
      BY <2>1, DedupedFacts
    <2>3. \A k \in Nat : Suffixed(p, k) \in {Suffixed(y[1], y[2]) : y \in P \X Nat}
      <3> TAKE k \in Nat
      <3>1. <<p, k>> \in P \X Nat /\ <<p, k>>[1] = p /\ <<p, k>>[2] = k
        BY <2>1
      <3> QED
        BY <3>1
    <2> QED
      BY <2>1, <2>2, <2>3 DEF p
  <1>3. NamesFor(conns) = F[n]
    BY DEF NamesFor
  <1> HIDE DEF n, N, P
  <1>4. D \in [1 .. n -> [W -> W]]
    BY <1>2
  <1> HIDE DEF W, next
  <1>5. PICK f \in [0 .. n -> W] : Iterates(f, n, <<>>, D)
    <2> HIDE DEF D
    <2>1. \E f \in [0 .. n -> W] : Iterates(f, n, <<>>, D)
      BY <1>1, <1>4, IterateExists
    <2> QED
      BY <2>1
  <1>6. Names_(f)
    <2>1. \A i \in 0 .. n : i # 0 => i \in 1 .. n /\ i - 1 \in 0 .. n
      BY <1>1
    <2>2. \A i \in 0 .. n : i # 0 => D[i][f[i - 1]] = next(i, f[i - 1])
      BY <1>5, <2>1
    <2> HIDE DEF D
    <2>3. f = [i \in 0 .. n |-> IF i = 0 THEN <<>> ELSE D[i][f[i - 1]]]
      BY <1>5 DEF Iterates
    <2>4. \A i \in 0 .. n : f[i] = IF i = 0 THEN <<>> ELSE next(i, f[i - 1])
      BY <2>2, <2>3
    <2> QED
      BY <1>5, <2>4
  <1>7. Names_(F)
    BY <1>6
  <1> HIDE DEF F
  <1>8. F[0] = <<>> /\ \A i \in 1 .. n : F[i] = next(i, F[i - 1])
    BY <1>1, <1>7
  <1> HIDE DEF Names_, D
  <1> DEFINE I == {i \in 0 .. n : F[i] \in W /\ DOMAIN F[i] = 1 .. i /\ Distinct(F[i])}
  <1>9. 0 \in I
    <2>1. DOMAIN <<>> = 1 .. 0 /\ \A x : x \notin 1 .. 0
      OBVIOUS
    <2> QED
      BY <1>1, <1>8, <2>1 DEF Distinct
  <1>10. ASSUME NEW i \in 0 .. n, i # 0, i - 1 \in I PROVE i \in I
    <2> DEFINE x == F[i - 1]
               y == Deduped(conns[i].inner.port, ToSet(x))
    <2>1. i \in 1 .. n /\ x \in W /\ DOMAIN x = 1 .. i - 1 /\ Distinct(x)
      BY <1>1, <1>10
    <2>2. F[i] = Append(x, y)
      BY <1>8, <2>1 DEF next
    <2>3. y \in N /\ y \notin ToSet(x)
      BY <1>2, <2>1
    <2> HIDE DEF x, y
    <2>4. x \in Seq(N)
      BY <2>1 DEF W
    <2>5. Append(x, y) \in Seq(N) /\ DOMAIN Append(x, y) = 1 .. Len(x) + 1 /\ DOMAIN x = 1 .. Len(x)
          /\ Len(x) \in Nat
      BY <2>3, <2>4, AppendIndex
    <2>6. Distinct(Append(x, y))
      BY <2>1, <2>3, <2>4, AppendFacts
    <2>7. Len(x) + 1 = i
      BY <2>1, <2>5
    <2> QED
      BY <1>10, <2>2, <2>5, <2>6, <2>7 DEF W
  <1> HIDE DEF I
  <1>11. n \in I
    BY <1>1, <1>9, <1>10, Upward
  <1> QED
    BY <1>1, <1>3, <1>11 DEF I

\* A connection keeps its ends and gets a name of its own.
LEMMA NamedFacts ==
  ASSUME NEW V, NEW conns \in Seq(V)
  PROVE  LET named == Named(conns)
         IN  /\ named \in Seq(ToSet(named)) /\ DOMAIN named = DOMAIN conns
             /\ \A i \in DOMAIN named :
                   named[i].outer = conns[i].outer /\ named[i].inner = conns[i].inner
             /\ \A i, j \in DOMAIN named : named[i].name = named[j].name => i = j
  <1> DEFINE names == NamesFor(conns)
             named == Named(conns)
  <1>1. DOMAIN names = DOMAIN conns /\ Distinct(names)
    BY NamesForFacts
  <1>2. Len(conns) \in Nat /\ DOMAIN conns = 1 .. Len(conns)
    OBVIOUS
  <1>3. named = [i \in DOMAIN conns |->
                   [outer |-> conns[i].outer, inner |-> conns[i].inner, name |-> names[i]]]
    BY DEF Named
  <1> HIDE DEF names, named
  <1>4. DOMAIN named = 1 .. Len(conns)
    BY <1>2, <1>3
  <1>5. named \in [1 .. Len(conns) -> ToSet(named)]
    BY <1>3, <1>4 DEF ToSet
  <1>6. named \in Seq(ToSet(named))
    BY <1>2, <1>5
  <1>7. \A i \in DOMAIN conns : /\ named[i].outer = conns[i].outer
                                /\ named[i].inner = conns[i].inner
                                /\ named[i].name = names[i]
    BY <1>3
  <1> QED
    BY <1>1, <1>2, <1>4, <1>6, <1>7 DEF Distinct, named

\* The ids in use are finitely many.
LEMMA IdsFinite ==
  ASSUME NEW V, NEW nodes \in Seq(V)
  PROVE  IsFiniteSet(IdsOf(nodes))
  <1> DEFINE s == [i \in DOMAIN nodes |-> nodes[i].id]
  <1>1. Len(nodes) \in Nat /\ DOMAIN nodes = 1 .. Len(nodes)
    OBVIOUS
  <1>2. s \in Seq(IdsOf(nodes))
    BY <1>1 DEF IdsOf, ToSet
  <1>3. ToSet(s) = IdsOf(nodes)
    BY DEF IdsOf, ToSet
  <1> HIDE DEF s
  <1> QED
    BY <1>2, <1>3, FiniteToSet

-----------------------------------------------------------------------------
(* Extraction: nodes and the ends of wires.                                *)

\* Ids tell the nodes apart.
LEMMA UniqueForm ==
  ASSUME NEW V, NEW nodes \in Seq(V)
  PROVE  UniqueIds(nodes) <=> /\ Distinct(nodes)
                              /\ \A m, n \in ToSet(nodes) : m.id = n.id => m = n
  BY DEF UniqueIds, Distinct, ToSet

\* find_node finds the node of an id.
LEMMA NodeFacts ==
  ASSUME NEW V, NEW bp, bp.nodes \in Seq(V), UniqueIds(bp.nodes), NEW n \in ToSet(bp.nodes)
  PROVE  NodeOf(bp, n.id) = n
  <1> DEFINE S == {m \in ToSet(bp.nodes) : m.id = n.id}
             x == FirstOf(bp.nodes, S)
  <1>1. x \in ToSet(bp.nodes) \cap S
    <2>1. n \in S
      OBVIOUS
    <2> HIDE DEF S
    <2> QED
      BY <2>1, FirstOfFacts
  <1> HIDE DEF x
  <1>2. x = n
    BY <1>1, UniqueForm
  <1> QED
    BY <1>2 DEF NodeOf, x

\* What a wire's end is asked for.
GoodEnd(bp, end, dirs) == ValidEnd(bp, end, dirs) /\ Resolvable(bp, end)

\* A node takes the ends of wires at it along to another blueprint.
LEMMA EndMoves ==
  ASSUME NEW V, NEW old, old.nodes \in Seq(V), UniqueIds(old.nodes),
         NEW W, NEW new, new.nodes \in Seq(W), UniqueIds(new.nodes),
         NEW n \in ToSet(old.nodes), n \in ToSet(new.nodes),
         NEW end, end.node = n.id, NEW dirs, GoodEnd(old, end, dirs)
  PROVE  GoodEnd(new, end, dirs)
  <1>1. NodeOf(old, end.node) = n /\ NodeOf(new, end.node) = n
    BY NodeFacts
  <1>2. end.node \in IdsOf(new.nodes)
    BY DEF IdsOf
  <1>3. PortsAt(new, end) = PortsAt(old, end)
    BY <1>1 DEF PortsAt
  <1> QED
    BY <1>1, <1>2, <1>3 DEF GoodEnd, ValidEnd, Resolvable

\* An end at a port that only goes one way.
LEMMA EndMade ==
  ASSUME NEW V, NEW bp, bp.nodes \in Seq(V), UniqueIds(bp.nodes),
         NEW n \in ToSet(bp.nodes), NEW name,
         NEW U, IfaceOf(n) \in Seq(U), NEW dir,
         PortsNamed(IfaceOf(n), name) # {},
         \A p \in PortsNamed(IfaceOf(n), name) : p.dir = dir,
         IsInstance(n) => Known(n) /\ BridgesFor(InnerOf(n), name) # {},
         NEW dirs, dir \in dirs
  PROVE  GoodEnd(bp, End(n.id, name), dirs)
  <1> DEFINE end == End(n.id, name)
  <1>1. end.node = n.id /\ end.port = name
    BY DEF End
  <1>2. NodeOf(bp, n.id) = n
    BY NodeFacts
  <1>3. PortsAt(bp, end) = PortsNamed(IfaceOf(n), name)
    BY <1>1, <1>2 DEF PortsAt
  <1>4. PortsNamed(IfaceOf(n), name) \subseteq ToSet(IfaceOf(n))
    BY DEF PortsNamed
  <1>5. FirstOf(IfaceOf(n), PortsNamed(IfaceOf(n), name)) \in PortsNamed(IfaceOf(n), name)
    BY <1>4, FirstOfFacts
  <1>6. n.id \in IdsOf(bp.nodes)
    BY DEF IdsOf
  <1> HIDE DEF end
  <1> QED
    BY <1>1, <1>2, <1>3, <1>5, <1>6 DEF GoodEnd, ValidEnd, Resolvable, end

\* A blueprint is sound if the loader and the flattener take it, but for ids of
\* wires that extractions made up.
Sound(bp) == Consistent(bp) /\ Flattens(bp) /\ RepeatsMadeUp(bp)

GoodWire(bp, w) ==
  /\ w.source # w.target
  /\ GoodEnd(bp, w.source, {"Output", "InOut"})
  /\ GoodEnd(bp, w.target, {"Input", "InOut"})

LEMMA SoundForm ==
  ASSUME NEW bp
  PROVE  Sound(bp) <=> /\ UniqueIds(bp.nodes)
                       /\ \A n \in ToSet(bp.nodes) : n.kind = "bridge" => ValidBridge(bp, n)
                       /\ \A n \in Instances(bp) : Known(n)
                       /\ \A w \in ToSet(bp.wires) : GoodWire(bp, w)
                       /\ RepeatsMadeUp(bp)
  BY DEF Sound, Consistent, Flattens, GoodWire, GoodEnd, ValidWire

-----------------------------------------------------------------------------
(* Extraction: what an extraction makes.                                   *)

\* A list of more kinds.
LEMMA SeqWider ==
  ASSUME NEW A, NEW B, A \subseteq B, NEW s \in Seq(A)
  PROVE  s \in Seq(B)
  OBVIOUS

\* A list of records, one for each wire across the boundary.
LEMMA MadeList ==
  ASSUME NEW V, NEW conns \in Seq(V), NEW s, s \in [DOMAIN conns -> ToSet(s)]
  PROVE  s \in Seq(ToSet(s)) /\ ToSet(s) = {s[i] : i \in DOMAIN conns}
  <1>1. Len(conns) \in Nat /\ DOMAIN conns = 1 .. Len(conns)
    OBVIOUS
  <1> QED
    BY <1>1 DEF ToSet

\* Every connection is a wire across the boundary, and no two have one name.
Crossing(conns, bp, selected, into) ==
  /\ conns \in Seq(ToSet(conns))
  /\ \A i, j \in DOMAIN conns : conns[i].name = conns[j].name => i = j
  /\ \A i \in DOMAIN conns : \E w \in ToSet(bp.wires) :
        IF into THEN /\ w.source.node \notin selected /\ w.target.node \in selected
                     /\ conns[i].outer = w.source /\ conns[i].inner = w.target
        ELSE /\ w.source.node \in selected /\ w.target.node \notin selected
             /\ conns[i].outer = w.target /\ conns[i].inner = w.source

LEMMA InputsFacts ==
  ASSUME NEW bp, Listed(bp), NEW selected
  PROVE  Crossing(Inputs(bp, selected), bp, selected, TRUE)
  <1> DEFINE S == {w \in ToSet(bp.wires) : w.source.node \notin selected /\ w.target.node \in selected}
             wires == Among(bp.wires, S)
             conns == [i \in DOMAIN wires |-> [outer |-> wires[i].source, inner |-> wires[i].target]]
             ins == Inputs(bp, selected)
  <1>1. ins = Named(conns)
    BY DEF Inputs
  <1>2. wires \in Seq(ToSet(bp.wires)) /\ ToSet(wires) = ToSet(bp.wires) \cap S
    BY AmongFacts DEF Listed
  <1> HIDE DEF wires, ins
  <1>3. conns \in Seq(ToSet(conns))
    <2>1. conns \in [DOMAIN wires -> ToSet(conns)]
      BY DEF ToSet
    <2> HIDE DEF conns
    <2> QED
      BY <1>2, <2>1, MadeList
  <1>4. ASSUME NEW i \in DOMAIN wires
        PROVE  /\ wires[i] \in S
               /\ conns[i].outer = wires[i].source /\ conns[i].inner = wires[i].target
    BY <1>2 DEF ToSet
  <1>5. DOMAIN conns = DOMAIN wires
    OBVIOUS
  <1> HIDE DEF conns
  <1>6. /\ ins \in Seq(ToSet(ins)) /\ DOMAIN ins = DOMAIN conns
        /\ \A i \in DOMAIN ins : ins[i].outer = conns[i].outer /\ ins[i].inner = conns[i].inner
        /\ \A i, j \in DOMAIN ins : ins[i].name = ins[j].name => i = j
    BY <1>1, <1>3, NamedFacts
  <1>7. \A i \in DOMAIN ins : \E w \in ToSet(bp.wires) :
            /\ w.source.node \notin selected /\ w.target.node \in selected
            /\ ins[i].outer = w.source /\ ins[i].inner = w.target
    BY <1>4, <1>5, <1>6
  <1> QED
    BY <1>6, <1>7 DEF Crossing, ins

LEMMA OutputsFacts ==
  ASSUME NEW bp, Listed(bp), NEW selected
  PROVE  Crossing(Outputs(bp, selected), bp, selected, FALSE)
  <1> DEFINE S == {w \in ToSet(bp.wires) : w.source.node \in selected /\ w.target.node \notin selected}
             wires == Among(bp.wires, S)
             conns == [i \in DOMAIN wires |-> [outer |-> wires[i].target, inner |-> wires[i].source]]
             outs == Outputs(bp, selected)
  <1>1. outs = Named(conns)
    BY DEF Outputs
  <1>2. wires \in Seq(ToSet(bp.wires)) /\ ToSet(wires) = ToSet(bp.wires) \cap S
    BY AmongFacts DEF Listed
  <1> HIDE DEF wires, outs
  <1>3. conns \in Seq(ToSet(conns))
    <2>1. conns \in [DOMAIN wires -> ToSet(conns)]
      BY DEF ToSet
    <2> HIDE DEF conns
    <2> QED
      BY <1>2, <2>1, MadeList
  <1>4. ASSUME NEW i \in DOMAIN wires
        PROVE  /\ wires[i] \in S
               /\ conns[i].outer = wires[i].target /\ conns[i].inner = wires[i].source
    BY <1>2 DEF ToSet
  <1>5. DOMAIN conns = DOMAIN wires
    OBVIOUS
  <1> HIDE DEF conns
  <1>6. /\ outs \in Seq(ToSet(outs)) /\ DOMAIN outs = DOMAIN conns
        /\ \A i \in DOMAIN outs : outs[i].outer = conns[i].outer /\ outs[i].inner = conns[i].inner
        /\ \A i, j \in DOMAIN outs : outs[i].name = outs[j].name => i = j
    BY <1>1, <1>3, NamedFacts
  <1>7. \A i \in DOMAIN outs : \E w \in ToSet(bp.wires) :
            /\ w.source.node \in selected /\ w.target.node \notin selected
            /\ outs[i].outer = w.target /\ outs[i].inner = w.source
    BY <1>4, <1>5, <1>6
  <1> QED
    BY <1>6, <1>7 DEF Crossing, outs

\* The bridge an extraction makes for a name.
BridgeOf(name, side, dir) ==
  [id |-> BridgeId(side, name), kind |-> "bridge", ports |-> BridgePorts(dir),
   exposed |-> name, inner |-> <<>>]

\* One bridge for each connection.
LEMMA BridgeNodesFacts ==
  ASSUME NEW conns, conns \in Seq(ToSet(conns)), NEW side, NEW dir,
         \A i, j \in DOMAIN conns : conns[i].name = conns[j].name => i = j
  PROVE  LET bridges == BridgeNodes(conns, side, dir)
         IN  /\ bridges \in Seq(ToSet(bridges)) /\ Distinct(bridges)
             /\ ToSet(bridges) = {BridgeOf(name, side, dir) : name \in NamesIn(conns)}
  <1> DEFINE s == BridgeNodes(conns, side, dir)
  <1>1. s = [i \in DOMAIN conns |-> BridgeOf(conns[i].name, side, dir)]
    BY DEF BridgeNodes, BridgeOf
  <1> HIDE DEF s
  <1>0. s \in [DOMAIN conns -> ToSet(s)]
    BY <1>1 DEF ToSet
  <1>2. s \in Seq(ToSet(s)) /\ ToSet(s) = {s[i] : i \in DOMAIN conns}
    BY <1>0, MadeList
  <1>3. Distinct(s)
    BY <1>1 DEF Distinct, BridgeOf
  <1>4. ToSet(s) = {BridgeOf(name, side, dir) : name \in NamesIn(conns)}
    BY <1>1, <1>2 DEF NamesIn, ToSet
  <1> QED
    BY <1>2, <1>3, <1>4 DEF s

\* A blueprint and a selection in it that extraction does not refuse.
Extractable(bp, selected) ==
  /\ Listed(bp) /\ Sound(bp) /\ BridgeIdsKept(bp)
  /\ selected \subseteq IdsOf(bp.nodes)
  /\ \A id \in selected : NodeOf(bp, id).kind \notin {"bridge", "reference"}
  /\ NamesIn(Inputs(bp, selected)) \cap NamesIn(Outputs(bp, selected)) = {}

\* What is selected is no bridge and has no bridge's id.
LEMMA SelectedFacts ==
  ASSUME NEW bp, NEW selected, Extractable(bp, selected),
         NEW n \in ToSet(bp.nodes), n.id \in selected
  PROVE  n.kind # "bridge" /\ n.id[1] \notin Sides
  <1>1. NodeOf(bp, n.id) = n
    BY NodeFacts, SoundForm DEF Extractable, Listed
  <1> QED
    BY <1>1 DEF Extractable, BridgeIdsKept

\* The nodes of the new blueprint are those selected and a bridge for each name.
LEMMA InlineNodes ==
  ASSUME NEW bp, NEW selected, Extractable(bp, selected), NEW name
  PROVE  LET nodes == InlineBlueprint(bp, selected, name).nodes
         IN  /\ nodes \in Seq(ToSet(nodes)) /\ UniqueIds(nodes)
             /\ ToSet(nodes) = {n \in ToSet(bp.nodes) : n.id \in selected}
                  \cup {BridgeOf(x, "bp_in_", "Input") : x \in NamesIn(Inputs(bp, selected))}
                  \cup {BridgeOf(x, "bp_out_", "Output") : x \in NamesIn(Outputs(bp, selected))}
  <1> DEFINE ins == Inputs(bp, selected)
             outs == Outputs(bp, selected)
             chosen == {n \in ToSet(bp.nodes) : n.id \in selected}
             a == Among(bp.nodes, chosen)
             b == BridgeNodes(ins, "bp_in_", "Input")
             c == BridgeNodes(outs, "bp_out_", "Output")
             B == {BridgeOf(x, "bp_in_", "Input") : x \in NamesIn(ins)}
             C == {BridgeOf(x, "bp_out_", "Output") : x \in NamesIn(outs)}
             V == chosen \cup B \cup C
             nodes == InlineBlueprint(bp, selected, name).nodes
  <1>0. /\ Listed(bp) /\ UniqueIds(bp.nodes)
        /\ bp.nodes \in Seq(ToSet(bp.nodes))
    BY SoundForm DEF Extractable, Listed
  <1>1. nodes = a \o b \o c
    BY DEF InlineBlueprint, Blueprint
  <1>2. ToSet(a) = chosen /\ Distinct(a) /\ a \in Seq(chosen)
    <2>1. /\ a \in Seq(ToSet(bp.nodes)) /\ ToSet(a) = ToSet(bp.nodes) \cap chosen
          /\ Distinct(bp.nodes) => Distinct(a)
      BY <1>0, AmongFacts
    <2>2. ToSet(bp.nodes) \cap chosen = chosen
      OBVIOUS
    <2>3. Distinct(bp.nodes)
      BY <1>0, UniqueForm
    <2> HIDE DEF a, chosen
    <2>4. Len(a) \in Nat /\ a \in [1 .. Len(a) -> ToSet(a)]
      BY <2>1 DEF ToSet
    <2> QED
      BY <2>1, <2>2, <2>3, <2>4
  <1>3. b \in Seq(B) /\ Distinct(b) /\ ToSet(b) = B
    <2>1. Crossing(ins, bp, selected, TRUE)
      BY <1>0, InputsFacts
    <2> HIDE DEF ins
    <2> QED
      BY <2>1, BridgeNodesFacts DEF Crossing
  <1>4. c \in Seq(C) /\ Distinct(c) /\ ToSet(c) = C
    <2>1. Crossing(outs, bp, selected, FALSE)
      BY <1>0, OutputsFacts
    <2> HIDE DEF outs
    <2> QED
      BY <2>1, BridgeNodesFacts DEF Crossing
  <1>5. \A n \in chosen : n.kind # "bridge" /\ n.id[1] \notin Sides
    BY SelectedFacts
  <1>6. \A n \in B : n.kind = "bridge" /\ n.id = <<"bp_in_", n.exposed>> /\ n.id[1] = "bp_in_"
    BY DEF BridgeOf, BridgeId
  <1>7. \A n \in C : n.kind = "bridge" /\ n.id = <<"bp_out_", n.exposed>> /\ n.id[1] = "bp_out_"
    BY DEF BridgeOf, BridgeId
  <1>8. \A m, n \in B : m.id = n.id => m = n
    BY DEF BridgeOf, BridgeId
  <1>9. \A m, n \in C : m.id = n.id => m = n
    BY DEF BridgeOf, BridgeId
  <1>10. \A m, n \in chosen : m.id = n.id => m = n
    BY <1>0, UniqueForm
  <1> HIDE DEF a, b, c, B, C, chosen, nodes, ins, outs
  <1>11. a \in Seq(V) /\ b \in Seq(V) /\ c \in Seq(V)
    BY <1>2, <1>3, <1>4, SeqWider
  <1>12. chosen \cap B = {} /\ chosen \cap C = {} /\ B \cap C = {}
    BY <1>5, <1>6, <1>7
  <1> HIDE DEF V
  <1>13. a \o b \in Seq(V) /\ ToSet(a \o b) = chosen \cup B /\ Distinct(a \o b)
    BY <1>2, <1>3, <1>11, <1>12, ConcatFacts
  <1>14. (chosen \cup B) \cap C = {}
    BY <1>12
  <1>15. nodes \in Seq(V) /\ ToSet(nodes) = chosen \cup B \cup C /\ Distinct(nodes)
    <2> DEFINE ab == a \o b
    <2>1. ab \in Seq(V) /\ ToSet(ab) = chosen \cup B /\ Distinct(ab) /\ nodes = ab \o c
      BY <1>1, <1>13
    <2>2. ToSet(ab) \cap ToSet(c) = {}
      BY <1>4, <1>14, <2>1
    <2> HIDE DEF ab
    <2>3. ab \o c \in Seq(V) /\ ToSet(ab \o c) = ToSet(ab) \cup ToSet(c) /\ Distinct(ab \o c)
      BY <1>4, <1>11, <2>1, <2>2, ConcatFacts
    <2> QED
      BY <1>4, <2>1, <2>3
  <1>16. \A m, n \in chosen \cup B \cup C : m.id = n.id => m = n
    BY <1>5, <1>6, <1>7, <1>8, <1>9, <1>10 DEF Sides
  <1>17. UniqueIds(nodes)
    BY <1>15, <1>16, UniqueForm
  <1>18. nodes \in Seq(ToSet(nodes))
    BY <1>15 DEF V
  <1> QED
    BY <1>15, <1>17, <1>18 DEF nodes, chosen, B, C, ins, outs

\* The interface of the new blueprint has each name once, and its direction.
LEMMA InlineIface ==
  ASSUME NEW bp, NEW selected, Extractable(bp, selected), NEW name
  PROVE  LET iface == InlineBlueprint(bp, selected, name).iface
         IN  /\ iface \in Seq(ToSet(iface))
             /\ \A x \in NamesIn(Inputs(bp, selected)) :
                   PortsNamed(iface, x) = {[name |-> x, dir |-> "Input"]}
             /\ \A x \in NamesIn(Outputs(bp, selected)) :
                   PortsNamed(iface, x) = {[name |-> x, dir |-> "Output"]}
  <1> DEFINE ins == Inputs(bp, selected)
             outs == Outputs(bp, selected)
             a == PortsFor(ins, "Input")
             b == PortsFor(outs, "Output")
             A == {[name |-> x, dir |-> "Input"] : x \in NamesIn(ins)}
             B == {[name |-> x, dir |-> "Output"] : x \in NamesIn(outs)}
             iface == InlineBlueprint(bp, selected, name).iface
  <1>1. iface = a \o b
    BY DEF InlineBlueprint, Blueprint, IfacePorts
  <1>2. ins \in Seq(ToSet(ins)) /\ outs \in Seq(ToSet(outs))
    BY InputsFacts, OutputsFacts DEF Extractable, Crossing
  <1>3. NamesIn(ins) \cap NamesIn(outs) = {}
    BY DEF Extractable
  <1> HIDE DEF ins, outs, iface
  <1>4. ASSUME NEW conns, conns \in Seq(ToSet(conns)), NEW dir
        PROVE  /\ PortsFor(conns, dir) \in Seq(ToSet(PortsFor(conns, dir)))
               /\ ToSet(PortsFor(conns, dir)) = {[name |-> x, dir |-> dir] : x \in NamesIn(conns)}
    <2> DEFINE s == PortsFor(conns, dir)
    <2>1. s = [i \in DOMAIN conns |-> [name |-> conns[i].name, dir |-> dir]]
      BY DEF PortsFor
    <2> HIDE DEF s
    <2>0. s \in [DOMAIN conns -> ToSet(s)]
      BY <2>1 DEF ToSet
    <2>2. s \in Seq(ToSet(s)) /\ ToSet(s) = {s[i] : i \in DOMAIN conns}
      BY <1>4, <2>0, MadeList
    <2>3. ToSet(s) = {[name |-> x, dir |-> dir] : x \in NamesIn(conns)}
      BY <2>1, <2>2 DEF NamesIn, ToSet
    <2> QED
      BY <2>2, <2>3 DEF s
  <1>5. a \in Seq(A) /\ ToSet(a) = A /\ b \in Seq(B) /\ ToSet(b) = B
    BY <1>2, <1>4
  <1> DEFINE V == A \cup B
  <1>6. \A p \in A : p.dir = "Input" /\ p.name \in NamesIn(ins) /\ p = [name |-> p.name, dir |-> "Input"]
    OBVIOUS
  <1>7. \A p \in B : p.dir = "Output" /\ p.name \in NamesIn(outs) /\ p = [name |-> p.name, dir |-> "Output"]
    OBVIOUS
  <1>8. \A x \in NamesIn(ins) : [name |-> x, dir |-> "Input"] \in A
    OBVIOUS
  <1>9. \A x \in NamesIn(outs) : [name |-> x, dir |-> "Output"] \in B
    OBVIOUS
  <1>10. a \in Seq(V) /\ b \in Seq(V)
    <2> HIDE DEF a, b, A, B
    <2> QED
      BY <1>5, SeqWider
  <1> HIDE DEF a, b, A, B
  <1>11. iface \in Seq(V) /\ ToSet(iface) = V
    <2> HIDE DEF V
    <2>1. a \o b \in Seq(V) /\ ToSet(a \o b) = ToSet(a) \cup ToSet(b)
      BY <1>10, ConcatFacts
    <2> QED
      BY <1>1, <1>5, <2>1 DEF V
  <1>12. \A x \in NamesIn(ins) : PortsNamed(iface, x) = {[name |-> x, dir |-> "Input"]}
    <2> TAKE x \in NamesIn(ins)
    <2>1. [name |-> x, dir |-> "Input"] \in PortsNamed(iface, x)
      BY <1>8, <1>11 DEF PortsNamed
    <2>2. \A p \in PortsNamed(iface, x) : p = [name |-> x, dir |-> "Input"]
      BY <1>3, <1>6, <1>7, <1>11 DEF PortsNamed
    <2> QED
      BY <2>1, <2>2
  <1>13. \A x \in NamesIn(outs) : PortsNamed(iface, x) = {[name |-> x, dir |-> "Output"]}
    <2> TAKE x \in NamesIn(outs)
    <2>1. [name |-> x, dir |-> "Output"] \in PortsNamed(iface, x)
      BY <1>9, <1>11 DEF PortsNamed
    <2>2. \A p \in PortsNamed(iface, x) : p = [name |-> x, dir |-> "Output"]
      BY <1>3, <1>6, <1>7, <1>11 DEF PortsNamed
    <2> QED
      BY <2>1, <2>2
  <1> QED
    BY <1>11, <1>12, <1>13 DEF iface, ins, outs

\* The ports of a bridge.
LEMMA BridgeEnds ==
  ASSUME NEW x, NEW side
  PROVE  LET i == BridgeOf(x, side, "Input")
             o == BridgeOf(x, side, "Output")
             port == <<"port">>
         IN  /\ PortsNamed(IfaceOf(i), port) = {[name |-> port, dir |-> "Output"]}
             /\ PortsNamed(IfaceOf(o), port) = {[name |-> port, dir |-> "Input"]}
             /\ ~IsInstance(i) /\ ~IsInstance(o)
             /\ IfaceOf(i) \in Seq(ToSet(IfaceOf(i))) /\ IfaceOf(o) \in Seq(ToSet(IfaceOf(o)))
  <1> DEFINE i == BridgeOf(x, side, "Input")
             o == BridgeOf(x, side, "Output")
             a == [name |-> <<"ext">>, dir |-> "Input"]
             b == [name |-> <<"port">>, dir |-> "Output"]
             c == [name |-> <<"ext">>, dir |-> "Output"]
             d == [name |-> <<"port">>, dir |-> "Input"]
  <1>1. ~IsInstance(i) /\ ~IsInstance(o)
    BY DEF BridgeOf, IsInstance
  <1>2. IfaceOf(i) = <<a, b>> /\ IfaceOf(o) = <<c, d>>
    BY <1>1 DEF BridgeOf, IfaceOf, BridgePorts
  <1>3. ToSet(<<a, b>>) = {a, b} /\ ToSet(<<c, d>>) = {c, d}
    <2> HIDE DEF a, b, c, d
    <2> QED
      BY DEF ToSet
  <1>4. <<"ext">> # <<"port">>
    OBVIOUS
  <1>5. /\ a.name = <<"ext">> /\ b.name = <<"port">> /\ c.name = <<"ext">> /\ d.name = <<"port">>
    OBVIOUS
  <1> HIDE DEF a, b, c, d
  <1>6. PortsNamed(<<a, b>>, <<"port">>) = {b} /\ PortsNamed(<<c, d>>, <<"port">>) = {d}
    BY <1>3, <1>4, <1>5 DEF PortsNamed
  <1>7. <<a, b>> \in Seq({a, b}) /\ <<c, d>> \in Seq({c, d})
    OBVIOUS
  <1> QED
    BY <1>1, <1>2, <1>3, <1>6, <1>7 DEF b, d

\* One list of wires behind another.
LEMMA ListsJoined ==
  ASSUME NEW s, s \in Seq(ToSet(s)), NEW t, t \in Seq(ToSet(t))
  PROVE  s \o t \in Seq(ToSet(s \o t)) /\ ToSet(s \o t) = ToSet(s) \cup ToSet(t)
  <1> DEFINE V == ToSet(s) \cup ToSet(t)
  <1>1. s \in Seq(V) /\ t \in Seq(V)
    BY SeqWider
  <1> HIDE DEF V
  <1>2. s \o t \in Seq(V) /\ ToSet(s \o t) = ToSet(s) \cup ToSet(t)
    BY <1>1, ConcatFacts
  <1> QED
    BY <1>2 DEF V

\* A list of some of the items.
LEMMA AmongList ==
  ASSUME NEW s, s \in Seq(ToSet(s)), NEW S
  PROVE  Among(s, S) \in Seq(ToSet(Among(s, S))) /\ ToSet(Among(s, S)) = ToSet(s) \cap S
  <1> DEFINE a == Among(s, S)
  <1>1. a \in Seq(ToSet(s)) /\ ToSet(a) = ToSet(s) \cap S
    BY AmongFacts
  <1> HIDE DEF a
  <1>2. Len(a) \in Nat /\ a \in [1 .. Len(a) -> ToSet(a)]
    BY <1>1 DEF ToSet
  <1>3. a \in Seq(ToSet(a))
    BY <1>2
  <1> QED
    BY <1>1, <1>3 DEF a

\* Some of the items of a list keep what their ids are to each other.
LEMMA AmongIds ==
  ASSUME NEW s, s \in Seq(ToSet(s)), NEW S
  PROVE  LET t == Among(s, S)
         IN  /\ UniqueIds(s) => UniqueIds(t)
             /\ (\A i, j \in DOMAIN s : s[i].id = s[j].id => i = j \/ MadeUp(s[i].id))
                => (\A i, j \in DOMAIN t : t[i].id = t[j].id => i = j \/ MadeUp(t[i].id))
  <1> DEFINE t == Among(s, S)
  <1>1. t \in Seq(ToSet(s)) /\ \E f : TakenAt(f, t, Len(s), s)
    BY AmongFacts
  <1> HIDE DEF t
  <1>2. DOMAIN t = 1 .. Len(t) /\ DOMAIN s = 1 .. Len(s)
    BY <1>1
  <1>3. PICK f : TakenAt(f, t, Len(s), s)
    BY <1>1
  <1>4. \A i \in DOMAIN t : f[i] \in DOMAIN s /\ t[i] = s[f[i]]
    BY <1>2, <1>3 DEF TakenAt
  <1>5. \A i, j \in DOMAIN t : f[i] = f[j] => i = j
    BY <1>2, <1>3 DEF TakenAt
  <1> QED
    BY <1>4, <1>5 DEF UniqueIds, t

\* A list behind another: the ids stay told apart if no id is in both, and only
\* ids that were made up repeat if the second has no others.
LEMMA JoinedIds ==
  ASSUME NEW s, s \in Seq(ToSet(s)), NEW t, t \in Seq(ToSet(t))
  PROVE  LET u == s \o t
         IN  /\ /\ UniqueIds(s) /\ UniqueIds(t)
                /\ \A v \in ToSet(s), w \in ToSet(t) : v.id # w.id
                => UniqueIds(u)
             /\ /\ \A i, j \in DOMAIN s : s[i].id = s[j].id => i = j \/ MadeUp(s[i].id)
                /\ \A w \in ToSet(t) : MadeUp(w.id)
                => \A i, j \in DOMAIN u : u[i].id = u[j].id => i = j \/ MadeUp(u[i].id)
  <1> DEFINE u == s \o t
             m == Len(s)
             n == Len(t)
             V == ToSet(s) \cup ToSet(t)
  <1>1. s \in Seq(V) /\ t \in Seq(V)
    BY SeqWider
  <1> HIDE DEF V
  <1>2. /\ m \in Nat /\ n \in Nat /\ DOMAIN s = 1 .. m /\ DOMAIN t = 1 .. n
        /\ DOMAIN u = 1 .. m + n
        /\ \A i \in 1 .. m : u[i] = s[i]
        /\ \A i \in 1 .. n : u[m + i] = t[i]
    BY <1>1, ConcatFacts
  <1> HIDE DEF u, m, n
  <1>3. \A i \in 1 .. m + n : i \in 1 .. m \/ (i - m \in 1 .. n /\ i = m + (i - m))
    BY <1>2
  <1>4. /\ \A i \in DOMAIN s : i \in DOMAIN u /\ u[i] = s[i] /\ s[i] \in ToSet(s)
        /\ \A i \in DOMAIN t : t[i] \in ToSet(t)
        /\ \A i \in DOMAIN u : i \in DOMAIN s \/ (i - m \in DOMAIN t /\ u[i] = t[i - m])
    BY <1>2, <1>3 DEF ToSet
  <1>5. ASSUME UniqueIds(s), UniqueIds(t), \A v \in ToSet(s), w \in ToSet(t) : v.id # w.id,
               NEW i \in DOMAIN u, NEW j \in DOMAIN u, u[i].id = u[j].id
        PROVE  i = j
    <2>1. CASE i \in DOMAIN s /\ j \in DOMAIN s
      BY <1>4, <1>5, <2>1 DEF UniqueIds
    <2>2. CASE i \notin DOMAIN s /\ j \notin DOMAIN s
      <3>1. i - m \in DOMAIN t /\ j - m \in DOMAIN t /\ t[i - m].id = t[j - m].id
        BY <1>4, <1>5, <2>2
      <3>2. i - m = j - m
        BY <1>5, <3>1 DEF UniqueIds
      <3> QED
        BY <1>2, <1>5, <3>2
    <2>3. CASE ~(i \in DOMAIN s <=> j \in DOMAIN s)
      BY <1>4, <1>5, <2>3
    <2> QED
      BY <2>1, <2>2, <2>3
  <1>6. ASSUME \A i, j \in DOMAIN s : s[i].id = s[j].id => i = j \/ MadeUp(s[i].id),
               \A w \in ToSet(t) : MadeUp(w.id),
               NEW i \in DOMAIN u, NEW j \in DOMAIN u, u[i].id = u[j].id, i # j
        PROVE  MadeUp(u[i].id)
    <2>1. CASE i \in DOMAIN s /\ j \in DOMAIN s
      BY <1>4, <1>6, <2>1
    <2>2. CASE i \notin DOMAIN s \/ j \notin DOMAIN s
      BY <1>4, <1>6, <2>2
    <2> QED
      BY <2>1, <2>2
  <1>7. (UniqueIds(s) /\ UniqueIds(t) /\ \A v \in ToSet(s), w \in ToSet(t) : v.id # w.id) => UniqueIds(u)
    BY <1>5 DEF UniqueIds
  <1> QED
    BY <1>6, <1>7 DEF u

\* A list whose ids are a prefix and the numbers that follow a.
NumberedFrom(s, prefix, a) ==
  a \in Nat /\ \A i \in DOMAIN s : i \in Nat /\ s[i].id = Suffixed(prefix, a + i)

LEMMA NumberedIds ==
  ASSUME NEW s, NEW prefix, NEW a, NumberedFrom(s, prefix, a)
  PROVE  /\ UniqueIds(s)
         /\ \A w \in ToSet(s) : w.id[1] = prefix /\ \E i \in DOMAIN s : w.id[2] = a + i
  <1>1. \A i \in DOMAIN s : s[i].id[1] = prefix /\ s[i].id[2] = a + i
    BY DEF NumberedFrom, Suffixed
  <1>2. UniqueIds(s)
    <2> SUFFICES ASSUME NEW i \in DOMAIN s, NEW j \in DOMAIN s, s[i].id = s[j].id PROVE i = j
      BY DEF UniqueIds
    <2>1. a + i = a + j
      BY <1>1
    <2>2. i \in Nat /\ j \in Nat /\ a \in Nat
      BY DEF NumberedFrom
    <2> QED
      BY <2>1, <2>2
  <1> QED
    BY <1>1, <1>2 DEF ToSet

\* The ids of the wires of what an extraction makes.
LEMMA InlineWireIds ==
  ASSUME NEW bp, NEW selected, Extractable(bp, selected), NEW name
  PROVE  LET made == InlineBlueprint(bp, selected, name)
         IN  /\ RepeatsMadeUp(made)
             /\ UniqueIds(bp.wires) /\ WiredByHand(bp) => UniqueIds(made.wires)
  <1> DEFINE made == InlineBlueprint(bp, selected, name)
             ins == Inputs(bp, selected)
             outs == Outputs(bp, selected)
             inner == {w \in ToSet(bp.wires) : w.source.node \in selected /\ w.target.node \in selected}
             p == Among(bp.wires, inner)
             q == InputBridgeWires(ins)
             r == OutputBridgeWires(outs)
             pq == p \o q
  <1>1. made.wires = pq \o r
    BY DEF InlineBlueprint, Blueprint
  <1>2. bp.wires \in Seq(ToSet(bp.wires)) /\ RepeatsMadeUp(bp)
    BY SoundForm DEF Extractable, Listed
  <1>3. ins \in Seq(ToSet(ins)) /\ outs \in Seq(ToSet(outs))
    BY InputsFacts, OutputsFacts DEF Extractable, Crossing
  <1>4. /\ DOMAIN ins = 1 .. Len(ins) /\ DOMAIN outs = 1 .. Len(outs)
        /\ Len(ins) \in Nat /\ Len(outs) \in Nat
    BY <1>3
  <1>5. /\ DOMAIN q = DOMAIN ins /\ \A i \in DOMAIN q : q[i].id = Suffixed("bp_bridge_in_wire_", 0 + i)
        /\ DOMAIN r = DOMAIN outs /\ \A i \in DOMAIN r : r[i].id = Suffixed("bp_bridge_out_wire_", 0 + i)
    <2>1. \A i \in DOMAIN ins : 0 + i = i
      BY <1>4
    <2>2. \A i \in DOMAIN outs : 0 + i = i
      BY <1>4
    <2> HIDE DEF ins, outs
    <2> QED
      BY <2>1, <2>2 DEF InputBridgeWires, OutputBridgeWires, NewWire
  <1>6. p \in Seq(ToSet(p)) /\ ToSet(p) \subseteq ToSet(bp.wires)
    BY <1>2, AmongList
  <1>7. /\ UniqueIds(bp.wires) => UniqueIds(p)
        /\ \A i, j \in DOMAIN p : p[i].id = p[j].id => i = j \/ MadeUp(p[i].id)
    BY <1>2, AmongIds DEF RepeatsMadeUp
  <1> HIDE DEF made, ins, outs, p, q, r
  <1>8. q \in Seq(ToSet(q)) /\ r \in Seq(ToSet(r))
    <2>1. q \in [DOMAIN ins -> ToSet(q)] /\ r \in [DOMAIN outs -> ToSet(r)]
      <3>1. q = [i \in DOMAIN ins |-> q[i]] /\ r = [i \in DOMAIN outs |-> r[i]]
        BY <1>5 DEF q, r, InputBridgeWires, OutputBridgeWires
      <3> QED
        BY <1>5, <3>1 DEF ToSet
    <2> QED
      BY <1>3, <2>1, MadeList
  <1>9. UniqueIds(q) /\ \A w \in ToSet(q) : w.id[1] = "bp_bridge_in_wire_"
    <2>1. NumberedFrom(q, "bp_bridge_in_wire_", 0)
      BY <1>4, <1>5 DEF NumberedFrom
    <2> QED
      BY <2>1, NumberedIds
  <1>10. UniqueIds(r) /\ \A w \in ToSet(r) : w.id[1] = "bp_bridge_out_wire_"
    <2>1. NumberedFrom(r, "bp_bridge_out_wire_", 0)
      BY <1>4, <1>5 DEF NumberedFrom
    <2> QED
      BY <2>1, NumberedIds
  <1>11. \A w \in ToSet(q) \cup ToSet(r) : MadeUp(w.id)
    BY <1>9, <1>10 DEF MadeUp, WirePrefixes
  <1>12. pq \in Seq(ToSet(pq)) /\ ToSet(pq) = ToSet(p) \cup ToSet(q)
    BY <1>6, <1>8, ListsJoined
  <1>13. \A i, j \in DOMAIN pq : pq[i].id = pq[j].id => i = j \/ MadeUp(pq[i].id)
    BY <1>6, <1>7, <1>8, <1>11, JoinedIds
  <1>14. UniqueIds(bp.wires) /\ WiredByHand(bp) => UniqueIds(pq)
    <2> SUFFICES ASSUME UniqueIds(bp.wires), WiredByHand(bp) PROVE UniqueIds(pq)
      OBVIOUS
    <2>1. \A v \in ToSet(p), w \in ToSet(q) : v.id # w.id
      BY <1>6, <1>11 DEF WiredByHand
    <2> QED
      BY <1>6, <1>7, <1>8, <1>9, <2>1, JoinedIds
  <1> HIDE DEF pq
  <1>15. RepeatsMadeUp(made)
    <2>1. LET u == pq \o r IN \A i, j \in DOMAIN u : u[i].id = u[j].id => i = j \/ MadeUp(u[i].id)
      BY <1>8, <1>11, <1>12, <1>13, JoinedIds
    <2> QED
      BY <1>1, <2>1 DEF RepeatsMadeUp
  <1>16. UniqueIds(bp.wires) /\ WiredByHand(bp) => UniqueIds(made.wires)
    <2> SUFFICES ASSUME UniqueIds(bp.wires), WiredByHand(bp) PROVE UniqueIds(made.wires)
      OBVIOUS
    <2>1. \A v \in ToSet(pq), w \in ToSet(r) : v.id # w.id
      BY <1>6, <1>9, <1>10, <1>11, <1>12 DEF WiredByHand
    <2>2. UniqueIds(pq \o r)
      BY <1>8, <1>10, <1>12, <1>14, <2>1, JoinedIds
    <2> QED
      BY <1>1, <2>2
  <1> QED
    BY <1>15, <1>16 DEF made

\* And of what it leaves.
LEMMA ParentWireIds ==
  ASSUME NEW bp, NEW selected, Extractable(bp, selected), NEW name
  PROVE  LET new == ParentBlueprint(bp, selected, name)
         IN  /\ RepeatsMadeUp(new)
             /\ UniqueIds(bp.wires) /\ WiredByHand(bp) => UniqueIds(new.wires)
  <1> DEFINE new == ParentBlueprint(bp, selected, name)
             ins == Inputs(bp, selected)
             outs == Outputs(bp, selected)
             instance == UniqueId("extract_inst_", IdsOf(bp.nodes))
             apart == {w \in ToSet(bp.wires) : w.source.node \notin selected
                                                /\ w.target.node \notin selected}
             m == Len(ins)
             p == Among(bp.wires, apart)
             q == [i \in DOMAIN ins |->
                     NewWire(Suffixed("extract_wire_", i), ins[i].outer, End(instance, ins[i].name))]
             r == [i \in DOMAIN outs |->
                     NewWire(Suffixed("extract_wire_", m + i), End(instance, outs[i].name),
                             outs[i].outer)]
             qr == q \o r
  <1>1. new.wires = p \o qr
    BY DEF ParentBlueprint, Blueprint, ReconnectionWires
  <1>2. bp.wires \in Seq(ToSet(bp.wires)) /\ RepeatsMadeUp(bp)
    BY SoundForm DEF Extractable, Listed
  <1>3. ins \in Seq(ToSet(ins)) /\ outs \in Seq(ToSet(outs))
    BY InputsFacts, OutputsFacts DEF Extractable, Crossing
  <1>4. DOMAIN ins = 1 .. m /\ DOMAIN outs = 1 .. Len(outs) /\ m \in Nat /\ Len(outs) \in Nat
    BY <1>3
  <1> HIDE DEF new, ins, outs, instance, m
  <1>5. /\ DOMAIN q = DOMAIN ins /\ \A i \in DOMAIN q : q[i].id = Suffixed("extract_wire_", 0 + i) /\ i \in 1 .. m
        /\ DOMAIN r = DOMAIN outs
        /\ \A i \in DOMAIN r : r[i].id = Suffixed("extract_wire_", m + i) /\ i \in 1 .. Len(outs)
    <2>1. \A i \in DOMAIN ins : 0 + i = i
      BY <1>4
    <2> QED
      BY <1>4, <2>1 DEF NewWire
  <1>6. p \in Seq(ToSet(p)) /\ ToSet(p) \subseteq ToSet(bp.wires)
    BY <1>2, AmongList
  <1>7. /\ UniqueIds(bp.wires) => UniqueIds(p)
        /\ \A i, j \in DOMAIN p : p[i].id = p[j].id => i = j \/ MadeUp(p[i].id)
    BY <1>2, AmongIds DEF RepeatsMadeUp
  <1>8. q \in Seq(ToSet(q)) /\ r \in Seq(ToSet(r))
    <2>1. q \in [DOMAIN ins -> ToSet(q)] /\ r \in [DOMAIN outs -> ToSet(r)]
      BY DEF ToSet
    <2> HIDE DEF q, r
    <2> QED
      BY <1>3, <2>1, MadeList
  <1> HIDE DEF p, q, r
  <1>9. /\ UniqueIds(q)
        /\ \A w \in ToSet(q) : w.id[1] = "extract_wire_" /\ \E i \in DOMAIN q : w.id[2] = 0 + i
    <2>1. NumberedFrom(q, "extract_wire_", 0)
      BY <1>4, <1>5 DEF NumberedFrom
    <2> QED
      BY <2>1, NumberedIds
  <1>10. /\ UniqueIds(r)
         /\ \A w \in ToSet(r) : w.id[1] = "extract_wire_" /\ \E i \in DOMAIN r : w.id[2] = m + i
    <2>1. NumberedFrom(r, "extract_wire_", m)
      BY <1>4, <1>5 DEF NumberedFrom
    <2> QED
      BY <2>1, NumberedIds
  <1>11. qr \in Seq(ToSet(qr)) /\ ToSet(qr) = ToSet(q) \cup ToSet(r)
    BY <1>8, ListsJoined
  <1>12. \A w \in ToSet(qr) : MadeUp(w.id)
    BY <1>9, <1>10, <1>11 DEF MadeUp, WirePrefixes
  <1>13. UniqueIds(qr)
    <2>1. ASSUME NEW v \in ToSet(q), NEW w \in ToSet(r) PROVE v.id # w.id
      <3>1. PICK i \in DOMAIN q : v.id[2] = 0 + i
        BY <1>9
      <3>2. PICK j \in DOMAIN r : w.id[2] = m + j
        BY <1>10
      <3>3. i \in 1 .. m /\ j \in 1 .. Len(outs)
        BY <1>5
      <3>4. v.id[2] # w.id[2]
        BY <1>4, <3>1, <3>2, <3>3
      <3> QED
        BY <3>4
    <2> QED
      BY <1>8, <1>9, <1>10, <2>1, JoinedIds
  <1> HIDE DEF qr
  <1>14. RepeatsMadeUp(new)
    <2>1. LET u == p \o qr IN \A i, j \in DOMAIN u : u[i].id = u[j].id => i = j \/ MadeUp(u[i].id)
      BY <1>6, <1>7, <1>11, <1>12, JoinedIds
    <2> QED
      BY <1>1, <2>1 DEF RepeatsMadeUp
  <1>15. UniqueIds(bp.wires) /\ WiredByHand(bp) => UniqueIds(new.wires)
    <2> SUFFICES ASSUME UniqueIds(bp.wires), WiredByHand(bp) PROVE UniqueIds(new.wires)
      OBVIOUS
    <2>1. \A v \in ToSet(p), w \in ToSet(qr) : v.id # w.id
      BY <1>6, <1>12 DEF WiredByHand
    <2>2. UniqueIds(p \o qr)
      BY <1>6, <1>7, <1>11, <1>13, <2>1, JoinedIds
    <2> QED
      BY <1>1, <2>2
  <1> QED
    BY <1>14, <1>15 DEF new

\* The node at an end of a wire of a sound blueprint.
LEMMA NodeAt ==
  ASSUME NEW bp, NEW w \in ToSet(bp.wires), Sound(bp)
  PROVE  /\ \E n \in ToSet(bp.nodes) : n.id = w.source.node
         /\ \E n \in ToSet(bp.nodes) : n.id = w.target.node
  BY SoundForm DEF GoodWire, GoodEnd, ValidEnd, IdsOf

\* What an extraction makes is a sound blueprint, and embeds nothing that was
\* not embedded before.
LEMMA InlineSound ==
  ASSUME NEW bp, NEW selected, Extractable(bp, selected), NEW name
  PROVE  /\ Sound(InlineBlueprint(bp, selected, name))
         /\ Embeds(InlineBlueprint(bp, selected, name)) \subseteq Embeds(bp)
  <1> DEFINE made == InlineBlueprint(bp, selected, name)
             ins == Inputs(bp, selected)
             outs == Outputs(bp, selected)
             chosen == {n \in ToSet(bp.nodes) : n.id \in selected}
             B == {BridgeOf(x, "bp_in_", "Input") : x \in NamesIn(ins)}
             C == {BridgeOf(x, "bp_out_", "Output") : x \in NamesIn(outs)}
             inner == {w \in ToSet(bp.wires) : w.source.node \in selected /\ w.target.node \in selected}
             p == Among(bp.wires, inner)
             q == InputBridgeWires(ins)
             r == OutputBridgeWires(outs)
             port == <<"port">>
  <1>1. /\ made.nodes \in Seq(ToSet(made.nodes)) /\ UniqueIds(made.nodes)
        /\ ToSet(made.nodes) = chosen \cup B \cup C
    BY InlineNodes
  <1>2. /\ made.iface \in Seq(ToSet(made.iface))
        /\ \A x \in NamesIn(ins) : PortsNamed(made.iface, x) = {[name |-> x, dir |-> "Input"]}
        /\ \A x \in NamesIn(outs) : PortsNamed(made.iface, x) = {[name |-> x, dir |-> "Output"]}
    BY InlineIface
  <1>3. made.wires = p \o q \o r
    BY DEF InlineBlueprint, Blueprint
  <1>4. Crossing(ins, bp, selected, TRUE) /\ Crossing(outs, bp, selected, FALSE)
    BY InputsFacts, OutputsFacts DEF Extractable
  <1>5. /\ bp.nodes \in Seq(ToSet(bp.nodes)) /\ bp.wires \in Seq(ToSet(bp.wires))
        /\ UniqueIds(bp.nodes) /\ Sound(bp)
        /\ \A n \in Instances(bp) : Known(n)
        /\ \A w \in ToSet(bp.wires) : GoodWire(bp, w)
        /\ NamesIn(ins) \cap NamesIn(outs) = {}
    BY SoundForm DEF Extractable, Listed
  <1>6. \A n \in chosen : n.kind # "bridge" /\ n.id[1] \notin Sides
    BY SelectedFacts
  <1>7. q = [i \in DOMAIN ins |-> NewWire(Suffixed("bp_bridge_in_wire_", i),
                                    End(BridgeId("bp_in_", ins[i].name), port), ins[i].inner)]
    BY DEF InputBridgeWires
  <1>8. r = [i \in DOMAIN outs |-> NewWire(Suffixed("bp_bridge_out_wire_", i),
                                    outs[i].inner, End(BridgeId("bp_out_", outs[i].name), port))]
    BY DEF OutputBridgeWires
  <1> HIDE DEF made, ins, outs, p, q, r
  <1>9. ASSUME NEW n \in ToSet(made.nodes), n.kind = "bridge" PROVE ValidBridge(made, n)
    <2>1. ASSUME NEW x, NEW side, NEW dir, n = BridgeOf(x, side, dir),
                 PortsNamed(made.iface, x) = {[name |-> x, dir |-> dir]},
                 \A m \in B \cup C : m.exposed = x => m = n
          PROVE  ValidBridge(made, n)
      <3> DEFINE e == [name |-> x, dir |-> dir]
                 E == PortsNamed(made.iface, x)
      <3>1. n.exposed = x /\ n.ports = BridgePorts(dir)
        BY <2>1 DEF BridgeOf
      <3>2. E = {e} /\ E \subseteq ToSet(made.iface)
        BY <2>1 DEF PortsNamed
      <3>3. FirstOf(made.iface, E) = e
        <4> HIDE DEF e, E
        <4> QED
          BY <1>2, <3>2, FirstOfFacts
      <3>4. BridgesFor(made, x) = {n}
        BY <1>1, <1>6, <1>9, <2>1, <3>1 DEF BridgesFor
      <3>5. e.dir = dir
        OBVIOUS
      <3> HIDE DEF e, E
      <3> QED
        BY <3>1, <3>2, <3>3, <3>4, <3>5 DEF ValidBridge, E
    <2>2. \A x, y : BridgeOf(x, "bp_in_", "Input").exposed = x /\ BridgeOf(y, "bp_out_", "Output").exposed = y
      BY DEF BridgeOf
    <2>3. CASE n \in B
      <3>1. PICK x \in NamesIn(ins) : n = BridgeOf(x, "bp_in_", "Input")
        BY <2>3
      <3>2. \A m \in B \cup C : m.exposed = x => m = n
        BY <1>5, <2>2, <3>1
      <3> QED
        BY <1>2, <2>1, <3>1, <3>2
    <2>4. CASE n \in C
      <3>1. PICK x \in NamesIn(outs) : n = BridgeOf(x, "bp_out_", "Output")
        BY <2>4
      <3>2. \A m \in B \cup C : m.exposed = x => m = n
        BY <1>5, <2>2, <3>1
      <3> QED
        BY <1>2, <2>1, <3>1, <3>2
    <2> QED
      BY <1>1, <1>6, <1>9, <2>3, <2>4
  <1>10. \A n \in B \cup C : n.kind = "bridge"
    BY DEF BridgeOf
  <1>11. ASSUME NEW n \in Instances(made) PROVE Known(n)
    BY <1>1, <1>5, <1>10 DEF Instances, IsInstance
  <1>12. ASSUME NEW end, NEW dirs, GoodEnd(bp, end, dirs), end.node \in selected
         PROVE  GoodEnd(made, end, dirs) /\ end.node[1] \notin Sides
    <2>1. PICK n \in ToSet(bp.nodes) : n.id = end.node
      BY <1>12 DEF GoodEnd, ValidEnd, IdsOf
    <2>2. n \in ToSet(made.nodes) /\ n \in chosen
      BY <1>1, <1>12, <2>1
    <2>3. GoodEnd(made, end, dirs)
      BY <1>1, <1>5, <1>12, <2>1, <2>2, EndMoves
    <2> QED
      BY <1>6, <2>1, <2>2, <2>3
  <1>13. ASSUME NEW x \in NamesIn(ins)
         PROVE  GoodEnd(made, End(BridgeId("bp_in_", x), port), {"Output", "InOut"})
    <2> DEFINE n == BridgeOf(x, "bp_in_", "Input")
    <2>1. n \in ToSet(made.nodes) /\ n.id = BridgeId("bp_in_", x)
      BY <1>1 DEF BridgeOf
    <2>2. /\ PortsNamed(IfaceOf(n), port) = {[name |-> port, dir |-> "Output"]}
          /\ ~IsInstance(n) /\ IfaceOf(n) \in Seq(ToSet(IfaceOf(n)))
      BY BridgeEnds
    <2> HIDE DEF n
    <2>3. \A e \in PortsNamed(IfaceOf(n), port) : e.dir = "Output"
      BY <2>2
    <2>4. PortsNamed(IfaceOf(n), port) # {} /\ "Output" \in {"Output", "InOut"}
      BY <2>2
    <2>5. GoodEnd(made, End(n.id, port), {"Output", "InOut"})
      BY <1>1, <2>1, <2>2, <2>3, <2>4, EndMade
    <2> QED
      BY <2>1, <2>5
  <1>14. ASSUME NEW x \in NamesIn(outs)
         PROVE  GoodEnd(made, End(BridgeId("bp_out_", x), port), {"Input", "InOut"})
    <2> DEFINE n == BridgeOf(x, "bp_out_", "Output")
    <2>1. n \in ToSet(made.nodes) /\ n.id = BridgeId("bp_out_", x)
      BY <1>1 DEF BridgeOf
    <2>2. /\ PortsNamed(IfaceOf(n), port) = {[name |-> port, dir |-> "Input"]}
          /\ ~IsInstance(n) /\ IfaceOf(n) \in Seq(ToSet(IfaceOf(n)))
      BY BridgeEnds
    <2> HIDE DEF n
    <2>3. \A e \in PortsNamed(IfaceOf(n), port) : e.dir = "Input"
      BY <2>2
    <2>4. PortsNamed(IfaceOf(n), port) # {} /\ "Input" \in {"Input", "InOut"}
      BY <2>2
    <2>5. GoodEnd(made, End(n.id, port), {"Input", "InOut"})
      BY <1>1, <2>1, <2>2, <2>3, <2>4, EndMade
    <2> QED
      BY <2>1, <2>5
  <1>15. \A x, side : End(BridgeId(side, x), port).node = <<side, x>>
    BY DEF End, BridgeId
  <1>16. ASSUME NEW w \in ToSet(p) PROVE GoodWire(made, w)
    <2>1. w \in ToSet(bp.wires) /\ w.source.node \in selected /\ w.target.node \in selected
      BY <1>5, AmongList DEF p
    <2> QED
      BY <1>5, <1>12, <2>1 DEF GoodWire
  <1>17. ASSUME NEW i \in DOMAIN ins PROVE GoodWire(made, q[i])
    <2>1. PICK w \in ToSet(bp.wires) : w.target.node \in selected /\ ins[i].inner = w.target
      BY <1>4 DEF Crossing
    <2>2. /\ q[i].source = End(BridgeId("bp_in_", ins[i].name), port)
          /\ q[i].target = w.target
      BY <1>7, <2>1 DEF NewWire
    <2>3. ins[i].name \in NamesIn(ins)
      BY DEF NamesIn, ToSet
    <2>4. GoodEnd(made, q[i].target, {"Input", "InOut"}) /\ q[i].target.node[1] \notin Sides
      BY <1>5, <1>12, <2>1, <2>2 DEF GoodWire
    <2>5. q[i].source.node[1] = "bp_in_"
      BY <1>15, <2>2
    <2>6. GoodEnd(made, q[i].source, {"Output", "InOut"})
      BY <1>13, <2>2, <2>3
    <2> QED
      BY <2>4, <2>5, <2>6 DEF GoodWire, Sides
  <1>18. ASSUME NEW i \in DOMAIN outs PROVE GoodWire(made, r[i])
    <2>1. PICK w \in ToSet(bp.wires) : w.source.node \in selected /\ outs[i].inner = w.source
      BY <1>4 DEF Crossing
    <2>2. /\ r[i].target = End(BridgeId("bp_out_", outs[i].name), port)
          /\ r[i].source = w.source
      BY <1>8, <2>1 DEF NewWire
    <2>3. outs[i].name \in NamesIn(outs)
      BY DEF NamesIn, ToSet
    <2>4. GoodEnd(made, r[i].source, {"Output", "InOut"}) /\ r[i].source.node[1] \notin Sides
      BY <1>5, <1>12, <2>1, <2>2 DEF GoodWire
    <2>5. r[i].target.node[1] = "bp_out_"
      BY <1>15, <2>2
    <2>6. GoodEnd(made, r[i].target, {"Input", "InOut"})
      BY <1>14, <2>2, <2>3
    <2> QED
      BY <2>4, <2>5, <2>6 DEF GoodWire, Sides
  <1>19. /\ q \in Seq(ToSet(q)) /\ ToSet(q) = {q[i] : i \in DOMAIN ins}
         /\ r \in Seq(ToSet(r)) /\ ToSet(r) = {r[i] : i \in DOMAIN outs}
    <2>1. q \in [DOMAIN ins -> ToSet(q)] /\ r \in [DOMAIN outs -> ToSet(r)]
      BY <1>7, <1>8 DEF ToSet
    <2> QED
      BY <1>4, <2>1, MadeList DEF Crossing
  <1>20. ToSet(made.wires) = ToSet(p) \cup ToSet(q) \cup ToSet(r)
    <2> DEFINE pq == p \o q
    <2>1. p \in Seq(ToSet(p))
      BY <1>5, AmongList DEF p
    <2>2. pq \in Seq(ToSet(pq)) /\ ToSet(pq) = ToSet(p) \cup ToSet(q)
      BY <1>19, <2>1, ListsJoined
    <2> HIDE DEF pq
    <2>3. ToSet(pq \o r) = ToSet(pq) \cup ToSet(r)
      BY <1>19, <2>2, ListsJoined
    <2> QED
      BY <1>3, <2>2, <2>3 DEF pq
  <1>21. \A w \in ToSet(made.wires) : GoodWire(made, w)
    BY <1>16, <1>17, <1>18, <1>19, <1>20
  <1>22. Sound(made)
    <2>1. RepeatsMadeUp(made)
      BY InlineWireIds DEF made
    <2> QED
      BY <1>1, <1>9, <1>11, <1>21, <2>1, SoundForm
  <1>23. Embeds(made) \subseteq Embeds(bp)
    BY <1>1, <1>10 DEF Embeds
  <1> QED
    BY <1>22, <1>23 DEF made

-----------------------------------------------------------------------------
(* Extraction: the parent, and a baked reference.                          *)

\* Some nodes of a blueprint give way to one with a blueprint in it.
LEMMA NodesReplaced ==
  ASSUME NEW nodes, nodes \in Seq(ToSet(nodes)), UniqueIds(nodes),
         NEW others, others \subseteq ToSet(nodes),
         NEW e, \A n \in others : n.id # e.id
  PROVE  LET new == Append(Among(nodes, others), e)
         IN  /\ new \in Seq(ToSet(new)) /\ UniqueIds(new)
             /\ ToSet(new) = others \cup {e}
  <1> DEFINE a == Among(nodes, others)
             V == others \cup {e}
  <1>1. a \in Seq(ToSet(a)) /\ ToSet(a) = others
    BY AmongList
  <1>2. Distinct(a)
    BY AmongFacts, UniqueForm
  <1>3. \A m, n \in others : m.id = n.id => m = n
    BY UniqueForm
  <1>4. e \notin others
    OBVIOUS
  <1>5. \A m, n \in V : m.id = n.id => m = n
    BY <1>3
  <1>6. others \subseteq V /\ e \in V
    OBVIOUS
  <1> HIDE DEF a, V
  <1>7. a \in Seq(V)
    BY <1>1, <1>6, SeqWider
  <1> DEFINE new == Append(a, e)
  <1>8. new \in Seq(V) /\ ToSet(new) = others \cup {e} /\ Distinct(new)
    BY <1>1, <1>2, <1>4, <1>6, <1>7, AppendFacts, AppendIndex
  <1> HIDE DEF new
  <1>9. new \in Seq(ToSet(new)) /\ ToSet(new) = V
    BY <1>8 DEF V
  <1>10. UniqueIds(new)
    BY <1>5, <1>8, <1>9, UniqueForm
  <1> QED
    BY <1>8, <1>9, <1>10 DEF new, a

\* The bridges of a blueprint stay valid where they and the interface stay.
LEMMA BridgesStay ==
  ASSUME NEW old, NEW new, new.iface = old.iface,
         \A n : n \in ToSet(new.nodes) /\ n.kind = "bridge"
                <=> n \in ToSet(old.nodes) /\ n.kind = "bridge",
         Sound(old),
         NEW n \in ToSet(new.nodes), n.kind = "bridge"
  PROVE  ValidBridge(new, n)
  <1>1. \A port : BridgesFor(new, port) = BridgesFor(old, port)
    BY DEF BridgesFor
  <1>2. ValidBridge(old, n)
    BY SoundForm
  <1> QED
    BY <1>1, <1>2 DEF ValidBridge

\* What an extraction leaves is sound and embeds one blueprint more.
LEMMA ParentSound ==
  ASSUME NEW bp, NEW selected, Extractable(bp, selected), NEW name
  PROVE  LET new == ParentBlueprint(bp, selected, name)
         IN  /\ Listed(new) /\ BridgeIdsKept(new) /\ Sound(new)
             /\ Embeds(new) \subseteq {InlineBlueprint(bp, selected, name)} \cup Embeds(bp)
  <1> DEFINE new == ParentBlueprint(bp, selected, name)
             made == InlineBlueprint(bp, selected, name)
             ins == Inputs(bp, selected)
             outs == Outputs(bp, selected)
             instance == UniqueId("extract_inst_", IdsOf(bp.nodes))
             e == Embedded(instance, made)
             others == {n \in ToSet(bp.nodes) : n.id \notin selected}
             apart == {w \in ToSet(bp.wires) : w.source.node \notin selected
                                                /\ w.target.node \notin selected}
             p == Among(bp.wires, apart)
             q == [i \in DOMAIN ins |->
                     NewWire(Suffixed("extract_wire_", i), ins[i].outer, End(instance, ins[i].name))]
             r == [i \in DOMAIN outs |->
                     NewWire(Suffixed("extract_wire_", Len(ins) + i), End(instance, outs[i].name),
                             outs[i].outer)]
  <1>1. /\ bp.nodes \in Seq(ToSet(bp.nodes)) /\ bp.wires \in Seq(ToSet(bp.wires))
        /\ bp.iface \in Seq(ToSet(bp.iface))
        /\ UniqueIds(bp.nodes) /\ Sound(bp) /\ BridgeIdsKept(bp)
        /\ \A n \in Instances(bp) : Known(n)
        /\ \A w \in ToSet(bp.wires) : GoodWire(bp, w)
        /\ NamesIn(ins) \cap NamesIn(outs) = {}
    BY SoundForm DEF Extractable, Listed
  <1>2. Crossing(ins, bp, selected, TRUE) /\ Crossing(outs, bp, selected, FALSE)
    BY InputsFacts, OutputsFacts DEF Extractable
  <1>3. instance \notin IdsOf(bp.nodes) /\ instance[1] = "extract_inst_"
    BY <1>1, IdsFinite, UniqueIdFacts
  <1>4. /\ new.nodes = Append(Among(bp.nodes, others), e)
        /\ new.wires = p \o (q \o r)
        /\ new.iface = bp.iface
    BY DEF ParentBlueprint, Blueprint, ReconnectionWires
  <1>5. \A x \in NamesIn(ins) :
            PortsNamed(made.iface, x) = {[name |-> x, dir |-> "Input"]} /\ BridgesFor(made, x) # {}
    <2> TAKE x \in NamesIn(ins)
    <2>1. BridgeOf(x, "bp_in_", "Input") \in ToSet(made.nodes)
      BY InlineNodes
    <2>2. BridgeOf(x, "bp_in_", "Input") \in BridgesFor(made, x)
      BY <2>1 DEF BridgesFor, BridgeOf
    <2> QED
      BY <2>2, InlineIface
  <1>6. \A x \in NamesIn(outs) :
            PortsNamed(made.iface, x) = {[name |-> x, dir |-> "Output"]} /\ BridgesFor(made, x) # {}
    <2> TAKE x \in NamesIn(outs)
    <2>1. BridgeOf(x, "bp_out_", "Output") \in ToSet(made.nodes)
      BY InlineNodes
    <2>2. BridgeOf(x, "bp_out_", "Output") \in BridgesFor(made, x)
      BY <2>1 DEF BridgesFor, BridgeOf
    <2> QED
      BY <2>2, InlineIface
  <1>7. made.iface \in Seq(ToSet(made.iface))
    BY InlineIface
  <1>8. /\ e.id = instance /\ e.kind = "embedded" /\ e.inner[1] = made
        /\ IsInstance(e) /\ Known(e) /\ InnerOf(e) = made /\ IfaceOf(e) = made.iface
    BY DEF Embedded, IsInstance, Known, InnerOf, IfaceOf
  <1> HIDE DEF new, made, ins, outs, instance, e, p
  <1>9. \A n \in others : n.id # e.id
    BY <1>3, <1>8 DEF IdsOf
  <1>10. /\ new.nodes \in Seq(ToSet(new.nodes)) /\ UniqueIds(new.nodes)
         /\ ToSet(new.nodes) = others \cup {e}
    <2>1. others \subseteq ToSet(bp.nodes) /\ \A n \in others : n.id # e.id
      BY <1>9
    <2>2. bp.nodes \in Seq(ToSet(bp.nodes)) /\ UniqueIds(bp.nodes)
      BY <1>1
    <2>3. new.nodes = Append(Among(bp.nodes, others), e)
      BY <1>4
    <2> HIDE DEF others
    <2> QED
      BY <2>1, <2>2, <2>3, NodesReplaced
  <1>11. \A n \in ToSet(bp.nodes) : n.kind = "bridge" => n \in others
    BY SelectedFacts
  <1>12. ASSUME NEW n \in ToSet(new.nodes), n.kind = "bridge" PROVE ValidBridge(new, n)
    <2>1. \A m : m \in ToSet(new.nodes) /\ m.kind = "bridge"
                 <=> m \in ToSet(bp.nodes) /\ m.kind = "bridge"
      BY <1>8, <1>10, <1>11
    <2> QED
      BY <1>1, <1>4, <1>12, <2>1, BridgesStay
  <1>13. \A n \in Instances(new) : Known(n)
    BY <1>1, <1>8, <1>10 DEF Instances
  <1>14. ASSUME NEW end, NEW dirs, GoodEnd(bp, end, dirs), end.node \notin selected
         PROVE  GoodEnd(new, end, dirs) /\ end.node # instance
    <2>1. PICK n \in ToSet(bp.nodes) : n.id = end.node
      BY <1>14 DEF GoodEnd, ValidEnd, IdsOf
    <2>2. n \in ToSet(new.nodes)
      BY <1>10, <1>14, <2>1
    <2>3. GoodEnd(new, end, dirs)
      BY <1>1, <1>10, <1>14, <2>1, <2>2, EndMoves
    <2>4. end.node \in IdsOf(bp.nodes)
      BY <2>1 DEF IdsOf
    <2> QED
      BY <1>3, <2>3, <2>4
  <1>15. ASSUME NEW x, NEW dir, PortsNamed(made.iface, x) = {[name |-> x, dir |-> dir]},
                BridgesFor(made, x) # {}, NEW dirs, dir \in dirs
         PROVE  GoodEnd(new, End(instance, x), dirs)
    <2>1. \A port \in PortsNamed(IfaceOf(e), x) : port.dir = dir
      BY <1>8, <1>15
    <2>2. PortsNamed(IfaceOf(e), x) # {} /\ IfaceOf(e) \in Seq(ToSet(made.iface))
      BY <1>7, <1>8, <1>15
    <2>3. e \in ToSet(new.nodes)
      BY <1>10
    <2>4. GoodEnd(new, End(e.id, x), dirs)
      BY <1>8, <1>10, <1>15, <2>1, <2>2, <2>3, EndMade
    <2> QED
      BY <1>8, <2>4
  <1>16. ASSUME NEW w \in ToSet(p) PROVE GoodWire(new, w)
    <2>1. w \in ToSet(bp.wires) /\ w.source.node \notin selected /\ w.target.node \notin selected
      BY <1>1, AmongList DEF p
    <2> QED
      BY <1>1, <1>14, <2>1 DEF GoodWire
  <1>17. ASSUME NEW i \in DOMAIN ins PROVE GoodWire(new, q[i])
    <2>1. PICK w \in ToSet(bp.wires) : w.source.node \notin selected /\ ins[i].outer = w.source
      BY <1>2 DEF Crossing
    <2>2. q[i].source = w.source /\ q[i].target = End(instance, ins[i].name)
      BY <2>1 DEF NewWire
    <2>3. ins[i].name \in NamesIn(ins)
      BY DEF NamesIn, ToSet
    <2> HIDE DEF q
    <2>4. GoodEnd(new, q[i].source, {"Output", "InOut"}) /\ q[i].source.node # instance
      BY <1>1, <1>14, <2>1, <2>2 DEF GoodWire
    <2>5. GoodEnd(new, q[i].target, {"Input", "InOut"})
      BY <1>5, <1>15, <2>2, <2>3
    <2>6. q[i].target.node = instance
      BY <2>2 DEF End
    <2> QED
      BY <2>4, <2>5, <2>6 DEF GoodWire
  <1>18. ASSUME NEW i \in DOMAIN outs PROVE GoodWire(new, r[i])
    <2>1. PICK w \in ToSet(bp.wires) : w.target.node \notin selected /\ outs[i].outer = w.target
      BY <1>2 DEF Crossing
    <2>2. r[i].target = w.target /\ r[i].source = End(instance, outs[i].name)
      BY <2>1 DEF NewWire
    <2>3. outs[i].name \in NamesIn(outs)
      BY DEF NamesIn, ToSet
    <2> HIDE DEF r
    <2>4. GoodEnd(new, r[i].target, {"Input", "InOut"}) /\ r[i].target.node # instance
      BY <1>1, <1>14, <2>1, <2>2 DEF GoodWire
    <2>5. GoodEnd(new, r[i].source, {"Output", "InOut"})
      BY <1>6, <1>15, <2>2, <2>3
    <2>6. r[i].source.node = instance
      BY <2>2 DEF End
    <2> QED
      BY <2>4, <2>5, <2>6 DEF GoodWire
  <1>19. /\ q \in Seq(ToSet(q)) /\ ToSet(q) = {q[i] : i \in DOMAIN ins}
         /\ r \in Seq(ToSet(r)) /\ ToSet(r) = {r[i] : i \in DOMAIN outs}
    <2>1. q \in [DOMAIN ins -> ToSet(q)] /\ r \in [DOMAIN outs -> ToSet(r)]
      BY DEF ToSet
    <2> HIDE DEF q, r
    <2> QED
      BY <1>2, <2>1, MadeList DEF Crossing
  <1> HIDE DEF q, r
  <1>20. new.wires \in Seq(ToSet(new.wires)) /\ ToSet(new.wires) = ToSet(p) \cup (ToSet(q) \cup ToSet(r))
    <2> DEFINE qr == q \o r
    <2>1. p \in Seq(ToSet(p))
      BY <1>1, AmongList DEF p
    <2>2. qr \in Seq(ToSet(qr)) /\ ToSet(qr) = ToSet(q) \cup ToSet(r)
      BY <1>19, ListsJoined
    <2> HIDE DEF qr
    <2>3. p \o qr \in Seq(ToSet(p \o qr)) /\ ToSet(p \o qr) = ToSet(p) \cup ToSet(qr)
      BY <2>1, <2>2, ListsJoined
    <2> QED
      BY <1>4, <2>2, <2>3 DEF qr
  <1>21. \A w \in ToSet(new.wires) : GoodWire(new, w)
    BY <1>16, <1>17, <1>18, <1>19, <1>20
  <1>22. Sound(new)
    <2>1. RepeatsMadeUp(new)
      BY ParentWireIds DEF new
    <2> QED
      BY <1>10, <1>12, <1>13, <1>21, <2>1, SoundForm
  <1>23. Listed(new)
    BY <1>1, <1>4, <1>10, <1>20 DEF Listed
  <1>24. BridgeIdsKept(new)
    BY <1>1, <1>3, <1>8, <1>10 DEF BridgeIdsKept, Sides
  <1>25. Embeds(new) \subseteq {made} \cup Embeds(bp)
    BY <1>8, <1>10 DEF Embeds
  <1> QED
    BY <1>22, <1>23, <1>24, <1>25 DEF new, made

\* Soundness and contents do not depend on the id of a blueprint.
LEMMA Renamed ==
  ASSUME NEW a, NEW b, a.nodes = b.nodes, a.wires = b.wires, a.iface = b.iface
  PROVE  /\ Sound(a) <=> Sound(b)
         /\ Embeds(a) = Embeds(b)
         /\ \A port : BridgesFor(a, port) = BridgesFor(b, port)
  <1>1. \A port : BridgesFor(a, port) = BridgesFor(b, port)
    BY DEF BridgesFor
  <1>2. \A id : NodeOf(a, id) = NodeOf(b, id)
    BY DEF NodeOf
  <1>3. \A end, dirs : GoodEnd(a, end, dirs) <=> GoodEnd(b, end, dirs)
    BY <1>2 DEF GoodEnd, ValidEnd, PortsAt, Resolvable
  <1>4. \A w : GoodWire(a, w) <=> GoodWire(b, w)
    BY <1>3 DEF GoodWire
  <1>5. \A n : ValidBridge(a, n) <=> ValidBridge(b, n)
    BY <1>1 DEF ValidBridge
  <1>6. Instances(a) = Instances(b)
    BY DEF Instances
  <1>7. RepeatsMadeUp(a) <=> RepeatsMadeUp(b)
    BY DEF RepeatsMadeUp
  <1>8. Sound(a) <=> Sound(b)
    BY <1>4, <1>5, <1>6, <1>7, SoundForm
  <1> QED
    BY <1>1, <1>8 DEF Embeds

\* Baking a reference in leaves the document sound.
LEMMA BakeSound ==
  ASSUME NEW id \in IdsOf(doc.nodes), Bake(id), Listed(doc), BridgeIdsKept(doc), Sound(doc)
  PROVE  \E ref \in DOMAIN Library : \E copy :
            /\ Listed(doc') /\ BridgeIdsKept(doc') /\ Sound(doc')
            /\ Embeds(doc') \subseteq {copy} \cup Embeds(doc)
            /\ Embeds(copy) = Embeds(Library[ref])
            /\ Sound(Library[ref]) => Sound(copy)
            /\ doc'.wires = doc.wires /\ copy.wires = Library[ref].wires
  <1> DEFINE node == NodeOf(doc, id)
             ref == node.inner[1]
             inner == Library[ref]
             copy == Blueprint(id, inner.nodes, inner.wires, inner.iface)
             e == Embedded(id, copy)
             others == {n \in ToSet(doc.nodes) : n.id # id}
             new == doc'
  <1>1. PICK n \in ToSet(doc.nodes) : n.id = id
    BY DEF IdsOf
  <1>2. /\ doc.nodes \in Seq(ToSet(doc.nodes)) /\ doc.wires \in Seq(ToSet(doc.wires))
        /\ doc.iface \in Seq(ToSet(doc.iface)) /\ UniqueIds(doc.nodes)
        /\ \A m \in Instances(doc) : Known(m)
        /\ \A w \in ToSet(doc.wires) : GoodWire(doc, w)
    BY SoundForm DEF Listed
  <1>3. node = n
    BY <1>1, <1>2, NodeFacts
  <1>4. node.kind = "reference" /\ ref \in DOMAIN Library /\ InnerOf(node) = inner
    BY DEF Bake, Known, InnerOf
  <1>5. /\ new.nodes = Append(Among(doc.nodes, others), e)
        /\ new.wires = doc.wires /\ new.iface = doc.iface
    BY <1>4 DEF Bake, Blueprint
  <1>6. copy.nodes = inner.nodes /\ copy.wires = inner.wires /\ copy.iface = inner.iface
    BY DEF Blueprint
  <1>7. /\ e.id = id /\ e.kind = "embedded" /\ e.inner[1] = copy
        /\ IsInstance(e) /\ Known(e) /\ InnerOf(e) = copy /\ IfaceOf(e) = copy.iface
    BY DEF Embedded, IsInstance, Known, InnerOf, IfaceOf
  <1>8. /\ node.id = id /\ node.kind # "bridge" /\ IsInstance(node)
        /\ IfaceOf(node) = IfaceOf(e) /\ id[1] \notin Sides
    BY <1>1, <1>3, <1>4, <1>6, <1>7 DEF IfaceOf, IsInstance, BridgeIdsKept
  <1> HIDE DEF node, copy, e, new, inner, ref
  <1>9. /\ new.nodes \in Seq(ToSet(new.nodes)) /\ UniqueIds(new.nodes)
        /\ ToSet(new.nodes) = others \cup {e}
    <2>1. others \subseteq ToSet(doc.nodes) /\ \A m \in others : m.id # e.id
      BY <1>7
    <2> HIDE DEF others
    <2> QED
      BY <1>2, <1>5, <2>1, NodesReplaced
  <1>10. Sound(copy) <=> Sound(inner)
    BY <1>6, Renamed
  <1>11. Embeds(copy) = Embeds(inner) /\ \A port : BridgesFor(copy, port) = BridgesFor(inner, port)
    BY <1>6, Renamed
  <1>12. ASSUME NEW m \in ToSet(new.nodes), m.kind = "bridge" PROVE ValidBridge(new, m)
    <2>1. \A x \in ToSet(doc.nodes) : x.kind = "bridge" => x \in others
      BY <1>1, <1>2, <1>3, <1>8, UniqueForm
    <2>2. \A x : x \in ToSet(new.nodes) /\ x.kind = "bridge"
                 <=> x \in ToSet(doc.nodes) /\ x.kind = "bridge"
      BY <1>7, <1>9, <2>1
    <2> QED
      BY <1>5, <1>12, <2>2, BridgesStay
  <1>13. \A m \in Instances(new) : Known(m)
    BY <1>2, <1>7, <1>9 DEF Instances
  <1>14. ASSUME NEW end, NEW dirs, GoodEnd(doc, end, dirs)
         PROVE  GoodEnd(new, end, dirs)
    <2>1. PICK m \in ToSet(doc.nodes) : m.id = end.node
      BY <1>14 DEF GoodEnd, ValidEnd, IdsOf
    <2>2. CASE end.node # id
      <3>1. m \in ToSet(new.nodes)
        BY <1>9, <2>1, <2>2
      <3> QED
        BY <1>2, <1>9, <1>14, <2>1, <3>1, EndMoves
    <2>3. CASE end.node = id
      <3>1. NodeOf(doc, end.node) = node /\ NodeOf(new, end.node) = e
        <4>1. e \in ToSet(new.nodes)
          BY <1>9
        <4> QED
          BY <1>7, <1>9, <2>3, <4>1, NodeFacts DEF node
      <3>2. end.node \in IdsOf(new.nodes)
        BY <1>7, <1>9, <2>3 DEF IdsOf
      <3>3. PortsAt(new, end) = PortsAt(doc, end)
        BY <1>8, <3>1 DEF PortsAt
      <3>4. ValidEnd(new, end, dirs)
        BY <1>8, <1>14, <3>1, <3>2, <3>3 DEF GoodEnd, ValidEnd
      <3>5. BridgesFor(inner, end.port) # {}
        BY <1>4, <1>8, <1>14, <3>1 DEF GoodEnd, Resolvable
      <3>6. Resolvable(new, end)
        BY <1>7, <1>11, <3>1, <3>2, <3>5 DEF Resolvable
      <3> QED
        BY <3>4, <3>6 DEF GoodEnd
    <2> QED
      BY <2>2, <2>3
  <1>15. \A w \in ToSet(new.wires) : GoodWire(new, w)
    BY <1>2, <1>5, <1>14 DEF GoodWire
  <1>16. Sound(new)
    <2>1. RepeatsMadeUp(new)
      BY <1>5, SoundForm DEF RepeatsMadeUp
    <2> QED
      BY <1>9, <1>12, <1>13, <1>15, <2>1, SoundForm
  <1>17. Listed(new)
    BY <1>2, <1>5, <1>9 DEF Listed
  <1>18. BridgeIdsKept(new)
    BY <1>7, <1>8, <1>9 DEF BridgeIdsKept
  <1>19. Embeds(new) \subseteq {copy} \cup Embeds(doc)
    BY <1>7, <1>9 DEF Embeds
  <1> QED
    BY <1>4, <1>5, <1>6, <1>10, <1>11, <1>16, <1>17, <1>18, <1>19 DEF new, inner

-----------------------------------------------------------------------------
(* Extraction: the theorem.                                                *)

\* The inductive invariant: the document is made of lists, only its bridges have
\* the ids of bridges, and it and all that is embedded in it is sound.
ExtractionInv ==
  /\ extracted \in 0 .. MaxExtracted
  /\ Listed(doc) /\ BridgeIdsKept(doc)
  /\ \A b \in Within(doc) : Sound(b)

\* What is loadable is sound, and no two wires have one id.
LEMMA LoadsForm ==
  ASSUME NEW bp
  PROVE  Loads(bp) <=> \A b \in Within(bp) : Sound(b) /\ UniqueIds(b.wires)
  BY DEF Loads, Sound, Validates, RepeatsMadeUp, UniqueIds

\* What an extraction leaves, and what is in it.
LEMMA ExtractStep ==
  ASSUME NEW selected \in SUBSET IdsOf(doc.nodes), NEW name, Extract(selected, name), ExtractionInv
  PROVE  /\ extracted' = extracted + 1 /\ extracted' \in 0 .. MaxExtracted
         /\ Listed(doc') /\ BridgeIdsKept(doc')
         /\ \A b \in Within(doc') : Sound(b)
         /\ Loads(doc) /\ WiredByHand(doc) => Loads(doc')
  <1> DEFINE made == InlineBlueprint(doc, selected, name)
             new == ParentBlueprint(doc, selected, name)
  <1>1. Extractable(doc, selected)
    <2>1. Sound(doc)
      BY WithinSelf DEF ExtractionInv
    <2>2. \A id \in selected : NodeOf(doc, id).kind \notin {"bridge", "reference"}
      BY DEF Extract, CanExtract, SelectionAccepted
    <2> QED
      BY <2>1, <2>2 DEF Extractable, ExtractionInv, Extract, CanExtract
  <1>2. /\ Listed(new) /\ BridgeIdsKept(new) /\ Sound(new)
        /\ Embeds(new) \subseteq {made} \cup Embeds(doc)
    BY <1>1, ParentSound
  <1>3. Sound(made) /\ Embeds(made) \subseteq Embeds(doc)
    BY <1>1, InlineSound
  <1>4. doc' = new /\ extracted' = extracted + 1 /\ extracted < MaxExtracted
    BY DEF Extract
  <1>5. UniqueIds(doc.wires) /\ WiredByHand(doc) => UniqueIds(new.wires) /\ UniqueIds(made.wires)
    BY <1>1, InlineWireIds, ParentWireIds
  <1> HIDE DEF made, new
  <1>6. Within(new) \subseteq {new, made} \cup Within(doc)
    <2> DEFINE Old == {doc}
    <2>1. /\ UNION {Embeds(b) : b \in Old} = Embeds(doc)
          /\ UNION {Within(b) : b \in Old} = Within(doc)
      OBVIOUS
    <2> HIDE DEF Old
    <2>2. Within(new) \subseteq {new, made} \cup UNION {Within(b) : b \in Old}
      BY <1>2, <1>3, <2>1, WithinGrows
    <2> QED
      BY <2>1, <2>2
  <1>7. \A b \in Within(new) : Sound(b)
    BY <1>2, <1>3, <1>6 DEF ExtractionInv
  <1>8. ASSUME Loads(doc), WiredByHand(doc) PROVE Loads(new)
    <2>1. \A b \in Within(doc) : UniqueIds(b.wires)
      BY <1>8, LoadsForm
    <2>2. UniqueIds(doc.wires)
      BY <2>1, WithinSelf
    <2>3. \A b \in Within(new) : UniqueIds(b.wires)
      BY <1>5, <1>6, <1>8, <2>1, <2>2
    <2> QED
      BY <1>7, <2>3, LoadsForm
  <1>9. extracted' \in 0 .. MaxExtracted
    BY <1>4, ExtractionAssumption DEF ExtractionInv
  <1> QED
    BY <1>2, <1>4, <1>7, <1>8, <1>9

\* What a bake-in leaves, and what is in it.
LEMMA BakeStep ==
  ASSUME NEW id \in IdsOf(doc.nodes), Bake(id), ExtractionInv
  PROVE  /\ extracted' = extracted
         /\ Listed(doc') /\ BridgeIdsKept(doc')
         /\ \A b \in Within(doc') : Sound(b)
         /\ Loads(doc) => Loads(doc')
  <1> DEFINE new == doc'
             Baked(ref, copy) ==
               /\ Listed(new) /\ BridgeIdsKept(new) /\ Sound(new)
               /\ Embeds(new) \subseteq {copy} \cup Embeds(doc)
               /\ Embeds(copy) = Embeds(Library[ref])
               /\ Sound(Library[ref]) => Sound(copy)
               /\ new.wires = doc.wires /\ copy.wires = Library[ref].wires
  <1>1. Sound(doc)
    BY WithinSelf DEF ExtractionInv
  <1>2. \E r \in DOMAIN Library : \E c : Baked(r, c)
    BY <1>1, BakeSound DEF ExtractionInv
  <1>3. PICK ref \in DOMAIN Library : \E c : Baked(ref, c)
    BY <1>2
  <1>4. PICK copy : Baked(ref, copy)
    BY <1>3
  <1> DEFINE lib == Library[ref]
  <1>5. \A b \in Within(lib) : Sound(b) /\ UniqueIds(b.wires)
    BY LoadsForm, ExtractionAssumption
  <1>6. Sound(copy) /\ UniqueIds(copy.wires)
    BY <1>4, <1>5, WithinSelf
  <1>7. Within(new) \subseteq {new, copy} \cup (Within(doc) \cup Within(lib))
    <2>1. Embeds(new) \subseteq {copy} \cup Embeds(doc) /\ Embeds(copy) = Embeds(lib)
      BY <1>4
    <2> HIDE DEF new, lib
    <2> DEFINE Old == {doc, lib}
    <2>2. /\ UNION {Embeds(b) : b \in Old} = Embeds(doc) \cup Embeds(lib)
          /\ UNION {Within(b) : b \in Old} = Within(doc) \cup Within(lib)
      OBVIOUS
    <2> HIDE DEF Old
    <2>3. /\ Embeds(new) \subseteq {copy} \cup UNION {Embeds(b) : b \in Old}
          /\ Embeds(copy) \subseteq UNION {Embeds(b) : b \in Old}
      BY <2>1, <2>2
    <2>4. Within(new) \subseteq {new, copy} \cup UNION {Within(b) : b \in Old}
      BY <2>3, WithinGrows
    <2> QED
      BY <2>2, <2>4
  <1>8. \A b \in Within(new) : Sound(b)
    BY <1>4, <1>5, <1>6, <1>7 DEF ExtractionInv
  <1>9. ASSUME Loads(doc) PROVE Loads(new)
    <2>1. \A b \in Within(doc) : UniqueIds(b.wires)
      BY <1>9, LoadsForm
    <2>2. UniqueIds(new.wires)
      BY <1>4, <2>1, WithinSelf
    <2>3. \A b \in Within(new) : UniqueIds(b.wires)
      BY <1>5, <1>6, <1>7, <2>1, <2>2
    <2> QED
      BY <1>8, <2>3, LoadsForm
  <1>10. extracted' = extracted
    BY DEF Bake
  <1> QED
    BY <1>4, <1>8, <1>9, <1>10

\* The invariant of another document.
LEMMA NextExtractionInv ==
  ASSUME extracted' \in 0 .. MaxExtracted, Listed(doc'), BridgeIdsKept(doc'),
         \A b \in Within(doc') : Sound(b)
  PROVE  ExtractionInv'
  <1>1. (\A b \in Within(doc) : Sound(b))' <=> \A b \in Within(doc') : Sound(b)
    BY DEF Within, LevelsOf, Embeds, Sound, Consistent, Flattens, RepeatsMadeUp, UniqueIds, ValidBridge,
           Instances, IsInstance, Known, ValidWire, ValidEnd, IdsOf, PortsAt, PortsNamed, IfaceOf,
           InnerOf, NodeOf, BridgesFor, Resolvable
  <1> QED
    BY <1>1 DEF ExtractionInv, Listed, BridgeIdsKept

LEMMA ExtractionInvariance == ExtractionInv /\ [ExtractionNext]_extractionVars => ExtractionInv'
  <1> SUFFICES ASSUME ExtractionInv, [ExtractionNext]_extractionVars PROVE ExtractionInv'
    OBVIOUS
  <1>1. CASE ExtractionNext
    <2>1. ASSUME NEW selected \in SUBSET IdsOf(doc.nodes), NEW name, Extract(selected, name)
          PROVE  ExtractionInv'
      BY <2>1, ExtractStep, NextExtractionInv
    <2>2. ASSUME NEW id \in IdsOf(doc.nodes), Bake(id)
          PROVE  ExtractionInv'
      <3>1. extracted' \in 0 .. MaxExtracted
        BY <2>2, BakeStep DEF ExtractionInv
      <3> QED
        BY <2>2, <3>1, BakeStep, NextExtractionInv
    <2> QED
      BY <1>1, <2>1, <2>2 DEF ExtractionNext
  <1>2. CASE UNCHANGED extractionVars
    <2>1. doc' = doc /\ extracted' = extracted
      BY <1>2 DEF extractionVars
    <2> QED
      BY <2>1, NextExtractionInv DEF ExtractionInv
  <1> QED
    BY <1>1, <1>2

LEMMA ExtractionInvariant == ExtractionSpec => []ExtractionInv
  <1>1. ExtractionInit => ExtractionInv
    <2> SUFFICES ASSUME ExtractionInit PROVE ExtractionInv
      OBVIOUS
    <2>1. Listed(doc) /\ BridgeIdsKept(doc) /\ Loads(doc) /\ extracted \in 0 .. MaxExtracted
      BY ExtractionAssumption DEF ExtractionInit
    <2> QED
      BY <2>1, LoadsForm DEF ExtractionInv
  <1> QED
    BY <1>1, ExtractionInvariance, PTL DEF ExtractionSpec

\* Whatever is selected and extracted, as often and as deep as the user likes,
\* and whatever references are baked in between, the document and everything
\* embedded in it can be flattened and breaks no rule of the loader but the one
\* on the ids of wires, and that one only for ids that extraction made up.
THEOREM ExtractionBreaksOnlyWireIds == ExtractionSpec => []BreaksOnlyWireIds
  <1>1. ExtractionInv => BreaksOnlyWireIds
    BY DEF ExtractionInv, BreaksOnlyWireIds, Sound
  <1> QED
    BY <1>1, ExtractionInvariant, PTL

\* A blueprint that was wired by hand can be loaded after an extraction, and any
\* that can be loaded still can after a bake-in.
THEOREM FirstExtractionIsLoadable == ExtractionSpec => FirstExtractionLoads
  <1>1. ExtractionInv /\ [ExtractionNext]_extractionVars
           => [Loads(doc) /\ (WiredByHand(doc) \/ extracted' = extracted) => Loads(doc')]_extractionVars
    <2> SUFFICES ASSUME ExtractionInv, ExtractionNext, Loads(doc), WiredByHand(doc) \/ extracted' = extracted
                 PROVE  Loads(doc')
      OBVIOUS
    <2>1. ASSUME NEW selected \in SUBSET IdsOf(doc.nodes), NEW name, Extract(selected, name)
          PROVE  Loads(doc')
      <3>1. extracted' = extracted + 1 /\ extracted \in Int
        BY <2>1, ExtractStep DEF ExtractionInv
      <3>2. WiredByHand(doc)
        BY <3>1
      <3> QED
        BY <2>1, <3>2, ExtractStep
    <2>2. ASSUME NEW id \in IdsOf(doc.nodes), Bake(id)
          PROVE  Loads(doc')
      BY <2>2, BakeStep
    <2> QED
      BY <2>1, <2>2 DEF ExtractionNext
  <1> QED
    BY <1>1, ExtractionInvariant, PTL DEF ExtractionSpec, FirstExtractionLoads
=============================================================================
