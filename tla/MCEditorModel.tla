---------------------------- MODULE MCEditorModel ----------------------------
(* Small instances of EditorModel: the sheets and documents that the       *)
(* environment brings in.                                                  *)
EXTENDS EditorModel

CONSTANTS n1, c1, c2, p1, p2, r1

Component(id) == [id |-> id, data |-> c1, def |-> NoSheet]
W(i, p, q) == [id |-> i, source |-> [node |-> n1, port |-> p],
               target |-> [node |-> n1, port |-> q], route |-> r1]
Doc(nodes, wires) == [name |-> NoName, nodes |-> nodes, wires |-> wires]

\* Two embedded blueprints, so that one may become the other.
MCSheets == {EmptySheet, [nodes |-> {[id |-> n1, data |-> c1]}, wires |-> {}]}
NoSheets == {}

\* The new document and a document with one node.
MCFiles == {EmptyDocument, Doc({Component(n1)}, {})}

\* For the properties of wires and indices: nothing they speak of depends on
\* the save point, or on more of `before` than mutate_atomically keeps.
WireView == <<model.current, model.undo, model.redo, suppression,
              Len(before.redo), next_wire_id, indices>>

\* Documents whose only drawn wire does not have the first number: as drawn, and
\* after one and after two extractions that left it alone.  The last can be
\* made but not loaded.
MCWiredFiles ==
  {EmptyDocument} \cup
    {Doc({Component(n1)}, {W(1, p1, p2)} \cup made) :
       made \in {{}, {W(-1, p2, p1)}, {W(-1, p2, p1), W(-1, p1, p2)}}}
=============================================================================
