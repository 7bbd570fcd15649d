--------------------------- MODULE WorkspaceProofs ---------------------------
(***************************************************************************)
(* Theorems about Workspace for every disk, every set of nodes and every   *)
(* number of documents: no dialog outlives its document, the tabs are      *)
(* documents that are open, and no file is written unasked.                *)
(*                                                                         *)
(* First lists, then what a frame does around its input, then the          *)
(* operations on documents, last the actions.                              *)
(***************************************************************************)
EXTENDS Workspace, Iteration, SequenceTheorems, TLAPS

-----------------------------------------------------------------------------
(* The invariant.                                                          *)

Tree    == SUBSET Seq(NodeId)
Content == [named : BOOLEAN, tree : Tree]

Document ==
  [id : Nat, path : File \cup {NoFile}, named : BOOLEAN, tree : Tree,
   undo : Seq(Tree), redo : Seq(Tree), windows : Tree]

Place     == [document : Nat, scope : Seq(NodeId), nodes : SUBSET NodeId]
PopupKind == {"none", "color", "name", "extract", "add", "node"}

State ==
  [documents : Seq(Document), active : Nat, next_id : Nat \ {0}, tabs : Seq(File),
   focus : [document : Nat, scope : Seq(NodeId)],
   popup : [kind : PopupKind, at : Place],
   extract : Place, inline : Place, script : Place, properties : Place,
   save_after : BOOLEAN, disk : [File -> Content \cup {Missing}],
   halted : {"no", "thrown", "freed"}]

\* A dialog is closed, or its document is there.
Held(w, at) == at = Closed \/ at.document \in Ids(w)

AllHeld(w) ==
  /\ w.popup = NoPopup \/ w.popup.at.document \in Ids(w)
  /\ Held(w, w.extract) /\ Held(w, w.inline) /\ Held(w, w.script) /\ Held(w, w.properties)

\* The active document, the focus and the dialogs.
Anchored(w) == w.active \in Ids(w) /\ w.focus.document \in Ids(w) /\ AllHeld(w)

Showing(w, f) == \E i \in DOMAIN w.documents : w.documents[i].path = f
Tabbed(w)     == Distinct(w.tabs) /\ \A f \in Range(w.tabs) : Showing(w, f)

Fit(w) == w \in State /\ Anchored(w) /\ Tabbed(w)

\* A name that is going to be followed by a save was asked for to save.
NameAsked(w, a) == w.halted = "no" /\ w.popup.kind = "name" /\ w.save_after => a

IInv == Fit(ws) /\ asked \in BOOLEAN /\ NameAsked(ws, asked)

-----------------------------------------------------------------------------
(* Lists.                                                                  *)

\* SelectInSeq finds the first item, or there is none.
LEMMA IndexFacts ==
  ASSUME NEW w, w.documents \in Seq(Document), NEW id
  PROVE  /\ id \in Ids(w) => /\ Index(w, id) \in DOMAIN w.documents
                             /\ Doc(w, id) \in Document /\ Doc(w, id).id = id
         /\ IsOpen(w, id) <=> id \in Ids(w)
  <1> DEFINE I == {i \in 1 .. Len(w.documents) : w.documents[i].id = id}
  <1>1. Index(w, id) = IF I # {} THEN Min(I) ELSE 0
    BY DEF Index, SelectInSeq
  <1>2. I \subseteq Nat /\ 0 \notin I
    OBVIOUS
  <1>3. id \in Ids(w) <=> I # {}
    BY DEF Ids
  <1>4. I # {} => Min(I) \in I
    BY <1>2, MinFacts
  <1>5. \A i \in I : /\ i \in DOMAIN w.documents
                     /\ w.documents[i] \in Document /\ w.documents[i].id = id
    OBVIOUS
  <1> HIDE DEF I
  <1> QED
    BY <1>1, <1>2, <1>3, <1>4, <1>5 DEF IsOpen, Doc

\* The document that shows a file.
LEMMA PathFacts ==
  ASSUME NEW w, w.documents \in Seq(Document), NEW f
  PROVE  /\ FindByPath(w, f) # 0 <=> Showing(w, f)
         /\ FindByPath(w, f) # 0 =>
              /\ FindByPath(w, f) \in DOMAIN w.documents
              /\ w.documents[FindByPath(w, f)].id \in Ids(w)
  <1> DEFINE I == {i \in 1 .. Len(w.documents) : w.documents[i].path = f}
  <1>1. FindByPath(w, f) = IF I # {} THEN Min(I) ELSE 0
    BY DEF FindByPath, SelectInSeq
  <1>2. I \subseteq Nat /\ 0 \notin I
    OBVIOUS
  <1>3. Showing(w, f) <=> I # {}
    BY DEF Showing
  <1>4. I # {} => Min(I) \in I
    BY <1>2, MinFacts
  <1>5. \A i \in I : i \in DOMAIN w.documents /\ w.documents[i].id \in Ids(w)
    BY DEF Ids
  <1> HIDE DEF I
  <1> QED
    BY <1>1, <1>2, <1>3, <1>4, <1>5

-----------------------------------------------------------------------------
(* What a frame does around its input: dialogs are closed, no more.        *)

Quieter(w, v) ==
  /\ v \in State
  /\ v.documents = w.documents /\ v.active = w.active /\ v.next_id = w.next_id
  /\ v.tabs = w.tabs /\ v.focus = w.focus /\ v.disk = w.disk /\ v.save_after = w.save_after
  /\ v.popup \in {w.popup, NoPopup}
  /\ v.extract \in {w.extract, Closed} /\ v.inline \in {w.inline, Closed}
  /\ v.script \in {w.script, Closed} /\ v.properties \in {w.properties, Closed}
  /\ v.halted = "no" => w.halted = "no"

LEMMA ClosedFacts == Closed \in Place /\ NoPopup \in [kind : PopupKind, at : Place]
                     /\ NoPopup.kind = "none" /\ NoPopup.at = Closed /\ Closed.document = 0
  BY DEF Closed, NoPopup, Popup, Place, PopupKind, At, Root

LEMMA QuieterTwice ==
  ASSUME NEW u, NEW v, NEW w, Quieter(u, v), Quieter(v, w)
  PROVE  Quieter(u, w)
  BY DEF Quieter

LEMMA QuieterHalted ==
  ASSUME NEW w \in State, NEW h \in {"thrown", "freed"}
  PROVE  Quieter(w, [w EXCEPT !.halted = h])
  BY DEF Quieter, State

LEMMA QuieterItself ==
  ASSUME NEW w \in State
  PROVE  Quieter(w, w)
  BY DEF Quieter

\* TransientUIManager::reconcile.
LEMMA ReconcileQuiet ==
  ASSUME NEW w \in State
  PROVE  Quieter(w, Reconcile(w))
  <1>1. CASE Throws(w, w.extract)
    BY <1>1, QuieterHalted DEF Reconcile, Throw
  <1>2. CASE ~Throws(w, w.extract)
    <2>1. \A ok, at : at \in Place => Kept(ok, at) \in Place /\ Kept(ok, at) \in {at, Closed}
      BY ClosedFacts DEF Kept
    <2> DEFINE v == Reconcile(w)
               p == IF Owned(w, w.popup.at) /\ (w.popup.kind = "color" => Resolved(w, w.popup.at))
                      THEN w.popup ELSE NoPopup
               x == Kept(Resolved(w, w.extract), w.extract)
               i == Kept(Resolved(w, w.inline), w.inline)
               o == Kept(Owned(w, w.properties), w.properties)
               s == Kept(Owned(w, w.script), w.script)
    <2>2. v = [w EXCEPT !.popup = p, !.extract = x, !.inline = i, !.properties = o, !.script = s]
      BY <1>2 DEF Reconcile
    <2>3. p \in {w.popup, NoPopup} /\ p \in [kind : PopupKind, at : Place]
      BY ClosedFacts DEF State
    <2>4. /\ x \in Place /\ x \in {w.extract, Closed} /\ i \in Place /\ i \in {w.inline, Closed}
          /\ o \in Place /\ o \in {w.properties, Closed} /\ s \in Place /\ s \in {w.script, Closed}
      BY <2>1 DEF State
    <2> HIDE DEF v, p, x, i, o, s
    <2>5. Quieter(w, v)
      BY <2>2, <2>3, <2>4 DEF Quieter, State
    <2> QED
      BY <2>5 DEF v
  <1> QED
    BY <1>1, <1>2

\* The popups and the small windows, one after the other.
LEMMA RenderQuiet ==
  ASSUME NEW w \in State
  PROVE  Quieter(w, Render(w))
  <1>1. \A ok, at : at \in Place => Kept(ok, at) \in Place /\ Kept(ok, at) \in {at, Closed}
    BY ClosedFacts DEF Kept
  <1>2. ASSUME NEW v \in State
        PROVE  Quieter(v, RenderPopup(v))
    <2>1. RenderPopup(v) \in {v, [v EXCEPT !.popup = NoPopup]}
      BY DEF RenderPopup
    <2>2. Quieter(v, [v EXCEPT !.popup = NoPopup])
      BY ClosedFacts DEF Quieter, State
    <2> QED
      BY <2>1, <2>2, QuieterItself
  <1>3. ASSUME NEW v \in State
        PROVE  Quieter(v, RenderInline(v))
    <2> DEFINE i == Kept(Resolved(v, v.inline), v.inline)
    <2>1. i \in Place /\ i \in {v.inline, Closed}
      BY <1>1 DEF State
    <2>2. RenderInline(v) \in {[v EXCEPT !.halted = "thrown"], [v EXCEPT !.inline = i]}
      BY DEF RenderInline, Throw
    <2> HIDE DEF i
    <2>3. Quieter(v, [v EXCEPT !.inline = i])
      BY <2>1 DEF Quieter, State
    <2> QED
      BY <2>2, <2>3, QuieterHalted
  <1>4. ASSUME NEW v \in State
        PROVE  Quieter(v, RenderScript(v))
    <2> DEFINE i == Kept(Resolved(v, v.script), v.script)
    <2>1. i \in Place /\ i \in {v.script, Closed}
      BY <1>1 DEF State
    <2>2. RenderScript(v) \in {[v EXCEPT !.halted = "freed"], [v EXCEPT !.halted = "thrown"],
                               [v EXCEPT !.script = i]}
      BY DEF RenderScript, Throw
    <2> HIDE DEF i
    <2>3. Quieter(v, [v EXCEPT !.script = i])
      BY <2>1 DEF Quieter, State
    <2> QED
      BY <2>2, <2>3, QuieterHalted
  <1>5. ASSUME NEW v \in State
        PROVE  Quieter(v, RenderProperties(v))
    <2> DEFINE i == Kept(Resolved(v, v.properties), v.properties)
    <2>1. i \in Place /\ i \in {v.properties, Closed}
      BY <1>1 DEF State
    <2>2. RenderProperties(v) \in {[v EXCEPT !.halted = "freed"], [v EXCEPT !.halted = "thrown"],
                                   [v EXCEPT !.properties = i]}
      BY DEF RenderProperties, Throw
    <2> HIDE DEF i
    <2>3. Quieter(v, [v EXCEPT !.properties = i])
      BY <2>1 DEF Quieter, State
    <2> QED
      BY <2>2, <2>3, QuieterHalted
  <1>6. PICK a : /\ a = Then(w, RenderPopup) /\ a \in State /\ Quieter(w, a)
    BY <1>2, QuieterItself DEF Then, Quieter
  <1>7. PICK b : /\ b = Then(a, RenderInline) /\ b \in State /\ Quieter(a, b)
    BY <1>3, <1>6, QuieterItself DEF Then, Quieter
  <1>8. PICK c : /\ c = Then(b, RenderScript) /\ c \in State /\ Quieter(b, c)
    BY <1>4, <1>7, QuieterItself DEF Then, Quieter
  <1>9. PICK d : /\ d = Then(c, RenderProperties) /\ d \in State /\ Quieter(c, d)
    BY <1>5, <1>8, QuieterItself DEF Then, Quieter
  <1>10. Render(w) = d
    BY <1>6, <1>7, <1>8, <1>9 DEF Render
  <1> QED
    BY <1>6, <1>7, <1>8, <1>9, <1>10, QuieterTwice

\* What a step must keep: everything has its place, no file changes, and a name
\* to save is not asked for.
Sound(w, v) ==
  /\ Fit(v) /\ v.disk = w.disk
  /\ v.popup.kind = "name" /\ v.save_after => w.popup.kind = "name" /\ w.save_after
  /\ v.halted = "no" => w.halted = "no"

LEMMA QuieterIsSound ==
  ASSUME NEW w, NEW v, Fit(w), Quieter(w, v)
  PROVE  Sound(w, v)
  <1>1. Anchored(v)
    BY ClosedFacts DEF Quieter, Fit, Anchored, AllHeld, Held, Ids
  <1>2. Tabbed(v)
    BY DEF Quieter, Fit, Tabbed, Showing
  <1>3. v.popup.kind = "name" => w.popup.kind = "name"
    BY ClosedFacts DEF Quieter
  <1> QED
    BY <1>1, <1>2, <1>3 DEF Quieter, Fit, Sound

LEMMA SoundTwice ==
  ASSUME NEW u, NEW v, NEW w, Sound(u, v), Sound(v, w)
  PROVE  Sound(u, w)
  BY DEF Sound

\* A frame whose input comes first.
LEMMA KeyFrameSound ==
  ASSUME NEW w, Sound(ws, w), KeyFrame(w)
  PROVE  Sound(ws, ws')
  <1>1. Fit(w)
    BY DEF Sound
  <1>2. Quieter(w, Reconcile(w)) /\ Reconcile(w) \in State
    BY <1>1, ReconcileQuiet DEF Fit, Quieter
  <1>3. ws' \in {Reconcile(w), Render(Reconcile(w))}
    BY DEF KeyFrame, Then
  <1>4. Quieter(w, ws')
    BY <1>2, <1>3, RenderQuiet, QuieterTwice
  <1> QED
    BY <1>1, <1>4, QuieterIsSound, SoundTwice

\* A frame whose input comes after the check of the dialogs, and makes u.
LEMMA CanvasFrameSound ==
  ASSUME Fit(ws), NEW u,
         LET v == Reconcile(ws)
         IN  (v.halted = "no" => Sound(v, u)) /\ ws' = IF v.halted = "no" THEN Render(u) ELSE v
  PROVE  Sound(ws, ws')
  <1> DEFINE v == Reconcile(ws)
  <1>1. Sound(ws, v)
    BY ReconcileQuiet, QuieterIsSound DEF Fit
  <1>2. CASE v.halted # "no"
    BY <1>1, <1>2
  <1>3. CASE v.halted = "no"
    <2>1. Sound(v, u) /\ ws' = Render(u)
      BY <1>3
    <2>2. Sound(u, Render(u))
      BY <2>1, RenderQuiet, QuieterIsSound DEF Sound, Fit
    <2> HIDE DEF v
    <2> QED
      BY <1>1, <2>1, <2>2, SoundTwice
  <1> QED
    BY <1>2, <1>3

-----------------------------------------------------------------------------
(* Documents.                                                              *)

LEMMA FrontTyped ==
  ASSUME NEW S, NEW s \in Seq(S), s # <<>>
  PROVE  Front(s) \in Seq(S) /\ Last(s) \in S
  BY DEF Front, Last

LEMMA PushedTyped ==
  ASSUME NEW d \in Document
  PROVE  Pushed(d) \in Document /\ Pushed(d).id = d.id /\ Pushed(d).path = d.path
  <1> DEFINE u == IF Len(d.undo) < MaxHistory THEN d.undo ELSE Tail(d.undo)
             q == Append(u, d.tree)
  <1>1. d.undo \in Seq(Tree) /\ d.tree \in Tree /\ MaxHistory \in Nat \ {0}
    BY WorkspaceAssumption DEF Document
  <1>2. u \in Seq(Tree)
    <2>1. Len(d.undo) < MaxHistory \/ d.undo # <<>>
      BY <1>1
    <2> QED
      BY <1>1, <2>1, HeadTailProperties
  <1> HIDE DEF u
  <1>3. q \in Seq(Tree) /\ <<>> \in Seq(Tree)
    BY <1>1, <1>2
  <1>4. Pushed(d) = [d EXCEPT !.redo = <<>>, !.undo = q]
    BY DEF Pushed, u
  <1> HIDE DEF q
  <1> QED
    BY <1>3, <1>4 DEF Document

LEMMA ShownTyped ==
  ASSUME NEW d \in Document, NEW tree \in Tree
  PROVE  /\ Shown(d, tree) \in Document
         /\ Shown(d, tree).id = d.id /\ Shown(d, tree).path = d.path
  <1> DEFINE left == {s \in d.windows : Exists(tree, s)}
  <1>1. Shown(d, tree) = [d EXCEPT !.tree = tree, !.windows = left]
    BY DEF Shown
  <1>2. left \in Tree
    BY DEF Document, Tree
  <1> HIDE DEF left
  <1> QED
    BY <1>1, <1>2 DEF Document

\* An edit, undo and redo leave a document with its id and its path.
LEMMA EditedTyped ==
  ASSUME NEW d \in Document, NEW tree \in Tree
  PROVE  /\ Edited(d, tree) \in Document
         /\ Edited(d, tree).id = d.id /\ Edited(d, tree).path = d.path
  <1>1. Pushed(d) \in Document /\ Pushed(d).id = d.id /\ Pushed(d).path = d.path
    BY PushedTyped
  <1> QED
    BY <1>1, ShownTyped DEF Edited

LEMMA UndoneTyped ==
  ASSUME NEW d \in Document, d.undo # <<>>
  PROVE  Undone(d) \in Document /\ Undone(d).id = d.id /\ Undone(d).path = d.path
  <1>1. Front(d.undo) \in Seq(Tree) /\ Last(d.undo) \in Tree
    BY FrontTyped DEF Document
  <1> DEFINE s == Shown(d, Last(d.undo))
  <1>2. s \in Document /\ s.id = d.id /\ s.path = d.path /\ s.undo = d.undo
    BY <1>1, ShownTyped DEF Shown, Document
  <1>3. Append(s.redo, d.tree) \in Seq(Tree)
    BY <1>2 DEF Document
  <1>4. Undone(d) = [s EXCEPT !.undo = Front(d.undo), !.redo = Append(s.redo, d.tree)]
    BY <1>2 DEF Undone
  <1> DEFINE f == Front(d.undo)
             a == Append(s.redo, d.tree)
  <1> HIDE DEF f, a, s
  <1> QED
    BY <1>1, <1>2, <1>3, <1>4 DEF Document, f, a

LEMMA RedoneTyped ==
  ASSUME NEW d \in Document, d.redo # <<>>
  PROVE  Redone(d) \in Document /\ Redone(d).id = d.id /\ Redone(d).path = d.path
  <1>1. Front(d.redo) \in Seq(Tree) /\ Last(d.redo) \in Tree
    BY FrontTyped DEF Document
  <1> DEFINE s == Shown(d, Last(d.redo))
  <1>2. s \in Document /\ s.id = d.id /\ s.path = d.path /\ s.redo = d.redo
    BY <1>1, ShownTyped DEF Shown, Document
  <1>3. Append(s.undo, d.tree) \in Seq(Tree)
    BY <1>2 DEF Document
  <1>4. Redone(d) = [s EXCEPT !.redo = Front(d.redo), !.undo = Append(s.undo, d.tree)]
    BY <1>2 DEF Redone
  <1> DEFINE f == Front(d.redo)
             a == Append(s.undo, d.tree)
  <1> HIDE DEF f, a, s
  <1> QED
    BY <1>1, <1>2, <1>3, <1>4 DEF Document, f, a

\* One document in the place of another of the same id.
LEMMA WithDocFacts ==
  ASSUME NEW w \in State, NEW d \in Document, d.id \in Ids(w)
  PROVE  LET v == WithDoc(w, d)
         IN  /\ v \in State /\ v = [w EXCEPT !.documents = v.documents]
             /\ Ids(v) = Ids(w)
             /\ \A f : Showing(w, f) => Showing(v, f) \/ f = Doc(w, d.id).path
             /\ Showing(v, d.path)
  <1> DEFINE k == Index(w, d.id)
             q == [w.documents EXCEPT ![k] = d]
             v == WithDoc(w, d)
  <1>1. w.documents \in Seq(Document)
    BY DEF State
  <1>2. k \in 1 .. Len(w.documents) /\ w.documents[k].id = d.id
    BY <1>1, IndexFacts DEF Doc
  <1>3. v = [w EXCEPT !.documents = q]
    BY DEF WithDoc
  <1>4. k \in DOMAIN w.documents /\ Doc(w, d.id) = w.documents[k]
    BY <1>1, <1>2 DEF Doc
  <1> HIDE DEF k
  <1>5. /\ q \in Seq(Document) /\ Len(q) = Len(w.documents)
        /\ \A j \in 1 .. Len(w.documents) : q[j] = IF j = k THEN d ELSE w.documents[j]
    BY <1>1, <1>2, ExceptSeq
  <1>6. DOMAIN q = DOMAIN w.documents /\ DOMAIN q = 1 .. Len(w.documents)
    BY <1>1, <1>5
  <1> HIDE DEF q, v
  <1>7. v \in State /\ v.documents = q
    BY <1>3, <1>5 DEF State
  <1>8. Ids(v) = Ids(w)
    BY <1>2, <1>5, <1>6, <1>7 DEF Ids
  <1>9. \A f : Showing(w, f) => Showing(v, f) \/ f = Doc(w, d.id).path
    BY <1>4, <1>5, <1>6, <1>7 DEF Showing
  <1>10. Showing(v, d.path)
    BY <1>2, <1>5, <1>6, <1>7 DEF Showing
  <1> QED
    BY <1>3, <1>7, <1>8, <1>9, <1>10 DEF v

\* What keeps the documents, or their ids and paths, keeps the rest.
LEMMA SamePlacesSound ==
  ASSUME NEW w, NEW v, Fit(w), v \in State, Anchored(v),
         \A f : Showing(w, f) => Showing(v, f), v.tabs = w.tabs, v.disk = w.disk,
         v.popup.kind = "name" /\ v.save_after => w.popup.kind = "name" /\ w.save_after,
         v.halted = "no" => w.halted = "no"
  PROVE  Sound(w, v)
  BY DEF Fit, Tabbed, Sound

LEMMA WithDocSound ==
  ASSUME NEW w, Fit(w), NEW d \in Document, d.id \in Ids(w), d.path = Doc(w, d.id).path
  PROVE  Sound(w, WithDoc(w, d))
  <1> DEFINE v == WithDoc(w, d)
  <1>1. w \in State /\ Anchored(w)
    BY DEF Fit
  <1>2. /\ v \in State /\ v = [w EXCEPT !.documents = v.documents] /\ Ids(v) = Ids(w)
        /\ \A f : Showing(w, f) => Showing(v, f)
    BY <1>1, WithDocFacts
  <1> HIDE DEF v
  <1>3. /\ v.active = w.active /\ v.focus = w.focus /\ v.popup = w.popup
        /\ v.extract = w.extract /\ v.inline = w.inline /\ v.script = w.script
        /\ v.properties = w.properties /\ v.tabs = w.tabs /\ v.disk = w.disk
        /\ v.save_after = w.save_after /\ v.halted = w.halted
    BY <1>1, <1>2 DEF State
  <1>4. Anchored(v)
    BY <1>1, <1>2, <1>3 DEF Anchored, AllHeld, Held
  <1>5. Sound(w, v)
    BY <1>2, <1>3, <1>4, SamePlacesSound
  <1> QED
    BY <1>5 DEF v

\* An edit of a document that is open.
LEMMA ChangedSound ==
  ASSUME NEW w, Fit(w), NEW id \in Ids(w), NEW tree \in Tree
  PROVE  Sound(w, WithDoc(w, Edited(Doc(w, id), tree)))
  <1>1. w.documents \in Seq(Document)
    BY DEF Fit, State
  <1>2. Doc(w, id) \in Document /\ Doc(w, id).id = id
    BY <1>1, IndexFacts
  <1> QED
    BY <1>2, EditedTyped, WithDocSound

-----------------------------------------------------------------------------
(* Opening and choosing documents.                                         *)

\* The dialogs and the files stay as they are.
Beside(w, v) ==
  /\ v.popup = w.popup /\ v.extract = w.extract /\ v.inline = w.inline
  /\ v.script = w.script /\ v.properties = w.properties
  /\ v.save_after = w.save_after /\ v.disk = w.disk /\ v.halted = w.halted

LEMMA HeldBeside ==
  ASSUME NEW w, NEW v, AllHeld(w), Beside(w, v), Ids(w) \subseteq Ids(v)
  PROVE  AllHeld(v)
  BY DEF AllHeld, Held, Beside

LEMMA BesideSound ==
  ASSUME NEW w, NEW v, Fit(w), Fit(v), Beside(w, v)
  PROVE  Sound(w, v)
  BY DEF Beside, Sound

LEMMA IdsAreNumbers ==
  ASSUME NEW w \in State, NEW id \in Ids(w)
  PROVE  id \in Nat
  <1>1. w.documents \in Seq(Document)
    BY DEF State
  <1>2. Doc(w, id) \in Document /\ Doc(w, id).id = id
    BY <1>1, IndexFacts
  <1> QED
    BY <1>2 DEF Document

LEMMA FocusedFacts ==
  ASSUME NEW w \in State, NEW id \in Ids(w), NEW s \in Seq(NodeId)
  PROVE  LET v == Focused(w, id, s)
         IN  /\ v \in State /\ v.active = w.active /\ v.focus.document = id
             /\ v.documents = w.documents /\ v.tabs = w.tabs /\ Beside(w, v)
             /\ Ids(v) = Ids(w)
  <1>1. id \in Nat
    BY IdsAreNumbers
  <1>2. [document |-> id, scope |-> s] \in [document : Nat, scope : Seq(NodeId)]
    BY <1>1
  <1> DEFINE p == [document |-> id, scope |-> s]
             v == Focused(w, id, s)
  <1>3. v = [w EXCEPT !.focus = p]
    BY DEF Focused
  <1>4. p.document = id
    OBVIOUS
  <1> HIDE DEF p, v
  <1>5. /\ v \in State /\ v.active = w.active /\ v.focus.document = id
        /\ v.documents = w.documents /\ v.tabs = w.tabs
    BY <1>2, <1>3, <1>4 DEF State, p
  <1>6. Beside(w, v)
    BY <1>3 DEF State, Beside
  <1> QED
    BY <1>5, <1>6 DEF Ids, v

LEMMA FocusedSound ==
  ASSUME NEW w, Fit(w), NEW id \in Ids(w), NEW s \in Seq(NodeId)
  PROVE  Sound(w, Focused(w, id, s))
  <1> DEFINE v == Focused(w, id, s)
  <1>1. /\ v \in State /\ v.active = w.active /\ v.focus.document = id
        /\ v.documents = w.documents /\ v.tabs = w.tabs /\ Beside(w, v)
        /\ Ids(v) = Ids(w)
    BY FocusedFacts DEF Fit
  <1> HIDE DEF v
  <1>2. AllHeld(v)
    BY <1>1, HeldBeside DEF Fit, Anchored
  <1>3. Fit(v)
    BY <1>1, <1>2 DEF Fit, Anchored, Tabbed, Showing
  <1>4. Sound(w, v)
    BY <1>1, <1>3, BesideSound
  <1> QED
    BY <1>4 DEF v

\* setActiveDocument.
LEMMA ActivatedFacts ==
  ASSUME NEW w \in State, NEW id \in Ids(w),
         w.active # id \/ w.focus.document \in Ids(w)
  PROVE  LET v == Activated(w, id)
         IN  /\ v \in State /\ v.active = id /\ v.focus.document \in Ids(w)
             /\ v.documents = w.documents /\ v.tabs = w.tabs /\ Beside(w, v)
             /\ Ids(v) = Ids(w)
  <1>1. CASE w.active = id
    BY <1>1 DEF Activated, Beside
  <1>2. CASE w.active # id
    <2> DEFINE u == [w EXCEPT !.active = id]
    <2>1. id \in Nat
      BY IdsAreNumbers
    <2>2. /\ u \in State /\ u.active = id /\ u.documents = w.documents /\ u.tabs = w.tabs
          /\ Beside(w, u) /\ Ids(u) = Ids(w)
      <3>1. /\ u \in State /\ u.active = id /\ u.documents = w.documents /\ u.tabs = w.tabs
            /\ Beside(w, u)
        BY <2>1 DEF State, Beside
      <3> QED
        BY <3>1 DEF Ids
    <2>3. Root \in Seq(NodeId) /\ Activated(w, id) = Focused(u, id, Root)
      BY <1>2 DEF Root, Activated
    <2> DEFINE v == Focused(u, id, Root)
    <2> HIDE DEF u
    <2>4. /\ v \in State /\ v.active = u.active /\ v.focus.document = id
          /\ v.documents = u.documents /\ v.tabs = u.tabs /\ Beside(u, v)
          /\ Ids(v) = Ids(u)
      BY <2>2, <2>3, FocusedFacts
    <2> HIDE DEF v
    <2>5. Beside(w, v)
      BY <2>2, <2>4 DEF Beside
    <2>6. Activated(w, id) = v
      BY <2>3 DEF v
    <2> QED
      BY <2>2, <2>4, <2>5, <2>6
  <1> QED
    BY <1>1, <1>2

LEMMA ActivatedSound ==
  ASSUME NEW w, Fit(w), NEW id \in Ids(w)
  PROVE  Sound(w, Activated(w, id))
  <1> DEFINE v == Activated(w, id)
  <1>1. /\ v \in State /\ v.active = id /\ v.focus.document \in Ids(w)
        /\ v.documents = w.documents /\ v.tabs = w.tabs /\ Beside(w, v)
        /\ Ids(v) = Ids(w)
    BY ActivatedFacts DEF Fit, Anchored
  <1> HIDE DEF v
  <1>2. AllHeld(v)
    BY <1>1, HeldBeside DEF Fit, Anchored
  <1>3. Fit(v)
    BY <1>1, <1>2 DEF Fit, Anchored, Tabbed, Showing
  <1>4. Sound(w, v)
    BY <1>1, <1>3, BesideSound
  <1> QED
    BY <1>4 DEF v

\* One document more, which becomes the active one; the first one when there
\* was none.
Added(w, d) == Activated([w EXCEPT !.documents = Append(@, d), !.next_id = @ + 1], d.id)

LEMMA AddedFacts ==
  ASSUME NEW w \in State, AllHeld(w), w.active = 0 \/ Anchored(w),
         NEW d \in Document, d.id # 0
  PROVE  LET v == Added(w, d)
         IN  /\ v \in State /\ Anchored(v) /\ v.tabs = w.tabs /\ Beside(w, v)
             /\ \A f : Showing(w, f) => Showing(v, f)
             /\ Showing(v, d.path)
  <1> DEFINE q == Append(w.documents, d)
             n == w.next_id + 1
             u == [w EXCEPT !.documents = q, !.next_id = n]
             v == Added(w, d)
  <1>1. w.documents \in Seq(Document) /\ n \in Nat \ {0}
    BY DEF State
  <1>2. /\ q \in Seq(Document) /\ Len(q) = Len(w.documents) + 1
        /\ \A i \in 1 .. Len(w.documents) : q[i] = w.documents[i]
        /\ q[Len(w.documents) + 1] = d
    BY <1>1, AppendProperties
  <1>3. /\ \A i \in DOMAIN w.documents : i \in DOMAIN q /\ q[i] = w.documents[i]
        /\ \E i \in DOMAIN q : q[i] = d
    BY <1>1, <1>2
  <1>4. v = Activated(u, d.id)
    BY DEF Added
  <1> HIDE DEF q, n, v
  <1>5. /\ u \in State /\ u.documents = q /\ u.tabs = w.tabs /\ Beside(w, u)
        /\ u.active = w.active /\ u.focus = w.focus
    BY <1>1, <1>2 DEF State, Beside
  <1> HIDE DEF u
  <1>6. Ids(w) \subseteq Ids(u) /\ d.id \in Ids(u)
    BY <1>3, <1>5 DEF Ids
  <1>7. u.active # d.id \/ u.focus.document \in Ids(u)
    BY <1>5, <1>6 DEF Anchored
  <1>8. /\ v \in State /\ v.active = d.id /\ v.focus.document \in Ids(u)
        /\ v.documents = u.documents /\ v.tabs = u.tabs /\ Beside(u, v)
        /\ Ids(v) = Ids(u)
    BY <1>4, <1>5, <1>6, <1>7, ActivatedFacts
  <1>9. Beside(w, v)
    BY <1>5, <1>8 DEF Beside
  <1>10. Anchored(v)
    BY <1>6, <1>8, <1>9, HeldBeside DEF Anchored
  <1>11. (\A f : Showing(w, f) => Showing(v, f)) /\ Showing(v, d.path)
    BY <1>3, <1>5, <1>8 DEF Showing
  <1> QED
    BY <1>5, <1>8, <1>9, <1>10, <1>11 DEF v

LEMMA UntitledTyped ==
  ASSUME NEW id \in Nat
  PROVE  Untitled(id) \in Document /\ Untitled(id).id = id
  BY DEF Untitled, Document, Tree

\* createDocument.
LEMMA CreatedFacts ==
  ASSUME NEW w \in State, AllHeld(w), w.active = 0 \/ Anchored(w)
  PROVE  LET v == Created(w)
         IN  /\ v \in State /\ Anchored(v) /\ v.tabs = w.tabs /\ Beside(w, v)
             /\ \A f : Showing(w, f) => Showing(v, f)
  <1>1. w.next_id \in Nat \ {0}
    BY DEF State
  <1>2. /\ Untitled(w.next_id) \in Document /\ Untitled(w.next_id).id = w.next_id
        /\ Untitled(w.next_id).id # 0
    BY <1>1, UntitledTyped
  <1>3. Created(w) = Added(w, Untitled(w.next_id))
    BY <1>2 DEF Created, Added
  <1> QED
    BY <1>2, <1>3, AddedFacts

LEMMA CreatedSound ==
  ASSUME NEW w, Fit(w)
  PROVE  Sound(w, Created(w))
  <1> DEFINE v == Created(w)
  <1>1. /\ v \in State /\ Anchored(v) /\ v.tabs = w.tabs /\ Beside(w, v)
        /\ \A f : Showing(w, f) => Showing(v, f)
    BY CreatedFacts DEF Fit, Anchored
  <1> HIDE DEF v
  <1>2. Sound(w, v)
    BY <1>1, BesideSound DEF Fit, Tabbed
  <1> QED
    BY <1>2 DEF v

\* addOpenTab.
LEMMA AddOpenTabFacts ==
  ASSUME NEW w \in State, Distinct(w.tabs), NEW f \in File
  PROVE  LET v == AddOpenTab(w, f)
         IN  /\ v \in State /\ v = [w EXCEPT !.tabs = v.tabs]
             /\ Distinct(v.tabs) /\ \A g \in Range(v.tabs) : g \in Range(w.tabs) \/ g = f
  <1> DEFINE v == AddOpenTab(w, f)
             q == Append(w.tabs, f)
  <1>1. w.tabs \in Seq(File)
    BY DEF State
  <1>2. CASE f \in Range(w.tabs)
    BY <1>2 DEF AddOpenTab, State
  <1>3. CASE f \notin Range(w.tabs)
    <2>1. v = [w EXCEPT !.tabs = q]
      BY <1>3 DEF AddOpenTab
    <2>2. /\ q \in Seq(File) /\ Len(q) = Len(w.tabs) + 1
          /\ \A i \in 1 .. Len(w.tabs) : q[i] = w.tabs[i]
          /\ q[Len(w.tabs) + 1] = f
      BY <1>1, AppendProperties
    <2> HIDE DEF q
    <2>3. v \in State /\ v.tabs = q
      BY <2>1, <2>2 DEF State
    <2>4. \A i \in DOMAIN q : i \in 1 .. Len(w.tabs) \/ i = Len(w.tabs) + 1
      BY <1>1, <2>2
    <2>5. \A i \in 1 .. Len(w.tabs) : w.tabs[i] \in Range(w.tabs) /\ w.tabs[i] # f
      BY <1>1, <1>3 DEF Range
    <2>6. Distinct(q)
      BY <1>1, <2>2, <2>4, <2>5 DEF Distinct
    <2>7. \A g \in Range(q) : g \in Range(w.tabs) \/ g = f
      BY <2>2, <2>4, <2>5 DEF Range
    <2> HIDE DEF v
    <2>8. v = [w EXCEPT !.tabs = v.tabs]
      BY <2>1, <2>3
    <2> QED
      BY <2>3, <2>6, <2>7, <2>8 DEF v
  <1> QED
    BY <1>2, <1>3

LEMMA LoadedTyped ==
  ASSUME NEW w \in State, NEW f \in File, w.disk[f] # Missing, NEW d \in Document
  PROVE  /\ Loaded(d, f, w) \in Document
         /\ Loaded(d, f, w).id = d.id /\ Loaded(d, f, w).path = f
  <1> DEFINE c == w.disk[f]
             n == c.named
             t == c.tree
  <1>1. c \in Content
    BY DEF State
  <1>2. n \in BOOLEAN /\ t \in Tree
    BY <1>1 DEF Content
  <1>3. /\ <<>> \in Seq(Tree) /\ {} \in Tree
        /\ Loaded(d, f, w) = [d EXCEPT !.path = f, !.named = n, !.tree = t,
                                       !.undo = <<>>, !.redo = <<>>, !.windows = {}]
    BY DEF Loaded, Tree
  <1> HIDE DEF n, t
  <1> QED
    BY <1>2, <1>3 DEF Document

\* The end of opening a document: its tab.
LEMMA TabAdded ==
  ASSUME NEW w \in State, NEW u \in State, Anchored(u), u.tabs = w.tabs, Beside(w, u),
         Distinct(w.tabs), NEW f \in File, Showing(u, f),
         \A g \in File : Showing(w, g) => Showing(u, g)
  PROVE  LET v == AddOpenTab(u, f)
         IN  /\ v \in State /\ Anchored(v) /\ Distinct(v.tabs) /\ Beside(w, v)
             /\ \A g \in File : Showing(w, g) => Showing(v, g)
             /\ \A g \in Range(v.tabs) : g \in Range(w.tabs) \/ g = f
             /\ Showing(v, f)
  <1> DEFINE v == AddOpenTab(u, f)
  <1>1. /\ v \in State /\ v = [u EXCEPT !.tabs = v.tabs]
        /\ Distinct(v.tabs) /\ \A g \in Range(v.tabs) : g \in Range(w.tabs) \/ g = f
    BY AddOpenTabFacts
  <1> HIDE DEF v
  <1>2. /\ v.documents = u.documents /\ v.active = u.active /\ v.focus = u.focus
        /\ Beside(u, v)
    BY <1>1 DEF State, Beside
  <1>3. Beside(w, v)
    BY <1>2 DEF Beside
  <1>4. Ids(v) = Ids(u) /\ \A g : Showing(v, g) <=> Showing(u, g)
    BY <1>2 DEF Ids, Showing
  <1>5. Anchored(v)
    BY <1>2, <1>4, HeldBeside DEF Anchored
  <1> QED
    BY <1>1, <1>3, <1>4, <1>5 DEF v

\* openDocument.
LEMMA OpenedFacts ==
  ASSUME NEW w \in State, Anchored(w), Distinct(w.tabs), NEW f \in File
  PROVE  LET v == Opened(w, f)
         IN  /\ v \in State /\ Anchored(v) /\ Distinct(v.tabs) /\ Beside(w, v)
             /\ \A g \in File : Showing(w, g) => Showing(v, g)
             /\ \A g \in Range(v.tabs) : g \in Range(w.tabs) \/ g = f
             /\ v.tabs = w.tabs \/ Showing(v, f)
             /\ w.disk[f] # Missing => Showing(v, f)
  <1>1. w.documents \in Seq(Document)
    BY DEF State
  <1>2. CASE FindByPath(w, f) # 0
    <2> DEFINE id == w.documents[FindByPath(w, f)].id
               v  == Activated(w, id)
    <2>1. id \in Ids(w) /\ Showing(w, f)
      BY <1>1, <1>2, PathFacts
    <2>2. Opened(w, f) = v
      BY <1>2 DEF Opened
    <2>3. /\ v \in State /\ v.active = id /\ v.focus.document \in Ids(w)
          /\ v.documents = w.documents /\ v.tabs = w.tabs /\ Beside(w, v)
          /\ Ids(v) = Ids(w)
      BY <2>1, ActivatedFacts DEF Anchored
    <2> HIDE DEF id, v
    <2>4. Anchored(v)
      BY <2>1, <2>3, HeldBeside DEF Anchored
    <2>5. \A g : Showing(v, g) <=> Showing(w, g)
      BY <2>3 DEF Showing
    <2> QED
      BY <2>1, <2>2, <2>3, <2>4, <2>5
  <1>3. CASE FindByPath(w, f) = 0 /\ w.disk[f] = Missing
    <2>1. Opened(w, f) = w /\ Beside(w, w)
      BY <1>3 DEF Opened, Beside
    <2> QED
      BY <1>3, <2>1
  <1>4. CASE FindByPath(w, f) = 0 /\ w.disk[f] # Missing
             /\ Len(w.documents) = 1 /\ IsPristine(w.documents[1])
    <2> DEFINE only == w.documents[1]
               d    == Loaded(only, f, w)
               u    == WithDoc(w, d)
    <2>1. only \in Document /\ 1 \in DOMAIN w.documents /\ only.id \in Ids(w)
      BY <1>1, <1>4 DEF Ids
    <2>2. Opened(w, f) = AddOpenTab(u, f)
      BY <1>4 DEF Opened
    <2>3. d \in Document /\ d.id = only.id /\ d.path = f
      BY <1>4, <2>1, LoadedTyped
    <2>4. \A g \in File : ~Showing(w, g)
      <3>1. \A i \in DOMAIN w.documents : i = 1
        BY <1>1, <1>4
      <3> QED
        BY <1>4, <3>1, WorkspaceAssumption DEF Showing, IsPristine
    <2> HIDE DEF d
    <2>5. /\ u \in State /\ u = [w EXCEPT !.documents = u.documents]
          /\ Ids(u) = Ids(w) /\ Showing(u, f)
      BY <2>1, <2>3, WithDocFacts
    <2> HIDE DEF u, only
    <2>6. u.tabs = w.tabs /\ Beside(w, u) /\ u.active = w.active /\ u.focus = w.focus
      BY <2>5 DEF State, Beside
    <2>7. Anchored(u)
      BY <2>5, <2>6, HeldBeside DEF Anchored
    <2> DEFINE v == AddOpenTab(u, f)
    <2>8. /\ v \in State /\ Anchored(v) /\ Distinct(v.tabs) /\ Beside(w, v)
          /\ \A g \in File : Showing(w, g) => Showing(v, g)
          /\ \A g \in Range(v.tabs) : g \in Range(w.tabs) \/ g = f
          /\ Showing(v, f)
      BY <2>4, <2>5, <2>6, <2>7, TabAdded
    <2> QED
      BY <2>2, <2>8
  <1>5. CASE FindByPath(w, f) = 0 /\ w.disk[f] # Missing
             /\ ~(Len(w.documents) = 1 /\ IsPristine(w.documents[1]))
    <2> DEFINE new == Loaded(Untitled(w.next_id), f, w)
               u   == Added(w, new)
    <2>1. w.next_id \in Nat \ {0}
      BY DEF State
    <2>2. new \in Document /\ new.id # 0 /\ new.path = f
      BY <1>5, <2>1, LoadedTyped, UntitledTyped
    <2>3. Opened(w, f) = AddOpenTab(u, f)
      BY <1>5 DEF Opened, Added
    <2> HIDE DEF new
    <2>4. /\ u \in State /\ Anchored(u) /\ u.tabs = w.tabs /\ Beside(w, u)
          /\ \A g : Showing(w, g) => Showing(u, g)
          /\ Showing(u, f)
      BY <2>2, AddedFacts DEF Anchored
    <2> HIDE DEF u
    <2> DEFINE v == AddOpenTab(u, f)
    <2>5. /\ v \in State /\ Anchored(v) /\ Distinct(v.tabs) /\ Beside(w, v)
          /\ \A g \in File : Showing(w, g) => Showing(v, g)
          /\ \A g \in Range(v.tabs) : g \in Range(w.tabs) \/ g = f
          /\ Showing(v, f)
      BY <2>4, TabAdded
    <2> QED
      BY <2>3, <2>5
  <1> QED
    BY <1>2, <1>3, <1>4, <1>5

LEMMA OpenedSound ==
  ASSUME NEW w, Fit(w), NEW f \in File
  PROVE  Sound(w, Opened(w, f))
  <1> DEFINE v == Opened(w, f)
  <1>1. /\ v \in State /\ Anchored(v) /\ Distinct(v.tabs) /\ Beside(w, v)
        /\ \A g \in File : Showing(w, g) => Showing(v, g)
        /\ \A g \in Range(v.tabs) : g \in Range(w.tabs) \/ g = f
        /\ v.tabs = w.tabs \/ Showing(v, f)
    BY OpenedFacts DEF Fit, Tabbed
  <1> HIDE DEF v
  <1>2. w.tabs \in Seq(File) /\ \A g \in Range(w.tabs) : g \in File /\ Showing(w, g)
    BY DEF Fit, Tabbed, State, Range
  <1>3. Fit(v)
    BY <1>1, <1>2 DEF Fit, Tabbed
  <1>4. Sound(w, v)
    BY <1>1, <1>3, BesideSound
  <1> QED
    BY <1>4 DEF v

-----------------------------------------------------------------------------
(* Closing documents.                                                      *)

\* close_for_document: no dialog keeps the document.
LEMMA CloseForDocumentFacts ==
  ASSUME NEW w \in State, AllHeld(w), NEW id
  PROVE  LET c == CloseForDocument(w, id)
         IN  /\ Quieter(w, c)
             /\ c.popup = NoPopup \/ c.popup.at.document \in Ids(w) \ {id}
             /\ \A at \in {c.extract, c.inline, c.script, c.properties} :
                  at = Closed \/ at.document \in Ids(w) \ {id}
  <1>1. \A at \in Place : /\ Kept(at.document # id, at) \in {at, Closed}
                          /\ Kept(at.document # id, at) \in Place
                          /\ Held(w, at) =>
                               LET k == Kept(at.document # id, at)
                               IN  k = Closed \/ k.document \in Ids(w) \ {id}
    BY ClosedFacts DEF Kept, Held
  <1> DEFINE p == IF w.popup.at.document = id THEN NoPopup ELSE w.popup
             x == Kept(w.extract.document # id, w.extract)
             i == Kept(w.inline.document # id, w.inline)
             s == Kept(w.script.document # id, w.script)
             o == Kept(w.properties.document # id, w.properties)
             c == CloseForDocument(w, id)
  <1>2. c = [w EXCEPT !.popup = p, !.extract = x, !.inline = i, !.properties = o, !.script = s]
    BY DEF CloseForDocument
  <1>3. /\ p \in {w.popup, NoPopup} /\ p \in [kind : PopupKind, at : Place]
        /\ p = NoPopup \/ p.at.document \in Ids(w) \ {id}
    BY ClosedFacts DEF State, AllHeld
  <1>4. /\ w.extract \in Place /\ w.inline \in Place /\ w.script \in Place /\ w.properties \in Place
        /\ Held(w, w.extract) /\ Held(w, w.inline) /\ Held(w, w.script) /\ Held(w, w.properties)
    BY DEF State, AllHeld
  <1>5. /\ x \in Place /\ x \in {w.extract, Closed} /\ i \in Place /\ i \in {w.inline, Closed}
        /\ o \in Place /\ o \in {w.properties, Closed} /\ s \in Place /\ s \in {w.script, Closed}
    BY <1>1, <1>4
  <1>6. \A at \in {x, i, s, o} : at = Closed \/ at.document \in Ids(w) \ {id}
    BY <1>1, <1>4
  <1> HIDE DEF p, x, i, s, o, c
  <1>7. /\ c.popup = p /\ c.extract = x /\ c.inline = i /\ c.script = s /\ c.properties = o
        /\ Quieter(w, c)
    BY <1>2, <1>3, <1>5 DEF State, Quieter
  <1> QED
    BY <1>3, <1>6, <1>7 DEF c

\* closeDocument.
LEMMA DocumentClosedSound ==
  ASSUME NEW w, Fit(w), NEW id \in Ids(w)
  PROVE  Sound(w, DocumentClosed(w, id))
  <1> DEFINE i    == Index(w, id)
             docs == w.documents
             n    == Len(docs)
             next == IF i < n THEN docs[i + 1].id ELSE IF i > 1 THEN docs[i - 1].id ELSE 0
             c    == CloseForDocument(w, id)
             tabs == RemoveFirst(w.tabs, Doc(w, id).path)
             act  == IF w.active = id THEN next ELSE w.active
             q    == RemoveAt(docs, i)
             v    == [c EXCEPT !.tabs = tabs, !.active = act, !.documents = q]
  <1>1. w \in State /\ Anchored(w) /\ AllHeld(w) /\ Tabbed(w)
    BY DEF Fit, Anchored
  <1>2. docs \in Seq(Document) /\ n \in Nat
    BY <1>1 DEF State
  <1>3. /\ i \in 1 .. n /\ i \in Nat /\ Doc(w, id) = docs[i] /\ docs[i].id = id
    BY <1>2, IndexFacts DEF Doc
  <1>4. /\ Quieter(w, c)
        /\ c.popup = NoPopup \/ c.popup.at.document \in Ids(w) \ {id}
        /\ \A at \in {c.extract, c.inline, c.script, c.properties} :
             at = Closed \/ at.document \in Ids(w) \ {id}
    BY <1>1, CloseForDocumentFacts
  <1>5. /\ c \in State /\ c.documents = docs /\ c.tabs = w.tabs /\ c.active = w.active
        /\ c.disk = w.disk /\ c.save_after = w.save_after
        /\ c.halted = "no" => w.halted = "no"
        /\ c.popup.kind = "name" => w.popup.kind = "name"
    BY <1>4, ClosedFacts DEF Quieter
  <1>6. DocumentClosed(w, id) = IF v.active = 0 THEN Created(v) ELSE Focused(v, v.active, Root)
    BY <1>5 DEF DocumentClosed
  <1>7. /\ tabs \in Seq(File) /\ Distinct(tabs)
        /\ \A g \in Range(tabs) : g \in Range(w.tabs) /\ g # Doc(w, id).path
    BY <1>1, RemoveFirstFacts DEF State, Tabbed
  <1>8. q \in Seq(Document) /\ \A j \in 1 .. n : j # i => \E k \in DOMAIN q : q[k] = docs[j]
    <2>1. /\ q \in Seq(Document) /\ Len(q) = n - 1
          /\ \A j \in 1 .. n - 1 : q[j] = IF j < i THEN docs[j] ELSE docs[j + 1]
      BY <1>2, <1>3, RemoveAtFacts
    <2> HIDE DEF q, n, i
    <2>2. ASSUME NEW j \in 1 .. n, j # i
          PROVE  \E k \in DOMAIN q : q[k] = docs[j]
      <3>1. CASE j < i
        <4>1. j \in 1 .. n - 1 /\ j \in DOMAIN q
          BY <1>2, <1>3, <2>1, <3>1
        <4> QED
          BY <2>1, <3>1, <4>1
      <3>2. CASE ~(j < i)
        <4>1. j - 1 \in 1 .. n - 1 /\ j - 1 \in DOMAIN q /\ ~(j - 1 < i) /\ (j - 1) + 1 = j
          BY <1>2, <1>3, <2>1, <2>2, <3>2
        <4> QED
          BY <2>1, <4>1
      <3> QED
        BY <3>1, <3>2
    <2> QED
      BY <2>1, <2>2
  <1>9. DOMAIN docs = 1 .. n
    BY <1>2
  <1>10. next = 0 \/ \E j \in 1 .. n : j # i /\ next = docs[j].id
    <2>1. CASE i < n
      <3>1. i + 1 \in 1 .. n /\ i + 1 # i
        BY <1>2, <1>3, <2>1
      <3> QED
        BY <2>1, <3>1
    <2>2. CASE ~(i < n) /\ i > 1
      <3>1. i - 1 \in 1 .. n /\ i - 1 # i
        BY <1>2, <1>3, <2>2
      <3> QED
        BY <2>2, <3>1
    <2>3. CASE ~(i < n) /\ ~(i > 1)
      BY <2>3
    <2> QED
      BY <2>1, <2>2, <2>3
  <1>11. act \in Nat
    <2>1. \A j \in 1 .. n : docs[j].id \in Nat
      <3>1. \A j \in 1 .. n : docs[j] \in Document
        BY <1>2
      <3>2. \A d \in Document : d.id \in Nat
        BY DEF Document
      <3> QED
        BY <3>1, <3>2
    <2> HIDE DEF next, docs, i, n
    <2> QED
      BY <1>1, <1>10, <2>1 DEF State
  <1> HIDE DEF i, next, c, tabs, q, n
  <1>12. /\ v \in State /\ v.documents = q /\ v.tabs = tabs /\ v.active = act
         /\ v.popup = c.popup /\ v.extract = c.extract /\ v.inline = c.inline
         /\ v.script = c.script /\ v.properties = c.properties /\ v.disk = c.disk
         /\ v.save_after = c.save_after /\ v.halted = c.halted
    <2> HIDE DEF act, docs
    <2> QED
      BY <1>5, <1>7, <1>8, <1>11 DEF State
  <1> HIDE DEF v
  <1>13. Ids(w) \ {id} \subseteq Ids(v)
    BY <1>3, <1>8, <1>9, <1>12 DEF Ids
  <1>14. AllHeld(v)
    BY <1>4, <1>12, <1>13 DEF AllHeld, Held
  <1>15. \A g \in Range(v.tabs) : Showing(v, g)
    BY <1>1, <1>3, <1>7, <1>8, <1>9, <1>12 DEF Tabbed, Showing
  <1>16. act # 0 => act \in Ids(v)
    <2>1. CASE w.active = id
      BY <1>8, <1>10, <1>12, <2>1 DEF Ids
    <2>2. CASE w.active # id
      BY <1>1, <1>13, <2>2 DEF Anchored
    <2> QED
      BY <2>1, <2>2
  <1> HIDE DEF act, docs
  <1>17. CASE act = 0
    <2> DEFINE u == Created(v)
    <2>1. /\ u \in State /\ Anchored(u) /\ u.tabs = v.tabs /\ Beside(v, u)
          /\ \A f : Showing(v, f) => Showing(u, f)
      BY <1>12, <1>14, <1>17, CreatedFacts
    <2>2. DocumentClosed(w, id) = u
      BY <1>6, <1>12, <1>17
    <2> HIDE DEF u
    <2>3. Fit(u)
      BY <1>7, <1>12, <1>15, <2>1 DEF Fit, Tabbed
    <2> QED
      BY <1>5, <1>12, <2>1, <2>2, <2>3 DEF Sound, Beside
  <1>18. CASE act # 0
    <2> DEFINE u == Focused(v, act, Root)
    <2>1. Root \in Seq(NodeId) /\ act \in Ids(v)
      BY <1>16, <1>18 DEF Root
    <2>2. /\ u \in State /\ u.active = v.active /\ u.focus.document = act
          /\ u.documents = v.documents /\ u.tabs = v.tabs /\ Beside(v, u)
          /\ Ids(u) = Ids(v)
      BY <1>12, <2>1, FocusedFacts
    <2>3. DocumentClosed(w, id) = u
      BY <1>6, <1>12, <1>18
    <2> HIDE DEF u
    <2>4. AllHeld(u)
      BY <1>14, <2>2, HeldBeside
    <2>5. Fit(u)
      BY <1>7, <1>12, <1>15, <2>1, <2>2, <2>4 DEF Fit, Tabbed, Anchored, Showing
    <2> QED
      BY <1>5, <1>12, <2>2, <2>3, <2>5 DEF Sound, Beside
  <1> QED
    BY <1>17, <1>18

-----------------------------------------------------------------------------
(* Starting the program.                                                   *)

\* The first state, before the tabs are opened.
Started(w) ==
  Created([documents |-> <<>>, active |-> 0, next_id |-> 1, tabs |-> w.tabs,
           focus |-> [document |-> 0, scope |-> Root], popup |-> NoPopup,
           extract |-> Closed, inline |-> Closed, script |-> Closed,
           properties |-> Closed, save_after |-> FALSE, disk |-> w.disk,
           halted |-> "no"])

\* One tab is opened, or taken off the list.
Reopened(w, f, u) ==
  LET v == Opened(u, f)
  IN  IF w.disk[f] = Missing THEN [v EXCEPT !.tabs = RemoveFirst(@, f)] ELSE v

Reopens(w, F) ==
  F = [k \in 0 .. Len(w.tabs) |->
         IF k = 0 THEN Started(w) ELSE Reopened(w, w.tabs[k], F[k - 1])]

\* What holds all the time while the tabs are opened.
Starting(w) ==
  {v \in State : /\ Anchored(v) /\ Distinct(v.tabs) /\ v.disk = w.disk
                 /\ v.popup = NoPopup
                 /\ \A g \in Range(v.tabs) : g \in Range(w.tabs)}

Saved(w) == w.tabs \in Seq(File) /\ Distinct(w.tabs) /\ w.disk \in [File -> Content \cup {Missing}]

LEMMA StartedFacts ==
  ASSUME NEW w, Saved(w)
  PROVE  Started(w) \in Starting(w)
  <1> DEFINE tabs == w.tabs
             disk == w.disk
             u == [documents |-> <<>>, active |-> 0, next_id |-> 1, tabs |-> tabs,
                   focus |-> [document |-> 0, scope |-> Root], popup |-> NoPopup,
                   extract |-> Closed, inline |-> Closed, script |-> Closed,
                   properties |-> Closed, save_after |-> FALSE, disk |-> disk,
                   halted |-> "no"]
             v == Created(u)
  <1>1. tabs \in Seq(File) /\ Distinct(tabs) /\ disk \in [File -> Content \cup {Missing}]
    BY DEF Saved
  <1>2. v = Started(w)
    BY DEF Started
  <1>3. [document |-> 0, scope |-> Root] \in [document : Nat, scope : Seq(NodeId)]
    BY DEF Root
  <1> HIDE DEF tabs, disk, v
  <1>4. u \in State
    BY <1>1, <1>3, ClosedFacts DEF State
  <1>5. /\ u.active = 0 /\ u.tabs = tabs /\ u.disk = disk /\ u.popup = NoPopup
        /\ u.extract = Closed /\ u.inline = Closed /\ u.script = Closed /\ u.properties = Closed
    OBVIOUS
  <1> HIDE DEF u
  <1>6. AllHeld(u)
    BY <1>5 DEF AllHeld, Held
  <1>7. v \in State /\ Anchored(v) /\ v.tabs = u.tabs /\ Beside(u, v)
    BY <1>4, <1>5, <1>6, CreatedFacts DEF v
  <1>8. v \in Starting(w)
    BY <1>1, <1>5, <1>7 DEF Starting, Beside, tabs, disk
  <1> QED
    BY <1>2, <1>8

\* A tab that is opened stays on the list only if its document is there, and
\* keeps the documents of the others.
LEMMA ReopenedFacts ==
  ASSUME NEW w, Saved(w), NEW f \in Range(w.tabs), NEW u \in Starting(w)
  PROVE  LET v == Reopened(w, f, u)
         IN  /\ v \in Starting(w)
             /\ f \in Range(v.tabs) => Showing(v, f)
             /\ \A g \in Range(v.tabs) : g = f \/ (g \in Range(u.tabs) /\ g \in File)
             /\ \A g \in File : Showing(u, g) => Showing(v, g)
  <1> DEFINE v == Opened(u, f)
             r == RemoveFirst(v.tabs, f)
  <1>1. /\ f \in File /\ u \in State /\ Anchored(u) /\ Distinct(u.tabs)
        /\ u.disk = w.disk /\ u.popup = NoPopup /\ u.tabs \in Seq(File)
        /\ \A g \in Range(u.tabs) : g \in Range(w.tabs) /\ g \in File
    <2>1. w.tabs \in Seq(File) /\ \A g \in Range(w.tabs) : g \in File
      BY DEF Saved, Range
    <2>2. /\ u \in State /\ Anchored(u) /\ Distinct(u.tabs)
          /\ u.disk = w.disk /\ u.popup = NoPopup
          /\ \A g \in Range(u.tabs) : g \in Range(w.tabs)
      BY DEF Starting
    <2>3. u.tabs \in Seq(File)
      BY <2>2 DEF State
    <2> QED
      BY <2>1, <2>2, <2>3
  <1>2. /\ v \in State /\ Anchored(v) /\ Distinct(v.tabs) /\ Beside(u, v)
        /\ \A g \in File : Showing(u, g) => Showing(v, g)
        /\ \A g \in Range(v.tabs) : g \in Range(u.tabs) \/ g = f
        /\ u.disk[f] # Missing => Showing(v, f)
    BY <1>1, OpenedFacts
  <1>3. v \in Starting(w)
    BY <1>1, <1>2 DEF Starting, Beside
  <1> HIDE DEF v
  <1>4. CASE w.disk[f] # Missing
    BY <1>1, <1>2, <1>3, <1>4 DEF Reopened, v
  <1>5. CASE w.disk[f] = Missing
    <2> DEFINE x == [v EXCEPT !.tabs = r]
    <2>1. Reopened(w, f, u) = x
      BY <1>5 DEF Reopened, v
    <2>2. r \in Seq(File) /\ Distinct(r) /\ \A g \in Range(r) : g \in Range(v.tabs) /\ g # f
      BY <1>2, RemoveFirstFacts DEF State
    <2> HIDE DEF r
    <2>3. /\ x \in State /\ x.tabs = r /\ x.documents = v.documents /\ x.active = v.active
          /\ x.focus = v.focus /\ Beside(v, x)
      BY <1>2, <2>2 DEF State, Beside
    <2> HIDE DEF x
    <2>4. Ids(x) = Ids(v) /\ \A g : Showing(x, g) <=> Showing(v, g)
      BY <2>3 DEF Ids, Showing
    <2>5. Anchored(x)
      BY <1>2, <2>3, <2>4, HeldBeside DEF Anchored
    <2>6. x \in Starting(w)
      BY <1>3, <2>2, <2>3, <2>5 DEF Starting, Beside
    <2> QED
      BY <1>1, <1>2, <2>1, <2>2, <2>3, <2>4, <2>6
  <1> QED
    BY <1>4, <1>5

\* The tabs are opened one after the other.
LEMMA RestoredSteps ==
  ASSUME NEW w, Saved(w)
  PROVE  \E F : Reopens(w, F) /\ Restored(w) = F[Len(w.tabs)]
  <1> DEFINE n == Len(w.tabs)
             c == Started(w)
             V == Starting(w)
             D == [k \in 1 .. n |-> [u \in V |-> Reopened(w, w.tabs[k], u)]]
             F == CHOOSE f : Reopens(w, f)
  <1>1. n \in Nat /\ \A k \in 1 .. n : w.tabs[k] \in Range(w.tabs)
    BY DEF Saved, Range
  <1>2. c \in V
    BY StartedFacts
  <1>3. D \in [1 .. n -> [V -> V]]
    <2>1. \A k \in 1 .. n, u \in V : Reopened(w, w.tabs[k], u) \in V
      BY <1>1, ReopenedFacts
    <2> HIDE DEF V, n
    <2> QED
      BY <2>1
  <1>4. \A k \in 1 .. n, u \in V : D[k][u] = Reopened(w, w.tabs[k], u)
    OBVIOUS
  <1>5. Restored(w) = F[Len(w.tabs)]
    BY DEF Restored, Reopens, Reopened, Started
  <1>6. \A f : Reopens(w, f) <=>
          f = [k \in 0 .. n |-> IF k = 0 THEN c ELSE Reopened(w, w.tabs[k], f[k - 1])]
    BY DEF Reopens
  <1> HIDE DEF V, D, n, F, c
  <1>7. PICK f \in [0 .. n -> V] : Iterates(f, n, c, D)
    BY <1>1, <1>2, <1>3, IterateExists
  <1>8. Reopens(w, f)
    <2>1. f = [k \in 0 .. n |-> IF k = 0 THEN c ELSE D[k][f[k - 1]]]
      BY <1>7 DEF Iterates
    <2>2. \A k \in 0 .. n : k # 0 => k \in 1 .. n /\ k - 1 \in 0 .. n
      BY <1>1
    <2>3. \A k \in 0 .. n : k # 0 => D[k][f[k - 1]] = Reopened(w, w.tabs[k], f[k - 1])
      BY <1>4, <1>7, <2>2
    <2>4. f = [k \in 0 .. n |-> IF k = 0 THEN c ELSE Reopened(w, w.tabs[k], f[k - 1])]
      BY <2>1, <2>3
    <2> QED
      BY <1>6, <2>4
  <1>9. Reopens(w, F)
    BY <1>8 DEF F
  <1> QED
    BY <1>5, <1>9

\* The restart: the tabs that are left have their documents.
LEMMA RestoredFacts ==
  ASSUME NEW w, Saved(w)
  PROVE  /\ Fit(Restored(w)) /\ Restored(w).disk = w.disk
         /\ Restored(w).popup = NoPopup
  <1>1. PICK F : Reopens(w, F) /\ Restored(w) = F[Len(w.tabs)]
    BY RestoredSteps
  <1> DEFINE n == Len(w.tabs)
             Opens(k) == \A j \in 1 .. k : w.tabs[j] \in Range(F[k].tabs) => Showing(F[k], w.tabs[j])
             S == {k \in 0 .. n : F[k] \in Starting(w) /\ Opens(k)}
  <1>2. /\ n \in Nat /\ w.tabs \in Seq(File)
        /\ \A k \in 1 .. n : w.tabs[k] \in Range(w.tabs) /\ w.tabs[k] \in File
    BY DEF Saved, Range
  <1>3. \A k \in 0 .. n :
          F[k] = IF k = 0 THEN Started(w) ELSE Reopened(w, w.tabs[k], F[k - 1])
    <2>1. F = [k \in 0 .. n |-> IF k = 0 THEN Started(w) ELSE Reopened(w, w.tabs[k], F[k - 1])]
      BY <1>1 DEF Reopens
    <2> QED
      BY <2>1
  <1> HIDE DEF n
  <1>4. 0 \in S
    <2>1. 0 \in 0 .. n
      BY <1>2
    <2> QED
      BY <1>3, <2>1, StartedFacts
  <1>5. ASSUME NEW k \in 0 .. n, k # 0, k - 1 \in S
        PROVE  k \in S
    <2>1. k \in 1 .. n /\ \A j \in 1 .. k : j \in 1 .. n /\ (j = k \/ j \in 1 .. k - 1)
      BY <1>2, <1>5
    <2> DEFINE f == w.tabs[k]
               u == F[k - 1]
               v == F[k]
    <2>2. v = Reopened(w, f, u) /\ f \in Range(w.tabs) /\ u \in Starting(w) /\ Opens(k - 1)
      BY <1>2, <1>3, <1>5, <2>1
    <2>3. /\ v \in Starting(w)
          /\ f \in Range(v.tabs) => Showing(v, f)
          /\ \A g \in Range(v.tabs) : g = f \/ (g \in Range(u.tabs) /\ g \in File)
          /\ \A g \in File : Showing(u, g) => Showing(v, g)
      <3> HIDE DEF v, u, f
      <3> QED
        BY <2>2, ReopenedFacts
    <2>4. ASSUME NEW j \in 1 .. k, w.tabs[j] \in Range(v.tabs)
          PROVE  Showing(v, w.tabs[j])
      <3>1. CASE w.tabs[j] = f
        BY <2>3, <2>4, <3>1
      <3>2. CASE w.tabs[j] # f
        <4>1. w.tabs[j] \in Range(u.tabs) /\ w.tabs[j] \in File /\ j \in 1 .. k - 1
          BY <2>1, <2>3, <2>4, <3>2
        <4> QED
          BY <2>2, <2>3, <4>1
      <3> QED
        BY <3>1, <3>2
    <2> QED
      BY <2>3, <2>4
  <1>6. n \in S
    <2> HIDE DEF S
    <2>1. 0 .. n \subseteq S
      BY <1>2, <1>4, <1>5, Upward
    <2> QED
      BY <1>2, <2>1
  <1> DEFINE v == Restored(w)
  <1>7. /\ v \in Starting(w)
        /\ \A j \in 1 .. n : w.tabs[j] \in Range(v.tabs) => Showing(v, w.tabs[j])
    BY <1>1, <1>6 DEF n
  <1>8. \A g \in Range(w.tabs) : \E j \in 1 .. n : g = w.tabs[j]
    BY <1>2 DEF Range, n
  <1> HIDE DEF v
  <1>9. /\ v \in State /\ Anchored(v) /\ Distinct(v.tabs) /\ v.disk = w.disk /\ v.popup = NoPopup
        /\ \A g \in Range(v.tabs) : Showing(v, g)
    BY <1>7, <1>8 DEF Starting
  <1> QED
    BY <1>9 DEF Fit, Tabbed, v

-----------------------------------------------------------------------------
(* The inputs.                                                             *)

\* The dialogs are checked, and everything is where it was.
LEMMA Reconciled ==
  ASSUME Fit(ws)
  PROVE  LET v == Reconcile(ws)
         IN  /\ Sound(ws, v) /\ Quieter(ws, v) /\ Fit(v) /\ v \in State
             /\ Ids(v) = Ids(ws) /\ \A id : Doc(v, id) = Doc(ws, id)
  <1> DEFINE v == Reconcile(ws)
  <1>1. Quieter(ws, v) /\ Sound(ws, v)
    BY ReconcileQuiet, QuieterIsSound DEF Fit
  <1> HIDE DEF v
  <1>2. Fit(v) /\ v \in State /\ v.documents = ws.documents
    BY <1>1 DEF Quieter, Sound
  <1>3. Ids(v) = Ids(ws) /\ \A id : Doc(v, id) = Doc(ws, id)
    BY <1>2 DEF Ids, Doc, Index
  <1> QED
    BY <1>1, <1>2, <1>3 DEF v

\* The windows' places: opened with a document, or closed.
LEMMA PopupSound ==
  ASSUME NEW w, Fit(w), NEW p \in [kind : PopupKind, at : Place], p.kind # "name",
         p = NoPopup \/ p.at.document \in Ids(w)
  PROVE  LET v == [w EXCEPT !.popup = p]
         IN  Sound(w, v) /\ v.popup = p /\ v.documents = w.documents /\ v.extract = w.extract
  <1> DEFINE v == [w EXCEPT !.popup = p]
  <1>1. /\ v \in State /\ v.documents = w.documents /\ v.tabs = w.tabs /\ v.disk = w.disk
        /\ v.active = w.active /\ v.focus = w.focus /\ v.popup = p /\ v.halted = w.halted
        /\ v.extract = w.extract /\ v.inline = w.inline /\ v.script = w.script
        /\ v.properties = w.properties
    BY DEF Fit, State
  <1> HIDE DEF v
  <1>2. Ids(v) = Ids(w) /\ \A f : Showing(v, f) <=> Showing(w, f)
    BY <1>1 DEF Ids, Showing
  <1>3. Anchored(v)
    BY <1>1, <1>2 DEF Fit, Anchored, AllHeld, Held
  <1>4. Sound(w, v)
    BY <1>1, <1>2, <1>3, SamePlacesSound
  <1> QED
    BY <1>1, <1>4 DEF v

\* One of the small windows, and what the extract dialog works on.
LEMMA SmallWindowSound ==
  ASSUME NEW w, Fit(w), NEW at \in Place, Held(w, at)
  PROVE  /\ Sound(w, [w EXCEPT !.extract = at]) /\ Sound(w, [w EXCEPT !.inline = at])
         /\ Sound(w, [w EXCEPT !.script = at]) /\ Sound(w, [w EXCEPT !.properties = at])
  <1>1. ASSUME NEW v \in State, v.documents = w.documents, v.tabs = w.tabs, v.disk = w.disk,
               v.active = w.active, v.focus = w.focus, v.popup = w.popup,
               v.halted = w.halted, v.save_after = w.save_after,
               v.extract \in {w.extract, at}, v.inline \in {w.inline, at},
               v.script \in {w.script, at}, v.properties \in {w.properties, at}
        PROVE  Sound(w, v)
    <2>1. Ids(v) = Ids(w) /\ \A f : Showing(v, f) <=> Showing(w, f)
      BY <1>1 DEF Ids, Showing
    <2>2. Anchored(v)
      BY <1>1, <2>1 DEF Fit, Anchored, AllHeld, Held
    <2> QED
      BY <1>1, <2>1, <2>2, SamePlacesSound
  <1>2. w \in State
    BY DEF Fit
  <1>3. Sound(w, [w EXCEPT !.extract = at])
    BY <1>1, <1>2 DEF State
  <1>4. Sound(w, [w EXCEPT !.inline = at])
    BY <1>1, <1>2 DEF State
  <1>5. Sound(w, [w EXCEPT !.script = at])
    BY <1>1, <1>2 DEF State
  <1>6. Sound(w, [w EXCEPT !.properties = at])
    BY <1>1, <1>2 DEF State
  <1> QED
    BY <1>3, <1>4, <1>5, <1>6

LEMMA ClickedSound ==
  ASSUME NEW u, NEW w, Sound(u, w)
  PROVE  Sound(u, Clicked(w))
  <1>1. Fit(w) /\ Closed \in Place /\ Held(w, Closed)
    BY ClosedFacts DEF Held, Sound
  <1>2. Sound(w, Clicked(w))
    BY <1>1, SmallWindowSound DEF Clicked
  <1> QED
    BY <1>2, SoundTwice

LEMMA ItselfSound ==
  ASSUME NEW w, Fit(w)
  PROVE  Sound(w, w)
  BY DEF Sound

\* The popup is answered in a frame and closed: its place.
LEMMA Answered ==
  ASSUME Fit(ws), ws.popup.kind # "none"
  PROVE  LET v == Reconcile(ws)
             x == [v EXCEPT !.popup = NoPopup]
         IN  /\ Sound(v, x) /\ Fit(x) /\ x.popup = NoPopup /\ x.extract = v.extract
             /\ Ids(x) = Ids(ws) /\ \A id : Doc(x, id) = Doc(ws, id)
             /\ ws.popup.at \in Place /\ ws.popup.at.document \in Ids(ws)
  <1> DEFINE v == Reconcile(ws)
             x == [v EXCEPT !.popup = NoPopup]
  <1>1. Fit(v) /\ Ids(v) = Ids(ws) /\ \A id : Doc(v, id) = Doc(ws, id)
    BY Reconciled
  <1> HIDE DEF v
  <1>2. Sound(v, x) /\ x.documents = v.documents /\ x.popup = NoPopup /\ x.extract = v.extract
    BY <1>1, ClosedFacts, PopupSound
  <1> HIDE DEF x
  <1>3. Ids(x) = Ids(v) /\ \A id : Doc(x, id) = Doc(v, id)
    BY <1>2 DEF Ids, Doc, Index
  <1>4. ws.popup.at \in Place /\ ws.popup.at.document \in Ids(ws)
    BY ClosedFacts DEF Fit, Anchored, AllHeld, State
  <1> QED
    BY <1>1, <1>2, <1>3, <1>4 DEF Sound, v, x

LEMMA AnswerSound ==
  ASSUME Fit(ws), NEW kind, NEW u, ws.popup.kind # "none",
         LET v == Reconcile(ws)
         IN  /\ v.halted = "no" /\ v.popup.kind = kind => Sound([v EXCEPT !.popup = NoPopup], u)
             /\ ws' = IF v.halted = "no" THEN Render(IF v.popup.kind = kind THEN u ELSE v) ELSE v
  PROVE  Sound(ws, ws')
  <1> DEFINE v == Reconcile(ws)
             x == [v EXCEPT !.popup = NoPopup]
             y == IF v.popup.kind = kind THEN u ELSE v
  <1>1. Fit(v) /\ Sound(v, v) /\ Sound(v, x)
    BY Reconciled, Answered, ItselfSound
  <1>2. v.halted = "no" /\ v.popup.kind = kind => Sound(x, u)
    OBVIOUS
  <1>3. v.halted = "no" => Sound(v, y)
    <2> HIDE DEF v, x
    <2> QED
      BY <1>1, <1>2, SoundTwice
  <1> QED
    BY <1>3, CanvasFrameSound

\* The documents an edit may make.
LEMMA EditsAreTrees ==
  ASSUME NEW tree, MayEdit(tree)
  PROVE  tree \in Tree
  <1>1. tree \in Trees
    BY DEF MayEdit
  <1> QED
    BY <1>1, WorkspaceAssumption DEF Tree

LEMMA WindowsSound ==
  ASSUME NEW w, Fit(w), NEW id \in Ids(w), NEW windows \in Tree
  PROVE  Sound(w, WithDoc(w, [Doc(w, id) EXCEPT !.windows = windows]))
  <1> DEFINE d == Doc(w, id)
             e == [d EXCEPT !.windows = windows]
  <1>1. d \in Document /\ d.id = id
    BY IndexFacts DEF Fit, State
  <1> HIDE DEF d
  <1>2. e \in Document /\ e.id = id /\ e.path = d.path
    BY <1>1 DEF Document
  <1> HIDE DEF e
  <1>3. Sound(w, WithDoc(w, e))
    BY <1>1, <1>2, WithDocSound DEF d
  <1> QED
    BY <1>3 DEF e, d

\* An edit of what a node holds.
LEMMA ChangeSound ==
  ASSUME NEW w, Fit(w), NEW id \in Ids(w)
  PROVE  Sound(w, Changed(w, id)) /\ Ids(Changed(w, id)) = Ids(w)
  <1> DEFINE d == Doc(w, id)
             e == Edited(d, d.tree)
             v == WithDoc(w, e)
  <1>1. w \in State /\ w.documents \in Seq(Document)
    BY DEF Fit, State
  <1>2. d \in Document /\ d.id = id
    BY <1>1, IndexFacts
  <1>3. d.tree \in Tree
    BY <1>2 DEF Document
  <1>4. e \in Document /\ e.id = d.id /\ e.path = d.path
    BY <1>2, <1>3, EditedTyped
  <1>5. Sound(w, v)
    BY <1>3, ChangedSound
  <1>6. Ids(v) = Ids(w)
    <2> HIDE DEF e
    <2> QED
      BY <1>1, <1>2, <1>4, WithDocFacts
  <1> QED
    BY <1>5, <1>6 DEF Changed

-----------------------------------------------------------------------------
(* The actions on documents.                                               *)

LEMMA IdleStep ==
  ASSUME IInv, Idle
  PROVE  Sound(ws, ws')
  BY ItselfSound, KeyFrameSound DEF IInv, Idle

LEMMA NewDocumentStep ==
  ASSUME IInv, NewDocument
  PROVE  Sound(ws, ws')
  <1>1. Sound(ws, Clicked(Created(ws)))
    BY CreatedSound, ClickedSound DEF IInv
  <1> QED
    BY <1>1, KeyFrameSound DEF NewDocument

LEMMA OpenFileStep ==
  ASSUME IInv, OpenFile
  PROVE  Sound(ws, ws')
  <1>1. PICK f \in File : KeyFrame(Clicked(Opened(ws, f)))
    BY DEF OpenFile
  <1>2. Sound(ws, Clicked(Opened(ws, f)))
    BY OpenedSound, ClickedSound DEF IInv
  <1> QED
    BY <1>1, <1>2, KeyFrameSound

LEMMA CloseTabStep ==
  ASSUME IInv, CloseTab
  PROVE  Sound(ws, ws')
  <1> DEFINE w == Clicked(DocumentClosed(ws, ws.active))
  <1>1. KeyFrame(w) \/ ws' = [w EXCEPT !.halted = "freed"]
    BY DEF CloseTab
  <1>2. ws.active \in Ids(ws)
    BY DEF IInv, Fit, Anchored
  <1>3. Sound(ws, w)
    BY <1>2, DocumentClosedSound, ClickedSound DEF IInv
  <1> HIDE DEF w
  <1>4. CASE KeyFrame(w)
    BY <1>3, <1>4, KeyFrameSound
  <1>5. CASE ws' = [w EXCEPT !.halted = "freed"]
    <2>1. Fit(w)
      BY <1>3 DEF Sound
    <2>2. Sound(w, ws')
      BY <1>5, <2>1, QuieterHalted, QuieterIsSound DEF Fit
    <2> QED
      BY <1>3, <2>2, SoundTwice
  <1> QED
    BY <1>1, <1>4, <1>5

LEMMA CloseDocumentStep ==
  ASSUME IInv, CloseDocument
  PROVE  Sound(ws, ws')
  <1> DEFINE v == Reconcile(ws)
  <1>1. PICK id \in Ids(ws) : CanvasFrame(LAMBDA w : Clicked(DocumentClosed(w, id)))
    BY DEF CloseDocument
  <1> DEFINE u == Clicked(DocumentClosed(v, id))
  <1>2. ws' = IF v.halted = "no" THEN Render(u) ELSE v
    BY <1>1 DEF CanvasFrame
  <1>3. Fit(v) /\ Ids(v) = Ids(ws)
    BY Reconciled DEF IInv
  <1>4. Sound(v, u)
    <2> HIDE DEF v
    <2> QED
      BY <1>3, DocumentClosedSound, ClickedSound
  <1> QED
    BY <1>2, <1>4, CanvasFrameSound DEF IInv

LEMMA SelectTabStep ==
  ASSUME IInv, SelectTab
  PROVE  Sound(ws, ws')
  <1> DEFINE v == Reconcile(ws)
  <1>1. PICK id \in Ids(ws) : CanvasFrame(LAMBDA w : Clicked(Activated(w, id)))
    BY DEF SelectTab
  <1> DEFINE u == Clicked(Activated(v, id))
  <1>2. ws' = IF v.halted = "no" THEN Render(u) ELSE v
    BY <1>1 DEF CanvasFrame
  <1>3. Fit(v) /\ Ids(v) = Ids(ws)
    BY Reconciled DEF IInv
  <1>4. Sound(v, u)
    <2> HIDE DEF v
    <2> QED
      BY <1>3, ActivatedSound, ClickedSound
  <1> QED
    BY <1>2, <1>4, CanvasFrameSound DEF IInv

LEMMA FocusStep ==
  ASSUME IInv, Focus
  PROVE  Sound(ws, ws')
  <1> DEFINE v == Reconcile(ws)
  <1>1. PICK id \in Ids(ws) : \E s \in Doc(ws, id).windows \cup {Root} :
          CanvasFrame(LAMBDA w : Clicked(Focused(w, id, s)))
    BY DEF Focus
  <1>2. PICK s \in Doc(ws, id).windows \cup {Root} :
          CanvasFrame(LAMBDA w : Clicked(Focused(w, id, s)))
    BY <1>1
  <1>3. s \in Seq(NodeId)
    <2>1. ws.documents \in Seq(Document)
      BY DEF IInv, Fit, State
    <2>2. Doc(ws, id) \in Document
      BY <2>1, IndexFacts
    <2>3. Doc(ws, id).windows \in Tree
      BY <2>2 DEF Document
    <2>4. Root \in Seq(NodeId)
      BY DEF Root
    <2> QED
      BY <2>3, <2>4 DEF Tree
  <1> DEFINE u == Clicked(Focused(v, id, s))
  <1>4. ws' = IF v.halted = "no" THEN Render(u) ELSE v
    BY <1>2 DEF CanvasFrame
  <1>5. Fit(v) /\ Ids(v) = Ids(ws)
    BY Reconciled DEF IInv
  <1>6. Sound(v, u)
    <2> HIDE DEF v
    <2> QED
      BY <1>3, <1>5, FocusedSound, ClickedSound
  <1> QED
    BY <1>4, <1>6, CanvasFrameSound DEF IInv

\* What a step leaves: the invariant, and the files.
Leaves == IInv' /\ ws'.disk = ws.disk

LEMMA SoundLeaves ==
  ASSUME IInv, Sound(ws, ws'), asked' = asked
  PROVE  Leaves
  BY DEF IInv, Sound, NameAsked, Leaves

LEMMA RestartStep ==
  ASSUME IInv, Restart
  PROVE  Leaves
  <1> DEFINE w == Restored(ws)
  <1>1. PICK id \in Ids(w) : ws' = Activated(w, id)
    BY DEF Restart
  <1>2. Saved(ws)
    BY DEF IInv, Fit, State, Tabbed, Saved
  <1>3. Fit(w) /\ w.disk = ws.disk /\ w.popup = NoPopup
    BY <1>2, RestoredFacts
  <1> HIDE DEF w
  <1>4. Sound(w, ws')
    BY <1>1, <1>3, ActivatedSound
  <1>5. asked' = FALSE
    BY DEF Restart
  <1> QED
    BY <1>3, <1>4, <1>5, ClosedFacts DEF Sound, IInv, NameAsked, Leaves

\* Fit with a dialog for the name.
LEMMA NamePopup ==
  ASSUME NEW w, Fit(w), NEW id \in Ids(w), NEW after \in BOOLEAN
  PROVE  LET u == [w EXCEPT !.popup = Popup("name", At(id, Root, {})), !.save_after = after]
         IN  Fit(u) /\ u.disk = w.disk /\ u.save_after = after
  <1> DEFINE p == Popup("name", At(id, Root, {}))
             u == [w EXCEPT !.popup = p, !.save_after = after]
  <1>1. id \in Nat
    BY IdsAreNumbers DEF Fit
  <1>2. p \in [kind : PopupKind, at : Place] /\ p.at.document = id
    BY <1>1 DEF Popup, At, PopupKind, Place, Root
  <1> HIDE DEF p
  <1>3. /\ u \in State /\ u.documents = w.documents /\ u.tabs = w.tabs /\ u.disk = w.disk
        /\ u.active = w.active /\ u.focus = w.focus /\ u.popup = p
        /\ u.extract = w.extract /\ u.inline = w.inline /\ u.script = w.script
        /\ u.properties = w.properties /\ u.save_after = after
    BY <1>2 DEF Fit, State
  <1> HIDE DEF u
  <1>4. Ids(u) = Ids(w) /\ \A f : Showing(u, f) <=> Showing(w, f)
    BY <1>3 DEF Ids, Showing
  <1>5. Anchored(u)
    BY <1>2, <1>3, <1>4 DEF Fit, Anchored, AllHeld, Held
  <1>6. Fit(u)
    BY <1>3, <1>4, <1>5 DEF Fit, Tabbed
  <1> QED
    BY <1>3, <1>6 DEF u, p

LEMMA KeyFrameQuiet ==
  ASSUME NEW w, Fit(w), KeyFrame(w)
  PROVE  Quieter(w, ws') /\ Fit(ws')
  <1>1. Quieter(w, Reconcile(w)) /\ Reconcile(w) \in State
    BY ReconcileQuiet DEF Fit, Quieter
  <1>2. ws' \in {Reconcile(w), Render(Reconcile(w))}
    BY DEF KeyFrame, Then
  <1>3. Quieter(w, ws')
    BY <1>1, <1>2, RenderQuiet, QuieterTwice
  <1> QED
    BY <1>3, QuieterIsSound DEF Sound

LEMMA AskNameStep ==
  ASSUME IInv, AskName
  PROVE  Leaves
  <1> DEFINE u == [ws EXCEPT !.popup = Popup("name", At(ws.active, Root, {})),
                             !.save_after = TRUE]
  <1>1. KeyFrame(u) /\ asked' = TRUE
    BY DEF AskName
  <1>2. Fit(u) /\ u.disk = ws.disk
    BY NamePopup DEF IInv, Fit, Anchored
  <1> HIDE DEF u
  <1>3. Quieter(u, ws') /\ Fit(ws')
    BY <1>1, <1>2, KeyFrameQuiet
  <1> QED
    BY <1>1, <1>2, <1>3 DEF IInv, NameAsked, Quieter, Leaves

LEMMA SetNameStep ==
  ASSUME IInv, SetName
  PROVE  Leaves
  <1> DEFINE w == Clicked(ws)
             u == [w EXCEPT !.popup = Popup("name", At(ws.focus.document, Root, {})),
                            !.save_after = FALSE]
  <1>1. KeyFrame(u) /\ asked' = FALSE
    BY DEF SetName
  <1>2. Fit(w) /\ w.disk = ws.disk
    BY ItselfSound, ClickedSound DEF IInv, Sound
  <1>3. ws.focus.document \in Ids(w)
    <2>1. Ids(w) = Ids(ws)
      BY DEF IInv, Fit, State, Clicked, Ids
    <2> QED
      BY <2>1 DEF IInv, Fit, Anchored
  <1> HIDE DEF w
  <1>4. Fit(u) /\ u.disk = w.disk /\ u.save_after = FALSE
    BY <1>2, <1>3, NamePopup
  <1> HIDE DEF u
  <1>5. Quieter(u, ws') /\ Fit(ws')
    BY <1>1, <1>4, KeyFrameQuiet
  <1> QED
    BY <1>1, <1>2, <1>4, <1>5 DEF IInv, NameAsked, Quieter, Leaves

\* Document::save changes the path of the document when it had none, and a file.
LEMMA SavesFacts ==
  ASSUME NEW w, Fit(w), NEW u \in Saves(w)
  PROVE  /\ Fit(u) /\ Ids(u) = Ids(w) /\ u.popup = w.popup
         /\ u.save_after = w.save_after /\ u.halted = w.halted
  <1> DEFINE d == Doc(w, w.active)
  <1>1. CASE u = w
    BY <1>1
  <1>2. CASE u # w
    <2>1. PICK f \in IF d.path = NoFile THEN File ELSE {d.path} :
            u = [WithDoc(w, [d EXCEPT !.path = f]) EXCEPT
                  !.disk[f] = [named |-> d.named, tree |-> d.tree]]
      BY <1>2 DEF Saves
    <2>2. /\ w \in State /\ w.active \in Ids(w) /\ w.documents \in Seq(Document)
          /\ w.disk \in [File -> Content \cup {Missing}]
      BY DEF Fit, Anchored, State
    <2>3. d \in Document /\ d.id = w.active
      BY <2>2, IndexFacts
    <2>4. f \in File
      BY <2>1, <2>3 DEF Document
    <2>5. d.path = NoFile \/ d.path = f
      BY <2>1
    <2> DEFINE e == [d EXCEPT !.path = f]
               x == WithDoc(w, e)
               c == [named |-> d.named, tree |-> d.tree]
    <2>6. c \in Content
      BY <2>3 DEF Document, Content
    <2>7. u = [x EXCEPT !.disk[f] = c]
      BY <2>1
    <2> HIDE DEF c
    <2>8. d.path = Doc(w, w.active).path
      OBVIOUS
    <2> HIDE DEF d
    <2>9. e \in Document /\ e.id = w.active /\ e.path = f
      BY <2>3, <2>4 DEF Document
    <2> HIDE DEF e
    <2>10. /\ x \in State /\ x = [w EXCEPT !.documents = x.documents] /\ Ids(x) = Ids(w)
           /\ \A g : Showing(w, g) => Showing(x, g) \/ g = d.path
           /\ Showing(x, f)
      BY <2>2, <2>8, <2>9, WithDocFacts
    <2> HIDE DEF x
    <2>11. /\ x.active = w.active /\ x.focus = w.focus /\ x.popup = w.popup
           /\ x.extract = w.extract /\ x.inline = w.inline /\ x.script = w.script
           /\ x.properties = w.properties /\ x.tabs = w.tabs /\ x.disk = w.disk
           /\ x.save_after = w.save_after /\ x.halted = w.halted
      BY <2>2, <2>10 DEF State
    <2> DEFINE k == [w.disk EXCEPT ![f] = c]
    <2>12. k \in [File -> Content \cup {Missing}] /\ u = [x EXCEPT !.disk = k]
      BY <2>2, <2>4, <2>6, <2>7, <2>11
    <2> HIDE DEF k
    <2>13. /\ u \in State /\ u.documents = x.documents
           /\ u.active = w.active /\ u.focus = w.focus /\ u.popup = w.popup
           /\ u.extract = w.extract /\ u.inline = w.inline /\ u.script = w.script
           /\ u.properties = w.properties /\ u.tabs = w.tabs
           /\ u.save_after = w.save_after /\ u.halted = w.halted
      BY <2>10, <2>11, <2>12 DEF State
    <2>14. Ids(u) = Ids(w) /\ \A g : Showing(u, g) <=> Showing(x, g)
      <3>1. u.documents = x.documents
        BY <2>13
      <3>2. Ids(u) = Ids(x) /\ \A g : Showing(u, g) <=> Showing(x, g)
        BY <3>1 DEF Ids, Showing
      <3> QED
        BY <2>10, <3>2
    <2>15. Anchored(u)
      <3>1. Anchored(w)
        BY DEF Fit
      <3> QED
        BY <2>13, <2>14, <3>1 DEF Anchored, AllHeld, Held
    <2>16. \A g \in Range(u.tabs) : Showing(u, g)
      <3>1. \A g \in Range(w.tabs) : g \in File /\ Showing(w, g)
        BY DEF Fit, Tabbed, State, Range
      <3> QED
        BY <2>5, <2>10, <2>13, <2>14, <3>1, WorkspaceAssumption
    <2>17. Distinct(u.tabs)
      BY <2>13 DEF Fit, Tabbed
    <2> QED
      BY <2>13, <2>14, <2>15, <2>16, <2>17 DEF Fit, Tabbed
  <1> QED
    BY <1>1, <1>2

LEMMA SaveStep ==
  ASSUME IInv, Save
  PROVE  IInv'
  <1>1. PICK w \in Saves(ws) : KeyFrame(w)
    BY DEF Save
  <1>2. Fit(w) /\ w.popup = ws.popup /\ w.save_after = ws.save_after /\ w.halted = ws.halted
    BY SavesFacts DEF IInv
  <1>3. Quieter(w, ws') /\ Fit(ws') /\ Sound(w, ws')
    BY <1>1, <1>2, KeyFrameQuiet, QuieterIsSound
  <1>4. asked' = asked
    BY DEF Save
  <1> QED
    BY <1>2, <1>3, <1>4 DEF IInv, NameAsked, Sound

LEMMA ActiveFit ==
  ASSUME NEW w, Fit(w), NEW id \in Ids(w)
  PROVE  LET v == [w EXCEPT !.active = id] IN Fit(v) /\ v.popup = w.popup /\ v.disk = w.disk
  <1> DEFINE v == [w EXCEPT !.active = id]
  <1>1. id \in Nat
    BY IdsAreNumbers DEF Fit
  <1>2. /\ v \in State /\ v.documents = w.documents /\ v.tabs = w.tabs /\ v.disk = w.disk
        /\ v.active = id /\ v.focus = w.focus /\ v.popup = w.popup
        /\ v.extract = w.extract /\ v.inline = w.inline /\ v.script = w.script
        /\ v.properties = w.properties
    BY <1>1 DEF Fit, State
  <1> HIDE DEF v
  <1>3. Ids(v) = Ids(w) /\ \A f : Showing(v, f) <=> Showing(w, f)
    BY <1>2 DEF Ids, Showing
  <1>4. Anchored(v)
    BY <1>2, <1>3 DEF Fit, Anchored, AllHeld, Held
  <1>5. Fit(v)
    BY <1>2, <1>3, <1>4 DEF Fit, Tabbed
  <1> QED
    BY <1>2, <1>5 DEF v

LEMMA ApplyNameStep ==
  ASSUME IInv, ApplyName
  PROVE  IInv' /\ (ws'.disk # ws.disk => asked)
  <1> DEFINE v     == Reconcile(ws)
             id    == ws.popup.at.document
             d     == Doc(v, id)
             e     == [d EXCEPT !.named = TRUE]
             x     == WithDoc(v, e)
             named == [x EXCEPT !.popup = NoPopup]
             late  == [named EXCEPT !.save_after = FALSE, !.active = id]
  <1>1. PICK u \in IF ws.save_after THEN Saves(late) ELSE {named} :
          CanvasFrame(LAMBDA w : [u EXCEPT !.active = ws.active])
    BY DEF ApplyName
  <1> DEFINE y == [u EXCEPT !.active = ws.active]
  <1>2. ws' = IF v.halted = "no" THEN Render(y) ELSE v
    BY <1>1 DEF CanvasFrame
  <1>3. ws.halted = "no" /\ ws.popup.kind = "name" /\ asked' = FALSE
    BY DEF ApplyName, Running
  <1>4. Fit(ws) /\ ws.active \in Ids(ws) /\ (ws.save_after => asked)
    BY <1>3 DEF IInv, Fit, Anchored, NameAsked
  <1>5. id \in Ids(ws)
    BY <1>3, <1>4, ClosedFacts DEF Fit, Anchored, AllHeld
  <1>6. Fit(v) /\ v \in State /\ Ids(v) = Ids(ws) /\ Sound(ws, v)
    BY <1>4, Reconciled
  <1> HIDE DEF v, id
  <1>7. Fit(named) /\ Ids(named) = Ids(ws) /\ named.popup = NoPopup /\ named.disk = v.disk
    <2>1. v.documents \in Seq(Document)
      BY <1>6 DEF State
    <2>2. d \in Document /\ d.id = id
      BY <1>5, <1>6, <2>1, IndexFacts
    <2> HIDE DEF d
    <2>3. e \in Document /\ e.id = id /\ e.path = d.path
      BY <2>2 DEF Document
    <2> HIDE DEF e
    <2>4. d.path = Doc(v, id).path
      BY DEF d
    <2>5. Sound(v, x) /\ Ids(x) = Ids(v)
      BY <1>5, <1>6, <2>3, <2>4, WithDocSound, WithDocFacts
    <2> HIDE DEF x
    <2>6. /\ Sound(x, named) /\ named.popup = NoPopup /\ named.documents = x.documents
      BY <2>5, ClosedFacts, PopupSound DEF Sound
    <2> HIDE DEF named
    <2>7. Ids(named) = Ids(x)
      BY <2>6 DEF Ids
    <2> QED
      BY <1>6, <2>5, <2>6, <2>7 DEF Sound
  <1> HIDE DEF named
  <1>8. /\ Fit(u) /\ Ids(u) = Ids(ws) /\ u.popup = NoPopup
        /\ ~ws.save_after => u.disk = v.disk
    <2>1. CASE ~ws.save_after
      BY <1>1, <1>7, <2>1
    <2>2. CASE ws.save_after
      <3> DEFINE a == [named EXCEPT !.save_after = FALSE]
      <3>1. Fit(a) /\ Ids(a) = Ids(ws) /\ a.popup = NoPopup
        <4>1. named \in State /\ Anchored(named) /\ Tabbed(named)
          BY <1>7 DEF Fit
        <4>2. /\ a \in State /\ a.documents = named.documents /\ a.tabs = named.tabs
              /\ a.active = named.active /\ a.focus = named.focus /\ a.popup = named.popup
              /\ a.extract = named.extract /\ a.inline = named.inline
              /\ a.script = named.script /\ a.properties = named.properties
          BY <4>1 DEF State
        <4> HIDE DEF a
        <4>3. Ids(a) = Ids(named) /\ \A f : Showing(a, f) <=> Showing(named, f)
          BY <4>2 DEF Ids, Showing
        <4>4. Anchored(a)
          BY <4>1, <4>2, <4>3 DEF Anchored, AllHeld, Held
        <4> QED
          BY <1>7, <4>1, <4>2, <4>3, <4>4 DEF Fit, Tabbed
      <3>2. late = [a EXCEPT !.active = id]
        OBVIOUS
      <3> HIDE DEF a, late
      <3>3. Fit(late) /\ late.popup = NoPopup
        BY <1>5, <3>1, <3>2, ActiveFit
      <3>4. Ids(late) = Ids(a)
        BY <3>1, <3>2 DEF Ids, Fit, State
      <3> QED
        BY <1>1, <2>2, <3>1, <3>3, <3>4, SavesFacts
    <2> QED
      BY <2>1, <2>2
  <1>9. Fit(y) /\ y.popup = NoPopup /\ y.disk = u.disk
    BY <1>4, <1>8, ActiveFit
  <1> HIDE DEF y
  <1>10. CASE v.halted = "no"
    <2>1. Quieter(y, ws')
      BY <1>2, <1>9, <1>10, RenderQuiet DEF Fit
    <2>2. Fit(ws') /\ ws'.popup = NoPopup /\ ws'.disk = y.disk
      BY <1>9, <2>1, QuieterIsSound DEF Sound, Quieter
    <2> QED
      BY <1>3, <1>4, <1>6, <1>8, <1>9, <2>2, ClosedFacts DEF IInv, NameAsked, Sound
  <1>11. CASE v.halted # "no"
    BY <1>2, <1>3, <1>6, <1>11 DEF IInv, NameAsked, Sound
  <1> QED
    BY <1>10, <1>11

LEMMA CancelNameStep ==
  ASSUME IInv, CancelName
  PROVE  Leaves
  <1> DEFINE v == Reconcile(ws)
             u == [v EXCEPT !.popup = NoPopup]
  <1>1. ws' = IF v.halted = "no" THEN Render(u) ELSE v
    BY DEF CancelName, CanvasFrame
  <1>2. Fit(v) /\ Sound(ws, v)
    BY Reconciled DEF IInv
  <1>3. asked' = FALSE
    BY DEF CancelName
  <1> HIDE DEF v
  <1>4. Sound(v, u) /\ u.popup = NoPopup
    BY <1>2, ClosedFacts, PopupSound
  <1> HIDE DEF u
  <1>5. CASE v.halted = "no"
    <2>1. Quieter(u, ws')
      BY <1>1, <1>4, <1>5, RenderQuiet DEF Fit, Sound
    <2>2. Fit(ws') /\ ws'.popup = NoPopup /\ ws'.disk = u.disk
      BY <1>4, <2>1, QuieterIsSound DEF Sound, Quieter
    <2> QED
      BY <1>2, <1>3, <1>4, <2>2, ClosedFacts DEF IInv, NameAsked, Sound, Leaves
  <1>6. CASE v.halted # "no"
    BY <1>1, <1>2, <1>3, <1>6 DEF IInv, NameAsked, Sound, Leaves
  <1> QED
    BY <1>5, <1>6

-----------------------------------------------------------------------------
(* The edits.                                                              *)

LEMMA CanvasFacts ==
  ASSUME NEW c \in Canvases
  PROVE  c[1] \in Ids(ws) /\ c[2] \in Seq(NodeId)
  <1>1. c[1] \in Ids(ws) /\ c[2] \in {Root} \cup UNION Trees
    BY DEF Canvases
  <1>2. UNION Trees \subseteq Seq(NodeId) /\ Root \in Seq(NodeId)
    BY WorkspaceAssumption DEF Root
  <1> QED
    BY <1>1, <1>2

LEMMA DeleteKeyStep ==
  ASSUME IInv, DeleteKey
  PROVE  Sound(ws, ws')
  <1> DEFINE v == Reconcile(ws)
  <1>1. PICK c \in Canvases : \E n \in Sheet(Doc(ws, c[1]).tree, c[2]) :
          LET tree == Without(Doc(ws, c[1]).tree, Append(c[2], n))
          IN  /\ MayEdit(tree)
              /\ CanvasFrame(LAMBDA w : WithDoc(w, Edited(Doc(ws, c[1]), tree)))
    BY DEF DeleteKey
  <1>2. PICK n \in Sheet(Doc(ws, c[1]).tree, c[2]) :
          LET tree == Without(Doc(ws, c[1]).tree, Append(c[2], n))
          IN  /\ MayEdit(tree)
              /\ CanvasFrame(LAMBDA w : WithDoc(w, Edited(Doc(ws, c[1]), tree)))
    BY <1>1
  <1> DEFINE tree == Without(Doc(ws, c[1]).tree, Append(c[2], n))
             u == WithDoc(v, Edited(Doc(ws, c[1]), tree))
  <1>3. ws' = IF v.halted = "no" THEN Render(u) ELSE v
    BY <1>2 DEF CanvasFrame
  <1>4. tree \in Tree /\ c[1] \in Ids(ws)
    BY <1>2, EditsAreTrees, CanvasFacts
  <1>5. Fit(v) /\ Ids(v) = Ids(ws) /\ Doc(v, c[1]) = Doc(ws, c[1])
    BY Reconciled DEF IInv
  <1>6. Sound(v, u)
    <2> HIDE DEF v
    <2> QED
      BY <1>4, <1>5, ChangedSound
  <1> QED
    BY <1>3, <1>6, CanvasFrameSound DEF IInv

LEMMA UndoStep ==
  ASSUME IInv, Undo
  PROVE  Sound(ws, ws')
  <1>1. PICK id \in {ws.active, ws.focus.document} :
          Doc(ws, id).undo # <<>> /\ KeyFrame(WithDoc(ws, Undone(Doc(ws, id))))
    BY DEF Undo
  <1>2. Fit(ws) /\ id \in Ids(ws) /\ ws.documents \in Seq(Document)
    BY DEF IInv, Fit, Anchored, State
  <1>3. Doc(ws, id) \in Document /\ Doc(ws, id).id = id
    BY <1>2, IndexFacts
  <1>4. Sound(ws, WithDoc(ws, Undone(Doc(ws, id))))
    BY <1>1, <1>2, <1>3, UndoneTyped, WithDocSound
  <1> QED
    BY <1>1, <1>4, KeyFrameSound

LEMMA RedoStep ==
  ASSUME IInv, Redo
  PROVE  Sound(ws, ws')
  <1>1. PICK id \in {ws.active, ws.focus.document} :
          Doc(ws, id).redo # <<>> /\ KeyFrame(WithDoc(ws, Redone(Doc(ws, id))))
    BY DEF Redo
  <1>2. Fit(ws) /\ id \in Ids(ws) /\ ws.documents \in Seq(Document)
    BY DEF IInv, Fit, Anchored, State
  <1>3. Doc(ws, id) \in Document /\ Doc(ws, id).id = id
    BY <1>2, IndexFacts
  <1>4. Sound(ws, WithDoc(ws, Redone(Doc(ws, id))))
    BY <1>1, <1>2, <1>3, RedoneTyped, WithDocSound
  <1> QED
    BY <1>1, <1>4, KeyFrameSound

LEMMA OpenSubWindowStep ==
  ASSUME IInv, OpenSubWindow
  PROVE  Sound(ws, ws')
  <1> DEFINE v == Reconcile(ws)
  <1>1. PICK c \in Canvases : \E n \in Sheet(Doc(ws, c[1]).tree, c[2]) :
          CanvasFrame(LAMBDA w : Clicked(WithDoc(w,
            [Doc(w, c[1]) EXCEPT !.windows = @ \cup {Append(c[2], n)}])))
    BY DEF OpenSubWindow
  <1>2. PICK n \in NodeId :
          CanvasFrame(LAMBDA w : Clicked(WithDoc(w,
            [Doc(w, c[1]) EXCEPT !.windows = @ \cup {Append(c[2], n)}])))
    BY <1>1 DEF Sheet
  <1> DEFINE windows == Doc(v, c[1]).windows \cup {Append(c[2], n)}
             x == WithDoc(v, [Doc(v, c[1]) EXCEPT !.windows = windows])
             u == Clicked(x)
  <1>3. ws' = IF v.halted = "no" THEN Render(u) ELSE v
    BY <1>2 DEF CanvasFrame
  <1>4. c[1] \in Ids(ws) /\ c[2] \in Seq(NodeId)
    BY CanvasFacts
  <1>5. Fit(v) /\ Ids(v) = Ids(ws)
    BY Reconciled DEF IInv
  <1>6. Sound(v, u)
    <2> HIDE DEF v
    <2>1. v.documents \in Seq(Document)
      BY <1>5 DEF Fit, State
    <2>2. Doc(v, c[1]) \in Document
      BY <1>4, <1>5, <2>1, IndexFacts
    <2>3. windows \in Tree
      <3>1. Doc(v, c[1]).windows \in Tree
        BY <2>2 DEF Document
      <3> QED
        BY <1>4, <3>1 DEF Tree
    <2> HIDE DEF windows
    <2>4. Sound(v, x)
      BY <1>4, <1>5, <2>3, WindowsSound
    <2> QED
      BY <2>4, ClickedSound
  <1> QED
    BY <1>3, <1>6, CanvasFrameSound DEF IInv

LEMMA CloseSubWindowStep ==
  ASSUME IInv, CloseSubWindow
  PROVE  Sound(ws, ws')
  <1> DEFINE v == Reconcile(ws)
  <1>1. PICK id \in Ids(ws) : \E s \in Doc(ws, id).windows :
          CanvasFrame(LAMBDA w : Clicked(WithDoc(w, [Doc(w, id) EXCEPT !.windows = @ \ {s}])))
    BY DEF CloseSubWindow
  <1>2. PICK s \in Doc(ws, id).windows :
          CanvasFrame(LAMBDA w : Clicked(WithDoc(w, [Doc(w, id) EXCEPT !.windows = @ \ {s}])))
    BY <1>1
  <1> DEFINE windows == Doc(v, id).windows \ {s}
             x == WithDoc(v, [Doc(v, id) EXCEPT !.windows = windows])
             u == Clicked(x)
  <1>3. ws' = IF v.halted = "no" THEN Render(u) ELSE v
    BY <1>2 DEF CanvasFrame
  <1>4. Fit(v) /\ Ids(v) = Ids(ws)
    BY Reconciled DEF IInv
  <1>5. Sound(v, u)
    <2> HIDE DEF v
    <2>1. v.documents \in Seq(Document)
      BY <1>4 DEF Fit, State
    <2>2. Doc(v, id) \in Document
      BY <1>4, <2>1, IndexFacts
    <2>3. windows \in Tree
      <3>1. Doc(v, id).windows \in Tree
        BY <2>2 DEF Document
      <3> QED
        BY <3>1 DEF Tree
    <2> HIDE DEF windows
    <2>4. Sound(v, x)
      BY <1>4, <2>3, WindowsSound
    <2> QED
      BY <2>4, ClickedSound
  <1> QED
    BY <1>3, <1>5, CanvasFrameSound DEF IInv

\* A place on a canvas of a document that is open.
LEMMA PlaceFacts ==
  ASSUME NEW id, NEW s \in Seq(NodeId), NEW nodes \in SUBSET NodeId, NEW w \in State, id \in Ids(w)
  PROVE  At(id, s, nodes) \in Place /\ At(id, s, nodes).document = id
  BY IdsAreNumbers DEF At, Place

LEMMA OpenInlineStep ==
  ASSUME IInv, OpenInlineValueEditor
  PROVE  Sound(ws, ws')
  <1> DEFINE v == Reconcile(ws)
  <1>1. PICK c \in Canvases : \E n \in Sheet(Doc(ws, c[1]).tree, c[2]) :
          CanvasFrame(LAMBDA w : [w EXCEPT !.inline = At(c[1], c[2], {n})])
    BY DEF OpenInlineValueEditor
  <1>2. PICK n \in NodeId : CanvasFrame(LAMBDA w : [w EXCEPT !.inline = At(c[1], c[2], {n})])
    BY <1>1 DEF Sheet
  <1> DEFINE at == At(c[1], c[2], {n})
             u  == [v EXCEPT !.inline = at]
  <1>3. ws' = IF v.halted = "no" THEN Render(u) ELSE v
    BY <1>2 DEF CanvasFrame
  <1>4. Fit(v) /\ v \in State /\ Ids(v) = Ids(ws)
    BY Reconciled DEF IInv
  <1> HIDE DEF v
  <1>5. at \in Place /\ at.document \in Ids(v)
    BY <1>4, CanvasFacts, PlaceFacts
  <1> HIDE DEF at
  <1>6. Held(v, at)
    BY <1>5 DEF Held
  <1>7. Sound(v, u)
    BY <1>4, <1>5, <1>6, SmallWindowSound
  <1> QED
    BY <1>3, <1>7, CanvasFrameSound DEF IInv, v

\* The menus of the canvas and of a node.
LEMMA MenuSound ==
  ASSUME Fit(ws), NEW c \in Canvases, NEW nodes \in SUBSET NodeId, NEW kind \in {"add", "node"},
         LET v == Reconcile(ws)
             u == [Clicked(v) EXCEPT !.popup = Popup(kind, At(c[1], c[2], nodes))]
         IN  ws' = IF v.halted = "no" THEN Render(u) ELSE v
  PROVE  Sound(ws, ws')
  <1> DEFINE v == Reconcile(ws)
             x == Clicked(v)
             p == Popup(kind, At(c[1], c[2], nodes))
             u == [x EXCEPT !.popup = p]
  <1>1. ws' = IF v.halted = "no" THEN Render(u) ELSE v
    OBVIOUS
  <1>2. Fit(v) /\ v \in State /\ Ids(v) = Ids(ws)
    BY Reconciled
  <1> HIDE DEF v
  <1>3. Sound(v, x)
    BY <1>2, ItselfSound, ClickedSound
  <1>4. Ids(x) = Ids(v)
    BY <1>2 DEF Clicked, State, Ids
  <1> HIDE DEF x
  <1>5. At(c[1], c[2], nodes) \in Place /\ At(c[1], c[2], nodes).document \in Ids(v)
    BY <1>2, CanvasFacts, PlaceFacts
  <1>6. /\ p \in [kind : PopupKind, at : Place] /\ p.kind # "name"
        /\ p.at.document \in Ids(x)
    BY <1>4, <1>5 DEF Popup, PopupKind
  <1> HIDE DEF p
  <1>7. Sound(x, u)
    BY <1>3, <1>6, PopupSound DEF Sound
  <1>8. Sound(v, u)
    BY <1>3, <1>7, SoundTwice
  <1> QED
    BY <1>1, <1>8, CanvasFrameSound DEF v

LEMMA OpenMenusStep ==
  ASSUME IInv, OpenContextMenu \/ OpenNodeMenu
  PROVE  Sound(ws, ws')
  <1>1. CASE OpenContextMenu
    <2>1. PICK c \in Canvases :
            CanvasFrame(LAMBDA w : [Clicked(w) EXCEPT !.popup = Popup("add", At(c[1], c[2], {}))])
      BY <1>1 DEF OpenContextMenu
    <2>2. {} \in SUBSET NodeId /\ Fit(ws)
      BY DEF IInv
    <2> QED
      BY <2>1, <2>2, MenuSound DEF CanvasFrame
  <1>2. CASE OpenNodeMenu
    <2>1. PICK c \in Canvases : \E n \in Sheet(Doc(ws, c[1]).tree, c[2]) :
            CanvasFrame(LAMBDA w : [Clicked(w) EXCEPT !.popup = Popup("node", At(c[1], c[2], {n}))])
      BY <1>2 DEF OpenNodeMenu
    <2>2. PICK n \in NodeId :
            CanvasFrame(LAMBDA w : [Clicked(w) EXCEPT !.popup = Popup("node", At(c[1], c[2], {n}))])
      BY <2>1 DEF Sheet
    <2>3. {n} \in SUBSET NodeId /\ Fit(ws)
      BY DEF IInv
    <2> QED
      BY <2>2, <2>3, MenuSound DEF CanvasFrame
  <1> QED
    BY <1>1, <1>2

LEMMA CancelPopupStep ==
  ASSUME IInv, CancelPopup
  PROVE  Sound(ws, ws')
  <1> DEFINE v == Reconcile(ws)
             x == Clicked(v)
             y == [x EXCEPT !.popup = NoPopup]
             at == IF v.popup.kind = "extract" THEN Closed ELSE x.extract
             u == [x EXCEPT !.popup = NoPopup, !.extract = at]
  <1>1. ws' = IF v.halted = "no" THEN Render(u) ELSE v
    BY DEF CancelPopup, CanvasFrame
  <1>2. Fit(v)
    BY Reconciled DEF IInv
  <1> HIDE DEF v
  <1>3. Sound(v, x) /\ Fit(x)
    BY <1>2, ItselfSound, ClickedSound DEF Sound
  <1> HIDE DEF x
  <1>4. Sound(x, y) /\ Fit(y) /\ y.extract = x.extract
    BY <1>3, ClosedFacts, PopupSound DEF Sound
  <1>5. u = [y EXCEPT !.extract = at]
    OBVIOUS
  <1>6. at \in Place /\ Held(y, at)
    <2> HIDE DEF y
    <2> QED
      BY <1>4, ClosedFacts DEF Fit, Anchored, AllHeld, Held, State
  <1> HIDE DEF y, at, u
  <1>7. Sound(y, u)
    BY <1>4, <1>5, <1>6, SmallWindowSound
  <1>8. Sound(v, u)
    BY <1>3, <1>4, <1>7, SoundTwice
  <1> QED
    BY <1>1, <1>8, CanvasFrameSound DEF IInv, v

-----------------------------------------------------------------------------
(* The menus and dialogs.                                                  *)

LEMMA AddComponentStep ==
  ASSUME IInv, AddComponent
  PROVE  Sound(ws, ws')
  <1> DEFINE v  == Reconcile(ws)
             x  == [v EXCEPT !.popup = NoPopup]
             at == ws.popup.at
             d  == Doc(ws, at.document)
             tree(n) == d.tree \cup {Append(at.scope, n)}
  <1>1. PICK n \in NodeId :
          /\ ws.popup.kind = "add" /\ MayEdit(tree(n))
          /\ Answer("add", LAMBDA w :
               IF Exists(d.tree, at.scope) THEN WithDoc(w, Edited(d, tree(n))) ELSE w)
    BY DEF AddComponent
  <1> DEFINE u == IF Exists(d.tree, at.scope) THEN WithDoc(x, Edited(d, tree(n))) ELSE x
  <1>2. ws' = IF v.halted = "no" THEN Render(IF v.popup.kind = "add" THEN u ELSE v) ELSE v
    BY <1>1 DEF Answer, CanvasFrame
  <1>3. ws.popup.kind # "none" /\ tree(n) \in Tree
    BY <1>1, EditsAreTrees
  <1>4. Fit(x) /\ at.document \in Ids(x) /\ Doc(x, at.document) = d
    BY <1>3, Answered DEF IInv
  <1>5. Sound(x, u)
    <2> HIDE DEF x, at, tree, d
    <2>1. Sound(x, WithDoc(x, Edited(d, tree(n))))
      BY <1>3, <1>4, ChangedSound
    <2> QED
      BY <1>4, <2>1, ItselfSound
  <1> QED
    BY <1>2, <1>3, <1>5, AnswerSound DEF IInv

LEMMA EditScriptStep ==
  ASSUME IInv, EditScript
  PROVE  Sound(ws, ws')
  <1> DEFINE v  == Reconcile(ws)
             x  == [v EXCEPT !.popup = NoPopup]
             at == ws.popup.at
             u  == [x EXCEPT !.script = at]
  <1>1. ws.popup.kind = "node" /\ Answer("node", LAMBDA w : [w EXCEPT !.script = at])
    BY DEF EditScript, NodeMenu
  <1>2. ws' = IF v.halted = "no" THEN Render(IF v.popup.kind = "node" THEN u ELSE v) ELSE v
    BY <1>1 DEF Answer, CanvasFrame
  <1>3. ws.popup.kind # "none"
    BY <1>1
  <1>4. Fit(x) /\ at.document \in Ids(x) /\ at \in Place
    BY <1>3, Answered DEF IInv
  <1>5. Sound(x, u)
    BY <1>4, SmallWindowSound DEF Held
  <1> QED
    BY <1>2, <1>3, <1>5, AnswerSound DEF IInv

LEMMA OpenPropertiesStep ==
  ASSUME IInv, OpenProperties
  PROVE  Sound(ws, ws')
  <1> DEFINE v  == Reconcile(ws)
             x  == [v EXCEPT !.popup = NoPopup]
             at == ws.popup.at
             u  == [x EXCEPT !.properties = at]
  <1>1. ws.popup.kind = "node" /\ Answer("node", LAMBDA w : [w EXCEPT !.properties = at])
    BY DEF OpenProperties, NodeMenu
  <1>2. ws' = IF v.halted = "no" THEN Render(IF v.popup.kind = "node" THEN u ELSE v) ELSE v
    BY <1>1 DEF Answer, CanvasFrame
  <1>3. ws.popup.kind # "none"
    BY <1>1
  <1>4. Fit(x) /\ at.document \in Ids(x) /\ at \in Place
    BY <1>3, Answered DEF IInv
  <1>5. Sound(x, u)
    BY <1>4, SmallWindowSound DEF Held
  <1> QED
    BY <1>2, <1>3, <1>5, AnswerSound DEF IInv

LEMMA OpenColorStep ==
  ASSUME IInv, OpenColor
  PROVE  Sound(ws, ws')
  <1> DEFINE v  == Reconcile(ws)
             x  == [v EXCEPT !.popup = NoPopup]
             p  == Popup("color", ws.popup.at)
             u  == [x EXCEPT !.popup = p]
  <1>1. ws.popup.kind = "node"
        /\ Answer("node", LAMBDA w : [w EXCEPT !.popup = Popup("color", ws.popup.at)])
    BY DEF OpenColor, NodeMenu
  <1>2. ws' = IF v.halted = "no" THEN Render(IF v.popup.kind = "node" THEN u ELSE v) ELSE v
    BY <1>1 DEF Answer, CanvasFrame
  <1>3. ws.popup.kind # "none"
    BY <1>1
  <1>4. Fit(x) /\ ws.popup.at.document \in Ids(x) /\ ws.popup.at \in Place
    BY <1>3, Answered DEF IInv
  <1>5. /\ p \in [kind : PopupKind, at : Place] /\ p.kind # "name"
        /\ p.at.document \in Ids(x)
    BY <1>4 DEF Popup, PopupKind
  <1>6. Sound(x, u)
    <2> HIDE DEF x, p
    <2> QED
      BY <1>4, <1>5, PopupSound
  <1> QED
    BY <1>2, <1>3, <1>6, AnswerSound DEF IInv

LEMMA OpenExtractStep ==
  ASSUME IInv, OpenExtract
  PROVE  Sound(ws, ws')
  <1> DEFINE v  == Reconcile(ws)
             x  == [v EXCEPT !.popup = NoPopup]
             at(more) == [ws.popup.at EXCEPT !.nodes = more]
  <1>1. PICK more \in SUBSET Sheet(Doc(ws, ws.popup.at.document).tree, ws.popup.at.scope) :
          NodeMenu(LAMBDA w : [w EXCEPT !.popup = Popup("extract", at(more)), !.extract = at(more)])
    BY DEF OpenExtract
  <1> DEFINE p == Popup("extract", at(more))
             y == [x EXCEPT !.popup = p]
             u == [x EXCEPT !.popup = p, !.extract = at(more)]
  <1>2. /\ ws.popup.kind = "node" /\ more \in SUBSET NodeId
        /\ ws' = IF v.halted = "no" THEN Render(IF v.popup.kind = "node" THEN u ELSE v) ELSE v
    BY <1>1 DEF NodeMenu, Answer, CanvasFrame, Sheet
  <1>3. ws.popup.kind # "none"
    BY <1>2
  <1>4. Fit(x) /\ ws.popup.at.document \in Ids(x) /\ ws.popup.at \in Place
    BY <1>3, Answered DEF IInv
  <1>5. at(more) \in Place /\ at(more).document \in Ids(x)
    BY <1>2, <1>4 DEF Place
  <1> HIDE DEF at
  <1>6. /\ p \in [kind : PopupKind, at : Place] /\ p.kind # "name"
        /\ p.at.document \in Ids(x)
    BY <1>5 DEF Popup, PopupKind
  <1> HIDE DEF x, p
  <1>7. Sound(x, y) /\ y.documents = x.documents
    BY <1>4, <1>6, PopupSound
  <1>8. u = [y EXCEPT !.extract = at(more)]
    OBVIOUS
  <1> HIDE DEF y, u
  <1>9. Held(y, at(more))
    BY <1>5, <1>7 DEF Held, Ids
  <1>10. Sound(y, u)
    BY <1>5, <1>7, <1>8, <1>9, SmallWindowSound DEF Sound
  <1>11. Sound(x, u)
    BY <1>7, <1>10, SoundTwice
  <1> QED
    BY <1>2, <1>3, <1>11, AnswerSound DEF IInv, x

LEMMA DeleteEntryStep ==
  ASSUME IInv, DeleteEntry
  PROVE  Sound(ws, ws')
  <1> DEFINE v  == Reconcile(ws)
             x  == [v EXCEPT !.popup = NoPopup]
             at == ws.popup.at
             d  == Doc(ws, at.document)
             tree(n) == Without(d.tree, Append(at.scope, n))
  <1>1. PICK n \in at.nodes :
          MayEdit(tree(n)) /\ NodeMenu(LAMBDA w : WithDoc(w, Edited(d, tree(n))))
    BY DEF DeleteEntry
  <1> DEFINE u == WithDoc(x, Edited(d, tree(n)))
  <1>2. ws.popup.kind = "node" /\ ws' = IF v.halted = "no" THEN Render(IF v.popup.kind = "node" THEN u ELSE v) ELSE v
    BY <1>1 DEF NodeMenu, Answer, CanvasFrame
  <1>3. ws.popup.kind # "none" /\ tree(n) \in Tree
    BY <1>1, <1>2, EditsAreTrees
  <1>4. Fit(x) /\ at.document \in Ids(x) /\ Doc(x, at.document) = d
    BY <1>3, Answered DEF IInv
  <1>5. Sound(x, u)
    <2> HIDE DEF x, at, tree, d
    <2> QED
      BY <1>3, <1>4, ChangedSound
  <1> QED
    BY <1>2, <1>3, <1>5, AnswerSound DEF IInv

LEMMA OpenInEditorStep ==
  ASSUME IInv, OpenInEditor
  PROVE  Sound(ws, ws')
  <1> DEFINE v  == Reconcile(ws)
             x  == [v EXCEPT !.popup = NoPopup]
             at == ws.popup.at
             d  == Doc(ws, at.document)
  <1>1. PICK n \in at.nodes :
          NodeMenu(LAMBDA w : WithDoc(w, [d EXCEPT !.windows = @ \cup {Append(at.scope, n)}]))
    BY DEF OpenInEditor
  <1> DEFINE windows == d.windows \cup {Append(at.scope, n)}
             u == WithDoc(x, [d EXCEPT !.windows = windows])
  <1>2. ws.popup.kind = "node" /\ ws' = IF v.halted = "no" THEN Render(IF v.popup.kind = "node" THEN u ELSE v) ELSE v
    BY <1>1 DEF NodeMenu, Answer, CanvasFrame
  <1>3. ws.popup.kind # "none"
    BY <1>2
  <1>4. Fit(x) /\ at.document \in Ids(x) /\ Doc(x, at.document) = d /\ at \in Place
    BY <1>3, Answered DEF IInv
  <1>5. Sound(x, u)
    <2> HIDE DEF x, d, at
    <2>1. x.documents \in Seq(Document)
      BY <1>4 DEF Fit, State
    <2>2. d \in Document
      BY <1>4, <2>1, IndexFacts
    <2>3. at.scope \in Seq(NodeId) /\ n \in NodeId
      BY <1>1, <1>4 DEF Place
    <2>4. windows \in Tree
      <3>1. d.windows \in Tree
        BY <2>2 DEF Document
      <3> QED
        BY <2>3, <3>1 DEF Tree
    <2> HIDE DEF windows
    <2> QED
      BY <1>4, <2>4, WindowsSound
  <1> QED
    BY <1>2, <1>3, <1>5, AnswerSound DEF IInv

LEMMA ApplyColorStep ==
  ASSUME IInv, ApplyColor
  PROVE  Sound(ws, ws')
  <1> DEFINE v  == Reconcile(ws)
             x  == [v EXCEPT !.popup = NoPopup]
             id == ws.popup.at.document
             u  == Changed(x, id)
  <1>1. ws.popup.kind = "color" /\ Answer("color", LAMBDA w : Changed(w, id))
    BY DEF ApplyColor
  <1>2. ws' = IF v.halted = "no" THEN Render(IF v.popup.kind = "color" THEN u ELSE v) ELSE v
    BY <1>1 DEF Answer, CanvasFrame
  <1>3. ws.popup.kind # "none"
    BY <1>1
  <1>4. Fit(x) /\ id \in Ids(x)
    BY <1>3, Answered DEF IInv
  <1>5. Sound(x, u)
    BY <1>4, ChangeSound
  <1> QED
    BY <1>2, <1>3, <1>5, AnswerSound DEF IInv

LEMMA ApplyExtractStep ==
  ASSUME IInv, ApplyExtract
  PROVE  Sound(ws, ws')
  <1> DEFINE v  == Reconcile(ws)
             x  == [v EXCEPT !.popup = NoPopup]
             at == ws.extract
             d  == Doc(ws, at.document)
             tree(host) == Extracted(d.tree, at.scope, at.nodes, host)
  <1>1. PICK host \in {n \in NodeId : Kind[n] = "Blueprint"} \ Sheet(d.tree, at.scope) :
          /\ ws.popup.kind = "extract" /\ MayEdit(tree(host))
          /\ Answer("extract", LAMBDA w :
               IF w.extract = Closed THEN w
               ELSE [WithDoc(w, Edited(d, tree(host))) EXCEPT !.extract = Closed])
    BY DEF ApplyExtract
  <1> DEFINE y == WithDoc(x, Edited(d, tree(host)))
             u == IF x.extract = Closed THEN x ELSE [y EXCEPT !.extract = Closed]
  <1>2. ws' = IF v.halted = "no" THEN Render(IF v.popup.kind = "extract" THEN u ELSE v) ELSE v
    BY <1>1 DEF Answer, CanvasFrame
  <1>3. ws.popup.kind # "none" /\ tree(host) \in Tree
    BY <1>1, EditsAreTrees
  <1>4. /\ Fit(x) /\ Ids(x) = Ids(ws) /\ Doc(x, at.document) = d
        /\ x.extract = v.extract
    BY <1>3, Answered DEF IInv
  <1>5. x.extract # Closed => at.document \in Ids(x)
    <2>1. x.extract \in {ws.extract, Closed}
      BY <1>4, Reconciled DEF IInv, Quieter
    <2>2. ws.extract = Closed \/ at.document \in Ids(ws)
      BY DEF IInv, Fit, Anchored, AllHeld, Held
    <2> HIDE DEF x
    <2> QED
      BY <1>4, <2>1, <2>2
  <1>6. Sound(x, u)
    <2>1. CASE x.extract = Closed
      BY <1>4, <2>1, ItselfSound
    <2>2. CASE x.extract # Closed
      <3> HIDE DEF x, at, tree, d
      <3>1. Sound(x, y)
        BY <1>3, <1>4, <1>5, <2>2, ChangedSound
      <3> HIDE DEF y
      <3>2. Fit(y) /\ Closed \in Place /\ Held(y, Closed)
        BY <3>1, ClosedFacts DEF Sound, Held
      <3>3. Sound(y, [y EXCEPT !.extract = Closed])
        BY <3>2, SmallWindowSound
      <3> QED
        BY <2>2, <3>1, <3>3, SoundTwice
    <2> QED
      BY <2>1, <2>2
  <1> QED
    BY <1>2, <1>3, <1>6, AnswerSound DEF IInv

LEMMA CommitInlineStep ==
  ASSUME IInv, CommitInline
  PROVE  Sound(ws, ws')
  <1> DEFINE v == Reconcile(ws)
             y == Changed(v, v.inline.document)
             u == IF v.inline = Closed THEN v ELSE [y EXCEPT !.inline = Closed]
  <1>1. ws' = IF v.halted = "no" THEN Render(u) ELSE v
    BY DEF CommitInline, CanvasFrame
  <1>2. Fit(v)
    BY Reconciled DEF IInv
  <1> HIDE DEF v
  <1>3. Sound(v, u)
    <2>1. CASE v.inline = Closed
      BY <1>2, <2>1, ItselfSound
    <2>2. CASE v.inline # Closed
      <3>1. v.inline.document \in Ids(v)
        BY <1>2, <2>2 DEF Fit, Anchored, AllHeld, Held
      <3>2. Sound(v, y)
        BY <1>2, <3>1, ChangeSound
      <3> HIDE DEF y
      <3>3. Sound(v, Clicked(y))
        BY <3>2, ClickedSound
      <3> QED
        BY <2>2, <3>3 DEF Clicked
    <2> QED
      BY <2>1, <2>2
  <1> QED
    BY <1>1, <1>3, CanvasFrameSound DEF IInv, v

LEMMA CancelInlineStep ==
  ASSUME IInv, CancelInline
  PROVE  Sound(ws, ws')
  <1>1. Sound(ws, Clicked(ws)) /\ KeyFrame(Clicked(ws))
    BY ItselfSound, ClickedSound DEF IInv, CancelInline
  <1> QED
    BY <1>1, KeyFrameSound

LEMMA AppliedSound ==
  ASSUME NEW w, Fit(w), NEW at, at.document \in Ids(w)
  PROVE  Sound(w, Applied(w, at))
  <1> DEFINE once  == Changed(w, at.document)
             twice == Changed(once, at.document)
  <1>1. Sound(w, once) /\ Ids(once) = Ids(w)
    BY ChangeSound
  <1>2. Applied(w, at) \in {once, twice}
    BY DEF Applied
  <1> HIDE DEF once
  <1>3. Sound(once, twice)
    BY <1>1, ChangeSound DEF Sound
  <1> HIDE DEF twice
  <1> QED
    BY <1>1, <1>2, <1>3, SoundTwice

LEMMA ApplyScriptStep ==
  ASSUME IInv, ApplyScript
  PROVE  Sound(ws, ws')
  <1> DEFINE v == Reconcile(ws)
  <1>1. PICK changed \in BOOLEAN :
          CanvasFrame(LAMBDA w : Clicked(IF w.script = Closed THEN w
            ELSE [IF changed THEN Applied(w, w.script) ELSE w EXCEPT !.script = Closed]))
    BY DEF ApplyScript
  <1> DEFINE y == IF changed THEN Applied(v, v.script) ELSE v
             x == IF v.script = Closed THEN v ELSE [y EXCEPT !.script = Closed]
             u == Clicked(x)
  <1>2. ws' = IF v.halted = "no" THEN Render(u) ELSE v
    BY <1>1 DEF CanvasFrame
  <1>3. Fit(v)
    BY Reconciled DEF IInv
  <1> HIDE DEF v
  <1>4. Sound(v, x)
    <2>1. CASE v.script = Closed
      BY <1>3, <2>1, ItselfSound
    <2>2. CASE v.script # Closed
      <3>1. v.script.document \in Ids(v)
        BY <1>3, <2>2 DEF Fit, Anchored, AllHeld, Held
      <3>2. Sound(v, y)
        BY <1>3, <3>1, AppliedSound, ItselfSound
      <3> HIDE DEF y
      <3>3. Fit(y) /\ Closed \in Place /\ Held(y, Closed)
        BY <3>2, ClosedFacts DEF Sound, Held
      <3>4. Sound(y, [y EXCEPT !.script = Closed])
        BY <3>3, SmallWindowSound
      <3> QED
        BY <2>2, <3>2, <3>4, SoundTwice
    <2> QED
      BY <2>1, <2>2
  <1> HIDE DEF x
  <1>5. Sound(v, u)
    BY <1>4, ClickedSound
  <1> QED
    BY <1>2, <1>5, CanvasFrameSound DEF IInv, v

LEMMA ApplyPropertiesStep ==
  ASSUME IInv, ApplyProperties
  PROVE  Sound(ws, ws')
  <1> DEFINE v == Reconcile(ws)
  <1>1. PICK changed \in BOOLEAN :
          CanvasFrame(LAMBDA w : Clicked(IF w.properties = Closed THEN w
            ELSE [IF changed THEN Applied(w, w.properties) ELSE w EXCEPT !.properties = Closed]))
    BY DEF ApplyProperties
  <1> DEFINE y == IF changed THEN Applied(v, v.properties) ELSE v
             x == IF v.properties = Closed THEN v ELSE [y EXCEPT !.properties = Closed]
             u == Clicked(x)
  <1>2. ws' = IF v.halted = "no" THEN Render(u) ELSE v
    BY <1>1 DEF CanvasFrame
  <1>3. Fit(v)
    BY Reconciled DEF IInv
  <1> HIDE DEF v
  <1>4. Sound(v, x)
    <2>1. CASE v.properties = Closed
      BY <1>3, <2>1, ItselfSound
    <2>2. CASE v.properties # Closed
      <3>1. v.properties.document \in Ids(v)
        BY <1>3, <2>2 DEF Fit, Anchored, AllHeld, Held
      <3>2. Sound(v, y)
        BY <1>3, <3>1, AppliedSound, ItselfSound
      <3> HIDE DEF y
      <3>3. Fit(y) /\ Closed \in Place /\ Held(y, Closed)
        BY <3>2, ClosedFacts DEF Sound, Held
      <3>4. Sound(y, [y EXCEPT !.properties = Closed])
        BY <3>3, SmallWindowSound
      <3> QED
        BY <2>2, <3>2, <3>4, SoundTwice
    <2> QED
      BY <2>1, <2>2
  <1> HIDE DEF x
  <1>5. Sound(v, u)
    BY <1>4, ClickedSound
  <1> QED
    BY <1>2, <1>5, CanvasFrameSound DEF IInv, v

-----------------------------------------------------------------------------
(* The theorems.                                                           *)

\* What no step may do is to write a file unasked.
Writes == ws'.disk # ws.disk => Save \/ (ApplyName /\ asked)

LEMMA InitFits ==
  ASSUME Init
  PROVE  IInv
  <1> DEFINE w == [tabs |-> <<>>, disk |-> Disk]
  <1>1. /\ w.tabs \in Seq(File) /\ Distinct(w.tabs)
        /\ w.disk \in [File -> Content \cup {Missing}]
    BY WorkspaceAssumption DEF Distinct, Content, Tree, File
  <1>2. ws = Restored(w) /\ asked = FALSE
    BY DEF Init
  <1> HIDE DEF w
  <1>3. Fit(Restored(w)) /\ Restored(w).popup = NoPopup
    BY <1>1, RestoredFacts DEF Saved
  <1> QED
    BY <1>2, <1>3, ClosedFacts DEF IInv, NameAsked

LEMMA NextKeeps ==
  ASSUME IInv, [Next]_vars
  PROVE  IInv' /\ Writes
  <1>1. CASE UNCHANGED vars
    BY <1>1 DEF vars, IInv, Writes, NameAsked
  <1>2. ASSUME Leaves
        PROVE  IInv' /\ Writes
    BY <1>2 DEF Leaves, Writes
  <1>3. ASSUME Sound(ws, ws'), asked' = asked
        PROVE  IInv' /\ Writes
    BY <1>2, <1>3, SoundLeaves
  <1>4. CASE Idle
    BY <1>3, <1>4, IdleStep DEF Idle
  <1>5. CASE NewDocument
    BY <1>3, <1>5, NewDocumentStep DEF NewDocument
  <1>6. CASE OpenFile
    BY <1>3, <1>6, OpenFileStep DEF OpenFile
  <1>7. CASE CloseTab
    BY <1>3, <1>7, CloseTabStep DEF CloseTab
  <1>8. CASE CloseDocument
    BY <1>3, <1>8, CloseDocumentStep DEF CloseDocument
  <1>9. CASE SelectTab
    BY <1>3, <1>9, SelectTabStep DEF SelectTab
  <1>10. CASE Focus
    BY <1>3, <1>10, FocusStep DEF Focus
  <1>11. CASE Restart
    BY <1>2, <1>11, RestartStep
  <1>12. CASE AskName
    BY <1>2, <1>12, AskNameStep
  <1>13. CASE Save
    BY <1>13, SaveStep DEF Writes
  <1>14. CASE SetName
    BY <1>2, <1>14, SetNameStep
  <1>15. CASE ApplyName
    BY <1>15, ApplyNameStep DEF Writes
  <1>16. CASE CancelName
    BY <1>2, <1>16, CancelNameStep
  <1>17. CASE DeleteKey
    BY <1>3, <1>17, DeleteKeyStep DEF DeleteKey
  <1>18. CASE Undo
    BY <1>3, <1>18, UndoStep DEF Undo
  <1>19. CASE Redo
    BY <1>3, <1>19, RedoStep DEF Redo
  <1>20. CASE OpenSubWindow
    BY <1>3, <1>20, OpenSubWindowStep DEF OpenSubWindow
  <1>21. CASE CloseSubWindow
    BY <1>3, <1>21, CloseSubWindowStep DEF CloseSubWindow
  <1>22. CASE OpenInlineValueEditor
    BY <1>3, <1>22, OpenInlineStep DEF OpenInlineValueEditor
  <1>23. CASE OpenContextMenu
    BY <1>3, <1>23, OpenMenusStep DEF OpenContextMenu
  <1>24. CASE OpenNodeMenu
    BY <1>3, <1>24, OpenMenusStep DEF OpenNodeMenu
  <1>25. CASE CancelPopup
    BY <1>3, <1>25, CancelPopupStep DEF CancelPopup
  <1>26. CASE AddComponent
    BY <1>3, <1>26, AddComponentStep DEF AddComponent, Answer
  <1>27. CASE EditScript
    BY <1>3, <1>27, EditScriptStep DEF EditScript, NodeMenu, Answer
  <1>28. CASE OpenProperties
    BY <1>3, <1>28, OpenPropertiesStep DEF OpenProperties, NodeMenu, Answer
  <1>29. CASE OpenColor
    BY <1>3, <1>29, OpenColorStep DEF OpenColor, NodeMenu, Answer
  <1>30. CASE OpenExtract
    BY <1>3, <1>30, OpenExtractStep DEF OpenExtract, NodeMenu, Answer
  <1>31. CASE DeleteEntry
    BY <1>3, <1>31, DeleteEntryStep DEF DeleteEntry, NodeMenu, Answer
  <1>32. CASE OpenInEditor
    BY <1>3, <1>32, OpenInEditorStep DEF OpenInEditor, NodeMenu, Answer
  <1>33. CASE ApplyColor
    BY <1>3, <1>33, ApplyColorStep DEF ApplyColor, Answer
  <1>34. CASE ApplyExtract
    BY <1>3, <1>34, ApplyExtractStep DEF ApplyExtract, Answer
  <1>35. CASE CommitInline
    BY <1>3, <1>35, CommitInlineStep DEF CommitInline
  <1>36. CASE CancelInline
    BY <1>3, <1>36, CancelInlineStep DEF CancelInline
  <1>37. CASE ApplyScript
    BY <1>3, <1>37, ApplyScriptStep DEF ApplyScript
  <1>38. CASE ApplyProperties
    BY <1>3, <1>38, ApplyPropertiesStep DEF ApplyProperties
  <1>39. CASE Documents
    BY <1>5, <1>6, <1>7, <1>8, <1>9, <1>10, <1>11, <1>12, <1>13, <1>14, <1>15, <1>16, <1>39
       DEF Documents
  <1>40. CASE Edits
    BY <1>17, <1>18, <1>19, <1>20, <1>21, <1>22, <1>23, <1>24, <1>25, <1>40 DEF Edits
  <1>41. CASE Dialogs
    BY <1>26, <1>27, <1>28, <1>29, <1>30, <1>31, <1>32, <1>33, <1>34, <1>35, <1>36, <1>37,
       <1>38, <1>41 DEF Dialogs
  <1> QED
    BY <1>1, <1>4, <1>39, <1>40, <1>41 DEF Next

\* In every state everything has its type, every dialog, the focus and the
\* active document are those of a document that is there, every tab is a file
\* that is open and on the list once, and a name that waits to be followed by a
\* save was asked for to save.
THEOREM WorkspaceInvariant == Spec => []IInv
  <1>1. Init => IInv
    BY InitFits
  <1>2. IInv /\ [Next]_vars => IInv'
    BY NextKeeps
  <1> QED
    BY <1>1, <1>2, PTL DEF Spec

\* No dialog, no small window, no focus and no active document is left when its
\* document is closed (TransientUIManager, WindowSystem::closeDocument).
THEOREM DialogsEndWithDocuments == Spec => []NothingOutlivesItsDocument
  <1>1. ASSUME IInv PROVE NothingOutlivesItsDocument
    <2>1. /\ ws.active \in Ids(ws) /\ ws.focus.document \in Ids(ws) /\ AllHeld(ws)
          /\ ws.documents \in Seq(Document)
      BY <1>1 DEF IInv, Fit, Anchored, State
    <2>2. \A at : Held(ws, at) => Owned(ws, at)
      BY <2>1, IndexFacts, ClosedFacts DEF Held, Owned
    <2>3. Held(ws, ws.popup.at)
      BY <2>1, ClosedFacts DEF AllHeld, Held
    <2> QED
      BY <2>1, <2>2, <2>3 DEF AllHeld, NothingOutlivesItsDocument
  <1> QED
    BY <1>1, WorkspaceInvariant, PTL

\* Every tab that the next start will open is a document that is open
\* (EditorSettings, WindowSystem::openDocument, closeDocument, Document::save).
THEOREM TabsShowDocuments == Spec => []TabsAreOpen
  <1>1. ASSUME IInv PROVE TabsAreOpen
    <2>1. ws.documents \in Seq(Document) /\ \A f \in Range(ws.tabs) : Showing(ws, f)
      BY <1>1 DEF IInv, Fit, Tabbed, State
    <2> QED
      BY <2>1, PathFacts DEF TabsAreOpen
  <1> QED
    BY <1>1, WorkspaceInvariant, PTL

\* No step writes a file but a save that was asked for
\* (SetNameDialog::apply, Document::save).
THEOREM FilesAreSavedOnRequest == Spec => SavesWhatIsAsked
  <1>1. IInv /\ [Next]_vars => [Writes]_vars
    BY NextKeeps
  <1>2. [Writes]_vars <=> [ws'.disk # ws.disk => Save \/ (ApplyName /\ asked)]_vars
    BY DEF Writes
  <1>3. Spec => [][ws'.disk # ws.disk => Save \/ (ApplyName /\ asked)]_vars
    BY <1>1, <1>2, WorkspaceInvariant, PTL DEF Spec
  <1> QED
    BY <1>3 DEF SavesWhatIsAsked
=============================================================================
