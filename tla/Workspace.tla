----------------------------- MODULE Workspace ------------------------------
(***************************************************************************)
(* The window system: the open documents with their tabs, and the dialogs  *)
(* and small windows that each work on a node of one of them while the     *)
(* user goes on editing, undoing, switching and closing.                   *)
(*                                                                         *)
(* The main loop draws everything in every frame: keys, menu, the check of *)
(* the dialogs (reconcile), tabs and canvases, then the dialogs.  An       *)
(* action is one frame with one input, at the place where that input is    *)
(* handled: what it changes is seen by some dialogs before the check and   *)
(* by others after it.                                                     *)
(*                                                                         *)
(* A document is the set of the paths of its nodes; an edit of contents    *)
(* makes a version with the same nodes.                                    *)
(***************************************************************************)
EXTENDS Integers, Sequences, SequencesExt, FiniteSets

CONSTANTS
  NodeId,      \* ids of nodes
  Kind,        \* of each id: "Value", "LuaScript" or "Blueprint"
  Missing,     \* a file that is not there
  Disk,        \* the files at first: file -> document, or Missing
  Trees,       \* bound: the documents an edit may make, as sets of paths
  MaxEdits,    \* bound: undo and redo entries of all documents for an edit
  MaxDialogs,  \* bound: small windows open when a menu or an editor is opened
  MaxOpen,     \* bound: documents open at a time
  MaxIds,      \* bound: documents made by one process
  MaxHistory   \* max_history_

File   == DOMAIN Disk
NoFile == "no file"

ASSUME WorkspaceAssumption ==
  /\ UNION Trees \subseteq Seq(NodeId)
  /\ {MaxEdits, MaxDialogs, MaxOpen, MaxIds, MaxHistory} \subseteq Nat \ {0} /\ DOMAIN Kind = NodeId
  /\ NoFile \notin File
  /\ Disk \in [File -> [named : BOOLEAN, tree : SUBSET Seq(NodeId)] \cup {Missing}]

VARIABLES
  ws,     \* the window system
  asked   \* ghost: a save was asked for and waits for a name

vars == <<ws, asked>>

Root == <<>>

-----------------------------------------------------------------------------
(* Documents.                                                              *)

Untitled(id) == [id |-> id, path |-> NoFile, named |-> FALSE, tree |-> {},
                 undo |-> <<>>, redo |-> <<>>, windows |-> {}]

Index(w, id)  == SelectInSeq(w.documents, LAMBDA d : d.id = id)
IsOpen(w, id) == Index(w, id) # 0
Doc(w, id)    == w.documents[Index(w, id)]
Ids(w)        == {w.documents[i].id : i \in DOMAIN w.documents}
WithDoc(w, d) == [w EXCEPT !.documents[Index(w, d.id)] = d]

\* embedded_path_exists, and the nodes of one blueprint.
Exists(tree, scope) == scope = Root \/ (scope \in tree /\ Kind[Last(scope)] = "Blueprint")
Sheet(tree, scope)  == {n \in NodeId : Append(scope, n) \in tree}

IsPristine(d) == d.path = NoFile /\ d.tree = {}

\* The windows whose blueprint is gone are removed after each change.
Shown(d, tree) == [d EXCEPT !.tree = tree, !.windows = {s \in @ : Exists(tree, s)}]

Pushed(d) ==
  [d EXCEPT !.redo = <<>>,
            !.undo = Append(IF Len(@) < MaxHistory THEN @ ELSE Tail(@), d.tree)]

Edited(d, tree) == Shown(Pushed(d), tree)

Undone(d) == [Shown(d, Last(d.undo)) EXCEPT !.undo = Front(@), !.redo = Append(@, d.tree)]
Redone(d) == [Shown(d, Last(d.redo)) EXCEPT !.redo = Front(@), !.undo = Append(@, d.tree)]

Without(tree, path) == {p \in tree : ~IsPrefix(path, p)}

\* Nodes of one sheet moved into a new blueprint beside them.
Extracted(tree, scope, nodes, host) ==
  LET gone == {p \in tree : \E n \in nodes : IsPrefix(Append(scope, n), p)}
  IN  (tree \ gone) \cup {Append(scope, host)}
      \cup {Append(scope, host) \o SubSeq(p, Len(scope) + 1, Len(p)) : p \in gone}

-----------------------------------------------------------------------------
(* Dialogs.  What each works on is a document, a scope and nodes in it;    *)
(* document 0 is none.                                                     *)

At(id, scope, nodes) == [document |-> id, scope |-> scope, nodes |-> nodes]
Closed == At(0, Root, {})

Popup(kind, at) == [kind |-> kind, at |-> at]
NoPopup == Popup("none", Closed)
Modal == {"color", "name", "extract"}

\* The document is still there.
Owned(w, at) == at.document = 0 \/ IsOpen(w, at.document)

\* So are the scope and the nodes.
Found(w, at) ==
  /\ Exists(Doc(w, at.document).tree, at.scope)
  /\ at.nodes \subseteq Sheet(Doc(w, at.document).tree, at.scope)

Resolved(w, at) == at.document = 0 \/ (IsOpen(w, at.document) /\ Found(w, at))

Kept(ok, at) == IF ok THEN at ELSE Closed

\* An embedded host throws when its path is gone.
Throws(w, at) ==
  at.document # 0 /\ IsOpen(w, at.document) /\ ~Exists(Doc(w, at.document).tree, at.scope)

Throw(w) == [w EXCEPT !.halted = "thrown"]

\* TransientUIManager::reconcile: each entry's still_valid, else close.  The
\* windows that hold a host look for the document only.
Reconcile(w) ==
  IF Throws(w, w.extract) THEN Throw(w)
  ELSE [w EXCEPT
    !.popup = IF Owned(w, @.at) /\ (@.kind = "color" => Resolved(w, @.at))
                THEN @ ELSE NoPopup,
    !.extract = Kept(Resolved(w, @), @), !.inline = Kept(Resolved(w, @), @),
    !.properties = Kept(Owned(w, @), @), !.script = Kept(Owned(w, @), @)]

\* The popups look up their document, the colour its node too.
RenderPopup(w) ==
  LET stays == CASE w.popup.kind = "color"   -> Resolved(w, w.popup.at)
                 [] w.popup.kind = "extract" -> w.extract # Closed
                 [] OTHER -> Owned(w, w.popup.at)
  IN  IF stays THEN w ELSE [w EXCEPT !.popup = NoPopup]

RenderInline(w) ==
  IF Throws(w, w.inline) THEN Throw(w)
  ELSE [w EXCEPT !.inline = Kept(Resolved(w, @), @)]

\* The script editor and the properties ask their host, which refers to the
\* model of the document.
RenderScript(w) ==
  CASE ~Owned(w, w.script)   -> [w EXCEPT !.halted = "freed"]
    [] Throws(w, w.script)   -> Throw(w)
    [] OTHER -> [w EXCEPT !.script = Kept(Resolved(w, @), @)]

RenderProperties(w) ==
  CASE ~Owned(w, w.properties)   -> [w EXCEPT !.halted = "freed"]
    [] Throws(w, w.properties)   -> Throw(w)
    [] OTHER -> [w EXCEPT !.properties = Kept(Resolved(w, @), @)]

Then(w, Draw(_)) == IF w.halted = "no" THEN Draw(w) ELSE w

Render(w) ==
  Then(Then(Then(Then(w, RenderPopup), RenderInline), RenderScript), RenderProperties)

\* close_for_document.
CloseForDocument(w, id) ==
  [w EXCEPT !.popup = IF @.at.document = id THEN NoPopup ELSE @,
            !.extract = Kept(@.document # id, @), !.inline = Kept(@.document # id, @),
            !.properties = Kept(@.document # id, @), !.script = Kept(@.document # id, @)]

-----------------------------------------------------------------------------
(* Opening, closing and choosing documents.                                *)

Focused(w, id, scope) == [w EXCEPT !.focus = [document |-> id, scope |-> scope]]

\* setActiveDocument.
Activated(w, id) ==
  IF w.active = id THEN w ELSE Focused([w EXCEPT !.active = id], id, Root)

Created(w) ==
  Activated([w EXCEPT !.documents = Append(@, Untitled(w.next_id)), !.next_id = @ + 1],
            w.next_id)

FindByPath(w, f) == SelectInSeq(w.documents, LAMBDA d : d.path = f)

Loaded(d, f, w) ==
  [d EXCEPT !.path = f, !.named = w.disk[f].named, !.tree = w.disk[f].tree,
            !.undo = <<>>, !.redo = <<>>, !.windows = {}]

AddOpenTab(w, f) == [w EXCEPT !.tabs = IF f \in Range(@) THEN @ ELSE Append(@, f)]

\* openDocument; a file that is not there or not valid changes nothing.
Opened(w, f) ==
  LET only == w.documents[1]
      new  == Loaded(Untitled(w.next_id), f, w)
  IN  IF FindByPath(w, f) # 0 THEN Activated(w, w.documents[FindByPath(w, f)].id)
      ELSE IF w.disk[f] = Missing THEN w
      ELSE IF Len(w.documents) = 1 /\ IsPristine(only)
        THEN AddOpenTab(WithDoc(w, Loaded(only, f, w)), f)
      ELSE AddOpenTab(Activated([w EXCEPT !.documents = Append(@, new), !.next_id = @ + 1],
                                new.id), f)

\* There is room, within the bounds, for one document more.
Room(w) == Len(w.documents) < MaxOpen /\ w.next_id <= MaxIds

(* Mutant: dialogs are left to find out by themselves.                     *)
DocumentClosedAlone(w, id) ==
  LET i    == Index(w, id)
      next == IF i < Len(w.documents) THEN w.documents[i + 1].id
              ELSE IF i > 1 THEN w.documents[i - 1].id ELSE 0
      v    == [w EXCEPT !.tabs = RemoveFirst(@, Doc(w, id).path),
                        !.active = IF @ = id THEN next ELSE @,
                        !.documents = RemoveAt(@, i)]
  IN  IF v.active = 0 THEN Created(v) ELSE Focused(v, v.active, Root)

(* Mutant: the tab is taken off the list after the document's path is gone. *)
DocumentClosedTabless(w, id) ==
  LET i    == Index(w, id)
      next == IF i < Len(w.documents) THEN w.documents[i + 1].id
              ELSE IF i > 1 THEN w.documents[i - 1].id ELSE 0
      v    == [CloseForDocument(w, id) EXCEPT
                 !.active = IF @ = id THEN next ELSE @,
                 !.documents = RemoveAt(@, i)]
  IN  IF v.active = 0 THEN Created(v) ELSE Focused(v, v.active, Root)

DocumentClosed(w, id) ==
  LET i    == Index(w, id)
      next == IF i < Len(w.documents) THEN w.documents[i + 1].id
              ELSE IF i > 1 THEN w.documents[i - 1].id ELSE 0
      v    == [CloseForDocument(w, id) EXCEPT
                 !.tabs = RemoveFirst(@, Doc(w, id).path),
                 !.active = IF @ = id THEN next ELSE @,
                 !.documents = RemoveAt(@, i)]
  IN  IF v.active = 0 THEN Created(v) ELSE Focused(v, v.active, Root)

\* resolve_focus: the document, and its root when the window is gone.
FocusDocument == Doc(ws, ws.focus.document)
FocusIsRoot   == ws.focus.scope \notin FocusDocument.windows

-----------------------------------------------------------------------------
(* Frames.                                                                 *)

\* An input of the keyboard or the main menu, of a canvas, of a dialog.
KeyFrame(w)    == ws' = Then(Reconcile(w), Render)
CanvasFrame(F(_)) == LET v == Reconcile(ws)
                     IN  ws' = IF v.halted = "no" THEN Render(F(v)) ELSE v

Running  == ws.halted = "no"
NoModal  == Running /\ ws.popup.kind \notin Modal
\* A click outside the popups, which also closes the inline value editor.
Pointing == Running /\ ws.popup = NoPopup

\* Within the bounds, an edit and a small window more.
MayEdit(tree) ==
  /\ tree \in Trees
  /\ FoldFunction(LAMBDA d, n : Len(d.undo \o d.redo) + n, 0, ws.documents) < MaxEdits
MayShow == Cardinality({a \in {<<1, ws.script>>, <<2, ws.properties>>} : a[2] # Closed})
             < MaxDialogs

Idle == Running /\ KeyFrame(ws) /\ UNCHANGED asked

\* The File menu is there when the focus is on a root window.
FileMenu == Pointing /\ FocusIsRoot
Clicked(w) == [w EXCEPT !.inline = Closed]

NewDocument == FileMenu /\ Room(ws) /\ KeyFrame(Clicked(Created(ws))) /\ UNCHANGED asked

\* Within the bounds, for this file.
RoomFor(f) ==
  \/ Room(ws) \/ FindByPath(ws, f) # 0
  \/ Len(ws.documents) = 1 /\ IsPristine(ws.documents[1])

OpenFile ==
  \E f \in File :
    /\ FileMenu /\ RoomFor(f)
    /\ KeyFrame(Clicked(Opened(ws, f)))
    /\ UNCHANGED asked

\* The menu goes on to ask the window that had the focus, freed with its
\* document, whether it is a root.
CloseTab ==
  /\ FileMenu /\ Len(ws.documents) > 1
  /\ LET w == Clicked(DocumentClosed(ws, ws.active))
     IN  \/ KeyFrame(w)
         \/ ws.focus.document = ws.active /\ ws' = [w EXCEPT !.halted = "freed"]
  /\ UNCHANGED asked

\* The cross of a tab.
CloseDocument ==
  \E id \in Ids(ws) :
    /\ Pointing /\ (Len(ws.documents) > 1 \/ ws.next_id <= MaxIds)
    /\ CanvasFrame(LAMBDA w : Clicked(DocumentClosed(w, id)))
    /\ UNCHANGED asked

SelectTab ==
  \E id \in Ids(ws) :
    Pointing /\ CanvasFrame(LAMBDA w : Clicked(Activated(w, id))) /\ UNCHANGED asked

\* A click into a window: sub-windows of all documents, one root.
Focus ==
  \E id \in Ids(ws) : \E s \in Doc(ws, id).windows \cup {Root} :
    /\ Pointing /\ (s = Root => id = ws.active)
    /\ CanvasFrame(LAMBDA w : Clicked(Focused(w, id, s)))
    /\ UNCHANGED asked

\* Leaving the program and starting it again: the tabs whose files can be
\* loaded come back.
Restored(w) ==
  LET Step[k \in 0 .. Len(w.tabs)] ==
        IF k = 0
          THEN Created([documents |-> <<>>, active |-> 0, next_id |-> 1, tabs |-> w.tabs,
                 focus |-> [document |-> 0, scope |-> Root], popup |-> NoPopup,
                 extract |-> Closed, inline |-> Closed, script |-> Closed,
                 properties |-> Closed, save_after |-> FALSE, disk |-> w.disk,
                 halted |-> "no"])
        ELSE LET f == w.tabs[k]
                 v == Opened(Step[k - 1], f)
             IN  IF w.disk[f] = Missing
                   THEN [v EXCEPT !.tabs = RemoveFirst(@, f)] ELSE v
  IN  Step[Len(w.tabs)]

Restart ==
  /\ Running
  /\ \E id \in Ids(Restored(ws)) : ws' = Activated(Restored(ws), id)
  /\ asked' = FALSE

-----------------------------------------------------------------------------
(* Saving.                                                                 *)

\* Document::save, to a path the user chooses when there is none; it may be
\* refused.
Saves(w) ==
  LET d == Doc(w, w.active)
      To(f) == [WithDoc(w, [d EXCEPT !.path = f]) EXCEPT
                  !.disk[f] = [named |-> d.named, tree |-> d.tree]]
  IN  {w} \cup {To(f) : f \in IF d.path = NoFile THEN File ELSE {d.path}}

\* Ctrl+S, which no popup and no window holds back, and the menu.
AskName ==
  /\ Running /\ ~Doc(ws, ws.active).named
  /\ KeyFrame([ws EXCEPT !.popup = Popup("name", At(ws.active, Root, {})),
                         !.save_after = TRUE])
  /\ asked' = TRUE

Save ==
  /\ Running /\ Doc(ws, ws.active).named
  /\ \E w \in Saves(ws) : KeyFrame(w)
  /\ UNCHANGED asked

(* Mutant: Set Name does not say that there is nothing to save.              *)
SetNameOnly ==
  /\ Pointing /\ FocusIsRoot
  /\ KeyFrame([Clicked(ws) EXCEPT !.popup = Popup("name", At(ws.focus.document, Root, {}))])
  /\ asked' = FALSE

\* Blueprint > Set Name.
SetName ==
  /\ Pointing /\ FocusIsRoot
  /\ KeyFrame([Clicked(ws) EXCEPT !.popup = Popup("name", At(ws.focus.document, Root, {})),
                                  !.save_after = FALSE])
  /\ asked' = FALSE

\* OK and Cancel; the document is looked up again.
ApplyName ==
  LET id    == ws.popup.at.document
      v     == Reconcile(ws)
      named == [WithDoc(v, [Doc(v, id) EXCEPT !.named = TRUE]) EXCEPT !.popup = NoPopup]
  IN  /\ Running /\ ws.popup.kind = "name" /\ asked' = FALSE
      /\ \E u \in IF ws.save_after
                    THEN Saves([named EXCEPT !.save_after = FALSE, !.active = id])
                    ELSE {named} :
           CanvasFrame(LAMBDA w : [u EXCEPT !.active = ws.active])

CancelName ==
  /\ Running /\ ws.popup.kind = "name" /\ asked' = FALSE
  /\ CanvasFrame(LAMBDA w : [w EXCEPT !.popup = NoPopup])

-----------------------------------------------------------------------------
(* Editing.                                                                *)

\* Windows a click or a key can go to: the sub-windows of every document are
\* drawn, and the root of the active one.
Canvases == {c \in Ids(ws) \X ({Root} \cup UNION Trees) :
               IF c[2] = Root THEN c[1] = ws.active ELSE c[2] \in Doc(ws, c[1]).windows}

DeleteKey ==
  \E c \in Canvases : \E n \in Sheet(Doc(ws, c[1]).tree, c[2]) :
    LET d == Doc(ws, c[1])
        tree == Without(d.tree, Append(c[2], n))
    IN  /\ Pointing /\ MayEdit(tree) /\ UNCHANGED asked
        /\ CanvasFrame(LAMBDA w : WithDoc(w, Edited(d, tree)))

\* The keys and the Edit menu; neither while the properties are open.
Undo ==
  \E id \in {ws.active, ws.focus.document} :
    /\ NoModal /\ ws.properties = Closed /\ Doc(ws, id).undo # <<>>
    /\ KeyFrame(WithDoc(ws, Undone(Doc(ws, id)))) /\ UNCHANGED asked

Redo ==
  \E id \in {ws.active, ws.focus.document} :
    /\ NoModal /\ ws.properties = Closed /\ Doc(ws, id).redo # <<>>
    /\ KeyFrame(WithDoc(ws, Redone(Doc(ws, id)))) /\ UNCHANGED asked

\* Double clicks on a blueprint and on a value.
OpenSubWindow ==
  \E c \in Canvases : \E n \in Sheet(Doc(ws, c[1]).tree, c[2]) :
    /\ Pointing /\ Kind[n] = "Blueprint" /\ UNCHANGED asked
    /\ CanvasFrame(LAMBDA w : Clicked(WithDoc(w,
         [Doc(w, c[1]) EXCEPT !.windows = @ \cup {Append(c[2], n)}])))

CloseSubWindow ==
  \E id \in Ids(ws) : \E s \in Doc(ws, id).windows :
    /\ Pointing /\ UNCHANGED asked
    /\ CanvasFrame(LAMBDA w : Clicked(WithDoc(w, [Doc(w, id) EXCEPT !.windows = @ \ {s}])))

OpenInlineValueEditor ==
  \E c \in Canvases : \E n \in Sheet(Doc(ws, c[1]).tree, c[2]) :
    /\ Pointing /\ MayShow /\ Kind[n] = "Value" /\ UNCHANGED asked
    /\ CanvasFrame(LAMBDA w : [w EXCEPT !.inline = At(c[1], c[2], {n})])

\* A right click on the canvas or on a node.
OpenContextMenu ==
  \E c \in Canvases :
    /\ Pointing /\ MayShow /\ UNCHANGED asked
    /\ CanvasFrame(LAMBDA w : [Clicked(w) EXCEPT !.popup = Popup("add", At(c[1], c[2], {}))])

OpenNodeMenu ==
  \E c \in Canvases : \E n \in Sheet(Doc(ws, c[1]).tree, c[2]) :
    /\ Pointing /\ MayShow /\ UNCHANGED asked
    /\ CanvasFrame(LAMBDA w : [Clicked(w) EXCEPT !.popup = Popup("node", At(c[1], c[2], {n}))])

\* Another way out of every popup: Cancel, or a click beside a menu.
CancelPopup ==
  /\ Running /\ ws.popup.kind \notin {"none", "name"} /\ UNCHANGED asked
  /\ CanvasFrame(LAMBDA w : [Clicked(w) EXCEPT !.popup = NoPopup,
       !.extract = IF w.popup.kind = "extract" THEN Closed ELSE @])

-----------------------------------------------------------------------------
(* Menus and dialogs.                                                      *)

\* A frame in which the popup of this kind is answered.
Answer(kind, F(_)) ==
  /\ Running /\ ws.popup.kind = kind /\ UNCHANGED asked
  /\ CanvasFrame(LAMBDA w : IF w.popup.kind = kind THEN F([w EXCEPT !.popup = NoPopup])
                            ELSE w)

\* addComponent fails safely in a scope that is gone.
AddComponent ==
  \E n \in NodeId :
    LET at   == ws.popup.at
        d    == Doc(ws, at.document)
        tree == d.tree \cup {Append(at.scope, n)}
    IN  /\ ws.popup.kind = "add" /\ MayEdit(tree) /\ tree # d.tree
        /\ Answer("add", LAMBDA w :
             IF Exists(d.tree, at.scope) THEN WithDoc(w, Edited(d, tree)) ELSE w)

\* The entries of the node menu, while its node is there.
NodeMenu(F(_)) ==
  /\ ws.popup.kind = "node" /\ Resolved(ws, ws.popup.at) /\ Answer("node", F)

Targets(kind) == \E n \in ws.popup.at.nodes : Kind[n] = kind

EditScript ==
  Targets("LuaScript") /\ NodeMenu(LAMBDA w : [w EXCEPT !.script = ws.popup.at])
OpenProperties == NodeMenu(LAMBDA w : [w EXCEPT !.properties = ws.popup.at])
OpenColor == NodeMenu(LAMBDA w : [w EXCEPT !.popup = Popup("color", ws.popup.at)])

OpenExtract ==
  /\ ws.popup.kind = "node"
  /\ \E more \in SUBSET Sheet(Doc(ws, ws.popup.at.document).tree, ws.popup.at.scope) :
      LET at == [ws.popup.at EXCEPT !.nodes = more]
      IN  /\ Cardinality(more) >= 2
          /\ NodeMenu(LAMBDA w : [w EXCEPT !.popup = Popup("extract", at), !.extract = at])

DeleteEntry ==
  LET at == ws.popup.at
      d  == Doc(ws, at.document)
      tree(n) == Without(d.tree, Append(at.scope, n))
  IN  \E n \in at.nodes :
        MayEdit(tree(n)) /\ NodeMenu(LAMBDA w : WithDoc(w, Edited(d, tree(n))))

OpenInEditor ==
  LET at == ws.popup.at
      d  == Doc(ws, at.document)
  IN  \E n \in at.nodes :
        /\ Kind[n] = "Blueprint"
        /\ NodeMenu(LAMBDA w : WithDoc(w, [d EXCEPT !.windows = @ \cup {Append(at.scope, n)}]))

\* An edit of what a node holds.
Changed(w, id) == WithDoc(w, Edited(Doc(w, id), Doc(w, id).tree))

MayChange(id) == MayEdit(Doc(ws, id).tree)

ApplyColor ==
  LET id == ws.popup.at.document
  IN  ws.popup.kind = "color" /\ MayChange(id) /\ Answer("color", LAMBDA w : Changed(w, id))

ApplyExtract ==
  LET at == ws.extract
      d  == Doc(ws, at.document)
      tree(host) == Extracted(d.tree, at.scope, at.nodes, host)
  IN  /\ ws.popup.kind = "extract"
      /\ \E host \in {n \in NodeId : Kind[n] = "Blueprint"} \ Sheet(d.tree, at.scope) :
           /\ MayEdit(tree(host))
           /\ Answer("extract", LAMBDA w :
                IF w.extract = Closed THEN w
                ELSE [WithDoc(w, Edited(d, tree(host))) EXCEPT !.extract = Closed])

CommitInline ==
  /\ NoModal /\ ws.inline # Closed
  /\ MayChange(ws.inline.document) /\ UNCHANGED asked
  /\ CanvasFrame(LAMBDA w : IF w.inline = Closed THEN w
                            ELSE [Changed(w, w.inline.document) EXCEPT !.inline = Closed])

CancelInline ==
  NoModal /\ ws.inline # Closed /\ KeyFrame(Clicked(ws)) /\ UNCHANGED asked

\* replace_current of an embedded host makes an undo entry of its own.
Applied(w, at) ==
  LET once == Changed(w, at.document)
  IN  IF at.scope = Root THEN once ELSE Changed(once, at.document)

ApplyScript ==
  \E changed \in BOOLEAN :
    /\ NoModal /\ ws.script # Closed /\ UNCHANGED asked
    /\ changed => MayChange(ws.script.document)
    /\ CanvasFrame(LAMBDA w : Clicked(IF w.script = Closed THEN w
         ELSE [IF changed THEN Applied(w, w.script) ELSE w EXCEPT !.script = Closed]))

ApplyProperties ==
  \E changed \in BOOLEAN :
    /\ NoModal /\ ws.properties # Closed /\ UNCHANGED asked
    /\ changed => MayChange(ws.properties.document)
    /\ CanvasFrame(LAMBDA w : Clicked(IF w.properties = Closed THEN w
         ELSE [IF changed THEN Applied(w, w.properties) ELSE w EXCEPT !.properties = Closed]))

-----------------------------------------------------------------------------

Init ==
  /\ asked = FALSE
  /\ ws = Restored([tabs |-> <<>>, disk |-> Disk])

Documents == \/ NewDocument \/ OpenFile \/ CloseTab \/ CloseDocument \/ SelectTab
             \/ Focus \/ Restart \/ AskName \/ Save \/ SetName \/ ApplyName \/ CancelName
Edits == \/ DeleteKey \/ Undo \/ Redo \/ OpenSubWindow \/ CloseSubWindow
         \/ OpenInlineValueEditor \/ OpenContextMenu \/ OpenNodeMenu \/ CancelPopup
Dialogs == \/ AddComponent \/ EditScript \/ OpenProperties \/ OpenColor
           \/ OpenExtract \/ DeleteEntry \/ OpenInEditor \/ ApplyColor
           \/ ApplyExtract \/ CommitInline \/ CancelInline \/ ApplyScript \/ ApplyProperties

Next == Idle \/ Documents \/ Edits \/ Dialogs

Spec == Init /\ [][Next]_vars

-----------------------------------------------------------------------------
(* Properties.                                                             *)

\* No dialog and no window is left with a document that was closed, in whatever
\* frame and order it was opened, replaced, answered or closed: its host refers
\* to the document's model. Nor is the focus, or the place of the active one.
NothingOutlivesItsDocument ==
  /\ {ws.active, ws.focus.document} \subseteq Ids(ws)
  /\ \A at \in {ws.popup.at, ws.extract, ws.inline, ws.script, ws.properties} : Owned(ws, at)

\* The tabs that a restart will open are documents that are open now, also when
\* documents were saved over one another or loaded in place.
TabsAreOpen == \A f \in Range(ws.tabs) : FindByPath(ws, f) # 0

\* No file is written unless a save was asked for: a name that was asked for to
\* save, refused, and given later for its own sake, saves nothing.
SavesWhatIsAsked ==
  [][ws'.disk # ws.disk => Save \/ (ApplyName /\ asked)]_vars
=============================================================================
